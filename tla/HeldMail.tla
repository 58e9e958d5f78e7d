------------------------------ MODULE HeldMail ------------------------------
(***************************************************************************)
(* What the release of held mail promises, whichever way it is held.  An   *)
(* item is taken by one actor, who hands it over, gives it back or strands *)
(* it (crash, failed rollback); a held item may also be dropped (cancelled,*)
(* rejected, expired).  The hand-over may fail although the downstream MTA *)
(* has accepted a copy; no other step adds a copy.                         *)
(***************************************************************************)
EXTENDS Naturals

CONSTANT Items

VARIABLES
    state,   \* where each item is
    copies   \* copies accepted by the downstream MTA

vars == <<state, copies>>

HeldStates == {"held", "taken", "failing", "delivered", "dropped", "stranded"}

TypeOK ==
    /\ state \in [Items -> HeldStates]
    /\ copies \in [Items -> Nat]

Init ==
    /\ state = [i \in Items |-> "held"]
    /\ copies = [i \in Items |-> 0]

Move(i, from, to) ==
    /\ state[i] \in from
    /\ state' = [state EXCEPT ![i] = to]

OneMore(i) == copies' = [copies EXCEPT ![i] = @ + 1]

Take(i) == Move(i, {"held"}, "taken") /\ UNCHANGED copies
Deliver(i) == Move(i, {"taken"}, "delivered") /\ OneMore(i)
Fail(i) == Move(i, {"taken"}, "failing") /\ (OneMore(i) \/ UNCHANGED copies)
GiveBack(i) == Move(i, {"failing"}, "held") /\ UNCHANGED copies

\* Several items at once: overdue requests expire in one transaction.
Drop(dropped) ==
    /\ \A i \in dropped : state[i] = "held"
    /\ state' = [i \in Items |-> IF i \in dropped THEN "dropped" ELSE state[i]]
    /\ UNCHANGED copies

Strand(i) == Move(i, {"held", "taken", "failing"}, "stranded") /\ UNCHANGED copies

Next ==
    \/ \E i \in Items : Take(i) \/ Deliver(i) \/ Fail(i) \/ GiveBack(i) \/ Strand(i)
    \/ \E dropped \in SUBSET Items : Drop(dropped)

Spec == Init /\ [][Next]_vars
=============================================================================
