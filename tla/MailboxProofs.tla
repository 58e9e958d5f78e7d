--------------------------- MODULE MailboxProofs ---------------------------
(***************************************************************************)
(* Proofs about who may see a mailbox and what becomes of the mail that is *)
(* quarantined for it: Directory, for any people, groups, mailboxes,       *)
(* replicas and logins, and Quarantine, for any mails and requests, both   *)
(* for any bounds.  The two specifications are proved about apart.         *)
(***************************************************************************)
EXTENDS DirectoryLive, Quarantine, TLAPS

(***************************************************************************)
(* Quarantine.                                                             *)
(***************************************************************************)

\* A request works on a mail exactly while it is past its list.
HasMail == \A p \in Requests : cur[p] = NoMail <=> at[p] \in {"idle", "next"}

Typed == TypeOK /\ HasMail

\* What is true of a mail that no two requests had in hand at the same time:
\* one request at most has it, knows what it read of it, and writes before it
\* sends; nobody takes it after a confirmed hand-over.
Alone(m) ==
    /\ \A p, q \in Requests : InHand(p, m) /\ InHand(q, m) => p = q
    /\ confirmed[m] \in {0, 1}
    /\ confirmed[m] = 1 => status[m] = "delivered" /\ \A p \in Requests : ~InHand(p, m)
    /\ \A p \in Requests :
        /\ InHand(p, m) /\ at[p] \in {"update", "delete"} => status[m] # "delivered"
        /\ Releasing(p, m) => status[m] = "delivered"
    /\ status[m] = "delivered" /\ ~lost[m]
          => confirmed[m] = 1 \/ \E p \in Requests : Releasing(p, m)

IInv == Typed /\ \A m \in Mails : ~overlapped[m] => Alone(m)

LEMMA InitIInv == Init => IInv
<1> SUFFICES ASSUME Init PROVE IInv
  OBVIOUS
<1> USE QuarantineAssumption DEF Init
<1>1. TypeOK
  BY DEF TypeOK, Statuses, Steps
<1>2. HasMail
  BY DEF HasMail
<1>3. ASSUME NEW m \in Mails PROVE Alone(m)
  <2>1. /\ status[m] = "quarantined" /\ confirmed[m] = 0
        /\ \A p \in Requests : cur[p] # m
    OBVIOUS
  <2> QED
    BY <2>1 DEF Alone, InHand, Releasing
<1> QED
  BY <1>1, <1>2, <1>3 DEF IInv, Typed

LEMMA TypedStep == ASSUME Typed, [Next]_vars PROVE Typed'
<1> USE QuarantineAssumption
    DEF Typed, TypeOK, HasMail, Statuses, Steps, procVars, historyVars, Goto, Return, TakeInHand
<1>1. ASSUME NEW p \in Requests, NEW ms \in SUBSET Mails, Open(p, ms) PROVE Typed'
  BY <1>1 DEF Open
<1>2. ASSUME NEW p \in Requests, NEW m \in Mails,
             CheckRelease(p, m) \/ Refuse(p, m) \/ CheckDelete(p, m)
      PROVE  Typed'
  <2>1. CASE CheckRelease(p, m)
    BY <1>2, <2>1 DEF CheckRelease
  <2>2. CASE Refuse(p, m)
    BY <1>2, <2>2 DEF Refuse
  <2>3. CASE CheckDelete(p, m)
    BY <1>2, <2>3 DEF CheckDelete
  <2> QED
    BY <1>2, <2>1, <2>2, <2>3
<1>3. ASSUME NEW p \in Requests, MarkDelivered(p) PROVE Typed'
  BY <1>3 DEF MarkDelivered
<1>4. ASSUME NEW p \in Requests, MarkFails(p) PROVE Typed'
  BY <1>4, ZenonT(60) DEF MarkFails
<1>5. ASSUME NEW p \in Requests, Load(p) \/ LoadFails(p) \/ Finish(p) PROVE Typed'
  BY <1>5 DEF Load, LoadFails, Finish
<1>6. ASSUME NEW p \in Requests, SendAccepted(p) PROVE Typed'
  BY <1>6 DEF SendAccepted
<1>7. ASSUME NEW p \in Requests, SendFails(p) PROVE Typed'
  BY <1>7 DEF SendFails
<1>8. ASSUME NEW p \in Requests, Rollback(p) \/ RollbackFails(p) PROVE Typed'
  BY <1>8, ZenonT(60) DEF Rollback, RollbackFails
<1>9. ASSUME NEW p \in Requests, Delete(p) \/ DeleteFails(p) PROVE Typed'
  BY <1>9 DEF Delete, DeleteFails
<1>10. ASSUME NEW p \in Requests, Crash(p) PROVE Typed'
  BY <1>10 DEF Crash, Releasing
<1>11. ASSUME NEW ms \in SUBSET Mails, BulkDelete(ms) PROVE Typed'
  BY <1>11 DEF BulkDelete
<1>12. ASSUME NEW m \in Mails, Archive(m) PROVE Typed'
  BY <1>12 DEF Archive
<1>13. CASE UNCHANGED vars
  BY <1>13 DEF vars
<1> QED
  BY <1>1, <1>2, <1>3, <1>4, <1>5, <1>6, <1>7, <1>8, <1>9, <1>10, <1>11, <1>12, <1>13 DEF Next

\* Every variable keeps its type, and a request holds a mail exactly between
\* its look at the status and its last write.
THEOREM TypeCorrect == Spec => []TypeOK
<1>1. Init => Typed
  BY InitIInv DEF IInv
<1>2. Typed /\ [Next]_vars => Typed'
  BY TypedStep
<1>3. Typed => TypeOK
  BY DEF Typed
<1> QED
  BY <1>1, <1>2, <1>3, PTL DEF Spec

-----------------------------------------------------------------------------
(* The status speaks the truth as long as requests do not overlap.         *)

LEMMA AloneStep ==
  ASSUME IInv, [Next]_vars, NEW m \in Mails, ~overlapped'[m]
  PROVE  Alone(m)'
<1> USE QuarantineAssumption
    DEF Typed, TypeOK, HasMail, Statuses, Steps, procVars, historyVars, Goto, Return,
        TakeInHand, Alone, InHand, Releasing
<1>1. Typed /\ Typed'
  BY TypedStep DEF IInv
<1>2. ~overlapped[m] /\ Alone(m)
  <2>1. ASSUME NEW p \in Requests, NEW x \in Mails, CheckRelease(p, x) \/ CheckDelete(p, x)
        PROVE  ~overlapped[m]
    BY <1>1, <2>1 DEF CheckRelease, CheckDelete
  <2>2. ASSUME overlapped' = overlapped PROVE ~overlapped[m]
    BY <2>2
  <2>3. ASSUME NEW p \in Requests,
               \/ \E ms \in SUBSET Mails : Open(p, ms)
               \/ \E x \in Mails : Refuse(p, x)
               \/ Finish(p) \/ Load(p) \/ LoadFails(p) \/ Crash(p)
        PROVE  overlapped' = overlapped
    BY <2>3 DEF Open, Refuse, Finish, Load, LoadFails, Crash
  <2>4. ASSUME NEW p \in Requests,
               \/ MarkDelivered(p) \/ MarkFails(p) \/ SendAccepted(p) \/ SendFails(p)
               \/ Rollback(p) \/ RollbackFails(p) \/ Delete(p) \/ DeleteFails(p)
        PROVE  overlapped' = overlapped
    BY <2>4 DEF MarkDelivered, MarkFails, SendAccepted, SendFails, Rollback, RollbackFails,
                Delete, DeleteFails
  <2>5. ASSUME \/ \E ms \in SUBSET Mails : BulkDelete(ms)
               \/ \E x \in Mails : Archive(x)
               \/ UNCHANGED vars
        PROVE  overlapped' = overlapped
    BY <2>5 DEF BulkDelete, Archive, vars
  <2>6. ~overlapped[m]
    BY <2>1, <2>2, <2>3, <2>4, <2>5 DEF Next
  <2> QED
    BY <2>6 DEF IInv
<1>3. ASSUME NEW p \in Requests, NEW ms \in SUBSET Mails, Open(p, ms) PROVE Alone(m)'
  BY <1>1, <1>2, <1>3 DEF Open
<1>4. ASSUME NEW p \in Requests, NEW x \in Mails, CheckRelease(p, x) PROVE Alone(m)'
  BY <1>1, <1>2, <1>4 DEF CheckRelease
<1>5. ASSUME NEW p \in Requests, NEW x \in Mails, Refuse(p, x) PROVE Alone(m)'
  BY <1>1, <1>2, <1>5 DEF Refuse
<1>6. ASSUME NEW p \in Requests, NEW x \in Mails, CheckDelete(p, x) PROVE Alone(m)'
  <2>1. /\ cur[p] = NoMail /\ cur' = [cur EXCEPT ![p] = x] /\ at' = [at EXCEPT ![p] = "delete"]
        /\ status[x] = "quarantined" /\ UNCHANGED <<status, confirmed, lost>>
    BY <1>1, <1>6 DEF CheckDelete
  <2>2. CASE x = m
    <3>1. overlapped'[m] = (overlapped[m] \/ \E q \in Requests \ {p} : cur[q] = m)
      BY <1>1, <1>6, <2>2 DEF CheckDelete
    <3>2. \A q \in Requests : cur[q] # m
      BY <2>1, <3>1
    <3> QED
      BY <1>1, <1>2, <2>1, <2>2, <3>2
  <2>3. CASE x # m
    <3>1. \A q \in Requests : cur'[q] = m => cur[q] = m /\ at'[q] = at[q]
      BY <1>1, <2>1, <2>3
    <3>2. \A q \in Requests : Releasing(q, m) => Releasing(q, m)'
      BY <1>1, <2>1, <2>3
    <3> QED
      BY <1>1, <1>2, <2>1, <3>1, <3>2
  <2> QED
    BY <2>2, <2>3
<1>7. ASSUME NEW p \in Requests, MarkDelivered(p) PROVE Alone(m)'
  BY <1>1, <1>2, <1>7 DEF MarkDelivered
<1>8. ASSUME NEW p \in Requests, MarkFails(p) PROVE Alone(m)'
  BY <1>1, <1>2, <1>8 DEF MarkFails
<1>9. ASSUME NEW p \in Requests, Load(p) \/ LoadFails(p) PROVE Alone(m)'
  BY <1>1, <1>2, <1>9 DEF Load, LoadFails
<1>10. ASSUME NEW p \in Requests, SendAccepted(p) PROVE Alone(m)'
  BY <1>1, <1>2, <1>10 DEF SendAccepted
<1>11. ASSUME NEW p \in Requests, SendFails(p) PROVE Alone(m)'
  BY <1>1, <1>2, <1>11 DEF SendFails
<1>12. ASSUME NEW p \in Requests, Rollback(p) PROVE Alone(m)'
  BY <1>1, <1>2, <1>12 DEF Rollback
<1>13. ASSUME NEW p \in Requests, RollbackFails(p) PROVE Alone(m)'
  BY <1>1, <1>2, <1>13 DEF RollbackFails
<1>14. ASSUME NEW p \in Requests, Finish(p) PROVE Alone(m)'
  BY <1>1, <1>2, <1>14 DEF Finish
<1>15. ASSUME NEW p \in Requests, Delete(p) PROVE Alone(m)'
  BY <1>1, <1>2, <1>15 DEF Delete
<1>16. ASSUME NEW p \in Requests, DeleteFails(p) PROVE Alone(m)'
  BY <1>1, <1>2, <1>16 DEF DeleteFails
<1>17. ASSUME NEW p \in Requests, Crash(p) PROVE Alone(m)'
  <2>1. /\ \A q \in Requests : cur'[q] = m => q # p /\ cur[q] = m /\ at'[q] = at[q]
        /\ UNCHANGED <<status, confirmed>>
    BY <1>1, <1>17 DEF Crash
  <2>2. lost'[m] = (lost[m] \/ Releasing(p, m))
    BY <1>17 DEF Crash
  <2>3. ASSUME ~lost'[m], NEW q \in Requests, Releasing(q, m) PROVE Releasing(q, m)'
    BY <1>1, <1>17, <2>2, <2>3 DEF Crash
  <2> QED
    BY <1>1, <1>2, <2>1, <2>2, <2>3
<1>18. ASSUME NEW ms \in SUBSET Mails, BulkDelete(ms) PROVE Alone(m)'
  BY <1>1, <1>2, <1>18 DEF BulkDelete
<1>19. ASSUME NEW x \in Mails, Archive(x) PROVE Alone(m)'
  BY <1>1, <1>2, <1>19 DEF Archive
<1>20. CASE UNCHANGED vars
  BY <1>2, <1>20 DEF vars
<1> QED
  BY <1>3, <1>4, <1>5, <1>6, <1>7, <1>8, <1>9, <1>10, <1>11, <1>12, <1>13, <1>14, <1>15, <1>16,
     <1>17, <1>18, <1>19, <1>20 DEF Next

LEMMA Invariant == Spec => []IInv
<1>1. IInv /\ [Next]_vars => IInv'
  BY AloneStep, TypedStep DEF IInv
<1> QED
  BY InitIInv, <1>1, PTL DEF Spec

\* Without a claim, a release is safe as long as no two requests have the mail
\* in hand: confirmed at most once, its status the truth.
THEOREM SafeWithoutOverlap == Spec => []OneAtATimeIsSafe
<1>1. IInv => OneAtATimeIsSafe
  BY DEF IInv, Alone, OneAtATimeIsSafe
<1> QED
  BY Invariant, <1>1, PTL

\* No bulk deletion, of whatever ids, takes a mail from a request that is
\* handing it over.
THEOREM UndisturbedRelease == Spec => []ReleaseIsNotDisturbed
<1>1. IInv => ReleaseIsNotDisturbed
  BY DEF IInv, Alone, ReleaseIsNotDisturbed
<1> QED
  BY Invariant, <1>1, PTL

-----------------------------------------------------------------------------
(* The promise of held mail.                                               *)

\* What the mapping makes of a mail that nobody disturbs.
StateFacts ==
    \A m \in Mails :
        /\ status[m] = "quarantined" => heldState[m] = "held"
        /\ status[m] = "rejected" => heldState[m] = "dropped"
        /\ confirmed[m] = 1 => heldState[m] = "delivered"
        /\ \A p \in Requests : Releasing(p, m) =>
              heldState[m] = IF at[p] = "rollback" THEN "failing" ELSE "taken"
        /\ status[m] = "delivered" /\ confirmed[m] = 0 /\ (\A p \in Requests : ~Releasing(p, m))
              => heldState[m] = "stranded"

LEMMA StateOf == IInv /\ Undisturbed => StateFacts
<1> SUFFICES ASSUME IInv, Undisturbed, NEW m \in Mails
             PROVE  /\ status[m] = "quarantined" => heldState[m] = "held"
                    /\ status[m] = "rejected" => heldState[m] = "dropped"
                    /\ confirmed[m] = 1 => heldState[m] = "delivered"
                    /\ \A p \in Requests : Releasing(p, m) =>
                          heldState[m] = IF at[p] = "rollback" THEN "failing" ELSE "taken"
                    /\ status[m] = "delivered" /\ confirmed[m] = 0
                          /\ (\A p \in Requests : ~Releasing(p, m))
                             => heldState[m] = "stranded"
  BY DEF StateFacts
<1>1. Alone(m)
  BY DEF IInv, Undisturbed
<1>2. /\ confirmed[m] \in {0, 1} /\ status[m] \in Statuses
      /\ confirmed[m] = 1 => status[m] = "delivered"
  BY <1>1 DEF Alone, IInv, Typed, TypeOK
<1>3. /\ status[m] = "quarantined" => heldState[m] = "held"
      /\ status[m] = "rejected" => heldState[m] = "dropped"
      /\ confirmed[m] = 1 => heldState[m] = "delivered"
  BY <1>2 DEF heldState, Statuses
<1>4. ASSUME NEW p \in Requests, Releasing(p, m)
      PROVE  heldState[m] = IF at[p] = "rollback" THEN "failing" ELSE "taken"
  <2>1. /\ status[m] = "delivered" /\ confirmed[m] = 0
        /\ \A q \in Requests : InHand(q, m) => q = p
        /\ InHand(p, m) /\ at[p] \in {"load", "send", "rollback"}
    BY <1>1, <1>2, <1>4 DEF Alone, Releasing, InHand
  <2> QED
    BY <2>1 DEF heldState
<1>5. status[m] = "delivered" /\ confirmed[m] = 0 /\ (\A p \in Requests : ~Releasing(p, m))
         => heldState[m] = "stranded"
  BY DEF heldState, Releasing, InHand
<1> QED
  BY <1>3, <1>4, <1>5

\* A mail whose row, hand-over and holders do not change keeps its state.
LEMMA SameState ==
  ASSUME NEW m \in Mails, status'[m] = status[m], confirmed'[m] = confirmed[m],
         \A q \in Requests :
             /\ (InHand(q, m) /\ at[q] \in {"load", "send"})'
                    <=> InHand(q, m) /\ at[q] \in {"load", "send"}
             /\ (InHand(q, m) /\ at[q] = "rollback")' <=> InHand(q, m) /\ at[q] = "rollback"
  PROVE  heldState'[m] = heldState[m]
<1>1. (\E q \in Requests : InHand(q, m) /\ at[q] \in {"load", "send"})'
         <=> \E q \in Requests : InHand(q, m) /\ at[q] \in {"load", "send"}
  OBVIOUS
<1>2. (\E q \in Requests : InHand(q, m) /\ at[q] = "rollback")'
         <=> \E q \in Requests : InHand(q, m) /\ at[q] = "rollback"
  OBVIOUS
<1> QED
  BY <1>1, <1>2 DEF heldState

LEMMA OneChange ==
  ASSUME NEW m \in Mails, NEW s, heldState'[m] = s,
         \A x \in Mails \ {m} : heldState'[x] = heldState[x]
  PROVE  heldState' = [heldState EXCEPT ![m] = s]
<1>1. heldState = [x \in Mails |-> heldState[x]]
  BY DEF heldState
<1>2. heldState' = [x \in Mails |-> heldState'[x]]
  BY DEF heldState
<1> QED
  BY <1>1, <1>2

LEMMA StepMaps ==
  ASSUME IInv, IInv', Undisturbed, Undisturbed', [Next]_vars
  PROVE  [Held!Next]_(Held!vars)
<1> USE QuarantineAssumption DEF procVars, historyVars
<1>1. Typed /\ StateFacts /\ StateFacts'
  <2>1. IInv' /\ Undisturbed' => StateFacts'
    BY StateOf, PTL
  <2> QED
    BY StateOf, <2>1 DEF IInv
<1>2. \A m \in Mails : Alone(m) /\ Alone(m)'
  BY DEF IInv, Undisturbed
<1>3. ASSUME UNCHANGED <<status, confirmed, copies>>,
             \A q \in Requests, m \in Mails :
                 /\ (InHand(q, m) /\ at[q] \in {"load", "send"})'
                        <=> InHand(q, m) /\ at[q] \in {"load", "send"}
                 /\ (InHand(q, m) /\ at[q] = "rollback")'
                        <=> InHand(q, m) /\ at[q] = "rollback"
      PROVE  UNCHANGED Held!vars
  <2>1. \A m \in Mails : heldState'[m] = heldState[m]
    BY <1>3, SameState
  <2>2. heldState' = heldState
    BY <2>1 DEF heldState
  <2> QED
    BY <1>3, <2>2 DEF Held!vars
\* The mails that the request at hand does not work on.
<1>4. ASSUME NEW p \in Requests, NEW m \in Mails, cur[p] = m, cur'[p] \in {m, NoMail},
             \A q \in Requests \ {p} : at'[q] = at[q] /\ cur'[q] = cur[q],
             \A x \in Mails \ {m} : status'[x] = status[x] /\ confirmed'[x] = confirmed[x]
      PROVE  \A x \in Mails \ {m} : heldState'[x] = heldState[x]
  BY <1>4, SameState DEF InHand
<1>5. ASSUME NEW p \in Requests, at[p] \in Steps \ {"idle", "next"}
      PROVE  cur[p] \in Mails
  BY <1>1, <1>5 DEF Typed, TypeOK, HasMail
<1>6. ASSUME \/ \E p \in Requests, ms \in SUBSET Mails : Open(p, ms)
             \/ \E p \in Requests, m \in Mails :
                    CheckRelease(p, m) \/ Refuse(p, m) \/ CheckDelete(p, m)
             \/ \E p \in Requests : Load(p) \/ Finish(p)
             \/ \E m \in Mails : Archive(m)
             \/ UNCHANGED vars
      PROVE  UNCHANGED Held!vars
  <2> USE <1>1, <1>3 DEF Typed, TypeOK, HasMail, Steps, InHand
  <2>1. ASSUME NEW p \in Requests, NEW ms \in SUBSET Mails, Open(p, ms)
        PROVE  UNCHANGED Held!vars
    BY <2>1 DEF Open
  <2>2. ASSUME NEW p \in Requests, NEW m \in Mails, CheckRelease(p, m)
        PROVE  UNCHANGED Held!vars
    BY <2>2 DEF CheckRelease, TakeInHand
  <2>3. ASSUME NEW p \in Requests, NEW m \in Mails, CheckDelete(p, m)
        PROVE  UNCHANGED Held!vars
    BY <2>3 DEF CheckDelete, TakeInHand
  <2>4. ASSUME NEW p \in Requests, NEW m \in Mails, Refuse(p, m)
        PROVE  UNCHANGED Held!vars
    BY <2>4 DEF Refuse
  <2>5. ASSUME NEW p \in Requests, Load(p) \/ Finish(p) PROVE UNCHANGED Held!vars
    BY <2>5 DEF Load, Finish, Goto
  <2>6. ASSUME (\E m \in Mails : Archive(m)) \/ UNCHANGED vars PROVE UNCHANGED Held!vars
    BY <2>6 DEF Archive, vars
  <2> QED
    BY <1>6, <2>1, <2>2, <2>3, <2>4, <2>5, <2>6
<1>7. ASSUME NEW p \in Requests, MarkDelivered(p) PROVE Held!Next
  <2>1. PICK m \in Mails : m = cur[p]
    BY <1>5, <1>7 DEF MarkDelivered, Steps
  <2>2. InHand(p, m) /\ at[p] = "update" /\ status[m] = "quarantined"
    BY <1>7, <2>1 DEF MarkDelivered, InHand, Undisturbed
  <2>3. Releasing(p, m)' /\ at'[p] = "load"
    BY <1>1, <1>7, <2>1 DEF MarkDelivered, Goto, Releasing, Typed, TypeOK
  <2>4. heldState[m] = "held" /\ heldState'[m] = "taken"
    BY <1>1, <2>2, <2>3 DEF StateFacts
  <2>5. \A x \in Mails \ {m} : heldState'[x] = heldState[x]
    BY <1>1, <1>4, <1>7, <2>1 DEF MarkDelivered, Goto, Typed, TypeOK
  <2>6. Held!Take(m)
    BY <1>7, <2>4, <2>5, OneChange DEF MarkDelivered, Held!Take, Held!Move
  <2> QED
    BY <2>6 DEF Held!Next
\* A mail is stranded by an event that leaves it 'delivered' with no holder and
\* no hand-over.
<1>8. ASSUME NEW m \in Mails, status'[m] = "delivered", confirmed'[m] = 0,
             \A q \in Requests : ~Releasing(q, m)',
             heldState[m] \in {"held", "taken", "failing"}, UNCHANGED copies,
             \A x \in Mails \ {m} : heldState'[x] = heldState[x]
      PROVE  Held!Next
  <2>1. heldState'[m] = "stranded"
    BY <1>1, <1>8 DEF StateFacts
  <2>2. Held!Strand(m)
    BY <1>8, <2>1, OneChange DEF Held!Strand, Held!Move
  <2> QED
    BY <2>2 DEF Held!Next
\* Nobody else has the mail that a request has in hand, nor has it been
\* handed over.
<1>9. ASSUME NEW p \in Requests, NEW m \in Mails, cur[p] = m
      PROVE  confirmed[m] = 0 /\ \A q \in Requests : cur[q] = m => q = p
  BY <1>2, <1>9 DEF Alone, InHand
<1>10. ASSUME NEW p \in Requests, MarkFails(p) PROVE Held!Next \/ UNCHANGED Held!vars
  <2>1. PICK m \in Mails : m = cur[p]
    BY <1>5, <1>10 DEF MarkFails, Steps
  <2>2. InHand(p, m) /\ at[p] = "update" /\ status[m] = "quarantined"
    BY <1>10, <2>1 DEF MarkFails, InHand, Undisturbed
  <2>3. /\ at'[p] = "next" /\ cur'[p] = NoMail /\ UNCHANGED <<confirmed, copies>>
        /\ \A q \in Requests \ {p} : at'[q] = at[q] /\ cur'[q] = cur[q]
    BY <1>1, <1>10 DEF MarkFails, Return, Typed, TypeOK
  <2>4. CASE UNCHANGED status
    BY <1>3, <2>1, <2>2, <2>3, <2>4 DEF InHand
  <2>5. CASE status' = [status EXCEPT ![m] = "delivered"]
    <3>1. status'[m] = "delivered" /\ \A x \in Mails \ {m} : status'[x] = status[x]
      BY <1>1, <2>5 DEF Typed, TypeOK
    <3>2. heldState[m] = "held" /\ confirmed'[m] = 0
      BY <1>1, <1>9, <2>1, <2>2, <2>3 DEF StateFacts
    <3>3. \A q \in Requests : ~Releasing(q, m)'
      BY <1>9, <2>1, <2>3 DEF Releasing
    <3>4. \A x \in Mails \ {m} : heldState'[x] = heldState[x]
      BY <1>4, <2>1, <2>3, <3>1
    <3> QED
      BY <1>8, <2>3, <3>1, <3>2, <3>3, <3>4
  <2> QED
    BY <1>10, <2>1, <2>4, <2>5 DEF MarkFails
\* A holder whose hand-over failed.
<1>11. ASSUME NEW p \in Requests, LoadFails(p) \/ SendFails(p) PROVE Held!Next
  <2>1. PICK m \in Mails : m = cur[p]
    BY <1>5, <1>11 DEF LoadFails, SendFails, Steps
  <2>2. Releasing(p, m) /\ at[p] # "rollback"
    BY <1>11, <2>1 DEF LoadFails, SendFails, Releasing
  <2>3. /\ Releasing(p, m)' /\ at'[p] = "rollback" /\ UNCHANGED <<status, confirmed, cur>>
        /\ \A q \in Requests \ {p} : at'[q] = at[q]
    BY <1>1, <1>11, <2>1 DEF LoadFails, SendFails, Goto, Releasing, Typed, TypeOK
  <2>4. heldState[m] = "taken" /\ heldState'[m] = "failing"
    BY <1>1, <2>2, <2>3 DEF StateFacts
  <2>5. \A x \in Mails \ {m} : heldState'[x] = heldState[x]
    BY <1>4, <2>1, <2>3
  <2>6. copies' = copies \/ copies' = [copies EXCEPT ![m] = @ + 1]
    BY <1>11, <2>1 DEF LoadFails, SendFails
  <2>7. Held!Fail(m)
    BY <2>4, <2>5, <2>6, OneChange DEF Held!Fail, Held!Move, Held!OneMore
  <2> QED
    BY <2>7 DEF Held!Next
<1>12. ASSUME NEW p \in Requests, SendAccepted(p) PROVE Held!Next
  <2>1. PICK m \in Mails : m = cur[p]
    BY <1>5, <1>12 DEF SendAccepted, Steps
  <2>2. Releasing(p, m) /\ at[p] # "rollback" /\ confirmed[m] = 0
    BY <1>9, <1>12, <2>1 DEF SendAccepted, Releasing
  <2>3. /\ confirmed' = [confirmed EXCEPT ![m] = @ + 1] /\ copies' = [copies EXCEPT ![m] = @ + 1]
        /\ cur'[p] = NoMail /\ UNCHANGED status
        /\ \A q \in Requests \ {p} : at'[q] = at[q] /\ cur'[q] = cur[q]
    BY <1>1, <1>12, <2>1 DEF SendAccepted, Return, Typed, TypeOK
  <2>4. confirmed'[m] = 1 /\ \A x \in Mails \ {m} : confirmed'[x] = confirmed[x]
    BY <1>1, <2>2, <2>3 DEF Typed, TypeOK
  <2>5. heldState[m] = "taken" /\ heldState'[m] = "delivered"
    BY <1>1, <2>2, <2>4 DEF StateFacts
  <2>6. \A x \in Mails \ {m} : heldState'[x] = heldState[x]
    BY <1>4, <2>1, <2>3, <2>4
  <2>7. Held!Deliver(m)
    BY <2>3, <2>5, <2>6, OneChange DEF Held!Deliver, Held!Move, Held!OneMore
  <2> QED
    BY <2>7 DEF Held!Next
<1>13. ASSUME NEW p \in Requests, Rollback(p) PROVE Held!Next
  <2>1. PICK m \in Mails : m = cur[p]
    BY <1>5, <1>13 DEF Rollback, Steps
  <2>2. Releasing(p, m) /\ at[p] = "rollback"
    BY <1>13, <2>1 DEF Rollback, Releasing
  <2>3. /\ status'[m] = "quarantined" /\ \A x \in Mails \ {m} : status'[x] = status[x]
        /\ cur'[p] = NoMail /\ UNCHANGED <<confirmed, copies>>
        /\ \A q \in Requests \ {p} : at'[q] = at[q] /\ cur'[q] = cur[q]
    BY <1>1, <1>13, <2>1 DEF Rollback, Return, Typed, TypeOK
  <2>4. heldState[m] = "failing" /\ heldState'[m] = "held"
    BY <1>1, <2>2, <2>3 DEF StateFacts
  <2>5. \A x \in Mails \ {m} : heldState'[x] = heldState[x]
    BY <1>4, <2>1, <2>3
  <2>6. Held!GiveBack(m)
    BY <2>3, <2>4, <2>5, OneChange DEF Held!GiveBack, Held!Move
  <2> QED
    BY <2>6 DEF Held!Next
\* A holder that ends without giving the mail back.
<1>14. ASSUME NEW p \in Requests, NEW m \in Mails, Releasing(p, m),
              UNCHANGED <<status, confirmed, copies>>,
              at'[p] \in {"next", "idle"}, cur'[p] = NoMail,
              \A q \in Requests \ {p} : at'[q] = at[q] /\ cur'[q] = cur[q]
       PROVE  Held!Next
  <2>1. cur[p] = m /\ status[m] = "delivered"
    BY <1>2, <1>14 DEF Alone, Releasing
  <2>2. confirmed[m] = 0 /\ \A q \in Requests : ~Releasing(q, m)'
    BY <1>9, <1>14, <2>1 DEF Releasing
  <2>3. heldState[m] \in {"taken", "failing"}
    BY <1>1, <1>14 DEF StateFacts
  <2>4. \A x \in Mails \ {m} : heldState'[x] = heldState[x]
    BY <1>4, <1>14, <2>1
  <2> QED
    BY <1>8, <1>14, <2>1, <2>2, <2>3, <2>4
<1>15. ASSUME NEW p \in Requests, RollbackFails(p) PROVE Held!Next
  <2>1. cur[p] \in Mails /\ Releasing(p, cur[p])
    BY <1>5, <1>15 DEF RollbackFails, Steps, Releasing
  <2> QED
    BY <1>1, <1>14, <1>15, <2>1 DEF RollbackFails, Return, Typed, TypeOK
<1>16. ASSUME NEW p \in Requests, Crash(p) PROVE Held!Next \/ UNCHANGED Held!vars
  <2>1. /\ at'[p] = "idle" /\ cur'[p] = NoMail
        /\ \A q \in Requests \ {p} : at'[q] = at[q] /\ cur'[q] = cur[q]
        /\ UNCHANGED <<status, confirmed, copies>>
    BY <1>1, <1>16 DEF Crash, Typed, TypeOK
  <2>2. CASE \E m \in Mails : Releasing(p, m)
    BY <1>14, <2>1, <2>2
  <2>3. CASE \A m \in Mails : ~Releasing(p, m)
    BY <1>3, <2>1, <2>3 DEF Releasing, InHand
  <2> QED
    BY <2>2, <2>3
\* A deletion drops what is quarantined, and only that.
<1>17. ASSUME NEW ms \in SUBSET Mails,
              \A m \in Mails : status'[m] = IF m \in ms THEN "rejected" ELSE status[m],
              \A m \in ms : status[m] = "quarantined",
              UNCHANGED <<confirmed, copies>>,
              \A q \in Requests, m \in Mails :
                  /\ (InHand(q, m) /\ at[q] \in {"load", "send"})'
                         <=> InHand(q, m) /\ at[q] \in {"load", "send"}
                  /\ (InHand(q, m) /\ at[q] = "rollback")'
                         <=> InHand(q, m) /\ at[q] = "rollback"
       PROVE  Held!Next
  <2>1. \A m \in ms : heldState[m] = "held" /\ heldState'[m] = "dropped"
    BY <1>1, <1>17 DEF StateFacts
  <2>2. \A m \in Mails \ ms : heldState'[m] = heldState[m]
    BY <1>17, SameState
  <2>3. heldState' = [m \in Mails |-> heldState'[m]]
    BY DEF heldState
  <2>4. heldState' = [m \in Mails |-> IF m \in ms THEN "dropped" ELSE heldState[m]]
    BY <2>1, <2>2, <2>3
  <2>5. Held!Drop(ms)
    BY <1>17, <2>1, <2>4 DEF Held!Drop
  <2> QED
    BY <2>5 DEF Held!Next
<1>18. ASSUME NEW p \in Requests, Delete(p) \/ DeleteFails(p)
       PROVE  Held!Next \/ UNCHANGED Held!vars
  <2>1. PICK m \in Mails : m = cur[p]
    BY <1>5, <1>18 DEF Delete, DeleteFails, Steps
  <2>2. /\ at[p] = "delete" /\ at'[p] = "next" /\ cur'[p] = NoMail /\ UNCHANGED <<confirmed, copies>>
        /\ \A q \in Requests \ {p} : at'[q] = at[q] /\ cur'[q] = cur[q]
        /\ status' = status \/ status' = [status EXCEPT ![m] = "rejected"]
    BY <1>1, <1>18, <2>1 DEF Delete, DeleteFails, Return, Typed, TypeOK
  <2>3. \A q \in Requests, x \in Mails :
           /\ (InHand(q, x) /\ at[q] \in {"load", "send"})'
                  <=> InHand(q, x) /\ at[q] \in {"load", "send"}
           /\ (InHand(q, x) /\ at[q] = "rollback")' <=> InHand(q, x) /\ at[q] = "rollback"
    BY <2>2 DEF InHand
  <2>4. CASE status' = status
    BY <1>3, <2>2, <2>3, <2>4
  <2>5. CASE status' # status
    <3>1. status' = [status EXCEPT ![m] = "rejected"]
      BY <2>2, <2>5
    <3>2. status[m] = "quarantined"
      <4>1. status[m] # "delivered"
        BY <1>2, <2>1, <2>2 DEF Alone, InHand
      <4>2. status[m] # "rejected"
        BY <1>1, <2>5, <3>1 DEF Typed, TypeOK
      <4> QED
        BY <1>1, <4>1, <4>2 DEF Typed, TypeOK, Statuses
    <3>3. \A x \in Mails : status'[x] = IF x \in {m} THEN "rejected" ELSE status[x]
      BY <1>1, <3>1 DEF Typed, TypeOK
    <3> QED
      BY <1>17, <2>2, <2>3, <3>2, <3>3
  <2> QED
    BY <2>4, <2>5
<1>19. ASSUME NEW ms \in SUBSET Mails, BulkDelete(ms) PROVE Held!Next
  <2> DEFINE dropped == {m \in ms : status[m] = "quarantined"}
  <2>1. \A m \in Mails : status'[m] = IF m \in dropped THEN "rejected" ELSE status[m]
    BY <1>19 DEF BulkDelete
  <2>2. UNCHANGED <<confirmed, copies, at, cur>>
    BY <1>19 DEF BulkDelete
  <2> QED
    BY <1>17, <2>1, <2>2 DEF InHand
<1> QED
  BY <1>6, <1>7, <1>10, <1>11, <1>12, <1>13, <1>15, <1>16, <1>18, <1>19 DEF Next

\* As long as no two requests have a mail in hand and no bulk deletion strikes
\* between a look and an update, the handlers of the quarantine take no step
\* that HeldMail does not allow.
THEOREM UndisturbedKeepsThePromise == Spec => HeldAsPromised
<1>1. IInv /\ IInv' /\ [Next]_vars =>
        [Undisturbed /\ Undisturbed' => [Held!Next]_(Held!vars)]_vars
  BY StepMaps
<1> QED
  BY <1>1, Invariant, PTL DEF Spec, HeldAsPromised

(***************************************************************************)
(* Directory.                                                              *)
(***************************************************************************)

-----------------------------------------------------------------------------
(* What a round or a login knows of who it has yet to handle.              *)

\* What the directory granted p all along is in the entry that was found.
Knows(k, p) == \A g \in Groups, b \in Boxes : <<p, g, b>> \in k.sure => g \in k.found[p].groups

\* Which groups were looked up, and nothing that was granted all along is
\* missing from what they gave.
HasRead(k, p) == k.found[p].groups \subseteq k.read
ReadIsSure(k) ==
    \A p \in People, g \in k.read, b \in Boxes : <<p, g, b>> \in k.sure => b \in k.gives[g]

\* Whoever had an entry all along is noted, was passed over or has yet to come;
\* otherwise the search found nobody.
CoversAll(j, k) ==
    j \in Replicas => \/ k.here \subseteq k.present \cup k.failed \cup k.todo
                      \/ k.present = {} /\ k.todo = {}

RoundOK(j, k) ==
    /\ \A p \in k.todo : Knows(k, p)
    /\ \A p \in k.pending : Knows(k, p) /\ HasRead(k, p)
    /\ ReadIsSure(k)
    /\ CoversAll(j, k)

JobOK(j, k) ==
    /\ RoundOK(j, k)
    /\ \A p, q \in k.who : p = q
    /\ \A p \in k.who : Knows(k, p) /\ (k.at = "reconcile" => HasRead(k, p))
    /\ k.at \in {"boxes", "fixed", "deactivate"} => k.todo = {}

Rounds == \A j \in Jobs : JobOK(j, job[j])
SureIsGranted == \A j \in Jobs : job[j].sure \subseteq Grants(entries, boxOf)
HandledExist == \A j \in Jobs : \A p \in job[j].who \cup job[j].pending : users[p].exists

\* The loop that goes on keeps what the round knows.
LEMMA OnwardOK ==
  ASSUME NEW j \in Jobs, NEW k \in JobStates, RoundOK(j, k)
  PROVE  /\ Onward(k) \in JobStates
         /\ JobOK(j, Onward(k))
         /\ Onward(k).who = {} /\ Onward(k).pending = k.pending /\ Onward(k).sure = k.sure
<1>1. PICK a \in {"entries", "boxes", "deactivate"} :
        /\ Onward(k) = [k EXCEPT !.at = a, !.who = {}]
        /\ a # "entries" => k.todo = {}
  BY DEF Onward, JobStates
<1>2. /\ Onward(k) \in JobStates /\ Onward(k).at = a /\ Onward(k).who = {}
      /\ Onward(k).todo = k.todo /\ Onward(k).pending = k.pending /\ Onward(k).sure = k.sure
      /\ Onward(k).found = k.found /\ Onward(k).read = k.read /\ Onward(k).gives = k.gives
      /\ Onward(k).here = k.here /\ Onward(k).present = k.present
      /\ Onward(k).failed = k.failed
  BY <1>1 DEF JobStates
<1> QED
  BY <1>1, <1>2 DEF JobOK, RoundOK, Knows, HasRead, ReadIsSure, CoversAll

LEMMA IdleOK ==
  ASSUME NEW j \in Jobs
  PROVE  Idle \in JobStates /\ JobOK(j, Idle)
<1>1. Idle \in JobStates
  BY DEF Idle, JobStates, Entries, NoEntry
<1> QED
  BY <1>1 DEF JobOK, RoundOK, Knows, HasRead, ReadIsSure, CoversAll, Idle

\* One job moves, to a state that is in order.
LEMMA OneMoves ==
  ASSUME job \in [Jobs -> JobStates], Rounds,
         NEW j \in Jobs, NEW k \in JobStates, JobOK(j, k), Set(j, k)
  PROVE  job' \in [Jobs -> JobStates] /\ Rounds'
BY DEF Set, Rounds

\* A search, of everybody, of one user, or in vain.
LEMMA FoundOK ==
  ASSUME DirectoryTypeOK, Rounds, NEW j \in Jobs, NEW who \in SUBSET People, Found(j, who),
         j \in Replicas => who \in {{}, Listed(entries)}
  PROVE  job' \in [Jobs -> JobStates] /\ Rounds'
<1> DEFINE f == [p \in People |-> IF p \in who THEN entries[p] ELSE NoEntry]
           k == [Idle EXCEPT !.found = f, !.todo = who,
                             !.sure = Grants(entries, boxOf), !.here = Listed(entries)]
<1>1. k \in JobStates
  <2>1. f \in [People -> Entries]
    BY DEF DirectoryTypeOK, Entries
  <2> QED
    BY <2>1, IdleOK DEF JobStates, Grants, Listed
<1>2. /\ k.todo = who /\ k.found = f /\ k.sure = Grants(entries, boxOf)
      /\ k.here = Listed(entries) /\ k.read = {} /\ k.pending = {} /\ k.present = {}
  BY DEF Idle
<1>3. \A p \in who : Knows(k, p)
  BY <1>2 DEF Knows, Grants
<1>4. RoundOK(j, k)
  BY <1>2, <1>3 DEF RoundOK, ReadIsSure, CoversAll
<1> HIDE DEF k
<1>5. Set(j, Onward(k))
  BY DEF Found, k
<1> QED
  BY <1>1, <1>4, <1>5, OnwardOK, OneMoves DEF DirectoryTypeOK

LEMMA RoundsStep ==
  ASSUME DirectoryTypeOK, Rounds, SureIsGranted, [DirectoryNext]_directoryVars
  PROVE  job' \in [Jobs -> JobStates] /\ Rounds'
<1> USE DEF directory, tables
<1>0. ASSUME NEW j \in Jobs
      PROVE  job[j] \in JobStates /\ JobOK(j, job[j]) /\ RoundOK(j, job[j])
  BY <1>0 DEF DirectoryTypeOK, Rounds, JobOK
<1>1. ASSUME UNCHANGED job PROVE job' \in [Jobs -> JobStates] /\ Rounds'
  BY <1>1 DEF DirectoryTypeOK, Rounds
<1>2. ASSUME NEW j \in Jobs, NEW k \in JobStates, JobOK(j, k), Set(j, k)
      PROVE  job' \in [Jobs -> JobStates] /\ Rounds'
  BY <1>2, OneMoves DEF DirectoryTypeOK
<1>3. ASSUME NEW j \in Jobs, NEW k \in JobStates, RoundOK(j, k), Set(j, Onward(k))
      PROVE  job' \in [Jobs -> JobStates] /\ Rounds'
  BY <1>3, OnwardOK, <1>2
<1>4. ASSUME NEW j \in Jobs, Search(j) \/ SearchFindsNobody(j)
      PROVE  job' \in [Jobs -> JobStates] /\ Rounds'
  BY <1>4, FoundOK DEF Search, SearchFindsNobody, Listed
<1>5. ASSUME NEW j \in Logins, NEW p \in People, Login(j, p)
      PROVE  job' \in [Jobs -> JobStates] /\ Rounds'
  BY <1>5, FoundOK, DirectoryAssumption DEF Login, Jobs
<1>6. ASSUME NEW j \in Jobs, NEW p \in People, Provision(j, p)
      PROVE  job' \in [Jobs -> JobStates] /\ Rounds'
  <2> DEFINE k == [job[j] EXCEPT !.todo = @ \ {p}, !.who = {p},
                                 !.present = @ \cup {p}, !.at = "resolve"]
  <2>1. k \in JobStates
    BY <1>0, ZenonT(60) DEF JobStates
  <2>2. JobOK(j, k)
    <3>1. /\ k.todo = job[j].todo \ {p} /\ k.who = {p} /\ k.present = job[j].present \cup {p}
          /\ k.at = "resolve" /\ k.sure = job[j].sure /\ k.found = job[j].found
          /\ k.read = job[j].read /\ k.gives = job[j].gives /\ k.pending = job[j].pending
          /\ k.here = job[j].here /\ k.failed = job[j].failed
      BY <1>0 DEF JobStates
    <3>2. p \in job[j].todo
      BY <1>6 DEF Provision
    <3> HIDE DEF k
    <3> QED
      BY <1>0, <3>1, <3>2 DEF JobOK, RoundOK, Knows, HasRead, ReadIsSure, CoversAll
  <2>3. Set(j, k) \/ Set(j, Idle)
    BY <1>6 DEF Provision
  <2> QED
    BY <1>2, <2>1, <2>2, <2>3, IdleOK
<1>7. ASSUME NEW j \in Jobs, NEW p \in People, ProvisionFails(j, p)
      PROVE  job' \in [Jobs -> JobStates] /\ Rounds'
  <2> DEFINE k == [job[j] EXCEPT !.todo = @ \ {p}, !.failed = @ \cup {p}]
  <2>1. k \in JobStates
    BY <1>0, ZenonT(60) DEF JobStates
  <2>2. RoundOK(j, k)
    <3>1. /\ k.todo = job[j].todo \ {p} /\ k.failed = job[j].failed \cup {p}
          /\ k.present = job[j].present /\ k.sure = job[j].sure /\ k.found = job[j].found
          /\ k.read = job[j].read /\ k.gives = job[j].gives /\ k.pending = job[j].pending
          /\ k.here = job[j].here
      BY <1>0 DEF JobStates
    <3>2. p \in job[j].todo
      BY <1>7 DEF ProvisionFails
    <3> HIDE DEF k
    <3> QED
      BY <1>0, <3>1, <3>2 DEF RoundOK, Knows, HasRead, ReadIsSure, CoversAll
  <2>3. Set(j, Onward(k)) \/ Set(j, Idle)
    BY <1>7 DEF ProvisionFails
  <2> QED
    BY <1>2, <1>3, <2>1, <2>2, <2>3, IdleOK
<1>8. ASSUME NEW j \in Jobs, Deactivate(j) \/ DeactivateFails(j) \/ Dies(j)
      PROVE  job' \in [Jobs -> JobStates] /\ Rounds'
  BY <1>8, <1>2, IdleOK DEF Deactivate, DeactivateFails, Dies
<1>9. ASSUME NEW j \in Jobs, NEW g \in Groups, Lookup(j, g)
      PROVE  job' \in [Jobs -> JobStates] /\ Rounds'
  <2> DEFINE k == [job[j] EXCEPT !.read = @ \cup {g}, !.gives[g] = boxOf[g]]
  <2>1. /\ k \in JobStates
        /\ k.todo = job[j].todo /\ k.failed = job[j].failed /\ k.at = job[j].at
        /\ k.present = job[j].present /\ k.sure = job[j].sure /\ k.found = job[j].found
        /\ k.pending = job[j].pending /\ k.here = job[j].here /\ k.who = job[j].who
        /\ k.read = job[j].read \cup {g}
        /\ k.gives = [job[j].gives EXCEPT ![g] = boxOf[g]]
    <3>1. boxOf[g] \in SUBSET Boxes
      BY DEF DirectoryTypeOK
    <3>2. [job[j].gives EXCEPT ![g] = boxOf[g]] \in [Groups -> SUBSET Boxes]
      BY <1>0, <3>1 DEF JobStates
    <3>3. job[j].read \cup {g} \in SUBSET Groups
      BY <1>0 DEF JobStates
    <3>4. k = [[job[j] EXCEPT !.read = job[j].read \cup {g}]
                      EXCEPT !.gives = [job[j].gives EXCEPT ![g] = boxOf[g]]]
      BY <1>0 DEF JobStates
    <3> HIDE DEF k
    <3> QED
      BY <1>0, <3>2, <3>3, <3>4 DEF JobStates
  <2>2. Set(j, k)
    BY <1>9 DEF Lookup
  <2> HIDE DEF k
  <2>3. ReadIsSure(k)
    BY <1>0, <2>1 DEF RoundOK, ReadIsSure, SureIsGranted, Grants, JobStates
  <2>4. JobOK(j, k)
    BY <1>0, <2>1, <2>3 DEF JobOK, RoundOK, Knows, HasRead, CoversAll
  <2> QED
    BY <1>2, <2>1, <2>2, <2>4
<1>10. ASSUME NEW j \in Jobs,
              \/ \E g \in Groups : LookupFails(j, g)
              \/ Reconcile(j) \/ ReconcileFails(j)
       PROVE  job' \in [Jobs -> JobStates] /\ Rounds'
  BY <1>10, <1>0, <1>3 DEF LookupFails, Reconcile, ReconcileFails
<1>11. ASSUME NEW j \in Jobs, Resolved(j)
       PROVE  job' \in [Jobs -> JobStates] /\ Rounds'
  <2>1. PICK p \in job[j].who :
          /\ HasRead(job[j], p)
          /\ \/ Set(j, Onward([job[j] EXCEPT !.pending = @ \cup {p}]))
             \/ Set(j, [job[j] EXCEPT !.at = "reconcile"])
    BY <1>11 DEF Resolved, HasRead
  <2>2. CASE Set(j, Onward([job[j] EXCEPT !.pending = @ \cup {p}]))
    <3> DEFINE k == [job[j] EXCEPT !.pending = @ \cup {p}]
    <3>1. /\ k \in JobStates
          /\ k.todo = job[j].todo /\ k.failed = job[j].failed /\ k.pending = job[j].pending \cup {p}
          /\ k.present = job[j].present /\ k.sure = job[j].sure /\ k.found = job[j].found
          /\ k.here = job[j].here /\ k.read = job[j].read /\ k.gives = job[j].gives
      BY <1>0 DEF JobStates
    <3> HIDE DEF k
    <3>2. RoundOK(j, k)
      BY <1>0, <2>1, <3>1 DEF JobOK, RoundOK, Knows, HasRead, ReadIsSure, CoversAll
    <3> QED
      BY <1>3, <2>2, <3>1, <3>2 DEF k
  <2>3. CASE Set(j, [job[j] EXCEPT !.at = "reconcile"])
    <3> DEFINE k == [job[j] EXCEPT !.at = "reconcile"]
    <3>1. /\ k \in JobStates /\ k.at = "reconcile"
          /\ k.todo = job[j].todo /\ k.failed = job[j].failed /\ k.pending = job[j].pending
          /\ k.present = job[j].present /\ k.sure = job[j].sure /\ k.found = job[j].found
          /\ k.here = job[j].here /\ k.read = job[j].read /\ k.gives = job[j].gives
          /\ k.who = job[j].who
      BY <1>0 DEF JobStates
    <3> HIDE DEF k
    <3>2. JobOK(j, k)
      BY <1>0, <2>1, <3>1 DEF JobOK, RoundOK, Knows, HasRead, ReadIsSure, CoversAll
    <3> QED
      BY <1>2, <2>3, <3>1, <3>2 DEF k
  <2> QED
    BY <2>1, <2>2, <2>3
<1>12. ASSUME NEW j \in Jobs, ListMailboxes(j)
       PROVE  job' \in [Jobs -> JobStates] /\ Rounds'
  <2> DEFINE all == {b \in Boxes : FromDirectory(b)}
             k == [job[j] EXCEPT !.at = "fixed", !.all = all]
  <2>1. /\ k \in JobStates /\ k.at = "fixed"
        /\ k.todo = job[j].todo /\ k.failed = job[j].failed /\ k.pending = job[j].pending
        /\ k.present = job[j].present /\ k.sure = job[j].sure /\ k.found = job[j].found
        /\ k.here = job[j].here /\ k.read = job[j].read /\ k.gives = job[j].gives
        /\ k.who = job[j].who
    <3>1. all \in SUBSET Boxes
      OBVIOUS
    <3> HIDE DEF all
    <3> QED
      BY <1>0, <3>1 DEF JobStates
  <2>2. Set(j, k) /\ job[j].at = "boxes"
    BY <1>12 DEF ListMailboxes
  <2> HIDE DEF k
  <2>3. JobOK(j, k)
    BY <1>0, <2>1, <2>2 DEF JobOK, RoundOK, Knows, HasRead, ReadIsSure, CoversAll
  <2> QED
    BY <1>2, <2>1, <2>2, <2>3
<1>13. ASSUME NEW j \in Jobs, NEW pending \in SUBSET job[j].pending
       PROVE  LET k == [job[j] EXCEPT !.pending = pending] IN
              /\ k \in JobStates /\ RoundOK(j, k)
              /\ job[j].at = "fixed" => JobOK(j, k)
  <2> DEFINE k == [job[j] EXCEPT !.pending = pending]
  <2>1. /\ k \in JobStates /\ k.at = job[j].at
        /\ k.todo = job[j].todo /\ k.failed = job[j].failed /\ k.pending = pending
        /\ k.present = job[j].present /\ k.sure = job[j].sure /\ k.found = job[j].found
        /\ k.here = job[j].here /\ k.read = job[j].read /\ k.gives = job[j].gives
        /\ k.who = job[j].who
    <3>1. pending \in SUBSET People
      BY <1>0 DEF JobStates
    <3> QED
      BY <1>0, <3>1 DEF JobStates
  <2> HIDE DEF k
  <2>2. RoundOK(j, k) /\ (job[j].at = "fixed" => JobOK(j, k))
    BY <1>0, <1>13, <2>1, SMTT(30) DEF JobOK, RoundOK, Knows, HasRead, ReadIsSure, CoversAll
  <2> QED
    BY <2>1, <2>2 DEF k
<1>14. ASSUME NEW j \in Jobs, ListMailboxesFails(j)
       PROVE  job' \in [Jobs -> JobStates] /\ Rounds'
  BY <1>14, <1>13, <1>3 DEF ListMailboxesFails
<1>15. ASSUME NEW j \in Jobs, NEW p \in People, ReconcileFixed(j, p) \/ ReconcileFixedFails(j, p)
       PROVE  job' \in [Jobs -> JobStates] /\ Rounds'
  <2>1. Set(j, AfterFixed(j, p)) /\ job[j].at = "fixed"
    BY <1>15 DEF ReconcileFixed, ReconcileFixedFails
  <2>2. \/ Set(j, Onward([job[j] EXCEPT !.pending = {}]))
        \/ Set(j, [job[j] EXCEPT !.pending = @ \ {p}])
    BY <2>1 DEF AfterFixed
  <2>3. CASE Set(j, Onward([job[j] EXCEPT !.pending = {}]))
    BY <1>3, <1>13, <2>3
  <2>4. CASE Set(j, [job[j] EXCEPT !.pending = @ \ {p}])
    <3>1. job[j].pending \ {p} \in SUBSET job[j].pending
      OBVIOUS
    <3> QED
      BY <1>2, <1>13, <2>1, <2>4, <3>1
  <2> QED
    BY <2>2, <2>3, <2>4
<1>16. ASSUME DirectoryChanges PROVE job' \in [Jobs -> JobStates] /\ Rounds'
  <2>0. PICK e, of : Becomes(e, of)
    BY <1>16 DEF DirectoryChanges, EntryChanges, GroupChanges
  <2>1. job' = [j \in Jobs |-> [job[j] EXCEPT !.sure = @ \cap Grants(e, of),
                                              !.here = @ \cap Listed(e)]]
    BY <2>0 DEF Becomes
  <2>2. ASSUME NEW j \in Jobs PROVE job'[j] \in JobStates /\ JobOK(j, job'[j])
    <3> DEFINE k == job'[j]
    <3>1. k = [job[j] EXCEPT !.sure = @ \cap Grants(e, of), !.here = @ \cap Listed(e)]
      BY <2>1
    <3>2. /\ k \in JobStates /\ k.at = job[j].at
          /\ k.todo = job[j].todo /\ k.failed = job[j].failed /\ k.pending = job[j].pending
          /\ k.present = job[j].present /\ k.sure \subseteq job[j].sure
          /\ k.found = job[j].found /\ k.here \subseteq job[j].here
          /\ k.read = job[j].read /\ k.gives = job[j].gives /\ k.who = job[j].who
      <4>1. job[j].sure \cap Grants(e, of) \in SUBSET (People \X Groups \X Boxes)
        BY <1>0 DEF JobStates
      <4>2. job[j].here \cap Listed(e) \in SUBSET People
        BY DEF Listed
      <4> QED
        BY <1>0, <3>1, <4>1, <4>2, ZenonT(60) DEF JobStates
    <3> HIDE DEF k
    <3>3. JobOK(j, k)
      BY <1>0, <3>2 DEF JobOK, RoundOK, Knows, HasRead, ReadIsSure, CoversAll
    <3> QED
      BY <3>2, <3>3 DEF k
  <2> QED
    BY <2>1, <2>2 DEF Rounds
<1>17. ASSUME Hands \/ UNCHANGED directoryVars PROVE job' \in [Jobs -> JobStates] /\ Rounds'
  <2>1. UNCHANGED job
    BY <1>17 DEF Hands, OidcLogin, CreateUser, UpdateUserRole, DeleteUser, CreateMailbox,
      DeleteMailbox, UpdateMailbox, AddAssignment, RemoveAssignment, directoryVars
  <2> QED
    BY <1>1, <2>1
<1> QED
  BY <1>4, <1>5, <1>6, <1>7, <1>8, <1>9, <1>10, <1>11, <1>12, <1>14, <1>15, <1>16, <1>17
  DEF DirectoryNext, Step, Fails

-----------------------------------------------------------------------------
(* The rows.                                                               *)

LEMMA UpsertedRow ==
  ASSUME NEW u \in UserRows, NEW role \in Roles, NEW source \in Sources
  PROVE  /\ Upserted(u, role, source) \in UserRows
         /\ Upserted(u, role, source).exists
         /\ u.exists => Upserted(u, role, source).active = u.active
         /\ u.exists /\ u.by = "manual" => Upserted(u, role, source) = u
         /\ u.exists /\ Upserted(u, role, source).by # u.by
                => u.by # "manual" /\ Upserted(u, role, source).by = source
                   /\ (u.by = "ldap" => source # "oidc")
         /\ u.exists /\ Upserted(u, role, source).role # u.role
                => u.by # "manual" /\ (u.by = "ldap" => source # "oidc")
BY DEF Upserted, Yields, UserRows, Sources

LEMMA DeactivatedRow ==
  ASSUME NEW u \in UserRows
  PROVE  /\ [u EXCEPT !.active = FALSE] \in UserRows
         /\ [u EXCEPT !.active = FALSE].exists = u.exists
         /\ [u EXCEPT !.active = FALSE].by = u.by
         /\ [u EXCEPT !.active = FALSE].role = u.role
BY DEF UserRows

LEMMA EntryGroups == ASSUME NEW e \in Entries PROVE e.groups \subseteq Groups
<1>1. CASE e = NoEntry
  BY <1>1 DEF NoEntry
<1>2. CASE e \in [listed : {TRUE}, groups : SUBSET Groups]
  BY <1>2
<1> QED
  BY <1>1, <1>2 DEF Entries

\* A job that goes on adds nothing to what it is sure of, and handles nobody
\* whose row it has not seen to.
Carries(j, k) ==
    /\ k.sure \in {{}, job[j].sure, Grants(entries, boxOf)}
    /\ \A p \in k.who \cup k.pending : p \in job[j].who \cup job[j].pending \/ users'[p].exists

LEMMA JobCarries ==
  ASSUME DirectoryTypeOK, Rounds, NEW j \in Jobs,
         Step(j) \/ Fails(j) \/ \E p \in People : Login(j, p)
  PROVE  UNCHANGED directory /\ \E k : Set(j, k) /\ Carries(j, k)
<1> USE DEF directory
<1>0. job[j] \in JobStates /\ RoundOK(j, job[j])
  BY DEF DirectoryTypeOK, Rounds, JobOK
<1>1. ASSUME NEW k \in JobStates, RoundOK(j, k), Set(j, Onward(k)), UNCHANGED directory,
             k.sure \in {{}, job[j].sure, Grants(entries, boxOf)},
             \A p \in k.pending : p \in job[j].who \cup job[j].pending \/ users'[p].exists
      PROVE  UNCHANGED directory /\ \E k1 : Set(j, k1) /\ Carries(j, k1)
  BY <1>1, OnwardOK DEF Carries
<1>2. Carries(j, Idle)
  BY DEF Carries, Idle
<1>3. ASSUME NEW who, Found(j, who), UNCHANGED directory
      PROVE  UNCHANGED directory /\ \E k : Set(j, k) /\ Carries(j, k)
  <2> DEFINE f == [p \in People |-> IF p \in who THEN entries[p] ELSE NoEntry]
             k == [Idle EXCEPT !.found = f, !.todo = who,
                               !.sure = Grants(entries, boxOf), !.here = Listed(entries)]
  <2>1. Set(j, Onward(k))
    BY <1>3 DEF Found
  <2>2. Onward(k).sure = Grants(entries, boxOf) /\ Onward(k).who = {} /\ Onward(k).pending = {}
    BY DEF Onward, Idle
  <2> QED
    BY <1>3, <2>1, <2>2 DEF Carries
<1>4. CASE Search(j) \/ SearchFindsNobody(j) \/ \E p \in People : Login(j, p)
  BY <1>3, <1>4 DEF Search, SearchFindsNobody, Login
<1>5. ASSUME NEW p \in People, Provision(j, p)
      PROVE  UNCHANGED directory /\ \E k : Set(j, k) /\ Carries(j, k)
  <2> DEFINE k == [job[j] EXCEPT !.todo = @ \ {p}, !.who = {p},
                                 !.present = @ \cup {p}, !.at = "resolve"]
  <2>1. Set(j, k) \/ Set(j, Idle)
    BY <1>5 DEF Provision
  <2>2. k.sure = job[j].sure /\ k.who = {p} /\ k.pending = job[j].pending
    BY <1>0 DEF JobStates
  <2>3. users'[p].exists
    BY <1>5, UpsertedRow DEF Provision, DirectoryTypeOK, RoleOf, Roles, Sources
  <2> QED
    BY <1>2, <1>5, <2>1, <2>2, <2>3 DEF Carries, Provision
<1>6. ASSUME NEW p \in People, ProvisionFails(j, p)
      PROVE  UNCHANGED directory /\ \E k : Set(j, k) /\ Carries(j, k)
  <2> DEFINE k == [job[j] EXCEPT !.todo = @ \ {p}, !.failed = @ \cup {p}]
  <2>1. Set(j, Onward(k)) \/ Set(j, Idle)
    BY <1>6 DEF ProvisionFails
  <2>2. Onward(k).sure = job[j].sure /\ Onward(k).who = {} /\ Onward(k).pending = job[j].pending
    BY <1>0 DEF JobStates, Onward
  <2> QED
    BY <1>2, <1>6, <2>1, <2>2 DEF Carries, ProvisionFails
<1>7. CASE Deactivate(j) \/ DeactivateFails(j) \/ Dies(j)
  BY <1>2, <1>7 DEF Deactivate, DeactivateFails, Dies
<1>8. ASSUME NEW g \in Groups, Lookup(j, g)
      PROVE  UNCHANGED directory /\ \E k : Set(j, k) /\ Carries(j, k)
  <2> DEFINE k == [job[j] EXCEPT !.read = @ \cup {g}, !.gives[g] = boxOf[g]]
  <2>1. Set(j, k) /\ k.sure = job[j].sure /\ k.who = job[j].who /\ k.pending = job[j].pending
    BY <1>0, <1>8 DEF JobStates, Lookup
  <2> QED
    BY <1>8, <2>1 DEF Carries, Lookup
<1>9. CASE (\E g \in Groups : LookupFails(j, g)) \/ Reconcile(j) \/ ReconcileFails(j)
  BY <1>9, <1>0, <1>1 DEF LookupFails, Reconcile, ReconcileFails
<1>10. CASE Resolved(j)
  <2>1. PICK p \in job[j].who :
           \/ Set(j, Onward([job[j] EXCEPT !.pending = @ \cup {p}]))
           \/ Set(j, [job[j] EXCEPT !.at = "reconcile"])
    BY <1>10 DEF Resolved
  <2>2. LET k == Onward([job[j] EXCEPT !.pending = @ \cup {p}]) IN
        k.sure = job[j].sure /\ k.who = {} /\ k.pending = job[j].pending \cup {p}
    BY <1>0 DEF JobStates, Onward
  <2>3. LET k == [job[j] EXCEPT !.at = "reconcile"] IN
        k.sure = job[j].sure /\ k.who = job[j].who /\ k.pending = job[j].pending
    BY <1>0 DEF JobStates
  <2> QED
    BY <1>10, <2>1, <2>2, <2>3 DEF Carries, Resolved
<1>11. CASE ListMailboxes(j)
  <2> DEFINE k == [job[j] EXCEPT !.at = "fixed", !.all = {b \in Boxes : FromDirectory(b)}]
  <2>1. Set(j, k) /\ k.sure = job[j].sure /\ k.who = job[j].who /\ k.pending = job[j].pending
    BY <1>0, <1>11 DEF JobStates, ListMailboxes
  <2> QED
    BY <1>11, <2>1 DEF Carries, ListMailboxes
<1>12. ASSUME NEW pending \in SUBSET job[j].pending, UNCHANGED directory,
              \/ Set(j, [job[j] EXCEPT !.pending = pending])
              \/ Set(j, Onward([job[j] EXCEPT !.pending = pending]))
       PROVE  UNCHANGED directory /\ \E k : Set(j, k) /\ Carries(j, k)
  <2> DEFINE k == [job[j] EXCEPT !.pending = pending]
  <2>1. /\ k.sure = job[j].sure /\ k.who = job[j].who /\ k.pending = pending
        /\ Onward(k).sure = job[j].sure /\ Onward(k).who = {} /\ Onward(k).pending = pending
    BY <1>0 DEF JobStates, Onward
  <2> QED
    BY <1>12, <2>1 DEF Carries
<1>13. CASE ListMailboxesFails(j)
  BY <1>12, <1>13 DEF ListMailboxesFails
<1>14. ASSUME NEW p \in People, ReconcileFixed(j, p) \/ ReconcileFixedFails(j, p)
       PROVE  UNCHANGED directory /\ \E k : Set(j, k) /\ Carries(j, k)
  <2>1. Set(j, AfterFixed(j, p)) /\ UNCHANGED directory
    BY <1>14 DEF ReconcileFixed, ReconcileFixedFails
  <2>2. job[j].pending \ {p} \in SUBSET job[j].pending /\ {} \in SUBSET job[j].pending
    OBVIOUS
  <2> QED
    BY <1>12, <2>1, <2>2 DEF AfterFixed
<1> QED
  BY <1>4, <1>5, <1>6, <1>7, <1>8, <1>9, <1>10, <1>11, <1>13, <1>14 DEF Step, Fails

\* The rows that SyncMailboxAssignmentsForUser leaves.
LEMMA SyncedRows ==
  ASSUME DirectoryTypeOK, NEW p \in People, NEW want \in SUBSET Boxes, SyncAssignments(p, want),
         users[p].exists
  PROVE  /\ boxes' \in [Boxes -> BoxRows]
         /\ assigned' \in [People \X Boxes -> {"none", "manual", "ldap"}]
         /\ \A q \in People, b \in Boxes :
                assigned'[<<q, b>>] # "none" => users'[q].exists /\ boxes'[b].exists
<1> USE DEF DirectoryTypeOK
<1>1. boxes' \in [Boxes -> BoxRows]
  BY DEF SyncAssignments, UpsertedBoxes, BoxRows
<1>2. assigned' = Desired(p, want) /\ users' = users
  BY DEF SyncAssignments
<1>3. ASSUME NEW x \in People \X Boxes
      PROVE  /\ assigned'[x] \in {"none", "manual", "ldap"}
             /\ assigned'[x] # "none" =>
                    assigned[x] # "none" \/ (x[1] = p /\ x[2] \in want)
  BY <1>2 DEF Desired
<1>4. assigned' \in [People \X Boxes -> {"none", "manual", "ldap"}]
  <2> DEFINE d(x) == CASE x[1] # p -> assigned[x]
                       [] x[1] = p /\ x[2] \in want /\ assigned[x] = "none" -> "ldap"
                       [] x[1] = p /\ x[2] \notin want /\ assigned[x] = "ldap" -> "none"
                       [] OTHER -> assigned[x]
  <2>1. \A x \in People \X Boxes : d(x) \in {"none", "manual", "ldap"}
    OBVIOUS
  <2>2. assigned' = [x \in People \X Boxes |-> d(x)]
    BY <1>2 DEF Desired
  <2> HIDE DEF d
  <2> QED
    BY <2>1, <2>2
<1>5. \A b \in Boxes : boxes[b].exists \/ b \in want => boxes'[b].exists
  BY DEF SyncAssignments, UpsertedBoxes, BoxRows
<1>6. ASSUME NEW q \in People, NEW b \in Boxes, assigned'[<<q, b>>] # "none"
      PROVE  users'[q].exists /\ boxes'[b].exists
  <2>1. <<q, b>> \in People \X Boxes
    OBVIOUS
  <2> QED
    BY <1>2, <1>3, <1>5, <1>6, <2>1
<1> QED
  BY <1>1, <1>4, <1>6

LEMMA TuplesAreBoxes ==
  ASSUME DirectoryTypeOK, NEW j \in Jobs, NEW p \in People
  PROVE  Tuples(j, p) \in SUBSET Boxes
<1>1. job[j].gives \in [Groups -> SUBSET Boxes] /\ job[j].all \in SUBSET Boxes
  BY DEF DirectoryTypeOK, JobStates
<1>2. job[j].found[p] \in Entries
  BY DEF DirectoryTypeOK, JobStates
<1>3. job[j].found[p].groups \subseteq Groups
  BY <1>2, EntryGroups
<1>4. \A g \in job[j].found[p].groups : job[j].gives[g] \subseteq Boxes
  BY <1>1, <1>3
<1>5. UNION {job[j].gives[g] : g \in job[j].found[p].groups} \subseteq Boxes
  BY <1>4
<1>6. (IF p \in FixedUsers THEN job[j].all ELSE {}) \subseteq Boxes
  BY <1>1
<1> DEFINE A == UNION {job[j].gives[g] : g \in job[j].found[p].groups}
           B == IF p \in FixedUsers THEN job[j].all ELSE {}
<1>7. Tuples(j, p) = A \cup B
  BY DEF Tuples
<1>8. A \subseteq Boxes /\ B \subseteq Boxes
  BY <1>5, <1>6
<1> HIDE DEF A, B
<1> QED
  BY <1>7, <1>8

DirectoryIInv == DirectoryTypeOK /\ Rounds /\ SureIsGranted /\ HandledExist

LEMMA DirectoryTypedStep ==
  ASSUME DirectoryTypeOK, Rounds, SureIsGranted, HandledExist, [DirectoryNext]_directoryVars
  PROVE  DirectoryTypeOK'
<1> USE DirectoryAssumption DEF DirectoryTypeOK, directory, tables
<1>1. job' \in [Jobs -> JobStates]
  BY RoundsStep
<1>2. ASSUME UNCHANGED <<directory, tables, edited>>, events' \in 0..MaxEvents, faults' \in 0..MaxFaults
      PROVE  DirectoryTypeOK'
  BY <1>1, <1>2
<1>3. Event => events' \in 0..MaxEvents
  BY DEF Event
<1>4. Fault => faults' \in 0..MaxFaults
  BY DEF Fault
<1>5. ASSUME NEW j \in Jobs,
             Search(j) \/ SearchFindsNobody(j) \/ (\E p \in People : Login(j, p) \/ ProvisionFails(j, p))
      PROVE  DirectoryTypeOK'
  BY <1>2, <1>3, <1>4, <1>5 DEF Search, SearchFindsNobody, Login, ProvisionFails
<1>6. ASSUME NEW j \in Jobs,
             \/ DeactivateFails(j) \/ Dies(j) \/ Resolved(j) \/ ReconcileFails(j)
             \/ ListMailboxes(j) \/ ListMailboxesFails(j)
             \/ \E g \in Groups : Lookup(j, g) \/ LookupFails(j, g)
             \/ \E p \in People : ReconcileFixedFails(j, p)
      PROVE  DirectoryTypeOK'
  BY <1>2, <1>3, <1>4, <1>6 DEF DeactivateFails, Dies, Resolved, ReconcileFails, ListMailboxes,
     ListMailboxesFails, Lookup, LookupFails, ReconcileFixedFails
<1>7. ASSUME users' \in [People -> UserRows], \A p \in People : users[p].exists => users'[p].exists,
             UNCHANGED <<directory, boxes, assigned>>, edited' \subseteq People,
             events' \in 0..MaxEvents, faults' \in 0..MaxFaults
      PROVE  DirectoryTypeOK'
  BY <1>1, <1>7
<1>8. ASSUME NEW j \in Jobs, NEW p \in People, Provision(j, p) PROVE DirectoryTypeOK'
  <2>1. RoleOf(job[j].found[p].groups) \in Roles /\ "ldap" \in Sources
    BY DEF RoleOf, Roles, Sources
  <2>2. users[p] \in UserRows
    OBVIOUS
  <2> DEFINE u == Upserted(users[p], RoleOf(job[j].found[p].groups), "ldap")
  <2>3. users' = [users EXCEPT ![p] = u]
    BY <1>8 DEF Provision
  <2> HIDE DEF DirectoryTypeOK
  <2>4. u \in UserRows /\ u.exists
    BY <2>1, <2>2, UpsertedRow
  <2> HIDE DEF u
  <2>5. /\ users' \in [People -> UserRows]
        /\ \A q \in People : users[q].exists => users'[q].exists
    BY <2>3, <2>4 DEF DirectoryTypeOK
  <2>6. UNCHANGED <<directory, edited, boxes, assigned, events, faults>>
    BY <1>8 DEF Provision
  <2> QED
    BY <1>7, <2>5, <2>6 DEF DirectoryTypeOK
<1>9. ASSUME NEW j \in Jobs, Deactivate(j) PROVE DirectoryTypeOK'
  <2>1. \A p \in People : users'[p] = users[p] \/ users'[p] = [users[p] EXCEPT !.active = FALSE]
    BY <1>9 DEF Deactivate
  <2>2. ASSUME NEW p \in People
        PROVE  users'[p] \in UserRows /\ users'[p].exists = users[p].exists
    <3>1. users[p] \in UserRows
      OBVIOUS
    <3> QED
      BY <2>1, <3>1, DeactivatedRow
  <2>3. users' \in [People -> UserRows]
    BY <1>9, <2>2 DEF Deactivate
  <2> QED
    BY <1>7, <1>9, <2>2, <2>3 DEF Deactivate
<1>10. ASSUME NEW j \in Jobs, NEW p \in job[j].who \cup job[j].pending,
              SyncAssignments(p, Tuples(j, p)), UNCHANGED <<directory, edited, events, faults>>
       PROVE  DirectoryTypeOK'
  <2>1. users[p].exists /\ p \in People
    BY DEF HandledExist, JobStates
  <2>2. users' = users
    BY <1>10 DEF SyncAssignments
  <2> QED
    BY <1>1, <1>10, <2>1, <2>2, SyncedRows, TuplesAreBoxes
<1>11. ASSUME NEW j \in Jobs, Reconcile(j) \/ \E p \in People : ReconcileFixed(j, p)
       PROVE  DirectoryTypeOK'
  BY <1>10, <1>11 DEF Reconcile, ReconcileFixed
<1>12. ASSUME DirectoryChanges PROVE DirectoryTypeOK'
  <2>1. ASSUME NEW p \in People, NEW e \in Entries, EntryChanges(p, e) PROVE DirectoryTypeOK'
    BY <1>1, <1>3, <2>1 DEF EntryChanges, Becomes
  <2>2. ASSUME NEW g \in Groups, NEW names \in SUBSET Boxes, GroupChanges(g, names)
        PROVE  DirectoryTypeOK'
    BY <1>1, <1>3, <2>2 DEF GroupChanges, Becomes
  <2> QED
    BY <1>12, <2>1, <2>2 DEF DirectoryChanges
<1>13. ASSUME NEW p \in People, NEW role \in Roles, OidcLogin(p, role) PROVE DirectoryTypeOK'
  <2>1. "oidc" \in Sources
    BY DEF Sources
  <2> QED
    BY <1>3, <1>7, <1>13, <2>1, UpsertedRow DEF OidcLogin
<1>14. ASSUME NEW p \in People, NEW role \in Roles, CreateUser(p, role) PROVE DirectoryTypeOK'
  <2>1. [exists |-> TRUE, active |-> TRUE, role |-> role, by |-> "manual"] \in UserRows
    BY DEF UserRows, Sources
  <2> QED
    BY <1>3, <1>7, <1>14, <2>1 DEF CreateUser
<1>15. ASSUME NEW p \in People, NEW role \in Roles, UpdateUserRole(p, role) PROVE DirectoryTypeOK'
  <2>1. [users[p] EXCEPT !.role = role] \in UserRows
    BY DEF UserRows
  <2>2. [users[p] EXCEPT !.role = role].exists = users[p].exists
    BY DEF UserRows
  <2> QED
    BY <1>3, <1>7, <1>15, <2>1, <2>2 DEF UpdateUserRole
<1>16. ASSUME NEW p \in People, DeleteUser(p) PROVE DirectoryTypeOK'
  BY <1>3, <1>7, <1>16, DeactivatedRow DEF DeleteUser
<1>17. ASSUME boxes' \in [Boxes -> BoxRows], \A b \in Boxes : boxes[b].exists => boxes'[b].exists,
              UNCHANGED <<directory, users, assigned, edited, faults>>, Event
       PROVE  DirectoryTypeOK'
  BY <1>1, <1>3, <1>17
<1>18. ASSUME NEW b \in Boxes, CreateMailbox(b) PROVE DirectoryTypeOK'
  <2>1. [exists |-> TRUE, active |-> TRUE, by |-> "manual"] \in BoxRows
    BY DEF BoxRows
  <2> QED
    BY <1>17, <1>18, <2>1 DEF CreateMailbox
<1>19. ASSUME NEW b \in Boxes, NEW active \in BOOLEAN, UpdateMailbox(b, active)
       PROVE  DirectoryTypeOK'
  <2>1. /\ [boxes[b] EXCEPT !.active = active] \in BoxRows
        /\ [boxes[b] EXCEPT !.active = active].exists = boxes[b].exists
    BY DEF BoxRows
  <2> QED
    BY <1>17, <1>19, <2>1 DEF UpdateMailbox
<1>20. ASSUME NEW b \in Boxes, DeleteMailbox(b) PROVE DirectoryTypeOK'
  <2>1. NoBox \in BoxRows
    BY DEF NoBox, BoxRows
  <2>2. boxes' \in [Boxes -> BoxRows] /\ \A c \in Boxes : c # b => boxes'[c] = boxes[c]
    BY <1>20, <2>1 DEF DeleteMailbox
  <2>3. assigned' = [x \in People \X Boxes |-> IF x[2] = b THEN "none" ELSE assigned[x]]
    BY <1>20 DEF DeleteMailbox
  <2>4. assigned' \in [People \X Boxes -> {"none", "manual", "ldap"}]
    BY <2>3
  <2>5. \A p \in People, c \in Boxes :
          assigned'[<<p, c>>] # "none" => c # b /\ assigned[<<p, c>>] # "none"
    BY <2>3
  <2> QED
    BY <1>1, <1>3, <1>20, <2>2, <2>4, <2>5 DEF DeleteMailbox
<1>21. ASSUME NEW p \in People, NEW b \in Boxes, AddAssignment(p, b) \/ RemoveAssignment(p, b)
       PROVE  DirectoryTypeOK'
  <2>1. assigned' \in [People \X Boxes -> {"none", "manual", "ldap"}]
    BY <1>21 DEF AddAssignment, RemoveAssignment
  <2>2. \A q \in People, c \in Boxes :
          assigned'[<<q, c>>] # "none" =>
              assigned[<<q, c>>] # "none" \/ (users[q].exists /\ boxes[c].exists)
    BY <1>21 DEF AddAssignment, RemoveAssignment, Known
  <2> QED
    BY <1>1, <1>3, <1>21, <2>1, <2>2 DEF AddAssignment, RemoveAssignment
<1>22. CASE UNCHANGED directoryVars
  BY <1>2, <1>22 DEF directoryVars
<1> QED
  BY <1>5, <1>6, <1>8, <1>9, <1>11, <1>12, <1>13, <1>14, <1>15, <1>16, <1>18, <1>19, <1>20,
     <1>21, <1>22 DEF DirectoryNext, Step, Fails, Hands, Jobs

LEMMA DirectoryInvariantStep ==
  ASSUME DirectoryIInv, [DirectoryNext]_directoryVars
  PROVE  DirectoryIInv'
<1> USE DEF DirectoryIInv
<1>1. DirectoryTypeOK' /\ Rounds'
  BY DirectoryTypedStep, RoundsStep
<1>2. \A p \in People : users[p].exists => users'[p].exists
  <2> USE DEF DirectoryTypeOK, tables
  <2>1. ASSUME UNCHANGED users PROVE \A p \in People : users[p].exists => users'[p].exists
    BY <2>1
  <2>2. ASSUME NEW q \in People, NEW u \in UserRows, users' = [users EXCEPT ![q] = u],
               users[q].exists => u.exists
        PROVE  \A p \in People : users[p].exists => users'[p].exists
    BY <2>2
  <2>3. ASSUME NEW j \in Jobs, NEW p \in People, Provision(j, p)
        PROVE  \A q \in People : users[q].exists => users'[q].exists
    <3> DEFINE u == Upserted(users[p], RoleOf(job[j].found[p].groups), "ldap")
    <3>1. users' = [users EXCEPT ![p] = u]
      BY <2>3 DEF Provision
    <3>2. users[p] \in UserRows /\ RoleOf(job[j].found[p].groups) \in Roles /\ "ldap" \in Sources
      BY DEF RoleOf, Roles, Sources
    <3>3. u \in UserRows /\ u.exists
      BY <3>2, UpsertedRow
    <3> HIDE DEF u
    <3> QED
      BY <2>2, <3>1, <3>3
  <2>4. ASSUME NEW j \in Jobs, Deactivate(j)
        PROVE  \A q \in People : users[q].exists => users'[q].exists
    BY <2>4, DeactivatedRow DEF Deactivate
  <2>5. ASSUME NEW p \in People, NEW role \in Roles,
               OidcLogin(p, role) \/ CreateUser(p, role) \/ UpdateUserRole(p, role)
        PROVE  \A q \in People : users[q].exists => users'[q].exists
    <3>1. CASE OidcLogin(p, role)
      BY <2>2, <3>1, UpsertedRow DEF OidcLogin, Sources
    <3>2. CASE CreateUser(p, role)
      BY <3>2 DEF CreateUser
    <3>3. CASE UpdateUserRole(p, role)
      BY <3>3 DEF UpdateUserRole, UserRows
    <3> QED
      BY <2>5, <3>1, <3>2, <3>3
  <2>6. ASSUME NEW p \in People, DeleteUser(p)
        PROVE  \A q \in People : users[q].exists => users'[q].exists
    BY <2>2, <2>6, DeactivatedRow DEF DeleteUser
  <2>7. ASSUME NEW j \in Jobs,
               \/ Search(j) \/ SearchFindsNobody(j) \/ Dies(j) \/ DeactivateFails(j) \/ Resolved(j)
               \/ Reconcile(j) \/ ReconcileFails(j) \/ ListMailboxes(j) \/ ListMailboxesFails(j)
        PROVE  UNCHANGED users
    BY <2>7 DEF Search, SearchFindsNobody, DeactivateFails, Dies, Resolved, Reconcile, ReconcileFails,
       ListMailboxes, ListMailboxesFails, SyncAssignments
  <2>8. ASSUME NEW j \in Jobs,
               \/ \E p \in People : \/ Login(j, p) \/ ProvisionFails(j, p)
                                    \/ ReconcileFixed(j, p) \/ ReconcileFixedFails(j, p)
               \/ \E g \in Groups : Lookup(j, g) \/ LookupFails(j, g)
        PROVE  UNCHANGED users
    BY <2>8 DEF Login, ProvisionFails, ReconcileFixed, ReconcileFixedFails, Lookup, LookupFails,
       SyncAssignments
  <2>9. ASSUME \/ DirectoryChanges
               \/ \E b \in Boxes : CreateMailbox(b) \/ DeleteMailbox(b)
               \/ \E b \in Boxes, active \in BOOLEAN : UpdateMailbox(b, active)
               \/ \E p \in People, b \in Boxes : AddAssignment(p, b) \/ RemoveAssignment(p, b)
               \/ UNCHANGED directoryVars
        PROVE  UNCHANGED users
    BY <2>9 DEF DirectoryChanges, EntryChanges, GroupChanges, Becomes, CreateMailbox,
       DeleteMailbox, UpdateMailbox, AddAssignment, RemoveAssignment, directoryVars
  <2> QED
    BY <2>1, <2>3, <2>4, <2>5, <2>6, <2>7, <2>8, <2>9
    DEF DirectoryNext, Step, Fails, Hands, Jobs
<1>3. ASSUME NEW j \in Jobs, Step(j) \/ Fails(j) \/ \E p \in People : Login(j, p)
      PROVE  SureIsGranted' /\ HandledExist'
  <2>1. PICK k : Set(j, k) /\ Carries(j, k) /\ UNCHANGED directory
    BY <1>3, JobCarries
  <2>2. \A i \in Jobs : job'[i] = IF i = j THEN k ELSE job[i]
    BY <2>1 DEF Set, DirectoryTypeOK
  <2>3. Grants(entries, boxOf)' = Grants(entries, boxOf)
    BY <2>1 DEF Grants, directory
  <2>4. SureIsGranted'
    BY <2>1, <2>2, <2>3 DEF SureIsGranted, Carries
  <2>5. HandledExist'
    <3> SUFFICES ASSUME NEW i \in Jobs, NEW p \in job'[i].who \cup job'[i].pending
                 PROVE  users'[p].exists
      BY DEF HandledExist
    <3>1. p \in People
      BY <1>1 DEF DirectoryTypeOK, JobStates
    <3> QED
      BY <1>2, <2>1, <2>2, <3>1 DEF HandledExist, Carries
  <2> QED
    BY <2>4, <2>5
<1>4. CASE DirectoryChanges
  <2>0. PICK e, of : Becomes(e, of)
    BY <1>4 DEF DirectoryChanges, EntryChanges, GroupChanges
  <2>1. /\ job' = [j \in Jobs |-> [job[j] EXCEPT !.sure = @ \cap Grants(e, of),
                                                 !.here = @ \cap Listed(e)]]
        /\ entries' = e /\ boxOf' = of /\ UNCHANGED users
    BY <2>0 DEF Becomes, tables
  <2>2. Grants(entries, boxOf)' = Grants(e, of)
    BY <2>1 DEF Grants
  <2>3. \A j \in Jobs : /\ job'[j].sure = job[j].sure \cap Grants(e, of)
                        /\ job'[j].who = job[j].who /\ job'[j].pending = job[j].pending
    <3> SUFFICES ASSUME NEW j \in Jobs
                 PROVE  /\ job'[j].sure = job[j].sure \cap Grants(e, of)
                        /\ job'[j].who = job[j].who /\ job'[j].pending = job[j].pending
      OBVIOUS
    <3>1. job[j] \in JobStates
      BY DEF DirectoryTypeOK
    <3>2. job'[j] = [job[j] EXCEPT !.sure = @ \cap Grants(e, of), !.here = @ \cap Listed(e)]
      BY <2>1
    <3> QED
      BY <3>1, <3>2 DEF JobStates
  <2> QED
    BY <1>1, <2>1, <2>2, <2>3 DEF SureIsGranted, HandledExist
<1>5. CASE Hands \/ UNCHANGED directoryVars
  <2>1. UNCHANGED <<job, entries, boxOf>>
    BY <1>5 DEF Hands, OidcLogin, CreateUser, UpdateUserRole, DeleteUser, CreateMailbox,
      DeleteMailbox, UpdateMailbox, AddAssignment, RemoveAssignment, directoryVars, directory
  <2>2. SureIsGranted'
    BY <2>1 DEF SureIsGranted, Grants
  <2>3. HandledExist'
    <3> SUFFICES ASSUME NEW j \in Jobs, NEW p \in job[j].who \cup job[j].pending
                 PROVE  users'[p].exists
      BY <2>1 DEF HandledExist
    <3>1. p \in People
      BY DEF DirectoryTypeOK, JobStates
    <3> QED
      BY <1>2, <3>1 DEF HandledExist
  <2> QED
    BY <1>1, <2>2, <2>3
<1> QED
  BY <1>1, <1>3, <1>4, <1>5 DEF DirectoryNext, Jobs

LEMMA DirectoryInvariant == DirectorySpec => []DirectoryIInv
<1>1. DirectoryInit => DirectoryIInv
  <2> SUFFICES ASSUME DirectoryInit PROVE DirectoryIInv
    OBVIOUS
  <2> USE DirectoryAssumption DEF DirectoryInit
  <2>1. NoUser \in UserRows /\ NoBox \in BoxRows
    BY DEF NoUser, NoBox, UserRows, BoxRows, Roles, Sources
  <2>2. \A j \in Jobs : job[j] \in JobStates /\ JobOK(j, job[j])
    BY IdleOK
  <2>3. DirectoryTypeOK
    BY <2>1, <2>2 DEF DirectoryTypeOK
  <2>4. Rounds /\ SureIsGranted /\ HandledExist
    BY <2>2 DEF Rounds, SureIsGranted, HandledExist, Idle
  <2> QED
    BY <2>3, <2>4 DEF DirectoryIInv
<1>2. DirectoryIInv /\ [DirectoryNext]_directoryVars => DirectoryIInv'
  BY DirectoryInvariantStep
<1> QED
  BY <1>1, <1>2, PTL DEF DirectorySpec

\* Every variable of module Directory keeps its type, in particular what a round
\* or a login carries from step to step.
THEOREM DirectoryTypeCorrect == DirectorySpec => []DirectoryTypeOK
BY DirectoryInvariant, PTL DEF DirectoryIInv

-----------------------------------------------------------------------------
(* What a round may take away.                                             *)

\* The steps of replicas and logins that touch assignments.
LEMMA OnlySyncRemoves ==
  ASSUME DirectoryIInv, [DirectoryNext]_directoryVars, job' # job, assigned' # assigned
  PROVE  \E j \in Jobs, p \in People :
            /\ p \in job[j].who \cup job[j].pending
            /\ Knows(job[j], p) /\ HasRead(job[j], p)
            /\ SyncAssignments(p, Tuples(j, p))
            /\ job'[j] # job[j]
<1> USE DEF DirectoryIInv, DirectoryTypeOK, tables
<1>1. ASSUME NEW j \in Jobs, Reconcile(j)
      PROVE  \E p \in job[j].who : /\ Knows(job[j], p) /\ HasRead(job[j], p)
                                   /\ SyncAssignments(p, Tuples(j, p))
                                   /\ job'[j] # job[j] /\ p \in People
  <2>1. job[j] \in JobStates /\ JobOK(j, job[j]) /\ job[j].at = "reconcile"
    BY <1>1 DEF Rounds, Reconcile
  <2>2. Onward(job[j]).at # "reconcile"
    BY <2>1 DEF Onward, JobStates
  <2>3. job'[j] = Onward(job[j])
    BY <1>1 DEF Reconcile, Set
  <2>4. PICK p \in job[j].who : SyncAssignments(p, Tuples(j, p))
    BY <1>1 DEF Reconcile
  <2>5. p \in People
    BY <2>1 DEF JobStates
  <2> QED
    BY <2>1, <2>2, <2>3, <2>4, <2>5 DEF JobOK
<1>2. ASSUME NEW j \in Jobs, NEW p \in People, ReconcileFixed(j, p)
      PROVE  /\ p \in job[j].pending
             /\ Knows(job[j], p) /\ HasRead(job[j], p)
             /\ SyncAssignments(p, Tuples(j, p))
             /\ job'[j] # job[j]
  <2>1. job[j] \in JobStates /\ JobOK(j, job[j]) /\ job[j].at = "fixed" /\ p \in job[j].pending
    BY <1>2 DEF Rounds, ReconcileFixed
  <2>2. AfterFixed(j, p) # job[j]
    <3>1. CASE job[j].pending = {p}
      <4>1. Onward([job[j] EXCEPT !.pending = {}]).pending = {}
        BY <2>1 DEF Onward, JobStates
      <4> QED
        BY <3>1, <4>1 DEF AfterFixed
    <3>2. CASE job[j].pending # {p}
      <4>1. [job[j] EXCEPT !.pending = @ \ {p}].pending = job[j].pending \ {p}
        BY <2>1 DEF JobStates
      <4> QED
        BY <2>1, <3>2, <4>1 DEF AfterFixed
    <3> QED
      BY <3>1, <3>2
  <2>3. job'[j] = AfterFixed(j, p)
    BY <1>2 DEF ReconcileFixed, Set
  <2> QED
    BY <1>2, <2>1, <2>2, <2>3 DEF JobOK, RoundOK, ReconcileFixed
<1>3. ASSUME NEW j \in Jobs,
             \/ Search(j) \/ SearchFindsNobody(j) \/ Deactivate(j) \/ DeactivateFails(j) \/ Dies(j)
             \/ Resolved(j) \/ ReconcileFails(j) \/ ListMailboxes(j) \/ ListMailboxesFails(j)
      PROVE  FALSE
  BY <1>3 DEF Search, SearchFindsNobody, Deactivate, DeactivateFails, Dies, Resolved, ReconcileFails,
     ListMailboxes, ListMailboxesFails
<1>4. ASSUME NEW j \in Jobs,
             \/ \E p \in People : \/ Login(j, p) \/ Provision(j, p) \/ ProvisionFails(j, p)
                                  \/ ReconcileFixedFails(j, p)
             \/ \E g \in Groups : Lookup(j, g) \/ LookupFails(j, g)
      PROVE  FALSE
  BY <1>4 DEF Login, Provision, ProvisionFails, ReconcileFixedFails, Lookup, LookupFails
<1>5. ASSUME DirectoryChanges \/ Hands \/ UNCHANGED directoryVars PROVE FALSE
  BY <1>5 DEF DirectoryChanges, EntryChanges, GroupChanges, Becomes, Hands, OidcLogin, CreateUser,
     UpdateUserRole, DeleteUser, CreateMailbox, DeleteMailbox, UpdateMailbox, AddAssignment,
     RemoveAssignment, directoryVars
<1> QED
  BY <1>1, <1>2, <1>3, <1>4, <1>5 DEF DirectoryNext, Step, Fails, Jobs

\* Whom a reconciliation leaves without a mailbox was not granted it all along.
LEMMA RemovedIsNotSure ==
  ASSUME DirectoryIInv, NEW j \in Jobs, NEW p \in People, NEW q \in People, NEW b \in Boxes,
         Knows(job[j], p), HasRead(job[j], p), SyncAssignments(p, Tuples(j, p)),
         assigned[<<q, b>>] # "none", assigned'[<<q, b>>] = "none", NEW g \in Groups
  PROVE  <<q, g, b>> \notin job[j].sure
<1>1. q = p /\ b \notin Tuples(j, p)
  <2>1. assigned' = Desired(p, Tuples(j, p)) /\ <<q, b>> \in People \X Boxes
    BY DEF SyncAssignments
  <2> QED
    BY <2>1 DEF Desired
<1>2. SUFFICES ASSUME <<p, g, b>> \in job[j].sure PROVE FALSE
  BY <1>1
<1>3. g \in job[j].found[p].groups
  BY <1>2 DEF Knows
<1>4. g \in job[j].read
  BY <1>3 DEF HasRead
<1>5. b \in job[j].gives[g]
  BY <1>2, <1>4 DEF DirectoryIInv, Rounds, JobOK, RoundOK, ReadIsSure
<1> QED
  BY <1>1, <1>3, <1>5 DEF Tuples

\* A mailbox that the directory grants through one group, from the search on,
\* is taken away by no round and no login, whatever fails and whoever else
\* works on the same rows.
THEOREM GrantedStays == DirectorySpec => OnlyLapsedAreRemoved
<1>1. ASSUME DirectoryIInv, [DirectoryNext]_directoryVars, NEW q \in People, NEW b \in Boxes,
             assigned[<<q, b>>] # "none", assigned'[<<q, b>>] = "none", job' # job
      PROVE  \E j \in Jobs : /\ job'[j] # job[j]
                             /\ \A g \in Groups : <<q, g, b>> \notin job[j].sure
  BY <1>1, OnlySyncRemoves, RemovedIsNotSure
<1>2. DirectoryIInv /\ [DirectoryNext]_directoryVars =>
        [\A p \in People, b \in Boxes :
            assigned[<<p, b>>] # "none" /\ assigned'[<<p, b>>] = "none" /\ job' # job
                => \E j \in Jobs : /\ job'[j] # job[j]
                                   /\ \A g \in Groups : <<p, g, b>> \notin job[j].sure]_directoryVars
  BY <1>1
<1> QED
  BY <1>2, DirectoryInvariant, PTL DEF DirectorySpec, OnlyLapsedAreRemoved

\* Whoever was in the directory all along, and could be provisioned, is not
\* deactivated: not by a search that finds nobody, nor by a round that passed
\* somebody over or ran beside another.
THEOREM OnlyLeaversGo == DirectorySpec => OnlyLeaversAreDeactivated
<1>1. ASSUME DirectoryIInv, [DirectoryNext]_directoryVars, NEW p \in People,
             users[p].active, ~users'[p].active, job' # job
      PROVE  \E j \in Jobs : /\ job'[j] # job[j]
                             /\ (p \notin job[j].here \/ p \in job[j].failed)
  <2> USE DEF DirectoryIInv, DirectoryTypeOK, tables
  <2>1. ASSUME NEW j \in Jobs, Deactivate(j)
        PROVE  /\ job'[j] # job[j]
               /\ (p \notin job[j].here \/ p \in job[j].failed)
    <3>1. job[j].at = "deactivate"
      BY <2>1 DEF Deactivate
    <3>2. job[j] \in JobStates /\ JobOK(j, job[j]) /\ job[j].todo = {}
      BY <1>1, <3>1 DEF Rounds, JobOK
    <3>3. j \in Replicas /\ job[j].present # {} /\ p \notin job[j].present
      BY <1>1, <2>1 DEF Deactivate
    <3>4. job'[j] = Idle
      BY <1>1, <2>1 DEF Deactivate, Set
    <3>5. Idle.at = "idle"
      BY DEF Idle
    <3> QED
      BY <1>1, <3>1, <3>2, <3>3, <3>4, <3>5 DEF JobOK, RoundOK, CoversAll
  <2>2. ASSUME NEW j \in Jobs, NEW q \in People, Provision(j, q) PROVE FALSE
    <3>1. RoleOf(job[j].found[q].groups) \in Roles /\ "ldap" \in Sources
      BY DEF RoleOf, Roles, Sources
    <3>2. users[q].active => users'[q].active
      BY <2>2, <3>1 DEF Provision, Upserted, UserRows
    <3>3. \A o \in People : o # q => users'[o] = users[o]
      BY <2>2 DEF Provision
    <3> QED
      BY <1>1, <3>2, <3>3
  <2>3. ASSUME UNCHANGED users \/ UNCHANGED job PROVE FALSE
    BY <1>1, <2>3
  <2>4. ASSUME NEW j \in Jobs,
               \/ Search(j) \/ SearchFindsNobody(j) \/ Dies(j) \/ DeactivateFails(j) \/ Resolved(j)
               \/ Reconcile(j) \/ ReconcileFails(j) \/ ListMailboxes(j) \/ ListMailboxesFails(j)
        PROVE  FALSE
    BY <2>3, <2>4 DEF Search, SearchFindsNobody, DeactivateFails, Dies, Resolved, Reconcile,
       ReconcileFails, ListMailboxes, ListMailboxesFails, SyncAssignments
  <2>5. ASSUME NEW j \in Jobs,
               \/ \E q \in People : \/ Login(j, q) \/ ProvisionFails(j, q)
                                    \/ ReconcileFixed(j, q) \/ ReconcileFixedFails(j, q)
               \/ \E g \in Groups : Lookup(j, g) \/ LookupFails(j, g)
        PROVE  FALSE
    BY <2>3, <2>5 DEF Login, ProvisionFails, ReconcileFixed, ReconcileFixedFails, Lookup,
       LookupFails, SyncAssignments
  <2>6. ASSUME DirectoryChanges \/ Hands \/ UNCHANGED directoryVars PROVE FALSE
    BY <2>3, <2>6 DEF DirectoryChanges, EntryChanges, GroupChanges, Becomes, Hands, OidcLogin,
       CreateUser, UpdateUserRole, DeleteUser, CreateMailbox, DeleteMailbox, UpdateMailbox,
       AddAssignment, RemoveAssignment, directoryVars
  <2> QED
    BY <1>1, <2>1, <2>2, <2>4, <2>5, <2>6 DEF DirectoryNext, Step, Fails, Jobs
<1>2. DirectoryIInv /\ [DirectoryNext]_directoryVars =>
        [\A p \in People :
            users[p].active /\ ~users'[p].active /\ job' # job
                => \E j \in Jobs : /\ job'[j] # job[j]
                                   /\ (p \notin job[j].here \/ p \in job[j].failed)]_directoryVars
  BY <1>1
<1> QED
  BY <1>2, DirectoryInvariant, PTL DEF DirectorySpec, OnlyLeaversAreDeactivated

\* The role and the source of a row stand as the rank of sources says, and no
\* round or login changes what an administrator made of mailboxes and assignments,
\* for any number of them at work on the same rows.
THEOREM AuthorityStands == DirectorySpec => AuthorityIsKept
<1> DEFINE UserIsKept(p) ==
             users[p].exists =>
                /\ users'[p].by # users[p].by
                       => users[p].by = "oidc" /\ users'[p].by = "ldap" /\ job' # job
                /\ users'[p].role # users[p].role
                       => \/ \E role \in Roles : UpdateUserRole(p, role)
                          \/ users[p].by = "ldap" /\ job' # job
                          \/ users[p].by = "oidc"
                /\ users[p].by = "manual" /\ users'[p] # users[p] => job' = job
           BoxIsKept(b) == boxes[b].exists /\ boxes'[b] # boxes[b] => job' = job
           AssignmentIsKept(x) == assigned[x] = "manual" /\ assigned'[x] # "manual" => job' = job
<1>1. ASSUME DirectoryIInv, [DirectoryNext]_directoryVars, NEW p \in People
      PROVE  UserIsKept(p)
  <2> USE DEF DirectoryIInv, DirectoryTypeOK, tables
  <2>0. users[p] \in UserRows
    BY <1>1
  <2>1. ASSUME users'[p] = users[p] PROVE UserIsKept(p)
    BY <2>1
  <2>2. ASSUME NEW j \in Jobs, Deactivate(j) PROVE UserIsKept(p)
    <3>1. users[p].by = "ldap" \/ users'[p] = users[p]
      BY <2>2 DEF Deactivate
    <3>2. users'[p] = [users[p] EXCEPT !.active = FALSE] \/ users'[p] = users[p]
      BY <2>2 DEF Deactivate
    <3>3. users'[p].by = users[p].by /\ users'[p].role = users[p].role
      <4> HIDE DEF DirectoryIInv, DirectoryTypeOK
      <4> QED
        BY <2>0, <3>2, DeactivatedRow
    <3> QED
      BY <3>1, <3>3
  <2>3. ASSUME NEW j \in Jobs, NEW q \in People, Provision(j, q) PROVE UserIsKept(p)
    <3>1. RoleOf(job[j].found[q].groups) \in Roles /\ "ldap" \in Sources
      BY DEF RoleOf, Roles, Sources
    <3>2. users'[p] = users[p] \/
          users'[p] = Upserted(users[p], RoleOf(job[j].found[q].groups), "ldap")
      BY <2>3 DEF Provision
    <3>3. job' # job
      <4>1. job[j].at = "entries" /\ job[j] \in JobStates
        BY <1>1, <2>3 DEF Provision
      <4> DEFINE k == [job[j] EXCEPT !.todo = @ \ {q}, !.who = {q},
                                     !.present = @ \cup {q}, !.at = "resolve"]
      <4>2. job'[j] = Idle \/ job'[j] = k
        BY <1>1, <2>3 DEF Provision, Set
      <4>3. k.at = "resolve" /\ Idle.at = "idle"
        BY <4>1 DEF JobStates, Idle
      <4> QED
        BY <4>1, <4>2, <4>3
    <3> HIDE DEF DirectoryIInv
    <3> QED
      BY <2>0, <3>1, <3>2, <3>3, UpsertedRow DEF UserRows, Sources
  <2>4. ASSUME NEW q \in People, NEW role \in Roles,
               OidcLogin(q, role) \/ CreateUser(q, role) \/ UpdateUserRole(q, role)
        PROVE  UserIsKept(p)
    <3>1. CASE OidcLogin(q, role)
      <4>1. UNCHANGED job /\ "oidc" \in Sources
        BY <3>1 DEF OidcLogin, Sources
      <4>2. users'[p] = users[p] \/ users'[p] = Upserted(users[p], role, "oidc")
        BY <3>1 DEF OidcLogin
      <4> HIDE DEF DirectoryIInv
      <4> QED
        BY <2>0, <4>1, <4>2, UpsertedRow DEF UserRows, Sources
    <3>2. CASE CreateUser(q, role)
      BY <3>2 DEF CreateUser
    <3>3. CASE UpdateUserRole(q, role)
      <4>1. UNCHANGED job
        BY <3>3 DEF UpdateUserRole
      <4>2. users'[p].by = users[p].by
        BY <2>0, <3>3 DEF UpdateUserRole, UserRows
      <4>3. q # p => users'[p] = users[p]
        BY <3>3 DEF UpdateUserRole
      <4>4. q = p => \E r \in Roles : UpdateUserRole(p, r)
        BY <3>3
      <4> HIDE DEF DirectoryIInv, DirectoryTypeOK
      <4> QED
        BY <4>1, <4>2, <4>3, <4>4
    <3> QED
      BY <2>4, <3>1, <3>2, <3>3
  <2>5. ASSUME NEW q \in People, DeleteUser(q) PROVE UserIsKept(p)
    <3>1. UNCHANGED job
      BY <2>5 DEF DeleteUser
    <3>2. users'[p] = [users[p] EXCEPT !.active = FALSE] \/ users'[p] = users[p]
      BY <1>1, <2>5 DEF DeleteUser
    <3>3. users'[p].by = users[p].by /\ users'[p].role = users[p].role
      <4> HIDE DEF DirectoryIInv, DirectoryTypeOK
      <4> QED
        BY <2>0, <3>2, DeactivatedRow
    <3> QED
      BY <3>1, <3>3
  <2>6. ASSUME NEW j \in Jobs,
               \/ Search(j) \/ SearchFindsNobody(j) \/ Dies(j) \/ DeactivateFails(j) \/ Resolved(j)
               \/ Reconcile(j) \/ ReconcileFails(j) \/ ListMailboxes(j) \/ ListMailboxesFails(j)
        PROVE  UNCHANGED users
    BY <2>6 DEF Search, SearchFindsNobody, DeactivateFails, Dies, Resolved, Reconcile,
       ReconcileFails, ListMailboxes, ListMailboxesFails, SyncAssignments
  <2>7. ASSUME NEW j \in Jobs,
               \/ \E q \in People : \/ Login(j, q) \/ ProvisionFails(j, q)
                                    \/ ReconcileFixed(j, q) \/ ReconcileFixedFails(j, q)
               \/ \E g \in Groups : Lookup(j, g) \/ LookupFails(j, g)
        PROVE  UNCHANGED users
    BY <2>7 DEF Login, ProvisionFails, ReconcileFixed, ReconcileFixedFails, Lookup,
       LookupFails, SyncAssignments
  <2>8. ASSUME \/ DirectoryChanges
               \/ \E b \in Boxes : CreateMailbox(b) \/ DeleteMailbox(b)
               \/ \E b \in Boxes, active \in BOOLEAN : UpdateMailbox(b, active)
               \/ \E q \in People, b \in Boxes : AddAssignment(q, b) \/ RemoveAssignment(q, b)
               \/ UNCHANGED directoryVars
        PROVE  UNCHANGED users
    BY <2>8 DEF DirectoryChanges, EntryChanges, GroupChanges, Becomes, CreateMailbox,
       DeleteMailbox, UpdateMailbox, AddAssignment, RemoveAssignment, directoryVars
  <2> HIDE DEF UserIsKept
  <2> QED
    BY <1>1, <2>1, <2>2, <2>3, <2>4, <2>5, <2>6, <2>7, <2>8
    DEF DirectoryNext, Step, Fails, Hands, Jobs
<1>2. ASSUME DirectoryIInv, [DirectoryNext]_directoryVars, job' # job
      PROVE  \/ UNCHANGED <<boxes, assigned>>
             \/ \E p \in People, want \in SUBSET Boxes : SyncAssignments(p, want)
  <2> USE DEF tables
  <2>1. ASSUME NEW j \in Jobs, NEW p \in job[j].who, SyncAssignments(p, Tuples(j, p))
        PROVE  \E q \in People, want \in SUBSET Boxes : SyncAssignments(q, want)
    <3>1. p \in People
      BY <1>2 DEF DirectoryIInv, DirectoryTypeOK, JobStates
    <3> QED
      BY <1>2, <2>1, <3>1, TuplesAreBoxes DEF DirectoryIInv
  <2>2. ASSUME NEW j \in Jobs, NEW p \in People, SyncAssignments(p, Tuples(j, p))
        PROVE  \E q \in People, want \in SUBSET Boxes : SyncAssignments(q, want)
    BY <1>2, <2>2, TuplesAreBoxes DEF DirectoryIInv
  <2>3. ASSUME NEW j \in Jobs,
               \/ Search(j) \/ SearchFindsNobody(j) \/ DeactivateFails(j) \/ Dies(j) \/ Resolved(j)
               \/ Deactivate(j) \/ ReconcileFails(j) \/ ListMailboxes(j) \/ ListMailboxesFails(j)
        PROVE  UNCHANGED <<boxes, assigned>>
    BY <2>3 DEF Search, SearchFindsNobody, DeactivateFails, Dies, Resolved, Deactivate,
       ReconcileFails, ListMailboxes, ListMailboxesFails
  <2>4. ASSUME NEW j \in Jobs,
               \/ \E q \in People : \/ Login(j, q) \/ ProvisionFails(j, q)
                                    \/ Provision(j, q) \/ ReconcileFixedFails(j, q)
               \/ \E g \in Groups : Lookup(j, g) \/ LookupFails(j, g)
        PROVE  UNCHANGED <<boxes, assigned>>
    BY <2>4 DEF Login, ProvisionFails, Provision, ReconcileFixedFails, Lookup, LookupFails
  <2>5. ASSUME DirectoryChanges PROVE UNCHANGED <<boxes, assigned>>
    BY <2>5 DEF DirectoryChanges, EntryChanges, GroupChanges, Becomes
  <2>6. ~Hands /\ ~UNCHANGED directoryVars
    BY <1>2 DEF Hands, OidcLogin, CreateUser, UpdateUserRole, DeleteUser, CreateMailbox,
       DeleteMailbox, UpdateMailbox, AddAssignment, RemoveAssignment, directoryVars
  <2> QED
    BY <1>2, <2>1, <2>2, <2>3, <2>4, <2>5, <2>6
    DEF DirectoryNext, Step, Fails, Jobs, Reconcile, ReconcileFixed
<1>3. ASSUME DirectoryIInv, [DirectoryNext]_directoryVars, NEW b \in Boxes
      PROVE  BoxIsKept(b)
  BY <1>2, <1>3 DEF SyncAssignments, UpsertedBoxes
<1>4. ASSUME DirectoryIInv, [DirectoryNext]_directoryVars, NEW x \in People \X Boxes
      PROVE  AssignmentIsKept(x)
  BY <1>2, <1>4 DEF SyncAssignments, Desired
<1>5. DirectoryIInv /\ [DirectoryNext]_directoryVars =>
        [/\ \A p \in People : UserIsKept(p)
         /\ \A b \in Boxes : BoxIsKept(b)
         /\ \A x \in People \X Boxes : AssignmentIsKept(x)]_directoryVars
  <2> HIDE DEF UserIsKept, BoxIsKept, AssignmentIsKept
  <2> QED
    BY <1>1, <1>3, <1>4
<1> QED
  BY <1>5, DirectoryInvariant, PTL DEF DirectorySpec, AuthorityIsKept

-----------------------------------------------------------------------------
(* Module DirectoryLive.                                                   *)

\* Peers that fall silent add nothing but waiting: what is proved above holds
\* of every behaviour that the promises in the long run are checked on.
THEOREM LiveIsDirectory == LiveSpec => DirectorySpec
<1>1. LiveInit => DirectoryInit
  BY DEF LiveInit
<1>2. ASSUME [LiveNext]_liveVars PROVE [DirectoryNext]_directoryVars
  <2>1. CASE LiveNext
    BY <2>1 DEF LiveNext, Proceed, Falter, GoSilent, Restart, Change, DirectoryNext, Fails
  <2>2. CASE UNCHANGED liveVars
    BY <2>2 DEF liveVars
  <2> QED
    BY <1>2, <2>1, <2>2
<1> QED
  BY <1>1, <1>2, PTL DEF LiveSpec, DirectorySpec

=============================================================================
