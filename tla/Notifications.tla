---------------------------- MODULE Notifications ----------------------------
(***************************************************************************)
(* The mails about approval requests.  Every replica of the api-server has *)
(* a notifier that, twice a minute, mails the approvers of a request that  *)
(* is pending and not yet announced, one after the other, keeps one row    *)
(* per recipient of what was sent, and then mails the outcome of a request *)
(* that was decided to its sender.                                         *)
(*                                                                         *)
(* One request; one process is one notifier; one action is one statement   *)
(* on the database or one SMTP session.  The decisions are those of module *)
(* Approval.                                                               *)
(***************************************************************************)
EXTENDS Naturals, FiniteSets

CONSTANTS
    Approvers,    \* users who may be admins of the mailboxes of the request
    Notifiers,    \* replicas of the api-server
    MaxAttempts,  \* maxNotificationAttempts: 5 in the code
    MaxAssign,    \* bound: changes of the admins
    MaxFaults     \* bound: crashes, failed statements, answers that are lost

ASSUME NotificationsAssumption ==
    /\ IsFiniteSet(Approvers)
    /\ MaxAttempts \in Nat \ {0}
    /\ MaxAssign \in Nat
    /\ MaxFaults \in Nat

VARIABLES
    status,      \* of the approval request
    announced,   \* notification_sent
    resultTold,  \* result_notified
    admins,      \* the approvers of the mailboxes now
    rows,        \* approval_notifications, by recipient
    job,         \* where each notifier is
    assigned,    \* changes of the admins so far
    faults,      \* faults so far
    (* history *)
    mailed,      \* approvers who got the announcement
    again,       \* those who got it more than once
    excused,     \* those for whom there was a cause to mail again
    told,        \* the outcomes that were mailed to the sender
    undecided,   \* an approval was told, and taken back later
    late         \* approvers who were listed after a notifier had counted

requestVars == <<status, announced, resultTold, admins, rows>>
history == <<mailed, again, excused, told, undecided, late>>
vars == <<requestVars, job, assigned, faults, history>>

NoRow == [listed |-> FALSE, sent |-> FALSE, attempts |-> 0]
Idle == [at |-> "idle", todo |-> {}, to |-> {}, ok |-> FALSE, outcome |-> "none"]

Decided == {"approved", "rejected"}

TypeOK ==
    /\ status \in {"pending", "expired"} \cup Decided
    /\ {announced, resultTold, undecided} \subseteq BOOLEAN
    /\ admins \subseteq Approvers
    /\ rows \in [Approvers -> [listed : BOOLEAN, sent : BOOLEAN, attempts : Nat]]
    /\ \A a \in Approvers : rows[a].sent \/ rows[a].attempts > 0 => rows[a].listed
    /\ \A n \in Notifiers :
        /\ job[n].at \in {"idle", "resolve", "ensure", "list", "send", "record",
                          "announce", "results", "tell", "settle"}
        /\ job[n].todo \subseteq Approvers
        /\ job[n].outcome \in Decided \cup {"none"}
    /\ assigned \in 0..MaxAssign
    /\ faults \in 0..MaxFaults
    /\ told \subseteq Decided

Init ==
    /\ status = "pending"
    /\ announced = FALSE
    /\ resultTold = FALSE
    /\ admins \in SUBSET Approvers
    /\ rows = [a \in Approvers |-> NoRow]
    /\ job = [n \in Notifiers |-> Idle]
    /\ assigned = 0
    /\ faults = 0
    /\ mailed = {}
    /\ again = {}
    /\ excused = {}
    /\ told = {}
    /\ undecided = FALSE
    /\ late = {}

Fault == faults < MaxFaults /\ faults' = faults + 1

Set(n, j) == job' = [job EXCEPT ![n] = j]
\* Counted to the limit: every test of the code is one against it.
Least(k) == IF k > MaxAttempts THEN MaxAttempts ELSE k

Goto(n, step) == Set(n, [Idle EXCEPT !.at = step])

\* Still to be tried: not sent, and not given up.
Remaining(a) == rows[a].listed /\ ~rows[a].sent /\ rows[a].attempts < MaxAttempts

-----------------------------------------------------------------------------
(* Mutants: plausible bugs, each breaks one of the properties below.       *)

\* The row of a recipient is replaced, where INSERT IGNORE keeps it.
Ensure_Replaces(n, a) ==
    /\ job[n].at = "ensure"
    /\ a \in job[n].todo
    /\ rows' = [rows EXCEPT ![a] = [NoRow EXCEPT !.listed = TRUE]]
    /\ Set(n, [job[n] EXCEPT !.todo = @ \ {a},
                             !.at = IF job[n].todo = {a} THEN "list" ELSE "ensure"])
    /\ UNCHANGED <<status, announced, resultTold, admins, assigned, faults, history>>

\* The request counts as announced after the first round.
AllTried_Round == TRUE

\* A rejection is not told.
ListResults_Approved(n) ==
    /\ job[n].at = "results"
    /\ Set(n, IF status = "approved" /\ ~resultTold
              THEN [Idle EXCEPT !.at = "tell", !.outcome = status] ELSE Idle)
    /\ UNCHANGED <<requestVars, assigned, faults, history>>

-----------------------------------------------------------------------------
(* The announcement of a request.                                          *)

\* ListPendingUnnotified; an error of it ends this half of the round.
ListPending(n) ==
    /\ job[n].at = "idle"
    /\ IF status = "pending" /\ ~announced THEN Goto(n, "resolve") ELSE Goto(n, "results")
    /\ UNCHANGED <<requestVars, assigned, faults, history>>

\* resolveNotificationRecipients: nobody to be mailed is an error.
Resolve(n) ==
    /\ job[n].at = "resolve"
    /\ IF admins = {} THEN Goto(n, "results")
       ELSE Set(n, [Idle EXCEPT !.at = "ensure", !.todo = admins])
    /\ UNCHANGED <<requestVars, assigned, faults, history>>

Counted == announced \/ \E n \in Notifiers : job[n].at = "announce"

\* INSERT IGNORE of one recipient.
Ensure(n, a) ==
    /\ job[n].at = "ensure"
    /\ a \in job[n].todo
    /\ rows' = [rows EXCEPT ![a].listed = TRUE]
    /\ late' = IF ~rows[a].listed /\ Counted THEN late \cup {a} ELSE late
    /\ Set(n, [job[n] EXCEPT !.todo = @ \ {a},
                             !.at = IF job[n].todo = {a} THEN "list" ELSE "ensure"])
    /\ UNCHANGED <<status, announced, resultTold, admins, assigned, faults,
                   mailed, again, excused, told, undecided>>

Untried == {a \in Approvers : Remaining(a)}

\* ListPendingNotificationRecipients.
ListRecipients(n) ==
    /\ job[n].at = "list"
    /\ Set(n, [job[n] EXCEPT !.at = "send", !.todo = Untried])
    /\ UNCHANGED <<requestVars, assigned, faults, history>>

\* Another notifier has mailed a, or is about to, since this one listed a.
Raced(n, a) ==
    \/ rows[a].sent
    \/ \E o \in Notifiers \ {n} : job[o].at = "record" /\ a \in job[o].to /\ job[o].ok

Mail(a) == mailed' = mailed \cup {a} /\ again' = again \cup (mailed \cap {a})

\* sendMail succeeds.
Send(n, a) ==
    /\ job[n].at = "send"
    /\ a \in job[n].todo
    /\ Mail(a)
    /\ excused' = IF Raced(n, a) THEN excused \cup {a} ELSE excused
    /\ Set(n, [job[n] EXCEPT !.at = "record", !.to = {a}, !.ok = TRUE])
    /\ UNCHANGED <<requestVars, assigned, faults, told, undecided, late>>

\* It fails.
SendFails(n, a) ==
    /\ job[n].at = "send"
    /\ a \in job[n].todo
    /\ Set(n, [job[n] EXCEPT !.at = "record", !.to = {a}, !.ok = FALSE])
    /\ UNCHANGED <<requestVars, assigned, faults, history>>

\* It fails after the mail was accepted: no answer to DATA, or to QUIT.
SendUnclear(n, a) ==
    /\ job[n].at = "send"
    /\ a \in job[n].todo
    /\ Fault
    /\ Mail(a)
    /\ excused' = excused \cup {a}
    /\ Set(n, [job[n] EXCEPT !.at = "record", !.to = {a}, !.ok = FALSE])
    /\ UNCHANGED <<requestVars, assigned, told, undecided, late>>

\* MarkApprovalNotificationResult: the last result stands, also a failure
\* after the success of another notifier.
Record(n) ==
    /\ job[n].at = "record"
    /\ \E a \in job[n].to :
        /\ rows' = [rows EXCEPT ![a].sent = job[n].ok, ![a].attempts = Least(@ + 1)]
        /\ excused' = IF rows[a].sent /\ ~job[n].ok THEN excused \cup {a} ELSE excused
        /\ Set(n, [job[n] EXCEPT !.at = "send", !.todo = @ \ {a}, !.to = {}, !.ok = FALSE])
    /\ UNCHANGED <<status, announced, resultTold, admins, assigned, faults, mailed, again, told, undecided, late>>

\* It fails: logged, and the row stays as it is.
RecordFails(n) ==
    /\ job[n].at = "record"
    /\ Fault
    /\ \E a \in job[n].to :
        /\ excused' = IF job[n].ok THEN excused \cup {a} ELSE excused
        /\ Set(n, [job[n] EXCEPT !.at = "send", !.todo = @ \ {a}, !.to = {}, !.ok = FALSE])
    /\ UNCHANGED <<requestVars, assigned, mailed, again, told, undecided, late>>

AllTried == Untried = {}

\* CountRemainingNotifications: as long as one remains, the next round goes on.
Count(n) ==
    /\ job[n].at = "send"
    /\ job[n].todo = {}
    /\ Goto(n, IF AllTried THEN "announce" ELSE "results")
    /\ UNCHANGED <<requestVars, assigned, faults, history>>

\* MarkApprovalNotificationSent.
Announce(n) ==
    /\ job[n].at = "announce"
    /\ announced' = TRUE
    /\ Goto(n, "results")
    /\ UNCHANGED <<status, resultTold, admins, rows, assigned, faults, history>>

-----------------------------------------------------------------------------
(* The outcome of a request.                                               *)

\* ListResultUnnotified.
ListResults(n) ==
    /\ job[n].at = "results"
    /\ Set(n, IF status \in Decided /\ ~resultTold
              THEN [Idle EXCEPT !.at = "tell", !.outcome = status] ELSE Idle)
    /\ UNCHANGED <<requestVars, assigned, faults, history>>

\* sendResultNotification: the outcome that was listed is mailed.
Tell(n) ==
    /\ job[n].at = "tell"
    /\ told' = told \cup {job[n].outcome}
    /\ undecided' = (undecided \/ status # job[n].outcome)
    /\ Goto(n, "settle")
    /\ UNCHANGED <<requestVars, assigned, faults, mailed, again, excused, late>>

\* Nothing is recorded: the next round tries again, as often as it takes.
TellFails(n) ==
    /\ job[n].at = "tell"
    /\ Goto(n, "idle")
    /\ UNCHANGED <<requestVars, assigned, faults, history>>

\* MarkApprovalResultNotified.
Settle(n) ==
    /\ job[n].at = "settle"
    /\ resultTold' = TRUE
    /\ Goto(n, "idle")
    /\ UNCHANGED <<status, announced, admins, rows, assigned, faults, history>>

-----------------------------------------------------------------------------
(* The environment.                                                        *)

\* Another statement fails: the rest of this half of the round is left out.
StatementFails(n) ==
    /\ \/ job[n].at \in {"idle", "resolve", "ensure", "list", "announce", "results", "settle"}
       \/ job[n].at = "send" /\ job[n].todo = {}
    /\ Fault
    /\ Goto(n, IF job[n].at \in {"results", "settle"} THEN "idle" ELSE "results")
    /\ UNCHANGED <<requestVars, assigned, history>>

Crash(n) ==
    /\ job[n].at # "idle"
    /\ Fault
    /\ excused' = IF job[n].ok THEN excused \cup job[n].to ELSE excused
    /\ Goto(n, "idle")
    /\ UNCHANGED <<requestVars, assigned, mailed, again, told, undecided, late>>

\* Module Approval: a request is decided or expires, and an approval is taken
\* back when the mail cannot be delivered.
Decide ==
    /\ status = "pending"
    /\ status' \in Decided \cup {"expired"}
    /\ UNCHANGED <<announced, resultTold, admins, rows, job, assigned, faults, history>>

TakeBack ==
    /\ status = "approved"
    /\ Fault
    /\ status' = "pending"
    /\ undecided' = (undecided \/ told # {} \/ resultTold)
    /\ UNCHANGED <<announced, resultTold, admins, rows, job, assigned, mailed, again, excused, told, late>>

\* A mailbox gets or loses an admin.
Assign ==
    /\ assigned < MaxAssign
    /\ assigned' = assigned + 1
    /\ \E a \in Approvers : admins' = IF a \in admins THEN admins \ {a} ELSE admins \cup {a}
    /\ UNCHANGED <<status, announced, resultTold, rows, job, faults, history>>

-----------------------------------------------------------------------------
Round(n) ==
    \/ ListPending(n) \/ Resolve(n) \/ (\E a \in Approvers : Ensure(n, a)) \/ ListRecipients(n)
    \/ (\E a \in Approvers : Send(n, a) \/ SendFails(n, a) \/ SendUnclear(n, a))
    \/ Record(n) \/ RecordFails(n) \/ Count(n) \/ Announce(n)
    \/ ListResults(n) \/ Tell(n) \/ TellFails(n) \/ Settle(n) \/ StatementFails(n)

Next ==
    \/ \E n \in Notifiers : Round(n) \/ Crash(n)
    \/ Decide \/ TakeBack \/ Assign

Spec == Init /\ [][Next]_vars

-----------------------------------------------------------------------------
(* Properties.                                                             *)

\* An approver gets one announcement, and another one only for a cause: the
\* first was accepted without an answer, its success could not be recorded, or
\* two notifiers mailed the same approver at the same time.
SecondMailHasCause == again \subseteq excused

\* A request counts as announced only when every recipient has been mailed, or
\* was tried as often as it may be, whatever replicas, errors and changes of the
\* mailboxes came in between, but for recipients who were listed after the last
\* notifier had counted.
NobodyForgotten ==
    announced => \A a \in Approvers \ late :
        rows[a].listed => a \in mailed \/ rows[a].attempts >= MaxAttempts
=============================================================================
