------------------------- MODULE NotificationsProofs -------------------------
(***************************************************************************)
(* Proofs about Notifications, for any number of approvers, replicas and   *)
(* faults and any limit of attempts: types, the causes of a second mail,   *)
(* and that a request does not count as announced too early.               *)
(***************************************************************************)
EXTENDS NotificationsLive, TLAPS

Steps == {"idle", "resolve", "ensure", "list", "send", "record",
          "announce", "results", "tell", "settle"}

Jobs == [at : Steps, todo : SUBSET Approvers, to : SUBSET Approvers, ok : BOOLEAN,
         outcome : Decided \cup {"none"}]

\* Who has tried one recipient records that one, and only then a success; who
\* tells an outcome tells that of a decision.
WellFormed(j) ==
    /\ IF j.at = "record" THEN \E a \in Approvers : j.to = {a} ELSE j.to = {}
    /\ j.at = "tell" => j.outcome \in Decided
    /\ j.ok => j.at = "record"

JobsTyped == job \in [Notifiers -> Jobs] /\ \A n \in Notifiers : WellFormed(job[n])

Rows == [listed : BOOLEAN, sent : BOOLEAN, attempts : Nat]

TablesTyped ==
    /\ status \in {"pending", "expired"} \cup Decided
    /\ announced \in BOOLEAN /\ resultTold \in BOOLEAN /\ undecided \in BOOLEAN
    /\ admins \subseteq Approvers
    /\ rows \in [Approvers -> Rows]
    /\ \A a \in Approvers : rows[a].sent \/ rows[a].attempts > 0 => rows[a].listed
    /\ assigned \in 0..MaxAssign
    /\ faults \in 0..MaxFaults
    /\ told \subseteq Decided

\* Whom a job tries, or has tried.
Tries(j) == IF j.at \in {"send", "record"} THEN j.todo \cup j.to ELSE {}

\* A recipient that is tried has a row.
TriedIsListed == \A n \in Notifiers : \A a \in Tries(job[n]) : rows[a].listed

Typed == TablesTyped /\ JobsTyped /\ TriedIsListed

LEMMA InitTyped == Init => Typed
<1> SUFFICES ASSUME Init PROVE Typed
  OBVIOUS
<1>1. TablesTyped
  <2>1. rows \in [Approvers -> Rows] 
    BY DEF Init, Rows, NoRow
  <2>2. \A a \in Approvers : rows[a].sent \/ rows[a].attempts > 0 => rows[a].listed
    BY DEF Init, NoRow
  <2>3. 0 \in 0..MaxAssign /\ 0 \in 0..MaxFaults
    BY NotificationsAssumption
  <2> QED
    BY <2>1, <2>3, <2>2 DEF Init, TablesTyped
<1>2. JobsTyped /\ TriedIsListed
  BY DEF Init, JobsTyped, Jobs, WellFormed, Steps, Idle, TriedIsListed, Tries
<1> QED
  BY <1>1, <1>2 DEF Typed

LEMMA TypedImplies == Typed => TypeOK
<1>1. {announced, resultTold, undecided} \subseteq BOOLEAN
         <=> announced \in BOOLEAN /\ resultTold \in BOOLEAN /\ undecided \in BOOLEAN
  OBVIOUS
<1>2. JobsTyped => \A n \in Notifiers :
        /\ job[n].at \in {"idle", "resolve", "ensure", "list", "send", "record",
                          "announce", "results", "tell", "settle"}
        /\ job[n].todo \subseteq Approvers
        /\ job[n].outcome \in Decided \cup {"none"}
  BY DEF JobsTyped, Jobs, Steps
<1> QED
  BY <1>1, <1>2 DEF Typed, TypeOK, TablesTyped, Rows

\* Where a round goes without trying anybody.
LEMMA Elsewhere ==
    ASSUME NEW step \in Steps \ {"record", "tell"}
    PROVE  /\ [Idle EXCEPT !.at = step] \in Jobs
           /\ WellFormed([Idle EXCEPT !.at = step])
           /\ Tries([Idle EXCEPT !.at = step]) = {}
           /\ [Idle EXCEPT !.at = step].at # "record"
           /\ ~[Idle EXCEPT !.at = step].ok
  BY DEF Idle, Jobs, Steps, WellFormed, Tries

\* A notifier that gets such a job leaves everything well typed, if the tables
\* are and no row has gone.
LEMMA SetTyped ==
    ASSUME Typed, TablesTyped', NEW n \in Notifiers, NEW j \in Jobs, WellFormed(j), Set(n, j),
           \A a \in Approvers : rows[a].listed => rows'[a].listed,
           \A a \in Tries(j) : rows'[a].listed
    PROVE  Typed'
<1>1. JobsTyped'
  BY DEF Typed, JobsTyped, Set
<1>2. ASSUME NEW m \in Notifiers, NEW a \in Tries(job'[m]) PROVE rows'[a].listed
  <2>1. CASE m = n
    BY <1>2, <2>1 DEF Typed, JobsTyped, Set
  <2>2. CASE m # n
    <3>1. job'[m] = job[m] /\ job[m] \in Jobs
      BY <2>2 DEF Typed, JobsTyped, Set
    <3>2. a \in Approvers /\ rows[a].listed
      BY <1>2, <3>1 DEF Typed, TriedIsListed, Tries, Jobs
    <3> QED
      BY <3>2
  <2> QED
    BY <2>1, <2>2
<1> QED
  BY <1>1, <1>2 DEF Typed, TriedIsListed

LEMMA TypedStep == ASSUME Typed, [Next]_vars PROVE Typed'
<1> USE NotificationsAssumption DEF requestVars, history
<1>0. TablesTyped /\ JobsTyped
  BY DEF Typed
<1>1. ASSUME NEW n \in Notifiers, ListPending(n) PROVE Typed'
  <2>1. PICK step \in {"resolve", "results"} : Goto(n, step)
    BY <1>1 DEF ListPending
  <2>2. TablesTyped' /\ UNCHANGED rows
    BY <1>0, <1>1 DEF ListPending, TablesTyped
  <2>3. step \in Steps \ {"record", "tell"}
    BY DEF Steps
  <2> QED
    BY <2>1, <2>2, <2>3, Elsewhere, SetTyped DEF Goto
<1>2. ASSUME NEW n \in Notifiers, Count(n) PROVE Typed'
  <2>1. PICK step \in {"announce", "results"} : Goto(n, step)
    BY <1>2 DEF Count
  <2>2. TablesTyped' /\ UNCHANGED rows
    BY <1>0, <1>2 DEF Count, TablesTyped
  <2>3. step \in Steps \ {"record", "tell"}
    BY DEF Steps
  <2> QED
    BY <2>1, <2>2, <2>3, Elsewhere, SetTyped DEF Goto
<1>3. ASSUME NEW n \in Notifiers, Announce(n) PROVE Typed'
  <2>1. PICK step \in {"results"} : Goto(n, step)
    BY <1>3 DEF Announce
  <2>2. TablesTyped' /\ UNCHANGED rows
    BY <1>0, <1>3 DEF Announce, TablesTyped
  <2>3. step \in Steps \ {"record", "tell"}
    BY DEF Steps
  <2> QED
    BY <2>1, <2>2, <2>3, Elsewhere, SetTyped DEF Goto
<1>4. ASSUME NEW n \in Notifiers, TellFails(n) PROVE Typed'
  <2>1. PICK step \in {"idle"} : Goto(n, step)
    BY <1>4 DEF TellFails
  <2>2. TablesTyped' /\ UNCHANGED rows
    BY <1>0, <1>4 DEF TellFails, TablesTyped, Fault
  <2>3. step \in Steps \ {"record", "tell"}
    BY DEF Steps
  <2> QED
    BY <2>1, <2>2, <2>3, Elsewhere, SetTyped DEF Goto
<1>5. ASSUME NEW n \in Notifiers, Settle(n) PROVE Typed'
  <2>1. PICK step \in {"idle"} : Goto(n, step)
    BY <1>5 DEF Settle
  <2>2. TablesTyped' /\ UNCHANGED rows
    BY <1>0, <1>5 DEF Settle, TablesTyped
  <2>3. step \in Steps \ {"record", "tell"}
    BY DEF Steps
  <2> QED
    BY <2>1, <2>2, <2>3, Elsewhere, SetTyped DEF Goto
<1>6. ASSUME NEW n \in Notifiers, StatementFails(n) PROVE Typed'
  <2>1. PICK step \in {"idle", "results"} : Goto(n, step)
    BY <1>6 DEF StatementFails
  <2>2. TablesTyped' /\ UNCHANGED rows
    BY <1>0, <1>6 DEF StatementFails, TablesTyped, Fault
  <2>3. step \in Steps \ {"record", "tell"}
    BY DEF Steps
  <2> QED
    BY <2>1, <2>2, <2>3, Elsewhere, SetTyped DEF Goto
<1>7. ASSUME NEW n \in Notifiers, Crash(n) PROVE Typed'
  <2>1. PICK step \in {"idle"} : Goto(n, step)
    BY <1>7 DEF Crash
  <2>2. TablesTyped' /\ UNCHANGED rows
    BY <1>0, <1>7 DEF Crash, TablesTyped, Fault
  <2>3. step \in Steps \ {"record", "tell"}
    BY DEF Steps
  <2> QED
    BY <2>1, <2>2, <2>3, Elsewhere, SetTyped DEF Goto
<1>8. ASSUME NEW n \in Notifiers, Tell(n) PROVE Typed'
  <2>1. PICK step \in {"settle"} : Goto(n, step)
    BY <1>8 DEF Tell
  <2>2. TablesTyped' /\ UNCHANGED rows
    BY <1>0, <1>8 DEF Tell, TablesTyped, JobsTyped, WellFormed
  <2>3. step \in Steps \ {"record", "tell"}
    BY DEF Steps
  <2> QED
    BY <2>1, <2>2, <2>3, Elsewhere, SetTyped DEF Goto
<1>9. ASSUME NEW n \in Notifiers, Resolve(n) PROVE Typed'
  <2>1. PICK j : j = IF admins = {} THEN [Idle EXCEPT !.at = "results"]
                 ELSE [Idle EXCEPT !.at = "ensure", !.todo = admins]
    OBVIOUS
  <2>2. Set(n, j) /\ j \in Jobs /\ WellFormed(j)
    BY <1>0, <1>9, <2>1 DEF Resolve, JobsTyped, Jobs, WellFormed, Steps, Idle, Goto, TablesTyped
  <2>3. TablesTyped' /\ \A a \in Approvers : rows[a].listed => rows'[a].listed
    BY <1>0, <1>9 DEF Resolve, TablesTyped
  <2>4. \A a \in Tries(j) : rows'[a].listed
    BY <1>0, <1>9, <2>1, <2>2, <2>3 DEF Resolve, Typed, TriedIsListed, JobsTyped, Jobs, Tries, Idle
  <2> QED
    BY <2>2, <2>3, <2>4, SetTyped
<1>10. ASSUME NEW n \in Notifiers, NEW b \in Approvers, Ensure(n, b) PROVE Typed'
  <2>1. PICK j : j = [job[n] EXCEPT !.todo = @ \ {b},
                                !.at = IF job[n].todo = {b} THEN "list" ELSE "ensure"]
    OBVIOUS
  <2>2. Set(n, j) /\ j \in Jobs /\ WellFormed(j)
    BY <1>0, <1>10, <2>1 DEF Ensure, JobsTyped, Jobs, WellFormed, Steps
  <2>3. TablesTyped' /\ \A a \in Approvers : rows[a].listed => rows'[a].listed
    BY <1>0, <1>10 DEF Ensure, TablesTyped, Rows
  <2>4. \A a \in Tries(j) : rows'[a].listed
    BY <1>0, <1>10, <2>1, <2>2, <2>3 DEF Ensure, Typed, TriedIsListed, JobsTyped, Jobs, Tries
  <2> QED
    BY <2>2, <2>3, <2>4, SetTyped
<1>11. ASSUME NEW n \in Notifiers, ListRecipients(n) PROVE Typed'
  <2>1. PICK j : j = [job[n] EXCEPT !.at = "send", !.todo = Untried]
    OBVIOUS
  <2>2. Set(n, j) /\ j \in Jobs /\ WellFormed(j)
    BY <1>0, <1>11, <2>1 DEF ListRecipients, JobsTyped, Jobs, WellFormed, Steps, Untried
  <2>3. TablesTyped' /\ \A a \in Approvers : rows[a].listed => rows'[a].listed
    BY <1>0, <1>11 DEF ListRecipients, TablesTyped
  <2>4. \A a \in Tries(j) : rows'[a].listed
    BY <1>0, <1>11, <2>1, <2>2, <2>3 DEF ListRecipients, Typed, TriedIsListed, JobsTyped, Jobs,
       Tries, Untried, Remaining, WellFormed
  <2> QED
    BY <2>2, <2>3, <2>4, SetTyped
<1>12. ASSUME NEW n \in Notifiers, NEW b \in Approvers, Send(n, b) PROVE Typed'
  <2>1. PICK j : j = [job[n] EXCEPT !.at = "record", !.to = {b}, !.ok = TRUE]
    OBVIOUS
  <2>2. Set(n, j) /\ j \in Jobs /\ WellFormed(j)
    BY <1>0, <1>12, <2>1 DEF Send, JobsTyped, Jobs, WellFormed, Steps
  <2>3. TablesTyped' /\ \A a \in Approvers : rows[a].listed => rows'[a].listed
    BY <1>0, <1>12 DEF Send, TablesTyped
  <2>4. \A a \in Tries(j) : rows'[a].listed
    BY <1>0, <1>12, <2>1, <2>2, <2>3 DEF Send, Typed, TriedIsListed, JobsTyped, Jobs, Tries
  <2> QED
    BY <2>2, <2>3, <2>4, SetTyped
<1>13. ASSUME NEW n \in Notifiers, NEW b \in Approvers, SendFails(n, b) PROVE Typed'
  <2>1. PICK j : j = [job[n] EXCEPT !.at = "record", !.to = {b}, !.ok = FALSE]
    OBVIOUS
  <2>2. Set(n, j) /\ j \in Jobs /\ WellFormed(j)
    BY <1>0, <1>13, <2>1 DEF SendFails, JobsTyped, Jobs, WellFormed, Steps
  <2>3. TablesTyped' /\ \A a \in Approvers : rows[a].listed => rows'[a].listed
    BY <1>0, <1>13 DEF SendFails, TablesTyped
  <2>4. \A a \in Tries(j) : rows'[a].listed
    BY <1>0, <1>13, <2>1, <2>2, <2>3 DEF SendFails, Typed, TriedIsListed, JobsTyped, Jobs, Tries
  <2> QED
    BY <2>2, <2>3, <2>4, SetTyped
<1>14. ASSUME NEW n \in Notifiers, NEW b \in Approvers, SendUnclear(n, b) PROVE Typed'
  <2>1. PICK j : j = [job[n] EXCEPT !.at = "record", !.to = {b}, !.ok = FALSE]
    OBVIOUS
  <2>2. Set(n, j) /\ j \in Jobs /\ WellFormed(j)
    BY <1>0, <1>14, <2>1 DEF SendUnclear, JobsTyped, Jobs, WellFormed, Steps
  <2>3. TablesTyped' /\ \A a \in Approvers : rows[a].listed => rows'[a].listed
    BY <1>0, <1>14 DEF SendUnclear, TablesTyped, Fault
  <2>4. \A a \in Tries(j) : rows'[a].listed
    BY <1>0, <1>14, <2>1, <2>2, <2>3 DEF SendUnclear, Typed, TriedIsListed, JobsTyped, Jobs, Tries
  <2> QED
    BY <2>2, <2>3, <2>4, SetTyped
<1>15. ASSUME NEW n \in Notifiers, Record(n) PROVE Typed'
  <2>1. PICK b \in Approvers : job[n].to = {b}
    BY <1>0, <1>15 DEF Record, JobsTyped, WellFormed
  <2>2. PICK j : j = [job[n] EXCEPT !.at = "send", !.todo = @ \ {b}, !.to = {}, !.ok = FALSE]
    OBVIOUS
  <2>3. Set(n, j)
    BY <1>15, <2>1, <2>2 DEF Record
  <2>4. j \in Jobs /\ WellFormed(j)
    BY <1>0, <2>1, <2>2, ZenonT(60) DEF JobsTyped, Jobs, WellFormed, Steps
  <2>5. rows[b].listed
    BY <1>0, <1>15, <2>1 DEF Record, Typed, TriedIsListed, Tries
  <2>6. UNCHANGED <<status, announced, resultTold, undecided, admins, assigned, told>>
    BY <1>15 DEF Record
  <2>7. faults' = faults /\ rows' = [rows EXCEPT ![b].sent = job[n].ok,
     ![b].attempts = Least(@ + 1)]
        /\ job[n].ok \in BOOLEAN
    BY <1>0, <1>15, <2>1 DEF Record, TablesTyped, JobsTyped, Jobs
  <2>8. Least(rows[b].attempts + 1) \in Nat
    BY <1>0, <2>1 DEF TablesTyped, Rows, Least
  <2>9. rows' \in [Approvers -> Rows]
    BY <1>0, <2>1, <2>7, <2>8, ZenonT(60) DEF TablesTyped, Rows
  <2>10. \A a \in Approvers : /\ rows[a].listed => rows'[a].listed
                              /\ rows'[a].sent \/ rows'[a].attempts > 0 => rows'[a].listed
    BY <1>0, <2>1, <2>5, <2>7 DEF TablesTyped, Rows
  <2>11. TablesTyped' /\ \A a \in Approvers : rows[a].listed => rows'[a].listed
    BY <1>0, <2>6, <2>7, <2>9, <2>10 DEF TablesTyped
  <2>12. \A a \in Tries(j) : rows'[a].listed
    BY <1>0, <1>15, <2>2, <2>11, <2>4 DEF Record, Typed, TriedIsListed, JobsTyped, Jobs, Tries
  <2> QED
    BY <2>3, <2>11, <2>12, <2>4, SetTyped
<1>16. ASSUME NEW n \in Notifiers, RecordFails(n) PROVE Typed'
  <2>1. PICK b \in Approvers : job[n].to = {b}
    BY <1>0, <1>16 DEF RecordFails, JobsTyped, WellFormed
  <2>2. PICK j : j = [job[n] EXCEPT !.at = "send", !.todo = @ \ {b}, !.to = {}, !.ok = FALSE]
    OBVIOUS
  <2>3. Set(n, j)
    BY <1>16, <2>1, <2>2 DEF RecordFails
  <2>4. j \in Jobs /\ WellFormed(j)
    BY <1>0, <2>1, <2>2, ZenonT(60) DEF JobsTyped, Jobs, WellFormed, Steps
  <2>5. rows[b].listed
    BY <1>0, <1>16, <2>1 DEF RecordFails, Typed, TriedIsListed, Tries
  <2>6. UNCHANGED <<status, announced, resultTold, undecided, admins, assigned, told>>
    BY <1>16 DEF RecordFails
  <2>7. rows' = rows /\ faults' \in 0..MaxFaults
    BY <1>0, <1>16, <2>1 DEF RecordFails, TablesTyped, JobsTyped, Jobs, Fault
  <2>8. TablesTyped' /\ \A a \in Approvers : rows[a].listed => rows'[a].listed
    BY <1>0, <2>6, <2>7 DEF TablesTyped
  <2>9. \A a \in Tries(j) : rows'[a].listed
    BY <1>0, <1>16, <2>2, <2>8, <2>4 DEF RecordFails, Typed, TriedIsListed, JobsTyped, Jobs, Tries
  <2> QED
    BY <2>3, <2>8, <2>9, <2>4, SetTyped
<1>17. ASSUME NEW n \in Notifiers, ListResults(n) PROVE Typed'
  <2>1. PICK j : j = IF status \in Decided /\ ~resultTold
                 THEN [Idle EXCEPT !.at = "tell", !.outcome = status] ELSE Idle
    OBVIOUS
  <2>2. Set(n, j) /\ j \in Jobs /\ WellFormed(j)
    BY <1>0, <1>17, <2>1 DEF ListResults, JobsTyped, Jobs, WellFormed, Steps, Idle, Decided
  <2>3. TablesTyped' /\ \A a \in Approvers : rows[a].listed => rows'[a].listed
    BY <1>0, <1>17 DEF ListResults, TablesTyped
  <2>4. \A a \in Tries(j) : rows'[a].listed
    BY <1>0, <1>17, <2>1, <2>2, <2>3 DEF ListResults, Typed, TriedIsListed, JobsTyped, Jobs,
       Tries, Idle
  <2> QED
    BY <2>2, <2>3, <2>4, SetTyped
<1>18. CASE Decide
  <2>1. TablesTyped' /\ UNCHANGED <<job, rows>>
    BY <1>0, <1>18 DEF Decide, TablesTyped, Decided
  <2> QED
    BY <2>1 DEF Typed, JobsTyped, TriedIsListed
<1>19. CASE TakeBack
  <2>1. TablesTyped' /\ UNCHANGED <<job, rows>>
    BY <1>0, <1>19 DEF TakeBack, TablesTyped, Fault
  <2> QED
    BY <2>1 DEF Typed, JobsTyped, TriedIsListed
<1>20. CASE Assign
  <2>1. TablesTyped' /\ UNCHANGED <<job, rows>>
    BY <1>0, <1>20 DEF Assign, TablesTyped
  <2> QED
    BY <2>1 DEF Typed, JobsTyped, TriedIsListed
<1>21. CASE UNCHANGED vars
  BY <1>21 DEF vars, Typed, TablesTyped, JobsTyped, TriedIsListed
<1> QED
  BY <1>1, <1>2, <1>3, <1>4, <1>5, <1>6, <1>7, <1>8, <1>9, <1>10, <1>11, <1>12, <1>13, <1>14,
     <1>15, <1>16, <1>17, <1>18, <1>19, <1>20, <1>21
     DEF Next, Round

\* Every variable keeps its type, and a recipient is tried only once listed.
THEOREM TypeCorrect == Spec => []TypeOK
<1>1. Typed /\ [Next]_vars => Typed'
  BY TypedStep
<1> QED
  BY InitTyped, <1>1, TypedImplies, PTL DEF Spec

-----------------------------------------------------------------------------
(* What a second mail has to do with the first.                            *)

\* Somebody is about to record that a was mailed.
Recording(a) == \E n \in Notifiers : job[n].ok /\ a \in job[n].to

\* Whoever was mailed has a row that says so, or will have one, or else there is
\* a cause to mail again; and no row says so of somebody who was not.
MailedIsKnown ==
    \A a \in Approvers :
        /\ a \in mailed => a \in excused \/ rows[a].sent \/ Recording(a)
        /\ rows[a].sent \/ Recording(a) => a \in mailed

Causes == MailedIsKnown /\ SecondMailHasCause /\ again \subseteq Approvers

\* Who has counted found everybody tried, and so it is from then on.
CountedIsTried ==
    Counted => \A a \in Approvers \ late :
        rows[a].listed => a \in mailed \/ rows[a].attempts >= MaxAttempts

IInv == Typed /\ Causes /\ CountedIsTried

LEMMA InitIInv == Init => IInv
<1> SUFFICES ASSUME Init PROVE Causes /\ CountedIsTried
  BY InitTyped DEF IInv
<1> QED
  BY DEF Init, Causes, MailedIsKnown, Recording, SecondMailHasCause, CountedIsTried, Counted,
         NoRow, Idle

\* Nobody but n changes its job.
Only(n) == \A m \in Notifiers \ {n} : job'[m] = job[m]

LEMMA RecordingSame ==
    ASSUME NEW n \in Notifiers, Only(n), ~job[n].ok, ~job'[n].ok, NEW a
    PROVE  Recording(a)' <=> Recording(a)
  BY DEF Recording, Only

\* A step of a notifier that neither mails nor records leaves the causes alone.
LEMMA CausesSame ==
    ASSUME Typed, Causes, NEW n \in Notifiers, Only(n), ~job[n].ok, ~job'[n].ok,
           UNCHANGED <<mailed, again, excused>>, \A a \in Approvers : rows'[a].sent = rows[a].sent
    PROVE  Causes'
<1>1. \A a \in Approvers : Recording(a)' <=> Recording(a)
  BY RecordingSame DEF Typed
<1> QED
  BY <1>1 DEF Causes, MailedIsKnown, SecondMailHasCause

\* A success that is recorded, or not, makes a row or a cause.
LEMMA CausesRecorded ==
    ASSUME Typed, Causes, NEW n \in Notifiers, Only(n), ~job'[n].ok,
           UNCHANGED <<mailed, again>>, excused \subseteq excused',
           \A a \in Approvers : job[n].ok /\ a \in job[n].to => rows'[a].sent \/ a \in excused',
           \A a \in Approvers : rows[a].sent => rows'[a].sent \/ a \in excused',
           \A a \in Approvers : rows'[a].sent => rows[a].sent \/ (job[n].ok /\ a \in job[n].to)
    PROVE  Causes'
<1>1. \A m \in Notifiers \ {n} : job'[m] = job[m]
  BY DEF Only
<1>2. ASSUME NEW a \in Approvers PROVE Recording(a)' => Recording(a)
  BY <1>1 DEF Recording
<1>3. ASSUME NEW a \in Approvers, Recording(a)
      PROVE  Recording(a)' \/ (job[n].ok /\ a \in job[n].to)
  BY <1>1, <1>3 DEF Recording
<1>4. ASSUME NEW a \in Approvers
      PROVE  /\ a \in mailed => a \in excused' \/ rows'[a].sent \/ Recording(a)'
             /\ rows'[a].sent \/ Recording(a)' => a \in mailed
  <2>1. rows[a].sent \/ Recording(a) => a \in mailed
    BY DEF Causes, MailedIsKnown
  <2>2. rows'[a].sent => rows[a].sent \/ Recording(a)
    BY DEF Recording
  <2>3. a \in mailed => a \in excused \/ rows[a].sent \/ Recording(a)
    BY DEF Causes, MailedIsKnown
  <2> QED
    BY <1>2, <1>3, <2>1, <2>2, <2>3
<1> QED
  BY <1>4 DEF Causes, MailedIsKnown, SecondMailHasCause

LEMMA CausesStep == ASSUME IInv, [Next]_vars PROVE Causes'
<1> USE DEF requestVars, history
<1>0. Typed /\ JobsTyped /\ TablesTyped /\ Causes
  BY DEF IInv, Typed
<1>1. ASSUME NEW n \in Notifiers,
             \/ ListPending(n) \/ Count(n) \/ Announce(n) \/ TellFails(n) \/ Settle(n)
             \/ StatementFails(n) \/ Tell(n)
      PROVE  Causes'
  <2>1. Only(n) /\ ~job'[n].ok
    BY <1>0, <1>1 DEF Only, Set, ListPending, Count, Announce, TellFails, Settle, StatementFails,
       Tell,
                      Goto, Set, Only, Idle, JobsTyped
  <2>2. ~job[n].ok
    BY <1>0, <1>1 DEF ListPending, Count, Announce, TellFails, Settle, StatementFails, Tell,
                      JobsTyped, WellFormed
  <2>3. UNCHANGED <<mailed, again, excused, rows>>
    BY <1>1 DEF ListPending, Count, Announce, TellFails, Settle, StatementFails, Tell
  <2> QED
    BY <1>0, <2>1, <2>2, <2>3, CausesSame
<1>2. ASSUME NEW n \in Notifiers, Resolve(n) \/ ListRecipients(n) \/ ListResults(n)
      PROVE  Causes'
  <2>1. Only(n) /\ ~job'[n].ok
    <3>1. CASE Resolve(n)
      BY <1>0, <3>1 DEF Resolve, Only, Set, Goto, Idle, JobsTyped
    <3>2. CASE ListRecipients(n)
      BY <1>0, <3>2 DEF ListRecipients, Only, Set, JobsTyped, Jobs, WellFormed
    <3>3. CASE ListResults(n)
      BY <1>0, <3>3 DEF ListResults, Only, Set, Idle, JobsTyped
    <3> QED
      BY <1>2, <3>1, <3>2, <3>3
  <2>2. ~job[n].ok /\ UNCHANGED <<mailed, again, excused, rows>>
    BY <1>0, <1>2 DEF Resolve, ListRecipients, ListResults, JobsTyped, WellFormed
  <2> QED
    BY <1>0, <2>1, <2>2, CausesSame
<1>3. ASSUME NEW n \in Notifiers, NEW b \in Approvers, Ensure(n, b) \/ SendFails(n, b)
      PROVE  Causes'
  <2>1. Only(n) /\ ~job'[n].ok
    <3>1. CASE Ensure(n, b)
      BY <1>0, <3>1 DEF Ensure, Only, Set, JobsTyped, Jobs, WellFormed
    <3>2. CASE SendFails(n, b)
      BY <1>0, <3>2 DEF SendFails, Only, Set, JobsTyped, Jobs
    <3> QED
      BY <1>3, <3>1, <3>2
  <2>2. ~job[n].ok /\ UNCHANGED <<mailed, again, excused>>
    BY <1>0, <1>3 DEF Ensure, SendFails, JobsTyped, WellFormed
  <2>3. \A a \in Approvers : rows'[a].sent = rows[a].sent
    BY <1>0, <1>3 DEF Ensure, SendFails, TablesTyped, Rows
  <2> QED
    BY <1>0, <2>1, <2>2, <2>3, CausesSame
<1>4. ASSUME NEW n \in Notifiers, NEW b \in Approvers, Send(n, b) PROVE Causes'
  <2>1. /\ ~job[n].ok /\ job'[n].ok /\ job'[n].to = {b}
        /\ \A m \in Notifiers \ {n} : job'[m] = job[m]
    BY <1>0, <1>4 DEF Send, Set, JobsTyped, WellFormed, Jobs
  <2>2. \A a \in Approvers : Recording(a)' <=> Recording(a) \/ a = b
    BY <2>1 DEF Recording
  <2>3. Recording(b) => Raced(n, b)
    BY <1>0, <2>1 DEF Recording, Raced, JobsTyped, WellFormed
  <2>4. b \in mailed => b \in excused'
    BY <1>0, <1>4, <2>3 DEF Send, Raced, Causes, MailedIsKnown
  <2>5. /\ mailed' = mailed \cup {b} /\ again' = again \cup (mailed \cap {b})
        /\ excused \subseteq excused' /\ UNCHANGED rows
    BY <1>4 DEF Send, Mail
  <2> QED
    BY <1>0, <2>2, <2>4, <2>5 DEF Causes, MailedIsKnown, SecondMailHasCause
<1>5. ASSUME NEW n \in Notifiers, NEW b \in Approvers, SendUnclear(n, b) PROVE Causes'
  <2>1. Only(n) /\ ~job'[n].ok
    BY <1>0, <1>5 DEF Only, Set, SendUnclear, JobsTyped, Jobs
  <2>2. ~job[n].ok
    BY <1>0, <1>5 DEF SendUnclear, JobsTyped, WellFormed
  <2>3. \A a \in Approvers : Recording(a)' <=> Recording(a)
    BY <1>0, <2>1, <2>2, RecordingSame
  <2>4. /\ mailed' = mailed \cup {b} /\ again' = again \cup (mailed \cap {b})
        /\ excused' = excused \cup {b} /\ UNCHANGED rows
    BY <1>5 DEF SendUnclear, Mail
  <2> QED
    BY <1>0, <2>3, <2>4 DEF Causes, MailedIsKnown, SecondMailHasCause
<1>6. ASSUME NEW n \in Notifiers, Record(n) PROVE Causes'
  <2>1. PICK b \in Approvers : job[n].to = {b}
    BY <1>0, <1>6 DEF Record, JobsTyped, WellFormed
  <2>2. Only(n) /\ ~job'[n].ok
    BY <1>0, <1>6 DEF Only, Set, Record, JobsTyped, Jobs
  <2>3. /\ UNCHANGED <<mailed, again>>
        /\ rows' = [rows EXCEPT ![b].sent = job[n].ok, ![b].attempts = Least(@ + 1)]
        /\ excused' = IF rows[b].sent /\ ~job[n].ok THEN excused \cup {b} ELSE excused
    BY <1>6, <2>1 DEF Record
  <2>4. \A a \in Approvers : rows'[a].sent = IF a = b THEN job[n].ok ELSE rows[a].sent
    BY <1>0, <2>3 DEF TablesTyped, Rows
  <2> QED
    BY <1>0, <2>1, <2>2, <2>3, <2>4, CausesRecorded
<1>7. ASSUME NEW n \in Notifiers, RecordFails(n) PROVE Causes'
  <2>1. PICK b \in Approvers : job[n].to = {b}
    BY <1>0, <1>7 DEF RecordFails, JobsTyped, WellFormed
  <2>2. Only(n) /\ ~job'[n].ok
    BY <1>0, <1>7 DEF Only, Set, RecordFails, JobsTyped, Jobs
  <2>3. /\ UNCHANGED <<mailed, again, rows>>
        /\ excused' = IF job[n].ok THEN excused \cup {b} ELSE excused
    BY <1>7, <2>1 DEF RecordFails
  <2> QED
    BY <1>0, <2>1, <2>2, <2>3, CausesRecorded
<1>8. ASSUME NEW n \in Notifiers, Crash(n) PROVE Causes'
  <2>1. Only(n) /\ ~job'[n].ok
    BY <1>0, <1>8 DEF Only, Set, Crash, Goto, Idle, JobsTyped
  <2>2. /\ UNCHANGED <<mailed, again, rows>>
        /\ excused' = IF job[n].ok THEN excused \cup job[n].to ELSE excused
    BY <1>8 DEF Crash
  <2> QED
    BY <1>0, <2>1, <2>2, CausesRecorded
<1>9. CASE Decide \/ TakeBack \/ Assign \/ UNCHANGED vars
  <2>1. UNCHANGED <<mailed, again, excused, rows, job>>
    BY <1>9 DEF Decide, TakeBack, Assign, vars
  <2> QED
    BY <1>0, <2>1 DEF Causes, MailedIsKnown, SecondMailHasCause, Recording
<1> QED
  BY <1>1, <1>2, <1>3, <1>4, <1>5, <1>6, <1>7, <1>8, <1>9 DEF Next, Round

-----------------------------------------------------------------------------
(* What it means that a request was announced.                             *)

\* A step that only adds to what was mailed, tried or found late, and counts
\* nobody, keeps what was counted.
LEMMA CountedSame ==
    ASSUME CountedIsTried, Counted' => Counted, mailed \subseteq mailed', late \subseteq late',
           \A a \in Approvers \ late' : rows'[a].listed =>
               /\ rows[a].listed
               /\ rows[a].attempts >= MaxAttempts => rows'[a].attempts >= MaxAttempts
    PROVE  CountedIsTried'
  BY DEF CountedIsTried

LEMMA CountedOnce ==
    ASSUME NEW n \in Notifiers, Only(n), job'[n].at # "announce", announced' = announced
    PROVE  Counted' => Counted
  BY DEF Counted, Only

LEMMA CountedStep == ASSUME IInv, [Next]_vars PROVE CountedIsTried'
<1> USE DEF requestVars, history
<1>0. Typed /\ JobsTyped /\ TablesTyped /\ Causes /\ CountedIsTried
  BY DEF IInv, Typed
<1>1. ASSUME NEW n \in Notifiers,
             \/ ListPending(n) \/ TellFails(n) \/ Settle(n) \/ Tell(n) \/ Resolve(n)
             \/ StatementFails(n) \/ Crash(n) \/ ListRecipients(n) \/ ListResults(n)
             \/ RecordFails(n)
             \/ \E b \in Approvers : Send(n, b) \/ SendFails(n, b) \/ SendUnclear(n, b)
      PROVE  CountedIsTried'
  <2>1. Only(n) /\ job'[n].at # "announce"
    <3> USE <1>0 DEF Only, Set, Goto, Idle, JobsTyped, Jobs
    <3>1. CASE ListPending(n) \/ Settle(n) \/ Tell(n) \/ TellFails(n) \/ Crash(n)
      BY <3>1 DEF ListPending, Settle, Tell, TellFails, Crash
    <3>2. CASE Resolve(n)
      BY <3>2 DEF Resolve
    <3>3. CASE ListResults(n)
      BY <3>3 DEF ListResults
    <3>4. CASE StatementFails(n)
      <4>1. PICK step \in {"idle", "results"} : Goto(n, step)
        BY <3>4 DEF StatementFails
      <4> QED
        BY <4>1
    <3>5. CASE ListRecipients(n)
      BY <3>5 DEF ListRecipients
    <3>6. CASE RecordFails(n)
      BY <3>6 DEF RecordFails
    <3>7. ASSUME NEW b \in Approvers, Send(n, b) \/ SendFails(n, b) \/ SendUnclear(n, b)
          PROVE  Only(n) /\ job'[n].at # "announce"
      BY <3>7 DEF Send, SendFails, SendUnclear
    <3> QED
      BY <1>1, <3>1, <3>2, <3>3, <3>4, <3>5, <3>6, <3>7
  <2>2. UNCHANGED <<announced, rows, late>> /\ mailed \subseteq mailed'
    BY <1>1 DEF ListPending, TellFails, Settle, Tell, Resolve, StatementFails, Crash,
         ListRecipients, ListResults, RecordFails, Send, SendFails, SendUnclear, Mail
  <2> QED
    BY <1>0, <2>1, <2>2, CountedOnce, CountedSame
<1>2. ASSUME NEW n \in Notifiers, NEW b \in Approvers, Ensure(n, b) PROVE CountedIsTried'
  <2>1. Only(n) /\ job'[n].at # "announce"
    BY <1>0, <1>2 DEF Only, Set, Ensure, JobsTyped, Jobs
  <2>2. UNCHANGED <<announced, mailed>> /\ late \subseteq late'
        /\ rows' = [rows EXCEPT ![b].listed = TRUE]
        /\ (~rows[b].listed /\ Counted => b \in late')
    BY <1>2 DEF Ensure
  <2>3. Counted' => Counted
    BY <1>0, <2>1, <2>2, CountedOnce
  <2>4. CASE Counted
    <3>1. \A a \in Approvers \ late' : rows'[a].listed =>
              rows[a].listed /\ rows'[a].attempts = rows[a].attempts
      BY <1>0, <2>2, <2>4 DEF TablesTyped, Rows
    <3> QED
      BY <1>0, <2>2, <2>3, <3>1, CountedSame
  <2>5. CASE ~Counted
    BY <2>3, <2>5 DEF CountedIsTried
  <2> QED
    BY <2>4, <2>5
<1>3. ASSUME NEW n \in Notifiers, Record(n) PROVE CountedIsTried'
  <2>1. Only(n) /\ job'[n].at # "announce"
    BY <1>0, <1>3 DEF Only, Set, Record, JobsTyped, Jobs
  <2>2. PICK b \in Approvers : job[n].to = {b}
    BY <1>0, <1>3 DEF Record, JobsTyped, WellFormed
  <2>3. UNCHANGED <<announced, mailed, late>>
        /\ rows' = [rows EXCEPT ![b].sent = job[n].ok, ![b].attempts = Least(@ + 1)]
    BY <1>3, <2>2 DEF Record
  <2>4. \A a \in Approvers : rows'[a].listed = rows[a].listed
          /\ rows'[a].attempts = IF a = b THEN Least(rows[a].attempts + 1) ELSE rows[a].attempts
    BY <1>0, <2>3 DEF TablesTyped, Rows
  <2>5. rows[b].attempts >= MaxAttempts => Least(rows[b].attempts + 1) >= MaxAttempts
    BY <1>0, NotificationsAssumption DEF TablesTyped, Rows, Least
  <2> QED
    BY <1>0, <2>1, <2>3, <2>4, <2>5, CountedOnce, CountedSame
<1>4. ASSUME NEW n \in Notifiers, Count(n) PROVE CountedIsTried'
  <2>1. UNCHANGED <<announced, mailed, late, rows>>
    BY <1>4 DEF Count
  <2>2. CASE AllTried
    <3>1. \A a \in Approvers : rows[a].listed =>
              rows[a].sent \/ rows[a].attempts >= MaxAttempts
      BY <1>0, <2>2, NotificationsAssumption DEF AllTried, Untried, Remaining, TablesTyped, Rows
    <3>2. \A a \in Approvers : rows[a].sent => a \in mailed
      BY <1>0 DEF Causes, MailedIsKnown
    <3> QED
      BY <2>1, <3>1, <3>2 DEF CountedIsTried
  <2>3. CASE ~AllTried
    <3>1. Only(n) /\ job'[n].at # "announce"
      BY <1>4, <2>3 DEF Only, Set, Count, Goto, Idle
    <3> QED
      BY <1>0, <2>1, <3>1, CountedOnce, CountedSame
  <2> QED
    BY <2>2, <2>3
<1>5. ASSUME NEW n \in Notifiers, Announce(n) PROVE CountedIsTried'
  <2>1. Counted /\ UNCHANGED <<rows, mailed, late>>
    BY <1>5 DEF Announce, Counted
  <2> QED
    BY <1>0, <2>1 DEF CountedIsTried
<1>6. CASE Decide \/ TakeBack \/ Assign \/ UNCHANGED vars
  <2>1. UNCHANGED <<announced, mailed, late, rows, job>>
    BY <1>6 DEF Decide, TakeBack, Assign, vars
  <2> QED
    BY <1>0, <2>1 DEF CountedIsTried, Counted
<1> QED
  BY <1>1, <1>2, <1>3, <1>4, <1>5, <1>6 DEF Next, Round

LEMMA Invariant == Spec => []IInv
<1>1. IInv /\ [Next]_vars => IInv'
  BY TypedStep, CausesStep, CountedStep DEF IInv
<1> QED
  BY InitIInv, <1>1, PTL DEF Spec

\* An approver is mailed once more only for a cause on record.
THEOREM SecondMailsHaveCauses == Spec => []SecondMailHasCause
<1>1. IInv => SecondMailHasCause
  BY DEF IInv, Causes
<1> QED
  BY Invariant, <1>1, PTL

\* A request that counts as announced was mailed to, or tried to the limit for,
\* everybody listed before the last count.
THEOREM NobodyIsForgotten == Spec => []NobodyForgotten
<1>1. IInv => NobodyForgotten
  BY DEF IInv, CountedIsTried, Counted, NobodyForgotten
<1> QED
  BY Invariant, <1>1, PTL

-----------------------------------------------------------------------------
(* Module NotificationsLive.                                              *)

\* Peers that fall silent add nothing but waiting: what is proved above holds
\* of every behaviour that the promises in the long run are checked on.
THEOREM LiveIsNotifications == LiveSpec => Spec
<1>1. LiveInit => Init
  BY DEF LiveInit
<1>2. ASSUME [LiveNext]_liveVars PROVE [Next]_vars
  <2>1. CASE LiveNext
    BY <2>1 DEF LiveNext, Proceed, GoSilent, Restart, Change, Next
  <2>2. CASE UNCHANGED liveVars
    BY <2>2 DEF liveVars
  <2> QED
    BY <1>2, <2>1, <2>2
<1> QED
  BY <1>1, <1>2, PTL DEF LiveSpec, Spec

=============================================================================
