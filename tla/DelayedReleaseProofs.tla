------------------------ MODULE DelayedReleaseProofs ------------------------
(***************************************************************************)
(* Proofs about DelayedRelease, for any number of releases, replicas and   *)
(* users and for any bounds: the type invariant, then the claim protocol.  *)
(***************************************************************************)
EXTENDS DelayedReleaseLive, TLAPS

\* Past the steps 'idle' and 'cycle' a process works on a release.
WorksOnRelease ==
    \A p \in Procs : at[p] \notin {"idle", "cycle"} => rel[p] \in Releases

Typed == TypeOK /\ WorksOnRelease

-----------------------------------------------------------------------------
LEMMA InitTyped == Init => Typed
  BY DelayAssumption DEF Init, Typed, TypeOK, WorksOnRelease, RowStatus, MailStatus, Eml, Steps

LEMMA TypedStep == ASSUME Typed, [Next]_vars PROVE Typed'
<1> USE DelayAssumption DEF Typed, TypeOK, WorksOnRelease, RowStatus, MailStatus, Eml, Steps,
        dbVars, envVars, procVars, historyVars, Procs, Goto, Return, Answer
<1>1. ASSUME NEW p \in Procs, ListDue(p) PROVE Typed'
  BY <1>1 DEF ListDue
<1>2. ASSUME NEW p \in Procs, NEW i \in Releases, StartRelease(p, i) PROVE Typed'
  BY <1>2 DEF StartRelease
<1>3. ASSUME NEW p \in Procs, EndCycle(p) PROVE Typed'
  BY <1>3 DEF EndCycle
<1>4. ASSUME NEW p \in Procs, ClaimWon(p) PROVE Typed'
  BY <1>4 DEF ClaimWon
<1>5. ASSUME NEW p \in Procs, ClaimLost(p) PROVE Typed'
  BY <1>5 DEF ClaimLost
<1>6. ASSUME NEW p \in Procs, ClaimFails(p) PROVE Typed'
  BY <1>6 DEF ClaimFails
<1>7. ASSUME NEW p \in Procs, Load(p) \/ LoadFails(p) PROVE Typed'
  BY <1>7 DEF Load, LoadFails
<1>8. ASSUME NEW p \in Procs, SendAccepted(p) PROVE Typed'
  BY <1>8 DEF SendAccepted, Copied
<1>9. ASSUME NEW p \in Procs, SendRefused(p) PROVE Typed'
  BY <1>9 DEF SendRefused
<1>10. ASSUME NEW p \in Procs, SendUnclear(p) PROVE Typed'
  <2>1. /\ copies' \in [Releases -> Nat]
        /\ bodies' \in [Releases -> SUBSET Eml]
    BY <1>10 DEF SendUnclear, Copied
  <2> QED
    BY <1>10, <2>1 DEF SendUnclear
<1>11. ASSUME NEW p \in Procs, Record(p) PROVE Typed'
  BY <1>11 DEF Record
<1>12. ASSUME NEW p \in Procs, Rollback(p) \/ RollbackFails(p) PROVE Typed'
  <2>1. CASE Rollback(p)
    BY <2>1 DEF Rollback
  <2>2. CASE RollbackFails(p)
    BY <2>2 DEF RollbackFails
  <2> QED
    BY <1>12, <2>1, <2>2
<1>13. ASSUME NEW p \in Procs, CancelWon(p) \/ CancelLost(p) \/ CancelFails(p) PROVE Typed'
  BY <1>13 DEF CancelWon, CancelLost, CancelFails
<1>14. ASSUME NEW p \in Procs, RecordCancel(p) PROVE Typed'
  BY <1>14 DEF RecordCancel
<1>15. ASSUME NEW p \in Procs, Crash(p) PROVE Typed'
  <2>1. crashes' \in 0..MaxCrashes
    BY <1>15 DEF Crash
  <2>2. lost' \in [Releases -> BOOLEAN]
    BY <1>15 DEF Crash
  <2>3. /\ todo' \in [Procs -> SUBSET Releases]
        /\ at' \in [Procs -> Steps]
        /\ rel' \in [Procs -> Releases \cup {NoRelease}]
    BY <1>15 DEF Crash
  <2>4. WorksOnRelease'
    BY <1>15 DEF Crash
  <2> QED
    BY <1>15, <2>1, <2>2, <2>3, <2>4 DEF Crash
<1>16. ASSUME NEW u \in Users, NEW i \in Releases, SendNow(u, i) \/ RequestCancel(u, i)
       PROVE  Typed'
  BY <1>16 DEF SendNow, RequestCancel, OpenRequest
<1>17. ASSUME NEW i \in Releases, Archive(i) \/ BecomeDue(i) PROVE Typed'
  <2>1. CASE Archive(i)
    BY <2>1 DEF Archive
  <2>2. CASE BecomeDue(i)
    BY <2>2 DEF BecomeDue
  <2> QED
    BY <1>17, <2>1, <2>2
<1>18. CASE UNCHANGED vars
  BY <1>18 DEF vars
<1> QED
  BY <1>1, <1>2, <1>3, <1>4, <1>5, <1>6, <1>7, <1>8, <1>9, <1>10, <1>11, <1>12, <1>13,
     <1>14, <1>15, <1>16, <1>17, <1>18 DEF Next, Work

\* Every variable keeps its type, and a process that has left its loop works
\* on a release.
THEOREM TypeCorrect == Spec => []TypeOK
<1>1. Init => Typed
  BY InitTyped
<1>2. Typed /\ [Next]_vars => Typed'
  BY TypedStep
<1>3. Typed => TypeOK
  BY DEF Typed
<1> QED
  BY <1>1, <1>2, <1>3, PTL DEF Spec

-----------------------------------------------------------------------------
(* The claim protocol.  None of its properties is inductive alone: that    *)
(* the winner of a claim is the only one to write the row rests on the     *)
(* exclusion, the exclusion on 'a row is pending only if nobody holds it', *)
(* and both on what a process knows between two calls.                     *)

\* What a process relies on after its hand-over or its cancellation.
Justified ==
    \A p \in Procs :
        /\ at[p] = "record" => confirmed[rel[p]] = 1
        /\ at[p] = "recordCancel" => row[rel[p]] = "cancelled"

Claims == ClaimIsExclusive /\ AtMostOneConfirmed /\ NoSilentLoss /\ Justified
            /\ StatusTellsTheTruth

IInv == Typed /\ Claims

LEMMA InitIInv == Init => IInv
<1> SUFFICES ASSUME Init PROVE Claims
  BY InitTyped DEF IInv
<1> QED
  BY DEF Init, Claims, ClaimIsExclusive, Holds, Holding, AtMostOneConfirmed, NoSilentLoss,
         Justified, StatusTellsTheTruth

LEMMA IInvStep == ASSUME IInv, [Next]_vars PROVE IInv'
<1> SUFFICES Claims'
  BY TypedStep DEF IInv
<1> USE DEF IInv, Typed, TypeOK, WorksOnRelease, RowStatus, Steps, Claims, ClaimIsExclusive,
        Holds, Holding, AtMostOneConfirmed, NoSilentLoss, Justified, StatusTellsTheTruth,
        dbVars, envVars, procVars, historyVars, Procs, Goto, Return, Answer
<1>1. ASSUME NEW p \in Procs, ListDue(p) PROVE Claims'
  BY <1>1 DEF ListDue
<1>2. ASSUME NEW p \in Procs, NEW i \in Releases, StartRelease(p, i) PROVE Claims'
  BY <1>2 DEF StartRelease
<1>3. ASSUME NEW p \in Procs, EndCycle(p) PROVE Claims'
  BY <1>3 DEF EndCycle
<1>4. ASSUME NEW p \in Procs, ClaimWon(p) PROVE Claims'
  <2> USE <1>4 DEF ClaimWon
  <2> DEFINE w == rel[p]
  <2>1. /\ w \in Releases /\ row[w] = "pending" /\ confirmed[w] = 0
        /\ \A q \in Procs : ~Holds(q, w)
    <3>1. w \in Releases /\ row[w] = "pending"
      OBVIOUS
    <3>2. confirmed[w] \in Nat /\ confirmed[w] <= 1 /\ confirmed[w] # 1
      BY <3>1
    <3>3. confirmed[w] = 0
      BY ONLY <3>2, SMT
    <3>4. ASSUME NEW q \in Procs PROVE ~Holds(q, w)
      BY <3>1
    <3> QED
      BY <3>1, <3>3, <3>4
  <2>2. /\ row' = [row EXCEPT ![w] = "released"]
        /\ \A q \in Procs, i \in Releases :
              Holds(q, i)' <=> Holds(q, i) \/ (q = p /\ i = w)
    OBVIOUS
  <2>3. ClaimIsExclusive'
    <3> SUFFICES ASSUME NEW q \in Procs, NEW i \in Releases, Holds(q, i)'
                 PROVE  /\ row'[i] = "released" /\ confirmed'[i] = 0
                        /\ \A r \in Procs : Holds(r, i)' => r = q
      BY DEF ClaimIsExclusive
    <3>1. CASE i = w
      BY <2>1, <2>2, <3>1
    <3>2. CASE i # w
      BY <2>2, <3>2
    <3> QED
      BY <3>1, <3>2
  <2>4. AtMostOneConfirmed'
    OBVIOUS
  <2>5. NoSilentLoss'
    OBVIOUS
  <2>6. Justified'
    OBVIOUS
  <2>7. StatusTellsTheTruth'
    <3> SUFFICES ASSUME NEW i \in Releases
                 PROVE  /\ mail[i] = "delivered" => confirmed[i] = 1
                        /\ mail[i] = "rejected" => row'[i] = "cancelled"
                        /\ <<i, "cancelled">> \in answered => row'[i] = "cancelled"
      BY DEF StatusTellsTheTruth
    <3>1. CASE i = w
      BY <2>1, <3>1
    <3>2. CASE i # w
      BY <2>2, <3>2
    <3> QED
      BY <3>1, <3>2
  <2> QED
    BY <2>3, <2>4, <2>5, <2>6, <2>7
<1>5. ASSUME NEW p \in Procs, ClaimLost(p) PROVE Claims'
  BY <1>5 DEF ClaimLost
<1>6. ASSUME NEW p \in Procs, ClaimFails(p) PROVE Claims'
  BY <1>6 DEF ClaimFails
<1>7. ASSUME NEW p \in Procs, Load(p) PROVE Claims'
  BY <1>7 DEF Load
<1>8. ASSUME NEW p \in Procs, LoadFails(p) PROVE Claims'
  BY <1>8 DEF LoadFails
<1>9. ASSUME NEW p \in Procs, SendAccepted(p) PROVE Claims'
  BY <1>9 DEF SendAccepted, Copied
<1>10. ASSUME NEW p \in Procs, SendRefused(p) PROVE Claims'
  BY <1>10 DEF SendRefused
<1>11. ASSUME NEW p \in Procs, SendUnclear(p) PROVE Claims'
  BY <1>11 DEF SendUnclear, Copied
<1>12. ASSUME NEW p \in Procs, Record(p) PROVE Claims'
  BY <1>12 DEF Record
<1>13. ASSUME NEW p \in Procs, Rollback(p) PROVE Claims'
  BY <1>13 DEF Rollback
<1>14. ASSUME NEW p \in Procs, RollbackFails(p) PROVE Claims'
  BY <1>14 DEF RollbackFails
<1>15. ASSUME NEW p \in Procs, CancelWon(p) PROVE Claims'
  BY <1>15 DEF CancelWon
<1>16. ASSUME NEW p \in Procs, CancelLost(p) PROVE Claims'
  BY <1>16 DEF CancelLost
<1>17. ASSUME NEW p \in Procs, CancelFails(p) PROVE Claims'
  BY <1>17 DEF CancelFails
<1>18. ASSUME NEW p \in Procs, RecordCancel(p) PROVE Claims'
  BY <1>18 DEF RecordCancel
<1>19. ASSUME NEW p \in Procs, Crash(p) PROVE Claims'
  BY <1>19 DEF Crash
<1>20. ASSUME NEW u \in Users, NEW i \in Releases, SendNow(u, i) PROVE Claims'
  BY <1>20 DEF SendNow, OpenRequest
<1>21. ASSUME NEW u \in Users, NEW i \in Releases, RequestCancel(u, i) PROVE Claims'
  BY <1>21 DEF RequestCancel, OpenRequest
<1>22. ASSUME NEW i \in Releases, Archive(i) PROVE Claims'
  BY <1>22 DEF Archive
<1>23. ASSUME NEW i \in Releases, BecomeDue(i) PROVE Claims'
  BY <1>23 DEF BecomeDue
<1>24. CASE UNCHANGED vars
  BY <1>24 DEF vars
<1> QED
  BY <1>1, <1>2, <1>3, <1>4, <1>5, <1>6, <1>7, <1>8, <1>9, <1>10, <1>11, <1>12, <1>13, <1>14, <1>15, <1>16, <1>17, <1>18, <1>19, <1>20, <1>21, <1>22, <1>23, <1>24
     DEF Next, Work

LEMMA Invariant == Spec => []IInv
<1>1. IInv /\ [Next]_vars => IInv'
  BY IInvStep
<1> QED
  BY InitIInv, <1>1, PTL DEF Spec

\* At most one hand-over of a release is seen to succeed, and its row is then
\* 'released': no claim, rollback or cancellation reopens it.
THEOREM OneConfirmation == Spec => []AtMostOneConfirmed
<1>1. IInv => AtMostOneConfirmed
  BY DEF IInv, Claims
<1> QED
  BY Invariant, <1>1, PTL

\* The conditional UPDATE gives a row to one process at a time, among workers
\* of all replicas and requests, whatever fails or crashes.
THEOREM ExclusiveClaims == Spec => []ClaimIsExclusive
<1>1. IInv => ClaimIsExclusive
  BY DEF IInv, Claims
<1> QED
  BY Invariant, <1>1, PTL

\* Only a crash, a failed rollback or a claim without an answer strands a mail,
\* no interleaving does.
THEOREM NothingLostSilently == Spec => []NoSilentLoss
<1>1. IInv => NoSilentLoss
  BY DEF IInv, Claims
<1> QED
  BY Invariant, <1>1, PTL

\* The status of the mail and the answers agree with the row and the hand-over.
THEOREM TruthfulStatus == Spec => []StatusTellsTheTruth
<1>1. IInv => StatusTellsTheTruth
  BY DEF IInv, Claims
<1> QED
  BY Invariant, <1>1, PTL

-----------------------------------------------------------------------------
(* The original never follows the processed EML: a process loads the EML   *)
(* after its claim, and while it holds the row nobody else sends.          *)

\* What a process has loaded, and what has been sent, was there to be loaded.
Loaded ==
    /\ \A i \in Releases : "processed" \in bodies[i] => archived[i]
    /\ \A p \in Procs : at[p] = "send" /\ body[p] = "processed" => archived[rel[p]]

OriginalsInv == Loaded /\ OriginalComesFirst

LEMMA OriginalsStep ==
  ASSUME IInv, OriginalsInv, [Next]_vars
  PROVE  OriginalsInv'
<1> USE DEF IInv, Typed, TypeOK, WorksOnRelease, Eml, Steps, OriginalsInv, Loaded,
        OriginalComesFirst, Holds, Holding, dbVars, envVars, procVars, historyVars, Procs,
        Goto, Return, Answer
<1>1. ASSUME NEW p \in Procs, SendAccepted(p) \/ SendUnclear(p) PROVE OriginalsInv'
  <2> DEFINE w == rel[p]
  <2>1. /\ w \in Releases /\ at[p] = "send" /\ at'[p] # "send"
        /\ bodies' = [bodies EXCEPT ![w] = @ \cup {body[p]}]
        /\ \A q \in Procs : q # p => at'[q] = at[q]
        /\ UNCHANGED <<rel, body, archived>>
    BY <1>1 DEF SendAccepted, SendUnclear, Copied
  <2>2. \A q \in Procs : Holds(q, w) => q = p
    BY <2>1 DEF Claims, ClaimIsExclusive
  <2>3. Loaded'
    BY <2>1
  <2>4. OriginalComesFirst'
    BY <2>1, <2>2
  <2> QED
    BY <2>3, <2>4
<1>2. ASSUME NEW p \in Procs, Load(p) PROVE OriginalsInv'
  BY <1>2 DEF Load
<1>3. ASSUME NEW i \in Releases, Archive(i) PROVE OriginalsInv'
  BY <1>3 DEF Archive
<1>4. ASSUME UNCHANGED <<bodies, body, archived>>,
             \A q \in Procs : at'[q] = "send" => at[q] = "send" /\ rel'[q] = rel[q]
      PROVE  OriginalsInv'
  BY <1>4
<1>5. ASSUME NEW p \in Procs,
             ClaimWon(p) \/ ClaimLost(p) \/ ClaimFails(p) \/ LoadFails(p) \/ SendRefused(p)
               \/ Record(p) \/ Rollback(p) \/ RollbackFails(p)
      PROVE  OriginalsInv'
  BY <1>4, <1>5 DEF ClaimWon, ClaimLost, ClaimFails, LoadFails, SendRefused, Record,
                    Rollback, RollbackFails
<1>6. ASSUME NEW p \in Procs,
             CancelWon(p) \/ CancelLost(p) \/ CancelFails(p) \/ RecordCancel(p) \/ Crash(p)
      PROVE  OriginalsInv'
  BY <1>4, <1>6 DEF CancelWon, CancelLost, CancelFails, RecordCancel, Crash
<1>7. ASSUME NEW p \in Procs,
             ListDue(p) \/ EndCycle(p) \/ \E i \in Releases : StartRelease(p, i)
      PROVE  OriginalsInv'
  BY <1>4, <1>7 DEF ListDue, EndCycle, StartRelease
<1>8. ASSUME NEW u \in Users, NEW i \in Releases, SendNow(u, i) \/ RequestCancel(u, i)
      PROVE  OriginalsInv'
  BY <1>4, <1>8 DEF SendNow, RequestCancel, OpenRequest
<1>9. ASSUME NEW i \in Releases, BecomeDue(i) PROVE OriginalsInv'
  BY <1>4, <1>9 DEF BecomeDue
<1>10. CASE UNCHANGED vars
  BY <1>4, <1>10 DEF vars
<1> QED
  BY <1>1, <1>2, <1>3, <1>5, <1>6, <1>7, <1>8, <1>9, <1>10 DEF Next, Work

\* Once a processed copy has gone out, nobody sends the original again, for any
\* number of processes and however often the hand-over is repeated.
THEOREM OriginalNeverFollows == Spec => []OriginalComesFirst
<1>1. Init => OriginalsInv
  BY DEF Init, OriginalsInv, Loaded, OriginalComesFirst, Holds, Holding
<1>2. IInv /\ OriginalsInv /\ [Next]_vars => OriginalsInv'
  BY OriginalsStep
<1>3. OriginalsInv => OriginalComesFirst
  BY DEF OriginalsInv
<1> QED
  BY Invariant, <1>1, <1>2, <1>3, PTL DEF Spec

-----------------------------------------------------------------------------
(* What is cancelled or delivered stays so: a step that writes the row or  *)
(* sends a copy belongs to a process that holds the row or finds it        *)
(* pending.                                                                *)

LEMMA SettledStep ==
  ASSUME IInv, [Next]_vars, NEW i \in Releases, row[i] = "cancelled" \/ confirmed[i] = 1
  PROVE  copies'[i] = copies[i] /\ row'[i] = row[i]
<1> USE DEF dbVars, envVars, procVars, historyVars
<1>1. row[i] # "pending" /\ \A p \in Procs : ~Holds(p, i)
  BY DEF IInv, Claims, ClaimIsExclusive, AtMostOneConfirmed
<1>2. row \in [Releases -> RowStatus] /\ copies \in [Releases -> Nat]
  BY DEF IInv, Typed, TypeOK
<1>3. ASSUME NEW p \in Procs, Work(p) PROVE copies'[i] = copies[i] /\ row'[i] = row[i]
  <2>1. CASE ClaimWon(p) \/ ClaimFails(p) \/ CancelWon(p) \/ CancelFails(p)
    BY <1>1, <1>2, <2>1 DEF ClaimWon, ClaimFails, CancelWon, CancelFails
  <2>2. CASE SendAccepted(p) \/ SendUnclear(p) \/ Rollback(p)
    BY <1>1, <1>2, <2>2 DEF SendAccepted, SendUnclear, Rollback, Copied, Holds, Holding
  <2>3. CASE ListDue(p) \/ EndCycle(p) \/ \E j \in Releases : StartRelease(p, j)
    BY <2>3 DEF ListDue, EndCycle, StartRelease
  <2>4. CASE ClaimLost(p) \/ Load(p) \/ LoadFails(p) \/ SendRefused(p) \/ Record(p)
    BY <2>4 DEF ClaimLost, Load, LoadFails, SendRefused, Record
  <2>5. CASE RollbackFails(p) \/ CancelLost(p) \/ RecordCancel(p)
    BY <2>5 DEF RollbackFails, CancelLost, RecordCancel
  <2> QED
    BY <1>3, <2>1, <2>2, <2>3, <2>4, <2>5 DEF Work
<1>4. ASSUME NEW p \in Procs, Crash(p) PROVE copies'[i] = copies[i] /\ row'[i] = row[i]
  BY <1>4 DEF Crash
<1>5. ASSUME NEW u \in Users, NEW j \in Releases, SendNow(u, j) \/ RequestCancel(u, j)
      PROVE  copies'[i] = copies[i] /\ row'[i] = row[i]
  BY <1>5 DEF SendNow, RequestCancel, OpenRequest
<1>6. ASSUME NEW j \in Releases, Archive(j) \/ BecomeDue(j)
      PROVE  copies'[i] = copies[i] /\ row'[i] = row[i]
  BY <1>6 DEF Archive, BecomeDue
<1>7. CASE UNCHANGED vars
  BY <1>7 DEF vars
<1> QED
  BY <1>3, <1>4, <1>5, <1>6, <1>7 DEF Next

\* Once a row is cancelled or a hand-over confirmed, no step sends a copy or
\* changes the row, for any number of replicas and requests.
THEOREM SettledForGood == Spec => SettledIsFinal
<1>1. IInv /\ [Next]_vars
        => [\A i \in Releases :
              row[i] = "cancelled" \/ confirmed[i] = 1
                 => copies'[i] = copies[i] /\ row'[i] = row[i]]_vars
  BY SettledStep
<1> QED
  BY Invariant, <1>1, PTL DEF Spec, SettledIsFinal

-----------------------------------------------------------------------------
(* Every step of the code is a step of HeldMail, or changes none of what   *)
(* HeldMail sees.                                                          *)

\* What heldState says of a release, given the invariant.
StateFacts ==
    \A i \in Releases :
        /\ row[i] = "pending" => heldState[i] = "held"
        /\ row[i] = "cancelled" => heldState[i] = "dropped"
        /\ confirmed[i] = 1 => heldState[i] = "delivered"
        /\ \A p \in Procs : Holds(p, i) =>
              heldState[i] = IF at[p] = "rollback" THEN "failing" ELSE "taken"
        /\ row[i] = "released" /\ confirmed[i] = 0 /\ (\A p \in Procs : ~Holds(p, i))
              => heldState[i] = "stranded"

LEMMA StateOf == IInv => StateFacts
<1> SUFFICES ASSUME IInv, NEW i \in Releases
             PROVE  /\ row[i] = "pending" => heldState[i] = "held"
                    /\ row[i] = "cancelled" => heldState[i] = "dropped"
                    /\ confirmed[i] = 1 => heldState[i] = "delivered"
                    /\ \A p \in Procs : Holds(p, i) =>
                          heldState[i] = IF at[p] = "rollback" THEN "failing" ELSE "taken"
                    /\ row[i] = "released" /\ confirmed[i] = 0
                          /\ (\A p \in Procs : ~Holds(p, i))
                             => heldState[i] = "stranded"
  BY DEF StateFacts
<1>1. confirmed[i] = 1 => row[i] = "released"
  BY DEF IInv, Claims, AtMostOneConfirmed
<1>2. ASSUME NEW p \in Procs, Holds(p, i)
      PROVE  /\ row[i] = "released" /\ confirmed[i] = 0
             /\ \A q \in Procs : Holds(q, i) => q = p
  BY <1>2 DEF IInv, Claims, ClaimIsExclusive
<1>3. ASSUME NEW p \in Procs, Holds(p, i)
      PROVE  heldState[i] = IF at[p] = "rollback" THEN "failing" ELSE "taken"
  BY <1>2, <1>3 DEF heldState
<1>4. confirmed[i] = 1 => heldState[i] = "delivered"
  BY <1>1 DEF heldState
<1>5. row[i] = "released" /\ confirmed[i] = 0 /\ (\A p \in Procs : ~Holds(p, i))
         => heldState[i] = "stranded"
  BY DEF heldState
<1> QED
  BY <1>3, <1>4, <1>5 DEF heldState

\* A release whose row, hand-over and holders do not change keeps its state.
LEMMA SameState ==
  ASSUME NEW j \in Releases, row'[j] = row[j], confirmed'[j] = confirmed[j],
         \A q \in Procs : Holds(q, j)' <=> Holds(q, j),
         \A q \in Procs : Holds(q, j) => (at'[q] = "rollback" <=> at[q] = "rollback")
  PROVE  heldState'[j] = heldState[j]
<1>1. (\E q \in Procs : Holds(q, j) /\ at[q] = "rollback")'
         <=> \E q \in Procs : Holds(q, j) /\ at[q] = "rollback"
  OBVIOUS
<1>2. (\E q \in Procs : Holds(q, j))' <=> \E q \in Procs : Holds(q, j)
  OBVIOUS
<1> QED
  BY <1>1, <1>2 DEF heldState

LEMMA OneChange ==
  ASSUME NEW i \in Releases, NEW s, heldState'[i] = s,
         \A j \in Releases \ {i} : heldState'[j] = heldState[j]
  PROVE  heldState' = [heldState EXCEPT ![i] = s]
<1>1. heldState = [j \in Releases |-> heldState[j]]
  BY DEF heldState
<1>2. heldState' = [j \in Releases |-> heldState'[j]]
  BY DEF heldState
<1> QED
  BY <1>1, <1>2

LEMMA NoChange ==
  ASSUME \A j \in Releases : heldState'[j] = heldState[j]
  PROVE  heldState' = heldState
  BY DEF heldState

LEMMA InitMaps == Init => Held!Init
  BY DEF Init, heldState, Held!Init

LEMMA StepMaps == ASSUME IInv, IInv', [Next]_vars PROVE [Held!Next]_(Held!vars)
<1> USE DEF dbVars, envVars, procVars, historyVars
<1>1. /\ row \in [Releases -> RowStatus] /\ at \in [Procs -> Steps]
      /\ rel \in [Procs -> Releases \cup {NoRelease}]
      /\ confirmed \in [Releases -> Nat] /\ copies \in [Releases -> Nat]
      /\ WorksOnRelease
  BY DEF IInv, Typed, TypeOK
<1>2. StateFacts /\ StateFacts'
  <2>1. IInv' => StateFacts'
    BY StateOf, PTL
  <2> QED
    BY StateOf, <2>1
<1>3. ASSUME UNCHANGED <<row, confirmed, copies>>,
             \A q \in Procs, j \in Releases : Holds(q, j)' <=> Holds(q, j),
             \A q \in Procs, j \in Releases :
                 Holds(q, j) => (at'[q] = "rollback" <=> at[q] = "rollback")
      PROVE  UNCHANGED Held!vars
  BY <1>3, SameState, NoChange DEF Held!vars
<1>4. ASSUME NEW p \in Procs, rel[p] \in Releases, rel'[p] \in {rel[p], NoRelease},
             \A q \in Procs \ {p} : at'[q] = at[q] /\ rel'[q] = rel[q],
             \A j \in Releases \ {rel[p]} : row'[j] = row[j] /\ confirmed'[j] = confirmed[j]
      PROVE  \A j \in Releases \ {rel[p]} : heldState'[j] = heldState[j]
  <2> SUFFICES ASSUME NEW j \in Releases \ {rel[p]} PROVE heldState'[j] = heldState[j]
    OBVIOUS
  <2>1. \A q \in Procs : Holds(q, j)' <=> Holds(q, j)
    BY <1>4, DelayAssumption DEF Holds
  <2>2. \A q \in Procs : Holds(q, j) => (at'[q] = "rollback" <=> at[q] = "rollback")
    BY <1>4 DEF Holds
  <2> QED
    BY <1>4, <2>1, <2>2, SameState
\* The steps that touch no row, no hand-over and no holder.
<1>5. ASSUME NEW p \in Procs,
             \/ ListDue(p) \/ EndCycle(p) \/ \E i \in Releases : StartRelease(p, i)
             \/ ClaimLost(p) \/ CancelLost(p) \/ Load(p) \/ Record(p) \/ RecordCancel(p)
      PROVE  UNCHANGED Held!vars
  <2>1. UNCHANGED <<row, confirmed, copies>>
    BY <1>5 DEF ListDue, EndCycle, StartRelease, ClaimLost, CancelLost, Load, Record, RecordCancel
  <2>2. \A q \in Procs, j \in Releases :
           /\ Holds(q, j)' <=> Holds(q, j)
           /\ Holds(q, j) => (at'[q] = "rollback" <=> at[q] = "rollback")
    BY <1>1, <1>5 DEF ListDue, EndCycle, StartRelease, ClaimLost, CancelLost, Load, Record,
                      RecordCancel, Goto, Return, Holds, Holding
  <2> QED
    BY <1>3, <2>1, <2>2
<1>6. ASSUME NEW u \in Users, NEW i \in Releases, SendNow(u, i) \/ RequestCancel(u, i)
      PROVE  UNCHANGED Held!vars
  BY <1>1, <1>3, <1>6 DEF SendNow, RequestCancel, OpenRequest, Holds, Holding
<1>7. ASSUME NEW i \in Releases, Archive(i) \/ BecomeDue(i) PROVE UNCHANGED Held!vars
  BY <1>3, <1>7 DEF Archive, BecomeDue, Holds
<1>8. CASE UNCHANGED vars
  BY <1>3, <1>8 DEF vars, Holds
<1>9. ASSUME NEW p \in Procs, ClaimWon(p) PROVE Held!Next
  <2>1. rel[p] \in Releases /\ row[rel[p]] = "pending"
    BY <1>1, <1>9 DEF ClaimWon, WorksOnRelease
  <2>2. heldState[rel[p]] = "held" /\ heldState'[rel[p]] = "taken"
    BY <1>1, <1>2, <1>9, <2>1 DEF ClaimWon, Goto, Holds, Holding, StateFacts
  <2>3. \A j \in Releases \ {rel[p]} : heldState'[j] = heldState[j]
    BY <1>1, <1>4, <1>9, <2>1 DEF ClaimWon, Goto
  <2>4. Held!Take(rel[p])
    BY <1>9, <2>1, <2>2, <2>3, OneChange DEF ClaimWon, Held!Take, Held!Move
  <2> QED
    BY <2>1, <2>4 DEF Held!Next
\* A release is stranded by an event that leaves its row 'released' with no
\* holder and no hand-over.
<1>10. ASSUME NEW i \in Releases, row'[i] = "released", confirmed'[i] = 0,
              \A q \in Procs : ~Holds(q, i)',
              heldState[i] \in {"held", "taken", "failing"}, UNCHANGED copies,
              \A j \in Releases \ {i} : heldState'[j] = heldState[j]
       PROVE  Held!Next
  <2>1. heldState'[i] = "stranded"
    BY <1>2, <1>10 DEF StateFacts
  <2>2. Held!Strand(i)
    BY <1>10, <2>1, OneChange DEF Held!Strand, Held!Move
  <2> QED
    BY <2>2 DEF Held!Next
<1>11. ASSUME NEW p \in Procs, ClaimFails(p) PROVE Held!Next \/ UNCHANGED Held!vars
  <2>1. PICK i \in Releases : i = rel[p]
    BY <1>1, <1>11 DEF ClaimFails, WorksOnRelease
  <2>2. /\ at'[p] \in {"cycle", "idle"} /\ rel'[p] = NoRelease
        /\ \A q \in Procs \ {p} : at'[q] = at[q] /\ rel'[q] = rel[q]
        /\ UNCHANGED <<confirmed, copies>>
    BY <1>1, <1>11 DEF ClaimFails, Return
  <2>3. CASE row' = row
    <3>1. \A q \in Procs, j \in Releases :
             /\ Holds(q, j)' <=> Holds(q, j)
             /\ Holds(q, j) => (at'[q] = "rollback" <=> at[q] = "rollback")
      BY <1>11, <2>2, DelayAssumption DEF ClaimFails, Holds, Holding
    <3> QED
      BY <1>3, <2>2, <2>3, <3>1
  <2>4. CASE row[i] = "pending" /\ row' = [row EXCEPT ![i] = "released"]
    <3>1. heldState[i] = "held" /\ confirmed[i] \in Nat /\ confirmed[i] <= 1 /\ confirmed[i] # 1
      BY <1>1, <1>2, <2>4 DEF StateFacts, IInv, Claims, AtMostOneConfirmed
    <3>2. row'[i] = "released" /\ confirmed'[i] = 0
      BY <1>1, <2>2, <2>4, <3>1
    <3>3. \A q \in Procs : ~Holds(q, i)
      BY <2>4 DEF IInv, Claims, ClaimIsExclusive
    <3>4. \A q \in Procs : ~Holds(q, i)'
      BY <2>2, <3>3, DelayAssumption DEF Holds, Holding
    <3>5. \A j \in Releases \ {i} : heldState'[j] = heldState[j]
      BY <1>1, <1>4, <2>1, <2>2, <2>4
    <3> QED
      BY <1>10, <2>2, <3>1, <3>2, <3>4, <3>5
  <2> QED
    BY <1>11, <2>1, <2>3, <2>4 DEF ClaimFails
\* A holder whose hand-over failed.
<1>12. ASSUME NEW p \in Procs, LoadFails(p) \/ SendRefused(p) \/ SendUnclear(p)
       PROVE  Held!Next
  <2>1. rel[p] \in Releases /\ Holds(p, rel[p]) /\ at[p] # "rollback"
    BY <1>1, <1>12 DEF LoadFails, SendRefused, SendUnclear, WorksOnRelease, Holds, Holding
  <2>2. Holds(p, rel[p])' /\ at'[p] = "rollback" /\ rel' = rel
        /\ UNCHANGED <<row, confirmed>>
    BY <1>1, <1>12 DEF LoadFails, SendRefused, SendUnclear, Goto, Holds, Holding
  <2>3. heldState[rel[p]] = "taken" /\ heldState'[rel[p]] = "failing"
    BY <1>2, <2>1, <2>2 DEF StateFacts
  <2>4. \A j \in Releases \ {rel[p]} : heldState'[j] = heldState[j]
    BY <1>1, <1>4, <1>12, <2>1, <2>2 DEF LoadFails, SendRefused, SendUnclear, Goto
  <2>5. copies' = copies \/ copies' = [copies EXCEPT ![rel[p]] = @ + 1]
    BY <1>12 DEF LoadFails, SendRefused, SendUnclear, Copied
  <2>6. Held!Fail(rel[p])
    BY <2>1, <2>3, <2>4, <2>5, OneChange DEF Held!Fail, Held!Move, Held!OneMore
  <2> QED
    BY <2>1, <2>6 DEF Held!Next
<1>13. ASSUME NEW p \in Procs, SendAccepted(p) PROVE Held!Next
  <2>1. rel[p] \in Releases /\ Holds(p, rel[p]) /\ at[p] # "rollback"
    BY <1>1, <1>13 DEF SendAccepted, WorksOnRelease, Holds, Holding
  <2>2. confirmed[rel[p]] = 0 /\ confirmed' = [confirmed EXCEPT ![rel[p]] = @ + 1]
    BY <1>13, <2>1 DEF SendAccepted, IInv, Claims, ClaimIsExclusive
  <2>3. heldState[rel[p]] = "taken" /\ heldState'[rel[p]] = "delivered"
    BY <1>1, <1>2, <2>1, <2>2 DEF StateFacts
  <2>4. \A j \in Releases \ {rel[p]} : heldState'[j] = heldState[j]
    BY <1>1, <1>4, <1>13, <2>1, <2>2 DEF SendAccepted, Goto
  <2>5. Held!Deliver(rel[p])
    BY <1>13, <2>1, <2>3, <2>4, OneChange
       DEF SendAccepted, Copied, Held!Deliver, Held!Move, Held!OneMore
  <2> QED
    BY <2>1, <2>5 DEF Held!Next
<1>14. ASSUME NEW p \in Procs, Rollback(p) PROVE Held!Next
  <2>1. rel[p] \in Releases /\ Holds(p, rel[p]) /\ at[p] = "rollback"
    BY <1>1, <1>14 DEF Rollback, WorksOnRelease, Holds, Holding
  <2>2. row'[rel[p]] = "pending"
    BY <1>1, <1>14, <2>1 DEF Rollback
  <2>3. heldState[rel[p]] = "failing" /\ heldState'[rel[p]] = "held"
    BY <1>2, <2>1, <2>2 DEF StateFacts
  <2>4. \A j \in Releases \ {rel[p]} : heldState'[j] = heldState[j]
    BY <1>1, <1>4, <1>14, <2>1 DEF Rollback, Return
  <2>5. Held!GiveBack(rel[p])
    BY <1>14, <2>1, <2>3, <2>4, OneChange DEF Rollback, Held!GiveBack, Held!Move
  <2> QED
    BY <2>1, <2>5 DEF Held!Next
\* A holder that ends without giving the row back.
<1>15. ASSUME NEW p \in Procs, NEW i \in Releases, Holds(p, i),
              UNCHANGED <<row, confirmed, copies>>,
              at'[p] \in {"cycle", "idle"}, rel'[p] = NoRelease,
              \A q \in Procs \ {p} : at'[q] = at[q] /\ rel'[q] = rel[q]
       PROVE  Held!Next
  <2>1. row[i] = "released" /\ confirmed[i] = 0 /\ \A q \in Procs : Holds(q, i) => q = p
    BY <1>15 DEF IInv, Claims, ClaimIsExclusive
  <2>2. \A q \in Procs : ~Holds(q, i)'
    BY <1>15, <2>1, DelayAssumption DEF Holds, Holding
  <2>3. heldState[i] \in {"taken", "failing"}
    BY <1>2, <1>15 DEF StateFacts
  <2>4. \A j \in Releases \ {i} : heldState'[j] = heldState[j]
    BY <1>4, <1>15 DEF Holds
  <2> QED
    BY <1>10, <1>15, <2>1, <2>2, <2>3, <2>4
<1>16. ASSUME NEW p \in Procs, RollbackFails(p) PROVE Held!Next
  <2>1. rel[p] \in Releases /\ Holds(p, rel[p])
    BY <1>1, <1>16 DEF RollbackFails, WorksOnRelease, Holds, Holding
  <2> QED
    BY <1>1, <1>15, <1>16, <2>1 DEF RollbackFails, Return
<1>17. ASSUME NEW p \in Procs, Crash(p) PROVE Held!Next \/ UNCHANGED Held!vars
  <2>1. /\ at'[p] = "idle" /\ rel'[p] = NoRelease
        /\ \A q \in Procs \ {p} : at'[q] = at[q] /\ rel'[q] = rel[q]
        /\ UNCHANGED <<row, confirmed, copies>>
    BY <1>1, <1>17 DEF Crash
  <2>2. CASE at[p] \in Holding
    <3>1. rel[p] \in Releases /\ Holds(p, rel[p])
      BY <1>1, <2>2 DEF WorksOnRelease, Holds, Holding
    <3> QED
      BY <1>15, <2>1, <3>1
  <2>3. CASE at[p] \notin Holding
    <3>1. \A q \in Procs, j \in Releases :
             /\ Holds(q, j)' <=> Holds(q, j)
             /\ Holds(q, j) => (at'[q] = "rollback" <=> at[q] = "rollback")
      BY <2>1, <2>3 DEF Holds, Holding
    <3> QED
      BY <1>3, <2>1, <3>1
  <2> QED
    BY <2>2, <2>3
<1>18. ASSUME NEW p \in Procs, NEW i \in Releases, rel[p] = i, at[p] = "cancel",
              row[i] = "pending", row' = [row EXCEPT ![i] = "cancelled"],
              UNCHANGED <<confirmed, copies>>,
              at'[p] \in {"recordCancel", "idle", "cycle"}, rel'[p] \in {i, NoRelease},
              \A q \in Procs \ {p} : at'[q] = at[q] /\ rel'[q] = rel[q]
       PROVE  Held!Next
  <2>1. heldState[i] = "held" /\ heldState'[i] = "dropped"
    BY <1>1, <1>2, <1>18 DEF StateFacts
  <2>2. \A j \in Releases \ {i} : heldState'[j] = heldState[j]
    BY <1>1, <1>4, <1>18
  <2>3. heldState' = [j \in Releases |-> IF j \in {i} THEN "dropped" ELSE heldState[j]]
    <3>1. heldState' = [j \in Releases |-> heldState'[j]]
      BY DEF heldState
    <3> QED
      BY <2>1, <2>2, <3>1
  <2>4. Held!Drop({i})
    BY <1>18, <2>1, <2>3 DEF Held!Drop
  <2> QED
    BY <2>4 DEF Held!Next
<1>19. ASSUME NEW p \in Procs, CancelWon(p) PROVE Held!Next
  <2>1. PICK i \in Releases : i = rel[p]
    BY <1>1, <1>19 DEF CancelWon, WorksOnRelease
  <2> QED
    BY <1>1, <1>18, <1>19, <2>1 DEF CancelWon, Goto
<1>20. ASSUME NEW p \in Procs, CancelFails(p) PROVE Held!Next \/ UNCHANGED Held!vars
  <2>1. PICK i \in Releases : i = rel[p]
    BY <1>1, <1>20 DEF CancelFails, WorksOnRelease
  <2>2. /\ at[p] = "cancel" /\ at'[p] \in {"cycle", "idle"} /\ rel'[p] = NoRelease
        /\ \A q \in Procs \ {p} : at'[q] = at[q] /\ rel'[q] = rel[q]
        /\ UNCHANGED <<confirmed, copies>>
    BY <1>1, <1>20 DEF CancelFails, Return
  <2>3. CASE row' = row
    <3>1. \A q \in Procs, j \in Releases :
             /\ Holds(q, j)' <=> Holds(q, j)
             /\ Holds(q, j) => (at'[q] = "rollback" <=> at[q] = "rollback")
      BY <2>2 DEF Holds, Holding
    <3> QED
      BY <1>3, <2>2, <2>3, <3>1
  <2>4. CASE row[i] = "pending" /\ row' = [row EXCEPT ![i] = "cancelled"]
    BY <1>18, <2>1, <2>2, <2>4
  <2> QED
    BY <1>20, <2>1, <2>3, <2>4 DEF CancelFails
<1> QED
  BY <1>5, <1>6, <1>7, <1>8, <1>9, <1>11, <1>12, <1>13, <1>14, <1>16, <1>17, <1>19, <1>20
     DEF Next, Work

\* The release of delayed mail keeps the promise of held mail: from every
\* state of the database and the processes, each step is a step of HeldMail on
\* the row it touches, or changes nothing there.
THEOREM ImplementsHeldMail == Spec => Promise
<1>1. Init => Held!Init
  BY InitMaps
<1>2. IInv /\ IInv' /\ [Next]_vars => [Held!Next]_(Held!vars)
  BY StepMaps
<1> QED
  BY <1>1, <1>2, Invariant, PTL DEF Spec, Promise, Held!Spec

-----------------------------------------------------------------------------
(* Module DelayedReleaseLive.                                             *)

\* Peers that fall silent add nothing but waiting: what is proved above holds
\* of every behaviour that the promises in the long run are checked on.
THEOREM LiveIsDelayedRelease == LiveSpec => Spec
<1>1. LiveInit => Init
  BY DEF LiveInit
<1>2. ASSUME [LiveNext]_liveVars PROVE [Next]_vars
  <2>1. CASE LiveNext
    BY <2>1 DEF LiveNext, Proceed, GoSilent, Restart, Ask, TimePasses, Next
  <2>2. CASE UNCHANGED liveVars
    BY <2>2 DEF liveVars
  <2> QED
    BY <1>2, <2>1, <2>2
<1> QED
  BY <1>1, <1>2, PTL DEF LiveSpec, Spec

=============================================================================
