--------------------------- MODULE ApprovalProofs ---------------------------
(***************************************************************************)
(* Proofs about Approval, for any number of requests, approvers and expiry *)
(* workers and any bounds: the type invariant, then the protocol of claim, *)
(* hand-over, restoration and expiry, and that it implements HeldMail.     *)
(***************************************************************************)
EXTENDS Approval, TLAPS

\* A process works on a request exactly while it is past its list; an expiry
\* worker never is; who is idle has nothing left to do.
Control ==
    \A p \in Procs :
        /\ cur[p] = NoRequest <=> at[p] \in {"idle", "next"}
        /\ p \in Workers => at[p] \in {"idle", "next"}
        /\ at[p] = "idle" => todo[p] = {}

Typed == TypeOK /\ Control

LEMMA InitTyped == Init => Typed
  BY ApprovalAssumption
     DEF Init, Typed, TypeOK, Control, Procs, RequestStatus, Decisions, Steps

LEMMA TypedStep == ASSUME Typed, [Next]_vars PROVE Typed'
<1> USE ApprovalAssumption
    DEF Typed, TypeOK, Control, RequestStatus, Decisions, Steps, Procs, procVars, historyVars,
        Goto, Return, Mislead
<1>1. ASSUME NEW p \in Procs, NEW i \in Requests, Check(p, i) PROVE Typed'
  BY <1>1 DEF Check
<1>2. ASSUME NEW p \in Procs, NEW i \in Requests, RecordExpired(p, i) PROVE Typed'
  BY <1>2 DEF RecordExpired
<1>3. ASSUME NEW p \in Procs, Finish(p) \/ ClaimLost(p) \/ Load(p) \/ LoadFails(p) PROVE Typed'
  BY <1>3 DEF Finish, ClaimLost, Load, LoadFails
<1>4. ASSUME NEW p \in Procs, ClaimWon(p) PROVE Typed'
  BY <1>4 DEF ClaimWon, Report
<1>5. ASSUME NEW p \in Procs, ClaimFails(p) PROVE Typed'
  <2>1. cur[p] \in Requests
    BY <1>5 DEF ClaimFails
  <2>2. req' \in [Requests -> RequestStatus]
    BY <1>5, <2>1 DEF ClaimFails
  <2>3. lost' \in [Requests -> BOOLEAN]
    <3>1. lost' = lost \/ lost' = [lost EXCEPT ![cur[p]] = TRUE]
      BY <1>5 DEF ClaimFails
    <3> QED
      BY <3>1
  <2>4. /\ at' \in [Procs -> Steps] /\ cur' \in [Procs -> Requests \cup {NoRequest}]
        /\ Control'
    BY <1>5 DEF ClaimFails
  <2> QED
    BY <1>5, <2>2, <2>3, <2>4 DEF ClaimFails
<1>6. ASSUME NEW p \in Procs, MarkDelivered(p) PROVE Typed'
  BY <1>6 DEF MarkDelivered
<1>7. ASSUME NEW p \in Procs, MarkFails(p) PROVE Typed'
  BY <1>7 DEF MarkFails
<1>8. ASSUME NEW p \in Procs, SendAccepted(p) PROVE Typed'
  BY <1>8 DEF SendAccepted, Report
<1>9. ASSUME NEW p \in Procs, SendFails(p) PROVE Typed'
  BY <1>9 DEF SendFails
<1>10. ASSUME NEW p \in Procs, Restore(p) PROVE Typed'
  <2>1. mail' \in [Requests -> {"approval_pending", "delivered", "expired"}]
    BY <1>10 DEF Restore
  <2>2. misled' \in [Requests -> BOOLEAN]
    BY <1>10 DEF Restore
  <2>3. at' \in [Procs -> Steps] /\ Control'
    BY <1>10 DEF Restore
  <2> QED
    BY <1>10, <2>1, <2>2, <2>3 DEF Restore
<1>11. ASSUME NEW p \in Procs, Rollback(p) \/ RollbackFails(p) PROVE Typed'
  <2>1. CASE Rollback(p)
    BY <2>1 DEF Rollback
  <2>2. CASE RollbackFails(p)
    BY <2>2 DEF RollbackFails
  <2> QED
    BY <1>11, <2>1, <2>2
<1>12. ASSUME NEW p \in Procs, Expire(p) PROVE Typed'
  BY <1>12 DEF Expire
<1>13. ASSUME NEW p \in Procs, Crash(p) PROVE Typed'
  <2>1. crashes' \in 0..MaxCrashes
    BY <1>13 DEF Crash
  <2>2. lost' \in [Requests -> BOOLEAN]
    BY <1>13 DEF Crash
  <2>3. misled' \in [Requests -> BOOLEAN]
    BY <1>13 DEF Crash
  <2>4. /\ at' \in [Procs -> Steps] /\ cur' \in [Procs -> Requests \cup {NoRequest}]
        /\ todo' \in [Procs -> SUBSET Requests] /\ Control'
    BY <1>13 DEF Crash
  <2> QED
    BY <1>13, <2>1, <2>2, <2>3, <2>4 DEF Crash
<1>14. ASSUME NEW p \in Approvers, NEW ids \in SUBSET Requests, NEW d \in Decisions,
              Open(p, ids, d)
       PROVE  Typed'
  BY <1>14 DEF Open
<1>15. ASSUME NEW i \in Requests, BecomeOverdue(i) PROVE Typed'
  BY <1>15 DEF BecomeOverdue
<1>16. CASE UNCHANGED vars
  BY <1>16 DEF vars
<1> QED
  BY <1>1, <1>2, <1>3, <1>4, <1>5, <1>6, <1>7, <1>8, <1>9, <1>10, <1>11, <1>12, <1>13, <1>14,
     <1>15, <1>16 DEF Next, Work

\* Every variable keeps its type, and the expiry workers never get into the
\* steps of a delivery.
THEOREM TypeCorrect == Spec => []TypeOK
<1>1. Typed /\ [Next]_vars => Typed'
  BY TypedStep
<1>2. Typed => TypeOK
  BY DEF Typed
<1> QED
  BY InitTyped, <1>1, <1>2, PTL DEF Spec

-----------------------------------------------------------------------------
(* The claim, and what follows from it.                                    *)

\* Who delivers a mail won the claim of its request with an approval, is the
\* only one, and nobody has seen it accepted.
ClaimIsExclusive ==
    \A p \in Procs, i \in Requests :
        Holds(p, i) =>
            /\ req[i] = "approved" /\ confirmed[i] = 0 /\ decision[p] = "approved"
            /\ \A q \in Procs : Holds(q, i) => q = p

\* A confirmed mail belongs to an approved request.
ConfirmedIsApproved ==
    \A i \in Requests : confirmed[i] \in {0, 1} /\ (confirmed[i] = 1 => req[i] = "approved")

Claims == ClaimIsExclusive /\ ConfirmedIsApproved /\ OneDecision /\ NoSilentLoss

\* The worker's list holds expired requests only.
ListIsExpired == \A w \in Workers : \A i \in todo[w] : req[i] = "expired"

\* The mail is not shown as delivered before it is marked, nor after it is
\* restored, unless an update failed.
ShownWhenMarked ==
    \A p \in Procs, i \in Requests :
        Holds(p, i) /\ at[p] \in {"load", "mark", "rollback"} /\ ~misled[i] /\ ~lost[i]
            => mail[i] # "delivered"

Statuses == ListIsExpired /\ ShownWhenMarked /\ MailStatusAgrees

IInv == Typed /\ Claims /\ Statuses

LEMMA InitIInv == Init => IInv
<1> SUFFICES ASSUME Init PROVE Claims /\ Statuses
  BY InitTyped DEF IInv
<1>1. Claims
  BY DEF Init, Claims, ClaimIsExclusive, ConfirmedIsApproved, OneDecision, NoSilentLoss, Holds,
         Holding
<1>2. Statuses
  BY DEF Init, Statuses, ListIsExpired, ShownWhenMarked, MailStatusAgrees, Holds, Holding, Procs
<1> QED
  BY <1>1, <1>2

LEMMA ClaimsStep == ASSUME IInv, [Next]_vars PROVE Claims'
<1> USE ApprovalAssumption
    DEF Typed, TypeOK, Control, RequestStatus, Decisions, Steps, Procs, procVars, historyVars,
        Goto, Return, Mislead, Report, Holds, Holding,
        ClaimIsExclusive, ConfirmedIsApproved, OneDecision, NoSilentLoss, Claims
<1>0. Typed /\ Typed' /\ Claims /\ ListIsExpired
  BY TypedStep DEF IInv, Statuses
<1>1. ASSUME NEW p \in Procs, NEW i \in Requests, Check(p, i) PROVE Claims'
  BY <1>0, <1>1 DEF Check
<1>2. ASSUME NEW p \in Procs, NEW i \in Requests, RecordExpired(p, i) PROVE Claims'
  BY <1>0, <1>2 DEF RecordExpired
<1>3. ASSUME NEW p \in Procs, Finish(p) \/ ClaimLost(p) \/ Load(p) \/ LoadFails(p) PROVE Claims'
  BY <1>0, <1>3 DEF Finish, ClaimLost, Load, LoadFails
<1>4. ASSUME NEW p \in Procs, ClaimWon(p) PROVE Claims'
  BY <1>0, <1>4 DEF ClaimWon
<1>5. ASSUME NEW p \in Procs, ClaimFails(p) PROVE Claims'
  BY <1>0, <1>5 DEF ClaimFails
<1>6. ASSUME NEW p \in Procs, MarkDelivered(p) PROVE Claims'
  BY <1>0, <1>6 DEF MarkDelivered
<1>7. ASSUME NEW p \in Procs, MarkFails(p) PROVE Claims'
  BY <1>0, <1>7 DEF MarkFails
<1>8. ASSUME NEW p \in Procs, SendAccepted(p) PROVE Claims'
  BY <1>0, <1>8 DEF SendAccepted
<1>9. ASSUME NEW p \in Procs, SendFails(p) PROVE Claims'
  BY <1>0, <1>9 DEF SendFails
<1>10. ASSUME NEW p \in Procs, Restore(p) PROVE Claims'
  BY <1>0, <1>10 DEF Restore
<1>11. ASSUME NEW p \in Procs, Rollback(p) PROVE Claims'
  BY <1>0, <1>11 DEF Rollback
<1>12. ASSUME NEW p \in Procs, RollbackFails(p) PROVE Claims'
  BY <1>0, <1>12 DEF RollbackFails
<1>13. ASSUME NEW p \in Procs, Expire(p) PROVE Claims'
  BY <1>0, <1>13 DEF Expire
<1>14. ASSUME NEW p \in Procs, Crash(p) PROVE Claims'
  BY <1>0, <1>14 DEF Crash
<1>15. ASSUME NEW p \in Approvers, NEW ids \in SUBSET Requests, NEW d \in Decisions,
              Open(p, ids, d)
       PROVE  Claims'
  BY <1>0, <1>15 DEF Open
<1>16. ASSUME NEW i \in Requests, BecomeOverdue(i) PROVE Claims'
  BY <1>0, <1>16 DEF BecomeOverdue
<1>17. CASE UNCHANGED vars
  BY <1>0, <1>17 DEF vars
<1> QED
  BY <1>1, <1>2, <1>3, <1>4, <1>5, <1>6, <1>7, <1>8, <1>9, <1>10, <1>11, <1>12, <1>13, <1>14,
     <1>15, <1>16, <1>17 DEF Next, Work

LEMMA StatusesStep == ASSUME IInv, [Next]_vars PROVE Statuses'
<1> USE ApprovalAssumption
    DEF Typed, TypeOK, Control, RequestStatus, Decisions, Steps, Procs, procVars, historyVars,
        Goto, Return, Mislead, Report, Holds, Holding, ClaimIsExclusive, ConfirmedIsApproved,
        ListIsExpired, ShownWhenMarked, MailStatusAgrees, Statuses
<1>0. Typed /\ Typed' /\ ClaimIsExclusive /\ ConfirmedIsApproved /\ Statuses
  BY TypedStep DEF IInv, Claims
<1>1. ASSUME NEW p \in Procs, NEW i \in Requests, Check(p, i) PROVE Statuses'
  BY <1>0, <1>1 DEF Check
<1>2. ASSUME NEW p \in Procs, NEW i \in Requests, RecordExpired(p, i) PROVE Statuses'
  BY <1>0, <1>2 DEF RecordExpired
<1>3. ASSUME NEW p \in Procs, Finish(p) \/ ClaimLost(p) \/ Load(p) \/ LoadFails(p) PROVE Statuses'
  BY <1>0, <1>3 DEF Finish, ClaimLost, Load, LoadFails
<1>4. ASSUME NEW p \in Procs, ClaimWon(p) PROVE Statuses'
  <2>1. PICK i \in Requests : i = cur[p] /\ req[i] = "pending"
    BY <1>0, <1>4 DEF ClaimWon
  <2>2. UNCHANGED <<mail, confirmed, lost, misled, todo>>
    BY <1>4 DEF ClaimWon
  <2>3. req' = [req EXCEPT ![i] = decision[p]] /\ decision[p] # "expired"
    BY <1>0, <1>4, <2>1 DEF ClaimWon
  <2>4. \A q \in Procs, j \in Requests : Holds(q, j) => Holds(q, j)'
    BY <1>0, <1>4 DEF ClaimWon
  <2>5. ListIsExpired'
    BY <1>0, <2>1, <2>2, <2>3
  <2>6. ShownWhenMarked'
    <3>1. confirmed[i] = 0 /\ \A q \in Procs : ~Holds(q, i)
      BY <1>0, <2>1
    <3> QED
      BY <1>0, <1>4, <2>1, <2>2, <3>1 DEF ClaimWon
  <2>7. MailStatusAgrees'
    BY <1>0, <2>1, <2>2, <2>3, <2>4
  <2> QED
    BY <2>5, <2>6, <2>7
<1>5. ASSUME NEW p \in Procs, ClaimFails(p) PROVE Statuses'
  BY <1>0, <1>5 DEF ClaimFails
<1>6. ASSUME NEW p \in Procs, MarkDelivered(p) PROVE Statuses'
  BY <1>0, <1>6 DEF MarkDelivered
<1>7. ASSUME NEW p \in Procs, MarkFails(p) PROVE Statuses'
  BY <1>0, <1>7 DEF MarkFails
<1>8. ASSUME NEW p \in Procs, SendAccepted(p) PROVE Statuses'
  BY <1>0, <1>8 DEF SendAccepted
<1>9. ASSUME NEW p \in Procs, SendFails(p) PROVE Statuses'
  BY <1>0, <1>9 DEF SendFails
<1>10. ASSUME NEW p \in Procs, Restore(p) PROVE Statuses'
  BY <1>0, <1>10 DEF Restore
<1>11. ASSUME NEW p \in Procs, Rollback(p) PROVE Statuses'
  BY <1>0, <1>11 DEF Rollback
<1>12. ASSUME NEW p \in Procs, RollbackFails(p) PROVE Statuses'
  BY <1>0, <1>12 DEF RollbackFails
<1>13. ASSUME NEW p \in Procs, Expire(p) PROVE Statuses'
  BY <1>0, <1>13 DEF Expire
<1>14. ASSUME NEW p \in Procs, Crash(p) PROVE Statuses'
  <2>1. \A q \in Procs : /\ q # p => at'[q] = at[q] /\ cur'[q] = cur[q] /\ todo'[q] = todo[q]
                         /\ q = p => at'[q] = "idle" /\ todo'[q] = {}
    BY <1>0, <1>14 DEF Crash
  <2>2. UNCHANGED <<req, mail, confirmed>>
    BY <1>14 DEF Crash
  <2>3. \A i \in Requests : lost[i] \/ Holds(p, i) => lost'[i]
    BY <1>0, <1>14 DEF Crash
  <2>4. \A i \in Requests : misled'[i] = (misled[i] \/ (p \in Workers /\ i \in todo[p]))
    BY <1>14 DEF Crash
  <2>5. ListIsExpired'
    BY <1>0, <2>1, <2>2
  <2>6. ShownWhenMarked'
    BY <1>0, <2>1, <2>2, <2>3, <2>4
  <2>7. MailStatusAgrees'
    <3> SUFFICES ASSUME NEW i \in Requests
                 PROVE  /\ mail'[i] = "delivered" /\ ~misled'[i] /\ ~lost'[i]
                              => confirmed'[i] = 1 \/ \E q \in Approvers : Holds(q, i)'
                        /\ mail'[i] = "expired" => req'[i] = "expired" /\ confirmed'[i] = 0
                        /\ req'[i] = "expired" /\ ~misled'[i]
                              => mail'[i] = "expired" \/ \E w \in Workers : i \in todo'[w]
      OBVIOUS
    <3>1. ~misled'[i] => ~misled[i] /\ (p \in Workers => i \notin todo[p])
      BY <2>4
    <3>2. ~lost'[i] => ~lost[i] /\ ~Holds(p, i)
      BY <2>3
    <3>3. mail'[i] = "delivered" /\ ~misled'[i] /\ ~lost'[i]
             => confirmed'[i] = 1 \/ \E q \in Approvers : Holds(q, i)'
      BY <1>0, <2>1, <2>2, <3>1, <3>2
    <3>4. req'[i] = "expired" /\ ~misled'[i]
             => mail'[i] = "expired" \/ \E w \in Workers : i \in todo'[w]
      BY <1>0, <2>1, <2>2, <3>1
    <3> QED
      BY <1>0, <2>2, <3>3, <3>4
  <2> QED
    BY <2>5, <2>6, <2>7
<1>15. ASSUME NEW p \in Approvers, NEW ids \in SUBSET Requests, NEW d \in Decisions,
              Open(p, ids, d)
       PROVE  Statuses'
  BY <1>0, <1>15 DEF Open
<1>16. ASSUME NEW i \in Requests, BecomeOverdue(i) PROVE Statuses'
  BY <1>0, <1>16 DEF BecomeOverdue
<1>17. CASE UNCHANGED vars
  BY <1>0, <1>17 DEF vars
<1> QED
  BY <1>1, <1>2, <1>3, <1>4, <1>5, <1>6, <1>7, <1>8, <1>9, <1>10, <1>11, <1>12, <1>13, <1>14,
     <1>15, <1>16, <1>17 DEF Next, Work

LEMMA Invariant == Spec => []IInv
<1>1. IInv /\ [Next]_vars => IInv'
  BY TypedStep, ClaimsStep, StatusesStep DEF IInv
<1> QED
  BY InitIInv, <1>1, PTL DEF Spec, IInv

\* Two approvers never both succeed with different decisions, and a reported
\* approval was confirmed exactly once.
THEOREM DecisionsAgree == Spec => []OneDecision
<1>1. IInv => OneDecision
  BY DEF IInv, Claims
<1> QED
  BY Invariant, <1>1, PTL

\* An approved mail is delivered, in somebody's hands, or lost on record.
THEOREM NothingLostSilently == Spec => []NoSilentLoss
<1>1. IInv => NoSilentLoss
  BY DEF IInv, Claims
<1> QED
  BY Invariant, <1>1, PTL

\* The status of the mail agrees with the request, unless an update failed on
\* record.
THEOREM StatusesAgree == Spec => []MailStatusAgrees
<1>1. IInv => MailStatusAgrees
  BY DEF IInv, Statuses
<1> QED
  BY Invariant, <1>1, PTL

-----------------------------------------------------------------------------
(* A decision stands.                                                      *)

LEMMA StandStep ==
  ASSUME IInv, [Next]_vars, NEW i \in Requests,
         req[i] \in {"rejected", "expired"} \/ confirmed[i] > 0
  PROVE  req'[i] = req[i] /\ copies'[i] = copies[i]
<1> USE DEF procVars, historyVars
<1>0. /\ req \in [Requests -> RequestStatus] /\ copies \in [Requests -> Nat]
      /\ cur \in [Procs -> Requests \cup {NoRequest}]
  BY DEF IInv, Typed, TypeOK
<1>1. /\ req[i] # "pending"
      /\ \A p \in Procs : ~Holds(p, i)
  BY DEF IInv, Typed, TypeOK, Claims, ClaimIsExclusive, ConfirmedIsApproved
<1>2. ASSUME NEW p \in Procs, ClaimWon(p) \/ ClaimFails(p)
      PROVE  req'[i] = req[i] /\ copies'[i] = copies[i]
  BY <1>0, <1>1, <1>2 DEF ClaimWon, ClaimFails
<1>3. ASSUME NEW p \in Procs, SendAccepted(p) \/ SendFails(p) \/ Rollback(p)
      PROVE  req'[i] = req[i] /\ copies'[i] = copies[i]
  BY <1>0, <1>1, <1>3 DEF SendAccepted, SendFails, Rollback, Holds, Holding
<1>4. ASSUME NEW p \in Procs, Expire(p) PROVE req'[i] = req[i] /\ copies'[i] = copies[i]
  BY <1>1, <1>4 DEF Expire
<1>5. ASSUME NEW p \in Procs, NEW j \in Requests, Check(p, j) \/ RecordExpired(p, j)
      PROVE  UNCHANGED <<req, copies>>
  BY <1>5 DEF Check, RecordExpired
<1>6. ASSUME NEW p \in Procs,
             \/ Finish(p) \/ ClaimLost(p) \/ Load(p) \/ LoadFails(p) \/ MarkDelivered(p)
             \/ MarkFails(p) \/ Restore(p) \/ RollbackFails(p) \/ Crash(p)
      PROVE  UNCHANGED <<req, copies>>
  BY <1>6 DEF Finish, ClaimLost, Load, LoadFails, MarkDelivered, MarkFails, Restore,
              RollbackFails, Crash
<1>7. ASSUME NEW p \in Approvers, NEW ids \in SUBSET Requests, NEW d \in Decisions,
             Open(p, ids, d)
      PROVE  UNCHANGED <<req, copies>>
  BY <1>7 DEF Open
<1>8. ASSUME NEW j \in Requests, BecomeOverdue(j) PROVE UNCHANGED <<req, copies>>
  BY <1>8 DEF BecomeOverdue
<1>9. CASE UNCHANGED vars
  BY <1>9 DEF vars
<1> QED
  BY <1>2, <1>3, <1>4, <1>5, <1>6, <1>7, <1>8, <1>9 DEF Next, Work

\* What is rejected, expired or confirmed never changes again and sends nothing.
THEOREM DecisionsStand == Spec => DecisionStands
<1>1. IInv /\ [Next]_vars =>
        [\A i \in Requests :
            req[i] \in {"rejected", "expired"} \/ confirmed[i] > 0
                => req'[i] = req[i] /\ copies'[i] = copies[i]]_vars
  BY StandStep
<1> QED
  BY Invariant, <1>1, PTL DEF Spec, DecisionStands

-----------------------------------------------------------------------------
(* Approval implements HeldMail.                                           *)

Failing == {"restore", "rollback"}

StateFacts ==
    \A i \in Requests :
        /\ req[i] = "pending" => heldState[i] = "held"
        /\ req[i] \in {"rejected", "expired"} => heldState[i] = "dropped"
        /\ confirmed[i] = 1 => heldState[i] = "delivered"
        /\ \A p \in Procs : Holds(p, i) =>
              heldState[i] = IF at[p] \in Failing THEN "failing" ELSE "taken"
        /\ req[i] = "approved" /\ confirmed[i] = 0 /\ (\A p \in Procs : ~Holds(p, i))
              => heldState[i] = "stranded"

LEMMA StateOf == IInv => StateFacts
<1> SUFFICES ASSUME IInv, NEW i \in Requests
             PROVE  /\ req[i] = "pending" => heldState[i] = "held"
                    /\ req[i] \in {"rejected", "expired"} => heldState[i] = "dropped"
                    /\ confirmed[i] = 1 => heldState[i] = "delivered"
                    /\ \A p \in Procs : Holds(p, i) =>
                          heldState[i] = IF at[p] \in Failing THEN "failing" ELSE "taken"
                    /\ req[i] = "approved" /\ confirmed[i] = 0
                          /\ (\A p \in Procs : ~Holds(p, i))
                             => heldState[i] = "stranded"
  BY DEF StateFacts
<1>1. confirmed[i] = 1 => req[i] = "approved"
  BY DEF IInv, Claims, ConfirmedIsApproved
<1>2. ASSUME NEW p \in Procs, Holds(p, i)
      PROVE  /\ p \in Approvers /\ req[i] = "approved" /\ confirmed[i] = 0
             /\ \A q \in Procs : Holds(q, i) => q = p
  BY <1>2 DEF IInv, Claims, ClaimIsExclusive, Typed, Control, Procs, Holds, Holding
<1>3. ASSUME NEW p \in Procs, Holds(p, i)
      PROVE  heldState[i] = IF at[p] \in Failing THEN "failing" ELSE "taken"
  BY <1>2, <1>3 DEF heldState, Failing, Procs
<1>4. confirmed[i] = 1 => heldState[i] = "delivered"
  BY <1>1 DEF heldState
<1>5. req[i] = "approved" /\ confirmed[i] = 0 /\ (\A p \in Procs : ~Holds(p, i))
         => heldState[i] = "stranded"
  BY DEF heldState, Procs
<1> QED
  BY <1>3, <1>4, <1>5 DEF heldState

\* A request whose status, hand-over and holders do not change keeps its state.
LEMMA SameState ==
  ASSUME NEW j \in Requests, req'[j] = req[j], confirmed'[j] = confirmed[j],
         \A q \in Approvers : Holds(q, j)' <=> Holds(q, j),
         \A q \in Approvers : Holds(q, j) => (at'[q] \in Failing <=> at[q] \in Failing)
  PROVE  heldState'[j] = heldState[j]
<1>1. (\E q \in Approvers : Holds(q, j) /\ at[q] \in Failing)'
         <=> \E q \in Approvers : Holds(q, j) /\ at[q] \in Failing
  BY DEF Failing
<1>2. (\E q \in Approvers : Holds(q, j))' <=> \E q \in Approvers : Holds(q, j)
  OBVIOUS
<1> QED
  BY <1>1, <1>2 DEF heldState, Failing

LEMMA OneChange ==
  ASSUME NEW i \in Requests, NEW s, heldState'[i] = s,
         \A j \in Requests \ {i} : heldState'[j] = heldState[j]
  PROVE  heldState' = [heldState EXCEPT ![i] = s]
<1>1. heldState = [j \in Requests |-> heldState[j]]
  BY DEF heldState
<1>2. heldState' = [j \in Requests |-> heldState'[j]]
  BY DEF heldState
<1> QED
  BY <1>1, <1>2

LEMMA NoChange ==
  ASSUME \A j \in Requests : heldState'[j] = heldState[j]
  PROVE  heldState' = heldState
  BY DEF heldState

\* A set of pending requests that becomes rejected or expired is dropped.
LEMMA Dropped ==
  ASSUME NEW dropped \in SUBSET Requests, UNCHANGED copies,
         \A j \in dropped : heldState[j] = "held" /\ heldState'[j] = "dropped",
         \A j \in Requests \ dropped : heldState'[j] = heldState[j]
  PROVE  Held!Next
<1>1. heldState' = [j \in Requests |-> heldState'[j]]
  BY DEF heldState
<1>2. heldState' = [j \in Requests |-> IF j \in dropped THEN "dropped" ELSE heldState[j]]
  BY <1>1
<1>3. Held!Drop(dropped)
  BY <1>2 DEF Held!Drop
<1> QED
  BY <1>3 DEF Held!Next

LEMMA InitMaps == Init => Held!Init
  BY DEF Init, heldState, Held!Init

LEMMA StepMaps == ASSUME IInv, IInv', [Next]_vars PROVE [Held!Next]_(Held!vars)
<1> USE DEF procVars, historyVars
<1>1. /\ req \in [Requests -> RequestStatus] /\ at \in [Procs -> Steps]
      /\ cur \in [Procs -> Requests \cup {NoRequest}]
      /\ confirmed \in [Requests -> Nat] /\ copies \in [Requests -> Nat]
      /\ decision \in [Procs -> Decisions] /\ Control
  BY DEF IInv, Typed, TypeOK
<1>2. StateFacts /\ StateFacts'
  <2>1. IInv' => StateFacts'
    BY StateOf, PTL
  <2> QED
    BY StateOf, <2>1
<1>3. ASSUME UNCHANGED <<req, confirmed, copies>>,
             \A q \in Procs, j \in Requests : Holds(q, j)' <=> Holds(q, j),
             \A q \in Procs, j \in Requests :
                 Holds(q, j) => (at'[q] \in Failing <=> at[q] \in Failing)
      PROVE  UNCHANGED Held!vars
  BY <1>3, SameState, NoChange DEF Held!vars, Procs
<1>4. ASSUME NEW p \in Procs, cur[p] \in Requests, cur'[p] \in {cur[p], NoRequest},
             \A q \in Procs \ {p} : at'[q] = at[q] /\ cur'[q] = cur[q],
             \A j \in Requests \ {cur[p]} : req'[j] = req[j] /\ confirmed'[j] = confirmed[j]
      PROVE  \A j \in Requests \ {cur[p]} : heldState'[j] = heldState[j]
  <2> SUFFICES ASSUME NEW j \in Requests \ {cur[p]} PROVE heldState'[j] = heldState[j]
    OBVIOUS
  <2>1. \A q \in Procs : Holds(q, j)' <=> Holds(q, j)
    BY <1>4, ApprovalAssumption DEF Holds
  <2>2. \A q \in Procs : Holds(q, j) => (at'[q] \in Failing <=> at[q] \in Failing)
    BY <1>4 DEF Holds
  <2> QED
    BY <1>4, <2>1, <2>2, SameState DEF Procs
\* The steps that touch no request, no hand-over and no holder.
<1>5. ASSUME NEW p \in Procs,
             \/ Finish(p) \/ ClaimLost(p) \/ Load(p) \/ MarkDelivered(p) \/ Restore(p)
             \/ \E i \in Requests : Check(p, i) \/ RecordExpired(p, i)
      PROVE  UNCHANGED Held!vars
  <2>1. UNCHANGED <<req, confirmed, copies>>
    BY <1>5 DEF Finish, ClaimLost, Load, MarkDelivered, Restore, Check, RecordExpired
  <2>2. \A q \in Procs, j \in Requests :
           /\ Holds(q, j)' <=> Holds(q, j)
           /\ Holds(q, j) => (at'[q] \in Failing <=> at[q] \in Failing)
    <3>1. \A q \in Procs, j \in Requests : Holds(q, j)' => Holds(q, j)
      BY <1>1, <1>5 DEF Finish, ClaimLost, Load, MarkDelivered, Restore, Check, RecordExpired,
                        Goto, Return, Holds, Holding
    <3>2. \A q \in Procs, j \in Requests : Holds(q, j) => Holds(q, j)'
      BY <1>1, <1>5 DEF Finish, ClaimLost, Load, MarkDelivered, Restore, Check, RecordExpired,
                        Goto, Return, Holds, Holding
    <3>3. \A q \in Procs : at[q] \in Holding => (at'[q] \in Failing <=> at[q] \in Failing)
      BY <1>1, <1>5 DEF Finish, ClaimLost, Load, MarkDelivered, Restore, Check, RecordExpired,
                        Goto, Return, Holding, Failing
    <3> QED
      BY <3>1, <3>2, <3>3 DEF Holds
  <2> QED
    BY <1>3, <2>1, <2>2
<1>6. ASSUME NEW p \in Approvers, NEW ids \in SUBSET Requests, NEW d \in Decisions,
             Open(p, ids, d)
      PROVE  UNCHANGED Held!vars
  BY <1>1, <1>3, <1>6 DEF Open, Holds, Holding, Failing
<1>7. ASSUME NEW i \in Requests, BecomeOverdue(i) PROVE UNCHANGED Held!vars
  BY <1>3, <1>7 DEF BecomeOverdue, Holds
<1>8. CASE UNCHANGED vars
  BY <1>3, <1>8 DEF vars, Holds
\* A claim answered or not: the caller at "claim" holds nothing.
<1>9. ASSUME NEW p \in Procs, ClaimWon(p) \/ ClaimFails(p)
      PROVE  /\ cur[p] \in Requests /\ at[p] = "claim"
             /\ UNCHANGED <<confirmed, copies>>
             /\ cur'[p] \in {cur[p], NoRequest}
             /\ \A q \in Procs \ {p} : at'[q] = at[q] /\ cur'[q] = cur[q]
  BY <1>1, <1>9 DEF ClaimWon, ClaimFails, Goto, Return, Control
<1>10. ASSUME NEW p \in Procs, NEW d, ClaimWon(p) \/ ClaimFails(p),
              req[cur[p]] = "pending", d = "rejected", req' = [req EXCEPT ![cur[p]] = d]
       PROVE  Held!Next
  <2>1. heldState[cur[p]] = "held" /\ heldState'[cur[p]] = "dropped"
    BY <1>1, <1>2, <1>9, <1>10 DEF StateFacts
  <2>2. \A j \in Requests \ {cur[p]} : heldState'[j] = heldState[j]
    BY <1>1, <1>4, <1>9, <1>10
  <2>3. PICK dropped \in SUBSET Requests : dropped = {cur[p]}
    BY <1>9, <1>10
  <2>4. /\ \A j \in dropped : heldState[j] = "held" /\ heldState'[j] = "dropped"
        /\ \A j \in Requests \ dropped : heldState'[j] = heldState[j]
    BY <2>1, <2>2, <2>3
  <2> QED
    BY <1>9, <1>10, <2>4, Dropped
<1>11. ASSUME NEW p \in Procs, ClaimWon(p) PROVE Held!Next
  <2>1. cur[p] \in Requests /\ req[cur[p]] = "pending" /\ req' = [req EXCEPT ![cur[p]] =
     decision[p]]
    BY <1>9, <1>11 DEF ClaimWon
  <2>2. CASE decision[p] = "rejected"
    BY <1>10, <1>11, <2>1, <2>2
  <2>3. CASE decision[p] = "approved"
    <3>1. heldState[cur[p]] = "held" /\ heldState'[cur[p]] = "taken"
      <4>1. Holds(p, cur[p])' /\ at'[p] \notin Failing /\ cur'[p] = cur[p]
        BY <1>1, <1>11, <2>3 DEF ClaimWon, Goto, Holds, Holding, Failing
      <4>2. PICK i \in Requests : i = cur[p]
        BY <2>1
      <4>3. Holds(p, i)'
        BY <4>1, <4>2 DEF Holds
      <4>4. heldState'[i] = "taken"
        BY <1>2, <4>1, <4>3 DEF StateFacts, Failing
      <4> QED
        BY <1>2, <2>1, <4>2, <4>4 DEF StateFacts
    <3>2. \A j \in Requests \ {cur[p]} : heldState'[j] = heldState[j]
      BY <1>1, <1>4, <1>9, <1>11, <2>1
    <3>3. Held!Take(cur[p])
      BY <1>9, <1>11, <2>1, <3>1, <3>2, OneChange DEF Held!Take, Held!Move
    <3> QED
      BY <2>1, <3>3 DEF Held!Next
  <2> QED
    BY <1>1, <2>2, <2>3 DEF Decisions
\* A request is stranded by an event that leaves it approved with no holder
\* and no hand-over.
<1>12. ASSUME NEW i \in Requests, req'[i] = "approved", confirmed'[i] = 0,
              \A q \in Procs : ~Holds(q, i)',
              heldState[i] \in {"held", "taken", "failing"}, UNCHANGED copies,
              \A j \in Requests \ {i} : heldState'[j] = heldState[j]
       PROVE  Held!Next
  <2>1. heldState'[i] = "stranded"
    BY <1>2, <1>12 DEF StateFacts
  <2>2. Held!Strand(i)
    BY <1>12, <2>1, OneChange DEF Held!Strand, Held!Move
  <2> QED
    BY <2>2 DEF Held!Next
<1>13. ASSUME NEW p \in Procs, ClaimFails(p) PROVE Held!Next \/ UNCHANGED Held!vars
  <2>1. /\ at'[p] = "next" /\ cur'[p] = NoRequest
        /\ \A q \in Procs \ {p} : at'[q] = at[q] /\ cur'[q] = cur[q]
    BY <1>1, <1>13 DEF ClaimFails, Return
  <2>2. CASE req' = req
    <3>1. \A q \in Procs, j \in Requests :
             /\ Holds(q, j)' <=> Holds(q, j)
             /\ Holds(q, j) => (at'[q] \in Failing <=> at[q] \in Failing)
      BY <1>9, <1>13, <2>1 DEF Holds, Holding
    <3> QED
      BY <1>3, <1>9, <1>13, <2>2, <3>1
  <2>3. CASE req[cur[p]] = "pending" /\ req' = [req EXCEPT ![cur[p]] = decision[p]]
    <3>1. CASE decision[p] = "rejected"
      BY <1>10, <1>13, <2>3, <3>1
    <3>2. CASE decision[p] = "approved"
      <4>1. PICK i \in Requests : i = cur[p]
        BY <1>9, <1>13
      <4>2. heldState[i] = "held" /\ confirmed'[i] = 0 /\ req'[i] = "approved"
        BY <1>1, <1>2, <1>9, <1>13, <2>3, <3>2, <4>1
           DEF StateFacts, IInv, Claims, ConfirmedIsApproved
      <4>3. \A q \in Procs : ~Holds(q, i)
        BY <2>3, <4>1 DEF IInv, Claims, ClaimIsExclusive
      <4>4. \A q \in Procs : ~Holds(q, i)'
        BY <2>1, <4>3 DEF Holds, Holding
      <4>5. \A j \in Requests \ {i} : heldState'[j] = heldState[j]
        BY <1>1, <1>4, <1>9, <1>13, <2>3, <4>1
      <4> QED
        BY <1>9, <1>12, <1>13, <4>2, <4>4, <4>5
    <3> QED
      BY <1>1, <3>1, <3>2 DEF Decisions
  <2> QED
    BY <1>13, <2>2, <2>3 DEF ClaimFails
\* A holder whose hand-over failed.
<1>14. ASSUME NEW p \in Procs, LoadFails(p) \/ MarkFails(p) \/ SendFails(p) PROVE Held!Next
  <2>1. cur[p] \in Requests /\ Holds(p, cur[p]) /\ at[p] \notin Failing
    BY <1>1, <1>14 DEF LoadFails, MarkFails, SendFails, Control, Holds, Holding, Failing
  <2>2. Holds(p, cur[p])' /\ at'[p] \in Failing /\ cur' = cur
        /\ \A q \in Procs \ {p} : at'[q] = at[q]
    BY <1>1, <1>14 DEF LoadFails, MarkFails, SendFails, Goto, Holds, Holding, Failing
  <2>3. UNCHANGED <<req, confirmed>>
    BY <1>14 DEF LoadFails, MarkFails, SendFails
  <2>4. heldState[cur[p]] = "taken" /\ heldState'[cur[p]] = "failing"
    BY <1>2, <2>1, <2>2, <2>3 DEF StateFacts, Failing
  <2>5. \A j \in Requests \ {cur[p]} : heldState'[j] = heldState[j]
    BY <1>1, <1>4, <2>1, <2>2, <2>3
  <2>6. copies' = copies \/ copies' = [copies EXCEPT ![cur[p]] = @ + 1]
    BY <1>14 DEF LoadFails, MarkFails, SendFails
  <2>7. Held!Fail(cur[p])
    BY <2>1, <2>4, <2>5, <2>6, OneChange DEF Held!Fail, Held!Move, Held!OneMore
  <2> QED
    BY <2>1, <2>7 DEF Held!Next
<1>15. ASSUME NEW p \in Procs, SendAccepted(p) PROVE Held!Next
  <2>1. cur[p] \in Requests /\ Holds(p, cur[p]) /\ at[p] \notin Failing
    BY <1>1, <1>15 DEF SendAccepted, Control, Holds, Holding, Failing
  <2>2. confirmed[cur[p]] = 0 /\ confirmed' = [confirmed EXCEPT ![cur[p]] = @ + 1]
        /\ copies' = [copies EXCEPT ![cur[p]] = @ + 1] /\ req' = req
    BY <1>15, <2>1 DEF SendAccepted, IInv, Claims, ClaimIsExclusive
  <2>3. heldState[cur[p]] = "taken" /\ heldState'[cur[p]] = "delivered"
    BY <1>1, <1>2, <2>1, <2>2 DEF StateFacts
  <2>4. \A j \in Requests \ {cur[p]} : heldState'[j] = heldState[j]
    BY <1>1, <1>4, <1>15, <2>1, <2>2 DEF SendAccepted, Return
  <2>5. Held!Deliver(cur[p])
    BY <2>1, <2>2, <2>3, <2>4, OneChange DEF Held!Deliver, Held!Move, Held!OneMore
  <2> QED
    BY <2>1, <2>5 DEF Held!Next
<1>16. ASSUME NEW p \in Procs, Rollback(p) PROVE Held!Next
  <2>1. cur[p] \in Requests /\ Holds(p, cur[p]) /\ at[p] \in Failing
    BY <1>1, <1>16 DEF Rollback, Control, Holds, Holding, Failing
  <2>2. req'[cur[p]] = "pending" /\ UNCHANGED copies
    BY <1>1, <1>16, <2>1 DEF Rollback
  <2>3. heldState[cur[p]] = "failing" /\ heldState'[cur[p]] = "held"
    BY <1>2, <2>1, <2>2 DEF StateFacts
  <2>4. \A j \in Requests \ {cur[p]} : heldState'[j] = heldState[j]
    BY <1>1, <1>4, <1>16, <2>1 DEF Rollback, Return
  <2>5. Held!GiveBack(cur[p])
    BY <2>1, <2>2, <2>3, <2>4, OneChange DEF Held!GiveBack, Held!Move
  <2> QED
    BY <2>1, <2>5 DEF Held!Next
\* A holder that ends without giving the request back.
<1>17. ASSUME NEW p \in Procs, NEW i \in Requests, Holds(p, i),
              UNCHANGED <<req, confirmed, copies>>,
              at'[p] \in {"next", "idle"}, cur'[p] = NoRequest,
              \A q \in Procs \ {p} : at'[q] = at[q] /\ cur'[q] = cur[q]
       PROVE  Held!Next
  <2>1. req[i] = "approved" /\ confirmed[i] = 0 /\ \A q \in Procs : Holds(q, i) => q = p
    BY <1>17 DEF IInv, Claims, ClaimIsExclusive
  <2>2. \A q \in Procs : ~Holds(q, i)'
    BY <1>17, <2>1, ApprovalAssumption DEF Holds, Holding
  <2>3. heldState[i] \in {"taken", "failing"}
    BY <1>2, <1>17 DEF StateFacts
  <2>4. \A j \in Requests \ {i} : heldState'[j] = heldState[j]
    BY <1>4, <1>17 DEF Holds
  <2> QED
    BY <1>12, <1>17, <2>1, <2>2, <2>3, <2>4
<1>18. ASSUME NEW p \in Procs, RollbackFails(p) PROVE Held!Next
  <2>1. cur[p] \in Requests /\ Holds(p, cur[p])
    BY <1>1, <1>18 DEF RollbackFails, Control, Holds, Holding
  <2> QED
    BY <1>1, <1>17, <1>18, <2>1 DEF RollbackFails, Return
<1>19. ASSUME NEW p \in Procs, Crash(p) PROVE Held!Next \/ UNCHANGED Held!vars
  <2>1. /\ at'[p] = "idle" /\ cur'[p] = NoRequest
        /\ \A q \in Procs \ {p} : at'[q] = at[q] /\ cur'[q] = cur[q]
        /\ UNCHANGED <<req, confirmed, copies>>
    BY <1>1, <1>19 DEF Crash
  <2>2. CASE at[p] \in Holding
    <3>1. cur[p] \in Requests /\ Holds(p, cur[p])
      BY <1>1, <2>2 DEF Control, Holds, Holding
    <3> QED
      BY <1>17, <2>1, <3>1
  <2>3. CASE at[p] \notin Holding
    <3>1. \A q \in Procs, j \in Requests :
             /\ Holds(q, j)' <=> Holds(q, j)
             /\ Holds(q, j) => (at'[q] \in Failing <=> at[q] \in Failing)
      BY <2>1, <2>3 DEF Holds, Holding
    <3> QED
      BY <1>3, <2>1, <3>1
  <2> QED
    BY <2>2, <2>3
<1>20. ASSUME NEW p \in Procs, Expire(p) PROVE Held!Next
  <2> DEFINE late == {i \in Requests : req[i] = "pending" /\ overdue[i]}
  <2>1. /\ req' = [i \in Requests |-> IF i \in late THEN "expired" ELSE req[i]]
        /\ UNCHANGED <<confirmed, copies, cur>>
        /\ \A q \in Procs : at'[q] # at[q] => at[q] = "idle" /\ at'[q] = "next"
    BY <1>1, <1>20 DEF Expire
  <2>2. \A q \in Procs, j \in Requests :
           /\ Holds(q, j)' <=> Holds(q, j)
           /\ Holds(q, j) => (at'[q] \in Failing <=> at[q] \in Failing)
    BY <2>1 DEF Holds, Holding, Failing
  <2>3. \A j \in late : heldState[j] = "held" /\ heldState'[j] = "dropped"
    BY <1>2, <2>1 DEF StateFacts
  <2>4. \A j \in Requests \ late : heldState'[j] = heldState[j]
    <3> SUFFICES ASSUME NEW j \in Requests \ late PROVE heldState'[j] = heldState[j]
      OBVIOUS
    <3>1. req'[j] = req[j] /\ confirmed'[j] = confirmed[j]
      BY <2>1
    <3> HIDE DEF late
    <3> QED
      BY <2>2, <3>1, SameState DEF Procs
  <2>5. late \in SUBSET Requests
    OBVIOUS
  <2> HIDE DEF late
  <2> QED
    BY <2>1, <2>3, <2>4, <2>5, Dropped
<1> QED
  BY <1>5, <1>6, <1>7, <1>8, <1>11, <1>13, <1>14, <1>15, <1>16, <1>18, <1>19, <1>20
     DEF Next, Work

\* Approval keeps the promise of held mail: each step is a step of HeldMail on
\* the requests it touches, or changes nothing there.
THEOREM ImplementsHeldMail == Spec => Promise
<1>1. Init => Held!Init
  BY InitMaps
<1>2. IInv /\ IInv' /\ [Next]_vars => [Held!Next]_(Held!vars)
  BY StepMaps
<1> QED
  BY <1>1, <1>2, Invariant, PTL DEF Spec, Promise, Held!Spec
=============================================================================
