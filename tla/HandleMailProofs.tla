-------------------------- MODULE HandleMailProofs --------------------------
(***************************************************************************)
(* Proofs about HandleMail, for any number of mails, transmissions and     *)
(* crashes: what the handler of a message knows at each of its steps, and  *)
(* what the answer to a message means ever after.                          *)
(***************************************************************************)
EXTENDS HandleMail, TLAPS

LEMMA InitTyped == Init => TypeOK
  BY GatewayAssumption DEF Init, TypeOK, Messages

-----------------------------------------------------------------------------
(* What holds of a message.                                                *)

\* Nothing is known of a transmission that has not begun.
Untouched(x) ==
    /\ at[x] = "none" /\ action[x] = "none" /\ row[x] = "none" /\ archive[x] = "none"
    /\ ~clean[x] /\ ~raw[x] /\ ~record[x] /\ ~sent[x] /\ ~sure[x]
    /\ answer[x] = "none"

\* Before the status is written the database knows nothing but the arrival.
Early == {"saveRaw", "saveRow", "transform", "evaluate", "deliver", "setStatus"}

\* What a handler has done when it comes to a step.
UnderWay(x) ==
    /\ answer[x] = "none"
    /\ at[x] # "saveRaw" => raw[x]
    /\ at[x] \in Early => /\ row[x] \in {"none", "received"} /\ ~record[x]
                          /\ archive[x] = "none"
    /\ at[x] \in {"evaluate", "deliver"} => clean[x]
    /\ at[x] = "deliver" => action[x] = "deliver"
    /\ at[x] \in Early \ {"setStatus"} => ~sent[x] /\ ~sure[x]
    /\ at[x] = "hold" => action[x] \in {"approval", "delay"}
    /\ at[x] \notin Early \ {"setStatus"} =>
          /\ action[x] \in Actions
          /\ action[x] = "deliver" => sure[x]
          /\ action[x] # "deliver" => ~sent[x]
          /\ action[x] = "reject" => archive[x] = "none" /\ ~record[x]

\* What is true of a message ever after.
Settled(x) ==
    /\ sure[x] => sent[x]
    /\ sent[x] => clean[x]
    /\ answer[x] \in {"250", "550"} =>
          queue[x[1]] = (IF answer[x] = "250" THEN "accepted" ELSE "bounced")
             /\ tries[x[1]] = x[2]
    /\ answer[x] = "250" =>
          sure[x] \/ (raw[x] /\ action[x] \in HoldActions /\ ~sent[x])
    /\ answer[x] = "550" => ~sent[x] /\ ~record[x] /\ archive[x] = "none"
    /\ answer[x] = "451" => ~sure[x] /\ ~record[x] /\ archive[x] = "none"
    /\ row[x] = "delivered" => sure[x]
    /\ row[x] \in {"quarantined", "approval_pending", "delayed"} \/ record[x]
          => raw[x] /\ ~sent[x]
    /\ row[x] = "rejected" => ~sent[x] /\ action[x] = "reject"

Sound(x) ==
    /\ tries[x[1]] < x[2] => Untouched(x)
    /\ at[x] # "none" => UnderWay(x)
    /\ Settled(x)

IInv == TypeOK /\ \A x \in Messages : Sound(x)

LEMMA InitIInv == Init => IInv
<1> SUFFICES ASSUME Init, NEW x \in Messages PROVE Sound(x)
  BY InitTyped DEF IInv
<1> QED
  BY DEF Init, Sound, Untouched, UnderWay, Settled, Messages

\* Whoever answers a message, with whatever code, leaves the queue, the answers
\* and the handlers' places well typed.
LEMMA FinishTyped ==
    ASSUME TypeOK, NEW x \in Messages, NEW code \in {"250", "451", "550"}, NEW from, Finish(x,
       from, code)
    PROVE /\ queue' \in [Mails -> {"queued", "waiting", "accepted", "bounced"}]
          /\ answer' \in [Messages -> {"none", "lost", "250", "451", "550"}]
          /\ at' \in [Messages -> {"none", "saveRaw", "saveRow", "transform",
                                   "evaluate", "deliver", "setStatus", "hold", "answer"}]
<1>1. x[1] \in Mails
  BY DEF Messages
<1>2. at' \in [Messages -> {"none", "saveRaw", "saveRow", "transform",
                           "evaluate", "deliver", "setStatus", "hold", "answer"}]
  BY DEF TypeOK, Finish, Step
<1>3. CASE Listening(x)
  <2>1. answer' = [answer EXCEPT ![x] = code]
    BY <1>3 DEF Finish, Answer
  <2>2. PICK q \in {"queued", "accepted", "bounced"} : queue' = [queue EXCEPT ![x[1]] = q]
    BY <1>3 DEF Finish, Answer
  <2> QED  BY <1>1, <1>2, <2>1, <2>2 DEF TypeOK
<1>4. CASE ~Listening(x)
  <2>1. answer' = [answer EXCEPT ![x] = "lost"] /\ queue' = queue
    BY <1>4 DEF Finish, Answer
  <2> QED  BY <1>2, <2>1 DEF TypeOK
<1> QED  BY <1>3, <1>4

\* A step from a sound state keeps the types: an untyped action would be recorded
\* as an untyped status, but where a status is recorded the action is decided.
LEMMA TypedStep == ASSUME IInv, [Next]_vars PROVE TypeOK'
<1>0. TypeOK
  BY DEF IInv
<1> USE <1>0, GatewayAssumption
    DEF TypeOK, upstreamVars, processVars, controlVars, storedVars, outVars, Step, Transmit,
        Actions, HoldActions, RowOf, Status
<1>1. ASSUME NEW m \in Mails, Data(m) PROVE TypeOK'
  <2>1. <<m, tries[m] + 1>> \in Messages /\ tries[m] + 1 \in 0..MaxAttempts
    BY <1>1 DEF Data, Messages
  <2> QED  BY <1>1, <2>1 DEF Data
<1>2. ASSUME NEW m \in Mails, NoRoute(m) PROVE TypeOK'
  <2>1. <<m, tries[m] + 1>> \in Messages /\ tries[m] + 1 \in 0..MaxAttempts
    BY <1>2 DEF NoRoute, Messages
  <2> QED  BY <1>2, <2>1 DEF NoRoute
<1>3. ASSUME NEW m \in Mails, Disconnect(m) PROVE TypeOK'
  BY <1>3 DEF Disconnect
<1>4. ASSUME NEW x \in Messages, SaveRaw(x) PROVE TypeOK'
  BY <1>4 DEF SaveRaw
<1>5. ASSUME NEW x \in Messages, SaveRawFails(x) PROVE TypeOK'
  <2>1. Finish(x, "saveRaw", "451") /\ UNCHANGED outVars
    BY <1>5 DEF SaveRawFails
  <2> QED  BY <2>1, FinishTyped DEF Finish
<1>6. ASSUME NEW x \in Messages, SaveRow(x) PROVE TypeOK'
  BY <1>6 DEF SaveRow
<1>7. ASSUME NEW x \in Messages, Transform(x) PROVE TypeOK'
  BY <1>7 DEF Transform
<1>8. ASSUME NEW x \in Messages, TransformFails(x) PROVE TypeOK'
  BY <1>8 DEF TransformFails
<1>9. ASSUME NEW x \in Messages, Evaluate(x) PROVE TypeOK'
  BY <1>9 DEF Evaluate
<1>10. ASSUME NEW x \in Messages, NoRule(x) PROVE TypeOK'
  <2>1. Finish(x, "evaluate", "550") /\ UNCHANGED outVars
    BY <1>10 DEF NoRule
  <2> QED  BY <2>1, FinishTyped DEF Finish
<1>11. ASSUME NEW x \in Messages, Deliver(x) PROVE TypeOK'
  BY <1>11 DEF Deliver
<1>12. ASSUME NEW x \in Messages, DeliverFails(x) PROVE TypeOK'
  <2>1. Finish(x, "deliver", "451") /\ UNCHANGED outVars
    BY <1>12 DEF DeliverFails
  <2> QED  BY <2>1, FinishTyped DEF Finish
<1>13. ASSUME NEW x \in Messages, DeliverUnclear(x) PROVE TypeOK'
  <2>1. Finish(x, "deliver", "451") /\ sent' = [sent EXCEPT ![x] = TRUE] /\ UNCHANGED sure
    BY <1>13 DEF DeliverUnclear
  <2> QED  BY <2>1, FinishTyped DEF Finish
<1>14. ASSUME NEW x \in Messages, SetStatus(x) PROVE TypeOK'
  <2>1. action[x] \in Actions
    BY <1>14 DEF SetStatus, IInv, Sound, UnderWay, Early
  <2> QED  BY <1>14, <2>1 DEF SetStatus
<1>15. ASSUME NEW x \in Messages, Hold(x) PROVE TypeOK'
  BY <1>15 DEF Hold
<1>16. ASSUME NEW x \in Messages, Reply(x) PROVE TypeOK'
  <2>1. PICK code \in {"250", "550"} : Finish(x, "answer", code) /\ UNCHANGED outVars
    BY <1>16 DEF Reply
  <2> QED  BY <2>1, FinishTyped DEF Finish
<1>17. ASSUME NEW x \in Messages, Archive(x) PROVE TypeOK'
  BY <1>17 DEF Archive
<1>18. CASE Crash
  BY <1>18 DEF Crash, Die, Requeued
<1>19. CASE Shutdown
  BY <1>19 DEF Shutdown, Requeued
<1>20. CASE SessionsGone
  BY <1>20 DEF SessionsGone
<1>21. CASE ArchivesDone
  BY <1>21 DEF ArchivesDone
<1>22. CASE Exit
  BY <1>22 DEF Exit, Die, Requeued
<1>23. CASE Restart
  BY <1>23 DEF Restart
<1>24. CASE UNCHANGED vars
  BY <1>24 DEF vars
<1> QED
  BY <1>1, <1>2, <1>3, <1>4, <1>5, <1>6, <1>7, <1>8, <1>9, <1>10, <1>11, <1>12, <1>13, <1>14,
     <1>15, <1>16, <1>17, <1>18, <1>19, <1>20, <1>21, <1>22, <1>23, <1>24 DEF Next, Handler

LEMMA SoundStep == ASSUME IInv, [Next]_vars, NEW y \in Messages PROVE Sound(y)'
<1> USE GatewayAssumption
    DEF TypeOK, upstreamVars, processVars, controlVars, storedVars, outVars, Step, Answer, Finish,
        Listening, Transmit, Messages, Actions, HoldActions, RowOf, Status, Sound, Untouched,
           UnderWay, Settled, Early
<1>0. TypeOK /\ TypeOK' /\ Sound(y)
  BY TypedStep DEF IInv
<1>1. ASSUME NEW m \in Mails, Data(m) PROVE Sound(y)'
  BY <1>0, <1>1 DEF Data
<1>2. ASSUME NEW m \in Mails, NoRoute(m) PROVE Sound(y)'
  BY <1>0, <1>2 DEF NoRoute
<1>3. ASSUME NEW m \in Mails, Disconnect(m) PROVE Sound(y)'
  BY <1>0, <1>3 DEF Disconnect
<1>4. ASSUME NEW x \in Messages, SaveRaw(x) PROVE Sound(y)'
  BY <1>0, <1>4 DEF SaveRaw
<1>5. ASSUME NEW x \in Messages, SaveRawFails(x) PROVE Sound(y)'
  BY <1>0, <1>5 DEF SaveRawFails
<1>6. ASSUME NEW x \in Messages, SaveRow(x) PROVE Sound(y)'
  BY <1>0, <1>6 DEF SaveRow
<1>7. ASSUME NEW x \in Messages, Transform(x) PROVE Sound(y)'
  BY <1>0, <1>7 DEF Transform
<1>8. ASSUME NEW x \in Messages, TransformFails(x) PROVE Sound(y)'
  BY <1>0, <1>8 DEF TransformFails
<1>9. ASSUME NEW x \in Messages, Evaluate(x) PROVE Sound(y)'
  BY <1>0, <1>9 DEF Evaluate
<1>10. ASSUME NEW x \in Messages, NoRule(x) PROVE Sound(y)'
  BY <1>0, <1>10 DEF NoRule
<1>11. ASSUME NEW x \in Messages, Deliver(x) PROVE Sound(y)'
  BY <1>0, <1>11 DEF Deliver
<1>12. ASSUME NEW x \in Messages, DeliverFails(x) PROVE Sound(y)'
  BY <1>0, <1>12 DEF DeliverFails
<1>13. ASSUME NEW x \in Messages, DeliverUnclear(x) PROVE Sound(y)'
  BY <1>0, <1>13 DEF DeliverUnclear
<1>14. ASSUME NEW x \in Messages, SetStatus(x) PROVE Sound(y)'
  BY <1>0, <1>14 DEF SetStatus
<1>15. ASSUME NEW x \in Messages, Hold(x) PROVE Sound(y)'
  BY <1>0, <1>15 DEF Hold
<1>16. ASSUME NEW x \in Messages, Reply(x) PROVE Sound(y)'
  BY <1>0, <1>16 DEF Reply
<1>17. ASSUME NEW x \in Messages, Archive(x) PROVE Sound(y)'
  BY <1>0, <1>17 DEF Archive
<1>18. CASE Crash
  BY <1>0, <1>18 DEF Crash, Die, Requeued
<1>19. CASE Shutdown
  BY <1>0, <1>19 DEF Shutdown, Requeued
<1>20. CASE SessionsGone
  BY <1>0, <1>20 DEF SessionsGone
<1>21. CASE ArchivesDone
  BY <1>0, <1>21 DEF ArchivesDone
<1>22. CASE Exit
  BY <1>0, <1>22 DEF Exit, Die, Requeued
<1>23. CASE Restart
  BY <1>0, <1>23 DEF Restart
<1>24. CASE UNCHANGED vars
  BY <1>0, <1>24 DEF vars
<1> QED
  BY <1>1, <1>2, <1>3, <1>4, <1>5, <1>6, <1>7, <1>8, <1>9, <1>10, <1>11, <1>12, <1>13, <1>14,
     <1>15, <1>16, <1>17, <1>18, <1>19, <1>20, <1>21, <1>22, <1>23, <1>24 DEF Next, Handler

LEMMA Invariant == Spec => []IInv
<1>1. IInv /\ [Next]_vars => IInv'
  BY TypedStep, SoundStep DEF IInv
<1> QED
  BY InitIInv, <1>1, PTL DEF Spec

\* Every variable keeps its type.
THEOREM TypeCorrect == Spec => []TypeOK
<1>1. IInv => TypeOK
  BY DEF IInv
<1> QED
  BY Invariant, <1>1, PTL

\* A mail the upstream MTA may forget is with the downstream MTA or held in the
\* store, whatever failed or crashed.
THEOREM NothingIsLost == Spec => []AcceptedIsKept
<1>1. IInv => AcceptedIsKept
  BY DEF IInv, Sound, Settled, AcceptedIsKept
<1> QED
  BY Invariant, <1>1, PTL

\* A transmission that has begun is the last one or an earlier one.
LEMMA Begun ==
    ASSUME IInv, NEW m \in Mails, NEW j \in 1..MaxAttempts,
           LeftBehind(<<m, j>>) \/ answer[<<m, j>>] # "none"
    PROVE  j <= tries[m]
<1> DEFINE x == <<m, j>>
<1>1. x \in Messages /\ x[1] = m /\ x[2] = j
  BY DEF Messages
<1>2. Sound(x) /\ tries[m] \in Nat
  BY <1>1, GatewayAssumption DEF IInv, TypeOK
<1> QED
  BY <1>1, <1>2, GatewayAssumption DEF Sound, Untouched, LeftBehind

\* Whatever is left of a mail that was bounced is left of a transmission before
\* the one that was rejected, whose answer did not come or whose hand-over was
\* accepted without the gateway knowing.
THEOREM BouncesAreFinal == Spec => []BouncedIsGone
<1>1. ASSUME IInv PROVE BouncedIsGone
  <2> SUFFICES ASSUME NEW m \in Mails, NEW j \in 1..MaxAttempts, NEW k \in 1..MaxAttempts,
                      answer[<<m, k>>] = "550", LeftBehind(<<m, j>>)
               PROVE  j < k /\ (Unanswered(<<m, j>>) \/ Unclear(<<m, j>>))
    BY DEF BouncedIsGone
  <2> DEFINE x == <<m, j>>
             y == <<m, k>>
  <2>1. x \in Messages /\ y \in Messages /\ x[1] = m /\ x[2] = j /\ y[1] = m /\ y[2] = k
    BY DEF Messages
  <2>2. Settled(x) /\ Settled(y) /\ TypeOK
    BY <1>1, <2>1 DEF IInv, Sound
  <2>3. tries[m] = k /\ queue[m] = "bounced"
    BY <2>1, <2>2 DEF Settled
  <2>4. j <= k
    BY <1>1, <2>3, Begun
  <2>5. j # k
    BY <2>2 DEF Settled, LeftBehind
  <2>6. answer[x] \in {"none", "lost", "250", "451", "550"}
    BY <2>1, <2>2 DEF TypeOK
  <2>7. answer[x] # "250" /\ answer[x] # "550"
    BY <2>1, <2>2, <2>3, <2>5 DEF Settled
  <2>8. answer[x] = "451" => Unclear(x)
    BY <2>2 DEF Settled, LeftBehind, Unclear
  <2> QED
    BY <2>4, <2>5, <2>6, <2>7, <2>8 DEF Unanswered
<1> QED
  BY Invariant, <1>1, PTL

\* Nothing is sent that did not pass the transform pipeline.
THEOREM SentIsClean == Spec => []OnlyCleanIsSent
<1>1. IInv => OnlyCleanIsSent
  BY DEF IInv, Sound, Settled, OnlyCleanIsSent
<1> QED
  BY Invariant, <1>1, PTL

\* The status and the request to release a mail never contradict what happened.
THEOREM RowsTellTheTruth == Spec => []RowTellsTheTruth
<1>1. ASSUME IInv PROVE RowTellsTheTruth
  <2> SUFFICES ASSUME NEW x \in Messages
               PROVE  /\ row[x] = "delivered" => sure[x]
                      /\ row[x] \in {RowOf[a] : a \in HoldActions} \/ record[x]
                            => raw[x] /\ ~sent[x]
                      /\ row[x] = "rejected" => ~sent[x] /\ answer[x] # "250"
    BY DEF RowTellsTheTruth
  <2>1. Sound(x)
    BY <1>1 DEF IInv
  <2>2. {RowOf[a] : a \in HoldActions} = {"quarantined", "approval_pending", "delayed"}
    BY DEF RowOf, HoldActions, Actions
  <2>3. row[x] = "rejected" => answer[x] # "250"
    BY <2>1 DEF Sound, Settled, HoldActions
  <2> QED
    BY <2>1, <2>2, <2>3 DEF Sound, Settled
<1> QED
  BY Invariant, <1>1, PTL

\* A mail is handed over twice only if the gateway did not know of the first
\* hand-over, or could not answer.
THEOREM DuplicatesHaveCause == Spec => []DuplicateHasCause
<1>1. ASSUME IInv PROVE DuplicateHasCause
  <2> SUFFICES ASSUME NEW m \in Mails, NEW j \in 1..MaxAttempts, NEW k \in 1..MaxAttempts,
                      j < k, sent[<<m, j>>], sent[<<m, k>>], sure[<<m, j>>],
                      answer[<<m, j>>] \notin {"none", "lost"}
               PROVE  FALSE
    BY DEF DuplicateHasCause, Unclear, Unanswered
  <2> DEFINE x == <<m, j>>
             y == <<m, k>>
  <2>1. x \in Messages /\ y \in Messages /\ x[1] = m /\ x[2] = j /\ y[1] = m /\ y[2] = k
    BY DEF Messages
  <2>2. Sound(x) /\ Sound(y) /\ TypeOK
    BY <1>1, <2>1 DEF IInv
  <2>3. answer[x] \in {"250", "550", "451"}
    BY <2>1, <2>2 DEF TypeOK
  <2>4. answer[x] = "250"
    BY <2>1, <2>2, <2>3 DEF Sound, Settled
  <2>5. tries[m] = j
    BY <2>1, <2>2, <2>4 DEF Sound, Settled
  <2>6. k <= tries[m]
    BY <1>1, Begun DEF LeftBehind
  <2> QED
    BY <2>5, <2>6
<1> QED
  BY Invariant, <1>1, PTL

=============================================================================
