----------------------------- MODULE HandleMail -----------------------------
(***************************************************************************)
(* One smtp-gateway between the upstream MTA, which owns the only durable  *)
(* queue, and the downstream MTA.  Every DATA starts a handler that works  *)
(* on a message with a fresh id: it stores the original, inspects,         *)
(* transforms, decides, delivers or holds the mail, and only then answers. *)
(* The answer decides whether the MTA forgets the mail (250), bounces it   *)
(* (550) or sends it again (451, or no answer at all).                     *)
(*                                                                         *)
(* A blocking call is one action, and may fail: the database, the store or *)
(* the MTA refuses, or the handler's context has expired, which only makes *)
(* one failure after the other likely.  The archive of the processed EML   *)
(* is a goroutine of its own.  The process may crash, or be stopped by a   *)
(* signal.                                                                 *)
(***************************************************************************)
EXTENDS Naturals

CONSTANTS
    Mails,         \* mails in the queue of the upstream MTA
    MaxAttempts,   \* bound: transmissions of one mail
    MaxCrashes     \* bound: crashes and stops of the gateway

ASSUME GatewayAssumption ==
    /\ MaxAttempts \in Nat \ {0}
    /\ MaxCrashes \in Nat

VARIABLES
    queue,    \* what the upstream MTA does with each mail
    tries,    \* transmissions started
    mode,     \* the gateway's process
    stops,    \* crashes and stops so far
    at,       \* where the handler of each message is
    action,   \* what is to be done with the message
    clean,    \* the transform pipeline succeeded on it
    raw,      \* its original EML is stored
    row,      \* mail_messages.status
    record,   \* its row in approval_requests or delayed_releases exists
    archive,  \* its archive goroutine and processed_eml_path
    sent,     \* the downstream MTA accepted it from the gateway
    sure,     \* ... and the gateway knows
    answer    \* what the upstream MTA was told of it

upstreamVars == <<queue, tries>>
processVars == <<mode, stops>>
controlVars == <<at, action, clean>>
storedVars == <<raw, row, record, archive>>
outVars == <<sent, sure>>
vars == <<upstreamVars, processVars, controlVars, storedVars, outVars, answer>>

\* The k-th transmission of a mail gets a message id of its own.
Messages == Mails \X (1..MaxAttempts)

HoldActions == {"quarantine", "approval", "delay"}
Actions == HoldActions \cup {"deliver", "reject"}
RowOf == [a \in Actions |->
    CASE a = "deliver" -> "delivered"
      [] a = "reject" -> "rejected"
      [] a = "quarantine" -> "quarantined"
      [] a = "approval" -> "approval_pending"
      [] a = "delay" -> "delayed"]
Status == {RowOf[a] : a \in Actions}

TypeOK ==
    /\ queue \in [Mails -> {"queued", "waiting", "accepted", "bounced"}]
    /\ tries \in [Mails -> 0..MaxAttempts]
    /\ mode \in {"up", "closing", "draining", "leaving", "down"}
    /\ stops \in 0..MaxCrashes
    /\ at \in [Messages -> {"none", "saveRaw", "saveRow", "transform",
                            "evaluate", "deliver", "setStatus", "hold", "answer"}]
    /\ action \in [Messages -> Actions \cup {"none"}]
    /\ clean \in [Messages -> BOOLEAN]
    /\ raw \in [Messages -> BOOLEAN]
    /\ row \in [Messages -> Status \cup {"none", "received"}]
    /\ record \in [Messages -> BOOLEAN]
    /\ archive \in [Messages -> {"none", "running", "recorded", "failed", "killed"}]
    /\ sent \in [Messages -> BOOLEAN]
    /\ sure \in [Messages -> BOOLEAN]
    /\ answer \in [Messages -> {"none", "lost", "250", "451", "550"}]

Init ==
    /\ queue = [m \in Mails |-> "queued"]
    /\ tries = [m \in Mails |-> 0]
    /\ mode = "up"
    /\ stops = 0
    /\ at = [x \in Messages |-> "none"]
    /\ action = [x \in Messages |-> "none"]
    /\ clean = [x \in Messages |-> FALSE]
    /\ raw = [x \in Messages |-> FALSE]
    /\ row = [x \in Messages |-> "none"]
    /\ record = [x \in Messages |-> FALSE]
    /\ archive = [x \in Messages |-> "none"]
    /\ sent = [x \in Messages |-> FALSE]
    /\ sure = [x \in Messages |-> FALSE]
    /\ answer = [x \in Messages |-> "none"]

-----------------------------------------------------------------------------
(* Control.                                                                *)

Step(x, from, to) == at[x] = from /\ at' = [at EXCEPT ![x] = to]

\* The upstream MTA still waits for the answer to this transmission.
Listening(x) == queue[x[1]] = "waiting" /\ tries[x[1]] = x[2]

\* HandleMail returns and Data answers, if anybody still listens.
Answer(x, code) ==
    IF Listening(x)
    THEN /\ answer' = [answer EXCEPT ![x] = code]
         /\ queue' = [queue EXCEPT ![x[1]] =
                CASE code = "250" -> "accepted"
                  [] code = "550" -> "bounced"
                  [] code = "451" -> "queued"]
    ELSE /\ answer' = [answer EXCEPT ![x] = "lost"]
         /\ UNCHANGED queue

\* The handler ends at this step with this answer.
Finish(x, from, code) ==
    /\ Step(x, from, "none")
    /\ Answer(x, code)
    /\ UNCHANGED <<tries, processVars, action, clean, storedVars>>

-----------------------------------------------------------------------------
(* Mutants: plausible bugs, each breaks one of the properties below.       *)

\* A failed store of the original is logged, as the other failures are.
SaveRawFails_GoesOn(x) ==
    /\ Step(x, "saveRaw", "saveRow")
    /\ UNCHANGED <<upstreamVars, processVars, action, clean, storedVars, outVars, answer>>

\* A failed transformation is logged and the original goes to the policy.
TransformFails_GoesOn(x) ==
    /\ Step(x, "transform", "evaluate")
    /\ UNCHANGED <<upstreamVars, processVars, action, clean, storedVars, outVars, answer>>

\* An error of the hand-over is answered as a permanent one.
DeliverUnclear_Bounces(x) ==
    /\ Finish(x, "deliver", "550")
    /\ sent' = [sent EXCEPT ![x] = TRUE]
    /\ UNCHANGED sure

\* The status is recorded as soon as the policy has decided.
Evaluate_RecordsEarly(x) ==
    \E a \in Actions :
        /\ Step(x, "evaluate", IF a = "deliver" THEN "deliver" ELSE "setStatus")
        /\ action' = [action EXCEPT ![x] = a]
        /\ row' = [row EXCEPT ![x] = IF @ = "none" THEN @ ELSE RowOf[a]]
        /\ UNCHANGED <<upstreamVars, processVars, clean, raw, record, archive,
                       outVars, answer>>

\* An archive goroutine that gives up returns without archiveWg.Done().
Archive_NoDone(x) ==
    /\ archive[x] = "running"
    /\ row[x] # "none"
    /\ archive' = [archive EXCEPT ![x] = "recorded"]
    /\ UNCHANGED <<upstreamVars, processVars, controlVars, raw, row, record, outVars, answer>>

\* A failed status update makes the handler return the error.
SetStatus_ReturnsError(x) ==
    /\ Finish(x, "setStatus", "451")
    /\ UNCHANGED outVars

-----------------------------------------------------------------------------
(* The handler: Data and HandleMail.                                       *)

\* The upstream MTA sends the mail.
Transmit(m) ==
    /\ mode = "up"
    /\ queue[m] = "queued"
    /\ tries[m] < MaxAttempts
    /\ tries' = [tries EXCEPT ![m] = @ + 1]

\* [1/7] A route matches ...
Data(m) ==
    /\ Transmit(m)
    /\ queue' = [queue EXCEPT ![m] = "waiting"]
    /\ Step(<<m, tries[m] + 1>>, "none", "saveRaw")
    /\ UNCHANGED <<processVars, action, clean, storedVars, outVars, answer>>

\* ... or none does (also: the mail is larger than max_message_size, 552).
NoRoute(m) ==
    /\ Transmit(m)
    /\ queue' = [queue EXCEPT ![m] = "bounced"]
    /\ answer' = [answer EXCEPT ![<<m, tries[m] + 1>>] = "550"]
    /\ UNCHANGED <<processVars, controlVars, storedVars, outVars>>

\* [2/7] The original is stored, in a context of its own.
SaveRaw(x) ==
    /\ Step(x, "saveRaw", "saveRow")
    /\ raw' = [raw EXCEPT ![x] = TRUE]
    /\ UNCHANGED <<upstreamVars, processVars, action, clean, row, record, archive,
                   outVars, answer>>

SaveRawFails(x) == Finish(x, "saveRaw", "451") /\ UNCHANGED outVars

\* [3/7] SaveMessage, in a context of its own; its failure is only logged.
SaveRow(x) ==
    /\ Step(x, "saveRow", "transform")
    /\ \/ row' = [row EXCEPT ![x] = "received"]
       \/ UNCHANGED row
    /\ UNCHANGED <<upstreamVars, processVars, action, clean, raw, record, archive,
                   outVars, answer>>

\* [5/7], [6/7] The inspection takes time and never fails; the transformation
\* succeeds ...
Transform(x) ==
    /\ Step(x, "transform", "evaluate")
    /\ clean' = [clean EXCEPT ![x] = TRUE]
    /\ UNCHANGED <<upstreamVars, processVars, action, storedVars, outVars, answer>>

\* ... or one worker fails (or panics): the original is quarantined.
TransformFails(x) ==
    /\ Step(x, "transform", "setStatus")
    /\ action' = [action EXCEPT ![x] = "quarantine"]
    /\ UNCHANGED <<upstreamVars, processVars, clean, storedVars, outVars, answer>>

\* [7/7] The policy decides (redirect is a deliver to other addresses) ...
Evaluate(x) ==
    \E a \in Actions :
        /\ Step(x, "evaluate", IF a = "deliver" THEN "deliver" ELSE "setStatus")
        /\ action' = [action EXCEPT ![x] = a]
        /\ UNCHANGED <<upstreamVars, processVars, clean, storedVars, outVars, answer>>

\* ... or no rule matches.
NoRule(x) == Finish(x, "evaluate", "550") /\ UNCHANGED outVars

Deliver(x) ==
    /\ Step(x, "deliver", "setStatus")
    /\ sent' = [sent EXCEPT ![x] = TRUE]
    /\ sure' = [sure EXCEPT ![x] = TRUE]
    /\ UNCHANGED <<upstreamVars, processVars, action, clean, storedVars, answer>>

DeliverFails(x) == Finish(x, "deliver", "451") /\ UNCHANGED outVars

\* The reply to DATA is lost, or QUIT fails other than by a closed connection.
DeliverUnclear(x) ==
    /\ Finish(x, "deliver", "451")
    /\ sent' = [sent EXCEPT ![x] = TRUE]
    /\ UNCHANGED sure

\* UpdateMessageStatus, whose failure is only logged and which finds no row if
\* SaveMessage failed; then the archive goroutine is started.
SetStatus(x) ==
    /\ Step(x, "setStatus", IF action[x] \in {"approval", "delay"} THEN "hold" ELSE "answer")
    /\ \/ /\ row[x] # "none"
          /\ row' = [row EXCEPT ![x] = RowOf[action[x]]]
       \/ UNCHANGED row
    /\ archive' = [archive EXCEPT ![x] = IF action[x] = "reject" THEN @ ELSE "running"]
    /\ UNCHANGED <<upstreamVars, processVars, action, clean, raw, record, outVars, answer>>

\* createApprovalRequest or SaveDelayedRelease: the row refers to the message's
\* row; a failure (or no approver) is only logged.
Hold(x) ==
    /\ Step(x, "hold", "answer")
    /\ \/ /\ row[x] # "none"
          /\ record' = [record EXCEPT ![x] = TRUE]
       \/ UNCHANGED record
    /\ UNCHANGED <<upstreamVars, processVars, action, clean, raw, row, archive,
                   outVars, answer>>

Reply(x) ==
    /\ Finish(x, "answer", IF action[x] = "reject" THEN "550" ELSE "250")
    /\ UNCHANGED outVars

\* archiveAsync, all its attempts: the object is stored and its path recorded in
\* the message's row, or not.
Archive(x) ==
    /\ archive[x] = "running"
    /\ \/ row[x] # "none" /\ archive' = [archive EXCEPT ![x] = "recorded"]
       \/ archive' = [archive EXCEPT ![x] = "failed"]
    /\ UNCHANGED <<upstreamVars, processVars, controlVars, raw, row, record, outVars, answer>>

-----------------------------------------------------------------------------
(* The network and the process.                                            *)

\* The upstream MTA loses the connection or its patience; the handler goes on.
Disconnect(m) ==
    /\ queue[m] = "waiting"
    /\ queue' = [queue EXCEPT ![m] = "queued"]
    /\ UNCHANGED <<tries, processVars, controlVars, storedVars, outVars, answer>>

Requeued == [m \in Mails |-> IF queue[m] = "waiting" THEN "queued" ELSE queue[m]]

\* Handlers and archive goroutines end with the process.
Die ==
    /\ mode' = "down"
    /\ at' = [x \in Messages |-> "none"]
    /\ archive' = [x \in Messages |-> IF archive[x] = "running" THEN "killed" ELSE archive[x]]
    /\ queue' = Requeued
    /\ UNCHANGED <<tries, action, clean, raw, row, record, outVars, answer>>

Crash ==
    /\ mode # "down"
    /\ stops < MaxCrashes
    /\ stops' = stops + 1
    /\ Die

\* A signal: GracefulClose stops the listener and closes the connections.
Shutdown ==
    /\ mode = "up"
    /\ stops < MaxCrashes
    /\ stops' = stops + 1
    /\ mode' = "closing"
    /\ queue' = Requeued
    /\ UNCHANGED <<tries, controlVars, storedVars, outVars, answer>>

\* No session is left, or shutdown_timeout_seconds have passed.
SessionsGone ==
    /\ mode = "closing"
    /\ mode' = "draining"
    /\ UNCHANGED <<upstreamVars, stops, controlVars, storedVars, outVars, answer>>

\* archiveWg.Wait() returns.
ArchivesDone ==
    /\ mode = "draining"
    /\ \A x \in Messages : archive[x] # "running"
    /\ mode' = "leaving"
    /\ UNCHANGED <<upstreamVars, stops, controlVars, storedVars, outVars, answer>>

\* The HTTP server is shut down and main returns; a handler that outlived the
\* waiting has gone on meanwhile.
Exit ==
    /\ mode = "leaving"
    /\ Die
    /\ UNCHANGED stops

Restart ==
    /\ mode = "down"
    /\ mode' = "up"
    /\ UNCHANGED <<upstreamVars, stops, controlVars, storedVars, outVars, answer>>

-----------------------------------------------------------------------------
Handler(x) ==
    \/ SaveRaw(x) \/ SaveRawFails(x) \/ SaveRow(x)
    \/ Transform(x) \/ TransformFails(x)
    \/ Evaluate(x) \/ NoRule(x)
    \/ Deliver(x) \/ DeliverFails(x) \/ DeliverUnclear(x)
    \/ SetStatus(x) \/ Hold(x) \/ Reply(x)

Next ==
    \/ \E m \in Mails : Data(m) \/ NoRoute(m) \/ Disconnect(m)
    \/ \E x \in Messages : Handler(x) \/ Archive(x)
    \/ Crash \/ Shutdown \/ SessionsGone \/ ArchivesDone \/ Exit \/ Restart

Spec == Init /\ [][Next]_vars

\* Every call has a timeout, so handlers, archives and the shutdown go on; the
\* supervisor restarts the gateway and the MTA retries.
Fairness ==
    /\ \A m \in Mails : WF_vars(Data(m))
    /\ \A x \in Messages : WF_vars(Handler(x)) /\ WF_vars(Archive(x))
    /\ WF_vars(SessionsGone) /\ WF_vars(ArchivesDone) /\ WF_vars(Exit) /\ WF_vars(Restart)

FairSpec == Spec /\ Fairness

-----------------------------------------------------------------------------
(* Properties.                                                             *)

\* "No mail is lost": when the upstream MTA forgets a mail, the downstream MTA
\* is known to have it, or its original is in the store and the gateway holds
\* it, whatever failed on the way.
AcceptedIsKept ==
    \A x \in Messages :
        answer[x] = "250" => \/ sure[x]
                             \/ raw[x] /\ action[x] \in HoldActions /\ ~sent[x]

\* Something of a transmission is left with the downstream MTA or the gateway.
LeftBehind(x) == sent[x] \/ record[x] \/ archive[x] # "none"

\* The upstream MTA has not learned how it ended, and may send the mail again.
Unanswered(x) == answer[x] \in {"none", "lost"}

\* The gateway does not know that its hand-over was accepted.
Unclear(x) == sent[x] /\ ~sure[x]

\* When the upstream MTA bounces a mail, the downstream MTA does not have it and
\* the gateway neither holds nor archives it, of whichever transmission; but for
\* an earlier one whose answer never came, or whose hand-over was accepted
\* without the gateway knowing: the mail was sent again, and rejected then
\* (server.go Data, main.go HandleMail).
BouncedIsGone ==
    \A m \in Mails : \A j, k \in 1..MaxAttempts :
        answer[<<m, k>>] = "550" /\ LeftBehind(<<m, j>>)
            => j < k /\ (Unanswered(<<m, j>>) \/ Unclear(<<m, j>>))

\* The gateway never sends a mail that did not pass the whole transform
\* pipeline.
OnlyCleanIsSent == \A x \in Messages : sent[x] => clean[x]

\* Two transmissions of one mail reach the downstream MTA only if the gateway
\* could not know that the first one did, or could not tell the upstream MTA.
DuplicateHasCause ==
    \A m \in Mails : \A j, k \in 1..MaxAttempts :
        j < k /\ sent[<<m, j>>] /\ sent[<<m, k>>]
            => Unclear(<<m, j>>) \/ Unanswered(<<m, j>>)

\* What the administrator sees is what happened: 'delivered' only after a known
\* hand-over; a status that holds the mail, and the row to release it later,
\* only for a mail that is stored and was not sent.
RowTellsTheTruth ==
    \A x \in Messages :
        /\ row[x] = "delivered" => sure[x]
        /\ row[x] \in {RowOf[a] : a \in HoldActions} \/ record[x] => raw[x] /\ ~sent[x]
        /\ row[x] = "rejected" => ~sent[x] /\ answer[x] # "250"

\* The gateway comes back after every stop, and no mail waits for ever for its
\* answer.
EventuallyServing ==
    /\ (mode # "up") ~> (mode = "up")
    /\ \A m \in Mails : (queue[m] = "waiting") ~> (queue[m] # "waiting")

=============================================================================
