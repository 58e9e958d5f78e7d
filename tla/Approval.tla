------------------------------ MODULE Approval ------------------------------
(***************************************************************************)
(* Decision of approval requests by the api-server: approvers approve or   *)
(* reject, one request or a list of them, while the expiry worker of every *)
(* replica expires what is overdue.  A request row is claimed by a         *)
(* conditional UPDATE (status = 'pending'); an approved mail is marked     *)
(* delivered, then handed to the downstream MTA; when that fails, first    *)
(* the mail's status and then the request are set back.                    *)
(*                                                                         *)
(* One process is one goroutine, one action one call; calls fail and       *)
(* answers get lost as in DelayedRelease.                                  *)
(***************************************************************************)
EXTENDS Naturals

CONSTANTS
    Requests,    \* rows of approval_requests, each with its mail_messages row
    Approvers,   \* decide / bulkDecide calls that may be in progress together
    Workers,     \* RunExpiryWorker loops, one per replica
    MayDecide,   \* <<approver, request>> pairs that canActOn accepts
    NoRequest,   \* a process works on no request
    MaxCopies,   \* bound: an unclear hand-over happens below this many copies
    MaxCrashes   \* bound: process crashes

ASSUME ApprovalAssumption ==
    /\ Approvers \cap Workers = {}
    /\ MayDecide \subseteq Approvers \X Requests
    /\ NoRequest \notin Requests
    /\ MaxCopies \in Nat
    /\ MaxCrashes \in Nat

VARIABLES
    req,       \* approval_requests.status
    mail,      \* mail_messages.status
    overdue,   \* expires_at has passed
    at,        \* where each process is
    cur,       \* the request it works on
    todo,      \* the requests it has yet to work on
    decision,  \* the status an approver decides on
    crashes,   \* crashes so far
    (* history *)
    copies,    \* copies the downstream MTA accepted
    confirmed, \* copies whose acceptance the sender saw
    lost,      \* an approval ended without sending or giving back
    misled,    \* a mail status was not set back, or not recorded
    succeeded  \* <<request, decision>> reported as done

procVars == <<at, cur, todo, decision>>
historyVars == <<copies, confirmed, lost, misled, succeeded>>
vars == <<req, mail, overdue, procVars, crashes, historyVars>>

Procs == Approvers \cup Workers
RequestStatus == {"pending", "approved", "rejected", "expired"}
Decisions == {"approved", "rejected"}
Steps == {"idle", "next", "claim", "load", "mark", "send", "restore", "rollback"}

TypeOK ==
    /\ req \in [Requests -> RequestStatus]
    /\ mail \in [Requests -> {"approval_pending", "delivered", "expired"}]
    /\ overdue \in [Requests -> BOOLEAN]
    /\ at \in [Procs -> Steps]
    /\ cur \in [Procs -> Requests \cup {NoRequest}]
    /\ todo \in [Procs -> SUBSET Requests]
    /\ decision \in [Procs -> Decisions]
    /\ crashes \in 0..MaxCrashes
    /\ copies \in [Requests -> Nat]
    /\ confirmed \in [Requests -> Nat]
    /\ lost \in [Requests -> BOOLEAN]
    /\ misled \in [Requests -> BOOLEAN]
    /\ succeeded \subseteq Requests \X Decisions

Init ==
    /\ req = [i \in Requests |-> "pending"]
    /\ mail = [i \in Requests |-> "approval_pending"]
    /\ overdue = [i \in Requests |-> FALSE]
    /\ at = [p \in Procs |-> "idle"]
    /\ cur = [p \in Procs |-> NoRequest]
    /\ todo = [p \in Procs |-> {}]
    /\ decision = [p \in Procs |-> "approved"]
    /\ crashes = 0
    /\ copies = [i \in Requests |-> 0]
    /\ confirmed = [i \in Requests |-> 0]
    /\ lost = [i \in Requests |-> FALSE]
    /\ misled = [i \in Requests |-> FALSE]
    /\ succeeded = {}

-----------------------------------------------------------------------------
(* Control of a process.                                                   *)

Goto(p, step) ==
    /\ at' = [at EXCEPT ![p] = step]
    /\ UNCHANGED <<cur, todo, decision>>

\* applyDecision returned: bulkDecide goes on with the next id.
Return(p) ==
    /\ at' = [at EXCEPT ![p] = "next"]
    /\ cur' = [cur EXCEPT ![p] = NoRequest]
    /\ UNCHANGED <<todo, decision>>

Report(p) == succeeded' = succeeded \cup {<<cur[p], decision[p]>>}

Mislead(i) == misled' = [misled EXCEPT ![i] = TRUE]

-----------------------------------------------------------------------------
(* Mutants: plausible bugs, each breaks one of the properties below.       *)

\* The decision is written whatever the status of the request.
ClaimWon_NoCAS(p) ==
    /\ at[p] = "claim"
    /\ req' = [req EXCEPT ![cur[p]] = decision[p]]
    /\ IF decision[p] = "approved"
         THEN Goto(p, "load") /\ UNCHANGED succeeded
         ELSE Return(p) /\ Report(p)
    /\ UNCHANGED <<mail, overdue, crashes, copies, confirmed, lost, misled>>

\* A rejected request goes on to the delivery as well.
ClaimWon_AlwaysDelivers(p) ==
    /\ at[p] = "claim"
    /\ req[cur[p]] = "pending"
    /\ req' = [req EXCEPT ![cur[p]] = decision[p]]
    /\ Goto(p, "load")
    /\ UNCHANGED <<mail, overdue, crashes, historyVars>>

\* A failed GetEML returns at once.
LoadFails_NoRollback(p) ==
    /\ at[p] = "load"
    /\ Return(p)
    /\ UNCHANGED <<req, mail, overdue, crashes, historyVars>>

\* A failed hand-over gives back the request, not the mail's status.
Restore_Forgotten(p) ==
    /\ at[p] = "restore"
    /\ Goto(p, "rollback")
    /\ UNCHANGED <<req, mail, overdue, crashes, historyVars>>

\* The overdue requests are read without a lock and with no look at their
\* status when they are updated.
Expire_AnyStatus(w) ==
    /\ w \in Workers
    /\ at[w] = "idle"
    /\ LET late == {i \in Requests : overdue[i] /\ req[i] # "expired"} IN
        /\ late # {}
        /\ req' = [i \in Requests |-> IF i \in late THEN "expired" ELSE req[i]]
        /\ todo' = [todo EXCEPT ![w] = late]
    /\ at' = [at EXCEPT ![w] = "next"]
    /\ UNCHANGED <<mail, overdue, cur, decision, crashes, historyVars>>

\* The worker looks for requests that are not yet overdue (comparison reversed).
Expire_NotYetDue(w) ==
    /\ w \in Workers
    /\ at[w] = "idle"
    /\ LET late == {i \in Requests : req[i] = "pending" /\ ~overdue[i]} IN
        /\ late # {}
        /\ req' = [i \in Requests |-> IF i \in late THEN "expired" ELSE req[i]]
        /\ todo' = [todo EXCEPT ![w] = late]
    /\ at' = [at EXCEPT ![w] = "next"]
    /\ UNCHANGED <<mail, overdue, cur, decision, crashes, historyVars>>

-----------------------------------------------------------------------------
(* Approvers: decide, bulkDecide and applyDecision.                        *)

\* A request with one id (decide) or a list of ids (bulkDecide).
Open(p, ids, d) ==
    /\ p \in Approvers
    /\ at[p] = "idle"
    /\ ids # {}
    /\ todo' = [todo EXCEPT ![p] = ids]
    /\ decision' = [decision EXCEPT ![p] = d]
    /\ at' = [at EXCEPT ![p] = "next"]
    /\ UNCHANGED <<req, mail, overdue, cur, crashes, historyVars>>

\* The next id: GetApprovalRequest and canActOn.  A request that is decided,
\* that the approver may not decide, or that cannot be read is reported as
\* failed.
Check(p, i) ==
    /\ p \in Approvers
    /\ at[p] = "next"
    /\ i \in todo[p]
    /\ todo' = [todo EXCEPT ![p] = @ \ {i}]
    /\ \/ /\ req[i] = "pending" /\ <<p, i>> \in MayDecide
          /\ at' = [at EXCEPT ![p] = "claim"]
          /\ cur' = [cur EXCEPT ![p] = i]
       \/ UNCHANGED <<at, cur>>
    /\ UNCHANGED <<req, mail, overdue, decision, crashes, historyVars>>

\* The list is done: the caller gets its answer, the worker waits for a tick.
Finish(p) ==
    /\ at[p] = "next"
    /\ todo[p] = {}
    /\ Goto(p, "idle")
    /\ UNCHANGED <<req, mail, overdue, crashes, historyVars>>

\* ClaimApprovalRequest.  A rejection is complete with the claim: the status
\* of the mail is left alone.
ClaimWon(p) ==
    /\ at[p] = "claim"
    /\ req[cur[p]] = "pending"
    /\ req' = [req EXCEPT ![cur[p]] = decision[p]]
    /\ IF decision[p] = "approved"
         THEN Goto(p, "load") /\ UNCHANGED succeeded
         ELSE Return(p) /\ Report(p)
    /\ UNCHANGED <<mail, overdue, crashes, copies, confirmed, lost, misled>>

ClaimLost(p) ==
    /\ at[p] = "claim"
    /\ req[cur[p]] # "pending"
    /\ Return(p)
    /\ UNCHANGED <<req, mail, overdue, crashes, historyVars>>

\* The UPDATE returns an error, and may have been applied.
ClaimFails(p) ==
    /\ at[p] = "claim"
    /\ \/ UNCHANGED <<req, lost>>
       \/ /\ req[cur[p]] = "pending"
          /\ req' = [req EXCEPT ![cur[p]] = decision[p]]
          /\ lost' = IF decision[p] = "approved" THEN [lost EXCEPT ![cur[p]] = TRUE]
                                                 ELSE lost
    /\ Return(p)
    /\ UNCHANGED <<mail, overdue, crashes, copies, confirmed, misled, succeeded>>

\* GetMessage and GetEML.
Load(p) ==
    /\ at[p] = "load"
    /\ Goto(p, "mark")
    /\ UNCHANGED <<req, mail, overdue, crashes, historyVars>>

LoadFails(p) ==
    /\ at[p] = "load"
    /\ Goto(p, "rollback")
    /\ UNCHANGED <<req, mail, overdue, crashes, historyVars>>

\* UpdateMessageStatus(delivered), before the mail is handed over.
MarkDelivered(p) ==
    /\ at[p] = "mark"
    /\ mail' = [mail EXCEPT ![cur[p]] = "delivered"]
    /\ Goto(p, "send")
    /\ UNCHANGED <<req, overdue, crashes, historyVars>>

\* It returns an error, and may have been applied: nobody sets it back.
MarkFails(p) ==
    /\ at[p] = "mark"
    /\ \/ UNCHANGED <<mail, misled>>
       \/ mail' = [mail EXCEPT ![cur[p]] = "delivered"] /\ Mislead(cur[p])
    /\ Goto(p, "rollback")
    /\ UNCHANGED <<req, overdue, crashes, copies, confirmed, lost, succeeded>>

SendAccepted(p) ==
    /\ at[p] = "send"
    /\ copies' = [copies EXCEPT ![cur[p]] = @ + 1]
    /\ confirmed' = [confirmed EXCEPT ![cur[p]] = @ + 1]
    /\ Return(p)
    /\ Report(p)
    /\ UNCHANGED <<req, mail, overdue, crashes, lost, misled>>

\* Send returns an error; the MTA may have accepted the mail all the same.
SendFails(p) ==
    /\ at[p] = "send"
    /\ \/ UNCHANGED copies
       \/ copies[cur[p]] < MaxCopies /\ copies' = [copies EXCEPT ![cur[p]] = @ + 1]
    /\ Goto(p, "restore")
    /\ UNCHANGED <<req, mail, overdue, crashes, confirmed, lost, misled, succeeded>>

\* UpdateMessageStatus(approval_pending), its error is dropped.
Restore(p) ==
    /\ at[p] = "restore"
    /\ \/ mail' = [mail EXCEPT ![cur[p]] = "approval_pending"] /\ UNCHANGED misled
       \/ UNCHANGED mail /\ Mislead(cur[p])
    /\ Goto(p, "rollback")
    /\ UNCHANGED <<req, overdue, crashes, copies, confirmed, lost, succeeded>>

\* UpdateApprovalStatus(pending), unconditional.
Rollback(p) ==
    /\ at[p] = "rollback"
    /\ req' = [req EXCEPT ![cur[p]] = "pending"]
    /\ Return(p)
    /\ UNCHANGED <<mail, overdue, crashes, historyVars>>

RollbackFails(p) ==
    /\ at[p] = "rollback"
    /\ lost' = [lost EXCEPT ![cur[p]] = TRUE]
    /\ Return(p)
    /\ UNCHANGED <<req, mail, overdue, crashes, copies, confirmed, misled, succeeded>>

-----------------------------------------------------------------------------
(* The expiry worker: expireApprovals.                                     *)

\* ExpireApprovals, one transaction: the overdue rows are locked, then updated.
Expire(w) ==
    /\ w \in Workers
    /\ at[w] = "idle"
    /\ LET late == {i \in Requests : req[i] = "pending" /\ overdue[i]} IN
        /\ late # {}
        /\ req' = [i \in Requests |-> IF i \in late THEN "expired" ELSE req[i]]
        /\ \/ /\ todo' = [todo EXCEPT ![w] = late]     \* its answer arrives
              /\ at' = [at EXCEPT ![w] = "next"]
              /\ UNCHANGED misled
           \/ /\ misled' = [i \in Requests |-> i \in late \/ misled[i]]
              /\ UNCHANGED <<todo, at>>                \* COMMIT returns an error
    /\ UNCHANGED <<mail, overdue, cur, decision, crashes, copies, confirmed, lost, succeeded>>

\* UpdateMessageStatus(expired) for one of them; a failure is only logged.
RecordExpired(w, i) ==
    /\ w \in Workers
    /\ at[w] = "next"
    /\ i \in todo[w]
    /\ todo' = [todo EXCEPT ![w] = @ \ {i}]
    /\ \/ mail' = [mail EXCEPT ![i] = "expired"] /\ UNCHANGED misled
       \/ UNCHANGED mail /\ Mislead(i)
    /\ UNCHANGED <<req, overdue, at, cur, decision, crashes, copies, confirmed, lost, succeeded>>

-----------------------------------------------------------------------------
(* The environment.                                                        *)

Holding == {"load", "mark", "send", "restore", "rollback"}
Holds(p, i) == at[p] \in Holding /\ cur[p] = i

Crash(p) ==
    /\ at[p] # "idle"
    /\ crashes < MaxCrashes
    /\ crashes' = crashes + 1
    /\ at' = [at EXCEPT ![p] = "idle"]
    /\ cur' = [cur EXCEPT ![p] = NoRequest]
    /\ todo' = [todo EXCEPT ![p] = {}]
    /\ lost' = IF at[p] \in Holding THEN [lost EXCEPT ![cur[p]] = TRUE] ELSE lost
    /\ misled' = [i \in Requests |-> misled[i] \/ (p \in Workers /\ i \in todo[p])]
    /\ UNCHANGED <<req, mail, overdue, decision, copies, confirmed, succeeded>>

BecomeOverdue(i) ==
    /\ ~overdue[i]
    /\ overdue' = [overdue EXCEPT ![i] = TRUE]
    /\ UNCHANGED <<req, mail, procVars, crashes, historyVars>>

-----------------------------------------------------------------------------
\* The steps a process takes by itself.
Work(p) ==
    \/ \E i \in Requests : Check(p, i) \/ RecordExpired(p, i)
    \/ Finish(p)
    \/ ClaimWon(p) \/ ClaimLost(p) \/ ClaimFails(p)
    \/ Load(p) \/ LoadFails(p)
    \/ MarkDelivered(p) \/ MarkFails(p)
    \/ SendAccepted(p) \/ SendFails(p)
    \/ Restore(p) \/ Rollback(p) \/ RollbackFails(p)
    \/ Expire(p)

Next ==
    \/ \E p \in Procs : Work(p) \/ Crash(p)
    \/ \E p \in Approvers, ids \in SUBSET Requests, d \in Decisions : Open(p, ids, d)
    \/ \E i \in Requests : BecomeOverdue(i)

Spec == Init /\ [][Next]_vars

\* Time passes, the ticker of an expiry worker keeps ticking, and the database
\* answers it.  Nothing is assumed of the approvers: the hand-over of one that
\* approves may never return, as its connection has no deadline.
Fairness ==
    /\ \A i \in Requests : WF_vars(BecomeOverdue(i))
    /\ \A w \in Workers : WF_vars(Work(w)) /\ SF_vars(Expire(w))

FairSpec == Spec /\ Fairness

-----------------------------------------------------------------------------
(* Properties.                                                             *)

\* A decision stands: once a request is rejected or expired, or its delivery
\* is confirmed, no step changes it and none sends a copy, whatever
\* approvers, rollbacks and expiry workers were under way at that moment.
DecisionStands ==
    [][\A i \in Requests :
        req[i] \in {"rejected", "expired"} \/ confirmed[i] > 0
            => req'[i] = req[i] /\ copies'[i] = copies[i]]_vars

\* Two approvers never both report success with different decisions, an
\* approval reported as done was confirmed by the MTA, exactly once.
OneDecision ==
    \A i \in Requests :
        /\ confirmed[i] <= 1
        /\ <<i, "approved">> \in succeeded =>
                confirmed[i] = 1 /\ req[i] = "approved"
        /\ <<i, "rejected">> \in succeeded =>
                confirmed[i] = 0 /\ req[i] = "rejected"

\* An approved request is delivered, in the hands of an approver, or lost by
\* an event on record (crash, failed rollback, claim without an answer).
NoSilentLoss ==
    \A i \in Requests :
        req[i] = "approved" /\ confirmed[i] = 0
            => lost[i] \/ \E p \in Approvers : Holds(p, i)

\* The mail list agrees with the requests: "delivered" is shown only for what
\* is confirmed or being handed over, "expired" only for an expired request
\* (never for an approved one), unless a status update failed on record.
MailStatusAgrees ==
    \A i \in Requests :
        /\ mail[i] = "delivered" /\ ~misled[i] /\ ~lost[i]
               => confirmed[i] = 1 \/ \E p \in Approvers : Holds(p, i)
        /\ mail[i] = "expired" => req[i] = "expired" /\ confirmed[i] = 0
        /\ req[i] = "expired" /\ ~misled[i]
               => mail[i] = "expired" \/ \E w \in Workers : i \in todo[w]

\* No request stays pending, or comes back as pending, for ever: from some
\* time on it is decided or expired, however often its delivery fails.
EventuallyDecided ==
    \A i \in Requests : <>[](req[i] # "pending")

-----------------------------------------------------------------------------
(* What the release of one mail promises: HeldMail.                        *)

heldState == [i \in Requests |->
    CASE req[i] = "pending" -> "held"
      [] req[i] \in {"rejected", "expired"} -> "dropped"
      [] OTHER ->
            IF confirmed[i] > 0 THEN "delivered"
            ELSE IF \E p \in Approvers : Holds(p, i) /\ at[p] \in {"restore", "rollback"}
                 THEN "failing"
            ELSE IF \E p \in Approvers : Holds(p, i) THEN "taken"
            ELSE "stranded"]

Held == INSTANCE HeldMail WITH Items <- Requests, state <- heldState

Promise == Held!Spec
=============================================================================
