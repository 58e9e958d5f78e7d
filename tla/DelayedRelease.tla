--------------------------- MODULE DelayedRelease ---------------------------
(***************************************************************************)
(* Release of delayed mail by the api-server: the delay worker of every    *)
(* replica, and the send-now and cancel requests of users, compete for the *)
(* rows of delayed_releases.  A row is claimed by a conditional UPDATE     *)
(* (status = 'pending'), the mail is handed to the downstream MTA, and a   *)
(* failed hand-over gives the row back.                                    *)
(*                                                                         *)
(* One process is one goroutine: a worker of a replica or a request.  Each *)
(* call to the database, the object store or the MTA is one action, so any *)
(* two processes interleave between calls.  A call may fail; a claim may   *)
(* take effect although its answer is lost; the MTA may accept a mail      *)
(* although the client reports an error (reinject.Send returns the error   *)
(* of QUIT, and the reply to DATA may be lost).                            *)
(***************************************************************************)
EXTENDS Naturals

CONSTANTS
    Releases,    \* rows of delayed_releases, each with its mail_messages row
    Replicas,    \* api-server replicas, each runs one RunReleaser loop
    Users,       \* user requests that may be in progress at the same time
    MayAct,      \* <<user, release>> pairs that pass the permission check
    NoRelease,   \* a process works on no release
    MaxCopies,   \* bound: an unclear hand-over happens below this many copies
    MaxCrashes   \* bound: process crashes

ASSUME DelayAssumption ==
    /\ Replicas \cap Users = {}
    /\ MayAct \subseteq Users \X Releases
    /\ NoRelease \notin Releases
    /\ MaxCopies \in Nat
    /\ MaxCrashes \in Nat

VARIABLES
    row,       \* delayed_releases.status
    mail,      \* mail_messages.status
    archived,  \* mail_messages.processed_eml_path is set
    due,       \* release_at has passed
    at,        \* where each process is
    rel,       \* the release it works on
    todo,      \* what is left of the list a worker read from the database
    body,      \* the EML a process has loaded
    crashes,   \* crashes so far
    (* history *)
    copies,    \* copies the downstream MTA accepted
    confirmed, \* copies whose acceptance the sender saw
    bodies,    \* which EML those copies carried
    lost,      \* a claim of this row ended without sending or giving back
    answered   \* <<release, answer>> of requests answered with 200

dbVars == <<row, mail>>
envVars == <<archived, due>>
procVars == <<at, rel, todo, body>>
historyVars == <<copies, confirmed, bodies, lost, answered>>
vars == <<dbVars, envVars, procVars, crashes, historyVars>>

Procs == Replicas \cup Users
RowStatus == {"pending", "released", "cancelled"}
MailStatus == {"delayed", "delivered", "rejected"}
Eml == {"raw", "processed"}
Steps == {"idle", "cycle", "claim", "load", "send", "record", "rollback",
          "cancel", "recordCancel"}

TypeOK ==
    /\ row \in [Releases -> RowStatus]
    /\ mail \in [Releases -> MailStatus]
    /\ archived \in [Releases -> BOOLEAN]
    /\ due \in [Releases -> BOOLEAN]
    /\ at \in [Procs -> Steps]
    /\ rel \in [Procs -> Releases \cup {NoRelease}]
    /\ todo \in [Procs -> SUBSET Releases]
    /\ body \in [Procs -> Eml]
    /\ crashes \in 0..MaxCrashes
    /\ copies \in [Releases -> Nat]
    /\ confirmed \in [Releases -> Nat]
    /\ bodies \in [Releases -> SUBSET Eml]
    /\ lost \in [Releases -> BOOLEAN]
    /\ answered \subseteq Releases \X {"sent", "cancelled"}

Init ==
    /\ row = [i \in Releases |-> "pending"]
    /\ mail = [i \in Releases |-> "delayed"]
    /\ archived = [i \in Releases |-> FALSE]
    /\ due = [i \in Releases |-> FALSE]
    /\ at = [p \in Procs |-> "idle"]
    /\ rel = [p \in Procs |-> NoRelease]
    /\ todo = [p \in Procs |-> {}]
    /\ body = [p \in Procs |-> "raw"]
    /\ crashes = 0
    /\ copies = [i \in Releases |-> 0]
    /\ confirmed = [i \in Releases |-> 0]
    /\ bodies = [i \in Releases |-> {}]
    /\ lost = [i \in Releases |-> FALSE]
    /\ answered = {}

-----------------------------------------------------------------------------
(* Control of a process.                                                   *)

\* The call succeeded: go on with the next call on the same release.
Goto(p, step) ==
    /\ at' = [at EXCEPT ![p] = step]
    /\ UNCHANGED <<rel, todo, body>>

\* Mutant: the worker's loop ends with the first release instead of going on.
Return_LoopEnds(p) ==
    /\ at' = [at EXCEPT ![p] = IF p \in Replicas THEN "stopped" ELSE "idle"]
    /\ rel' = [rel EXCEPT ![p] = NoRelease]
    /\ UNCHANGED <<todo, body>>

\* Release or Cancel returned: a worker takes the next row of its list, a
\* request is answered.
Return(p) ==
    /\ at' = [at EXCEPT ![p] = IF p \in Replicas THEN "cycle" ELSE "idle"]
    /\ rel' = [rel EXCEPT ![p] = NoRelease]
    /\ UNCHANGED <<todo, body>>

\* A request is answered 200 (and the audit event of that name is written).
Answer(p, text) ==
    answered' = IF p \in Users THEN answered \cup {<<rel[p], text>>} ELSE answered

-----------------------------------------------------------------------------
(* Mutants: plausible bugs, each breaks one of the properties below.       *)

\* The claim is a plain UPDATE ... WHERE id = ?.
ClaimWon_NoCAS(p) ==
    /\ at[p] = "claim"
    /\ row' = [row EXCEPT ![rel[p]] = "released"]
    /\ Goto(p, "load")
    /\ UNCHANGED <<mail, envVars, crashes, historyVars>>

\* RowsAffected is not looked at: the loser of the claim sends as well.
ClaimLost_GoesOn(p) ==
    /\ at[p] = "claim"
    /\ row[rel[p]] # "pending"
    /\ Goto(p, "load")
    /\ UNCHANGED <<dbVars, envVars, crashes, historyVars>>

\* The error path after GetEML forgets the rollback.
LoadFails_NoRollback(p) ==
    /\ at[p] = "load"
    /\ Return(p)
    /\ UNCHANGED <<dbVars, envVars, crashes, historyVars>>

\* The mail is marked delivered before it is handed over.
Load_RecordsEarly(p) ==
    /\ at[p] = "load"
    /\ body' = [body EXCEPT ![p] = IF archived[rel[p]] THEN "processed" ELSE "raw"]
    /\ at' = [at EXCEPT ![p] = "send"]
    /\ mail' = [mail EXCEPT ![rel[p]] = "delivered"]
    /\ UNCHANGED <<row, rel, todo, envVars, crashes, historyVars>>

\* A failed status update is treated like a failed hand-over.
Record_RollsBack(p) ==
    /\ at[p] = "record"
    /\ Goto(p, "rollback")
    /\ UNCHANGED <<dbVars, envVars, crashes, historyVars>>

\* Cancel overwrites whatever status the row has.
CancelWon_NoCAS(p) ==
    /\ at[p] = "cancel"
    /\ row' = [row EXCEPT ![rel[p]] = "cancelled"]
    /\ Goto(p, "recordCancel")
    /\ UNCHANGED <<mail, envVars, crashes, historyVars>>

-----------------------------------------------------------------------------
(* The worker of a replica: RunReleaser and releaseDue.                    *)

\* ListDueDelayedReleases: the rows that are pending and due at this moment.
ListDue(p) ==
    /\ p \in Replicas
    /\ at[p] = "idle"
    /\ todo' = [todo EXCEPT ![p] = {i \in Releases : row[i] = "pending" /\ due[i]}]
    /\ at' = [at EXCEPT ![p] = "cycle"]
    /\ UNCHANGED <<rel, body, dbVars, envVars, crashes, historyVars>>

\* The next row of the list; by now another process may have decided it.
StartRelease(p, i) ==
    /\ at[p] = "cycle"
    /\ i \in todo[p]
    /\ at' = [at EXCEPT ![p] = "claim"]
    /\ rel' = [rel EXCEPT ![p] = i]
    /\ todo' = [todo EXCEPT ![p] = @ \ {i}]
    /\ UNCHANGED <<body, dbVars, envVars, crashes, historyVars>>

EndCycle(p) ==
    /\ at[p] = "cycle"
    /\ todo[p] = {}
    /\ Goto(p, "idle")
    /\ UNCHANGED <<dbVars, envVars, crashes, historyVars>>

-----------------------------------------------------------------------------
(* Requests: DelayHandler.decide up to the call of the service.  Requests  *)
(* that find the row decided (409) or may not act on it (403) change       *)
(* nothing.                                                                *)

OpenRequest(u, i, step) ==
    /\ u \in Users
    /\ at[u] = "idle"
    /\ row[i] = "pending"
    /\ <<u, i>> \in MayAct
    /\ at' = [at EXCEPT ![u] = step]
    /\ rel' = [rel EXCEPT ![u] = i]
    /\ UNCHANGED <<todo, body, dbVars, envVars, crashes, historyVars>>

SendNow(u, i) == OpenRequest(u, i, "claim")
RequestCancel(u, i) == OpenRequest(u, i, "cancel")

-----------------------------------------------------------------------------
(* Service.Release.                                                        *)

ClaimWon(p) ==
    /\ at[p] = "claim"
    /\ row[rel[p]] = "pending"
    /\ row' = [row EXCEPT ![rel[p]] = "released"]
    /\ Goto(p, "load")
    /\ UNCHANGED <<mail, envVars, crashes, historyVars>>

\* Another process decided the row: Release returns nil and decide answers 200.
ClaimLost(p) ==
    /\ at[p] = "claim"
    /\ row[rel[p]] # "pending"
    /\ Return(p)
    /\ Answer(p, "sent")
    /\ UNCHANGED <<dbVars, envVars, crashes, copies, confirmed, bodies, lost>>

\* GetDelayedRelease or the UPDATE returned an error.  The UPDATE may have
\* been applied: then nobody will send the mail and nobody gives the row back.
ClaimFails(p) ==
    /\ at[p] = "claim"
    /\ \/ UNCHANGED <<row, lost>>
       \/ /\ row[rel[p]] = "pending"
          /\ row' = [row EXCEPT ![rel[p]] = "released"]
          /\ lost' = [lost EXCEPT ![rel[p]] = TRUE]
    /\ Return(p)
    /\ UNCHANGED <<mail, envVars, crashes, copies, confirmed, bodies, answered>>

\* GetMessage and GetEML: the processed EML if its path is recorded by now,
\* else the original.
Load(p) ==
    /\ at[p] = "load"
    /\ body' = [body EXCEPT ![p] = IF archived[rel[p]] THEN "processed" ELSE "raw"]
    /\ at' = [at EXCEPT ![p] = "send"]
    /\ UNCHANGED <<rel, todo, dbVars, envVars, crashes, historyVars>>

LoadFails(p) ==
    /\ at[p] = "load"
    /\ Goto(p, "rollback")
    /\ UNCHANGED <<dbVars, envVars, crashes, historyVars>>

\* One more copy of the mail is with the downstream MTA.
Copied(p) ==
    /\ copies' = [copies EXCEPT ![rel[p]] = @ + 1]
    /\ bodies' = [bodies EXCEPT ![rel[p]] = @ \cup {body[p]}]

SendAccepted(p) ==
    /\ at[p] = "send"
    /\ Copied(p)
    /\ confirmed' = [confirmed EXCEPT ![rel[p]] = @ + 1]
    /\ Goto(p, "record")
    /\ UNCHANGED <<dbVars, envVars, crashes, lost, answered>>

SendRefused(p) ==
    /\ at[p] = "send"
    /\ Goto(p, "rollback")
    /\ UNCHANGED <<dbVars, envVars, crashes, historyVars>>

\* The MTA has the mail, yet Send returns an error.
SendUnclear(p) ==
    /\ at[p] = "send"
    /\ copies[rel[p]] < MaxCopies
    /\ Copied(p)
    /\ Goto(p, "rollback")
    /\ UNCHANGED <<dbVars, envVars, crashes, confirmed, lost, answered>>

\* UpdateMessageStatus(delivered); its failure is only logged.
Record(p) ==
    /\ at[p] = "record"
    /\ \/ mail' = [mail EXCEPT ![rel[p]] = "delivered"]
       \/ UNCHANGED mail
    /\ Return(p)
    /\ Answer(p, "sent")
    /\ UNCHANGED <<row, envVars, crashes, copies, confirmed, bodies, lost>>

\* UpdateDelayedReleaseStatus(pending), unconditional.
Rollback(p) ==
    /\ at[p] = "rollback"
    /\ row' = [row EXCEPT ![rel[p]] = "pending"]
    /\ Return(p)
    /\ UNCHANGED <<mail, envVars, crashes, historyVars>>

RollbackFails(p) ==
    /\ at[p] = "rollback"
    /\ lost' = [lost EXCEPT ![rel[p]] = TRUE]
    /\ Return(p)
    /\ UNCHANGED <<dbVars, envVars, crashes, copies, confirmed, bodies, answered>>

-----------------------------------------------------------------------------
(* Service.Cancel.                                                         *)

CancelWon(p) ==
    /\ at[p] = "cancel"
    /\ row[rel[p]] = "pending"
    /\ row' = [row EXCEPT ![rel[p]] = "cancelled"]
    /\ Goto(p, "recordCancel")
    /\ UNCHANGED <<mail, envVars, crashes, historyVars>>

\* Answered 409.
CancelLost(p) ==
    /\ at[p] = "cancel"
    /\ row[rel[p]] # "pending"
    /\ Return(p)
    /\ UNCHANGED <<dbVars, envVars, crashes, historyVars>>

CancelFails(p) ==
    /\ at[p] = "cancel"
    /\ \/ UNCHANGED row
       \/ row[rel[p]] = "pending" /\ row' = [row EXCEPT ![rel[p]] = "cancelled"]
    /\ Return(p)
    /\ UNCHANGED <<mail, envVars, crashes, historyVars>>

\* GetDelayedRelease and UpdateMessageStatus(rejected); failures are logged.
RecordCancel(p) ==
    /\ at[p] = "recordCancel"
    /\ \/ mail' = [mail EXCEPT ![rel[p]] = "rejected"]
       \/ UNCHANGED mail
    /\ Return(p)
    /\ Answer(p, "cancelled")
    /\ UNCHANGED <<row, envVars, crashes, copies, confirmed, bodies, lost>>

-----------------------------------------------------------------------------
(* The environment.                                                        *)

\* Steps at which a process holds a claimed row it has not handed over.
Holding == {"load", "send", "rollback"}
Holds(p, i) == at[p] \in Holding /\ rel[p] = i

\* The process ends: the replica crashes or restarts, or the request's
\* goroutine dies.  Nothing is cleaned up and no row is given back.
Crash(p) ==
    /\ at[p] # "idle"
    /\ crashes < MaxCrashes
    /\ crashes' = crashes + 1
    /\ at' = [at EXCEPT ![p] = "idle"]
    /\ rel' = [rel EXCEPT ![p] = NoRelease]
    /\ todo' = [todo EXCEPT ![p] = {}]
    /\ lost' = IF at[p] \in Holding THEN [lost EXCEPT ![rel[p]] = TRUE] ELSE lost
    /\ UNCHANGED <<body, dbVars, envVars, copies, confirmed, bodies, answered>>

\* The gateway's archiveAsync records the processed EML; it may never do so.
Archive(i) ==
    /\ ~archived[i]
    /\ archived' = [archived EXCEPT ![i] = TRUE]
    /\ UNCHANGED <<due, dbVars, procVars, crashes, historyVars>>

BecomeDue(i) ==
    /\ ~due[i]
    /\ due' = [due EXCEPT ![i] = TRUE]
    /\ UNCHANGED <<archived, dbVars, procVars, crashes, historyVars>>

-----------------------------------------------------------------------------
\* The steps a process takes by itself.
Work(p) ==
    \/ ListDue(p) \/ EndCycle(p)
    \/ \E i \in Releases : StartRelease(p, i)
    \/ ClaimWon(p) \/ ClaimLost(p) \/ ClaimFails(p)
    \/ Load(p) \/ LoadFails(p)
    \/ SendAccepted(p) \/ SendRefused(p) \/ SendUnclear(p)
    \/ Record(p) \/ Rollback(p) \/ RollbackFails(p)
    \/ CancelWon(p) \/ CancelLost(p) \/ CancelFails(p) \/ RecordCancel(p)

Next ==
    \/ \E p \in Procs : Work(p) \/ Crash(p)
    \/ \E u \in Users, i \in Releases : SendNow(u, i) \/ RequestCancel(u, i)
    \/ \E i \in Releases : Archive(i) \/ BecomeDue(i)

Spec == Init /\ [][Next]_vars

-----------------------------------------------------------------------------
(* Properties.                                                             *)

\* At most one hand-over per release is ever seen as successful, and after it
\* the row stays released: the claim (CAS) and the rollback of the loser of an
\* SMTP error never reopen a row somebody has delivered.
AtMostOneConfirmed ==
    \A i \in Releases :
        /\ confirmed[i] <= 1
        /\ confirmed[i] = 1 => row[i] = "released"

\* No two processes hold the same claimed row, a row that is held is
\* 'released', and no row is held after a confirmed hand-over.
ClaimIsExclusive ==
    \A p \in Procs, i \in Releases :
        Holds(p, i) =>
            /\ row[i] = "released"
            /\ confirmed[i] = 0
            /\ \A q \in Procs : Holds(q, i) => q = p

\* A released row whose hand-over nobody saw succeed is either in the hands of
\* a process or was lost by an event that is on record: a crash, a failed
\* rollback, a claim without an answer.  No interleaving strands a mail.
NoSilentLoss ==
    \A i \in Releases :
        row[i] = "released" /\ confirmed[i] = 0
            => lost[i] \/ \E p \in Procs : Holds(p, i)

\* What the mail list, the answers and the row say agrees with what happened:
\* a mail is shown as delivered only after a confirmed hand-over; shown as
\* rejected, or reported as cancelled, only if the row is cancelled for good.
StatusTellsTheTruth ==
    \A i \in Releases :
        /\ mail[i] = "delivered" => confirmed[i] = 1
        /\ mail[i] = "rejected" => row[i] = "cancelled"
        /\ <<i, "cancelled">> \in answered => row[i] = "cancelled"

\* Cancelling and delivering exclude each other over time: once a row is
\* cancelled, or a hand-over confirmed, no step sends another copy.
SettledIsFinal ==
    [][\A i \in Releases :
        row[i] = "cancelled" \/ confirmed[i] = 1
            => copies'[i] = copies[i] /\ row'[i] = row[i]]_vars

\* A release that comes before the gateway has archived the processed EML takes
\* the original (delay/service.go Release).  When a hand-over is repeated, the
\* copies never go back: whoever is about to send a mail of which a processed
\* copy has gone out sends the processed EML, though it loaded it earlier.
OriginalComesFirst ==
    \A p \in Procs, i \in Releases :
        Holds(p, i) /\ at[p] = "send" /\ "processed" \in bodies[i] => body[p] = "processed"

-----------------------------------------------------------------------------
(* What the release of one row promises: HeldMail.                         *)

heldState == [i \in Releases |->
    CASE row[i] = "pending" -> "held"
      [] row[i] = "cancelled" -> "dropped"
      [] OTHER ->
            IF confirmed[i] > 0 THEN "delivered"
            ELSE IF \E p \in Procs : Holds(p, i) /\ at[p] = "rollback" THEN "failing"
            ELSE IF \E p \in Procs : Holds(p, i) THEN "taken"
            ELSE "stranded"]

Held == INSTANCE HeldMail WITH Items <- Releases, state <- heldState

Promise == Held!Spec
=============================================================================
