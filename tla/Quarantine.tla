----------------------------- MODULE Quarantine -----------------------------
(***************************************************************************)
(* Release and deletion of quarantined mail by requests to the api-server. *)
(* Unlike the other two ways of holding mail there is no claim: a request  *)
(* reads the mail if its status is 'quarantined' (GetQuarantine), and only *)
(* later sets the status with an UPDATE that does not look at it again.    *)
(*                                                                         *)
(* One process is one request, one action one call.  A list of ids         *)
(* (HandleBulkRelease) is worked through like as many single requests.     *)
(***************************************************************************)
EXTENDS Naturals

CONSTANTS
    Mails,       \* rows of mail_messages, quarantined by the gateway
    Requests,    \* requests that may be in progress at the same time
    MayRelease,  \* <<request, mail>> pairs that pass the permission check
    NoMail,      \* a request works on no mail
    MaxCopies,   \* bound: a hand-over happens below this many copies
    MaxCrashes   \* bound: requests that die (crash, restart)

ASSUME QuarantineAssumption ==
    /\ MayRelease \subseteq Requests \X Mails
    /\ NoMail \notin Mails
    /\ MaxCopies \in Nat
    /\ MaxCrashes \in Nat

VARIABLES
    status,    \* mail_messages.status
    archived,  \* mail_messages.processed_eml_path is set
    at,        \* where each request is
    cur,       \* the mail it works on
    todo,      \* the mails it has yet to work on
    crashes,
    (* history *)
    copies,    \* copies the downstream MTA accepted
    confirmed, \* copies whose acceptance the sender saw
    overlapped,\* two requests had the mail in hand at the same time
    lost       \* a release ended without sending or setting the status back

procVars == <<at, cur, todo>>
historyVars == <<copies, confirmed, overlapped, lost>>
vars == <<status, archived, procVars, crashes, historyVars>>

Statuses == {"quarantined", "delivered", "rejected"}
Steps == {"idle", "next", "update", "load", "send", "rollback", "delete"}

TypeOK ==
    /\ status \in [Mails -> Statuses]
    /\ archived \in [Mails -> BOOLEAN]
    /\ at \in [Requests -> Steps]
    /\ cur \in [Requests -> Mails \cup {NoMail}]
    /\ todo \in [Requests -> SUBSET Mails]
    /\ crashes \in 0..MaxCrashes
    /\ copies \in [Mails -> Nat]
    /\ confirmed \in [Mails -> Nat]
    /\ overlapped \in [Mails -> BOOLEAN]
    /\ lost \in [Mails -> BOOLEAN]

Init ==
    /\ status = [m \in Mails |-> "quarantined"]
    /\ archived = [m \in Mails |-> FALSE]
    /\ at = [p \in Requests |-> "idle"]
    /\ cur = [p \in Requests |-> NoMail]
    /\ todo = [p \in Requests |-> {}]
    /\ crashes = 0
    /\ copies = [m \in Mails |-> 0]
    /\ confirmed = [m \in Mails |-> 0]
    /\ overlapped = [m \in Mails |-> FALSE]
    /\ lost = [m \in Mails |-> FALSE]

-----------------------------------------------------------------------------
(* Control of a request.                                                   *)

Goto(p, step) ==
    /\ at' = [at EXCEPT ![p] = step]
    /\ UNCHANGED <<cur, todo>>

\* The mail is done with: the next id of the list, or the answer.
Return(p) ==
    /\ at' = [at EXCEPT ![p] = "next"]
    /\ cur' = [cur EXCEPT ![p] = NoMail]
    /\ UNCHANGED todo

\* A request that has read the mail as quarantined and not finished with it.
InHand(p, m) == cur[p] = m

\* Request p takes mail m in hand to go on at step.
TakeInHand(p, m, step) ==
    /\ at' = [at EXCEPT ![p] = step]
    /\ cur' = [cur EXCEPT ![p] = m]
    /\ overlapped' = [overlapped EXCEPT ![m] =
                        @ \/ \E q \in Requests \ {p} : InHand(q, m)]

-----------------------------------------------------------------------------
(* Mutants: plausible bugs, each breaks one of the properties below.       *)

\* Any mail can be released, whatever its status.
CheckRelease_AnyStatus(p, m) ==
    /\ at[p] = "next"
    /\ m \in todo[p]
    /\ todo' = [todo EXCEPT ![p] = @ \ {m}]
    /\ archived[m]
    /\ TakeInHand(p, m, "update")
    /\ UNCHANGED <<status, archived, crashes, copies, confirmed, lost>>

\* The bulk deletion updates every id of the list.
BulkDelete_AnyStatus(ms) ==
    /\ ms # {}
    /\ status' = [m \in Mails |-> IF m \in ms THEN "rejected" ELSE status[m]]
    /\ UNCHANGED <<archived, procVars, crashes, historyVars>>

-----------------------------------------------------------------------------
(* HandleRelease and HandleBulkRelease.                                    *)

Open(p, ms) ==
    /\ at[p] = "idle"
    /\ ms # {}
    /\ todo' = [todo EXCEPT ![p] = ms]
    /\ at' = [at EXCEPT ![p] = "next"]
    /\ UNCHANGED <<status, archived, cur, crashes, historyVars>>

\* GetQuarantine, canRelease and the look at ProcessedEMLPath.
CheckRelease(p, m) ==
    /\ at[p] = "next"
    /\ m \in todo[p]
    /\ todo' = [todo EXCEPT ![p] = @ \ {m}]
    /\ status[m] = "quarantined"
    /\ <<p, m>> \in MayRelease
    /\ archived[m]
    /\ TakeInHand(p, m, "update")
    /\ UNCHANGED <<status, archived, crashes, copies, confirmed, lost>>

\* 404, 403, 409 NOT_READY, or the database does not answer.
Refuse(p, m) ==
    /\ at[p] = "next"
    /\ m \in todo[p]
    /\ todo' = [todo EXCEPT ![p] = @ \ {m}]
    /\ UNCHANGED <<status, archived, at, cur, crashes, historyVars>>

\* UpdateMessageStatus(delivered), unconditional.
MarkDelivered(p) ==
    /\ at[p] = "update"
    /\ status' = [status EXCEPT ![cur[p]] = "delivered"]
    /\ Goto(p, "load")
    /\ UNCHANGED <<archived, crashes, historyVars>>

\* It returns an error, and may have been applied.
MarkFails(p) ==
    /\ at[p] = "update"
    /\ \/ UNCHANGED <<status, lost>>
       \/ /\ status' = [status EXCEPT ![cur[p]] = "delivered"]
          /\ lost' = [lost EXCEPT ![cur[p]] = TRUE]
    /\ Return(p)
    /\ UNCHANGED <<archived, crashes, copies, confirmed, overlapped>>

Load(p) ==
    /\ at[p] = "load"
    /\ Goto(p, "send")
    /\ UNCHANGED <<status, archived, crashes, historyVars>>

LoadFails(p) ==
    /\ at[p] = "load"
    /\ Goto(p, "rollback")
    /\ UNCHANGED <<status, archived, crashes, historyVars>>

SendAccepted(p) ==
    /\ at[p] = "send"
    /\ copies[cur[p]] < MaxCopies
    /\ copies' = [copies EXCEPT ![cur[p]] = @ + 1]
    /\ confirmed' = [confirmed EXCEPT ![cur[p]] = @ + 1]
    /\ Return(p)
    /\ UNCHANGED <<status, archived, crashes, overlapped, lost>>

\* reinject returns an error; the MTA may have accepted the mail all the same.
SendFails(p) ==
    /\ at[p] = "send"
    /\ \/ UNCHANGED copies
       \/ copies[cur[p]] < MaxCopies /\ copies' = [copies EXCEPT ![cur[p]] = @ + 1]
    /\ Goto(p, "rollback")
    /\ UNCHANGED <<status, archived, crashes, confirmed, overlapped, lost>>

\* rollbackToQuarantined, unconditional; on an error it only logs.
Rollback(p) ==
    /\ at[p] = "rollback"
    /\ status' = [status EXCEPT ![cur[p]] = "quarantined"]
    /\ Return(p)
    /\ UNCHANGED <<archived, crashes, historyVars>>

RollbackFails(p) ==
    /\ at[p] = "rollback"
    /\ lost' = [lost EXCEPT ![cur[p]] = TRUE]
    /\ Return(p)
    /\ UNCHANGED <<status, archived, crashes, copies, confirmed, overlapped>>

Finish(p) ==
    /\ at[p] = "next"
    /\ todo[p] = {}
    /\ Goto(p, "idle")
    /\ UNCHANGED <<status, archived, crashes, historyVars>>

-----------------------------------------------------------------------------
(* HandleDelete and HandleBulkDelete.                                      *)

\* GetQuarantine.
CheckDelete(p, m) ==
    /\ at[p] = "idle"
    /\ status[m] = "quarantined"
    /\ TakeInHand(p, m, "delete")
    /\ UNCHANGED <<status, archived, todo, crashes, copies, confirmed, lost>>

\* UpdateMessageStatus(rejected), unconditional.
Delete(p) ==
    /\ at[p] = "delete"
    /\ status' = [status EXCEPT ![cur[p]] = "rejected"]
    /\ Return(p)
    /\ UNCHANGED <<archived, crashes, historyVars>>

DeleteFails(p) ==
    /\ at[p] = "delete"
    /\ \/ UNCHANGED status
       \/ status' = [status EXCEPT ![cur[p]] = "rejected"]
    /\ Return(p)
    /\ UNCHANGED <<archived, crashes, historyVars>>

\* BulkUpdateMessageStatus: one UPDATE of the rows that are quarantined; the
\* answer lists every id of the request as succeeded.
BulkDelete(ms) ==
    /\ ms # {}
    /\ status' = [m \in Mails |->
            IF m \in ms /\ status[m] = "quarantined" THEN "rejected" ELSE status[m]]
    /\ UNCHANGED <<archived, procVars, crashes, historyVars>>

-----------------------------------------------------------------------------
(* The environment.                                                        *)

\* Steps of a release that has set the status and not handed the mail over.
Releasing(p, m) == cur[p] = m /\ at[p] \in {"load", "send", "rollback"}

Crash(p) ==
    /\ at[p] # "idle"
    /\ crashes < MaxCrashes
    /\ crashes' = crashes + 1
    /\ at' = [at EXCEPT ![p] = "idle"]
    /\ cur' = [cur EXCEPT ![p] = NoMail]
    /\ todo' = [todo EXCEPT ![p] = {}]
    /\ lost' = [m \in Mails |-> lost[m] \/ Releasing(p, m)]
    /\ UNCHANGED <<status, archived, copies, confirmed, overlapped>>

\* The gateway's archiveAsync records the processed EML.
Archive(m) ==
    /\ ~archived[m]
    /\ archived' = [archived EXCEPT ![m] = TRUE]
    /\ UNCHANGED <<status, procVars, crashes, historyVars>>

-----------------------------------------------------------------------------
Next ==
    \/ \E p \in Requests, ms \in SUBSET Mails : Open(p, ms)
    \/ \E p \in Requests, m \in Mails : CheckRelease(p, m) \/ Refuse(p, m) \/ CheckDelete(p, m)
    \/ \E p \in Requests :
        \/ MarkDelivered(p) \/ MarkFails(p) \/ Load(p) \/ LoadFails(p)
        \/ SendAccepted(p) \/ SendFails(p) \/ Rollback(p) \/ RollbackFails(p)
        \/ Finish(p) \/ Delete(p) \/ DeleteFails(p) \/ Crash(p)
    \/ \E ms \in SUBSET Mails : BulkDelete(ms)
    \/ \E m \in Mails : Archive(m)

Spec == Init /\ [][Next]_vars

-----------------------------------------------------------------------------
(* Properties.                                                             *)

\* What checking first and updating later does achieve: as long as no two
\* requests had the same mail in hand at once (and no update failed halfway),
\* a mail is confirmed at most once, and its status says what became of it --
\* delivered only when confirmed or being handed over, rejected never after a
\* delivery.  So overlapping requests are the only way to a double delivery.
OneAtATimeIsSafe ==
    \A m \in Mails :
        ~overlapped[m] =>
            /\ confirmed[m] <= 1
            /\ status[m] = "rejected" => confirmed[m] = 0
            /\ status[m] = "delivered" /\ ~lost[m]
                  => confirmed[m] = 1 \/ \E p \in Requests : Releasing(p, m)

\* The bulk deletion, a conditional UPDATE, does not disturb a release: while
\* a request is handing a mail over and nobody else has it in hand, the mail
\* stays delivered until that request itself ends.
ReleaseIsNotDisturbed ==
    \A m \in Mails, p \in Requests :
        Releasing(p, m) /\ ~overlapped[m] => status[m] = "delivered"

-----------------------------------------------------------------------------
(* What the release of held mail promises: HeldMail.                       *)

heldState == [m \in Mails |->
    CASE confirmed[m] > 0 -> "delivered"
      [] confirmed[m] = 0 /\ status[m] = "quarantined" -> "held"
      [] confirmed[m] = 0 /\ status[m] = "rejected" -> "dropped"
      [] OTHER ->
            IF \E p \in Requests : InHand(p, m) /\ at[p] \in {"load", "send"} THEN "taken"
            ELSE IF \E p \in Requests : InHand(p, m) /\ at[p] = "rollback" THEN "failing"
            ELSE "stranded"]

Held == INSTANCE HeldMail WITH Items <- Mails, state <- heldState

\* The two ways in which a release loses its mail to somebody else: two requests
\* have it in hand, or a bulk deletion rejects it between the look at its status
\* and the update, which then writes over the rejection.
Undisturbed ==
    \A m \in Mails :
        /\ ~overlapped[m]
        /\ (\E p \in Requests : InHand(p, m) /\ at[p] = "update") => status[m] = "quarantined"

\* Without a claim the handlers keep the promise of the other two ways of
\* holding mail as long as nobody disturbs them so: every step is a step of
\* HeldMail (handler/quarantine.go HandleRelease, HandleBulkRelease, HandleDelete,
\* HandleBulkDelete).
HeldAsPromised == [][Undisturbed /\ Undisturbed' => [Held!Next]_(Held!vars)]_vars

-----------------------------------------------------------------------------
(* What the repository's documents say and the code does not keep.         *)

\* "A second release request finds no quarantined mail and gets 404": a mail
\* is delivered by at most one release.
NoDoubleRelease == \A m \in Mails : confirmed[m] <= 1

=============================================================================
