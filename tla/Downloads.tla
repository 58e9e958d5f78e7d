------------------------------ MODULE Downloads ------------------------------
(***************************************************************************)
(* The attachment that was taken out of a mail, behind its download token. *)
(* Whoever has the token may read it (mode "simple"), or users with a role *)
(* in a mailbox the mail went to ("auth"), or recipients who prove with a  *)
(* one-time code that they read their mail, and whoever is logged in       *)
(* ("otp").  One file and one of its recipients; the requests and the      *)
(* store are those of Accounts.                                            *)
(*                                                                         *)
(* Redis counts an attempt, compares, deletes the code and then the count, *)
(* in four commands; MariaDB does all of it in one transaction, which      *)
(* begins with an update and so holds the row.                             *)
(***************************************************************************)
EXTENDS Accounts

CONSTANTS
    Readers,    \* users with an allowed role in a mailbox the mail went to
    MaxAttempts

ASSUME DownloadsAssumption ==
    /\ Readers \subseteq People
    /\ MaxAttempts \in Nat \ {0}

NoCode == [n |-> 0, live |-> FALSE]

DownloadsTypeOK ==
    /\ TypeOK
    /\ file \in [mode : {"simple", "auth", "otp"}, disabled : BOOLEAN, deleted : BOOLEAN]
    /\ code.n \in 0..requests /\ (code.live => code.n > 0)
    /\ tries \in 0..(MaxAttempts + 1)
    /\ visits \subseteq 1..requests

Init ==
    /\ AccountsInit
    /\ file \in [mode : {"simple", "auth", "otp"}, disabled : {FALSE}, deleted : {FALSE}]
    /\ code = NoCode
    /\ tries = 0
    /\ visits = {}
    /\ guesses = 0

\* Beyond the limit, one count is as good as another.
OneMore == IF tries > MaxAttempts THEN tries ELSE tries + 1

\* The count begins anew: what was counted in the old one is not in the new.
Recount(jobs) ==
    /\ tries' = 0
    /\ guesses' = 0
    /\ job' = [c \in Clients |->
            IF jobs[c].at = "compare" THEN [jobs[c] EXCEPT !.fresh = FALSE] ELSE jobs[c]]

-----------------------------------------------------------------------------
(* Mutants.                                                                *)

\* Sending the code once more gives new attempts.
GenerateCode_Recounts(c) ==
    /\ Request(c)
    /\ code' = [n |-> Number, live |-> TRUE]
    /\ tries' = 0
    /\ UNCHANGED <<accounts, file, visits, guesses, job, faults, history>>

\* The code stays, as if a comparison were all.
DropCode_Kept(c) ==
    /\ job[c].at = "dropCode"
    /\ Spend(job[c].n)
    /\ Set(c, [job[c] EXCEPT !.at = "dropCount"])
    /\ UNCHANGED <<accounts, file, code, tries, visits, guesses, bounds, raced, spared>>

-----------------------------------------------------------------------------
(* One-time codes.                                                         *)

\* HandleOTPRequest for a recipient of the mail, also when the file is disabled
\* or deleted; GenerateCode keeps the count.  The mail may fail, the code stays.
GenerateCode(c) ==
    /\ Request(c)
    /\ code' = [n |-> Number, live |-> TRUE]
    /\ UNCHANGED <<accounts, file, tries, visits, guesses, job, faults, history>>

\* HandleOTPVerify with a guess, right or wrong: RedisStore.Verify counts it,
CountAttempt(c, n) ==
    /\ store = "redis"
    /\ Request(c)
    /\ tries' = OneMore
    /\ Set(c, IF tries' > MaxAttempts THEN Idle
              ELSE [Idle EXCEPT !.at = "compare", !.id = Number, !.n = n, !.fresh = TRUE])
    /\ UNCHANGED <<accounts, file, code, visits, guesses, faults, history>>

\* compares it with the code that is there,
CompareCode(c) ==
    /\ job[c].at = "compare"
    /\ guesses' = IF code.live /\ job[c].fresh THEN guesses + 1 ELSE guesses
    /\ IF code.live /\ code.n = job[c].n THEN Set(c, [job[c] EXCEPT !.at = "dropCode"])
       ELSE Done(c)
    /\ UNCHANGED <<accounts, file, code, tries, visits, bounds, history>>

\* deletes the code, whichever is there by now, if the command succeeds,
DropCode(c) ==
    /\ job[c].at = "dropCode"
    /\ \/ code' = [code EXCEPT !.live = FALSE] /\ UNCHANGED faults
       \/ Fault /\ UNCHANGED code
    /\ spared' = IF code'.live \/ \E d \in Clients \ {c} :
                                    job[d].at = "dropCode" /\ job[d].n = job[c].n
                 THEN spared \cup {job[c].n} ELSE spared
    /\ Spend(job[c].n)
    /\ Set(c, [job[c] EXCEPT !.at = "dropCount"])
    /\ UNCHANGED <<accounts, file, tries, visits, guesses, requests, raced>>

\* and the count, if that succeeds,
DropCount(c) ==
    /\ job[c].at = "dropCount"
    /\ LET next == [job EXCEPT ![c].at = "visit"] IN
       \/ Recount(next) /\ UNCHANGED faults
       \/ Fault /\ job' = next /\ UNCHANGED <<tries, guesses>>
    /\ UNCHANGED <<accounts, file, code, visits, requests, history>>

\* and opens a session.
OpenVisit(c) ==
    /\ job[c].at = "visit"
    /\ visits' = visits \cup {job[c].id}
    /\ Done(c)
    /\ UNCHANGED <<accounts, file, code, tries, guesses, bounds, history>>

\* MariaDBStore.Verify: a row that has expired is none, its attempts remain; the
\* row that is deleted takes its attempts along.
Verify(c, n) ==
    /\ store = "mariadb"
    /\ Request(c)
    /\ IF ~code.live THEN UNCHANGED <<code, tries, visits, guesses, job, spent, twice>>
       ELSE IF OneMore > MaxAttempts
       THEN tries' = OneMore /\ UNCHANGED <<code, visits, guesses, job, spent, twice>>
       ELSE IF code.n # n
       THEN /\ tries' = OneMore
            /\ guesses' = guesses + 1
            /\ UNCHANGED <<code, visits, job, spent, twice>>
       ELSE /\ Recount(job)
            /\ code' = [code EXCEPT !.live = FALSE]
            /\ visits' = visits \cup {Number}
            /\ Spend(n)
    /\ UNCHANGED <<accounts, file, faults, raced, spared>>

\* Ten minutes pass: for the code, and in Redis for the count.
CodeExpires ==
    /\ code.live
    /\ Fault
    /\ code' = [code EXCEPT !.live = FALSE]
    /\ UNCHANGED <<accounts, file, tries, visits, guesses, job, requests, history>>

CountExpires ==
    /\ store = "redis"
    /\ tries > 0
    /\ Fault
    /\ Recount(job)
    /\ UNCHANGED <<accounts, file, code, visits, requests, history>>

-----------------------------------------------------------------------------
(* The file.                                                               *)

\* checkMailboxRole: a session of a user who was removed in the meantime is good,
\* while it lasts; a key has no mailboxes.
MailboxRole == \E s \in sessions : s.of \in Readers

\* Both read the row, check the reader, and only then open the file.
Open(c) ==
    /\ Request(c)
    /\ ~file.deleted /\ ~file.disabled
    /\ Set(c, [Idle EXCEPT !.at = "stream"])
    /\ UNCHANGED <<accounts, downloads, faults, history>>

\* Behind a login, which takes the place of a code.
Download(c) ==
    /\ Authorized(Roles)
    /\ file.mode = "auth" => MailboxRole
    /\ Open(c)

\* With the token alone, or a code.
PublicDownload(c) ==
    /\ file.mode # "auth"
    /\ file.mode = "otp" => visits # {}
    /\ Open(c)

\* What was let through is read from the archive, whatever the row says now.
Stream(c) ==
    /\ job[c].at = "stream"
    /\ Done(c)
    /\ UNCHANGED <<accounts, downloads, bounds, history>>

Disable(c, disabled) ==
    /\ Request(c)
    /\ Authorized({"operator", "admin"})
    /\ file' = [file EXCEPT !.disabled = disabled]
    /\ UNCHANGED <<accounts, code, tries, visits, guesses, job, faults, history>>

Delete(c) ==
    /\ Request(c)
    /\ Authorized({"operator", "admin"})
    /\ file' = [file EXCEPT !.deleted = TRUE]
    /\ UNCHANGED <<accounts, code, tries, visits, guesses, job, faults, history>>

-----------------------------------------------------------------------------
Next ==
    \/ AccountsNext
    \/ \E c \in Clients :
        \/ GenerateCode(c) \/ CompareCode(c) \/ DropCode(c) \/ DropCount(c) \/ OpenVisit(c)
        \/ Download(c) \/ PublicDownload(c) \/ Stream(c) \/ Delete(c)
        \/ \E disabled \in BOOLEAN : Disable(c, disabled)
        \/ \E n \in {0, code.n} : CountAttempt(c, n) \/ Verify(c, n)
    \/ CodeExpires
    \/ CountExpires

Spec == Init /\ [][Next]_vars

-----------------------------------------------------------------------------
(* Properties.                                                             *)

\* However often the code is sent again, and however the requests overlap, no
\* more than MaxAttempts guesses are compared with a code before the count
\* begins anew, by a success or its end (otp/store.go and mariadb_store.go
\* GenerateCode, Verify).
GuessesAreLimited == guesses <= MaxAttempts

\* A secret is used once.  A token or a state in Redis and a code in MariaDB: once,
\* however the requests overlap.  A token or a state in MariaDB: once more only by
\* a request that had selected it before it was deleted; a code in Redis: once more
\* only by one that had compared it by then, or as its delete had failed (pwreset
\* ConsumeToken, session.go and mariadb_session.go ConsumeState, otp Verify).  The
\* comments promise it without these exceptions: see README, disagreements.
SpentOnce ==
    \A n \in twice :
        \/ store = "mariadb" /\ n \in raced
        \/ store = "redis" /\ n \in spared
=============================================================================
