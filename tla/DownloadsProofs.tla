--------------------------- MODULE DownloadsProofs ---------------------------
(***************************************************************************)
(* Proofs about Accounts and Downloads, for any people, requests, faults   *)
(* and limit of attempts: types, that sessions say what the table said,    *)
(* that the attempts at a code are limited, and that a secret is used      *)
(* once.                                                                   *)
(***************************************************************************)
EXTENDS Downloads, FiniteSetTheorems, TLAPS

Secrets == {{}} \cup {{w} : w \in Passwords}
Holders == {{}} \cup {{p} : p \in People}    \* at most one
UserRecords == [exists : BOOLEAN, active : BOOLEAN, role : Roles, password : Secrets,
                by : {"manual", "oidc"}]
Places == {"idle", "setup", "session", "reset", "take", "took", "takeState", "exchange",
           "provision", "readBack", "compare", "dropCode", "dropCount", "visit", "stream"}
JobRecords == [at : Places, id : Nat, who : Holders, n : Nat, role : Roles,
               password : Secrets, fresh : BOOLEAN]
KeyRecords == [n : Nat, role : Roles, live : BOOLEAN]
SessionRecords == [n : Nat, of : People, role : Roles, fresh : BOOLEAN]

\* These requests make something that bears their number.
Numbered(j) == \/ j.at \in {"session", "takeState", "exchange", "provision", "readBack",
                            "compare", "dropCode", "dropCount", "visit"}
               \/ j.at = "took" /\ j.who = {}

JobTyped ==
    /\ job \in [Clients -> JobRecords]
    /\ \A c \in Clients : /\ job[c].id <= requests
                          /\ Numbered(job[c]) => job[c].id > 0
                          /\ job[c].n <= requests

AccountsTyped ==
    /\ store \in {"redis", "mariadb"}
    /\ users \in [People -> UserRecords]
    /\ sessions \subseteq SessionRecords
    /\ \A s \in sessions : s.n \in 1..requests
    /\ \A r \in resets : r.of \in People /\ r.n \in 1..requests /\ users[r.of].exists
    /\ states \subseteq 1..requests
    /\ keys \subseteq KeyRecords
    /\ \A k \in keys : k.n \in 1..requests

FileTyped ==
    /\ file \in [mode : {"simple", "auth", "otp"}, disabled : BOOLEAN, deleted : BOOLEAN]
    /\ code \in [n : Nat, live : BOOLEAN]
    /\ code.n <= requests
    /\ code.live => code.n > 0
    /\ tries \in 0..(MaxAttempts + 1)
    /\ visits \subseteq 1..requests
    /\ guesses \in Nat

CountsTyped == requests \in 0..MaxRequests /\ faults \in 0..MaxFaults

Typed == JobTyped /\ AccountsTyped /\ FileTyped /\ CountsTyped

LEMMA HoldersHold ==
    /\ {} \in Holders
    /\ \A p \in People : {p} \in Holders
    /\ \A H \in Holders : H \subseteq People /\ \A p, q \in H : p = q
  BY DEF Holders

LEMMA TypedIsTyped == Typed => DownloadsTypeOK
<1> SUFFICES ASSUME Typed PROVE DownloadsTypeOK
  OBVIOUS
<1>1. \A c \in Clients : job[c].at \in Places /\ job[c].who \subseteq People
  BY HoldersHold DEF Typed, JobTyped, JobRecords
<1>2. \A s \in sessions : s.n \in 1..requests /\ s.of \in People /\ s.role \in Roles
  BY DEF Typed, AccountsTyped, SessionRecords
<1>3. TypeOK
  <2>1. \A k \in keys : k.n \in 1..requests /\ k.role \in Roles /\ k.live \in BOOLEAN
    BY DEF Typed, AccountsTyped, KeyRecords
  <2> QED
    BY <1>1, <1>2, <2>1 DEF Typed, AccountsTyped, CountsTyped, TypeOK, Places, UserRecords, Secrets
<1>4. code.n \in 0..requests
  BY DEF Typed, FileTyped, CountsTyped
<1> QED
  BY <1>3, <1>4 DEF Typed, FileTyped, DownloadsTypeOK

LEMMA Blank ==
    /\ Idle \in JobRecords /\ Idle.at = "idle" /\ Idle.id = 0 /\ Idle.n = 0
    /\ Idle.who = {} /\ Idle.fresh = FALSE /\ ~Numbered(Idle)
    /\ NoUser \in UserRecords
  BY HoldersHold DEF Idle, NoUser, JobRecords, UserRecords, Places, Roles, Secrets, Numbered

LEMMA InitTyped == Init => Typed
<1> SUFFICES ASSUME Init PROVE JobTyped /\ AccountsTyped /\ FileTyped /\ CountsTyped
  BY DEF Typed
<1> USE DEF Init, AccountsInit
<1>1. JobTyped
  BY Blank DEF JobTyped
<1>2. AccountsTyped
  BY Blank DEF AccountsTyped
<1>3. FileTyped
  <2>1. 0 \in 0..(MaxAttempts + 1)
    BY DownloadsAssumption
  <2>2. file \in [mode : {"simple", "auth", "otp"}, disabled : BOOLEAN, deleted : BOOLEAN]
    OBVIOUS
  <2>3. code \in [n : Nat, live : BOOLEAN] /\ code.n <= requests /\ ~code.live
    BY DEF NoCode
  <2> QED
    BY <2>1, <2>2, <2>3 DEF FileTyped
<1>4. CountsTyped
  BY AccountsAssumption DEF CountsTyped
<1> QED
  BY <1>1, <1>2, <1>3, <1>4

-----------------------------------------------------------------------------
(* What a step does to the requests.                                       *)

\* A request that may be where it is.
Fits(j, limit) == j \in JobRecords /\ j.id <= limit /\ j.n <= limit /\ (Numbered(j) => j.id > 0)

LEMMA SetTyped ==
    ASSUME JobTyped, NEW c \in Clients, NEW j, job' = [job EXCEPT ![c] = j],
           requests \in Nat, requests' \in Nat, requests <= requests', Fits(j, requests')
    PROVE  JobTyped'
<1>1. job' \in [Clients -> JobRecords]
  BY DEF JobTyped, Fits
<1>2. ASSUME NEW d \in Clients
      PROVE  job'[d].id <= requests' /\ (Numbered(job'[d]) => job'[d].id > 0) /\ job'[d].n <= requests'
  <2>1. CASE d = c
    BY <2>1 DEF JobTyped, Fits
  <2>2. CASE d # c
    <3>1. /\ job'[d] = job[d] /\ job[d].id <= requests /\ job[d].n <= requests
          /\ job[d].id \in Nat /\ job[d].n \in Nat
      BY <2>2 DEF JobTyped, JobRecords
    <3>2. job[d].id <= requests' /\ job[d].n <= requests'
      BY <3>1
    <3> QED
      BY <3>1, <3>2 DEF JobTyped
  <2> QED
    BY <2>1, <2>2
<1> QED
  BY <1>1, <1>2 DEF JobTyped

LEMMA Still ==
    ASSUME JobTyped, requests \in Nat, requests' \in Nat, requests <= requests'
    PROVE  \A d \in Clients : Fits(job[d], requests')
<1> SUFFICES ASSUME NEW d \in Clients PROVE Fits(job[d], requests')
  OBVIOUS
<1>1. /\ job[d] \in JobRecords /\ job[d].id <= requests /\ job[d].n <= requests
      /\ job[d].id \in Nat /\ job[d].n \in Nat
  BY DEF JobTyped, JobRecords
<1>2. job[d].id <= requests' /\ job[d].n <= requests'
  BY <1>1
<1> QED
  BY <1>1, <1>2 DEF Fits, JobTyped

\* Nothing of the requests changes but how fresh they are.
LEMMA FreshTyped ==
    ASSUME NEW jobs, DOMAIN jobs = Clients, \A d \in Clients : Fits(jobs[d], requests'), NEW S,
           job' = [d \in Clients |-> IF d \in S THEN [jobs[d] EXCEPT !.fresh = FALSE] ELSE jobs[d]]
    PROVE  JobTyped'
<1>1. ASSUME NEW d \in Clients PROVE Fits(job'[d], requests')
  <2>1. jobs[d] \in JobRecords
    BY DEF Fits
  <2>2. job'[d] \in JobRecords /\ job'[d].at = jobs[d].at /\ job'[d].id = jobs[d].id
             /\ job'[d].n = jobs[d].n /\ job'[d].who = jobs[d].who
    BY <2>1 DEF JobRecords
  <2> QED
    BY <2>2 DEF Fits, Numbered
<1>2. job' \in [Clients -> JobRecords]
  BY <1>1 DEF Fits
<1> QED
  BY <1>1, <1>2 DEF JobTyped, Fits

LEMMA UnchangedTyped ==
    ASSUME JobTyped, job' = job, requests \in Nat, requests' \in Nat, requests <= requests'
    PROVE  JobTyped'
<1>1. ASSUME NEW d \in Clients
      PROVE  job[d].id <= requests' /\ (Numbered(job[d]) => job[d].id > 0) /\ job[d].n <= requests'
  <2>1. /\ job[d].id <= requests /\ job[d].n <= requests
        /\ job[d].id \in Nat /\ job[d].n \in Nat
    BY DEF JobTyped, JobRecords
  <2>2. job[d].id <= requests' /\ job[d].n <= requests'
    BY <2>1
  <2> QED
    BY <2>1, <2>2 DEF JobTyped
<1> QED
  BY <1>1 DEF JobTyped

\* Every step counts its request and its fault.
LEMMA Counting ==
    ASSUME Next
    PROVE  /\ requests' = requests \/ \E c \in Clients : Request(c)
           /\ faults' = faults \/ Fault
<1>1. CASE AccountsNext
  BY <1>1 DEF AccountsNext, CountUsers, Login, UpdateUserPassword, CreateUser, CreateAdmin, CreateSession,
              SaveState, TakeState, DropSecret, TakeReset, SelectReset, NoReset, UpdatePassword, Fails,
              Logout, SessionEnds, Reset, Callback, Expires, Exchange, Forgot, DeleteUser, UpdateUserRole,
              Provision, ReadBack, CreateKey, RevokeKey, bounds
<1>2. CASE ~AccountsNext
  BY <1>2 DEF Next, GenerateCode, CompareCode, DropCode, DropCount, OpenVisit, Download, PublicDownload,
              Open, Stream, Delete, Disable, CountAttempt, Verify, CodeExpires, CountExpires, bounds
<1> QED
  BY <1>1, <1>2

LEMMA Growth ==
    ASSUME CountsTyped, [Next]_vars
    PROVE  /\ CountsTyped' /\ requests \in Nat /\ requests' \in Nat /\ requests <= requests'
           /\ 1..requests \subseteq 1..requests'
           /\ \A c : Request(c) => /\ requests' = requests + 1 /\ Number \in 1..requests'
                                  /\ Number = requests' /\ job[c].at = "idle"
<1>1. /\ requests' = requests \/ (requests < MaxRequests /\ requests' = requests + 1)
      /\ faults' = faults \/ (faults < MaxFaults /\ faults' = faults + 1)
  BY Counting DEF Request, Fault, vars, bounds
<1>2. requests \in 0..MaxRequests /\ faults \in 0..MaxFaults /\ MaxRequests \in Nat /\ MaxFaults \in Nat
  BY AccountsAssumption DEF CountsTyped
<1>3. requests' \in 0..MaxRequests /\ faults' \in 0..MaxFaults /\ requests <= requests'
  BY <1>1, <1>2
<1> QED
  BY <1>2, <1>3 DEF CountsTyped, Request, Number

\* The request of a step of a client is over, or where it was put.
LEMMA DoneTyped ==
    ASSUME JobTyped, NEW c \in Clients, job' = [job EXCEPT ![c] = Idle],
           requests \in Nat, requests' \in Nat, requests <= requests'
    PROVE  JobTyped'
<1>1. 0 <= requests'
  OBVIOUS
<1>2. Fits(Idle, requests')
  BY <1>1, Blank DEF Fits
<1> QED
  BY <1>2, SetTyped

LEMMA AccountsKept ==
    ASSUME AccountsTyped, UNCHANGED accounts, 1..requests \subseteq 1..requests'
    PROVE  AccountsTyped'
  BY DEF AccountsTyped, accounts

LEMMA FileKept ==
    ASSUME FileTyped, UNCHANGED downloads, requests \in Nat, requests' \in Nat, requests <= requests',
           1..requests \subseteq 1..requests'
    PROVE  FileTyped'
<1>1. code.n <= requests'
  BY DEF FileTyped
<1> QED
  BY <1>1 DEF FileTyped, downloads

\* The steps that touch no account and no file.
Elsewhere(c) ==
    \/ \E p \in People, w \in Passwords : CountUsers(c, p, w) \/ Login(c, p, w)
    \/ \E n \in 1..requests, w \in Passwords : Reset(c, n, w)
    \/ \E n \in 1..requests : Callback(c, n)
    \/ \E p \in People : Exchange(c, p)
    \/ SelectReset(c) \/ NoReset(c) \/ Fails(c) \/ Download(c) \/ PublicDownload(c) \/ Stream(c)
    \/ ReadBack(c)

LEMMA ElsewhereStep ==
    ASSUME Typed, [Next]_vars, NEW c \in Clients, Elsewhere(c)
    PROVE  Typed'
<1>0. JobTyped /\ AccountsTyped /\ FileTyped /\ CountsTyped /\ CountsTyped'
  BY Growth DEF Typed
<1> DEFINE limit == requests'
<1>1. SUFFICES JobTyped'
  <2>1. UNCHANGED accounts /\ UNCHANGED downloads
    BY DEF Elsewhere, CountUsers, Login, Reset, Callback, Exchange, SelectReset, NoReset, Fails,
           Download, PublicDownload, Open, Stream, ReadBack
  <2> QED
    BY <1>0, <2>1, AccountsKept, FileKept, Growth DEF Typed
<1>2. ASSUME NEW j, job' = [job EXCEPT ![c] = j], Fits(j, limit) PROVE JobTyped'
  BY <1>0, <1>2, SetTyped, Growth
<1>3. ASSUME job' = [job EXCEPT ![c] = Idle] PROVE JobTyped'
  BY <1>0, <1>3, DoneTyped, Growth
<1>4. limit \in Nat /\ (Request(c) => Number \in Nat /\ Number = limit /\ Number > 0)
  BY <1>0, Growth
<1>5. job[c] \in JobRecords /\ job[c].id <= limit /\ job[c].n <= limit
  BY <1>0, Growth DEF JobTyped, JobRecords
<1> HIDE DEF limit
<1>6. ASSUME NEW p \in People, NEW w \in Passwords, CountUsers(c, p, w) PROVE JobTyped'
  <2>1. "setup" \in Places /\ {w} \in Secrets /\ {p} \in Holders
    BY HoldersHold DEF Places, Secrets
  <2>2. PICK j : j = [Idle EXCEPT !.at = "setup", !.who = {p}, !.password = {w}]
    OBVIOUS
  <2>3. /\ j \in JobRecords /\ j.at = "setup"
        /\ j.id = 0 /\ j.n = 0
    BY <2>1, <2>2, Blank DEF JobRecords
  <2>4. Fits(j, limit)
    BY <1>4, <2>1, <2>3 DEF Fits, Numbered
  <2> QED
    BY <1>2, <1>3, <1>6, <2>2, <2>4 DEF CountUsers, Set
<1>7. ASSUME NEW p \in People, NEW w \in Passwords, Login(c, p, w) PROVE JobTyped'
  <2>1. /\ users[p].role \in Roles /\ Number \in Nat /\ Number = limit /\ Number > 0
        /\ "session" \in Places /\ {p} \in Holders
    BY <1>0, <1>4, <1>7, HoldersHold DEF AccountsTyped, UserRecords, Login, Places
  <2>2. PICK j : j = [Idle EXCEPT !.at = "session", !.id = Number, !.who = {p}, !.role = users[p].role,
                               !.fresh = TRUE]
    OBVIOUS
  <2>3. /\ j \in JobRecords /\ j.at = "session"
        /\ j.id = Number /\ j.n = 0
    BY <2>1, <2>2, Blank DEF JobRecords
  <2>4. Fits(j, limit)
    BY <1>4, <2>1, <2>3 DEF Fits, Numbered
  <2> QED
    BY <1>2, <1>3, <1>7, <2>2, <2>4 DEF Login, Set
<1>8. ASSUME NEW n \in 1..requests, NEW w \in Passwords, Reset(c, n, w) PROVE JobTyped'
  <2>1. n \in Nat /\ n <= limit /\ "take" \in Places /\ {w} \in Secrets
    BY <1>0, Growth DEF limit, Places, Secrets
  <2>2. PICK j : j = [Idle EXCEPT !.at = "take", !.n = n, !.password = {w}]
    OBVIOUS
  <2>3. /\ j \in JobRecords /\ j.at = "take"
        /\ j.id = 0 /\ j.n = n
    BY <2>1, <2>2, Blank DEF JobRecords
  <2>4. Fits(j, limit)
    BY <1>4, <2>1, <2>3 DEF Fits, Numbered
  <2> QED
    BY <1>2, <1>8, <2>2, <2>4 DEF Reset, Set
<1>9. ASSUME NEW n \in 1..requests, Callback(c, n) PROVE JobTyped'
  <2>1. /\ n \in Nat /\ n <= limit /\ Number \in Nat /\ Number = limit /\ Number > 0
        /\ "takeState" \in Places
    BY <1>0, <1>4, <1>9, Growth DEF limit, Callback, Places
  <2>2. PICK j : j = [Idle EXCEPT !.at = "takeState", !.id = Number, !.n = n]
    OBVIOUS
  <2>3. /\ j \in JobRecords /\ j.at = "takeState"
        /\ j.id = Number /\ j.n = n
    BY <2>1, <2>2, Blank DEF JobRecords
  <2>4. Fits(j, limit)
    BY <1>4, <2>1, <2>3 DEF Fits, Numbered
  <2> QED
    BY <1>2, <1>9, <2>2, <2>4 DEF Callback, Set
<1>10. ASSUME NEW p \in People, Exchange(c, p) PROVE JobTyped'
  <2>1. job[c].id > 0
    BY <1>0, <1>10 DEF Exchange, JobTyped, Numbered
  <2>2. Fits([job[c] EXCEPT !.at = "provision", !.who = {p}], limit)
    BY <1>4, <1>5, <2>1, HoldersHold DEF Fits, JobRecords, Numbered, Places
  <2> QED
    BY <1>2, <1>10, <2>2 DEF Exchange, Set
<1>11. CASE SelectReset(c)
  <2>1. PICK r \in resets : r.of \in People /\ Set(c, [job[c] EXCEPT !.at = "took", !.who = {r.of}])
    BY <1>0, <1>11 DEF SelectReset, AccountsTyped
  <2>2. Fits([job[c] EXCEPT !.at = "took", !.who = {r.of}], limit)
    BY <1>4, <1>5, <2>1, HoldersHold DEF Fits, JobRecords, Numbered, Places
  <2> QED
    BY <1>2, <2>1, <2>2 DEF Set
<1>12. CASE NoReset(c) \/ Fails(c) \/ Stream(c)
  BY <1>3, <1>12 DEF NoReset, Fails, Stream, Done, Set
<1>13. CASE Download(c) \/ PublicDownload(c)
  <2>1. Fits([Idle EXCEPT !.at = "stream"], limit)
    BY <1>4, Blank DEF Fits, JobRecords, Numbered, Places
  <2> QED
    BY <1>2, <1>13, <2>1 DEF Download, PublicDownload, Open, Set
<1>14. CASE ReadBack(c)
  <2>1. PICK p \in job[c].who :
            Set(c, IF Active(p)
                   THEN [job[c] EXCEPT !.at = "session", !.role = users[p].role, !.fresh = TRUE]
                   ELSE Idle)
    BY <1>14 DEF ReadBack
  <2>2. users[p].role \in Roles /\ job[c].id > 0
    BY <1>0, <1>5, <1>14, HoldersHold DEF AccountsTyped, UserRecords, ReadBack, JobTyped, JobRecords, Numbered
  <2>3. PICK j : j = [job[c] EXCEPT !.at = "session", !.role = users[p].role, !.fresh = TRUE]
    OBVIOUS
  <2>4. j \in JobRecords /\ j.at = "session" /\ j.id = job[c].id /\ j.n = job[c].n
    BY <1>5, <2>2, <2>3 DEF JobRecords, Places
  <2>5. Fits(j, limit)
    BY <1>5, <2>2, <2>4 DEF Fits
  <2> QED
    BY <1>2, <1>3, <2>1, <2>3, <2>5 DEF Set
<1> QED
  BY <1>6, <1>7, <1>8, <1>9, <1>10, <1>11, <1>12, <1>13, <1>14 DEF Elsewhere

\* Accounts after a step that takes nothing back.
LEMMA AccountsStep ==
    ASSUME AccountsTyped, store' = store, 1..requests \subseteq 1..requests',
           users' \in [People -> UserRecords], \A p \in People : users[p].exists => users'[p].exists,
           \A s \in sessions' : s \in SessionRecords /\ s.n \in 1..requests',
           \A r \in resets' : r \in resets \/ (r.of \in People /\ r.n \in 1..requests' /\ users[r.of].exists),
           states' \subseteq 1..requests',
           \A k \in keys' : k \in keys \/ (k \in KeyRecords /\ k.n \in 1..requests')
    PROVE  AccountsTyped'
<1>1. \A r \in resets' : r.of \in People /\ r.n \in 1..requests' /\ users'[r.of].exists
  BY DEF AccountsTyped
<1>2. \A k \in keys' : k \in KeyRecords /\ k.n \in 1..requests'
  BY DEF AccountsTyped
<1> QED
  BY <1>1, <1>2 DEF AccountsTyped

\* A row that is there keeps what the insert would give it.
LEMMA InsertTyped ==
    ASSUME users \in [People -> UserRecords], NEW p \in People, NEW role \in Roles, NEW password \in Secrets,
           users' = [users EXCEPT ![p] =
               IF @.exists THEN @
               ELSE [exists |-> TRUE, active |-> TRUE, role |-> role, password |-> password,
                     by |-> "manual"]]
    PROVE  /\ users' \in [People -> UserRecords]
           /\ \A q \in People : users[q].exists => users'[q] = users[q]
           /\ \A q \in People \ {p} : users'[q] = users[q]
           /\ users'[p].exists
           /\ users[p].exists \/ (users'[p].active /\ users'[p].role = role)
<1> DEFINE new == [exists |-> TRUE, active |-> TRUE, role |-> role, password |-> password,
                   by |-> "manual"]
<1>1. new \in UserRecords /\ new.exists /\ new.active /\ new.role = role
  BY DEF UserRecords
<1> HIDE DEF new
<1>2. users' = [users EXCEPT ![p] = IF users[p].exists THEN users[p] ELSE new]
  BY DEF new
<1> QED
  BY <1>1, <1>2

\* What the claims make of a row.
LEMMA ClaimedTyped ==
    ASSUME NEW row \in UserRecords, NEW role \in Roles
    PROVE  Claimed(row, role) \in UserRecords /\ Claimed(row, role).exists
<1>1. {} \in Secrets
  BY DEF Secrets
<1>2. CASE ~row.exists
  BY <1>1, <1>2 DEF Claimed, UserRecords
<1>3. CASE row.exists /\ row.by = "oidc"
  <2>1. [row EXCEPT !.role = role] \in UserRecords /\ [row EXCEPT !.role = role].exists
    BY <1>3 DEF UserRecords
  <2> QED
    BY <1>3, <2>1 DEF Claimed
<1>4. CASE row.exists /\ row.by # "oidc"
  BY <1>4 DEF Claimed
<1> QED
  BY <1>2, <1>3, <1>4

\* A row is written, and sessions and requests are stale or not.
LEMMA WriteTyped ==
    ASSUME AccountsTyped, 1..requests \subseteq 1..requests',
           NEW p \in People, NEW row \in UserRecords, users[p].exists => row.exists,
           NEW jobs \in [Clients -> JobRecords], \A d \in Clients : Fits(jobs[d], requests'),
           Write(p, row, jobs)
    PROVE  /\ users' \in [People -> UserRecords]
           /\ \A q \in People : users[q].exists => users'[q].exists
           /\ \A s \in sessions' : s \in SessionRecords /\ s.n \in 1..requests'
           /\ JobTyped'
<1>1. /\ users' \in [People -> UserRecords]
      /\ \A q \in People : users[q].exists => users'[q].exists
  BY DEF Write, AccountsTyped
<1>2. \A s \in sessions : s \in SessionRecords /\ s.n \in 1..requests'
  BY DEF AccountsTyped
<1>3. CASE sessions' = sessions /\ job' = jobs
  BY <1>1, <1>2, <1>3 DEF JobTyped, Fits
<1>4. CASE sessions' = Stale(p) /\ job' = Touched(p, jobs)
  <2>1. ASSUME NEW q \in sessions
        PROVE  /\ [q EXCEPT !.fresh = FALSE] \in SessionRecords /\ [q EXCEPT !.fresh = FALSE].n = q.n
               /\ q \in SessionRecords /\ q.n \in 1..requests'
    BY <1>2 DEF SessionRecords
  <2>2. \A s \in sessions' : s \in SessionRecords /\ s.n \in 1..requests'
    BY <1>4, <2>1 DEF Stale
  <2>3. job' = [d \in Clients |-> IF d \in {e \in Clients : p \in jobs[e].who}
                                  THEN [jobs[d] EXCEPT !.fresh = FALSE] ELSE jobs[d]]
    BY <1>4 DEF Touched
  <2>4. JobTyped'
    BY <2>3, FreshTyped
  <2> QED
    BY <1>1, <2>2, <2>4
<1> QED
  BY <1>3, <1>4 DEF Write

LEMMA AccountsNextTyped == ASSUME Typed, [Next]_vars, AccountsNext PROVE Typed'
<1>0. /\ JobTyped /\ AccountsTyped /\ FileTyped /\ CountsTyped /\ CountsTyped'
      /\ requests \in Nat /\ requests' \in Nat /\ requests <= requests'
      /\ 1..requests \subseteq 1..requests'
  BY Growth DEF Typed
<1>a. /\ users \in [People -> UserRecords] /\ states \subseteq 1..requests'
      /\ \A s \in sessions : s \in SessionRecords /\ s.n \in 1..requests'
  BY <1>0 DEF AccountsTyped
<1>b. ASSUME UNCHANGED downloads, JobTyped', AccountsTyped' PROVE Typed'
  BY <1>0, <1>b, FileKept DEF Typed
<1>c. ASSUME NEW c \in Clients, job' = [job EXCEPT ![c] = Idle] PROVE JobTyped'
  BY <1>0, <1>c, DoneTyped
<1>d. ASSUME NEW c \in Clients, NEW j, job' = [job EXCEPT ![c] = j], Fits(j, requests')
      PROVE  JobTyped'
  BY <1>0, <1>d, SetTyped
<1>e. ASSUME job' = job PROVE JobTyped'
  BY <1>0, <1>e, UnchangedTyped
<1>f. ASSUME NEW c \in Clients
      PROVE  job[c] \in JobRecords /\ Fits(job[c], requests')
  BY <1>0, Still DEF Fits
<1>g. ASSUME NEW c \in Clients, Request(c) PROVE Number \in 1..requests'
  BY <1>0, <1>g, Growth
<1>1. ASSUME NEW c \in Clients, CreateAdmin(c) PROVE Typed'
  <2>0. PICK p \in job[c].who, v \in job[c].password : Insert(p, "admin", v)
    BY <1>1 DEF CreateAdmin
  <2>1. p \in People /\ {v} \in Secrets
    BY <1>f, HoldersHold DEF JobRecords, Secrets
  <2>2. users' \in [People -> UserRecords] /\ \A q \in People : users[q].exists => users'[q].exists
    BY <1>a, <2>0, <2>1, InsertTyped DEF Roles, Insert
  <2>3. AccountsTyped'
    BY <1>0, <1>1, <1>a, <2>2, AccountsStep DEF CreateAdmin
  <2> QED
    BY <1>1, <1>b, <1>c, <2>3 DEF CreateAdmin
<1>2. ASSUME NEW c \in Clients, NEW p \in People, NEW role \in Roles, NEW w \in Passwords,
             CreateUser(c, p, role, w)
      PROVE  Typed'
  <2>1. {w} \in Secrets
    BY DEF Secrets
  <2>2. users' \in [People -> UserRecords] /\ \A q \in People : users[q].exists => users'[q].exists
    BY <1>2, <1>a, <2>1, InsertTyped DEF CreateUser, Insert
  <2>3. AccountsTyped'
    BY <1>0, <1>2, <1>a, <2>2, AccountsStep DEF CreateUser
  <2> QED
    BY <1>2, <1>b, <1>e, <2>3 DEF CreateUser
<1>3. ASSUME NEW c \in Clients, CreateSession(c) PROVE Typed'
  <2>1. ASSUME NEW s \in sessions' PROVE s \in SessionRecords /\ s.n \in 1..requests'
    <3>1. CASE s \in sessions
      BY <1>a, <3>1
    <3>2. ASSUME NEW p \in job[c].who,
                 s = [n |-> job[c].id, of |-> p, role |-> job[c].role, fresh |-> job[c].fresh]
          PROVE  s \in SessionRecords /\ s.n \in 1..requests'
      <4>1. job[c].id \in 1..requests' /\ job[c].id \in Nat
        BY <1>0, <1>3, <1>f DEF CreateSession, Fits, Numbered, JobRecords
      <4> QED
        BY <1>f, <3>2, <4>1, HoldersHold DEF JobRecords, SessionRecords
    <3> QED
      BY <1>3, <2>1, <3>1, <3>2 DEF CreateSession
  <2>2. AccountsTyped'
    BY <1>0, <1>3, <1>a, <2>1, AccountsStep DEF CreateSession
  <2> QED
    BY <1>3, <1>b, <1>c, <2>2 DEF CreateSession, Done, Set
<1>4. ASSUME sessions' \subseteq sessions, UNCHANGED <<downloads, store, users, resets, states, keys, job>>
      PROVE  Typed'
  <2>1. AccountsTyped'
    BY <1>0, <1>4, <1>a, AccountsStep
  <2> QED
    BY <1>4, <1>b, <1>e, <2>1
<1>5. ASSUME NEW c \in Clients, SaveState(c) PROVE Typed'
  <2>1. states' \subseteq 1..requests'
    BY <1>5, <1>a, <1>g DEF SaveState
  <2>2. AccountsTyped'
    BY <1>0, <1>5, <1>a, <2>1, AccountsStep DEF SaveState
  <2> QED
    BY <1>5, <1>b, <1>e, <2>2 DEF SaveState
<1>6. ASSUME NEW c \in Clients, TakeState(c) PROVE Typed'
  <2>1. AccountsTyped'
    <3>1. states' \subseteq 1..requests'
      BY <1>6, <1>a DEF TakeState
    <3> QED
      BY <1>0, <1>6, <1>a, <3>1, AccountsStep DEF TakeState
  <2>2. Fits([job[c] EXCEPT !.at = "exchange"], requests') /\ Fits([job[c] EXCEPT !.at = "took"], requests')
    BY <1>6, <1>f DEF TakeState, Fits, Numbered, JobRecords, Places
  <2>3. JobTyped'
    BY <1>6, <1>c, <1>d, <2>2 DEF TakeState, Done, Set
  <2>4. UNCHANGED downloads
    BY <1>6 DEF TakeState
  <2> QED
    BY <1>b, <2>1, <2>3, <2>4
<1>7. ASSUME NEW c \in Clients, DropSecret(c) PROVE Typed'
  <2>1. AccountsTyped'
    <3>1. states' \subseteq 1..requests'
      BY <1>7, <1>a DEF DropSecret
    <3> QED
      BY <1>0, <1>7, <1>a, <3>1, AccountsStep DEF DropSecret
  <2>2. Fits([job[c] EXCEPT !.at = IF job[c].who = {} THEN "exchange" ELSE "reset"], requests')
    BY <1>7, <1>f DEF DropSecret, Fits, Numbered, JobRecords, Places
  <2> QED
    BY <1>7, <1>b, <1>d, <2>1, <2>2 DEF DropSecret, Set
<1>8. ASSUME NEW c \in Clients, NEW claimed \in Roles, Provision(c, claimed) PROVE Typed'
  <2>1. PICK next : next = [job EXCEPT ![c] = [job[c] EXCEPT !.at = "readBack", !.role = claimed]]
    OBVIOUS
  <2>2. PICK p \in job[c].who : Write(p, Claimed(users[p], claimed), next)
    BY <1>8, <2>1 DEF Provision
  <2>3. p \in People
    BY <1>f, HoldersHold DEF JobRecords
  <2>4. Claimed(users[p], claimed) \in UserRecords /\ Claimed(users[p], claimed).exists
    BY <1>a, <2>3, ClaimedTyped
  <2>5. Fits([job[c] EXCEPT !.at = "readBack", !.role = claimed], requests')
    BY <1>8, <1>f DEF Provision, Fits, Numbered, JobRecords, Places
  <2>6. next \in [Clients -> JobRecords] /\ \A d \in Clients : Fits(next[d], requests')
    BY <1>0, <1>f, <2>1, <2>5 DEF JobTyped, Fits
  <2>7. AccountsTyped' /\ JobTyped'
    BY <1>0, <1>8, <1>a, <2>2, <2>3, <2>4, <2>6, WriteTyped, AccountsStep DEF Provision
  <2> QED
    BY <1>8, <1>b, <2>7 DEF Provision
<1>9. ASSUME NEW c \in Clients, NEW p \in People, Forgot(c, p) PROVE Typed'
  <2>1. \A r \in resets' : r \in resets \/ (r.of \in People /\ r.n \in 1..requests' /\ users[r.of].exists)
    BY <1>9, <1>g DEF Forgot, Active
  <2>2. AccountsTyped'
    BY <1>0, <1>9, <1>a, <2>1, AccountsStep DEF Forgot
  <2> QED
    BY <1>9, <1>b, <1>e, <2>2 DEF Forgot
<1>10. ASSUME NEW c \in Clients, TakeReset(c) PROVE Typed'
  <2>1. PICK r \in resets : resets' = resets \ {r} /\ Set(c, [job[c] EXCEPT !.at = "reset", !.who = {r.of}])
    BY <1>10 DEF TakeReset
  <2>2. AccountsTyped'
    BY <1>0, <1>10, <1>a, <2>1, AccountsStep DEF TakeReset
  <2>3. Fits([job[c] EXCEPT !.at = "reset", !.who = {r.of}], requests')
    <3>1. {r.of} \in Holders
      BY <1>0, <2>1, HoldersHold DEF AccountsTyped
    <3>2. PICK j : j = [job[c] EXCEPT !.at = "reset", !.who = {r.of}]
      OBVIOUS
    <3>3. j \in JobRecords /\ j.at = "reset" /\ j.id = job[c].id /\ j.n = job[c].n
      BY <1>f, <3>1, <3>2 DEF JobRecords, Places
    <3> QED
      BY <1>f, <3>2, <3>3 DEF Fits, Numbered
  <2> QED
    BY <1>10, <1>b, <1>d, <2>1, <2>2, <2>3 DEF TakeReset, Set
<1>11. ASSUME NEW c \in Clients, UpdatePassword(c) PROVE Typed'
  <2>1. PICK p \in People : users' = [users EXCEPT ![p].password = job[c].password]
    BY <1>11, <1>f, HoldersHold DEF UpdatePassword, JobRecords
  <2>2. users' \in [People -> UserRecords] /\ \A q \in People : users[q].exists => users'[q].exists
    BY <1>a, <1>f, <2>1 DEF UserRecords, JobRecords
  <2>3. AccountsTyped'
    BY <1>0, <1>11, <1>a, <2>2, AccountsStep DEF UpdatePassword
  <2> QED
    BY <1>11, <1>b, <1>c, <2>3 DEF UpdatePassword, Done, Set
<1>12. ASSUME NEW n, Expires(n) PROVE Typed'
  <2>1. AccountsTyped'
    BY <1>0, <1>12, <1>a, AccountsStep DEF Expires
  <2> QED
    BY <1>12, <1>b, <1>e, <2>1 DEF Expires
<1>13. ASSUME NEW c \in Clients, NEW p \in People, NEW w \in Passwords, UpdateUserPassword(c, p, w)
       PROVE  Typed'
  <2>1. {w} \in Secrets
    BY DEF Secrets
  <2>2. users' \in [People -> UserRecords] /\ \A q \in People : users[q].exists => users'[q].exists
    BY <1>13, <1>a, <2>1 DEF UpdateUserPassword, UserRecords
  <2>3. AccountsTyped'
    BY <1>0, <1>13, <1>a, <2>2, AccountsStep DEF UpdateUserPassword
  <2> QED
    BY <1>13, <1>b, <1>e, <2>3 DEF UpdateUserPassword
<1>14. ASSUME NEW p \in People, NEW row \in UserRecords, users[p].exists => row.exists,
              Write(p, row, job)
       PROVE  /\ users' \in [People -> UserRecords]
              /\ \A q \in People : users[q].exists => users'[q].exists
              /\ \A s \in sessions' : s \in SessionRecords /\ s.n \in 1..requests'
              /\ JobTyped'
  BY <1>0, <1>14, <1>f, WriteTyped DEF JobTyped
<1>16. ASSUME NEW c \in Clients, NEW p \in People, NEW role \in Roles, UpdateUserRole(c, p, role)
       PROVE  Typed'
  <2>1. /\ [users[p] EXCEPT !.role = role] \in UserRecords
        /\ users[p].exists => [users[p] EXCEPT !.role = role].exists
    BY <1>a DEF UserRecords
  <2>2. AccountsTyped' /\ JobTyped'
    BY <1>0, <1>14, <1>16, <1>a, <2>1, AccountsStep DEF UpdateUserRole
  <2> QED
    BY <1>16, <1>b, <2>2 DEF UpdateUserRole
<1>17. ASSUME NEW c \in Clients, NEW p \in People, DeleteUser(c, p) PROVE Typed'
  <2>1. /\ [users[p] EXCEPT !.active = FALSE] \in UserRecords
        /\ users[p].exists => [users[p] EXCEPT !.active = FALSE].exists
    BY <1>a DEF UserRecords
  <2>2. AccountsTyped' /\ JobTyped'
    BY <1>0, <1>14, <1>17, <1>a, <2>1, AccountsStep DEF DeleteUser
  <2> QED
    BY <1>17, <1>b, <2>2 DEF DeleteUser
<1>18. ASSUME NEW c \in Clients, NEW role \in Roles, CreateKey(c, role) PROVE Typed'
  <2>1. \A k \in keys' : k \in keys \/ (k \in KeyRecords /\ k.n \in 1..requests')
    <3>1. Number \in Nat /\ Number \in 1..requests'
      BY <1>0, <1>18, <1>g DEF CreateKey
    <3>2. [n |-> Number, role |-> role, live |-> TRUE] \in KeyRecords
      BY <3>1 DEF KeyRecords
    <3>3. keys' = keys \cup {[n |-> Number, role |-> role, live |-> TRUE]}
      BY <1>18 DEF CreateKey
    <3>4. [n |-> Number, role |-> role, live |-> TRUE].n \in 1..requests'
      BY <3>1
    <3> QED
      BY <3>2, <3>3, <3>4
  <2>2. AccountsTyped'
    BY <1>0, <1>18, <1>a, <2>1, AccountsStep DEF CreateKey
  <2> QED
    BY <1>18, <1>b, <1>e, <2>2 DEF CreateKey
<1>19. ASSUME NEW c \in Clients, NEW k \in keys, RevokeKey(c, k) PROVE Typed'
  <2>1. keys' \subseteq keys \cup {[k EXCEPT !.live = FALSE]}
    BY <1>19 DEF RevokeKey
  <2>2. [k EXCEPT !.live = FALSE] \in KeyRecords /\ [k EXCEPT !.live = FALSE].n \in 1..requests'
    BY <1>0 DEF AccountsTyped, KeyRecords
  <2>3. AccountsTyped'
    <3>1. \A l \in keys' : l \in keys \/ (l \in KeyRecords /\ l.n \in 1..requests')
      BY <2>1, <2>2
    <3> QED
      BY <1>0, <1>19, <1>a, <3>1, AccountsStep DEF RevokeKey
  <2> QED
    BY <1>19, <1>b, <1>e, <2>3 DEF RevokeKey
<1>20. ASSUME NEW c \in Clients, Elsewhere(c) PROVE Typed'
  BY <1>20, ElsewhereStep
<1>21. ASSUME NEW s, (\E c \in Clients : Logout(c, s)) \/ SessionEnds(s) PROVE Typed'
  BY <1>4, <1>21 DEF Logout, SessionEnds
<1> QED
  BY <1>1, <1>2, <1>3, <1>5, <1>6, <1>7, <1>8, <1>9, <1>10, <1>11, <1>12, <1>13, <1>16, <1>17, <1>18, <1>19,
     <1>20, <1>21 DEF AccountsNext, Elsewhere

\* A file after a step that changes its code, count, visits or guesses.
LEMMA FileStep ==
    ASSUME FileTyped, requests \in Nat, requests' \in Nat, requests <= requests',
           1..requests \subseteq 1..requests',
           file' \in [mode : {"simple", "auth", "otp"}, disabled : BOOLEAN, deleted : BOOLEAN],
           \/ code' = code \/ code' = [code EXCEPT !.live = FALSE]
           \/ code' = [n |-> requests', live |-> TRUE] /\ requests' > 0,
           tries' \in 0..(MaxAttempts + 1), visits' \subseteq 1..requests', guesses' \in Nat
    PROVE  FileTyped'
<1>1. code.n \in Nat /\ code.n <= requests /\ code \in [n : Nat, live : BOOLEAN]
  BY DEF FileTyped
<1>2. code.n <= requests'
  BY <1>1
<1>3. code' \in [n : Nat, live : BOOLEAN] /\ code'.n <= requests' /\ (code'.live => code'.n > 0)
  <2>1. CASE code' = code
    BY <1>1, <1>2, <2>1 DEF FileTyped
  <2>2. CASE code' = [code EXCEPT !.live = FALSE]
    BY <1>1, <1>2, <2>2
  <2>3. CASE code' = [n |-> requests', live |-> TRUE] /\ requests' > 0
    BY <2>3
  <2> QED
    BY <2>1, <2>2, <2>3
<1> QED
  BY <1>3 DEF FileTyped

LEMMA OneMoreTyped ==
    ASSUME tries \in 0..(MaxAttempts + 1)
    PROVE  /\ OneMore \in 0..(MaxAttempts + 1)
           /\ OneMore <= MaxAttempts => OneMore = tries + 1
  BY DownloadsAssumption DEF OneMore

LEMMA DownloadsTyped == ASSUME Typed, Next, ~AccountsNext PROVE Typed'
<1>0. /\ JobTyped /\ AccountsTyped /\ FileTyped /\ CountsTyped /\ CountsTyped'
      /\ requests \in Nat /\ requests' \in Nat /\ requests <= requests'
      /\ 1..requests \subseteq 1..requests'
  BY Growth DEF Typed
<1>a. /\ file \in [mode : {"simple", "auth", "otp"}, disabled : BOOLEAN, deleted : BOOLEAN]
      /\ tries \in 0..(MaxAttempts + 1) /\ visits \subseteq 1..requests' /\ guesses \in Nat
      /\ OneMore \in 0..(MaxAttempts + 1)
  BY <1>0, OneMoreTyped DEF FileTyped
<1>b. ASSUME UNCHANGED accounts, JobTyped', FileTyped' PROVE Typed'
  BY <1>0, <1>b, AccountsKept DEF Typed
<1>c. ASSUME NEW c \in Clients, job' = [job EXCEPT ![c] = Idle] PROVE JobTyped'
  BY <1>0, <1>c, DoneTyped
<1>d. ASSUME NEW c \in Clients, NEW j, job' = [job EXCEPT ![c] = j], Fits(j, requests')
      PROVE  JobTyped'
  BY <1>0, <1>d, SetTyped
<1>e. ASSUME job' = job PROVE JobTyped'
  BY <1>0, <1>e, UnchangedTyped
<1>f. ASSUME NEW c \in Clients
      PROVE  job[c] \in JobRecords /\ Fits(job[c], requests')
  BY <1>0, Still DEF Fits
<1>g. ASSUME NEW c \in Clients, Request(c)
      PROVE  Number \in 1..requests' /\ Number = requests' /\ requests' > 0 /\ Number \in Nat
  BY <1>0, <1>g, Growth
<1>h. ASSUME NEW jobs, DOMAIN jobs = Clients, \A d \in Clients : Fits(jobs[d], requests'), Recount(jobs)
      PROVE  JobTyped' /\ tries' \in 0..(MaxAttempts + 1) /\ guesses' \in Nat
  <2>1. job' = [d \in Clients |-> IF d \in {e \in Clients : jobs[e].at = "compare"}
                                  THEN [jobs[d] EXCEPT !.fresh = FALSE] ELSE jobs[d]]
    BY <1>h DEF Recount
  <2>2. tries' = 0 /\ guesses' = 0 /\ 0 \in 0..(MaxAttempts + 1)
    BY <1>h, DownloadsAssumption DEF Recount
  <2> QED
    BY <1>h, <2>1, <2>2, FreshTyped
<1>i. ASSUME Recount(job) PROVE JobTyped' /\ tries' \in 0..(MaxAttempts + 1) /\ guesses' \in Nat
  BY <1>0, <1>f, <1>h, <1>i DEF JobTyped
<1>1. ASSUME NEW c \in Clients, GenerateCode(c) PROVE Typed'
  <2>1. FileTyped'
    BY <1>0, <1>1, <1>a, <1>g, FileStep DEF GenerateCode
  <2> QED
    BY <1>1, <1>b, <1>e, <2>1 DEF GenerateCode
<1>2. ASSUME NEW c \in Clients, NEW n \in {0, code.n}, CountAttempt(c, n) PROVE Typed'
  <2>1. FileTyped'
    BY <1>0, <1>2, <1>a, FileStep DEF CountAttempt
  <2>2. PICK j : j = [Idle EXCEPT !.at = "compare", !.id = Number, !.n = n, !.fresh = TRUE]
    OBVIOUS
  <2>3. n \in Nat /\ n <= requests'
    BY <1>0 DEF FileTyped
  <2>4. j \in JobRecords /\ j.at = "compare" /\ j.id = Number /\ j.n = n
    BY <1>2, <1>g, <2>2, <2>3, Blank DEF CountAttempt, JobRecords, Places
  <2>5. Fits(j, requests')
    BY <1>0, <1>2, <1>g, <2>3, <2>4 DEF CountAttempt, Fits, Numbered
  <2>6. JobTyped'
    BY <1>2, <1>c, <1>d, <2>2, <2>5 DEF CountAttempt, Set
  <2> QED
    BY <1>2, <1>b, <2>1, <2>6 DEF CountAttempt
<1>3. ASSUME NEW c \in Clients, CompareCode(c) PROVE Typed'
  <2>1. guesses' \in Nat
    BY <1>3, <1>a DEF CompareCode
  <2>2. FileTyped'
    BY <1>0, <1>3, <1>a, <2>1, FileStep DEF CompareCode
  <2>3. Fits([job[c] EXCEPT !.at = "dropCode"], requests')
    BY <1>3, <1>f DEF CompareCode, Fits, Numbered, JobRecords, Places
  <2>4. JobTyped'
    BY <1>3, <1>c, <1>d, <2>3 DEF CompareCode, Done, Set
  <2> QED
    BY <1>3, <1>b, <2>2, <2>4 DEF CompareCode
<1>4. ASSUME NEW c \in Clients, DropCode(c) PROVE Typed'
  <2>1. FileTyped'
    BY <1>0, <1>4, <1>a, FileStep DEF DropCode
  <2>2. Fits([job[c] EXCEPT !.at = "dropCount"], requests')
    BY <1>4, <1>f DEF DropCode, Fits, Numbered, JobRecords, Places
  <2> QED
    BY <1>4, <1>b, <1>d, <2>1, <2>2 DEF DropCode, Set
<1>5. ASSUME NEW c \in Clients, DropCount(c) PROVE Typed'
  <2> DEFINE next == [job EXCEPT ![c].at = "visit"]
  <2>1. Fits([job[c] EXCEPT !.at = "visit"], requests')
    BY <1>5, <1>f DEF DropCount, Fits, Numbered, JobRecords, Places
  <2>2. next = [job EXCEPT ![c] = [job[c] EXCEPT !.at = "visit"]]
    OBVIOUS
  <2>3. DOMAIN next = Clients /\ \A d \in Clients : Fits(next[d], requests')
    BY <1>0, <1>f, <2>1, <2>2 DEF JobTyped
  <2>4. Recount(next) \/ (job' = next /\ UNCHANGED <<tries, guesses>>)
    BY <1>5 DEF DropCount
  <2> HIDE DEF next
  <2>5. JobTyped' /\ tries' \in 0..(MaxAttempts + 1) /\ guesses' \in Nat
    BY <1>a, <1>d, <1>h, <2>1, <2>2, <2>3, <2>4
  <2>6. FileTyped'
    BY <1>0, <1>5, <1>a, <2>5, FileStep DEF DropCount
  <2> QED
    BY <1>5, <1>b, <2>5, <2>6 DEF DropCount
<1>6. ASSUME NEW c \in Clients, OpenVisit(c) PROVE Typed'
  <2>1. job[c].id \in 1..requests'
    BY <1>0, <1>6, <1>f DEF OpenVisit, Fits, Numbered, JobRecords
  <2>2. FileTyped'
    BY <1>0, <1>6, <1>a, <2>1, FileStep DEF OpenVisit
  <2> QED
    BY <1>6, <1>b, <1>c, <2>2 DEF OpenVisit, Done, Set
<1>7. ASSUME NEW c \in Clients, NEW n \in {0, code.n}, Verify(c, n) PROVE Typed'
  <2>1. /\ JobTyped' /\ tries' \in 0..(MaxAttempts + 1) /\ guesses' \in Nat
        /\ visits' \subseteq 1..requests' /\ (code' = code \/ code' = [code EXCEPT !.live = FALSE])
    <3>1. CASE UNCHANGED <<code, tries, visits, guesses, job>>
      BY <1>a, <1>e, <3>1
    <3>2. CASE tries' = OneMore /\ UNCHANGED <<code, visits, guesses, job>>
      BY <1>a, <1>e, <3>2
    <3>3. CASE tries' = OneMore /\ guesses' = guesses + 1 /\ UNCHANGED <<code, visits, job>>
      BY <1>a, <1>e, <3>3
    <3>4. CASE Recount(job) /\ code' = [code EXCEPT !.live = FALSE] /\ visits' = visits \cup {Number}
      BY <1>7, <1>a, <1>g, <1>i, <3>4 DEF Verify
    <3> QED
      BY <1>7, <3>1, <3>2, <3>3, <3>4 DEF Verify
  <2>2. FileTyped'
    BY <1>0, <1>7, <1>a, <2>1, FileStep DEF Verify
  <2> QED
    BY <1>7, <1>b, <2>1, <2>2 DEF Verify
<1>8. CASE CodeExpires
  <2>1. FileTyped'
    BY <1>0, <1>8, <1>a, FileStep DEF CodeExpires
  <2> QED
    BY <1>8, <1>b, <1>e, <2>1 DEF CodeExpires
<1>9. CASE CountExpires
  <2>1. FileTyped' /\ JobTyped'
    BY <1>0, <1>9, <1>a, <1>i, FileStep DEF CountExpires
  <2> QED
    BY <1>9, <1>b, <2>1 DEF CountExpires
<1>10. ASSUME NEW c \in Clients, Delete(c) \/ \E disabled \in BOOLEAN : Disable(c, disabled)
       PROVE  Typed'
  <2>1. file' \in [mode : {"simple", "auth", "otp"}, disabled : BOOLEAN, deleted : BOOLEAN]
    BY <1>10, <1>a DEF Delete, Disable
  <2>2. FileTyped'
    BY <1>0, <1>10, <1>a, <2>1, FileStep DEF Delete, Disable
  <2> QED
    BY <1>10, <1>b, <1>e, <2>2 DEF Delete, Disable
<1>11. ASSUME NEW c \in Clients, Elsewhere(c) PROVE Typed'
  BY <1>11, ElsewhereStep
<1> QED
  BY <1>1, <1>2, <1>3, <1>4, <1>5, <1>6, <1>7, <1>8, <1>9, <1>10, <1>11 DEF Next, Elsewhere

LEMMA TypedStep == ASSUME Typed, [Next]_vars PROVE Typed'
<1>1. CASE Next
  BY <1>1, AccountsNextTyped, DownloadsTyped
<1>2. CASE UNCHANGED vars
  <2>1. CountsTyped' /\ requests \in Nat /\ requests' \in Nat /\ requests <= requests'
        /\ 1..requests \subseteq 1..requests'
    BY Growth DEF Typed
  <2>2. UNCHANGED accounts /\ UNCHANGED downloads /\ job' = job
    BY <1>2 DEF vars
  <2> QED
    BY <2>1, <2>2, AccountsKept, FileKept, UnchangedTyped DEF Typed
<1> QED
  BY <1>1, <1>2

\* Every variable keeps its type; whatever bears a number bears that of a
\* request that was made.
THEOREM TypeCorrect == Spec => []DownloadsTypeOK
<1> QED
  BY InitTyped, TypedStep, TypedIsTyped, PTL DEF Spec

-----------------------------------------------------------------------------
(* Sessions.                                                               *)

\* A request that is about to make a session knows the row as it is.
JobsTellTheTruth ==
    \A c \in Clients : job[c].at = "session" /\ job[c].fresh =>
        \A p \in job[c].who : Active(p) /\ users[p].role = job[c].role

TruthInv == Typed /\ SessionsTellTheTruth /\ JobsTellTheTruth

\* The rows of active users stay as they are.
RowsStay == \A p \in People : Active(p) => Active(p)' /\ users'[p].role = users[p].role

\* No request gets where it makes a session.
NoneLogsIn == \A c \in Clients : job'[c].at = "session" => job'[c] = job[c]

LEMMA TruthKept ==
    ASSUME TruthInv, RowsStay, NoneLogsIn, sessions' \subseteq sessions
    PROVE  SessionsTellTheTruth' /\ JobsTellTheTruth'
<1>1. /\ \A s \in sessions : s.of \in People
      /\ \A c \in Clients : job[c].who \subseteq People
  BY HoldersHold DEF TruthInv, Typed, AccountsTyped, SessionRecords, JobTyped, JobRecords
<1> QED
  BY <1>1 DEF TruthInv, RowsStay, NoneLogsIn, SessionsTellTheTruth, JobsTellTheTruth

\* The four ways a step treats the requests.
LEMMA NobodyLogsIn ==
    ASSUME JobTyped, NEW c \in Clients,
           \/ job' = job
           \/ \E j : job' = [job EXCEPT ![c] = j] /\ j.at # "session"
           \/ Recount(job)
           \/ Recount([job EXCEPT ![c].at = "visit"])
    PROVE  NoneLogsIn
<1>1. \A d \in Clients : job[d] \in JobRecords
  BY DEF JobTyped
<1>2. CASE job' = job
  BY <1>2 DEF NoneLogsIn
<1>3. CASE \E j : job' = [job EXCEPT ![c] = j] /\ j.at # "session"
  BY <1>3 DEF NoneLogsIn, JobTyped
<1>4. CASE Recount(job)
  <2>1. \A d \in Clients : job[d].at = "compare" => [job[d] EXCEPT !.fresh = FALSE].at = "compare"
    BY <1>1 DEF JobRecords
  <2> QED
    BY <1>4, <2>1 DEF NoneLogsIn, Recount
<1>5. CASE Recount([job EXCEPT ![c].at = "visit"])
  <2>1. PICK next : next = [job EXCEPT ![c].at = "visit"]
    OBVIOUS
  <2>2. next[c].at = "visit" /\ \A d \in Clients : next[d] \in JobRecords /\ (d # c => next[d] = job[d])
    BY <1>1, <2>1 DEF JobTyped, JobRecords, Places
  <2>3. \A d \in Clients : job'[d] = IF next[d].at = "compare" THEN [next[d] EXCEPT !.fresh = FALSE]
                                    ELSE next[d]
    BY <1>5, <2>1 DEF Recount
  <2>4. \A d \in Clients : next[d].at = "compare" => [next[d] EXCEPT !.fresh = FALSE].at = "compare"
    BY <2>2 DEF JobRecords
  <2>5. ASSUME NEW d \in Clients, job'[d].at = "session" PROVE job'[d] = job[d]
    <3>1. job'[d] = next[d] /\ next[d].at = "session"
      BY <2>3, <2>4, <2>5
    <3>2. d # c
      BY <2>2, <3>1
    <3>3. next[d] = job[d]
      BY <2>2, <3>2
    <3> QED
      BY <3>1, <3>3
  <2> QED
    BY <2>5 DEF NoneLogsIn
<1> QED
  BY <1>2, <1>3, <1>4, <1>5

\* Nor does a request whose row changed count as one that knows it.
LEMMA TruthTouched ==
    ASSUME TruthInv, NEW p \in People, NEW jobs, DOMAIN jobs = Clients,
           \A c \in Clients : /\ jobs[c] \in JobRecords /\ jobs[c].who = job[c].who
                              /\ jobs[c].at = "session" => jobs[c] = job[c],
           sessions' = Stale(p), job' = Touched(p, jobs),
           \A q \in People \ {p} : users'[q] = users[q]
    PROVE  SessionsTellTheTruth' /\ JobsTellTheTruth'
<1>1. /\ \A s \in sessions : s \in SessionRecords
      /\ \A c \in Clients : job[c] \in JobRecords
  BY DEF TruthInv, Typed, AccountsTyped, JobTyped
<1>2. SessionsTellTheTruth'
  <2>1. ASSUME NEW s \in sessions', s.fresh PROVE s \in sessions /\ s.of # p /\ s.of \in People
    <3>1. PICK q \in sessions : s = IF q.of = p THEN [q EXCEPT !.fresh = FALSE] ELSE q
      BY <2>1 DEF Stale
    <3>2. q \in SessionRecords
      BY <1>1
    <3>3. CASE q.of = p
      <4>1. s.fresh = FALSE
        BY <3>1, <3>2, <3>3 DEF SessionRecords
      <4> QED
        BY <2>1, <4>1
    <3> QED
      BY <3>1, <3>2, <3>3 DEF SessionRecords
  <2> QED
    BY <2>1 DEF TruthInv, SessionsTellTheTruth, Active
<1>3. JobsTellTheTruth'
  <2>1. ASSUME NEW c \in Clients, job'[c].at = "session", job'[c].fresh
        PROVE  p \notin job[c].who /\ job'[c] = job[c]
    <3>1. job'[c] = IF p \in jobs[c].who THEN [jobs[c] EXCEPT !.fresh = FALSE] ELSE jobs[c]
      BY DEF Touched
    <3>2. [jobs[c] EXCEPT !.fresh = FALSE].fresh = FALSE
      BY DEF JobRecords
    <3>3. p \notin jobs[c].who
      BY <2>1, <3>1, <3>2
    <3> QED
      BY <2>1, <3>1, <3>3
  <2> QED
    BY <1>1, <2>1, HoldersHold DEF TruthInv, JobsTellTheTruth, Active, JobRecords
<1> QED
  BY <1>2, <1>3

LEMMA TruthWritten ==
    ASSUME TruthInv, NEW p \in People, NEW row, NEW jobs, DOMAIN jobs = Clients,
           \A c \in Clients : /\ jobs[c] \in JobRecords /\ jobs[c].who = job[c].who
                              /\ jobs[c].at = "session" => jobs[c] = job[c],
           users[p].exists => row.exists,
           Write(p, row, jobs)
    PROVE  SessionsTellTheTruth' /\ JobsTellTheTruth'
<1>1. users \in [People -> UserRecords] /\ users' = [users EXCEPT ![p] = row]
  BY DEF TruthInv, Typed, AccountsTyped, Write
<1>2. CASE row.role = users[p].role /\ row.active = users[p].active
  <2>1. RowsStay
    BY <1>1, <1>2 DEF RowsStay, Active
  <2>2. sessions' = sessions /\ job' = jobs
    BY <1>2 DEF Write
  <2>3. NoneLogsIn
    BY <2>2 DEF NoneLogsIn
  <2> QED
    BY <2>1, <2>2, <2>3, TruthKept
<1>3. CASE ~(row.role = users[p].role /\ row.active = users[p].active)
  <2>1. sessions' = Stale(p) /\ job' = Touched(p, jobs)
    BY <1>3 DEF Write
  <2>2. \A q \in People \ {p} : users'[q] = users[q]
    BY <1>1
  <2> QED
    BY <2>1, <2>2, TruthTouched
<1> QED
  BY <1>2, <1>3

LEMMA TruthStep == ASSUME TruthInv, [Next]_vars PROVE TruthInv'
<1> USE DEF TruthInv
<1>0. /\ Typed' /\ JobTyped /\ users \in [People -> UserRecords]
      /\ \A c \in Clients : job[c] \in JobRecords /\ job[c].who \in Holders /\ job[c].who \subseteq People
  BY TypedStep, HoldersHold DEF Typed, AccountsTyped, JobTyped, JobRecords
<1>1. ASSUME UNCHANGED users PROVE RowsStay
  BY <1>1 DEF RowsStay, Active
<1>2. ASSUME NEW p \in People, NEW role \in Roles, NEW password \in Secrets,
             users' = [users EXCEPT ![p] = IF @.exists THEN @
                ELSE [exists |-> TRUE, active |-> TRUE, role |-> role, password |-> password,
                      by |-> "manual"]]
      PROVE  RowsStay
  BY <1>0, <1>2, InsertTyped DEF RowsStay, Active
<1>3. ASSUME NEW p \in People, NEW password, users' = [users EXCEPT ![p].password = password]
      PROVE  RowsStay
  <2>1. \A q \in People : /\ users'[q].exists = users[q].exists /\ users'[q].active = users[q].active
                         /\ users'[q].role = users[q].role
    BY <1>0, <1>3 DEF UserRecords
  <2> QED
    BY <2>1 DEF RowsStay, Active
<1>4. ASSUME NEW c \in Clients, NEW j, job' = [job EXCEPT ![c] = j], j.at # "session"
      PROVE  NoneLogsIn
  BY <1>0, <1>4, NobodyLogsIn
<1>5. ASSUME NEW c \in Clients, job' = [job EXCEPT ![c] = Idle] PROVE NoneLogsIn
  BY <1>4, <1>5, Blank
<1>6. ASSUME job' = job PROVE NoneLogsIn
  BY <1>6 DEF NoneLogsIn
<1>7. ASSUME NEW c \in Clients, CreateAdmin(c) PROVE TruthInv'
  <2>1. PICK p \in job[c].who, v \in job[c].password : Insert(p, "admin", v)
    BY <1>7 DEF CreateAdmin
  <2>2. p \in People /\ {v} \in Secrets /\ "admin" \in Roles
    BY <1>0 DEF JobRecords, Secrets, Roles
  <2>3. RowsStay
    BY <1>2, <2>1, <2>2 DEF Insert
  <2> QED
    BY <1>0, <1>5, <1>7, <2>3, TruthKept DEF CreateAdmin
<1>8. ASSUME NEW c \in Clients, NEW p \in People, NEW role \in Roles, NEW w \in Passwords,
             CreateUser(c, p, role, w)
      PROVE  TruthInv'
  <2>1. {w} \in Secrets
    BY DEF Secrets
  <2>2. RowsStay
    BY <1>2, <1>8, <2>1 DEF CreateUser, Insert
  <2> QED
    BY <1>0, <1>6, <1>8, <2>2, TruthKept DEF CreateUser
<1>9. ASSUME NEW c \in Clients, NEW p \in People, NEW w \in Passwords, Login(c, p, w)
      PROVE  TruthInv'
  <2>1. UNCHANGED <<users, sessions>>
    BY <1>9 DEF Login, accounts
  <2>2. CASE job' = [job EXCEPT ![c] = Idle]
    BY <1>0, <1>1, <1>5, <2>1, <2>2, TruthKept
  <2>3. CASE ~(job' = [job EXCEPT ![c] = Idle])
    <3>1. PICK j : j = [Idle EXCEPT !.at = "session", !.id = Number, !.who = {p},
                                    !.role = users[p].role, !.fresh = TRUE]
      OBVIOUS
    <3>2. job' = [job EXCEPT ![c] = j] /\ Active(p)
      BY <1>9, <2>3, <3>1 DEF Login, Set
    <3>3. j.who = {p} /\ j.role = users[p].role
      BY <3>1, Blank DEF JobRecords
    <3>4. job'[c] = j /\ \A d \in Clients \ {c} : job'[d] = job[d]
      BY <1>0, <3>2 DEF JobTyped
    <3> QED
      BY <1>0, <2>1, <3>2, <3>3, <3>4 DEF SessionsTellTheTruth, JobsTellTheTruth, Active
  <2> QED
    BY <2>2, <2>3
<1>10. ASSUME NEW c \in Clients, CreateSession(c) PROVE TruthInv'
  <2>1. UNCHANGED users /\ job' = [job EXCEPT ![c] = Idle]
    BY <1>10 DEF CreateSession, Done, Set
  <2>2. NoneLogsIn
    BY <1>5, <2>1
  <2>3. JobsTellTheTruth'
    BY <2>1, <2>2 DEF NoneLogsIn, JobsTellTheTruth, Active
  <2>4. ASSUME NEW s \in sessions', s.fresh PROVE Active(s.of) /\ users[s.of].role = s.role
    <3>1. CASE s \in sessions
      BY <2>4, <3>1 DEF SessionsTellTheTruth
    <3>2. CASE s \notin sessions
      <4>1. PICK p \in job[c].who :
                s = [n |-> job[c].id, of |-> p, role |-> job[c].role, fresh |-> job[c].fresh]
        BY <1>10, <2>4, <3>2 DEF CreateSession
      <4> QED
        BY <1>10, <2>4, <4>1 DEF CreateSession, JobsTellTheTruth
    <3> QED
      BY <3>1, <3>2
  <2> QED
    BY <1>0, <2>1, <2>3, <2>4 DEF SessionsTellTheTruth, Active
<1>11. ASSUME NEW c \in Clients, NEW claimed \in Roles, Provision(c, claimed) PROVE TruthInv'
  <2>1. PICK j : j = [job[c] EXCEPT !.at = "readBack", !.role = claimed]
    OBVIOUS
  <2>2. PICK next : next = [job EXCEPT ![c] = j]
    OBVIOUS
  <2>3. PICK p \in job[c].who : Write(p, Claimed(users[p], claimed), next)
    BY <1>11, <2>1, <2>2 DEF Provision
  <2>4. j \in JobRecords /\ j.who = job[c].who /\ j.at = "readBack"
    BY <1>0, <2>1 DEF JobRecords, Places
  <2>5. /\ DOMAIN next = Clients
        /\ \A d \in Clients : /\ next[d] \in JobRecords /\ next[d].who = job[d].who
                              /\ next[d].at = "session" => next[d] = job[d]
    BY <1>0, <2>2, <2>4 DEF JobTyped
  <2>6. p \in People /\ Claimed(users[p], claimed).exists
    BY <1>0, ClaimedTyped
  <2> QED
    BY <1>0, <2>3, <2>5, <2>6, TruthWritten
<1>33. ASSUME NEW c \in Clients, ReadBack(c) PROVE TruthInv'
  <2>1. PICK p \in job[c].who :
            Set(c, IF Active(p)
                   THEN [job[c] EXCEPT !.at = "session", !.role = users[p].role, !.fresh = TRUE]
                   ELSE Idle)
    BY <1>33 DEF ReadBack
  <2>2. UNCHANGED <<users, sessions>> /\ RowsStay
    BY <1>1, <1>33 DEF ReadBack, accounts
  <2>3. CASE ~Active(p)
    BY <1>0, <1>5, <2>1, <2>2, <2>3, TruthKept DEF Set
  <2>4. CASE Active(p)
    <3>1. PICK j : j = [job[c] EXCEPT !.at = "session", !.role = users[p].role, !.fresh = TRUE]
      OBVIOUS
    <3>2. j.role = users[p].role /\ j.who = job[c].who
      BY <1>0, <3>1 DEF JobRecords
    <3>3. job'[c] = j /\ \A d \in Clients \ {c} : job'[d] = job[d]
      BY <1>0, <2>1, <2>4, <3>1 DEF JobTyped, Set
    <3>4. \A q \in job[c].who : q = p
      BY <1>0, HoldersHold
    <3>6. JobsTellTheTruth'
      BY <1>0, <2>2, <2>4, <3>2, <3>3, <3>4 DEF JobsTellTheTruth, Active
    <3>7. SessionsTellTheTruth'
      BY <2>2 DEF SessionsTellTheTruth, Active
    <3> QED
      BY <1>0, <3>6, <3>7
  <2> QED
    BY <2>3, <2>4
<1>12. ASSUME NEW c \in Clients, UpdatePassword(c) PROVE TruthInv'
  <2>1. PICK p \in job[c].who : users' = [users EXCEPT ![p].password = job[c].password]
    BY <1>12 DEF UpdatePassword
  <2>2. RowsStay
    BY <1>0, <1>3, <2>1
  <2> QED
    BY <1>0, <1>5, <1>12, <2>2, TruthKept DEF UpdatePassword, Done, Set
<1>13. ASSUME NEW c \in Clients, NEW p \in People, NEW w \in Passwords, UpdateUserPassword(c, p, w)
       PROVE  TruthInv'
  <2>1. RowsStay
    BY <1>3, <1>13 DEF UpdateUserPassword
  <2> QED
    BY <1>0, <1>6, <1>13, <2>1, TruthKept DEF UpdateUserPassword
<1>14. ASSUME NEW c \in Clients, NEW p \in People,
              DeleteUser(c, p) \/ \E role \in Roles : UpdateUserRole(c, p, role)
       PROVE  TruthInv'
  <2>1. PICK row : Write(p, row, job) /\ (users[p].exists => row.exists)
    <3>1. \A role \in Roles : /\ [users[p] EXCEPT !.role = role].exists = users[p].exists
                              /\ [users[p] EXCEPT !.active = FALSE].exists = users[p].exists
      BY <1>0 DEF UserRecords
    <3>2. "viewer" \in Roles
      BY DEF Roles
    <3> QED
      BY <1>14, <3>1, <3>2 DEF DeleteUser, UpdateUserRole
  <2>2. DOMAIN job = Clients
    BY <1>0 DEF JobTyped
  <2> QED
    BY <1>0, <2>1, <2>2, TruthWritten
<1>15. ASSUME UNCHANGED users, NoneLogsIn, sessions' \subseteq sessions PROVE TruthInv'
  BY <1>0, <1>1, <1>15, TruthKept
<1>16. ASSUME NEW c \in Clients, NEW place, place # "session", UNCHANGED users, sessions' \subseteq sessions,
              job' = [job EXCEPT ![c] = [job[c] EXCEPT !.at = place]]
       PROVE  TruthInv'
  <2>1. [job[c] EXCEPT !.at = place].at # "session"
    BY <1>0, <1>16 DEF JobRecords
  <2> QED
    BY <1>4, <1>15, <1>16, <2>1
<1>17. ASSUME NEW c \in Clients, UNCHANGED users, sessions' \subseteq sessions,
              job' = job \/ job' = [job EXCEPT ![c] = Idle]
       PROVE  TruthInv'
  BY <1>5, <1>6, <1>15, <1>17
<1>18. ASSUME NEW c \in Clients, \/ SaveState(c) \/ NoReset(c) \/ Fails(c) \/ Stream(c) \/ GenerateCode(c)
                                 \/ OpenVisit(c) \/ Delete(c)
                                 \/ \E s \in sessions : Logout(c, s)
                                 \/ \E p \in People : Forgot(c, p)
                                 \/ \E role \in Roles : CreateKey(c, role)
                                 \/ \E k \in keys : RevokeKey(c, k)
                                 \/ \E disabled \in BOOLEAN : Disable(c, disabled)
       PROVE  TruthInv'
  <2>1. UNCHANGED users /\ sessions' \subseteq sessions
    BY <1>18 DEF SaveState, NoReset, Fails, Stream, GenerateCode, OpenVisit, Delete, Logout, Forgot,
                 CreateKey, RevokeKey, Disable, accounts
  <2>2. job' = job \/ job' = [job EXCEPT ![c] = Idle]
    BY <1>18 DEF SaveState, NoReset, Fails, Stream, GenerateCode, OpenVisit, Delete, Logout, Forgot,
                 CreateKey, RevokeKey, Disable, Done, Set
  <2> QED
    BY <1>17, <2>1, <2>2
<1>19. ASSUME NEW c \in Clients, \/ TakeState(c) \/ DropSecret(c) \/ CompareCode(c) \/ DropCode(c)
       PROVE  TruthInv'
  <2>1. UNCHANGED users /\ sessions' \subseteq sessions
    BY <1>19 DEF TakeState, DropSecret, CompareCode, DropCode, accounts
  <2>2. \/ job' = [job EXCEPT ![c] = Idle]
        \/ \E place \in Places \ {"session"} : job' = [job EXCEPT ![c] = [job[c] EXCEPT !.at = place]]
    BY <1>19 DEF TakeState, DropSecret, CompareCode, DropCode, Done, Set, Places
  <2> QED
    BY <1>16, <1>17, <2>1, <2>2
<1>20. ASSUME NEW c \in Clients, NEW p \in People, NEW w \in Passwords, CountUsers(c, p, w)
       PROVE  TruthInv'
  <2>1. PICK j : j = [Idle EXCEPT !.at = "setup", !.who = {p}, !.password = {w}]
    OBVIOUS
  <2>2. j.at = "setup"
    BY <2>1, Blank DEF JobRecords
  <2>3. (job' = [job EXCEPT ![c] = Idle] \/ job' = [job EXCEPT ![c] = j]) /\ UNCHANGED accounts
    BY <1>20, <2>1 DEF CountUsers, Set
  <2> QED
    BY <1>4, <1>5, <1>15, <2>2, <2>3 DEF accounts
<1>21. ASSUME NEW c \in Clients, NEW n \in 1..requests, NEW w \in Passwords, Reset(c, n, w)
       PROVE  TruthInv'
  <2>1. PICK j : j = [Idle EXCEPT !.at = "take", !.n = n, !.password = {w}]
    OBVIOUS
  <2>2. j.at = "take"
    BY <2>1, Blank DEF JobRecords
  <2>3. job' = [job EXCEPT ![c] = j] /\ UNCHANGED accounts
    BY <1>21, <2>1 DEF Reset, Set
  <2> QED
    BY <1>4, <1>15, <2>2, <2>3 DEF accounts
<1>22. ASSUME NEW c \in Clients, NEW n \in 1..requests, Callback(c, n) PROVE TruthInv'
  <2>1. PICK j : j = [Idle EXCEPT !.at = "takeState", !.id = Number, !.n = n]
    OBVIOUS
  <2>2. j.at = "takeState"
    BY <2>1, Blank DEF JobRecords
  <2>3. job' = [job EXCEPT ![c] = j] /\ UNCHANGED accounts
    BY <1>22, <2>1 DEF Callback, Set
  <2> QED
    BY <1>4, <1>15, <2>2, <2>3 DEF accounts
<1>23. ASSUME NEW c \in Clients, NEW p \in People, Exchange(c, p) PROVE TruthInv'
  <2>1. [job[c] EXCEPT !.at = "provision", !.who = {p}].at # "session"
    BY <1>0 DEF JobRecords
  <2> QED
    BY <1>4, <1>15, <1>23, <2>1 DEF Exchange, Set, accounts
<1>24. ASSUME NEW c \in Clients, TakeReset(c) \/ SelectReset(c) PROVE TruthInv'
  <2>1. PICK r \in resets, place \in {"took", "reset"} :
            job' = [job EXCEPT ![c] = [job[c] EXCEPT !.at = place, !.who = {r.of}]]
    BY <1>24 DEF TakeReset, SelectReset, Set
  <2>2. [job[c] EXCEPT !.at = place, !.who = {r.of}].at # "session"
    BY <1>0 DEF JobRecords
  <2>3. UNCHANGED <<users, sessions>>
    BY <1>24 DEF TakeReset, SelectReset, accounts
  <2> QED
    BY <1>4, <1>15, <2>1, <2>2, <2>3
<1>25. ASSUME NEW c \in Clients, Download(c) \/ PublicDownload(c) PROVE TruthInv'
  <2>1. Open(c)
    BY <1>25 DEF Download, PublicDownload
  <2>2. [Idle EXCEPT !.at = "stream"].at # "session"
    BY Blank DEF JobRecords
  <2> QED
    BY <1>4, <1>15, <2>1, <2>2 DEF Open, Set, accounts
<1>26. ASSUME NEW c \in Clients, NEW n \in {0, code.n}, CountAttempt(c, n) PROVE TruthInv'
  <2>1. PICK j : j = [Idle EXCEPT !.at = "compare", !.id = Number, !.n = n, !.fresh = TRUE]
    OBVIOUS
  <2>2. j.at = "compare"
    BY <2>1, Blank DEF JobRecords
  <2>3. (job' = [job EXCEPT ![c] = Idle] \/ job' = [job EXCEPT ![c] = j]) /\ UNCHANGED accounts
    BY <1>26, <2>1 DEF CountAttempt, Set
  <2> QED
    BY <1>4, <1>5, <1>15, <2>2, <2>3 DEF accounts
<1>27. ASSUME NEW c \in Clients, DropCount(c) PROVE TruthInv'
  <2>1. \/ Recount([job EXCEPT ![c].at = "visit"])
        \/ job' = [job EXCEPT ![c] = [job[c] EXCEPT !.at = "visit"]]
    BY <1>27 DEF DropCount
  <2>2. UNCHANGED <<users, sessions>>
    BY <1>27 DEF DropCount, accounts
  <2> QED
    BY <1>0, <1>15, <1>16, <2>1, <2>2, NobodyLogsIn
<1>28. ASSUME NEW c \in Clients, NEW n \in {0, code.n}, Verify(c, n) PROVE TruthInv'
  <2>1. (job' = job \/ Recount(job)) /\ UNCHANGED <<users, sessions>>
    BY <1>28 DEF Verify, accounts
  <2> QED
    BY <1>0, <1>15, <2>1, NobodyLogsIn
<1>29. CASE CountExpires
  <2>1. NoneLogsIn
    <3>1. CASE Clients = {}
      BY <3>1 DEF NoneLogsIn
    <3> QED
      BY <1>0, <1>29, <3>1, NobodyLogsIn DEF CountExpires
  <2> QED
    BY <1>15, <1>29, <2>1 DEF CountExpires, accounts
<1>30. CASE \/ \E s \in sessions : SessionEnds(s)
            \/ \E n \in states \cup {r.n : r \in resets} : Expires(n)
            \/ CodeExpires
            \/ UNCHANGED vars
  <2>1. UNCHANGED users /\ sessions' \subseteq sessions /\ job' = job
    BY <1>30 DEF SessionEnds, Expires, CodeExpires, vars, accounts
  <2> QED
    BY <1>6, <1>15, <2>1
<1>31. CASE AccountsNext
  BY <1>7, <1>8, <1>9, <1>10, <1>11, <1>12, <1>13, <1>14, <1>18, <1>19, <1>20, <1>21, <1>22, <1>23, <1>24,
     <1>30, <1>31, <1>33 DEF AccountsNext
<1>32. CASE Next /\ ~AccountsNext
  BY <1>18, <1>19, <1>25, <1>26, <1>27, <1>28, <1>29, <1>30, <1>32 DEF Next
<1> QED
  BY <1>30, <1>31, <1>32

\* A session says of its user what the table says, until the row changes.
THEOREM SessionsAgree == Spec => []SessionsTellTheTruth
<1>1. Init => TruthInv
  <2> SUFFICES ASSUME Init PROVE TruthInv
    OBVIOUS
  <2>1. sessions = {} /\ \A c \in Clients : job[c].at = "idle"
    BY Blank DEF Init, AccountsInit
  <2> QED
    BY <2>1, InitTyped DEF TruthInv, SessionsTellTheTruth, JobsTellTheTruth
<1>2. TruthInv => SessionsTellTheTruth
  BY DEF TruthInv
<1> QED
  BY <1>1, <1>2, TruthStep, PTL DEF Spec

-----------------------------------------------------------------------------
(* Attempts at a code.                                                     *)

\* Requests that were counted and have yet to compare.
Counted == {c \in Clients : job[c].at = "compare" /\ job[c].fresh}

GuessInv ==
    /\ Typed
    /\ guesses + Cardinality(Counted) <= tries
    /\ guesses + Cardinality(Counted) <= MaxAttempts

\* Where a request has something at hand that others may want.
Holding == {"took", "compare", "dropCode"}

Rests(c) ==
    job'[c].at = job[c].at /\ job'[c].n = job[c].n /\ (job'[c].fresh => job[c].fresh)

\* A step after which nobody holds more than before.
NobodyTakes == \A c \in Clients : Rests(c) \/ job'[c].at \notin Holding

LEMMA Moves ==
    ASSUME JobTyped, NEW c \in Clients,
           \/ job' = job
           \/ job' = [job EXCEPT ![c] = Idle]
           \/ \E j : job' = [job EXCEPT ![c] = j] /\ j.at \notin Holding
           \/ \E p \in People : \E row : Write(p, row, job)
           \/ \E p \in People : \E row, j :
                  /\ Write(p, row, [job EXCEPT ![c] = j]) /\ j \in JobRecords
                  /\ j.at \notin Holding
    PROVE  NobodyTakes
<1>1. CASE job' = job
  BY <1>1 DEF NobodyTakes, Rests
<1>2. CASE \E j : job' = [job EXCEPT ![c] = j] /\ j.at \notin Holding
  BY <1>2 DEF NobodyTakes, Rests, JobTyped
<1>3. CASE job' = [job EXCEPT ![c] = Idle]
  BY <1>2, <1>3, Blank DEF Holding
<1>4. ASSUME NEW p \in People, NEW row, NEW jobs, DOMAIN jobs = Clients, Write(p, row, jobs),
             \A d \in Clients :
                 /\ jobs[d] \in JobRecords
                 /\ jobs[d] = job[d] \/ jobs[d].at \notin Holding
      PROVE  NobodyTakes
  <2>1. ASSUME NEW d \in Clients PROVE Rests(d) \/ job'[d].at \notin Holding
    <3>1. job'[d] = jobs[d] \/ job'[d] = [jobs[d] EXCEPT !.fresh = FALSE]
      <4>1. job' = jobs \/ job' = Touched(p, jobs)
        BY <1>4 DEF Write
      <4>2. Touched(p, jobs)[d] = jobs[d] \/ Touched(p, jobs)[d] = [jobs[d] EXCEPT !.fresh = FALSE]
        BY DEF Touched
      <4> QED
        BY <4>1, <4>2
    <3>2. CASE job'[d] = jobs[d]
      BY <1>4, <3>2 DEF Rests
    <3>3. CASE job'[d] = [jobs[d] EXCEPT !.fresh = FALSE]
      <4>1. /\ job'[d].at = jobs[d].at /\ job'[d].n = jobs[d].n /\ job'[d].fresh = FALSE
        BY <1>4, <3>3 DEF JobRecords
      <4> QED
        BY <1>4, <4>1 DEF Rests
    <3> QED
      BY <3>1, <3>2, <3>3
  <2> QED
    BY <2>1 DEF NobodyTakes
<1>5. ASSUME NEW p \in People, NEW row, Write(p, row, job) PROVE NobodyTakes
  BY <1>4, <1>5 DEF JobTyped
<1>6. ASSUME NEW p \in People, NEW row, NEW j \in JobRecords, j.at \notin Holding,
             Write(p, row, [job EXCEPT ![c] = j])
      PROVE  NobodyTakes
  <2>1. PICK jobs : jobs = [job EXCEPT ![c] = j]
    OBVIOUS
  <2>2. DOMAIN jobs = Clients /\ jobs[c] = j /\ \A d \in Clients \ {c} : jobs[d] = job[d]
    BY <2>1 DEF JobTyped
  <2>3. \A d \in Clients : jobs[d] \in JobRecords /\ (jobs[d] = job[d] \/ jobs[d].at \notin Holding)
    BY <1>6, <2>2 DEF JobTyped
  <2>4. Write(p, row, jobs)
    BY <1>6, <2>1
  <2> QED
    BY <1>4, <2>2, <2>3, <2>4
<1> QED
  BY <1>1, <1>2, <1>3, <1>5, <1>6

LEMMA FileUntouched == ASSUME AccountsNext PROVE UNCHANGED downloads
  BY DEF AccountsNext, CountUsers, Login, UpdateUserPassword, CreateUser, CreateAdmin, CreateSession,
         SaveState, TakeState, DropSecret, TakeReset, SelectReset, NoReset, UpdatePassword, Fails, Logout,
         SessionEnds, Reset, Callback, Expires, Exchange, Forgot, DeleteUser, UpdateUserRole, Provision,
         ReadBack, CreateKey, RevokeKey

\* Two steps on accounts are no such steps: a state or a token is selected.
LEMMA AccountsMoves ==
    ASSUME JobTyped, AccountsNext, \A c \in Clients : ~TakeState(c) /\ ~SelectReset(c)
    PROVE  NobodyTakes
<1>a. \A c \in Clients : job[c] \in JobRecords
  BY DEF JobTyped
<1>b. ASSUME NEW c \in Clients, NEW j, job' = [job EXCEPT ![c] = j], j.at \notin Holding
      PROVE  NobodyTakes
  BY <1>b, Moves
<1>c. ASSUME NEW c \in Clients, job' = job \/ job' = [job EXCEPT ![c] = Idle] PROVE NobodyTakes
  BY <1>c, Moves
<1>d. ASSUME NEW c \in Clients, NEW place, place \notin Holding,
             job' = [job EXCEPT ![c] = [job[c] EXCEPT !.at = place]]
      PROVE  NobodyTakes
  <2>1. [job[c] EXCEPT !.at = place].at \notin Holding
    BY <1>a, <1>d DEF JobRecords
  <2> QED
    BY <1>b, <1>d, <2>1
<1>1. ASSUME NEW c \in Clients, \/ CreateAdmin(c) \/ CreateSession(c) \/ SaveState(c) \/ NoReset(c)
                                \/ UpdatePassword(c) \/ Fails(c)
                                \/ \E s \in sessions : Logout(c, s)
                                \/ \E p \in People : Forgot(c, p)
                                \/ \E role \in Roles : CreateKey(c, role)
                                \/ \E k \in keys : RevokeKey(c, k)
                                \/ \E p \in People, w \in Passwords : UpdateUserPassword(c, p, w)
                                \/ \E p \in People, role \in Roles, w \in Passwords :
                                       CreateUser(c, p, role, w)
      PROVE  NobodyTakes
  <2>1. job' = job \/ job' = [job EXCEPT ![c] = Idle]
    BY <1>1 DEF CreateAdmin, CreateSession, SaveState, NoReset, UpdatePassword, Fails, Logout, Forgot,
                CreateKey, RevokeKey, UpdateUserPassword, CreateUser, Done, Set
  <2> QED
    BY <1>c, <2>1
<1>2. ASSUME NEW c \in Clients, DropSecret(c) PROVE NobodyTakes
  <2>1. \E place \in {"exchange", "reset"} : job' = [job EXCEPT ![c] = [job[c] EXCEPT !.at = place]]
    BY <1>2 DEF DropSecret, Set
  <2> QED
    BY <1>d, <2>1 DEF Holding
<1>3. ASSUME NEW c \in Clients, NEW p \in People, NEW w \in Passwords, CountUsers(c, p, w)
      PROVE  NobodyTakes
  <2>1. PICK j : j = [Idle EXCEPT !.at = "setup", !.who = {p}, !.password = {w}]
    OBVIOUS
  <2>2. j.at = "setup"
    BY <2>1, Blank DEF JobRecords
  <2> QED
    BY <1>b, <1>c, <1>3, <2>1, <2>2 DEF CountUsers, Set, Holding
<1>4. ASSUME NEW c \in Clients, NEW p \in People, NEW w \in Passwords, Login(c, p, w)
      PROVE  NobodyTakes
  <2>1. PICK j : j = [Idle EXCEPT !.at = "session", !.id = Number, !.who = {p},
                                  !.role = users[p].role, !.fresh = TRUE]
    OBVIOUS
  <2>2. j.at = "session"
    BY <2>1, Blank DEF JobRecords
  <2> QED
    BY <1>b, <1>c, <1>4, <2>1, <2>2 DEF Login, Set, Holding
<1>5. ASSUME NEW c \in Clients, NEW n \in 1..requests, NEW w \in Passwords, Reset(c, n, w)
      PROVE  NobodyTakes
  <2>1. PICK j : j = [Idle EXCEPT !.at = "take", !.n = n, !.password = {w}]
    OBVIOUS
  <2>2. j.at = "take"
    BY <2>1, Blank DEF JobRecords
  <2> QED
    BY <1>b, <1>5, <2>1, <2>2 DEF Reset, Set, Holding
<1>6. ASSUME NEW c \in Clients, NEW n \in 1..requests, Callback(c, n) PROVE NobodyTakes
  <2>1. PICK j : j = [Idle EXCEPT !.at = "takeState", !.id = Number, !.n = n]
    OBVIOUS
  <2>2. j.at = "takeState"
    BY <2>1, Blank DEF JobRecords
  <2> QED
    BY <1>b, <1>6, <2>1, <2>2 DEF Callback, Set, Holding
<1>7. ASSUME NEW c \in Clients, NEW p \in People, Exchange(c, p) PROVE NobodyTakes
  <2>1. [job[c] EXCEPT !.at = "provision", !.who = {p}].at \notin Holding
    BY <1>a DEF JobRecords, Holding
  <2> QED
    BY <1>b, <1>7, <2>1 DEF Exchange, Set
<1>8. ASSUME NEW c \in Clients, TakeReset(c) PROVE NobodyTakes
  <2>1. PICK r \in resets : job' = [job EXCEPT ![c] = [job[c] EXCEPT !.at = "reset", !.who = {r.of}]]
    BY <1>8 DEF TakeReset, Set
  <2>2. [job[c] EXCEPT !.at = "reset", !.who = {r.of}].at \notin Holding
    BY <1>a DEF JobRecords, Holding
  <2> QED
    BY <1>b, <2>1, <2>2
<1>9. ASSUME NEW c \in Clients, NEW claimed \in Roles, Provision(c, claimed) PROVE NobodyTakes
  <2>1. PICK j : j = [job[c] EXCEPT !.at = "readBack", !.role = claimed]
    OBVIOUS
  <2>2. j \in JobRecords /\ j.at \notin Holding
    BY <1>a, <2>1 DEF JobRecords, Places, Holding
  <2>3. \E p \in People : \E row : Write(p, row, [job EXCEPT ![c] = j])
    BY <1>9, <1>a, <2>1, HoldersHold DEF Provision, JobRecords
  <2> QED
    BY <2>2, <2>3, Moves
<1>12. ASSUME NEW c \in Clients, ReadBack(c) PROVE NobodyTakes
  <2>1. PICK p : job' = [job EXCEPT ![c] =
            IF Active(p)
            THEN [job[c] EXCEPT !.at = "session", !.role = users[p].role, !.fresh = TRUE] ELSE Idle]
    BY <1>12 DEF ReadBack, Set
  <2>2. [job[c] EXCEPT !.at = "session", !.role = users[p].role, !.fresh = TRUE].at \notin Holding
    BY <1>a DEF JobRecords, Holding
  <2> QED
    BY <1>b, <1>c, <1>12, <2>1, <2>2
<1>10. ASSUME NEW c \in Clients, NEW p \in People,
              DeleteUser(c, p) \/ \E role \in Roles : UpdateUserRole(c, p, role)
       PROVE  NobodyTakes
  <2>1. \E row : Write(p, row, job)
    BY <1>10 DEF DeleteUser, UpdateUserRole
  <2> QED
    BY <1>a, <1>10, <2>1, Moves
<1>11. CASE \/ \E s \in sessions : SessionEnds(s)
            \/ \E n \in states \cup {r.n : r \in resets} : Expires(n)
  <2>1. job' = job
    BY <1>11 DEF SessionEnds, Expires
  <2> QED
    BY <2>1 DEF NobodyTakes, Rests
<1> QED
  BY <1>1, <1>2, <1>3, <1>4, <1>5, <1>6, <1>7, <1>8, <1>9, <1>10, <1>11, <1>12 DEF AccountsNext

\* A step that is no attempt adds none to the counted.
NoAttempt ==
    \A c \in Clients : job'[c].at = "compare" /\ job'[c].fresh => job[c].at = "compare" /\ job[c].fresh

LEMMA NobodyAttempts ==
    ASSUME JobTyped, NEW c \in Clients,
           \/ job' = job
           \/ \E j : job' = [job EXCEPT ![c] = j] /\ j.at # "compare"
    PROVE  NoAttempt
<1>1. CASE job' = job
  BY <1>1 DEF NoAttempt
<1>2. CASE \E j : job' = [job EXCEPT ![c] = j] /\ j.at # "compare"
  BY <1>2 DEF NoAttempt, JobTyped
<1> QED
  BY <1>1, <1>2

LEMMA CountedFinite ==
    /\ IsFiniteSet(Counted) /\ Cardinality(Counted) \in Nat
    /\ IsFiniteSet(Counted') /\ Cardinality(Counted') \in Nat
<1>1. Counted \subseteq Clients /\ Counted' \subseteq Clients
  BY DEF Counted
<1> QED
  BY <1>1, AccountsAssumption, FS_Subset, FS_CardinalityType

LEMMA GuessKept ==
    ASSUME GuessInv, Typed', NoAttempt, guesses' = guesses, tries <= tries'
    PROVE  GuessInv'
<1>1. Counted' \subseteq Counted
  BY DEF NoAttempt, Counted
<1>2. Cardinality(Counted') <= Cardinality(Counted)
  BY <1>1, CountedFinite, FS_Subset
<1>3. guesses \in Nat /\ tries \in Nat /\ tries' \in Nat /\ MaxAttempts \in Nat
  BY DownloadsAssumption DEF GuessInv, Typed, FileTyped
<1>4. ASSUME NEW a \in Nat, NEW b \in Nat, NEW g \in Nat, NEW t \in Nat, NEW u \in Nat, NEW m \in Nat,
             a <= b, g + b <= t, g + b <= m, t <= u
      PROVE  g + a <= u /\ g + a <= m
  BY <1>4
<1>5. guesses' + Cardinality(Counted') <= tries' /\ guesses' + Cardinality(Counted') <= MaxAttempts
  BY <1>2, <1>3, <1>4, CountedFinite DEF GuessInv
<1> QED
  BY <1>5 DEF GuessInv

LEMMA GuessRecounted ==
    ASSUME Typed', NEW jobs, DOMAIN jobs = Clients, \A c \in Clients : jobs[c] \in JobRecords, Recount(jobs)
    PROVE  GuessInv'
<1>1. \A c \in Clients : LET j == [jobs[c] EXCEPT !.fresh = FALSE] IN j.fresh = FALSE
  BY DEF JobRecords
<1>2. \A c \in Clients : job'[c] = IF jobs[c].at = "compare" THEN [jobs[c] EXCEPT !.fresh = FALSE]
                                  ELSE jobs[c]
  BY DEF Recount
<1>3. Counted' = {}
  BY <1>1, <1>2 DEF Counted
<1>4. guesses' + Cardinality(Counted') = 0 /\ tries' = 0
  BY <1>3, FS_EmptySet DEF Recount
<1> QED
  BY <1>4, DownloadsAssumption DEF GuessInv

LEMMA GuessStep == ASSUME GuessInv, [Next]_vars PROVE GuessInv'
<1>0. Typed /\ Typed' /\ JobTyped /\ \A c \in Clients : job[c] \in JobRecords
  BY TypedStep DEF GuessInv, Typed, JobTyped
<1>1. /\ guesses \in Nat /\ tries \in 0..(MaxAttempts + 1) /\ MaxAttempts \in Nat
      /\ Cardinality(Counted) \in Nat /\ IsFiniteSet(Counted)
  BY <1>0, DownloadsAssumption, CountedFinite DEF Typed, FileTyped
<1>2. ASSUME NoAttempt, guesses' = guesses, tries' = tries PROVE GuessInv'
  BY <1>0, <1>1, <1>2, GuessKept
<1>3. ASSUME NEW c \in Clients, NEW j, job' = [job EXCEPT ![c] = j], j.at # "compare"
      PROVE  NoAttempt
  BY <1>0, <1>3, NobodyAttempts
<1>4. ASSUME NEW c \in Clients, job' = job \/ job' = [job EXCEPT ![c] = Idle] PROVE NoAttempt
  BY <1>0, <1>4, NobodyAttempts, Blank
<1>5. ASSUME NEW c \in Clients, NEW place, place # "compare",
             job' = [job EXCEPT ![c] = [job[c] EXCEPT !.at = place]]
      PROVE  NoAttempt
  <2>1. [job[c] EXCEPT !.at = place].at # "compare"
    BY <1>0, <1>5 DEF JobRecords
  <2> QED
    BY <1>3, <1>5, <2>1
<1>6. ASSUME AccountsNext PROVE GuessInv'
  <2>1. UNCHANGED downloads
    BY <1>6, FileUntouched
  <2>2. CASE \A c \in Clients : ~TakeState(c) /\ ~SelectReset(c)
    <3>1. NobodyTakes
      BY <1>0, <1>6, <2>2, AccountsMoves
    <3>2. NoAttempt
      BY <3>1 DEF NobodyTakes, NoAttempt, Rests, Holding
    <3> QED
      BY <1>2, <2>1, <3>2 DEF downloads
  <2>3. ASSUME NEW c \in Clients, TakeState(c) PROVE NoAttempt
    <3>1. \/ job' = [job EXCEPT ![c] = Idle]
          \/ \E place \in {"exchange", "took"} : job' = [job EXCEPT ![c] = [job[c] EXCEPT !.at = place]]
      BY <2>3 DEF TakeState, Done, Set
    <3> QED
      BY <1>4, <1>5, <3>1
  <2>4. ASSUME NEW c \in Clients, SelectReset(c) PROVE NoAttempt
    <3>1. PICK r \in resets : job' = [job EXCEPT ![c] = [job[c] EXCEPT !.at = "took", !.who = {r.of}]]
      BY <2>4 DEF SelectReset, Set
    <3>2. [job[c] EXCEPT !.at = "took", !.who = {r.of}].at # "compare"
      BY <1>0 DEF JobRecords
    <3> QED
      BY <1>3, <3>1, <3>2
  <2> QED
    BY <1>2, <2>1, <2>2, <2>3, <2>4 DEF downloads
<1>7. ASSUME NEW c \in Clients, \/ GenerateCode(c) \/ OpenVisit(c) \/ Stream(c) \/ Delete(c)
                                \/ \E disabled \in BOOLEAN : Disable(c, disabled)
      PROVE  GuessInv'
  <2>1. job' = job \/ job' = [job EXCEPT ![c] = Idle]
    BY <1>7 DEF GenerateCode, OpenVisit, Stream, Delete, Disable, Done, Set
  <2> QED
    BY <1>2, <1>4, <1>7, <2>1 DEF GenerateCode, OpenVisit, Stream, Delete, Disable, downloads
<1>8. ASSUME NEW c \in Clients, DropCode(c) PROVE GuessInv'
  BY <1>2, <1>5, <1>8 DEF DropCode, Set
<1>9. ASSUME NEW c \in Clients, Download(c) \/ PublicDownload(c) PROVE GuessInv'
  <2>1. Open(c)
    BY <1>9 DEF Download, PublicDownload
  <2>2. [Idle EXCEPT !.at = "stream"].at # "compare"
    BY Blank DEF JobRecords
  <2> QED
    BY <1>2, <1>3, <2>1, <2>2 DEF Open, Set, downloads
<1>10. ASSUME NEW c \in Clients, NEW n \in {0, code.n}, CountAttempt(c, n) PROVE GuessInv'
  <2>1. guesses' = guesses /\ tries' = OneMore
    BY <1>10 DEF CountAttempt
  <2>2. CASE tries' > MaxAttempts
    <3>1. NoAttempt
      BY <1>4, <1>10, <2>2 DEF CountAttempt, Set
    <3>2. tries <= tries'
      BY <1>1, <2>1 DEF OneMore
    <3> QED
      BY <1>0, <2>1, <3>1, <3>2, GuessKept
  <2>3. CASE ~(tries' > MaxAttempts)
    <3>1. PICK j : j = [Idle EXCEPT !.at = "compare", !.id = Number, !.n = n, !.fresh = TRUE]
      OBVIOUS
    <3>2. job' = [job EXCEPT ![c] = j] /\ job[c].at = "idle"
      BY <1>10, <2>3, <3>1 DEF CountAttempt, Request, Set
    <3>3. Counted' \subseteq Counted \cup {c} /\ c \notin Counted
      BY <1>0, <3>2 DEF Counted, JobTyped
    <3>4. Cardinality(Counted \cup {c}) = Cardinality(Counted) + 1 /\ IsFiniteSet(Counted \cup {c})
      BY <1>1, <3>3, FS_AddElement
    <3>5. Cardinality(Counted') <= Cardinality(Counted) + 1
      BY <3>3, <3>4, FS_Subset
    <3>6. tries' = tries + 1 /\ tries + 1 <= MaxAttempts
      BY <1>1, <2>1, <2>3 DEF OneMore
    <3>7. Cardinality(Counted') \in Nat /\ guesses + Cardinality(Counted) <= tries
      BY CountedFinite DEF GuessInv
    <3>8. guesses' + Cardinality(Counted') <= tries' /\ guesses' + Cardinality(Counted') <= MaxAttempts
      BY <1>1, <2>1, <3>5, <3>6, <3>7
    <3> QED
      BY <1>0, <3>8 DEF GuessInv
  <2> QED
    BY <2>2, <2>3
<1>11. ASSUME NEW c \in Clients, CompareCode(c) PROVE GuessInv'
  <2>1. \/ job' = [job EXCEPT ![c] = Idle]
        \/ job' = [job EXCEPT ![c] = [job[c] EXCEPT !.at = "dropCode"]]
    BY <1>11 DEF CompareCode, Done, Set
  <2>2. NoAttempt
    BY <1>4, <1>5, <2>1
  <2>3. tries' = tries
    BY <1>11 DEF CompareCode
  <2>4. CASE guesses' = guesses
    BY <1>2, <2>2, <2>3, <2>4
  <2>5. CASE guesses' # guesses
    <3>1. guesses' = guesses + 1 /\ c \in Counted
      BY <1>11, <2>5 DEF CompareCode, Counted
    <3>2. job'[c].at # "compare"
      BY <1>0, <2>1, Blank DEF JobTyped, JobRecords
    <3>3. Counted' \subseteq Counted \ {c}
      BY <2>2, <3>2 DEF Counted, NoAttempt
    <3>4. Cardinality(Counted \ {c}) = Cardinality(Counted) - 1 /\ IsFiniteSet(Counted \ {c})
      BY <1>1, <3>1, FS_RemoveElement
    <3>5. Cardinality(Counted') <= Cardinality(Counted) - 1
      BY <3>3, <3>4, FS_Subset
    <3>6. Cardinality(Counted') \in Nat /\ guesses + Cardinality(Counted) <= tries
          /\ guesses + Cardinality(Counted) <= MaxAttempts
      BY CountedFinite DEF GuessInv
    <3>7. guesses' + Cardinality(Counted') <= tries' /\ guesses' + Cardinality(Counted') <= MaxAttempts
      BY <1>1, <2>3, <3>1, <3>5, <3>6
    <3> QED
      BY <1>0, <3>7 DEF GuessInv
  <2> QED
    BY <2>4, <2>5
<1>12. ASSUME NEW c \in Clients, DropCount(c) PROVE GuessInv'
  <2>1. PICK next : next = [job EXCEPT ![c].at = "visit"]
    OBVIOUS
  <2>2. next = [job EXCEPT ![c] = [job[c] EXCEPT !.at = "visit"]]
    BY <2>1
  <2>3. DOMAIN next = Clients /\ \A d \in Clients : next[d] \in JobRecords
    BY <1>0, <2>1 DEF JobTyped, JobRecords, Places
  <2>4. Recount(next) \/ (job' = next /\ guesses' = guesses /\ tries' = tries)
    BY <1>12, <2>1 DEF DropCount
  <2> QED
    BY <1>0, <1>2, <1>5, <2>2, <2>3, <2>4, GuessRecounted
<1>13. ASSUME NEW c \in Clients, NEW n \in {0, code.n}, Verify(c, n) PROVE GuessInv'
  <2>1. CASE Recount(job)
    BY <1>0, <2>1, GuessRecounted DEF JobTyped
  <2>2. CASE job' = job /\ guesses' = guesses /\ tries' = tries
    BY <1>2, <1>4, <2>2
  <2>3. CASE job' = job /\ guesses' = guesses /\ tries' = OneMore
    <3>1. tries <= tries'
      BY <1>1, <2>3 DEF OneMore
    <3> QED
      BY <1>0, <1>4, <2>3, <3>1, GuessKept
  <2>4. CASE job' = job /\ guesses' = guesses + 1 /\ tries' = OneMore /\ ~(OneMore > MaxAttempts)
    <3>1. tries' = tries + 1 /\ tries + 1 <= MaxAttempts
      BY <1>1, <2>4 DEF OneMore
    <3>2. Counted' = Counted
      BY <2>4 DEF Counted
    <3>3. guesses + Cardinality(Counted) <= tries
      BY DEF GuessInv
    <3>4. guesses' + Cardinality(Counted') <= tries' /\ guesses' + Cardinality(Counted') <= MaxAttempts
      BY <1>1, <2>4, <3>1, <3>2, <3>3
    <3> QED
      BY <1>0, <3>4 DEF GuessInv
  <2> QED
    BY <1>13, <2>1, <2>2, <2>3, <2>4 DEF Verify
<1>14. CASE CodeExpires
  BY <1>2, <1>14 DEF CodeExpires, NoAttempt
<1>15. CASE CountExpires
  BY <1>0, <1>15, GuessRecounted DEF CountExpires, JobTyped
<1>16. CASE UNCHANGED vars
  BY <1>2, <1>16 DEF vars, downloads, NoAttempt
<1> QED
  BY <1>6, <1>7, <1>8, <1>9, <1>10, <1>11, <1>12, <1>13, <1>14, <1>15, <1>16 DEF Next

\* However the requests overlap, and however often the code is sent again, no
\* more guesses are compared than the limit allows.
THEOREM AttemptsAreLimited == Spec => []GuessesAreLimited
<1>1. Init => GuessInv
  <2> SUFFICES ASSUME Init PROVE GuessInv
    OBVIOUS
  <2>1. Counted = {} /\ guesses = 0 /\ tries = 0
    BY Blank DEF Init, AccountsInit, Counted
  <2>2. guesses + Cardinality(Counted) = 0
    BY <2>1, FS_EmptySet
  <2> QED
    BY <2>1, <2>2, InitTyped, DownloadsAssumption DEF GuessInv
<1>2. GuessInv => GuessesAreLimited
  <2> SUFFICES ASSUME GuessInv PROVE guesses <= MaxAttempts
    BY DEF GuessesAreLimited
  <2>1. guesses \in Nat /\ Cardinality(Counted) \in Nat /\ MaxAttempts \in Nat
        /\ guesses + Cardinality(Counted) <= MaxAttempts
    BY DownloadsAssumption, CountedFinite DEF GuessInv, Typed, FileTyped
  <2> QED
    BY <2>1
<1> QED
  BY <1>1, <1>2, GuessStep, PTL DEF Spec

-----------------------------------------------------------------------------
(* Secrets.                                                                *)

\* Tokens and states that may be used: in the store, or selected from it.
Tokens ==
    states \cup {r.n : r \in resets} \cup {job[c].n : c \in {d \in Clients : job[d].at = "took"}}

\* Codes that may be used: the one in the store, or one that was compared.
Codes ==
    {n \in {code.n} : code.live} \cup {job[c].n : c \in {d \in Clients : job[d].at = "dropCode"}}

\* What the store could not help: it is used once more, if at all, by this.
Excused(n) ==
    \/ store = "mariadb" /\ n \in raced
    \/ store = "redis" /\ n \in spared

SpendInv ==
    /\ Typed
    /\ spent \subseteq 1..requests
    /\ Tokens \subseteq 1..requests
    /\ Codes \subseteq 1..requests
    /\ Tokens \cap Codes = {}
    /\ \A r \in resets : r.n \notin states /\ \A q \in resets : q.n = r.n => q = r
    /\ store = "redis" => \A c \in Clients : job[c].at # "took"
    /\ store = "mariadb" => \A c \in Clients : job[c].at \notin {"compare", "dropCode"}
    /\ \A n \in spent : Excused(n) \/ n \notin Tokens \cup Codes
    /\ SpentOnce

\* Nothing was added but what bears the number of the request.
Plain ==
    /\ store' = store
    /\ NobodyTakes
    /\ UNCHANGED <<spent, twice, raced, spared>>
    /\ states' \subseteq states
    /\ resets' \subseteq resets
    /\ code'.live => code.live /\ code'.n = code.n

LEMMA PlainKept == ASSUME SpendInv, Typed', requests <= requests', Plain PROVE SpendInv'
<1>0. requests \in Nat /\ requests' \in Nat /\ 1..requests \subseteq 1..requests'
  <2>1. requests \in Nat /\ requests' \in Nat
    BY DEF SpendInv, Typed, CountsTyped
  <2> QED
    BY <2>1
<1>1. Tokens' \subseteq Tokens
  BY DEF Plain, Tokens, NobodyTakes, Rests, Holding
<1>2. Codes' \subseteq Codes
  BY DEF Plain, Codes, NobodyTakes, Rests, Holding
<1>3. Codes' \subseteq 1..requests'
  BY <1>0, <1>2 DEF SpendInv
<1>4. /\ store' = "redis" => \A c \in Clients : job'[c].at # "took"
      /\ store' = "mariadb" => \A c \in Clients : job'[c].at \notin {"compare", "dropCode"}
  BY DEF SpendInv, Plain, NobodyTakes, Rests, Holding
<1>5. \A r \in resets' : r.n \notin states' /\ \A q \in resets' : q.n = r.n => q = r
  BY DEF SpendInv, Plain
<1>6. spent' \subseteq 1..requests' /\ Tokens' \subseteq 1..requests'
  BY <1>0, <1>1 DEF SpendInv, Plain
<1>7. SpentOnce' /\ \A n \in spent' : Excused(n)' \/ n \notin Tokens' \cup Codes'
  BY <1>1, <1>2 DEF SpendInv, Plain, SpentOnce, Excused
<1> QED
  BY <1>1, <1>2, <1>3, <1>4, <1>5, <1>6, <1>7 DEF SpendInv

\* A step that uses the secret of a request: it is gone then, or raced for.
LEMMA SpendKept ==
    ASSUME SpendInv, Typed', requests <= requests', NEW n \in Tokens \cup Codes, Spend(n),
           store' = store, raced \subseteq raced', spared \subseteq spared',
           Tokens' \subseteq Tokens, Codes' \subseteq Codes, states' \subseteq states,
           resets' \subseteq resets,
           \A c \in Clients : job'[c].at \in Holding => job'[c].at = job[c].at,
           Excused(n)' \/ n \notin Tokens' \cup Codes'
    PROVE  SpendInv'
<1>0. requests \in Nat /\ requests' \in Nat /\ 1..requests \subseteq 1..requests'
  <2>1. requests \in Nat /\ requests' \in Nat
    BY DEF SpendInv, Typed, CountsTyped
  <2> QED
    BY <2>1
<1>1. spent' = spent \cup {n} /\ twice' = IF n \in spent THEN twice \cup {n} ELSE twice
  BY DEF Spend
<1>2. Codes' \subseteq 1..requests'
  BY <1>0 DEF SpendInv
<1>3. n \in 1..requests
  BY <1>0 DEF SpendInv
<1>4. spent' \subseteq 1..requests' /\ Tokens' \subseteq 1..requests'
  BY <1>0, <1>1, <1>3 DEF SpendInv
<1>5. ASSUME NEW m, Excused(m) PROVE Excused(m)'
  BY <1>5 DEF Excused
<1>6. SpentOnce'
  <2>1. \A m \in twice : Excused(m)
    BY DEF SpendInv, SpentOnce, Excused
  <2>2. n \in spent => Excused(n)
    BY DEF SpendInv
  <2>3. \A m \in twice' : Excused(m)'
    BY <1>1, <1>5, <2>1, <2>2
  <2> QED
    BY <2>3 DEF SpentOnce, Excused
<1>7. \A m \in spent' : Excused(m)' \/ m \notin Tokens' \cup Codes'
  BY <1>1, <1>5 DEF SpendInv
<1>8. /\ store' = "redis" => \A c \in Clients : job'[c].at # "took"
      /\ store' = "mariadb" => \A c \in Clients : job'[c].at \notin {"compare", "dropCode"}
  BY DEF SpendInv, Holding
<1>9. \A r \in resets' : r.n \notin states' /\ \A q \in resets' : q.n = r.n => q = r
  BY DEF SpendInv
<1> QED
  BY <1>2, <1>4, <1>6, <1>7, <1>8, <1>9 DEF SpendInv

\* The number of a request that begins.
New == {n \in {requests'} : requests' = requests + 1}

\* A step that makes a secret, or lets a request hold one that is in the store.
LEMMA SecretMade ==
    ASSUME SpendInv, Typed', requests <= requests', store' = store, UNCHANGED <<spent, twice, raced, spared>>,
           \/ Tokens' \subseteq Tokens /\ Codes' \subseteq Codes
           \/ Tokens' \subseteq Tokens \cup New /\ Codes' \subseteq Codes
           \/ Tokens' \subseteq Tokens /\ Codes' \subseteq Codes \cup New,
           \A r \in resets' : r.n \notin states' /\ \A q \in resets' : q.n = r.n => q = r,
           store' = "redis" => \A c \in Clients : job'[c].at # "took",
           store' = "mariadb" => \A c \in Clients : job'[c].at \notin {"compare", "dropCode"}
    PROVE  SpendInv'
<1>0. requests \in Nat /\ requests' \in Nat /\ 1..requests \subseteq 1..requests'
  <2>1. requests \in Nat /\ requests' \in Nat
    BY DEF SpendInv, Typed, CountsTyped
  <2> QED
    BY <2>1
<1>1. \A n \in New : n \in 1..requests' /\ n \notin 1..requests /\ n \notin Codes /\ n \notin Tokens
                  /\ n \notin spent
  BY <1>0 DEF SpendInv, New
<1>2. spent' \subseteq 1..requests' /\ Tokens' \subseteq 1..requests'
  BY <1>0, <1>1 DEF SpendInv
<1>3. Codes' \subseteq 1..requests'
  BY <1>0, <1>1 DEF SpendInv
<1>4. Tokens' \cap Codes' = {}
  BY <1>1 DEF SpendInv
<1>5. SpentOnce' /\ \A n \in spent' : Excused(n)' \/ n \notin Tokens' \cup Codes'
  BY <1>1 DEF SpendInv, SpentOnce, Excused
<1> QED
  BY <1>2, <1>3, <1>4, <1>5 DEF SpendInv

LEMMA SpendAccounts == ASSUME SpendInv, AccountsNext, Next PROVE SpendInv'
<1>0. /\ Typed' /\ JobTyped /\ requests <= requests'
      /\ \A c \in Clients : job[c] \in JobRecords
  BY TypedStep, Growth DEF SpendInv, Typed, JobTyped
<1>1. UNCHANGED downloads /\ code' = code
  BY FileUntouched DEF downloads
<1>2. \A c : Request(c) => requests' = requests + 1 /\ Number = requests'
  BY Growth DEF SpendInv, Typed
<1>3. CASE \A c \in Clients : /\ ~TakeState(c) /\ ~SelectReset(c) /\ ~DropSecret(c)
                              /\ ~TakeReset(c) /\ ~SaveState(c)
                              /\ \A p \in People : ~Forgot(c, p)
  <2>1. NobodyTakes
    BY <1>0, <1>3, AccountsMoves
  <2>2. /\ store' = store /\ UNCHANGED <<spent, twice, raced, spared>>
        /\ states' \subseteq states /\ resets' \subseteq resets
    BY <1>3 DEF AccountsNext, CountUsers, Login, UpdateUserPassword, CreateUser, CreateAdmin,
                CreateSession, NoReset, UpdatePassword, Fails, Logout, SessionEnds, Reset, Callback,
                Expires, Exchange, DeleteUser, UpdateUserRole, Provision, ReadBack,
                CreateKey, RevokeKey, accounts, history
  <2> QED
    BY <1>0, <1>1, <2>1, <2>2, PlainKept DEF Plain
<1>4. ASSUME NEW c \in Clients, SaveState(c) \/ \E p \in People : Forgot(c, p) PROVE SpendInv'
  <2>1. /\ store' = store /\ UNCHANGED <<spent, twice, raced, spared>> /\ job' = job
        /\ Number = requests' /\ requests' = requests + 1
    BY <1>2, <1>4 DEF SaveState, Forgot, history
  <2>2. Tokens' \subseteq Tokens \cup {Number} /\ Codes' = Codes
    BY <1>1, <1>4, <2>1 DEF SaveState, Forgot, Tokens, Codes
  <2>3. Number \notin states /\ \A r \in resets : r.n # Number
    BY <2>1 DEF SpendInv, Typed, AccountsTyped, CountsTyped
  <2>4. \A r \in resets' : r.n \notin states' /\ \A q \in resets' : q.n = r.n => q = r
    BY <1>4, <2>3 DEF SaveState, Forgot, SpendInv
  <2>5. /\ store' = "redis" => \A d \in Clients : job'[d].at # "took"
        /\ store' = "mariadb" => \A d \in Clients : job'[d].at \notin {"compare", "dropCode"}
    BY <2>1 DEF SpendInv
  <2> QED
    BY <1>0, <2>1, <2>2, <2>4, <2>5, SecretMade DEF New
<1>5. ASSUME NEW c \in Clients, TakeState(c) PROVE SpendInv'
  <2>1. /\ store' = store /\ UNCHANGED <<raced, spared>> /\ resets' = resets /\ job[c].at = "takeState"
    BY <1>5 DEF TakeState
  <2>2. CASE job[c].n \notin states
    <3>1. Plain
      BY <1>0, <1>1, <1>5, <2>1, <2>2, Moves DEF TakeState, Plain, Done, Set
    <3> QED
      BY <1>0, <3>1, PlainKept
  <2>3. CASE job[c].n \in states /\ store = "redis"
    <3>1. /\ states' = states \ {job[c].n} /\ Spend(job[c].n)
          /\ job' = [job EXCEPT ![c] = [job[c] EXCEPT !.at = "exchange"]]
      BY <1>5, <2>3 DEF TakeState, Set
    <3>2. job'[c].at = "exchange" /\ \A d \in Clients \ {c} : job'[d] = job[d]
      BY <1>0, <3>1 DEF JobTyped, JobRecords
    <3>3. job[c].n \in Tokens /\ job[c].n \notin Codes
      BY <2>3 DEF SpendInv, Tokens
    <3>4. Codes' \subseteq Codes
      BY <1>1, <3>2 DEF Codes
    <3>5. Tokens' \subseteq Tokens /\ job[c].n \notin Tokens'
      BY <2>1, <2>3, <3>1, <3>2 DEF SpendInv, Tokens
    <3>6. \A d \in Clients : job'[d].at \in Holding => job'[d].at = job[d].at
      BY <3>2 DEF Holding
    <3> QED
      BY <1>0, <2>1, <3>1, <3>3, <3>4, <3>5, <3>6, SpendKept
  <2>4. CASE job[c].n \in states /\ store # "redis"
    <3>1. /\ UNCHANGED <<states, spent, twice>>
          /\ job' = [job EXCEPT ![c] = [job[c] EXCEPT !.at = "took"]]
      BY <1>5, <2>4 DEF TakeState, Set
    <3>2. /\ job'[c].at = "took" /\ job'[c].n = job[c].n
          /\ \A d \in Clients \ {c} : job'[d] = job[d]
      BY <1>0, <3>1 DEF JobTyped, JobRecords
    <3>3. Tokens' \subseteq Tokens /\ Codes' \subseteq Codes
      BY <1>1, <2>1, <2>4, <3>1, <3>2 DEF Tokens, Codes
    <3>4. /\ store' = "redis" => \A d \in Clients : job'[d].at # "took"
          /\ store' = "mariadb" => \A d \in Clients : job'[d].at \notin {"compare", "dropCode"}
      BY <2>1, <2>4, <3>2 DEF SpendInv
    <3>5. \A r \in resets' : r.n \notin states' /\ \A q \in resets' : q.n = r.n => q = r
      BY <2>1, <3>1 DEF SpendInv
    <3> QED
      BY <1>0, <2>1, <3>1, <3>3, <3>4, <3>5, SecretMade
  <2> QED
    BY <2>2, <2>3, <2>4
<1>6. ASSUME NEW c \in Clients, SelectReset(c) PROVE SpendInv'
  <2>1. PICK r \in resets : /\ r.n = job[c].n
                            /\ job' = [job EXCEPT ![c] = [job[c] EXCEPT !.at = "took", !.who = {r.of}]]
    BY <1>6 DEF SelectReset, Set
  <2>2. /\ store' = store /\ store = "mariadb" /\ UNCHANGED <<states, resets, spent, twice, raced, spared>>
    BY <1>6 DEF SelectReset, accounts, history
  <2>3. /\ job'[c].at = "took" /\ job'[c].n = job[c].n
        /\ \A d \in Clients \ {c} : job'[d] = job[d]
    BY <1>0, <2>1 DEF JobTyped, JobRecords
  <2>4. Tokens' \subseteq Tokens /\ Codes' \subseteq Codes
    BY <1>1, <2>1, <2>2, <2>3 DEF Tokens, Codes
  <2>5. /\ store' = "redis" => \A d \in Clients : job'[d].at # "took"
        /\ store' = "mariadb" => \A d \in Clients : job'[d].at \notin {"compare", "dropCode"}
    BY <2>2, <2>3 DEF SpendInv
  <2>6. \A s \in resets' : s.n \notin states' /\ \A q \in resets' : q.n = s.n => q = s
    BY <2>2 DEF SpendInv
  <2> QED
    BY <1>0, <2>2, <2>4, <2>5, <2>6, SecretMade
<1>7. ASSUME NEW c \in Clients, TakeReset(c) PROVE SpendInv'
  <2>1. PICK r \in resets : /\ r.n = job[c].n /\ resets' = resets \ {r}
                            /\ job' = [job EXCEPT ![c] = [job[c] EXCEPT !.at = "reset", !.who = {r.of}]]
    BY <1>7 DEF TakeReset, Set
  <2>2. /\ store' = store /\ store = "redis" /\ UNCHANGED <<states, raced, spared>> /\ Spend(job[c].n)
    BY <1>7 DEF TakeReset
  <2>3. job'[c].at = "reset" /\ \A d \in Clients \ {c} : job'[d] = job[d]
    BY <1>0, <2>1 DEF JobTyped, JobRecords
  <2>4. job[c].n \in Tokens /\ job[c].n \notin Codes
    BY <2>1 DEF SpendInv, Tokens
  <2>5. Codes' \subseteq Codes
    BY <1>1, <2>3 DEF Codes
  <2>6. Tokens' \subseteq Tokens
    BY <2>1, <2>2, <2>3 DEF Tokens
  <2>7. job[c].n \notin Tokens'
    BY <2>1, <2>2, <2>3 DEF SpendInv, Tokens
  <2>8. \A d \in Clients : job'[d].at \in Holding => job'[d].at = job[d].at
    BY <2>3 DEF Holding
  <2> QED
    BY <1>0, <2>1, <2>2, <2>4, <2>5, <2>6, <2>7, <2>8, SpendKept
<1>8. ASSUME NEW c \in Clients, DropSecret(c) PROVE SpendInv'
  <2>0. PICK n : n = job[c].n
    OBVIOUS
  <2>1. /\ job[c].n = n /\ job[c].at = "took" /\ Spend(n) /\ store' = store
        /\ states' = states \ {n} /\ resets' = {r \in resets : r.n # n}
        /\ raced' = IF Others(c, n) THEN raced \cup {n} ELSE raced
    BY <1>8, <2>0 DEF DropSecret
  <2>2. PICK place \in {"exchange", "reset"} : job' = [job EXCEPT ![c] = [job[c] EXCEPT !.at = place]]
    BY <1>8, <2>0 DEF DropSecret, Set
  <2>3. job'[c].at = place /\ \A d \in Clients \ {c} : job'[d] = job[d]
    BY <1>0, <2>2 DEF JobTyped, JobRecords
  <2>4. n \in Tokens /\ n \notin Codes
    BY <2>1 DEF SpendInv, Tokens
  <2>5. Codes' \subseteq Codes
    BY <1>1, <2>3 DEF Codes
  <2>6. Tokens' \subseteq Tokens
    BY <2>1, <2>3 DEF Tokens
  <2>7. Excused(n)' \/ n \notin Tokens'
    <3>1. store = "mariadb"
      BY <1>0, <2>1 DEF SpendInv, Typed, AccountsTyped
    <3> QED
      BY <2>1, <2>3, <3>1 DEF Tokens, Others, Excused
  <2>8. \A d \in Clients : job'[d].at \in Holding => job'[d].at = job[d].at
    BY <2>3 DEF Holding
  <2>9. /\ raced \subseteq raced' /\ spared \subseteq spared'
        /\ states' \subseteq states /\ resets' \subseteq resets
    BY <1>8, <2>1 DEF DropSecret
  <2> QED
    BY <1>0, <2>1, <2>4, <2>5, <2>6, <2>7, <2>8, <2>9, SpendKept
<1> QED
  BY <1>3, <1>4, <1>5, <1>6, <1>7, <1>8

LEMMA RecountTakes ==
    ASSUME NEW jobs, DOMAIN jobs = Clients, \A c \in Clients : jobs[c] \in JobRecords, Recount(jobs),
           \A c \in Clients : jobs[c] = job[c] \/ jobs[c].at \notin Holding
    PROVE  NobodyTakes
<1> SUFFICES ASSUME NEW c \in Clients PROVE Rests(c) \/ job'[c].at \notin Holding
  BY DEF NobodyTakes
<1>1. job'[c] = IF jobs[c].at = "compare" THEN [jobs[c] EXCEPT !.fresh = FALSE] ELSE jobs[c]
  BY DEF Recount
<1>2. job'[c].at = jobs[c].at /\ job'[c].n = jobs[c].n /\ (job'[c].fresh => jobs[c].fresh)
  BY <1>1 DEF JobRecords
<1> QED
  BY <1>2 DEF Rests

LEMMA SpendDownloads == ASSUME SpendInv, Next, ~AccountsNext PROVE SpendInv'
<1>0. /\ Typed' /\ JobTyped /\ requests <= requests'
      /\ \A c \in Clients : job[c] \in JobRecords
  BY TypedStep, Growth DEF SpendInv, Typed, JobTyped
<1>1. /\ \A c : Request(c) => requests' = requests + 1 /\ Number = requests'
      /\ \A r \in resets : r.n \notin states /\ \A q \in resets : q.n = r.n => q = r
  BY Growth DEF SpendInv, Typed
<1>2. ASSUME NobodyTakes, UNCHANGED <<accounts, history>>, code' = code \/ code'.live = FALSE
      PROVE  SpendInv'
  <2>1. Plain
    BY <1>2 DEF Plain, accounts, history
  <2> QED
    BY <1>0, <2>1, PlainKept
<1>3. ASSUME NEW c \in Clients, job' = job \/ job' = [job EXCEPT ![c] = Idle] PROVE NobodyTakes
  BY <1>0, <1>3, Moves
<1>4. ASSUME NEW c \in Clients, \/ OpenVisit(c) \/ Stream(c) \/ Delete(c)
                                \/ \E disabled \in BOOLEAN : Disable(c, disabled)
      PROVE  SpendInv'
  <2>1. job' = job \/ job' = [job EXCEPT ![c] = Idle]
    BY <1>4 DEF OpenVisit, Stream, Delete, Disable, Done, Set
  <2>2. UNCHANGED <<accounts, history, code>>
    BY <1>4 DEF OpenVisit, Stream, Delete, Disable, downloads
  <2> QED
    BY <1>2, <1>3, <2>1, <2>2
<1>5. ASSUME NEW c \in Clients, Download(c) \/ PublicDownload(c) PROVE SpendInv'
  <2>1. Open(c)
    BY <1>5 DEF Download, PublicDownload
  <2>2. [Idle EXCEPT !.at = "stream"].at \notin Holding
    BY Blank DEF JobRecords, Holding
  <2>3. NobodyTakes
    BY <1>0, <2>1, <2>2, Moves DEF Open, Set
  <2> QED
    BY <1>2, <2>1, <2>3 DEF Open, downloads
<1>6. ASSUME NEW c \in Clients, GenerateCode(c) PROVE SpendInv'
  <2>1. /\ UNCHANGED <<accounts, history, job>> /\ code' = [n |-> Number, live |-> TRUE]
        /\ Number = requests' /\ requests' = requests + 1
    BY <1>1, <1>6 DEF GenerateCode
  <2>2. Tokens' \subseteq Tokens /\ Codes' \subseteq Codes \cup {Number}
    BY <2>1 DEF Tokens, Codes, accounts
  <2>3. /\ store' = store /\ UNCHANGED <<spent, twice, raced, spared, states, resets>>
    BY <2>1 DEF accounts, history
  <2>4. /\ store' = "redis" => \A d \in Clients : job'[d].at # "took"
        /\ store' = "mariadb" => \A d \in Clients : job'[d].at \notin {"compare", "dropCode"}
    BY <2>1, <2>3 DEF SpendInv
  <2>5. \A r \in resets' : r.n \notin states' /\ \A q \in resets' : q.n = r.n => q = r
    BY <1>1, <2>3
  <2> QED
    BY <1>0, <2>1, <2>2, <2>3, <2>4, <2>5, SecretMade DEF New
<1>7. ASSUME NEW c \in Clients, NEW n \in {0, code.n}, CountAttempt(c, n) PROVE SpendInv'
  <2>1. UNCHANGED <<accounts, history, code>> /\ store = "redis"
    BY <1>7 DEF CountAttempt
  <2>2. CASE job' = [job EXCEPT ![c] = Idle]
    BY <1>2, <1>3, <2>1, <2>2
  <2>3. CASE job' # [job EXCEPT ![c] = Idle]
    <3>1. PICK j : j = [Idle EXCEPT !.at = "compare", !.id = Number, !.n = n, !.fresh = TRUE]
      OBVIOUS
    <3>2. j.at = "compare" /\ job' = [job EXCEPT ![c] = j]
      BY <1>7, <2>3, <3>1, Blank DEF CountAttempt, Set, JobRecords
    <3>3. job'[c].at = "compare" /\ \A d \in Clients \ {c} : job'[d] = job[d]
      BY <1>0, <3>2 DEF JobTyped
    <3>4. Tokens' \subseteq Tokens /\ Codes' \subseteq Codes
      BY <2>1, <3>3 DEF Tokens, Codes, accounts
    <3>5. /\ store' = store /\ UNCHANGED <<spent, twice, raced, spared, states, resets>>
      BY <2>1 DEF accounts, history
    <3>6. /\ store' = "redis" => \A d \in Clients : job'[d].at # "took"
          /\ store' = "mariadb" => \A d \in Clients : job'[d].at \notin {"compare", "dropCode"}
      BY <2>1, <3>3, <3>5 DEF SpendInv
    <3>7. \A r \in resets' : r.n \notin states' /\ \A q \in resets' : q.n = r.n => q = r
      BY <1>1, <3>5
    <3> QED
      BY <1>0, <3>4, <3>5, <3>6, <3>7, SecretMade
  <2> QED
    BY <2>2, <2>3
<1>8. ASSUME NEW c \in Clients, CompareCode(c) PROVE SpendInv'
  <2>1. UNCHANGED <<accounts, history, code>> /\ job[c].at = "compare"
    BY <1>8 DEF CompareCode
  <2>2. CASE ~(code.live /\ code.n = job[c].n)
    BY <1>2, <1>3, <1>8, <2>1, <2>2 DEF CompareCode, Done, Set
  <2>3. CASE code.live /\ code.n = job[c].n
    <3>1. job' = [job EXCEPT ![c] = [job[c] EXCEPT !.at = "dropCode"]]
      BY <1>8, <2>3 DEF CompareCode, Set
    <3>2. /\ job'[c].at = "dropCode" /\ job'[c].n = job[c].n
          /\ \A d \in Clients \ {c} : job'[d] = job[d]
      BY <1>0, <3>1 DEF JobTyped, JobRecords
    <3>3. Tokens' \subseteq Tokens /\ Codes' \subseteq Codes
      BY <2>1, <2>3, <3>2 DEF Tokens, Codes, accounts
    <3>4. /\ store' = store /\ UNCHANGED <<spent, twice, raced, spared, states, resets>>
      BY <2>1 DEF accounts, history
    <3>5. /\ store' = "redis" => \A d \in Clients : job'[d].at # "took"
          /\ store' = "mariadb" => \A d \in Clients : job'[d].at \notin {"compare", "dropCode"}
      BY <2>1, <3>2, <3>4 DEF SpendInv
    <3>6. \A r \in resets' : r.n \notin states' /\ \A q \in resets' : q.n = r.n => q = r
      BY <1>1, <3>4
    <3> QED
      BY <1>0, <3>3, <3>4, <3>5, <3>6, SecretMade
  <2> QED
    BY <2>2, <2>3
<1>9. ASSUME NEW c \in Clients, DropCode(c) PROVE SpendInv'
  <2>0. PICK n : n = job[c].n
    OBVIOUS
  <2>1. /\ job[c].n = n /\ job[c].at = "dropCode" /\ Spend(n) /\ UNCHANGED accounts
        /\ code' = code \/ code' = [code EXCEPT !.live = FALSE]
        /\ job' = [job EXCEPT ![c] = [job[c] EXCEPT !.at = "dropCount"]]
    BY <1>9, <2>0 DEF DropCode, Set
  <2>2. spared' = IF code'.live \/ \E d \in Clients \ {c} : job[d].at = "dropCode" /\ job[d].n = n
                  THEN spared \cup {n} ELSE spared
    BY <1>9, <2>0 DEF DropCode
  <2>3. job'[c].at = "dropCount" /\ \A d \in Clients \ {c} : job'[d] = job[d]
    BY <1>0, <2>1 DEF JobTyped, JobRecords
  <2>4. n \in Codes /\ n \notin Tokens
    BY <2>1 DEF SpendInv, Codes
  <2>5. code \in [n : Nat, live : BOOLEAN]
    BY DEF SpendInv, Typed, FileTyped
  <2>6. Tokens' \subseteq Tokens
    BY <2>1, <2>3 DEF Tokens, accounts
  <2>7. code'.live => code.live /\ code'.n = code.n
    BY <2>1, <2>5
  <2>8. Codes' \subseteq Codes
    BY <2>3, <2>7 DEF Codes
  <2>9. Excused(n)' \/ n \notin Codes'
    <3>1. store = "redis" /\ store' = store
      BY <2>1 DEF SpendInv, Typed, AccountsTyped, accounts
    <3> QED
      BY <2>2, <2>3, <3>1 DEF Codes, Excused
  <2>10. \A d \in Clients : job'[d].at \in Holding => job'[d].at = job[d].at
    BY <2>3 DEF Holding
  <2>11. raced \subseteq raced' /\ spared \subseteq spared' /\ store' = store /\ states' \subseteq states /\ resets' \subseteq resets
    BY <1>9, <2>1, <2>2 DEF accounts, DropCode
  <2> QED
    BY <1>0, <2>1, <2>4, <2>6, <2>8, <2>9, <2>10, <2>11, SpendKept
<1>10. ASSUME NEW c \in Clients, DropCount(c) PROVE SpendInv'
  <2>1. PICK next : next = [job EXCEPT ![c].at = "visit"]
    OBVIOUS
  <2>2. /\ DOMAIN next = Clients
        /\ \A d \in Clients : /\ next[d] \in JobRecords
                              /\ next[d] = job[d] \/ next[d].at \notin Holding
    BY <1>0, <2>1 DEF JobTyped, JobRecords, Places, Holding
  <2>3. Recount(next) \/ job' = next
    BY <1>10, <2>1 DEF DropCount
  <2>4. NobodyTakes
    <3>1. CASE job' = next
      BY <2>2, <3>1 DEF NobodyTakes, Rests
    <3> QED
      BY <2>2, <2>3, <3>1, RecountTakes
  <2> QED
    BY <1>2, <1>10, <2>4 DEF DropCount
<1>11. ASSUME Recount(job) PROVE NobodyTakes
  BY <1>0, <1>11, RecountTakes DEF JobTyped
<1>12. ASSUME NEW c \in Clients, NEW n \in {0, code.n}, Verify(c, n) PROVE SpendInv'
  <2>1. UNCHANGED <<accounts, raced, spared>> /\ store = "mariadb"
    BY <1>12 DEF Verify
  <2>2. CASE UNCHANGED <<code, job, spent, twice>>
    BY <1>2, <1>3, <2>1, <2>2 DEF history
  <2>3. CASE ~UNCHANGED <<code, job, spent, twice>>
    <3>1. code.live /\ code.n = n /\ Recount(job) /\ code' = [code EXCEPT !.live = FALSE] /\ Spend(n)
      BY <1>12, <2>3 DEF Verify
    <3>2. NobodyTakes
      BY <1>11, <3>1
    <3>3. code'.live = FALSE
      BY <3>1 DEF SpendInv, Typed, FileTyped
    <3>4. /\ store' = store /\ UNCHANGED <<raced, spared, states, resets>>
      BY <2>1 DEF accounts
    <3>5. n \in Codes /\ n \notin Tokens
      BY <3>1 DEF SpendInv, Codes
    <3>6. Tokens' \subseteq Tokens
      BY <3>2, <3>4 DEF Tokens, NobodyTakes, Rests, Holding
    <3>7. \A d \in Clients : job'[d].at # "dropCode"
      BY <2>1, <3>2 DEF SpendInv, NobodyTakes, Rests, Holding
    <3>8. Codes' = {}
      BY <3>3, <3>7 DEF Codes
    <3>9. \A d \in Clients : job'[d].at \in Holding => job'[d].at = job[d].at
      BY <3>2 DEF NobodyTakes, Rests
    <3> QED
      BY <1>0, <3>1, <3>4, <3>5, <3>6, <3>8, <3>9, SpendKept
  <2> QED
    BY <2>2, <2>3
<1>13. CASE CodeExpires
  <2>1. code'.live = FALSE
    BY <1>13 DEF CodeExpires, SpendInv, Typed, FileTyped
  <2>2. NobodyTakes
    BY <1>13 DEF CodeExpires, NobodyTakes, Rests
  <2> QED
    BY <1>2, <1>13, <2>1, <2>2 DEF CodeExpires
<1>14. CASE CountExpires
  BY <1>2, <1>11, <1>14 DEF CountExpires
<1> QED
  BY <1>4, <1>5, <1>6, <1>7, <1>8, <1>9, <1>10, <1>12, <1>13, <1>14 DEF Next

\* Redis uses a token or a state once and MariaDB a code, however the requests
\* overlap; the other two are used once more only by requests that held them at
\* the same time, or a code whose delete had failed.
THEOREM SecretsAreSpentOnce == Spec => []SpentOnce
<1>1. Init => SpendInv
  <2> SUFFICES ASSUME Init PROVE SpendInv
    OBVIOUS
  <2>1. /\ \A c \in Clients : job[c].at = "idle"
        /\ states = {} /\ resets = {} /\ spent = {} /\ twice = {} /\ ~code.live
    BY Blank DEF Init, AccountsInit, NoCode
  <2>2. Tokens = {} /\ Codes = {}
    BY <2>1 DEF Tokens, Codes
  <2> QED
    BY <2>1, <2>2, InitTyped DEF SpendInv, SpentOnce
<1>2. ASSUME SpendInv, [Next]_vars PROVE SpendInv'
  <2>1. CASE UNCHANGED vars
    <3>1. Typed' /\ requests <= requests'
      BY <1>2, TypedStep, Growth DEF SpendInv, Typed
    <3>2. Plain
      BY <2>1 DEF vars, accounts, downloads, history, Plain, NobodyTakes, Rests
    <3> QED
      BY <1>2, <3>1, <3>2, PlainKept
  <2> QED
    BY <1>2, <2>1, SpendAccounts, SpendDownloads
<1>3. SpendInv => SpentOnce
  BY DEF SpendInv
<1> QED
  BY <1>1, <1>2, <1>3, PTL DEF Spec

=============================================================================
