------------------------------- MODULE Accounts -------------------------------
(***************************************************************************)
(* Who may use the api-server: the first administrator, logins with a      *)
(* password and through OIDC, sessions, forgotten passwords and API keys.  *)
(*                                                                         *)
(* A client is one request at a time; one action is one statement on the   *)
(* database or one command to the store of secrets.  The store is Redis or *)
(* MariaDB: both promise that a secret is used once, and keep it in        *)
(* different ways.  Unique numbers stand for the random secrets.           *)
(***************************************************************************)
EXTENDS Naturals, FiniteSets

CONSTANTS
    People,        \* email addresses
    Passwords,
    Clients,       \* requests that are handled at the same time
    MaxRequests,   \* bound: requests
    MaxFaults      \* bound: failed statements and sessions that run out

ASSUME AccountsAssumption ==
    /\ IsFiniteSet(Clients)
    /\ MaxRequests \in Nat
    /\ MaxFaults \in Nat

VARIABLES
    store,      \* "redis" or "mariadb"
    users,      \* table users, by email
    sessions,   \* the store's sessions
    resets,     \* the store's tokens for a new password
    states,     \* the store's OIDC logins that have begun
    keys,       \* table api_keys
    job,        \* what each client's request is at
    requests,   \* requests so far; numbers the secrets
    faults,
    (* what module Downloads is about: the file behind a token *)
    file,       \* its row in mail_attachments
    code,       \* the one-time code last made for its recipient
    tries,      \* attempts at a code, as the store counts them
    visits,     \* sessions that a code opened
    (* history *)
    spent,      \* tokens and states that were used,
    twice,      \* those that were used once more,
    raced,      \* tokens and states that two requests had selected at once
    spared,     \* codes that two requests had compared at once, or a delete spared
    guesses     \* comparisons with a code since the count began

accounts == <<store, users, sessions, resets, states, keys>>
bounds == <<requests, faults>>
downloads == <<file, code, tries, visits, guesses>>
history == <<spent, twice, raced, spared>>
vars == <<accounts, downloads, job, bounds, history>>

Roles == {"admin", "operator", "viewer"}

NoUser == [exists |-> FALSE, active |-> FALSE, role |-> "viewer", password |-> {},
           by |-> "manual"]   \* column provisioned_by; rows of the directory: module Directory
Idle == [at |-> "idle",
         id |-> 0,            \* number of the request
         who |-> {},          \* the user at hand, if any
         n |-> 0,             \* the secret at hand
         role |-> "viewer",   \* role of the claims, then of the session to be made
         password |-> {},     \* the password to be set
         (* history *)
         fresh |-> FALSE]     \* the user's row is as it read it

Active(p) == users[p].exists /\ users[p].active

TypeOK ==
    /\ store \in {"redis", "mariadb"}
    /\ users \in [People -> [exists : BOOLEAN, active : BOOLEAN, role : Roles,
                             password : {{}} \cup {{w} : w \in Passwords},
                             by : {"manual", "oidc"}]]
    /\ \A s \in sessions : s.n \in 1..requests /\ s.of \in People /\ s.role \in Roles
    /\ \A r \in resets : r.n \in 1..requests /\ users[r.of].exists
    /\ states \subseteq 1..requests
    /\ \A k \in keys : k.n \in 1..requests /\ k.role \in Roles /\ k.live \in BOOLEAN
    /\ \A c \in Clients :
        /\ job[c].at \in {"idle", "setup", "session", "reset", "take", "took",
                          "takeState", "exchange", "provision",
                          "readBack", "compare", "dropCode", "dropCount", "visit", "stream"}
        /\ job[c].who \subseteq People
    /\ requests \in 0..MaxRequests
    /\ faults \in 0..MaxFaults

AccountsInit ==
    /\ store \in {"redis", "mariadb"}
    /\ users = [p \in People |-> NoUser]
    /\ sessions = {}
    /\ resets = {}
    /\ states = {}
    /\ keys = {}
    /\ job = [c \in Clients |-> Idle]
    /\ requests = 0
    /\ faults = 0
    /\ spent = {}
    /\ twice = {}
    /\ raced = {}
    /\ spared = {}

Fault == faults < MaxFaults /\ faults' = faults + 1

\* A request begins on a client that has none; it has the next number.
Request(c) ==
    /\ job[c].at = "idle"
    /\ requests < MaxRequests
    /\ requests' = requests + 1
Number == requests + 1

Set(c, j) == job' = [job EXCEPT ![c] = j]
Done(c) == Set(c, Idle)

\* The secrets a row of a user is in, when that row changes.
Touched(p, jobs) ==
    [c \in Clients |-> IF p \in jobs[c].who THEN [jobs[c] EXCEPT !.fresh = FALSE] ELSE jobs[c]]
Stale(p) == {IF s.of = p THEN [s EXCEPT !.fresh = FALSE] ELSE s : s \in sessions}

\* The row of p is written, while the requests go on as in jobs: nothing tells the
\* sessions and requests that know another role of p, or knew p as active.
Write(p, row, jobs) ==
    /\ users' = [users EXCEPT ![p] = row]
    /\ IF row.role = users[p].role /\ row.active = users[p].active
       THEN sessions' = sessions /\ job' = jobs
       ELSE sessions' = Stale(p) /\ job' = Touched(p, jobs)

\* RequireRole, behind Authenticate: a session in the store, or behind
\* AuthenticateOrAPIKey a key that is active, with one of the roles.
Authorized(roles) ==
    \/ \E s \in sessions : s.role \in roles
    \/ \E k \in keys : k.live /\ k.role \in roles

\* A secret is used; it may have been held by another request as well.
Spend(n) ==
    /\ spent' = spent \cup {n}
    /\ twice' = IF n \in spent THEN twice \cup {n} ELSE twice

-----------------------------------------------------------------------------
(* Mutants: plausible bugs, each breaks one of the properties below.       *)

\* The session has the role of the claims, where the row's counts.
ReadBack_Claims(c) ==
    /\ job[c].at = "readBack"
    /\ \E p \in job[c].who :
        Set(c, IF Active(p) THEN [job[c] EXCEPT !.at = "session", !.fresh = TRUE] ELSE Idle)
    /\ UNCHANGED <<downloads, accounts, bounds, history>>

\* The token is read and kept.
TakeReset_Kept(c) ==
    /\ job[c].at = "take"
    /\ store = "redis"
    /\ \E r \in resets : r.n = job[c].n /\ Set(c, [job[c] EXCEPT !.at = "reset", !.who = {r.of}])
    /\ Spend(job[c].n)
    /\ UNCHANGED <<downloads, accounts, bounds, raced, spared>>

-----------------------------------------------------------------------------
(* The first administrator.                                                *)

\* HandleSetup counts the active users,
CountUsers(c, p, w) ==
    /\ Request(c)
    /\ Set(c, IF \E q \in People : Active(q) THEN Idle
              ELSE [Idle EXCEPT !.at = "setup", !.who = {p}, !.password = {w}])
    /\ UNCHANGED <<downloads, accounts, faults, history>>

\* and makes an administrator; a row with this address refuses the insert.
Insert(p, role, w) ==
    users' = [users EXCEPT ![p] =
        IF @.exists THEN @
        ELSE [exists |-> TRUE, active |-> TRUE, role |-> role, password |-> {w}, by |-> "manual"]]

CreateAdmin(c) ==
    /\ job[c].at = "setup"
    /\ \E p \in job[c].who, w \in job[c].password : Insert(p, "admin", w)
    /\ job' = [job EXCEPT ![c] = Idle]
    /\ UNCHANGED <<downloads, store, sessions, resets, states, keys, bounds, history>>

-----------------------------------------------------------------------------
(* Logins.                                                                 *)

\* StandaloneProvider.Login: an active user with this password.
Login(c, p, w) ==
    /\ Request(c)
    /\ Set(c, IF Active(p) /\ w \in users[p].password
              THEN [Idle EXCEPT !.at = "session", !.id = Number, !.who = {p},
                                !.role = users[p].role, !.fresh = TRUE]
              ELSE Idle)
    /\ UNCHANGED <<downloads, accounts, faults, history>>

\* The session holds the role that was read.
CreateSession(c) ==
    /\ job[c].at = "session"
    /\ sessions' = sessions \cup {[n |-> job[c].id, of |-> p, role |-> job[c].role,
                                   fresh |-> job[c].fresh] : p \in job[c].who}
    /\ Done(c)
    /\ UNCHANGED <<downloads, store, users, resets, states, keys, bounds, history>>

Logout(c, s) ==
    /\ Request(c)
    /\ sessions' = sessions \ {s}
    /\ UNCHANGED <<downloads, store, users, resets, states, keys, job, faults, history>>

SessionEnds(s) ==
    /\ Fault
    /\ sessions' = sessions \ {s}
    /\ UNCHANGED <<downloads, store, users, resets, states, keys, job, requests, history>>

\* HandleLoginOIDC.
SaveState(c) ==
    /\ Request(c)
    /\ states' = states \cup {Number}
    /\ UNCHANGED <<downloads, store, users, sessions, resets, keys, job, faults, history>>

\* HandleCallback takes the state: in one command from Redis, in MariaDB with a
\* select and a delete, which another request may come between.
Callback(c, n) ==
    /\ Request(c)
    /\ Set(c, [Idle EXCEPT !.at = "takeState", !.id = Number, !.n = n])
    /\ UNCHANGED <<downloads, accounts, faults, history>>

Others(c, n) == \E d \in Clients \ {c} : job[d].n = n /\ job[d].at = "took"

TakeState(c) ==
    /\ job[c].at = "takeState"
    /\ IF job[c].n \notin states THEN Done(c) /\ UNCHANGED <<downloads, states, spent, twice>>
       ELSE IF store = "redis"
       THEN /\ states' = states \ {job[c].n}
            /\ Set(c, [job[c] EXCEPT !.at = "exchange"])
            /\ Spend(job[c].n)
       ELSE /\ Set(c, [job[c] EXCEPT !.at = "took"])
            /\ UNCHANGED <<downloads, states, spent, twice>>
    /\ UNCHANGED <<downloads, store, users, sessions, resets, keys, bounds, raced, spared>>

\* The delete of a token or state that was selected: of none, it is no error.
DropSecret(c) ==
    /\ job[c].at = "took"
    /\ raced' = IF Others(c, job[c].n) THEN raced \cup {job[c].n} ELSE raced
    /\ Spend(job[c].n)
    /\ states' = states \ {job[c].n}
    /\ resets' = {r \in resets : r.n # job[c].n}
    /\ Set(c, [job[c] EXCEPT !.at = IF job[c].who = {} THEN "exchange" ELSE "reset"])
    /\ UNCHANGED <<downloads, store, users, sessions, keys, bounds, spared>>

\* The provider answers with an address, or not at all.
Exchange(c, p) ==
    /\ job[c].at = "exchange"
    /\ Set(c, [job[c] EXCEPT !.at = "provision", !.who = {p}])
    /\ UNCHANGED <<downloads, accounts, bounds, history>>

\* provisionFederatedUser, the upsert: a row is made from the claims, one that
\* OIDC made takes their role, active or not, and one made by hand keeps its own.
Claimed(row, role) ==
    IF ~row.exists
    THEN [exists |-> TRUE, active |-> TRUE, role |-> role, password |-> {}, by |-> "oidc"]
    ELSE IF row.by = "oidc" THEN [row EXCEPT !.role = role] ELSE row

Provision(c, claimed) ==
    /\ job[c].at = "provision"
    /\ \E p \in job[c].who :
        Write(p, Claimed(users[p], claimed),
              [job EXCEPT ![c] = [@ EXCEPT !.at = "readBack", !.role = claimed]])
    /\ UNCHANGED <<downloads, store, resets, states, keys, bounds, history>>

\* And the select: the row, as it is by now, has its say.
ReadBack(c) ==
    /\ job[c].at = "readBack"
    /\ \E p \in job[c].who :
        Set(c, IF Active(p)
               THEN [job[c] EXCEPT !.at = "session", !.role = users[p].role, !.fresh = TRUE]
               ELSE Idle)
    /\ UNCHANGED <<downloads, accounts, bounds, history>>

-----------------------------------------------------------------------------
(* A forgotten password.                                                   *)

\* HandleForgotPassword: a token for an active user; the mail may fail, and the
\* token stays.
Forgot(c, p) ==
    /\ Request(c)
    /\ resets' = IF Active(p) THEN resets \cup {[n |-> Number, of |-> p]} ELSE resets
    /\ UNCHANGED <<downloads, store, users, sessions, states, keys, job, faults, history>>

\* HandleResetPassword.
Reset(c, n, w) ==
    /\ Request(c)
    /\ Set(c, [Idle EXCEPT !.at = "take", !.n = n, !.password = {w}])
    /\ UNCHANGED <<downloads, accounts, faults, history>>

TakeReset(c) ==
    /\ job[c].at = "take"
    /\ store = "redis"
    /\ \E r \in resets :
        /\ r.n = job[c].n
        /\ resets' = resets \ {r}
        /\ Set(c, [job[c] EXCEPT !.at = "reset", !.who = {r.of}])
    /\ Spend(job[c].n)
    /\ UNCHANGED <<downloads, store, users, sessions, states, keys, bounds, raced, spared>>

SelectReset(c) ==
    /\ job[c].at = "take"
    /\ store = "mariadb"
    /\ \E r \in resets :
        /\ r.n = job[c].n
        /\ Set(c, [job[c] EXCEPT !.at = "took", !.who = {r.of}])
    /\ UNCHANGED <<downloads, accounts, bounds, history>>

NoReset(c) ==
    /\ job[c].at = "take"
    /\ \A r \in resets : r.n # job[c].n
    /\ Done(c)
    /\ UNCHANGED <<downloads, accounts, bounds, history>>

\* The user is not looked at again: also who was removed gets a password.
UpdatePassword(c) ==
    /\ job[c].at = "reset"
    /\ \E p \in job[c].who : users' = [users EXCEPT ![p].password = job[c].password]
    /\ Done(c)
    /\ UNCHANGED <<downloads, store, sessions, resets, states, keys, bounds, history>>

\* A step in the middle fails: the token or the state is gone nevertheless.
Fails(c) ==
    /\ job[c].at \in {"setup", "session", "take", "took", "takeState", "exchange",
                      "provision", "readBack", "reset", "compare", "visit", "stream"}
    /\ Fault
    /\ Done(c)
    /\ UNCHANGED <<downloads, accounts, requests, history>>

\* A token or a state runs out.
Expires(n) ==
    /\ Fault
    /\ resets' = {r \in resets : r.n # n}
    /\ states' = states \ {n}
    /\ UNCHANGED <<downloads, store, users, sessions, keys, job, requests, history>>

-----------------------------------------------------------------------------
(* What administrators do to accounts and keys.                            *)

CreateUser(c, p, role, w) ==
    /\ Request(c)
    /\ Authorized({"admin"})
    /\ ~Active(p)
    /\ Insert(p, role, w)
    /\ UNCHANGED <<downloads, store, sessions, resets, states, keys, job, faults, history>>

\* HandleUpdate: the role, and then the password.
UpdateUserRole(c, p, role) ==
    /\ Request(c)
    /\ Authorized({"admin"})
    /\ Active(p)
    /\ Write(p, [users[p] EXCEPT !.role = role], job)
    /\ UNCHANGED <<downloads, store, resets, states, keys, faults, history>>

UpdateUserPassword(c, p, w) ==
    /\ Request(c)
    /\ Authorized({"admin"})
    /\ Active(p)
    /\ users' = [users EXCEPT ![p].password = {w}]
    /\ UNCHANGED <<downloads, store, sessions, resets, states, keys, job, faults, history>>

\* The own account may not be removed; the sessions of others stay.
DeleteUser(c, p) ==
    /\ Request(c)
    /\ \/ \E s \in sessions : s.role = "admin" /\ s.of # p
       \/ \E k \in keys : k.live /\ k.role = "admin"
    /\ Active(p)
    /\ Write(p, [users[p] EXCEPT !.active = FALSE], job)
    /\ UNCHANGED <<downloads, store, resets, states, keys, faults, history>>

CreateKey(c, role) ==
    /\ Request(c)
    /\ Authorized({"admin"})
    /\ keys' = keys \cup {[n |-> Number, role |-> role, live |-> TRUE]}
    /\ UNCHANGED <<downloads, store, users, sessions, resets, states, job, faults, history>>

RevokeKey(c, k) ==
    /\ Request(c)
    /\ Authorized({"admin"})
    /\ k.live
    /\ keys' = (keys \ {k}) \cup {[k EXCEPT !.live = FALSE]}
    /\ UNCHANGED <<downloads, store, users, sessions, resets, states, job, faults, history>>

-----------------------------------------------------------------------------
AccountsNext ==
    \/ \E c \in Clients, p \in People, w \in Passwords :
        \/ CountUsers(c, p, w) \/ Login(c, p, w) \/ UpdateUserPassword(c, p, w)
        \/ \E role \in Roles : CreateUser(c, p, role, w)
    \/ \E c \in Clients :
        \/ CreateAdmin(c) \/ CreateSession(c) \/ SaveState(c) \/ TakeState(c) \/ DropSecret(c)
        \/ ReadBack(c)
        \/ TakeReset(c) \/ SelectReset(c) \/ NoReset(c) \/ UpdatePassword(c) \/ Fails(c)
    \/ \E c \in Clients, s \in sessions : Logout(c, s)
    \/ \E s \in sessions : SessionEnds(s)
    \/ \E c \in Clients, n \in 1..requests, w \in Passwords : Reset(c, n, w)
    \/ \E c \in Clients, n \in 1..requests : Callback(c, n)
    \/ \E n \in states \cup {r.n : r \in resets} : Expires(n)
    \/ \E c \in Clients, p \in People : Exchange(c, p) \/ Forgot(c, p) \/ DeleteUser(c, p)
    \/ \E c \in Clients, p \in People, role \in Roles : UpdateUserRole(c, p, role)
    \/ \E c \in Clients, role \in Roles : Provision(c, role) \/ CreateKey(c, role)
    \/ \E c \in Clients, k \in keys : RevokeKey(c, k)

-----------------------------------------------------------------------------
(* Properties.                                                             *)

\* A session says of its user what the table says, and the user is active, until
\* somebody gives the row another role or takes it out of use: an administrator,
\* or a later login of the same user through OIDC with other claims, also one that
\* overlaps (auth.go HandleCallback, provisionFederatedUser, standalone.go Login,
\* repository.go UpsertFederatedUser).
SessionsTellTheTruth ==
    \A s \in sessions : s.fresh => Active(s.of) /\ users[s.of].role = s.role

=============================================================================
