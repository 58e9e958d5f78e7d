----------------------------- MODULE RouteReload -----------------------------
(***************************************************************************)
(* How a gateway comes to run a configuration.  In db mode it loads the    *)
(* active version at start, polls its checksum, and swaps its routes when  *)
(* the checksum has changed.  In file mode it runs one policy file per     *)
(* route: the api-server rewrites a file, asks the gateway to reload, and  *)
(* puts the old content back when the gateway refuses.                     *)
(*                                                                         *)
(* The active version is moved by module Configuration.  One process is    *)
(* one request that edits a policy, with the reload it causes: the reload  *)
(* goes on in the gateway when the request has given up.                   *)
(***************************************************************************)
EXTENDS Naturals

CONSTANTS
    Versions,   \* contents of configuration versions
    Buildable,  \* those that dbconfig.Build accepts
    NoVersion,  \* no version was ever activated
    Routes,     \* the directories of routes.d
    Docs,       \* contents of a policy.yaml that pass ValidateDocument
    Loadable,   \* those that policy.New accepts
    Installed,  \* the policy every route is installed with
    NoDoc,      \* nothing: no content was read
    Editors,    \* requests that edit a policy
    MaxEvents   \* bound: activations, edits and faults

ASSUME RouteReloadAssumption ==
    /\ Buildable \subseteq Versions
    /\ NoVersion \notin Versions
    /\ Routes # {}
    /\ Loadable \subseteq Docs
    /\ Installed \in Loadable
    /\ NoDoc \notin Docs
    /\ MaxEvents \in Nat

VARIABLES
    mode,      \* config.source of the gateway: "db" or "file"
    active,    \* the version config_active points to
    gateway,   \* what the gateway runs and what its poller remembers
    files,     \* content of the policy file of each route
    running,   \* the engine of each route
    history,   \* policy_versions: contents that were replaced
    edit,      \* where each request is, and what it has read
    reload,    \* the reload that each request has caused
    events,    \* activations, edits and faults so far
    (* history *)
    missed,    \* the poller remembers another version than the one it applied
    overlap,   \* an edit began before another one was over
    faulty     \* a step of an edit has failed, or the gateway started during it

dbVars == <<active, gateway, missed>>
fileVars == <<files, running, history, edit, reload, overlap, faulty>>
vars == <<mode, dbVars, fileVars, events>>

Down == [at |-> "down", applied |-> NoVersion, last |-> NoVersion, polled |-> NoVersion]
NoEdit == [at |-> "idle", route |-> CHOOSE r \in Routes : TRUE, doc |-> NoDoc, backup |-> NoDoc]
NoReload == [at |-> "none", engines |-> [r \in Routes |-> NoDoc], left |-> {}]

TypeOK ==
    /\ mode \in {"db", "file"}
    /\ active \in Versions \cup {NoVersion}
    /\ gateway \in [at : {"down", "arming", "up", "reload"},
                    applied : Buildable \cup {NoVersion},
                    last : Versions \cup {NoVersion}, polled : Versions \cup {NoVersion}]
    /\ files \in [Routes -> Docs]
    /\ running \in [Routes -> Loadable \cup {NoDoc}]
    /\ history \subseteq Routes \X Docs
    /\ edit \in [Editors -> [at : {"idle", "write", "call", "restore"}, route : Routes,
                             doc : Docs \cup {NoDoc}, backup : Docs \cup {NoDoc}]]
    /\ reload \in [Editors -> [at : {"none", "parse", "store", "ok", "error"},
                               engines : [Routes -> Loadable \cup {NoDoc}], left : SUBSET Routes]]
    /\ events \in 0..MaxEvents
    /\ {missed, overlap, faulty} \subseteq BOOLEAN

\* The gateway that is down has been started from these files before.
Init ==
    /\ mode \in {"db", "file"}
    /\ active \in IF mode = "db" THEN Versions \cup {NoVersion} ELSE {NoVersion}
    /\ gateway = Down
    /\ files = [r \in Routes |-> Installed]
    /\ running = [r \in Routes |-> NoDoc]
    /\ history = {}
    /\ edit = [e \in Editors |-> NoEdit]
    /\ reload = [e \in Editors |-> NoReload]
    /\ events = 0
    /\ missed = FALSE
    /\ overlap = FALSE
    /\ faulty = FALSE

Event == events < MaxEvents /\ events' = events + 1

Runnable(version) == version \in Buildable \cup {NoVersion}

\* No edit and no reload is under way.
Quiet == \A e \in Editors : edit[e].at = "idle" /\ reload[e].at = "none"

-----------------------------------------------------------------------------
(* Mutants: plausible bugs, each breaks one of the properties below.       *)

\* The poller remembers the checksum although the reload has failed.
ReloadFails_Remembers ==
    /\ gateway.at = "reload"
    /\ gateway' = [gateway EXCEPT !.at = "up", !.last = gateway.polled]
    /\ UNCHANGED <<mode, active, missed, fileVars, events>>

\* The loop over the routes ends after the first of them.
Store_First(e, r) ==
    /\ reload[e].at = "store"
    /\ r \in reload[e].left
    /\ running' = [running EXCEPT ![r] = reload[e].engines[r]]
    /\ reload' = [reload EXCEPT ![e] = [NoReload EXCEPT !.at = "ok"]]
    /\ UNCHANGED <<mode, dbVars, files, history, edit, events, overlap, faulty>>

\* The error is reported and the new content stays in the file.
Restore_Forgets(e) ==
    /\ \/ edit[e].at = "call" /\ reload[e].at = "error" /\ reload' = [reload EXCEPT ![e] = NoReload]
       \/ edit[e].at = "restore" /\ UNCHANGED reload
    /\ edit' = [edit EXCEPT ![e] = NoEdit]
    /\ UNCHANGED <<mode, dbVars, files, running, history, events, overlap, faulty>>

-----------------------------------------------------------------------------
(* The gateway in db mode.                                                 *)

\* The api-server activates a version: module Configuration.
Activate ==
    /\ mode = "db"
    /\ Event
    /\ \E v \in Versions \ {active} : active' = v
    /\ UNCHANGED <<mode, gateway, missed, fileVars>>

\* loadDBRoutes at start; the gateway exits when it cannot build the version.
StartDb ==
    /\ mode = "db"
    /\ gateway.at = "down"
    /\ Runnable(active)
    /\ gateway' = [gateway EXCEPT !.at = "arming", !.applied = active]
    /\ UNCHANGED <<mode, active, missed, fileVars, events>>

\* The poller starts: it reads the active version once more, and an error of
\* that read leaves it with no checksum.
Arm ==
    /\ gateway.at = "arming"
    /\ \E seen \in {active, NoVersion} :
        /\ gateway' = [gateway EXCEPT !.at = "up", !.last = seen]
        /\ missed' = (seen # NoVersion /\ seen # gateway.applied)
    /\ UNCHANGED <<mode, active, fileVars, events>>

\* A tick finds another checksum than the last one.
Poll ==
    /\ mode = "db"
    /\ gateway.at = "up"
    /\ active # gateway.last
    /\ gateway' = [gateway EXCEPT !.at = "reload", !.polled = active]
    /\ UNCHANGED <<mode, active, missed, fileVars, events>>

\* loadDBRoutes reads the active version again, builds it and swaps the routes.
\* What was polled is remembered, what was loaded may be newer.
Reload ==
    /\ gateway.at = "reload"
    /\ Runnable(active)
    /\ gateway' = [gateway EXCEPT !.at = "up", !.applied = active, !.last = gateway.polled]
    /\ missed' = (active # gateway.polled)
    /\ UNCHANGED <<mode, active, fileVars, events>>

\* The version is not read or cannot be built: the current routes stay.
ReloadFails ==
    /\ gateway.at = "reload"
    /\ gateway' = [gateway EXCEPT !.at = "up"]
    /\ UNCHANGED <<mode, active, missed, fileVars, events>>

-----------------------------------------------------------------------------
(* A request that edits the policy of a route, in file mode: in db mode no *)
(* mail sees these files.                                                  *)

\* The route is found, the old content is read and saved as a version; an
\* error of either is dropped.
Begin(e, r, d) ==
    /\ mode = "file"
    /\ edit[e].at = "idle" /\ reload[e].at = "none"
    /\ Event
    /\ \E backup \in {files[r], NoDoc} :
        /\ edit' = [edit EXCEPT ![e] = [at |-> "write", route |-> r, doc |-> d, backup |-> backup]]
        /\ history' \in IF backup = NoDoc THEN {history} ELSE {history, history \cup {<<r, backup>>}}
        /\ faulty' = (faulty \/ backup = NoDoc)
    /\ overlap' = (overlap \/ ~Quiet)
    /\ UNCHANGED <<mode, dbVars, files, running, reload>>

HandleUpdateRoute(e) == \E r \in Routes, d \in Docs : Begin(e, r, d)

\* The content comes from the versions of this route; nobody checks it again.
HandleRollback(e) == \E version \in history : Begin(e, version[1], version[2])

\* The file is replaced by a rename, and the gateway is called.
WriteFile(e) ==
    /\ edit[e].at = "write"
    /\ files' = [files EXCEPT ![edit[e].route] = edit[e].doc]
    /\ edit' = [edit EXCEPT ![e].at = "call"]
    /\ reload' = [reload EXCEPT ![e] =
                    IF gateway.at = "down" THEN [NoReload EXCEPT !.at = "error"]
                    ELSE [NoReload EXCEPT !.at = "parse", !.left = Routes]]
    /\ UNCHANGED <<mode, dbVars, running, history, events, overlap, faulty>>

WriteFails(e) ==
    /\ edit[e].at = "write"
    /\ Event
    /\ edit' = [edit EXCEPT ![e] = NoEdit]
    /\ UNCHANGED <<mode, dbVars, files, running, history, reload, overlap, faulty>>

\* The answer is ok.
Accepted(e) ==
    /\ edit[e].at = "call"
    /\ reload[e].at = "ok"
    /\ edit' = [edit EXCEPT ![e] = NoEdit]
    /\ reload' = [reload EXCEPT ![e] = NoReload]
    /\ UNCHANGED <<mode, dbVars, files, running, history, events, overlap, faulty>>

\* The answer is an error: the old content is put back.
Restore(e) ==
    /\ \/ edit[e].at = "call" /\ reload[e].at = "error" /\ reload' = [reload EXCEPT ![e] = NoReload]
       \/ edit[e].at = "restore" /\ UNCHANGED reload
    /\ files' = IF edit[e].backup = NoDoc THEN files
                ELSE [files EXCEPT ![edit[e].route] = edit[e].backup]
    /\ edit' = [edit EXCEPT ![e] = NoEdit]
    /\ UNCHANGED <<mode, dbVars, running, history, events, overlap, faulty>>

\* No answer in 15 seconds: the same, while the reload goes on.
Timeout(e) ==
    /\ edit[e].at = "call"
    /\ reload[e].at \in {"parse", "store"}
    /\ Event
    /\ edit' = [edit EXCEPT ![e].at = "restore"]
    /\ faulty' = TRUE
    /\ UNCHANGED <<mode, dbVars, files, running, history, reload, overlap>>

\* The api-server crashes, or cannot write the old content back.
Abandon(e) ==
    /\ edit[e].at # "idle"
    /\ Event
    /\ edit' = [edit EXCEPT ![e] = NoEdit]
    /\ faulty' = TRUE
    /\ UNCHANGED <<mode, dbVars, files, running, history, reload, overlap>>

\* Nobody waits for the answer any more.
Dropped(e) ==
    /\ edit[e].at = "idle"
    /\ reload[e].at \in {"ok", "error"}
    /\ reload' = [reload EXCEPT ![e] = NoReload]
    /\ UNCHANGED <<mode, dbVars, files, running, history, edit, events, overlap, faulty>>

-----------------------------------------------------------------------------
(* reloadPolicies in the gateway, for the call of request e.               *)

\* The files of all routes are parsed first, one after the other ...
Parse(e, r) ==
    /\ reload[e].at = "parse"
    /\ r \in reload[e].left
    /\ files[r] \in Loadable
    /\ reload' = [reload EXCEPT ![e].engines[r] = files[r],
                                ![e].left = IF @ = {r} THEN Routes ELSE @ \ {r},
                                ![e].at = IF reload[e].left = {r} THEN "store" ELSE "parse"]
    /\ UNCHANGED <<mode, dbVars, files, running, history, edit, events, overlap, faulty>>

ParseFails(e, r) ==
    /\ reload[e].at = "parse"
    /\ r \in reload[e].left
    /\ files[r] \notin Loadable
    /\ reload' = [reload EXCEPT ![e] = [NoReload EXCEPT !.at = "error"]]
    /\ UNCHANGED <<mode, dbVars, files, running, history, edit, events, overlap, faulty>>

\* ... then the engines are swapped, route by route.
Store(e, r) ==
    /\ reload[e].at = "store"
    /\ r \in reload[e].left
    /\ running' = [running EXCEPT ![r] = reload[e].engines[r]]
    /\ reload' = [reload EXCEPT ![e] = IF reload[e].left = {r} THEN [NoReload EXCEPT !.at = "ok"]
                                       ELSE [reload[e] EXCEPT !.left = @ \ {r}]]
    /\ UNCHANGED <<mode, dbVars, files, history, edit, events, overlap, faulty>>

-----------------------------------------------------------------------------
\* In file mode the gateway exits when a policy cannot be loaded.
StartFiles ==
    /\ mode = "file"
    /\ gateway.at = "down"
    /\ \A r \in Routes : files[r] \in Loadable
    /\ gateway' = [gateway EXCEPT !.at = "up"]
    /\ running' = files
    /\ overlap' = (overlap /\ ~Quiet)
    /\ faulty' = ~Quiet
    /\ UNCHANGED <<mode, active, missed, files, history, edit, reload, events>>

\* The reloads die with it; the requests get an error.
GatewayCrash ==
    /\ gateway.at # "down"
    /\ Event
    /\ gateway' = Down
    /\ missed' = FALSE
    /\ running' = [r \in Routes |-> NoDoc]
    /\ reload' = [e \in Editors |-> IF reload[e].at = "none" THEN NoReload
                                    ELSE [NoReload EXCEPT !.at = "error"]]
    /\ UNCHANGED <<mode, active, files, history, edit, overlap, faulty>>

-----------------------------------------------------------------------------
Database == Activate \/ StartDb \/ Arm \/ Poll \/ Reload \/ ReloadFails

Request(e) ==
    \/ HandleUpdateRoute(e) \/ HandleRollback(e)
    \/ WriteFile(e) \/ WriteFails(e) \/ Accepted(e) \/ Restore(e)
    \/ Timeout(e) \/ Abandon(e) \/ Dropped(e)

ReloadPolicies(e) == \E r \in Routes : Parse(e, r) \/ ParseFails(e, r) \/ Store(e, r)

Next ==
    \/ Database
    \/ \E e \in Editors : Request(e) \/ ReloadPolicies(e)
    \/ StartFiles \/ GatewayCrash

Spec == Init /\ [][Next]_vars

\* The gateway is restarted, its ticker ticks, and a reload that may succeed
\* again and again does at some time.
Fairness == WF_vars(StartDb) /\ WF_vars(Arm) /\ WF_vars(Poll) /\ SF_vars(Reload)

FairSpec == Spec /\ Fairness

-----------------------------------------------------------------------------
(* Properties.                                                             *)

\* A gateway comes to run the version that is active in the end, however the
\* activations fall between its reads, unless that version cannot be built, or
\* is the one that the poller read just before or after another was applied.
GatewayCatchesUp ==
    <>[](mode = "db" =>
            \/ gateway.applied = active
            \/ missed /\ gateway.last = active
            \/ ~Runnable(active))

\* After edits that did not overlap and did not fail half way, accepted or
\* refused, what is on the disk loads, and a gateway in file mode runs it: a
\* refused policy is not in the file, an accepted one is in both places, for
\* all routes (policy.go saveVersion, main.go reloadPolicies).
FilesAreRun ==
    Quiet /\ ~overlap /\ ~faulty =>
        /\ \A r \in Routes : files[r] \in Loadable
        /\ gateway.at = "up" /\ mode = "file" => running = files
=============================================================================
