---------------------------- MODULE Configuration ----------------------------
(***************************************************************************)
(* Configuration entities (variables, worker instances, policies and       *)
(* routings) from a request or a file to the active version.  The          *)
(* api-server writes single rows, imports a bundle, or at start seeds the  *)
(* tables from the bundle files; after every change it publishes: it       *)
(* assembles a snapshot of the tables, query by query, validates it and    *)
(* moves the pointer to the active version, which the gateways follow      *)
(* (module RouteReload).                                                   *)
(*                                                                         *)
(* One process is one request or one replica of the api-server, one action *)
(* one statement on the database; statements fail, processes crash.        *)
(***************************************************************************)
EXTENDS Naturals, Sequences

CONSTANTS
    Keys,        \* natural keys of the entities: variable key, alias, name
    Kind,        \* the kind of each key
    Specs,       \* the specs an entity may be given
    Files,       \* the bundle files: a spec or Absent for every key
    Bundles,     \* bundles a user may import
    Clients,     \* requests that change the configuration
    Replicas,    \* instances of the api-server
    Absent,      \* no document for this key
    NoKey,       \* a routing names no policy
    NoSnapshot,  \* no version was ever activated
    NoProc,      \* nobody holds the seed lock
    MaxEvents    \* bound: requests that change the configuration, crashes,
                 \* lost locks and statements that fail

Kinds == {"variable", "worker", "policy", "routing"}

\* A spec or nothing for every key; and what the tables may hold.
AnySpec == UNION {Specs[k] : k \in Keys}
Documents == {d \in [Keys -> AnySpec \cup {Absent}] : \A k \in Keys : d[k] \in Specs[k] \cup {Absent}}
Tables == [Keys -> SUBSET [id : Nat, spec : AnySpec]]

ASSUME ConfigurationAssumption ==
    /\ Kind \in [Keys -> Kinds]
    /\ NoSnapshot \notin Tables
    /\ Absent \notin AnySpec
    /\ {Files} \cup Bundles \subseteq Documents
    /\ NoProc \notin Clients \cup Replicas
    /\ Clients \cap Replicas = {}
    /\ MaxEvents \in Nat

VARIABLES
    source,   \* config.source of the api-server: "db" or "file"
    rows,     \* the tables: the rows that bear each key
    active,   \* content of the version that config_active points to
    ids,      \* ids given to rows so far
    job,      \* where each process is and what it has read
    lock,     \* the process whose connection holds the seed lock
    events,   \* requests and faults so far
    (* history *)
    calm,     \* publishes that nothing has interfered with
    settled,  \* the last undisturbed publish is not followed by a write
    clean,    \* seedings without an error or an interference
    seeded,   \* the last clean seeding is not followed by a write
    doubled   \* when that seeding began, two rows bore the same name

tables == <<rows, ids>>
history == <<calm, settled, clean, seeded, doubled>>
vars == <<source, tables, active, job, lock, events, history>>

Procs == Clients \cup Replicas

\* The tables of the four kinds.
Variables == {k \in Keys : Kind[k] = "variable"}
Workers == {k \in Keys : Kind[k] = "worker"}
Policies == {k \in Keys : Kind[k] = "policy"}
Routings == {k \in Keys : Kind[k] = "routing"}

\* Only the name of a routing is not under a UNIQUE key.
Unique == Variables \cup Workers \cup Policies

NoRows == [k \in Keys |-> {}]
NoDocs == [k \in Keys |-> Absent]
Docs(d) == {k \in Keys : d[k] # Absent}

\* The order in which Assemble and Sync query the tables.
AssembleOrder == <<"variable", "worker", "policy", "routing">>
SyncOrder == <<"worker", "variable", "policy", "routing">>

Idle == [at |-> "idle", pos |-> 1, read |-> NoRows, docs |-> NoDocs, todo |-> {}]

Steps == {"idle", "boot", "up", "update", "list", "write", "prune",
          "assemble", "compare", "activate"}

\* Only a routing may share its name with another row of its table, and no
\* two rows ever have the same id.
TypeOK ==
    /\ source \in {"db", "file"}
    /\ rows \in Tables /\ active \in Tables \cup {NoSnapshot}
    /\ \A k \in Keys : \A r \in rows[k] : r.id \in 1..ids /\ r.spec \in Specs[k]
    /\ \A k, l \in Keys : \A r \in rows[k], q \in rows[l] : r.id = q.id => r = q /\ k = l
    /\ \A k \in Unique : \A r, q \in rows[k] : r = q
    /\ ids \in Nat
    /\ job \in [Procs -> [at : Steps, pos : 1..4, read : Tables, docs : Documents, todo : SUBSET Keys]]
    /\ lock \in Replicas \cup {NoProc}
    /\ events \in 0..MaxEvents
    /\ calm \subseteq Procs
    /\ clean \subseteq Replicas
    /\ {settled, seeded, doubled} \subseteq BOOLEAN

-----------------------------------------------------------------------------
(* Rows.  An id names a row for ever.  The time stamps of a row change the *)
(* checksum of a snapshot, not what it says: they are left out.            *)

Insert(k, s) ==
    /\ rows' = [rows EXCEPT ![k] = @ \cup {[id |-> ids + 1, spec |-> s]}]
    /\ ids' = ids + 1

\* UPDATE ... WHERE id = ?: nothing, and no error, when the row is gone.
UpdateById(k, id, s) ==
    /\ rows' = [rows EXCEPT ![k] = {IF r.id = id THEN [r EXCEPT !.spec = s] ELSE r : r \in @}]
    /\ UNCHANGED ids

DeleteById(k, id) ==
    /\ rows' = [rows EXCEPT ![k] = {r \in @ : r.id # id}]
    /\ UNCHANGED ids

-----------------------------------------------------------------------------
(* What configsnap.Validate looks at.                                      *)

\* The aliases a routing binds name worker instances of the right kind.
ValidBindings(snap, aliases, kind) ==
    \A a \in aliases : \E w \in snap[a] : w.spec.kind = kind

DefinedVariables(snap, keys) == \A v \in keys : snap[v] # {}

ValidRouting(snap, s) ==
    /\ ValidBindings(snap, s.inspect, "inspect")
    /\ ValidBindings(snap, s.transform, "transform")
    /\ s.policy # NoKey => snap[s.policy] # {}
    /\ DefinedVariables(snap, s.vars)

Valid(snap) ==
    /\ \A k \in Routings : \A r \in snap[k] : ValidRouting(snap, r.spec)
    /\ \A k \in Workers : \A w \in snap[k] : DefinedVariables(snap, w.spec.vars)

-----------------------------------------------------------------------------
Init ==
    /\ source \in {"db", "file"}
    /\ rows = NoRows
    /\ active = NoSnapshot
    /\ ids = 0
    /\ job = [p \in Procs |-> [Idle EXCEPT !.at = IF p \in Replicas THEN "boot" ELSE "idle"]]
    /\ lock = NoProc
    /\ events = 0
    /\ calm = {}
    /\ settled = FALSE
    /\ clean = {}
    /\ seeded = FALSE
    /\ doubled = FALSE

-----------------------------------------------------------------------------
(* History: what may have come between the steps of a process.             *)

Publishing == {p \in Procs : job[p].at \in {"assemble", "compare", "activate"}}

\* p begins to publish: the publish is calm if it is the only one.
BeginCalm(p) == calm' = IF Publishing \ {p} = {} THEN {p} ELSE {}

\* A step of p that writes rows disturbs every publish and every seeding but
\* its own; two seedings disturb each other only when the lock was lost.
Disturb(p) ==
    /\ settled' = FALSE
    /\ seeded' = FALSE
    /\ clean' = IF p \in Replicas /\ lock = p THEN clean ELSE {}

\* The end of process p's work: a request is over, a replica serves.
AtEnd(p) == IF p \in Replicas THEN "up" ELSE "idle"

Set(p, j) == job' = [job EXCEPT ![p] = j]
Goto(p, step) == Set(p, [job[p] EXCEPT !.at = step])
BeginPublish(p) == Set(p, [Idle EXCEPT !.at = "assemble"]) /\ BeginCalm(p)

-----------------------------------------------------------------------------
(* Mutants: plausible bugs, each breaks one of the properties below.       *)

\* The pointer is set to the tables of now, which nobody has checked.
Activate_Unchecked(p) ==
    /\ job[p].at = "activate"
    /\ active' = rows
    /\ settled' = (p \in calm)
    /\ Goto(p, AtEnd(p))
    /\ UNCHANGED <<source, tables, lock, events, calm, clean, seeded, doubled>>

\* SetActiveConfigVersion inserts the pointer and never moves it.
Activate_InsertOnly(p) ==
    /\ job[p].at = "activate"
    /\ active' = IF active = NoSnapshot THEN job[p].read ELSE active
    /\ settled' = (p \in calm)
    /\ Goto(p, AtEnd(p))
    /\ UNCHANGED <<source, tables, lock, events, calm, clean, seeded, doubled>>

\* Sync looks only for what the files hold: nothing is pruned.
Obsolete_None(p) == {k \in Docs(job[p].docs) : job[p].read[k] = {}}

-----------------------------------------------------------------------------
(* Faults: a statement fails, a process crashes, a connection is lost.     *)

Fault ==
    /\ events < MaxEvents
    /\ events' = events + 1

-----------------------------------------------------------------------------
(* Requests that change one entity.  A request that is refused (bad input, *)
(* unknown id, a name that is taken) changes nothing and publishes nothing.*)

Request(c) ==
    /\ c \in Clients
    /\ job[c].at = "idle"
    /\ events < MaxEvents
    /\ events' = events + 1

\* The INSERT, then the audit hook that publishes.
Create(c, k, s) ==
    /\ Request(c)
    /\ k \in Unique => rows[k] = {}
    /\ Insert(k, s)
    /\ Disturb(c)
    /\ BeginPublish(c)
    /\ UNCHANGED <<source, active, lock, doubled>>

CreateVariable(c) == \E k \in Variables : \E s \in Specs[k] : Create(c, k, s)
CreateWorkerInstance(c) == \E k \in Workers : \E s \in Specs[k] : Create(c, k, s)
CreatePolicyInstance(c) == \E k \in Policies : \E s \in Specs[k] : Create(c, k, s)
CreateRouting(c) == \E k \in Routings : \E s \in Specs[k] : Create(c, k, s)

\* The row is read by its id first; the UPDATE comes after it.
GetRow(c, k, s) ==
    /\ Request(c)
    /\ \E r \in rows[k] :
        Set(c, [at |-> "update", pos |-> 1, read |-> [NoRows EXCEPT ![k] = {r}],
                docs |-> [NoDocs EXCEPT ![k] = s], todo |-> {k}])
    /\ UNCHANGED <<source, tables, active, lock, history>>

Update(c, k) ==
    /\ job[c].at = "update"
    /\ k \in job[c].todo
    /\ \E r \in job[c].read[k] : UpdateById(k, r.id, job[c].docs[k])
    /\ Disturb(c)
    /\ BeginPublish(c)
    /\ UNCHANGED <<source, active, lock, events, doubled>>

UpdateVariable(c) == \E k \in Variables : Update(c, k) \/ \E s \in Specs[k] : GetRow(c, k, s)
UpdateWorkerInstance(c) == \E k \in Workers : Update(c, k) \/ \E s \in Specs[k] : GetRow(c, k, s)
UpdatePolicyInstance(c) == \E k \in Policies : Update(c, k) \/ \E s \in Specs[k] : GetRow(c, k, s)
UpdateRouting(c) == \E k \in Routings : Update(c, k) \/ \E s \in Specs[k] : GetRow(c, k, s)

\* DELETE ... WHERE id = ?, for a row of the table or one that is gone (id 0):
\* both are published.
Delete(c, k) ==
    /\ Request(c)
    /\ \E id \in {r.id : r \in rows[k]} \cup {0} : DeleteById(k, id)
    /\ Disturb(c)
    /\ BeginPublish(c)
    /\ UNCHANGED <<source, active, lock, doubled>>

DeleteVariable(c) == \E k \in Variables : Delete(c, k)
DeleteWorkerInstance(c) == \E k \in Workers : Delete(c, k)
DeletePolicyInstance(c) == \E k \in Policies : Delete(c, k)

\* A routing is read first: when it is gone already, the request is over.
DeleteRouting(c) == \E k \in Routings : rows[k] # {} /\ Delete(c, k)

\* Sync without prune.
Import(c, bundle) ==
    /\ Request(c)
    /\ Set(c, [Idle EXCEPT !.at = "list", !.docs = bundle])
    /\ UNCHANGED <<source, tables, active, lock, history>>

-----------------------------------------------------------------------------
(* A replica starts.                                                       *)

\* In db mode it publishes what the tables hold.
Startup(p) ==
    /\ job[p].at = "boot"
    /\ source = "db"
    /\ BeginPublish(p)
    /\ UNCHANGED <<source, tables, active, lock, events, settled, clean, seeded, doubled>>

\* In file mode the replica that gets the lock seeds the tables.
AcquireLock(p) ==
    /\ job[p].at = "boot"
    /\ source = "file"
    /\ lock = NoProc
    /\ lock' = p
    /\ Set(p, [Idle EXCEPT !.at = "list", !.docs = Files])
    /\ clean' = clean \cup {p}
    /\ doubled' = (((seeded \/ clean # {}) /\ doubled) \/ \E k \in Keys : \E r, s \in rows[k] : r # s)
    /\ UNCHANGED <<source, tables, active, events, calm, settled, seeded>>

\* One that waits for it in vain serves without seeding.
SkipSeed(p) ==
    /\ job[p].at = "boot"
    /\ source = "file"
    /\ lock \notin {NoProc, p}
    /\ Goto(p, "up")
    /\ UNCHANGED <<source, tables, active, lock, events, history>>

-----------------------------------------------------------------------------
(* configseed.Sync, for a seeding replica or a request that imports.       *)

One(S) == IF S = {} THEN {{}} ELSE {{x} : x \in S}

Listed(p, found) ==
    Set(p, IF job[p].pos < Len(SyncOrder)
           THEN [job[p] EXCEPT !.pos = @ + 1, !.read = found]
           ELSE [job[p] EXCEPT !.pos = 1, !.read = found, !.at = "write", !.todo = Docs(job[p].docs)])

\* The rows of one kind, by name: of two rows with one name the last is taken.
ListRows(p) ==
    /\ job[p].at = "list"
    /\ LET now == {k \in Keys : Kind[k] = SyncOrder[job[p].pos]} IN
        \E f \in [now -> UNION {One(rows[k]) : k \in now}] :
            /\ \A k \in now : f[k] \in One(rows[k])
            /\ Listed(p, [k \in Keys |-> IF k \in now THEN f[k] ELSE job[p].read[k]])
    /\ UNCHANGED <<source, tables, active, lock, events, history>>

\* The error of a list is dropped: Sync goes on as if the table were empty.
ListFails(p) ==
    /\ job[p].at = "list"
    /\ Fault
    /\ Listed(p, job[p].read)
    /\ clean' = clean \ {p}
    /\ UNCHANGED <<source, tables, active, lock, calm, settled, seeded, doubled>>

\* One document: update the row that was listed, else create one.
Write(p, k) ==
    /\ job[p].at = "write"
    /\ k \in job[p].todo
    /\ Set(p, [job[p] EXCEPT !.todo = @ \ {k}])
    /\ \/ \E r \in job[p].read[k] : UpdateById(k, r.id, job[p].docs[k])
       \/ /\ job[p].read[k] = {}
          /\ k \in Unique => rows[k] = {}
          /\ Insert(k, job[p].docs[k])
    /\ Disturb(p)
    /\ calm' = {}
    /\ UNCHANGED <<source, active, lock, events, doubled>>

\* It fails, perhaps because the name is taken by now: noted, Sync goes on.
WriteFails(p, k) ==
    /\ job[p].at = "write"
    /\ k \in job[p].todo
    /\ \/ Fault
       \/ job[p].read[k] = {} /\ k \in Unique /\ rows[k] # {} /\ UNCHANGED events
    /\ Set(p, [job[p] EXCEPT !.todo = @ \ {k}])
    /\ clean' = clean \ {p}
    /\ UNCHANGED <<source, tables, active, lock, calm, settled, seeded, doubled>>

\* What was listed and no document names.
Obsolete(p) == {k \in Keys : job[p].read[k] # {} /\ job[p].docs[k] = Absent}

\* All documents are written: a seeding prunes, an import publishes.
WritesDone(p) ==
    /\ job[p].at = "write"
    /\ job[p].todo = {}
    /\ IF p \in Replicas
         THEN Set(p, [job[p] EXCEPT !.at = "prune", !.todo = Obsolete(p)]) /\ UNCHANGED calm
         ELSE BeginPublish(p)
    /\ UNCHANGED <<source, tables, active, lock, events, settled, clean, seeded, doubled>>

Prune(p, k) ==
    /\ job[p].at = "prune"
    /\ k \in job[p].todo
    /\ Set(p, [job[p] EXCEPT !.todo = @ \ {k}])
    /\ \E r \in job[p].read[k] : DeleteById(k, r.id)
    /\ Disturb(p)
    /\ calm' = {}
    /\ UNCHANGED <<source, active, lock, events, doubled>>

PruneFails(p, k) ==
    /\ job[p].at = "prune"
    /\ k \in job[p].todo
    /\ Fault
    /\ Set(p, [job[p] EXCEPT !.todo = @ \ {k}])
    /\ clean' = clean \ {p}
    /\ UNCHANGED <<source, tables, active, lock, calm, settled, seeded, doubled>>

PruneDone(p) ==
    /\ job[p].at = "prune"
    /\ job[p].todo = {}
    /\ BeginPublish(p)
    /\ UNCHANGED <<source, tables, active, lock, events, settled, clean, seeded, doubled>>

-----------------------------------------------------------------------------
(* configsnap.Publish.                                                     *)

\* One of the four queries of Assemble; there is no transaction around them.
Assemble(p) ==
    /\ job[p].at = "assemble"
    /\ LET now == {k \in Keys : Kind[k] = AssembleOrder[job[p].pos]}
           found == [k \in Keys |-> IF k \in now THEN rows[k] ELSE job[p].read[k]]
       IN  Set(p, IF job[p].pos < Len(AssembleOrder)
                  THEN [job[p] EXCEPT !.pos = @ + 1, !.read = found]
                  ELSE [job[p] EXCEPT !.pos = 1, !.read = found, !.at = "compare"])
    /\ UNCHANGED <<source, tables, active, lock, events, history>>

\* RELEASE_LOCK runs on any connection of the pool: on another one than the
\* GET_LOCK did, it releases nothing.
Unlock(p) == lock' \in IF lock = p THEN {NoProc, p} ELSE {lock}

\* A publish of p ends well.
Published(p) ==
    /\ Set(p, [Idle EXCEPT !.at = AtEnd(p)])
    /\ seeded' = (seeded \/ p \in clean)
    /\ clean' = clean \ {p}
    /\ calm' = calm \ {p}
    /\ Unlock(p)

\* Validate, then the checksum of the active version: no new version for the
\* same content.
Compare(p) ==
    /\ job[p].at = "compare"
    /\ Valid(job[p].read)
    /\ IF job[p].read = active
         THEN Published(p) /\ settled' = (settled \/ p \in calm)
         ELSE Goto(p, "activate") /\ UNCHANGED <<calm, settled, seeded, clean, lock>>
    /\ UNCHANGED <<source, tables, active, events, doubled>>

\* SaveConfigVersion and SetActiveConfigVersion: only the pointer is ever read.
Activate(p) ==
    /\ job[p].at = "activate"
    /\ active' = job[p].read
    /\ Published(p)
    /\ settled' = (p \in calm)
    /\ UNCHANGED <<source, tables, events, doubled>>

\* A statement fails, perhaps after it was executed, or the snapshot is not
\* valid.  A request only logs it; a replica that was seeding exits, and its
\* lock with it.
PublishFails(p) ==
    /\ p \in Publishing
    /\ \/ Fault /\ UNCHANGED <<active, settled>>
       \/ /\ job[p].at = "activate"
          /\ Fault
          /\ active' = job[p].read
          /\ settled' = (p \in calm)
       \/ /\ job[p].at = "compare" /\ ~Valid(job[p].read)
          /\ UNCHANGED <<events, active, settled>>
    /\ Set(p, [Idle EXCEPT !.at = IF p \in Replicas /\ source = "file" THEN "boot" ELSE AtEnd(p)])
    /\ lock' = IF lock = p THEN NoProc ELSE lock
    /\ calm' = calm \ {p}
    /\ clean' = clean \ {p}
    /\ UNCHANGED <<source, tables, seeded, doubled>>

-----------------------------------------------------------------------------
(* The environment.                                                        *)

\* A replica dies and is started again, a request dies with it; a request
\* whose UPDATE fails ends the same way.
Crash(p) ==
    /\ job[p].at # "idle"
    /\ Fault
    /\ Set(p, [Idle EXCEPT !.at = IF p \in Replicas THEN "boot" ELSE "idle"])
    /\ lock' = IF lock = p THEN NoProc ELSE lock
    /\ calm' = calm \ {p}
    /\ clean' = clean \ {p}
    /\ UNCHANGED <<source, tables, active, settled, seeded, doubled>>

\* The pool closes the connection that took the lock (its lifetime is over).
LoseLock ==
    /\ lock # NoProc
    /\ Fault
    /\ lock' = NoProc
    /\ UNCHANGED <<source, tables, active, job, history>>

-----------------------------------------------------------------------------
Edit(c) ==
    \/ CreateVariable(c) \/ CreateWorkerInstance(c) \/ CreatePolicyInstance(c) \/ CreateRouting(c)
    \/ UpdateVariable(c) \/ UpdateWorkerInstance(c) \/ UpdatePolicyInstance(c) \/ UpdateRouting(c)
    \/ DeleteVariable(c) \/ DeleteWorkerInstance(c) \/ DeletePolicyInstance(c) \/ DeleteRouting(c)
    \/ \E b \in Bundles : Import(c, b)

Seed(p) == Startup(p) \/ AcquireLock(p) \/ SkipSeed(p)

Sync(p) ==
    \/ ListRows(p) \/ ListFails(p) \/ WritesDone(p) \/ PruneDone(p)
    \/ \E k \in Keys : Write(p, k) \/ WriteFails(p, k) \/ Prune(p, k) \/ PruneFails(p, k)

Publish(p) == Assemble(p) \/ Compare(p) \/ Activate(p) \/ PublishFails(p)

Next ==
    \/ \E c \in Clients : Edit(c)
    \/ \E p \in Replicas : Seed(p)
    \/ \E p \in Procs : Sync(p) \/ Publish(p) \/ Crash(p)
    \/ LoseLock

Spec == Init /\ [][Next]_vars

-----------------------------------------------------------------------------
(* Properties.                                                             *)

\* What is active was checked as a whole, although it was read query by query
\* while other requests wrote, and although the tables change between the
\* check and the move of the pointer.
ActiveIsValid == active # NoSnapshot => Valid(active)

\* After a publish that met no other publish and no write, and until the next
\* write, the active version is what the tables hold.
ActiveIsCurrent == settled => active = rows

\* The rows are those of the bundle files, no more and no less.
FromFiles ==
    \A k \in Keys : {r.spec : r \in rows[k]} = IF Files[k] = Absent THEN {} ELSE {Files[k]}

\* A seeding without an error, undisturbed by requests, makes the tables those
\* of the files, whatever was there before and whoever else seeds, unless two
\* routings bore the same name when it began.
FilesAreTruth == seeded /\ ~doubled => FromFiles

=============================================================================
