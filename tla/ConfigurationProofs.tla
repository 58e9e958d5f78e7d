------------------------- MODULE ConfigurationProofs -------------------------
(***************************************************************************)
(* Proofs about Configuration, for any keys, specs, bundles, requests,     *)
(* replicas and faults: types, that only a valid version is ever active,   *)
(* that a publish without interference activates what the tables hold, and *)
(* that a seeding without interference makes them hold the bundle files.   *)
(***************************************************************************)
EXTENDS Configuration, TLAPS

JobRecords == [at : Steps, pos : 1..4, read : Tables, docs : Documents, todo : SUBSET Keys]

RowsTyped ==
    /\ rows \in Tables
    /\ ids \in Nat
    /\ \A k \in Keys : \A r \in rows[k] : r.id \in 1..ids /\ r.spec \in Specs[k]
    /\ \A k, l \in Keys : \A r \in rows[k], q \in rows[l] : r.id = q.id => r = q /\ k = l
    /\ \A k \in Unique : \A r, q \in rows[k] : r = q

\* A process has a document for every row it is about to write.
HasDocs(j) == j.at \in {"update", "write"} => j.todo \subseteq Docs(j.docs)

JobTyped == job \in [Procs -> JobRecords] /\ \A p \in Procs : HasDocs(job[p])

RestTyped ==
    /\ source \in {"db", "file"}
    /\ active \in Tables \cup {NoSnapshot}
    /\ lock \in Replicas \cup {NoProc}
    /\ events \in 0..MaxEvents
    /\ calm \subseteq Procs
    /\ clean \subseteq Replicas
    /\ settled \in BOOLEAN /\ seeded \in BOOLEAN /\ doubled \in BOOLEAN

Typed == RowsTyped /\ JobTyped /\ RestTyped

LEMMA TypedIsTyped == Typed => TypeOK
  BY DEF Typed, RowsTyped, JobTyped, RestTyped, TypeOK, JobRecords

-----------------------------------------------------------------------------
(* Rows.                                                                   *)

LEMMA InsertTyped ==
    ASSUME RowsTyped, NEW k \in Keys, NEW s \in Specs[k], k \in Unique => rows[k] = {}, Insert(k, s)
    PROVE  RowsTyped'
<1> DEFINE new == [id |-> ids + 1, spec |-> s]
<1>1. ids' = ids + 1 /\ ids \in Nat /\ rows \in Tables
  BY DEF Insert, RowsTyped
<1>2. rows'[k] = rows[k] \cup {new} /\ \A l \in Keys \ {k} : rows'[l] = rows[l]
  BY <1>1 DEF Insert, Tables
<1>3. rows' \in Tables
  <2>1. new \in [id : Nat, spec : AnySpec]
    BY <1>1 DEF AnySpec
  <2> QED
    BY <1>1, <2>1 DEF Insert, Tables
<1>4. \A l \in Keys : \A r \in rows[l] : r.id \in 1..ids /\ r.id # new.id
  BY <1>1 DEF RowsTyped
<1>5. \A l \in Keys : \A r \in rows'[l] : r.id \in 1..ids' /\ r.spec \in Specs[l]
  BY <1>1, <1>2, <1>4 DEF RowsTyped
<1>6. \A l, m \in Keys : \A r \in rows'[l], q \in rows'[m] : r.id = q.id => r = q /\ l = m
  BY <1>2, <1>4 DEF RowsTyped
<1>7. \A l \in Unique : \A r, q \in rows'[l] : r = q
  BY <1>2 DEF RowsTyped, Unique, Variables, Workers, Policies
<1> QED
  BY <1>1, <1>3, <1>5, <1>6, <1>7 DEF RowsTyped

LEMMA UpdateTyped ==
    ASSUME RowsTyped, NEW k \in Keys, NEW s \in Specs[k], NEW id, UpdateById(k, id, s)
    PROVE  RowsTyped'
<1> DEFINE New(r) == IF r.id = id THEN [r EXCEPT !.spec = s] ELSE r
<1>1. ids' = ids /\ rows \in Tables
  BY DEF UpdateById, RowsTyped
<1>2. rows'[k] = {New(r) : r \in rows[k]} /\ \A l \in Keys \ {k} : rows'[l] = rows[l]
  BY <1>1 DEF UpdateById, Tables
<1>3. \A r \in rows[k] : /\ New(r) \in [id : Nat, spec : AnySpec] /\ New(r).id = r.id
                         /\ New(r).spec \in Specs[k]
  BY <1>1 DEF RowsTyped, Tables, AnySpec
<1>4. rows' \in Tables
  <2>1. {New(r) : r \in rows[k]} \in SUBSET [id : Nat, spec : AnySpec]
    BY <1>3
  <2> HIDE DEF New
  <2>2. rows' = [rows EXCEPT ![k] = {New(r) : r \in rows[k]}]
    BY <1>1 DEF UpdateById, Tables, New
  <2> QED
    BY <1>1, <2>1, <2>2 DEF Tables
<1> HIDE DEF New
<1>5. \A l \in Keys : \A r \in rows'[l] : r.id \in 1..ids' /\ r.spec \in Specs[l]
  BY <1>1, <1>2, <1>3 DEF RowsTyped
<1>6. \A l, m \in Keys : \A r \in rows'[l], q \in rows'[m] : r.id = q.id => r = q /\ l = m
  BY <1>2, <1>3 DEF RowsTyped
<1>7. \A l \in Unique : \A r, q \in rows'[l] : r = q
  BY <1>2 DEF RowsTyped, Unique, Variables, Workers, Policies
<1> QED
  BY <1>1, <1>4, <1>5, <1>6, <1>7 DEF RowsTyped

LEMMA DeleteTyped ==
    ASSUME RowsTyped, NEW k \in Keys, NEW id, DeleteById(k, id)
    PROVE  RowsTyped'
<1>1. ids' = ids /\ rows \in Tables
  BY DEF DeleteById, RowsTyped
<1>2. rows' \in Tables /\ \A l \in Keys : rows'[l] \subseteq rows[l]
  BY <1>1 DEF DeleteById, Tables
<1> QED
  BY <1>1, <1>2 DEF RowsTyped, Unique, Variables, Workers, Policies

-----------------------------------------------------------------------------
(* Processes.                                                              *)

LEMMA Positions ==
    /\ Len(AssembleOrder) = 4 /\ Len(SyncOrder) = 4
    /\ \A kind \in Kinds : \E i \in 1..4 : AssembleOrder[i] = kind
    /\ \A kind \in Kinds : \E i \in 1..4 : SyncOrder[i] = kind
  BY DEF AssembleOrder, SyncOrder, Kinds

LEMMA Blank ==
    /\ NoRows \in Tables /\ NoDocs \in Documents
    /\ Idle \in JobRecords /\ Idle.at = "idle" /\ Idle.pos = 1
    /\ \A step \in Steps : /\ [Idle EXCEPT !.at = step] \in JobRecords
                           /\ [Idle EXCEPT !.at = step].at = step
                           /\ [Idle EXCEPT !.at = step].pos = 1
                           /\ [Idle EXCEPT !.at = step].todo = {}
<1>1. NoRows \in Tables /\ NoDocs \in Documents
  BY DEF NoRows, NoDocs, Tables, Documents
<1> QED
  BY <1>1 DEF Idle, JobRecords, Steps

LEMMA SetTyped ==
    ASSUME JobTyped, NEW p \in Procs, NEW j \in JobRecords, HasDocs(j), Set(p, j)
    PROVE  JobTyped' /\ job'[p] = j /\ \A q \in Procs \ {p} : job'[q] = job[q]
  BY DEF JobTyped, Set

LEMMA GotoTyped ==
    ASSUME JobTyped, NEW p \in Procs, NEW step \in Steps \ {"update", "write"}, Goto(p, step)
    PROVE  JobTyped' /\ job'[p] = [job[p] EXCEPT !.at = step]
           /\ \A q \in Procs \ {p} : job'[q] = job[q]
<1>1. [job[p] EXCEPT !.at = step] \in JobRecords /\ [job[p] EXCEPT !.at = step].at = step
  BY DEF JobTyped, JobRecords
<1> QED
  BY <1>1, SetTyped DEF Goto, HasDocs

LEMMA IdleTyped ==
    ASSUME JobTyped, NEW p \in Procs, NEW step \in Steps, Set(p, [Idle EXCEPT !.at = step])
    PROVE  JobTyped' /\ job'[p] = [Idle EXCEPT !.at = step]
           /\ \A q \in Procs \ {p} : job'[q] = job[q]
  BY Blank, SetTyped DEF HasDocs

LEMMA PublishTyped ==
    ASSUME JobTyped, NEW p \in Procs, BeginPublish(p)
    PROVE  JobTyped' /\ job'[p].at = "assemble" /\ job'[p].pos = 1 /\ calm' \subseteq {p}
           /\ \A q \in Procs \ {p} : job'[q] = job[q]
  BY IdleTyped, Blank DEF BeginPublish, BeginCalm, Steps

LEMMA Ends == ASSUME NEW p PROVE AtEnd(p) \in Steps \ {"update", "write"}
  BY DEF AtEnd, Steps

LEMMA InitTyped == Init => Typed
<1> SUFFICES ASSUME Init PROVE RowsTyped /\ JobTyped /\ RestTyped
  BY DEF Typed
<1>1. RowsTyped
  BY Blank DEF Init, RowsTyped, NoRows, Unique, Variables, Workers, Policies
<1>2. JobTyped
  BY Blank DEF Init, JobTyped, HasDocs, Steps
<1>3. RestTyped
  <2>1. 0 \in 0..MaxEvents
    BY ConfigurationAssumption
  <2> QED
    BY <2>1 DEF Init, RestTyped
<1> QED
  BY <1>1, <1>2, <1>3

\* The rest of the state after a step.
LEMMA RestStep ==
    ASSUME RestTyped, source' = source, active' \in Tables \cup {NoSnapshot},
           lock' \in Replicas \cup {NoProc}, events' = events \/ Fault,
           calm' \subseteq Procs, clean' \subseteq Replicas,
           settled' \in BOOLEAN, seeded' \in BOOLEAN, doubled' \in BOOLEAN
    PROVE  RestTyped'
<1>1. MaxEvents \in Nat
  BY ConfigurationAssumption
<1>2. events' \in 0..MaxEvents
  BY <1>1 DEF RestTyped, Fault
<1> QED
  BY <1>2 DEF RestTyped

\* A query reads the tables of one kind into the snapshot.
LEMMA AssembleStep ==
    ASSUME Typed, NEW p \in Procs, Assemble(p)
    PROVE  /\ JobTyped'
           /\ \A q \in Procs \ {p} : job'[q] = job[q]
           /\ \A k \in Keys : job'[p].read[k] = IF Kind[k] = AssembleOrder[job[p].pos] THEN rows[k]
                                                ELSE job[p].read[k]
           /\ IF job[p].pos < 4 THEN job'[p].at = "assemble" /\ job'[p].pos = job[p].pos + 1
              ELSE job'[p].at = "compare" /\ job[p].pos = 4
<1>1. job[p] \in JobRecords /\ JobTyped
  BY DEF Typed, JobTyped
<1>2. job[p].at = "assemble"
  BY DEF Assemble
<1> DEFINE now == {k \in Keys : Kind[k] = AssembleOrder[job[p].pos]}
           found == [k \in Keys |-> IF k \in now THEN rows[k] ELSE job[p].read[k]]
<1>3. found \in Tables
  BY <1>1 DEF Typed, RowsTyped, JobRecords, Tables
<1>4. \A k \in Keys : found[k] = IF Kind[k] = AssembleOrder[job[p].pos] THEN rows[k]
                               ELSE job[p].read[k]
  OBVIOUS
<1>5. Set(p, IF job[p].pos < 4
             THEN [job[p] EXCEPT !.pos = @ + 1, !.read = found]
             ELSE [job[p] EXCEPT !.pos = 1, !.read = found, !.at = "compare"])
  BY Positions DEF Assemble
<1>6. job[p].pos \in 1..4
  BY <1>1 DEF JobRecords
<1> HIDE DEF found
<1>7. CASE job[p].pos < 4
  <2> DEFINE j == [job[p] EXCEPT !.pos = @ + 1, !.read = found]
  <2>1. job[p].pos + 1 \in 1..4
    BY <1>6, <1>7
  <2>2. j \in JobRecords /\ HasDocs(j) /\ j.at = "assemble" /\ j.pos = job[p].pos + 1 /\ j.read = found
    BY <1>1, <1>2, <1>3, <2>1 DEF JobRecords, HasDocs
  <2> HIDE DEF j
  <2>3. Set(p, j)
    BY <1>5, <1>7 DEF j
  <2> QED
    BY <1>1, <1>4, <1>7, <2>2, <2>3, SetTyped
<1>8. CASE ~(job[p].pos < 4)
  <2>0. PICK j : j = [job[p] EXCEPT !.pos = 1, !.read = found, !.at = "compare"]
    OBVIOUS
  <2>1. j \in JobRecords /\ HasDocs(j) /\ j.at = "compare" /\ j.read = found
    <3>1. j = [at |-> "compare", pos |-> 1, read |-> found, docs |-> job[p].docs, todo |-> job[p].todo]
      BY <1>1, <2>0 DEF JobRecords
    <3>2. job[p].docs \in Documents /\ job[p].todo \in SUBSET Keys /\ "compare" \in Steps
      BY <1>1 DEF JobRecords, Steps
    <3> QED
      BY <1>3, <3>1, <3>2 DEF JobRecords, HasDocs
  <2>2. Set(p, j)
    BY <1>5, <1>8, <2>0
  <2> QED
    BY <1>1, <1>4, <1>6, <1>8, <2>1, <2>2, SetTyped
<1> QED
  BY <1>7, <1>8

\* What a query of Sync puts together is a table again: of the rows of the kinds
\* listed now one each, of the others what was there.
LEMMA ListFound ==
    ASSUME RowsTyped, JobTyped, NEW p \in Procs, ListRows(p)
    PROVE  \E found \in Tables :
               /\ Listed(p, found)
               /\ \A k \in Keys : IF Kind[k] = SyncOrder[job[p].pos]
                                  THEN found[k] \in One(rows[k])
                                  ELSE found[k] = job[p].read[k]
<1> DEFINE now == {k \in Keys : Kind[k] = SyncOrder[job[p].pos]}
<1>1. PICK f \in [now -> UNION {One(rows[k]) : k \in now}] :
          /\ \A k \in now : f[k] \in One(rows[k])
          /\ Listed(p, [k \in Keys |-> IF k \in now THEN f[k] ELSE job[p].read[k]])
  BY DEF ListRows
<1>2. ASSUME NEW k \in now PROVE f[k] \in SUBSET [id : Nat, spec : AnySpec]
  <2>1. rows[k] \in SUBSET [id : Nat, spec : AnySpec]
    BY DEF RowsTyped, Tables
  <2>2. f[k] \in One(rows[k])
    BY <1>1
  <2> QED
    BY <2>1, <2>2 DEF One
<1>3. job[p].read \in Tables
  BY DEF JobTyped, JobRecords
<1>4. [k \in Keys |-> IF k \in now THEN f[k] ELSE job[p].read[k]] \in Tables
  BY <1>2, <1>3, ZenonT(60) DEF Tables
<1>5. \A k \in Keys :
         IF Kind[k] = SyncOrder[job[p].pos]
         THEN [l \in Keys |-> IF l \in now THEN f[l] ELSE job[p].read[l]][k] \in One(rows[k])
         ELSE [l \in Keys |-> IF l \in now THEN f[l] ELSE job[p].read[l]][k] = job[p].read[k]
  BY <1>1
<1> QED
  BY <1>1, <1>4, <1>5

LEMMA TypedStep == ASSUME Typed, [Next]_vars PROVE Typed'
<1> USE DEF Procs
<1>0. RowsTyped /\ JobTyped /\ RestTyped
  BY DEF Typed
<1>1. ASSUME NEW p \in Procs
      PROVE  /\ job[p] \in JobRecords /\ HasDocs(job[p])
             /\ [job[p] EXCEPT !.at = "up"] \in JobRecords
  BY <1>0 DEF JobTyped, JobRecords, Steps
<1>2. ASSUME NEW c \in Clients, Request(c) PROVE Fault
  BY <1>2 DEF Request, Fault
<1>3. ASSUME NEW c \in Clients, NEW k \in Keys, NEW s \in Specs[k], Create(c, k, s) PROVE Typed'
  <2>1. RowsTyped'
    BY <1>0, <1>3, InsertTyped DEF Create
  <2>2. JobTyped' /\ calm' \subseteq Procs
    BY <1>0, <1>3, PublishTyped DEF Create
  <2>3. RestTyped'
    BY <1>0, <1>2, <1>3, <2>2, RestStep DEF Create, Disturb, RestTyped
  <2> QED
    BY <2>1, <2>2, <2>3 DEF Typed
<1>4. ASSUME NEW c \in Clients, NEW k \in Keys, NEW s \in Specs[k], GetRow(c, k, s) PROVE Typed'
  <2>1. RowsTyped'
    BY <1>0, <1>4 DEF GetRow, tables, RowsTyped
  <2>2. PICK r \in rows[k] :
            Set(c, [at |-> "update", pos |-> 1, read |-> [NoRows EXCEPT ![k] = {r}],
                    docs |-> [NoDocs EXCEPT ![k] = s], todo |-> {k}])
    BY <1>4 DEF GetRow
  <2> DEFINE j == [at |-> "update", pos |-> 1, read |-> [NoRows EXCEPT ![k] = {r}],
                   docs |-> [NoDocs EXCEPT ![k] = s], todo |-> {k}]
  <2>3. /\ j.at = "update" /\ j.todo = {k}
        /\ j.read = [NoRows EXCEPT ![k] = {r}] /\ j.docs = [NoDocs EXCEPT ![k] = s]
        /\ j = [at |-> "update", pos |-> 1, read |-> j.read, docs |-> j.docs, todo |-> {k}]
    OBVIOUS
  <2> HIDE DEF j
  <2>4. j.read \in Tables
    <3>1. r \in [id : Nat, spec : AnySpec]
      BY <1>0, <2>2 DEF RowsTyped, Tables
    <3> QED
      BY <2>3, <3>1, Blank DEF Tables
  <2>5. j.docs \in Documents /\ j.docs[k] # Absent
    BY <2>3, Blank, ConfigurationAssumption DEF Documents, AnySpec
  <2>6. j \in JobRecords /\ HasDocs(j)
    <3>1. "update" \in Steps /\ 1 \in 1..4 /\ {k} \in SUBSET Keys
      BY DEF Steps
    <3>2. j \in JobRecords
      <4>1. [at |-> "update", pos |-> 1, read |-> j.read, docs |-> j.docs, todo |-> {k}] \in JobRecords
        BY <2>4, <2>5, <3>1 DEF JobRecords
      <4> QED
        BY <2>3, <4>1
    <3>3. {k} \subseteq Docs(j.docs)
      BY <2>5 DEF Docs
    <3> QED
      BY <2>3, <3>2, <3>3 DEF HasDocs
  <2>7. JobTyped'
    BY <1>0, <2>2, <2>6, SetTyped DEF j
  <2>8. RestTyped'
    BY <1>0, <1>2, <1>4, RestStep DEF GetRow, history, RestTyped
  <2> QED
    BY <2>1, <2>7, <2>8 DEF Typed
<1>5. ASSUME NEW c \in Clients, NEW k \in Keys, Update(c, k) PROVE Typed'
  <2>1. job[c].docs[k] \in Specs[k]
    BY <1>1, <1>5 DEF Update, HasDocs, Docs, JobRecords, Documents
  <2>2. RowsTyped'
    BY <1>0, <1>5, <2>1, UpdateTyped DEF Update
  <2>3. JobTyped' /\ calm' \subseteq Procs
    BY <1>0, <1>5, PublishTyped DEF Update
  <2>4. RestTyped'
    BY <1>0, <1>5, <2>3, RestStep DEF Update, Disturb, RestTyped
  <2> QED
    BY <2>2, <2>3, <2>4 DEF Typed
<1>6. ASSUME NEW c \in Clients, NEW k \in Keys, Delete(c, k) PROVE Typed'
  <2>1. RowsTyped'
    BY <1>0, <1>6, DeleteTyped DEF Delete
  <2>2. JobTyped' /\ calm' \subseteq Procs
    BY <1>0, <1>6, PublishTyped DEF Delete
  <2>3. RestTyped'
    BY <1>0, <1>2, <1>6, <2>2, RestStep DEF Delete, Disturb, RestTyped
  <2> QED
    BY <2>1, <2>2, <2>3 DEF Typed
<1>7. ASSUME NEW c \in Clients, NEW bundle \in Bundles, Import(c, bundle) PROVE Typed'
  <2>1. [Idle EXCEPT !.at = "list", !.docs = bundle] \in JobRecords
        /\ HasDocs([Idle EXCEPT !.at = "list", !.docs = bundle])
    BY Blank, ConfigurationAssumption DEF Idle, JobRecords, HasDocs, Steps
  <2>2. JobTyped'
    BY <1>0, <1>7, <2>1, SetTyped DEF Import
  <2>3. RestTyped'
    BY <1>0, <1>2, <1>7, RestStep DEF Import, history, RestTyped
  <2> QED
    BY <1>0, <1>7, <2>2, <2>3 DEF Import, tables, Typed, RowsTyped
<1>8. ASSUME NEW p \in Replicas, Startup(p) PROVE Typed'
  <2>1. JobTyped' /\ calm' \subseteq Procs
    BY <1>0, <1>8, PublishTyped DEF Startup
  <2>2. RestTyped'
    BY <1>0, <1>8, <2>1, RestStep DEF Startup, RestTyped
  <2> QED
    BY <1>0, <1>8, <2>1, <2>2 DEF Startup, tables, Typed, RowsTyped
<1>9. ASSUME NEW p \in Replicas, AcquireLock(p) PROVE Typed'
  <2>1. [Idle EXCEPT !.at = "list", !.docs = Files] \in JobRecords
        /\ HasDocs([Idle EXCEPT !.at = "list", !.docs = Files])
    BY Blank, ConfigurationAssumption DEF Idle, JobRecords, HasDocs, Steps
  <2>2. JobTyped'
    BY <1>0, <1>9, <2>1, SetTyped DEF AcquireLock
  <2>3. RestTyped'
    BY <1>0, <1>9, RestStep DEF AcquireLock, RestTyped
  <2> QED
    BY <1>0, <1>9, <2>2, <2>3 DEF AcquireLock, tables, Typed, RowsTyped
<1>10. ASSUME NEW p \in Replicas, SkipSeed(p) PROVE Typed'
  <2>1. JobTyped'
    BY <1>0, <1>10, GotoTyped DEF SkipSeed, Steps
  <2>2. RestTyped'
    BY <1>0, <1>10, RestStep DEF SkipSeed, history, RestTyped
  <2> QED
    BY <1>0, <1>10, <2>1, <2>2 DEF SkipSeed, tables, Typed, RowsTyped
<1>11. ASSUME NEW p \in Procs, NEW found \in Tables, job[p].at = "list", Listed(p, found) PROVE JobTyped'
  <2> DEFINE j == IF job[p].pos < Len(SyncOrder)
           THEN [job[p] EXCEPT !.pos = @ + 1, !.read = found]
           ELSE [job[p] EXCEPT !.pos = 1, !.read = found, !.at = "write", !.todo = Docs(job[p].docs)]
  <2>1. Docs(job[p].docs) \subseteq Keys
    BY DEF Docs
  <2>2. CASE job[p].pos < 4
    <3>1. j = [job[p] EXCEPT !.pos = @ + 1, !.read = found]
      BY <2>2, Positions
    <3>2. job[p].pos + 1 \in 1..4
      <4>1. job[p].pos \in 1..4
        BY <1>1 DEF JobRecords
      <4> QED
        BY <2>2, <4>1
    <3> QED
      BY <1>0, <1>1, <1>11, <3>1, <3>2, SetTyped DEF JobRecords, HasDocs, Listed
  <2>3. CASE ~(job[p].pos < 4)
    <3>1. j = [job[p] EXCEPT !.pos = 1, !.read = found, !.at = "write", !.todo = Docs(job[p].docs)]
      BY <2>3, Positions
    <3> HIDE DEF j
    <3>2. j \in JobRecords /\ HasDocs(j)
      <4>1. j = [at |-> "write", pos |-> 1, read |-> found, docs |-> job[p].docs,
                 todo |-> Docs(job[p].docs)]
        BY <1>1, <3>1 DEF JobRecords
      <4>2. job[p].docs \in Documents
        BY <1>1 DEF JobRecords
      <4> QED
        BY <2>1, <4>1, <4>2 DEF JobRecords, HasDocs, Steps
    <3> QED
      BY <1>0, <1>11, <3>2, SetTyped DEF Listed, j
  <2> QED
    BY <2>2, <2>3
<1>12. ASSUME NEW p \in Procs, ListRows(p) PROVE Typed'
  <2>1. PICK found \in Tables : Listed(p, found)
    BY <1>0, <1>12, ListFound
  <2>4. JobTyped'
    BY <1>11, <1>12, <2>1 DEF ListRows
  <2>5. RestTyped'
    BY <1>0, <1>12, RestStep DEF ListRows, history, RestTyped
  <2> QED
    BY <1>0, <1>12, <2>4, <2>5 DEF ListRows, tables, Typed, RowsTyped
<1>13. ASSUME NEW p \in Procs, ListFails(p) PROVE Typed'
  <2>1. JobTyped'
    BY <1>1, <1>11, <1>13 DEF ListFails, JobRecords
  <2>2. RestTyped'
    BY <1>0, <1>13, RestStep DEF ListFails, RestTyped
  <2> QED
    BY <1>0, <1>13, <2>1, <2>2 DEF ListFails, tables, Typed, RowsTyped
<1>14. ASSUME NEW p \in Procs, NEW k, Set(p, [job[p] EXCEPT !.todo = @ \ {k}]) PROVE JobTyped'
  <2>1. [job[p] EXCEPT !.todo = @ \ {k}] \in JobRecords
        /\ HasDocs([job[p] EXCEPT !.todo = @ \ {k}])
    BY <1>1 DEF JobRecords, HasDocs
  <2> QED
    BY <1>0, <1>14, <2>1, SetTyped
<1>15. ASSUME NEW p \in Procs, NEW k \in Keys, Write(p, k) PROVE Typed'
  <2>1. job[p].docs[k] \in Specs[k]
    BY <1>1, <1>15 DEF Write, HasDocs, Docs, JobRecords, Documents
  <2>2. RowsTyped'
    BY <1>0, <1>15, <2>1, InsertTyped, UpdateTyped DEF Write
  <2>3. JobTyped'
    BY <1>14, <1>15 DEF Write
  <2>4. RestTyped'
    BY <1>0, <1>15, RestStep DEF Write, Disturb, RestTyped
  <2> QED
    BY <2>2, <2>3, <2>4 DEF Typed
<1>16. ASSUME NEW p \in Procs, NEW k \in Keys, WriteFails(p, k) PROVE Typed'
  <2>1. JobTyped'
    BY <1>14, <1>16 DEF WriteFails
  <2>2. RestTyped'
    BY <1>0, <1>16, RestStep DEF WriteFails, RestTyped
  <2> QED
    BY <1>0, <1>16, <2>1, <2>2 DEF WriteFails, tables, Typed, RowsTyped
<1>17. ASSUME NEW p \in Procs, WritesDone(p) PROVE Typed'
  <2>1. JobTyped' /\ calm' \subseteq Procs
    <3>1. CASE p \in Replicas
      <4>1. [job[p] EXCEPT !.at = "prune", !.todo = Obsolete(p)] \in JobRecords
            /\ HasDocs([job[p] EXCEPT !.at = "prune", !.todo = Obsolete(p)])
        BY <1>1 DEF JobRecords, HasDocs, Steps, Obsolete
      <4> QED
        BY <1>0, <1>17, <3>1, <4>1, SetTyped DEF WritesDone, RestTyped
    <3>2. CASE p \notin Replicas
      BY <1>0, <1>17, <3>2, PublishTyped DEF WritesDone
    <3> QED
      BY <3>1, <3>2
  <2>2. RestTyped'
    BY <1>0, <1>17, <2>1, RestStep DEF WritesDone, RestTyped
  <2> QED
    BY <1>0, <1>17, <2>1, <2>2 DEF WritesDone, tables, Typed, RowsTyped
<1>18. ASSUME NEW p \in Procs, NEW k \in Keys, Prune(p, k) PROVE Typed'
  <2>1. RowsTyped'
    BY <1>0, <1>18, DeleteTyped DEF Prune
  <2>2. JobTyped'
    BY <1>14, <1>18 DEF Prune
  <2>3. RestTyped'
    BY <1>0, <1>18, RestStep DEF Prune, Disturb, RestTyped
  <2> QED
    BY <2>1, <2>2, <2>3 DEF Typed
<1>19. ASSUME NEW p \in Procs, NEW k \in Keys, PruneFails(p, k) PROVE Typed'
  <2>1. JobTyped'
    BY <1>14, <1>19 DEF PruneFails
  <2>2. RestTyped'
    BY <1>0, <1>19, RestStep DEF PruneFails, RestTyped
  <2> QED
    BY <1>0, <1>19, <2>1, <2>2 DEF PruneFails, tables, Typed, RowsTyped
<1>20. ASSUME NEW p \in Procs, PruneDone(p) PROVE Typed'
  <2>1. JobTyped' /\ calm' \subseteq Procs
    BY <1>0, <1>20, PublishTyped DEF PruneDone
  <2>2. RestTyped'
    BY <1>0, <1>20, <2>1, RestStep DEF PruneDone, RestTyped
  <2> QED
    BY <1>0, <1>20, <2>1, <2>2 DEF PruneDone, tables, Typed, RowsTyped
<1>21. ASSUME NEW p \in Procs, Assemble(p) PROVE Typed'
  <2>1. JobTyped'
    BY <1>0, <1>21, AssembleStep DEF Typed
  <2>2. RestTyped'
    BY <1>0, <1>21, RestStep DEF Assemble, history, RestTyped
  <2> QED
    BY <1>0, <1>21, <2>1, <2>2 DEF Assemble, tables, Typed, RowsTyped
<1>22. ASSUME NEW p \in Procs, Published(p)
       PROVE  JobTyped' /\ calm' \subseteq Procs /\ clean' \subseteq Replicas
              /\ lock' \in Replicas \cup {NoProc} /\ seeded' \in BOOLEAN
  <2>1. JobTyped'
    BY <1>0, <1>22, IdleTyped, Ends DEF Published
  <2> QED
    BY <1>0, <1>22, <2>1 DEF Published, Unlock, RestTyped
<1>23. ASSUME NEW p \in Procs, Compare(p) PROVE Typed'
  <2>1. /\ JobTyped' /\ calm' \subseteq Procs /\ clean' \subseteq Replicas
        /\ lock' \in Replicas \cup {NoProc} /\ seeded' \in BOOLEAN /\ settled' \in BOOLEAN
    <3>1. CASE job[p].read = active
      BY <1>0, <1>22, <1>23, <3>1 DEF Compare, RestTyped
    <3>2. CASE job[p].read # active
      BY <1>0, <1>23, <3>2, GotoTyped DEF Compare, RestTyped, Steps
    <3> QED
      BY <3>1, <3>2
  <2>2. RestTyped'
    BY <1>0, <1>23, <2>1, RestStep DEF Compare, RestTyped
  <2> QED
    BY <1>0, <1>23, <2>1, <2>2 DEF Compare, tables, Typed, RowsTyped
<1>24. ASSUME NEW p \in Procs, Activate(p) PROVE Typed'
  <2>1. active' \in Tables
    BY <1>1, <1>24 DEF Activate, JobRecords
  <2>2. RestTyped'
    BY <1>0, <1>22, <1>24, <2>1, RestStep DEF Activate, RestTyped
  <2> QED
    BY <1>0, <1>22, <1>24, <2>2 DEF Activate, tables, Typed, RowsTyped
<1>25. ASSUME NEW p \in Procs, PublishFails(p) PROVE Typed'
  <2>1. JobTyped'
    <3>1. PICK step \in Steps : Set(p, [Idle EXCEPT !.at = step])
      BY <1>25, Ends DEF PublishFails, Steps
    <3> QED
      BY <1>0, <3>1, IdleTyped
  <2>2. active' \in Tables \cup {NoSnapshot} /\ settled' \in BOOLEAN /\ (events' = events \/ Fault)
    <3>1. job[p].read \in Tables
      BY <1>1 DEF JobRecords
    <3>2. \/ events' = events /\ active' = active /\ settled' = settled
          \/ Fault /\ active' = active /\ settled' = settled
          \/ Fault /\ active' = job[p].read /\ settled' = (p \in calm)
      BY <1>25 DEF PublishFails
    <3>3. settled \in BOOLEAN /\ (p \in calm) \in BOOLEAN
      BY <1>0 DEF RestTyped
    <3>4. active' \in Tables \cup {NoSnapshot}
      BY <1>0, <3>1, <3>2 DEF RestTyped
    <3> QED
      BY <3>2, <3>3, <3>4, Zenon
  <2>3. RestTyped'
    BY <1>0, <1>25, <2>2, RestStep DEF PublishFails, RestTyped
  <2> QED
    BY <1>0, <1>25, <2>1, <2>3 DEF PublishFails, tables, Typed, RowsTyped
<1>26. ASSUME NEW p \in Procs, Crash(p) PROVE Typed'
  <2>1. JobTyped'
    BY <1>0, <1>26, IdleTyped DEF Crash, Steps
  <2>2. RestTyped'
    BY <1>0, <1>26, RestStep DEF Crash, RestTyped
  <2> QED
    BY <1>0, <1>26, <2>1, <2>2 DEF Crash, tables, Typed, RowsTyped
<1>27. CASE LoseLock
  <2>1. RestTyped'
    BY <1>0, <1>27, RestStep DEF LoseLock, history, RestTyped
  <2> QED
    BY <1>0, <1>27, <2>1 DEF LoseLock, tables, Typed, RowsTyped, JobTyped
<1>28. CASE UNCHANGED vars
  BY <1>0, <1>28 DEF vars, tables, history, Typed, RowsTyped, JobTyped, RestTyped
<1>29. ASSUME NEW c \in Clients, Edit(c) PROVE Typed'
  BY <1>3, <1>4, <1>5, <1>6, <1>7, <1>29
     DEF Edit, CreateVariable, CreateWorkerInstance, CreatePolicyInstance, CreateRouting,
         UpdateVariable, UpdateWorkerInstance, UpdatePolicyInstance, UpdateRouting,
         DeleteVariable, DeleteWorkerInstance, DeletePolicyInstance, DeleteRouting,
         Variables, Workers, Policies, Routings
<1>30. ASSUME NEW p \in Procs, Sync(p) \/ Publish(p) PROVE Typed'
  BY <1>12, <1>13, <1>15, <1>16, <1>17, <1>18, <1>19, <1>20, <1>21, <1>23, <1>24, <1>25, <1>30
     DEF Sync, Publish
<1> QED
  BY <1>8, <1>9, <1>10, <1>26, <1>27, <1>28, <1>29, <1>30 DEF Next, Seed

\* Every variable keeps its type; ids stay unique, and so do the names that are
\* under a UNIQUE key, however the requests and the seedings interleave.
THEOREM TypeCorrect == Spec => []TypeOK
<1> QED
  BY InitTyped, TypedStep, TypedIsTyped, PTL DEF Spec

-----------------------------------------------------------------------------
(* The active version.                                                     *)

\* What a process is about to activate was found valid.
Checked == \A p \in Procs : job[p].at = "activate" => Valid(job[p].read)

ValidInv == Typed /\ ActiveIsValid /\ Checked

\* The steps of module Configuration, but for those of a publish.
Other == \/ \E c \in Clients : Edit(c)
         \/ \E p \in Replicas : Seed(p)
         \/ \E p \in Procs : Sync(p) \/ Crash(p)
         \/ LoseLock
         \/ UNCHANGED vars

\* Only a publish moves the pointer, and nothing but a comparison leads to it.
LEMMA OtherStep ==
    ASSUME Typed, Other
    PROVE  active' = active /\ \A q \in Procs : job'[q].at = "activate" => job'[q] = job[q]
<1> USE DEF Procs
<1>0. JobTyped /\ \A p \in Procs : job[p] \in JobRecords
  BY DEF Typed, JobTyped
<1>1. ASSUME NEW p \in Procs, NEW j, Set(p, j), j.at # "activate"
      PROVE  \A q \in Procs : job'[q].at = "activate" => job'[q] = job[q]
  BY <1>0, <1>1 DEF Set, JobTyped
<1>2. ASSUME NEW c \in Clients, Edit(c)
      PROVE  active' = active /\ \A q \in Procs : job'[q].at = "activate" => job'[q] = job[q]
  <2>1. CASE \E k \in Keys : \/ Update(c, k) \/ Delete(c, k) \/ \E s \in Specs[k] : Create(c, k, s)
    BY <1>0, <2>1, PublishTyped DEF Update, Delete, Create
  <2>2. CASE \E k \in Keys : \E s \in Specs[k] : GetRow(c, k, s)
    <3>1. active' = active
      BY <2>2 DEF GetRow
    <3>2. PICK read, docs, todo :
              Set(c, [at |-> "update", pos |-> 1, read |-> read, docs |-> docs, todo |-> todo])
      BY <2>2 DEF GetRow
    <3> QED
      BY <1>0, <3>1, <3>2 DEF Set, JobTyped
  <2>3. CASE \E bundle \in Bundles : Import(c, bundle)
    <3>1. PICK bundle : Set(c, [Idle EXCEPT !.at = "list", !.docs = bundle]) /\ active' = active
      BY <2>3 DEF Import
    <3> QED
      BY <1>0, <3>1 DEF Idle, Set, JobTyped
  <2> QED
    BY <1>2, <2>1, <2>2, <2>3
       DEF Edit, CreateVariable, CreateWorkerInstance, CreatePolicyInstance, CreateRouting,
           UpdateVariable, UpdateWorkerInstance, UpdatePolicyInstance, UpdateRouting,
           DeleteVariable, DeleteWorkerInstance, DeletePolicyInstance, DeleteRouting,
           Variables, Workers, Policies, Routings
<1>3. ASSUME NEW p \in Replicas, Seed(p)
      PROVE  active' = active /\ \A q \in Procs : job'[q].at = "activate" => job'[q] = job[q]
  <2>1. CASE Startup(p)
    BY <1>0, <2>1, PublishTyped DEF Startup
  <2>2. CASE AcquireLock(p)
    BY <1>0, <2>2 DEF AcquireLock, Idle, Set, JobTyped
  <2>3. CASE SkipSeed(p)
    <3>1. [job[p] EXCEPT !.at = "up"].at = "up" /\ active' = active
      BY <1>0, <2>3 DEF SkipSeed, JobRecords
    <3> QED
      BY <1>1, <2>3, <3>1 DEF SkipSeed, Goto
  <2> QED
    BY <1>3, <2>1, <2>2, <2>3 DEF Seed
<1>4. ASSUME NEW p \in Procs, Sync(p)
      PROVE  active' = active /\ \A q \in Procs : job'[q].at = "activate" => job'[q] = job[q]
  <2>0. active' = active
    BY <1>4 DEF Sync, ListRows, ListFails, Write, WriteFails, WritesDone, Prune, PruneFails, PruneDone
  <2>1. ASSUME NEW found, job[p].at = "list", Listed(p, found)
        PROVE  \A q \in Procs : job'[q].at = "activate" => job'[q] = job[q]
    BY <1>0, <2>1 DEF Listed, Set, JobTyped, JobRecords
  <2>2. CASE ListRows(p)
    BY <2>1, <2>2 DEF ListRows
  <2>3. CASE ListFails(p)
    BY <2>1, <2>3 DEF ListFails
  <2>4. CASE \E k \in Keys : Write(p, k) \/ WriteFails(p, k) \/ Prune(p, k) \/ PruneFails(p, k)
    <3>1. PICK k \in Keys : Set(p, [job[p] EXCEPT !.todo = @ \ {k}]) /\ job[p].at # "activate"
      BY <2>4 DEF Write, WriteFails, Prune, PruneFails
    <3> QED
      <4>1. [job[p] EXCEPT !.todo = @ \ {k}].at = job[p].at
        BY <1>0 DEF JobRecords
      <4> QED
        BY <2>0, <1>1, <3>1, <4>1
  <2>5. CASE WritesDone(p) \/ PruneDone(p)
    <3>1. CASE BeginPublish(p)
      BY <2>0, <1>1, <3>1, Blank DEF BeginPublish, Steps
    <3>2. CASE Set(p, [job[p] EXCEPT !.at = "prune", !.todo = Obsolete(p)])
      <4>1. [job[p] EXCEPT !.at = "prune", !.todo = Obsolete(p)].at = "prune"
        BY <1>0 DEF JobRecords
      <4> QED
        BY <2>0, <1>1, <3>2, <4>1
    <3> QED
      BY <2>5, <3>1, <3>2 DEF WritesDone, PruneDone
  <2> QED
    BY <1>4, <2>0, <2>2, <2>3, <2>4, <2>5 DEF Sync
<1>5. ASSUME NEW p \in Procs, Crash(p)
      PROVE  active' = active /\ \A q \in Procs : job'[q].at = "activate" => job'[q] = job[q]
  <2>1. PICK step \in {"boot", "idle"} : Set(p, [Idle EXCEPT !.at = step]) /\ active' = active
    BY <1>5 DEF Crash
  <2>2. [Idle EXCEPT !.at = step].at # "activate"
    BY Blank DEF Steps
  <2> QED
    BY <1>1, <2>1, <2>2
<1>6. CASE LoseLock \/ UNCHANGED vars
  BY <1>6 DEF LoseLock, vars
<1> QED
  BY <1>2, <1>3, <1>4, <1>5, <1>6 DEF Other

LEMMA ValidStep == ASSUME ValidInv, [Next]_vars PROVE ValidInv'
<1> USE DEF ValidInv
<1>0. Typed' /\ JobTyped /\ \A p \in Procs : job[p] \in JobRecords
  BY TypedStep DEF Typed, JobTyped
<1>1. CASE Other
  BY <1>0, <1>1, OtherStep DEF ActiveIsValid, Checked
<1>2. ASSUME NEW p \in Procs, Publish(p) PROVE ActiveIsValid' /\ Checked'
  <2>1. CASE Assemble(p)
    <3>1. active' = active
      BY <2>1 DEF Assemble
    <3> QED
      BY <2>1, <3>1, AssembleStep DEF ActiveIsValid, Checked
  <2>2. ASSUME NEW step \in Steps \ {"activate"}, Set(p, [Idle EXCEPT !.at = step])
        PROVE  Checked'
    <3>1. job'[p].at = step /\ \A q \in Procs \ {p} : job'[q] = job[q]
      BY <1>0, <2>2, IdleTyped, Blank
    <3> QED
      BY <2>2, <3>1 DEF Checked
  <2>3. AtEnd(p) \in Steps \ {"activate"} /\ "boot" \in Steps \ {"activate"}
    BY DEF AtEnd, Steps
  <2>4. CASE Compare(p)
    <3>1. active' = active /\ Valid(job[p].read)
      BY <2>4 DEF Compare
    <3>2. CASE Published(p)
      BY <2>2, <2>3, <3>1, <3>2 DEF Published, ActiveIsValid
    <3>3. CASE Goto(p, "activate")
      <4>1. job'[p].read = job[p].read /\ \A q \in Procs \ {p} : job'[q] = job[q]
        BY <1>0, <3>3, GotoTyped, ZenonT(60) DEF Steps, JobRecords
      <4> QED
        BY <3>1, <4>1 DEF ActiveIsValid, Checked
    <3> QED
      BY <2>4, <3>2, <3>3 DEF Compare
  <2>5. CASE Activate(p)
    BY <2>2, <2>3, <2>5 DEF Activate, Published, ActiveIsValid, Checked
  <2>6. CASE PublishFails(p)
    <3>1. active' = active \/ (active' = job[p].read /\ job[p].at = "activate")
      BY <2>6 DEF PublishFails
    <3>2. ActiveIsValid'
      BY <3>1 DEF ActiveIsValid, Checked
    <3> QED
      BY <2>2, <2>3, <2>6, <3>2 DEF PublishFails
  <2> QED
    BY <1>2, <2>1, <2>4, <2>5, <2>6 DEF Publish
<1> QED
  BY <1>0, <1>1, <1>2 DEF Next, Other

\* No version that breaks a reference is ever active, although the snapshot is
\* read query by query, for any number of requests and replicas.
THEOREM OnlyValidIsActive == Spec => []ActiveIsValid
<1>1. Init => ValidInv
  <2> SUFFICES ASSUME Init PROVE ActiveIsValid /\ Checked
    BY InitTyped DEF ValidInv
  <2> QED
    BY Blank DEF Init, ActiveIsValid, Checked, Steps
<1>2. ValidInv => ActiveIsValid
  BY DEF ValidInv
<1> QED
  BY <1>1, <1>2, ValidStep, PTL DEF Spec

-----------------------------------------------------------------------------
(* A publish that nothing has interfered with.                             *)

\* The kinds whose query is done.
Read(p, k) == \/ job[p].at # "assemble"
              \/ \E i \in 1..4 : i < job[p].pos /\ AssembleOrder[i] = Kind[k]

\* What a calm publish has read is what the tables hold.
CalmReads ==
    \A p \in calm : p \in Publishing /\ \A k \in Keys : Read(p, k) => job[p].read[k] = rows[k]

CurrentInv == Typed /\ ActiveIsCurrent /\ CalmReads

\* The publish of p begins, and writes rows or not.
LEMMA Begins ==
    ASSUME Typed, NEW p \in Procs, BeginPublish(p), active' = active,
           (settled' = settled /\ rows' = rows) \/ settled' = FALSE, ActiveIsCurrent
    PROVE  ActiveIsCurrent' /\ CalmReads'
<1>1. JobTyped' /\ job'[p].at = "assemble" /\ job'[p].pos = 1 /\ calm' \subseteq {p}
  BY PublishTyped DEF Typed
<1>2. \A k \in Keys : ~Read(p, k)'
  BY <1>1 DEF Read
<1>3. p \in Publishing'
  BY <1>1 DEF Publishing
<1> QED
  BY <1>1, <1>2, <1>3 DEF ActiveIsCurrent, CalmReads

\* A step of p leaves the tables and the publishes of others alone.
LEMMA Leaves ==
    ASSUME CalmReads, ActiveIsCurrent, UNCHANGED <<rows, active, settled>>, calm' \subseteq calm,
           \A p \in calm' : job'[p] = job[p]
    PROVE  ActiveIsCurrent' /\ CalmReads'
  BY DEF CalmReads, ActiveIsCurrent, Read, Publishing

LEMMA CurrentStep == ASSUME CurrentInv, [Next]_vars PROVE CurrentInv'
<1> USE DEF Procs, CurrentInv, tables, history
<1>0. /\ Typed' /\ JobTyped /\ rows \in Tables
      /\ \A p \in Procs : job[p] \in JobRecords
  BY TypedStep DEF Typed, JobTyped, RowsTyped
<1>1. ASSUME NEW p \in Procs, NEW j, Set(p, j), p \notin calm',
             UNCHANGED <<rows, active, settled>>, calm' \subseteq calm
      PROVE  ActiveIsCurrent' /\ CalmReads'
  <2>1. \A q \in calm' : job'[q] = job[q]
    BY <1>0, <1>1 DEF Set, JobTyped, CalmReads, Publishing
  <2> QED
    BY <1>1, <2>1, Leaves
<1>2. \A p \in calm : job[p].at \in {"assemble", "compare", "activate"}
  BY DEF CalmReads, Publishing
<1>3. ASSUME NEW c \in Clients, Edit(c) PROVE ActiveIsCurrent' /\ CalmReads'
  <2>1. CASE \E k \in Keys : \/ Update(c, k) \/ Delete(c, k) \/ \E s \in Specs[k] : Create(c, k, s)
    BY <2>1, Begins DEF Update, Delete, Create, Disturb
  <2>2. CASE \E k \in Keys : \E s \in Specs[k] : GetRow(c, k, s)
    BY <1>1, <1>2, <2>2 DEF GetRow, Request
  <2>3. CASE \E bundle \in Bundles : Import(c, bundle)
    BY <1>1, <1>2, <2>3 DEF Import, Request
  <2> QED
    BY <1>3, <2>1, <2>2, <2>3
       DEF Edit, CreateVariable, CreateWorkerInstance, CreatePolicyInstance, CreateRouting,
           UpdateVariable, UpdateWorkerInstance, UpdatePolicyInstance, UpdateRouting,
           DeleteVariable, DeleteWorkerInstance, DeletePolicyInstance, DeleteRouting,
           Variables, Workers, Policies, Routings
<1>4. ASSUME NEW p \in Replicas, Seed(p) PROVE ActiveIsCurrent' /\ CalmReads'
  <2>1. CASE Startup(p)
    BY <2>1, Begins DEF Startup
  <2>2. CASE AcquireLock(p)
    BY <1>1, <1>2, <2>2 DEF AcquireLock
  <2>3. CASE SkipSeed(p)
    BY <1>1, <1>2, <2>3 DEF SkipSeed, Goto
  <2> QED
    BY <1>4, <2>1, <2>2, <2>3 DEF Seed
<1>5. ASSUME NEW p \in Procs, Sync(p) PROVE ActiveIsCurrent' /\ CalmReads'
  <2>1. CASE ListRows(p)
    BY <1>1, <1>2, <2>1 DEF ListRows, Listed
  <2>2. CASE ListFails(p)
    BY <1>1, <1>2, <2>2 DEF ListFails, Listed
  <2>3. CASE \E k \in Keys : WriteFails(p, k) \/ PruneFails(p, k)
    BY <1>1, <1>2, <2>3 DEF WriteFails, PruneFails
  <2>4. CASE \E k \in Keys : Write(p, k) \/ Prune(p, k)
    BY <2>4 DEF Write, Prune, Disturb, ActiveIsCurrent, CalmReads
  <2>5. CASE WritesDone(p)
    <3>1. CASE p \in Replicas
      BY <1>1, <1>2, <2>5, <3>1 DEF WritesDone
    <3>2. CASE p \notin Replicas
      BY <2>5, <3>2, Begins DEF WritesDone
    <3> QED
      BY <3>1, <3>2
  <2>6. CASE PruneDone(p)
    BY <2>6, Begins DEF PruneDone
  <2> QED
    BY <1>5, <2>1, <2>2, <2>3, <2>4, <2>5, <2>6 DEF Sync
<1>6. ASSUME NEW p \in Procs, Crash(p) PROVE ActiveIsCurrent' /\ CalmReads'
  BY <1>1, <1>6 DEF Crash
<1>7. CASE LoseLock \/ UNCHANGED vars
  <2>1. UNCHANGED <<rows, active, settled>> /\ calm' \subseteq calm /\ \A p \in calm' : job'[p] = job[p]
    BY <1>7 DEF LoseLock, vars
  <2> QED
    BY <1>0, <2>1, Leaves
<1>8. ASSUME NEW p \in Procs, Assemble(p) PROVE ActiveIsCurrent' /\ CalmReads'
  <2>1. UNCHANGED <<rows, active, settled, calm>>
    BY <1>8 DEF Assemble
  <2>2. ASSUME NEW q \in calm, q # p PROVE job'[q] = job[q]
    BY <1>8, <2>2, AssembleStep DEF CalmReads, Publishing
  <2>3. ASSUME p \in calm, NEW k \in Keys, Read(p, k)' PROVE job'[p].read[k] = rows[k]
    <3>1. job[p].at = "assemble" /\ job[p].pos \in 1..4
      BY <1>0, <1>8 DEF Assemble, JobRecords
    <3>2. CASE Kind[k] = AssembleOrder[job[p].pos]
      BY <1>8, <3>2, AssembleStep
    <3>3. CASE Kind[k] # AssembleOrder[job[p].pos]
      <4>1. PICK i \in 1..4 : i < job[p].pos /\ AssembleOrder[i] = Kind[k]
        <5>1. CASE job[p].pos < 4
          BY <1>8, <2>3, <3>1, <3>3, <5>1, AssembleStep DEF Read
        <5>2. CASE job[p].pos = 4
          <6>1. PICK i \in 1..4 : AssembleOrder[i] = Kind[k]
            BY Positions, ConfigurationAssumption
          <6> QED
            BY <3>3, <5>2, <6>1
        <5> QED
          BY <3>1, <5>1, <5>2
      <4>2. Read(p, k)
        BY <4>1 DEF Read
      <4> QED
        BY <1>8, <2>3, <3>3, <4>2, AssembleStep DEF CalmReads
    <3> QED
      BY <3>2, <3>3
  <2>4. p \in Publishing'
    BY <1>8, AssembleStep DEF Publishing
  <2>5. ASSUME NEW q \in calm
        PROVE  q \in Publishing' /\ \A k \in Keys : Read(q, k)' => job'[q].read[k] = rows[k]
    <3>1. CASE q = p
      BY <2>3, <2>4, <2>5, <3>1
    <3>2. CASE q # p
      BY <2>2, <2>5, <3>2 DEF CalmReads, Publishing, Read
    <3> QED
      BY <3>1, <3>2
  <2> QED
    BY <2>1, <2>5 DEF ActiveIsCurrent, CalmReads
<1>9. ASSUME NEW p \in calm, job[p].at # "assemble" PROVE job[p].read = rows /\ p \in Procs
  <2>1. \A k \in Keys : job[p].read[k] = rows[k]
    BY <1>9 DEF CalmReads, Read
  <2>2. job[p].read \in Tables /\ p \in Procs
    BY <1>0, <1>9 DEF CalmReads, Publishing, JobRecords
  <2> QED
    BY <1>0, <2>1, <2>2 DEF Tables
\* The publish of p is over, and the pointer is where it was or at what was read.
<1>10. ASSUME NEW p \in Procs, NEW j, Set(p, j), calm' = calm \ {p}, rows' = rows,
              \/ active' = active /\ settled' = settled
              \/ /\ active' = job[p].read /\ job[p].at # "assemble"
                 /\ settled' = TRUE => (settled = TRUE /\ active' = active) \/ p \in calm
       PROVE  ActiveIsCurrent' /\ CalmReads'
  <2>1. \A q \in calm' : q \in calm /\ job'[q] = job[q]
    BY <1>0, <1>10 DEF Set, JobTyped, CalmReads, Publishing
  <2>2. CalmReads'
    BY <1>10, <2>1 DEF CalmReads, Publishing, Read
  <2>3. ActiveIsCurrent'
    BY <1>9, <1>10 DEF ActiveIsCurrent
  <2> QED
    BY <2>2, <2>3
<1>11. ASSUME NEW p \in Procs, Compare(p) PROVE ActiveIsCurrent' /\ CalmReads'
  <2>1. CASE job[p].read = active
    BY <1>10, <1>11, <2>1 DEF Compare, Published
  <2>2. CASE job[p].read # active
    <3>1. job'[p] = [job[p] EXCEPT !.at = "activate"] /\ \A q \in Procs \ {p} : job'[q] = job[q]
      BY <1>0, <1>11, <2>2 DEF Compare, Goto, Set, JobTyped
    <3>2. job'[p].at = "activate" /\ job'[p].read = job[p].read
      BY <1>0, <3>1 DEF JobRecords
    <3> QED
      <4>1. UNCHANGED <<rows, active, calm, settled>> /\ job[p].at = "compare"
        BY <1>11, <2>2 DEF Compare
      <4>2. ASSUME NEW q \in calm
            PROVE  q \in Publishing' /\ \A k \in Keys : Read(q, k)' => job'[q].read[k] = rows[k]
        <5>1. q \in Publishing /\ \A k \in Keys : Read(q, k) => job[q].read[k] = rows[k]
          BY <4>2 DEF CalmReads
        <5>2. CASE q = p
          BY <3>2, <4>1, <5>1, <5>2 DEF Publishing, Read
        <5>3. CASE q # p
          BY <3>1, <5>1, <5>3, <4>1 DEF Publishing, Read
        <5> QED
          BY <5>2, <5>3
      <4> QED
        BY <4>1, <4>2 DEF CalmReads, ActiveIsCurrent
  <2> QED
    BY <2>1, <2>2
<1>12. ASSUME NEW p \in Procs, Activate(p) PROVE ActiveIsCurrent' /\ CalmReads'
  BY <1>10, <1>12 DEF Activate, Published
<1>13. ASSUME NEW p \in Procs, PublishFails(p) PROVE ActiveIsCurrent' /\ CalmReads'
  BY <1>10, <1>13 DEF PublishFails
<1> QED
  BY <1>0, <1>3, <1>4, <1>5, <1>6, <1>7, <1>8, <1>11, <1>12, <1>13 DEF Next, Publish

\* After an undisturbed publish the active version is what the tables hold, for
\* any keys, requests, replicas and faults.
THEOREM PublishedIsCurrent == Spec => []ActiveIsCurrent
<1>1. Init => CurrentInv
  <2> SUFFICES ASSUME Init PROVE ActiveIsCurrent /\ CalmReads
    BY InitTyped DEF CurrentInv
  <2> QED
    BY DEF Init, ActiveIsCurrent, CalmReads
<1>2. CurrentInv => ActiveIsCurrent
  BY DEF CurrentInv
<1> QED
  BY <1>1, <1>2, CurrentStep, PTL DEF Spec

-----------------------------------------------------------------------------
(* A seeding that nothing has interfered with.                             *)

HoldsFile(k) == {r.spec : r \in rows[k]} = IF Files[k] = Absent THEN {} ELSE {Files[k]}

\* Sync has listed the rows of the kind of k.
HasListed(j, k) ==
    \/ j.at # "list"
    \/ \E i \in 1..4 : i < j.pos /\ SyncOrder[i] = Kind[k]

\* Sync has nothing more to do about k: its document is written, its row is
\* pruned, or neither the files nor the tables held it.
Done(j, k) ==
    \/ j.at \in {"assemble", "compare", "activate"}
    \/ j.at = "prune" /\ k \notin j.todo
    \/ j.at = "write" /\ k \notin j.todo /\ (Files[k] = Absent => j.read[k] = {})
    \/ j.at = "list" /\ HasListed(j, k) /\ Files[k] = Absent /\ j.read[k] = {}

\* Whoever seeds, with the lock or without, seeds the bundle files, and prunes
\* only what they do not name.
OfFiles(j) ==
    /\ j.at \in {"list", "write", "prune"} => j.docs = Files
    /\ j.at = "list" => j.todo = {}
    /\ j.at = "prune" => \A k \in j.todo : Files[k] = Absent

SeedsFiles == \A q \in Replicas : OfFiles(job[q])

\* Where a clean seeding of q is: what it is done with is as in the files; while
\* it has the lock, what it has listed and not yet dealt with is in the tables.
Goes(q) ==
    /\ job[q].at \in {"list", "write", "prune", "assemble", "compare", "activate"}
    /\ \A k \in Keys : Done(job[q], k) => HoldsFile(k)
    /\ lock = q => \A k \in Keys :
         /\ \A r, s \in rows[k] : r = s
         /\ HasListed(job[q], k) /\ ~Done(job[q], k) => job[q].read[k] = rows[k]

SeedingGoesOn == ~doubled => \A q \in clean : Goes(q)

FilesInv == Typed /\ SeedsFiles /\ SeedingGoesOn /\ FilesAreTruth

LEMMA SeedsFilesStep == ASSUME Typed, SeedsFiles, [Next]_vars PROVE SeedsFiles'
<1> USE DEF Procs
<1>0. JobTyped /\ \A p \in Procs : job[p] \in JobRecords /\ HasDocs(job[p])
  BY DEF Typed, JobTyped
<1>1. ASSUME NEW p \in Procs, NEW j, Set(p, j), p \in Replicas => OfFiles(j) PROVE SeedsFiles'
  BY <1>0, <1>1 DEF Set, JobTyped, SeedsFiles
<1>2. ASSUME NEW p \in Procs, NEW step \in Steps \ {"list", "write", "prune"},
             Set(p, [Idle EXCEPT !.at = step])
      PROVE  SeedsFiles'
  <2>1. OfFiles([Idle EXCEPT !.at = step])
    BY Blank DEF OfFiles
  <2> QED
    BY <1>1, <1>2, <2>1
<1>3. ASSUME NEW p \in Procs, NEW step \in Steps \ {"list", "write", "prune"}, Goto(p, step)
      PROVE  SeedsFiles'
  <2>1. [job[p] EXCEPT !.at = step].at = step
    BY <1>0 DEF JobRecords
  <2>2. OfFiles([job[p] EXCEPT !.at = step])
    BY <2>1 DEF OfFiles
  <2> QED
    BY <1>1, <1>3, <2>2 DEF Goto
<1>4. ASSUME NEW p \in Procs, BeginPublish(p) PROVE SeedsFiles'
  BY <1>2, <1>4 DEF BeginPublish, Steps
<1>5. ASSUME NEW c \in Clients, Edit(c) PROVE SeedsFiles'
  <2>1. c \notin Replicas
    BY ConfigurationAssumption
  <2>2. \E j : Set(c, j)
    BY <1>5
       DEF Edit, CreateVariable, CreateWorkerInstance, CreatePolicyInstance, CreateRouting,
           UpdateVariable, UpdateWorkerInstance, UpdatePolicyInstance, UpdateRouting,
           DeleteVariable, DeleteWorkerInstance, DeletePolicyInstance, DeleteRouting,
           Create, GetRow, Update, Delete, Import, BeginPublish
  <2> QED
    BY <1>1, <2>1, <2>2
<1>6. ASSUME NEW p \in Replicas, Seed(p) PROVE SeedsFiles'
  <2>1. CASE Startup(p)
    BY <1>4, <2>1 DEF Startup
  <2>2. CASE AcquireLock(p)
    <3>1. [Idle EXCEPT !.at = "list", !.docs = Files].docs = Files
          /\ [Idle EXCEPT !.at = "list", !.docs = Files].at = "list"
          /\ [Idle EXCEPT !.at = "list", !.docs = Files].todo = {}
      BY DEF Idle
    <3>2. OfFiles([Idle EXCEPT !.at = "list", !.docs = Files])
      BY <3>1 DEF OfFiles
    <3> QED
      BY <1>1, <2>2, <3>2 DEF AcquireLock
  <2>3. CASE SkipSeed(p)
    BY <1>3, <2>3 DEF SkipSeed, Steps
  <2> QED
    BY <1>6, <2>1, <2>2, <2>3 DEF Seed
<1>7. ASSUME NEW p \in Procs, NEW found \in Tables, job[p].at = "list", Listed(p, found)
      PROVE  SeedsFiles'
  <2>1. CASE job[p].pos < 4
    <3>1. Set(p, [job[p] EXCEPT !.pos = @ + 1, !.read = found])
      BY <1>7, <2>1, Positions DEF Listed
    <3>2. [job[p] EXCEPT !.pos = @ + 1, !.read = found].at = job[p].at
          /\ [job[p] EXCEPT !.pos = @ + 1, !.read = found].docs = job[p].docs
          /\ [job[p] EXCEPT !.pos = @ + 1, !.read = found].todo = job[p].todo
      BY <1>0 DEF JobRecords
    <3>3. OfFiles(job[p]) => OfFiles([job[p] EXCEPT !.pos = @ + 1, !.read = found])
      BY <3>2 DEF OfFiles
    <3> QED
      BY <1>1, <3>1, <3>3 DEF SeedsFiles
  <2>2. CASE ~(job[p].pos < 4)
    <3> DEFINE j == [job[p] EXCEPT !.pos = 1, !.read = found, !.at = "write", !.todo = Docs(job[p].docs)]
    <3>1. Set(p, j)
      BY <1>7, <2>2, Positions DEF Listed
    <3>2. j.at = "write" /\ j.docs = job[p].docs
      BY <1>0 DEF JobRecords
    <3>3. OfFiles(job[p]) => OfFiles(j)
      BY <1>7, <3>2 DEF OfFiles
    <3> QED
      BY <1>1, <3>1, <3>3 DEF SeedsFiles
  <2> QED
    BY <2>1, <2>2
<1>8. ASSUME NEW p \in Procs, NEW k, Set(p, [job[p] EXCEPT !.todo = @ \ {k}]) PROVE SeedsFiles'
  <2>1. [job[p] EXCEPT !.todo = @ \ {k}].at = job[p].at
        /\ [job[p] EXCEPT !.todo = @ \ {k}].docs = job[p].docs
        /\ [job[p] EXCEPT !.todo = @ \ {k}].todo = job[p].todo \ {k}
    BY <1>0 DEF JobRecords
  <2>2. OfFiles(job[p]) => OfFiles([job[p] EXCEPT !.todo = @ \ {k}])
    BY <2>1 DEF OfFiles
  <2> QED
    BY <1>1, <1>8, <2>2 DEF SeedsFiles
<1>9. ASSUME NEW p \in Procs, Sync(p) PROVE SeedsFiles'
  <2>1. CASE ListRows(p)
    <3>1. PICK found \in Tables : Listed(p, found)
      BY <2>1, ListFound DEF Typed
    <3> QED
      BY <1>7, <2>1, <3>1 DEF ListRows
  <2>2. CASE ListFails(p)
    BY <1>0, <1>7, <2>2 DEF ListFails, JobRecords
  <2>3. CASE \E k \in Keys : Write(p, k) \/ WriteFails(p, k) \/ Prune(p, k) \/ PruneFails(p, k)
    BY <1>8, <2>3 DEF Write, WriteFails, Prune, PruneFails
  <2>4. CASE WritesDone(p)
    <3>1. CASE p \in Replicas
      <4> DEFINE j == [job[p] EXCEPT !.at = "prune", !.todo = Obsolete(p)]
      <4>1. j.at = "prune" /\ j.docs = job[p].docs /\ j.todo = Obsolete(p)
        BY <1>0 DEF JobRecords
      <4>2. OfFiles(job[p]) => OfFiles(j)
        BY <2>4, <4>1 DEF OfFiles, WritesDone, Obsolete
      <4> QED
        BY <1>1, <2>4, <3>1, <4>2 DEF WritesDone, SeedsFiles
    <3>2. CASE p \notin Replicas
      BY <1>4, <2>4, <3>2 DEF WritesDone
    <3> QED
      BY <3>1, <3>2
  <2>5. CASE PruneDone(p)
    BY <1>4, <2>5 DEF PruneDone
  <2> QED
    BY <1>9, <2>1, <2>2, <2>3, <2>4, <2>5 DEF Sync
<1>11. \A p : AtEnd(p) \in Steps \ {"list", "write", "prune"}
  BY DEF AtEnd, Steps
<1>12. ASSUME NEW p \in Procs, Publish(p) PROVE SeedsFiles'
  <2>1. CASE Assemble(p)
    <3>1. job'[p].at \in {"assemble", "compare"} /\ \A q \in Procs \ {p} : job'[q] = job[q]
      BY <2>1, AssembleStep
    <3> QED
      BY <3>1 DEF SeedsFiles, OfFiles
  <2>2. CASE Compare(p)
    BY <1>2, <1>3, <1>11, <2>2 DEF Compare, Published, Steps
  <2>3. CASE Activate(p)
    BY <1>2, <1>11, <2>3 DEF Activate, Published
  <2>4. CASE PublishFails(p)
    BY <1>2, <1>11, <2>4 DEF PublishFails, Steps
  <2> QED
    BY <1>12, <2>1, <2>2, <2>3, <2>4 DEF Publish
<1>13. ASSUME NEW p \in Procs, Crash(p) PROVE SeedsFiles'
  BY <1>2, <1>13 DEF Crash, Steps
<1>14. CASE LoseLock \/ UNCHANGED vars
  BY <1>14 DEF LoseLock, vars, SeedsFiles
<1> QED
  BY <1>5, <1>6, <1>9, <1>12, <1>13, <1>14 DEF Next

\* A step of p that leaves the tables alone: it keeps its own seeding going, if
\* it still has a clean one, and does not end it before its publish.
LEMMA StillGoes ==
    ASSUME Typed, SeedingGoesOn, FilesAreTruth, NEW p \in Procs,
           rows' = rows, lock' \in {lock, NoProc}, clean' \subseteq clean, doubled' = doubled,
           \A q \in Procs \ {p} : job'[q] = job[q],
           ~doubled /\ p \in clean' => Goes(p)',
           seeded' => seeded \/ (p \in clean /\ job[p].at \in {"compare", "activate"})
    PROVE  SeedingGoesOn' /\ FilesAreTruth'
<1>1. clean \subseteq Replicas /\ NoProc \notin Replicas /\ Replicas \subseteq Procs
  BY ConfigurationAssumption DEF Typed, RestTyped, Procs
<1>2. ASSUME ~doubled, NEW q \in clean' PROVE Goes(q)'
  <2>1. CASE q = p
    BY <1>2, <2>1
  <2>2. CASE q # p
    <3>1. job'[q] = job[q] /\ Goes(q) /\ (lock' = q => lock = q)
      BY <1>1, <1>2, <2>2 DEF SeedingGoesOn
    <3> QED
      BY <3>1 DEF Goes, HoldsFile
  <2> QED
    BY <2>1, <2>2
<1>3. ASSUME ~doubled, p \in clean, job[p].at \in {"compare", "activate"} PROVE FromFiles
  <2>1. \A k \in Keys : Done(job[p], k)
    BY <1>3 DEF Done
  <2> QED
    BY <1>3, <2>1 DEF SeedingGoesOn, Goes, FromFiles, HoldsFile
<1>4. FilesAreTruth'
  BY <1>3 DEF FilesAreTruth, FromFiles
<1> QED
  BY <1>2, <1>4 DEF SeedingGoesOn

\* A row is updated to, created as or pruned in accordance with the files.
LEMMA TowardsFiles ==
    ASSUME RowsTyped, NEW k \in Keys,
           \/ Files[k] # Absent /\ Insert(k, Files[k])
           \/ Files[k] # Absent /\ \E id : UpdateById(k, id, Files[k])
           \/ Files[k] = Absent /\ \E id : DeleteById(k, id)
    PROVE  /\ \A l \in Keys : HoldsFile(l) => HoldsFile(l)'
           /\ \A l \in Keys \ {k} : rows'[l] = rows[l]
<1>1. rows \in Tables
  BY DEF RowsTyped
<1>2. \A l \in Keys \ {k} : rows'[l] = rows[l]
  BY <1>1 DEF Insert, UpdateById, DeleteById, Tables
<1>3. ASSUME HoldsFile(k) PROVE HoldsFile(k)'
  <2>1. CASE Files[k] # Absent /\ Insert(k, Files[k])
    <3>1. rows'[k] = rows[k] \cup {[id |-> ids + 1, spec |-> Files[k]]}
      BY <1>1, <2>1 DEF Insert, Tables
    <3> QED
      BY <1>3, <2>1, <3>1 DEF HoldsFile
  <2>2. CASE Files[k] # Absent /\ \E id : UpdateById(k, id, Files[k])
    <3>1. PICK id : UpdateById(k, id, Files[k])
      BY <2>2
    <3>2. rows'[k] = {IF r.id = id THEN [r EXCEPT !.spec = Files[k]] ELSE r : r \in rows[k]}
      BY <1>1, <3>1 DEF UpdateById, Tables
    <3>3. \A r \in rows[k] : r.spec = Files[k] /\ [r EXCEPT !.spec = Files[k]].spec = Files[k]
      BY <1>1, <1>3, <2>2 DEF HoldsFile, Tables
    <3>4. rows'[k] # {}
      <4>1. PICK r \in rows[k] : TRUE
        BY <1>3, <2>2 DEF HoldsFile
      <4> QED
        BY <3>2, <4>1
    <3>5. \A r \in rows'[k] : r.spec = Files[k]
      BY <3>2, <3>3
    <3> QED
      BY <2>2, <3>4, <3>5 DEF HoldsFile
  <2>3. CASE Files[k] = Absent /\ \E id : DeleteById(k, id)
    <3>1. rows'[k] \subseteq rows[k] /\ rows[k] = {}
      BY <1>1, <1>3, <2>3 DEF DeleteById, Tables, HoldsFile
    <3> QED
      BY <2>3, <3>1 DEF HoldsFile
  <2> QED
    BY <2>1, <2>2, <2>3
<1> QED
  BY <1>2, <1>3 DEF HoldsFile

\* The process that holds the lock deals with one key: done with it, the tables
\* hold of it what the files do.
LEMMA DealsWith ==
    ASSUME RowsTyped, NEW k \in Keys, NEW read, read = rows[k], \A r, s \in rows[k] : r = s,
           \/ /\ Files[k] # Absent
              /\ \/ \E r \in read : UpdateById(k, r.id, Files[k])
                 \/ read = {} /\ Insert(k, Files[k])
           \/ Files[k] = Absent /\ \E r \in read : DeleteById(k, r.id)
    PROVE  HoldsFile(k)' /\ \A r, s \in rows'[k] : r = s
<1>1. rows \in Tables
  BY DEF RowsTyped
<1>2. CASE Files[k] # Absent /\ \E r \in read : UpdateById(k, r.id, Files[k])
  <2>1. PICK x \in rows[k] : UpdateById(k, x.id, Files[k])
    BY <1>2
  <2>2. rows[k] = {x} /\ x \in [id : Nat, spec : AnySpec]
    BY <1>1, <2>1 DEF Tables
  <2>3. rows'[k] = {IF r.id = x.id THEN [r EXCEPT !.spec = Files[k]] ELSE r : r \in rows[k]}
    BY <1>1, <2>1 DEF UpdateById, Tables
  <2>4. rows'[k] = {[x EXCEPT !.spec = Files[k]]} /\ [x EXCEPT !.spec = Files[k]].spec = Files[k]
    BY <2>2, <2>3
  <2>5. rows'[k] # {} /\ \A r \in rows'[k] : r.spec = Files[k]
    BY <2>4
  <2>6. HoldsFile(k)'
    BY <1>2, <2>5 DEF HoldsFile
  <2>7. \A r, s \in rows'[k] : r = s
    BY <2>4
  <2> QED
    BY <2>6, <2>7
<1>3. CASE Files[k] # Absent /\ read = {} /\ Insert(k, Files[k])
  <2>1. rows'[k] = {[id |-> ids + 1, spec |-> Files[k]]}
    BY <1>1, <1>3 DEF Insert, Tables
  <2> QED
    BY <1>3, <2>1 DEF HoldsFile
<1>4. CASE Files[k] = Absent /\ \E r \in read : DeleteById(k, r.id)
  <2>1. PICK x \in rows[k] : DeleteById(k, x.id)
    BY <1>4
  <2>2. rows[k] = {x} /\ rows'[k] = {r \in rows[k] : r.id # x.id}
    BY <1>1, <2>1 DEF DeleteById, Tables
  <2>3. rows'[k] = {}
    BY <2>2
  <2> QED
    BY <1>4, <2>3 DEF HoldsFile
<1> QED
  BY <1>2, <1>3, <1>4

\* A row is written or pruned: by the holder of the lock in accordance with the
\* files, or it ends every clean seeding.
LEMMA RowGoes ==
    ASSUME Typed, SeedsFiles, SeedingGoesOn, NEW p \in Procs, NEW k \in Keys,
           Write(p, k) \/ Prune(p, k)
    PROVE  SeedingGoesOn' /\ FilesAreTruth'
<1>0. /\ job[p] \in JobRecords /\ HasDocs(job[p]) /\ RowsTyped
      /\ job' = [job EXCEPT ![p] = [job[p] EXCEPT !.todo = @ \ {k}]] /\ DOMAIN job = Procs
      /\ k \in job[p].todo
  BY DEF Typed, JobTyped, Write, Prune, Set
<1>1. /\ doubled' = doubled /\ lock' = lock /\ seeded' = FALSE
      /\ clean' = IF p \in Replicas /\ lock = p THEN clean ELSE {}
  BY DEF Write, Prune, Disturb
<1>2. FilesAreTruth'
  BY <1>1 DEF FilesAreTruth
<1>3. CASE ~(p \in Replicas /\ lock = p)
  BY <1>1, <1>2, <1>3 DEF SeedingGoesOn
<1>4. CASE p \in Replicas /\ lock = p
  <2>1. /\ \A q \in Procs \ {p} : job'[q] = job[q]
        /\ job'[p].at = job[p].at /\ job'[p].pos = job[p].pos
        /\ job'[p].read = job[p].read /\ job'[p].todo = job[p].todo \ {k}
    BY <1>0 DEF JobRecords
  <2>2. OfFiles(job[p])
    BY <1>4 DEF SeedsFiles
  <2>3. \/ /\ job[p].at = "write" /\ Files[k] # Absent
           /\ \/ \E r \in job[p].read[k] : UpdateById(k, r.id, Files[k])
              \/ job[p].read[k] = {} /\ Insert(k, Files[k])
        \/ /\ job[p].at = "prune" /\ Files[k] = Absent
           /\ \E r \in job[p].read[k] : DeleteById(k, r.id)
    <3>1. CASE Write(p, k)
      BY <1>0, <2>2, <3>1 DEF Write, OfFiles, HasDocs, Docs
    <3>2. CASE Prune(p, k)
      BY <1>0, <2>2, <3>2 DEF Prune, OfFiles
    <3> QED
      BY <3>1, <3>2
  <2>4. /\ \A l \in Keys : HoldsFile(l) => HoldsFile(l)'
        /\ \A l \in Keys \ {k} : rows'[l] = rows[l]
    BY <1>0, <2>3, TowardsFiles
  <2>5. ASSUME ~doubled, NEW q \in clean, q # p PROVE Goes(q)'
    <3>1. q \in Procs /\ Goes(q) /\ lock' # q
      BY <1>1, <1>4, <2>5 DEF SeedingGoesOn, Typed, RestTyped, Procs
    <3>2. job'[q] = job[q]
      BY <2>1, <2>5, <3>1
    <3> QED
      BY <2>4, <3>1, <3>2 DEF Goes
  <2>6. ASSUME ~doubled, p \in clean PROVE Goes(p)'
    <3>1. Goes(p)
      BY <2>6 DEF SeedingGoesOn
    <3>2. ~Done(job[p], k) /\ HasListed(job[p], k)
      BY <1>0, <2>3 DEF Done, HasListed
    <3>3. job[p].read[k] = rows[k] /\ \A r, s \in rows[k] : r = s
      BY <1>4, <3>1, <3>2 DEF Goes
    <3>4. HoldsFile(k)' /\ \A r, s \in rows'[k] : r = s
      BY <1>0, <2>3, <3>3, DealsWith
    <3>5. \A l \in Keys \ {k} : Done(job'[p], l) <=> Done(job[p], l)
      BY <2>1, <2>3 DEF Done
    <3>6. Done(job'[p], k)
      BY <2>1, <2>3 DEF Done
    <3>7. \A l \in Keys : HasListed(job'[p], l) <=> HasListed(job[p], l)
      BY <2>1 DEF HasListed
    <3>8. \A l \in Keys : Done(job'[p], l) => HoldsFile(l)'
      BY <2>4, <3>1, <3>4, <3>5 DEF Goes
    <3>9. ASSUME NEW l \in Keys
          PROVE  /\ \A r, s \in rows'[l] : r = s
                 /\ HasListed(job'[p], l) /\ ~Done(job'[p], l) => job'[p].read[l] = rows'[l]
      <4>1. CASE l = k
        BY <3>4, <3>6, <4>1
      <4>2. CASE l # k
        BY <1>4, <2>1, <2>4, <3>1, <3>5, <3>7, <4>2 DEF Goes
      <4> QED
        BY <4>1, <4>2
    <3>10. job'[p].at \in {"write", "prune"}
      BY <2>1, <2>3
    <3> QED
      BY <3>8, <3>9, <3>10 DEF Goes
  <2> QED
    BY <1>1, <1>2, <1>4, <2>5, <2>6 DEF SeedingGoesOn
<1> QED
  BY <1>3, <1>4

\* One more kind is listed.
LEMMA ListGoes ==
    ASSUME Typed, SeedsFiles, NEW p \in Replicas, ListRows(p), Goes(p),
           rows' = rows, lock' = lock
    PROVE  Goes(p)'
<1>0. p \in Procs /\ job[p] \in JobRecords /\ JobTyped /\ RowsTyped /\ OfFiles(job[p])
  BY DEF Typed, JobTyped, Procs, SeedsFiles
<1>1. job[p].at = "list" /\ job[p].docs = Files /\ job[p].todo = {} /\ job[p].pos \in 1..4
  BY <1>0 DEF ListRows, OfFiles, JobRecords
<1>2. PICK found \in Tables :
          /\ Listed(p, found)
          /\ \A k \in Keys : IF Kind[k] = SyncOrder[job[p].pos]
                             THEN found[k] \in One(rows[k])
                             ELSE found[k] = job[p].read[k]
  BY <1>0, ListFound
\* What was found of a kind that is listed by now.
<1>3. ASSUME NEW k \in Keys, HasListed(job[p], k) \/ Kind[k] = SyncOrder[job[p].pos]
      PROVE  /\ Files[k] = Absent /\ found[k] = {} => HoldsFile(k)
             /\ lock = p /\ ~(Files[k] = Absent /\ found[k] = {}) => found[k] = rows[k]
  <2>1. CASE Kind[k] = SyncOrder[job[p].pos]
    <3>1. found[k] \in One(rows[k])
      BY <1>2, <2>1
    <3>2. found[k] = {} => rows[k] = {}
      BY <3>1 DEF One
    <3>3. ASSUME lock = p PROVE found[k] = rows[k]
      <4>1. \A r, s \in rows[k] : r = s
        BY <3>3 DEF Goes
      <4>2. CASE rows[k] = {}
        BY <3>1, <4>2 DEF One
      <4>3. CASE rows[k] # {}
        <5>1. PICK r \in rows[k] : found[k] = {r}
          BY <3>1, <4>3 DEF One
        <5> QED
          BY <4>1, <5>1
      <4> QED
        BY <4>2, <4>3
    <3> QED
      BY <3>2, <3>3 DEF HoldsFile
  <2>2. CASE Kind[k] # SyncOrder[job[p].pos]
    <3>1. found[k] = job[p].read[k] /\ HasListed(job[p], k)
      BY <1>2, <1>3, <2>2
    <3>2. Done(job[p], k) <=> Files[k] = Absent /\ found[k] = {}
      BY <1>1, <3>1 DEF Done
    <3> QED
      BY <3>1, <3>2 DEF Goes
  <2> QED
    BY <2>1, <2>2
<1>4. CASE job[p].pos < 4
  <2>1. /\ job'[p].at = "list" /\ job'[p].pos = job[p].pos + 1
        /\ job'[p].read = found /\ job'[p].todo = {}
    <3>1. job'[p] = [job[p] EXCEPT !.pos = @ + 1, !.read = found]
      BY <1>0, <1>2, <1>4, Positions DEF Listed, Set, JobTyped
    <3> QED
      BY <1>0, <1>1, <3>1 DEF JobRecords
  <2>2. ASSUME NEW k \in Keys, HasListed(job'[p], k)
        PROVE  HasListed(job[p], k) \/ Kind[k] = SyncOrder[job[p].pos]
    <3>1. PICK i \in 1..4 : i < job[p].pos + 1 /\ SyncOrder[i] = Kind[k]
      BY <2>1, <2>2 DEF HasListed
    <3>2. i < job[p].pos \/ i = job[p].pos
      BY <1>1, <3>1
    <3> QED
      BY <3>1, <3>2 DEF HasListed
  <2>3. \A k \in Keys : Done(job'[p], k) <=> HasListed(job'[p], k) /\ Files[k] = Absent /\ found[k] = {}
    BY <2>1 DEF Done
  <2>4. \A k \in Keys : Done(job'[p], k) => HoldsFile(k)'
    <3>1. \A k \in Keys : HoldsFile(k) => HoldsFile(k)'
      BY DEF HoldsFile
    <3> QED
      BY <1>3, <2>2, <2>3, <3>1
  <2>5. lock' = p => \A k \in Keys :
            /\ \A r, s \in rows'[k] : r = s
            /\ HasListed(job'[p], k) /\ ~Done(job'[p], k) => job'[p].read[k] = rows'[k]
    BY <1>3, <2>1, <2>2, <2>3 DEF Goes
  <2> QED
    BY <2>1, <2>4, <2>5 DEF Goes
<1>5. CASE job[p].pos = 4
  <2>1. /\ job'[p].at = "write" /\ job'[p].read = found /\ job'[p].todo = Docs(Files)
    <3>1. job'[p] = [job[p] EXCEPT !.pos = 1, !.read = found, !.at = "write", !.todo = Docs(job[p].docs)]
      BY <1>0, <1>2, <1>5, Positions DEF Listed, Set, JobTyped
    <3> QED
      BY <1>0, <1>1, <3>1 DEF JobRecords
  <2>2. ASSUME NEW k \in Keys PROVE HasListed(job[p], k) \/ Kind[k] = SyncOrder[job[p].pos]
    <3>1. PICK i \in 1..4 : SyncOrder[i] = Kind[k]
      BY Positions, ConfigurationAssumption
    <3>2. i < job[p].pos \/ i = job[p].pos
      BY <1>5, <3>1
    <3> QED
      BY <3>1, <3>2 DEF HasListed
  <2>3. \A k \in Keys : Done(job'[p], k) <=> Files[k] = Absent /\ found[k] = {}
    BY <2>1 DEF Done, Docs
  <2>4. \A k \in Keys : Done(job'[p], k) => HoldsFile(k)'
    <3>1. \A k \in Keys : HoldsFile(k) => HoldsFile(k)'
      BY DEF HoldsFile
    <3> QED
      BY <1>3, <2>2, <2>3, <3>1
  <2>5. lock' = p => \A k \in Keys :
            /\ \A r, s \in rows'[k] : r = s
            /\ HasListed(job'[p], k) /\ ~Done(job'[p], k) => job'[p].read[k] = rows'[k]
    BY <1>3, <2>1, <2>2, <2>3 DEF Goes
  <2> QED
    BY <2>1, <2>4, <2>5 DEF Goes
<1> QED
  BY <1>1, <1>4, <1>5

\* What is published after a clean seeding is what it made of the tables.
LEMMA PublishGoes ==
    ASSUME NEW p \in Procs, Goes(p), \A k \in Keys : Done(job[p], k),
           job'[p].at \in {"assemble", "compare", "activate"}, rows' = rows, lock' = lock
    PROVE  Goes(p)'
<1>1. \A k \in Keys : HoldsFile(k)'
  BY DEF Goes, HoldsFile
<1>2. \A k \in Keys : Done(job'[p], k)
  BY DEF Done
<1> QED
  BY <1>1, <1>2 DEF Goes

LEMMA FilesStep == ASSUME FilesInv, [Next]_vars PROVE FilesInv'
<1> USE DEF Procs, FilesInv, tables, history
<1>0. /\ Typed' /\ SeedsFiles' /\ JobTyped /\ RowsTyped /\ clean \subseteq Replicas
      /\ \A p \in Procs : job[p] \in JobRecords
  BY TypedStep, SeedsFilesStep DEF Typed, JobTyped, RestTyped
<1> DEFINE Good == SeedingGoesOn' /\ FilesAreTruth'
<1>1. ASSUME NEW p \in Procs, NEW j, Set(p, j)
      PROVE  job'[p] = j /\ \A q \in Procs \ {p} : job'[q] = job[q]
  BY <1>0, <1>1 DEF Set, JobTyped
\* A step of p after which it has no clean seeding, and which starts or ends none.
<1>2. ASSUME NEW p \in Procs, NEW j, Set(p, j), ~doubled => p \notin clean', rows' = rows,
             lock' \in {lock, NoProc}, clean' \subseteq clean, UNCHANGED <<seeded, doubled>>
      PROVE  Good
  BY <1>1, <1>2, StillGoes
\* A step of p that keeps a clean seeding of its own.
<1>3. ASSUME NEW p \in Procs, NEW j, Set(p, j), Goes(p) => Goes(p)',
             UNCHANGED <<rows, lock, clean, seeded, doubled>>
      PROVE  Good
  <2>1. ~doubled /\ p \in clean' => Goes(p)'
    BY <1>3 DEF SeedingGoesOn
  <2> QED
    BY <1>1, <1>3, <2>1, StillGoes
<1>4. ASSUME NEW c \in Clients, Edit(c) PROVE Good
  <2>1. c \notin clean
    BY <1>0, ConfigurationAssumption
  <2>2. CASE \E k \in Keys : \/ Update(c, k) \/ Delete(c, k) \/ \E s \in Specs[k] : Create(c, k, s)
    <3>1. clean' = {} /\ seeded' = FALSE
      BY <2>2, ConfigurationAssumption DEF Update, Delete, Create, Disturb
    <3> QED
      BY <3>1 DEF SeedingGoesOn, FilesAreTruth
  <2>3. CASE \E k \in Keys : \E s \in Specs[k] : GetRow(c, k, s)
    BY <1>2, <2>1, <2>3 DEF GetRow
  <2>4. CASE \E bundle \in Bundles : Import(c, bundle)
    BY <1>2, <2>1, <2>4 DEF Import
  <2> QED
    BY <1>4, <2>2, <2>3, <2>4
       DEF Edit, CreateVariable, CreateWorkerInstance, CreatePolicyInstance, CreateRouting,
           UpdateVariable, UpdateWorkerInstance, UpdatePolicyInstance, UpdateRouting,
           DeleteVariable, DeleteWorkerInstance, DeletePolicyInstance, DeleteRouting,
           Variables, Workers, Policies, Routings
<1>5. ASSUME NEW p \in Replicas, job[p].at = "boot", ~doubled PROVE p \notin clean
  BY <1>5 DEF SeedingGoesOn, Goes
<1>6. ASSUME NEW p \in Replicas, AcquireLock(p) PROVE Good
  <2>1. /\ job[p].at = "boot" /\ clean' = clean \cup {p} /\ lock' = p
        /\ rows' = rows /\ seeded' = seeded
        /\ ~doubled' => /\ \A k \in Keys : \A r, s \in rows[k] : r = s
                        /\ seeded \/ clean # {} => ~doubled
    BY <1>6 DEF AcquireLock
  <2>2. /\ job'[p].at = "list" /\ job'[p].pos = 1
        /\ \A q \in Procs \ {p} : job'[q] = job[q]
    <3>1. [Idle EXCEPT !.at = "list", !.docs = Files].at = "list"
          /\ [Idle EXCEPT !.at = "list", !.docs = Files].pos = 1
      BY DEF Idle
    <3> QED
      BY <1>1, <1>6, <3>1 DEF AcquireLock
  <2>3. ASSUME ~doubled' PROVE Goes(p)'
    <3>1. \A k \in Keys : ~HasListed(job'[p], k) /\ ~Done(job'[p], k)
      BY <2>2 DEF HasListed, Done
    <3> QED
      BY <2>1, <2>2, <2>3, <3>1 DEF Goes
  <2>4. ASSUME ~doubled', NEW q \in clean, q # p PROVE Goes(q)'
    <3>1. Goes(q) /\ job'[q] = job[q] /\ lock' # q
      BY <1>0, <2>1, <2>2, <2>4 DEF SeedingGoesOn
    <3> QED
      BY <2>1, <3>1 DEF Goes, HoldsFile
  <2>5. SeedingGoesOn'
    BY <2>1, <2>3, <2>4 DEF SeedingGoesOn
  <2>6. FilesAreTruth'
    BY <2>1 DEF FilesAreTruth, FromFiles
  <2> QED
    BY <2>5, <2>6
<1>7. ASSUME NEW p \in Replicas, Seed(p) PROVE Good
  <2>1. CASE Startup(p)
    BY <1>2, <1>5, <2>1 DEF Startup, BeginPublish
  <2>2. CASE SkipSeed(p)
    BY <1>2, <1>5, <2>2 DEF SkipSeed, Goto
  <2> QED
    BY <1>6, <1>7, <2>1, <2>2 DEF Seed
<1>8. ASSUME NEW p \in Procs, Sync(p) PROVE Good
  <2>1. CASE ListRows(p)
    <3>1. PICK j : Set(p, j)
      BY <2>1 DEF ListRows, Listed
    <3>2. UNCHANGED <<rows, lock, clean, seeded, doubled>>
      BY <2>1 DEF ListRows
    <3>3. CASE p \in Replicas
      BY <1>3, <2>1, <3>1, <3>2, <3>3, ListGoes
    <3>4. CASE p \notin Replicas
      BY <1>0, <1>2, <3>1, <3>2, <3>4
    <3> QED
      BY <3>3, <3>4
  <2>2. CASE ListFails(p)
    BY <1>2, <2>2 DEF ListFails, Listed
  <2>3. CASE \E k \in Keys : Write(p, k) \/ Prune(p, k)
    BY <2>3, RowGoes
  <2>4. CASE \E k \in Keys : WriteFails(p, k) \/ PruneFails(p, k)
    BY <1>2, <2>4 DEF WriteFails, PruneFails
  <2>5. CASE WritesDone(p)
    <3>1. UNCHANGED <<rows, lock, clean, seeded, doubled>> /\ job[p].at = "write" /\ job[p].todo = {}
      BY <2>5 DEF WritesDone
    <3>2. CASE p \in Replicas
      <4> DEFINE j == [job[p] EXCEPT !.at = "prune", !.todo = Obsolete(p)]
      <4>1. Set(p, j)
        BY <2>5, <3>2 DEF WritesDone
      <4>2. j.at = "prune" /\ j.todo = Obsolete(p) /\ j.read = job[p].read
        BY <1>0 DEF JobRecords
      <4> HIDE DEF j
      <4>3. job'[p] = j /\ job[p].docs = Files
        BY <1>1, <3>1, <3>2, <4>1 DEF SeedsFiles, OfFiles
      <4>4. \A k \in Keys : Done(job'[p], k) <=> Done(job[p], k)
        BY <3>1, <4>2, <4>3 DEF Done, Obsolete
      <4>5. Goes(p) => Goes(p)'
        <5>1. \A k \in Keys : HasListed(job[p], k)
          BY <3>1 DEF HasListed
        <5> QED
          BY <3>1, <4>2, <4>3, <4>4, <5>1 DEF Goes, HoldsFile
      <4> QED
        BY <1>3, <3>1, <4>1, <4>5
    <3>3. CASE p \notin Replicas
      BY <1>0, <1>2, <2>5, <3>1, <3>3 DEF WritesDone, BeginPublish
    <3> QED
      BY <3>2, <3>3
  <2>6. CASE PruneDone(p)
    <3>1. UNCHANGED <<rows, lock, clean, seeded, doubled>> /\ Set(p, [Idle EXCEPT !.at = "assemble"])
      BY <2>6 DEF PruneDone, BeginPublish
    <3>2. \A k \in Keys : Done(job[p], k)
      BY <2>6 DEF PruneDone, Done
    <3>3. job'[p].at = "assemble"
      BY <1>1, <3>1, Blank DEF Steps
    <3> QED
      BY <1>3, <3>1, <3>2, <3>3, PublishGoes
  <2> QED
    BY <1>8, <2>1, <2>2, <2>3, <2>4, <2>5, <2>6 DEF Sync
\* The publish of p has come to its end.
<1>9. ASSUME NEW p \in Procs, Published(p), job[p].at \in {"compare", "activate"},
             UNCHANGED <<rows, doubled>>
      PROVE  Good
  <2>1. \A q \in Procs \ {p} : job'[q] = job[q]
    BY <1>1, <1>9 DEF Published
  <2>2. p \notin clean' /\ clean' \subseteq clean /\ lock' \in {lock, NoProc}
        /\ (seeded' => seeded \/ p \in clean)
    BY <1>9 DEF Published, Unlock
  <2> QED
    BY <1>9, <2>1, <2>2, StillGoes
<1>10. ASSUME NEW p \in Procs, Publish(p) PROVE Good
  <2>1. CASE Assemble(p)
    <3>1. /\ UNCHANGED <<rows, lock, clean, seeded, doubled>> /\ \E j : Set(p, j)
          /\ \A k \in Keys : Done(job[p], k)
      BY <2>1 DEF Assemble, Done
    <3>2. job'[p].at \in {"assemble", "compare"}
      BY <2>1, AssembleStep
    <3> QED
      BY <1>3, <3>1, <3>2, PublishGoes
  <2>2. CASE Compare(p)
    <3>1. CASE job[p].read = active
      BY <1>9, <2>2, <3>1 DEF Compare
    <3>2. CASE job[p].read # active
      <4>1. /\ UNCHANGED <<rows, lock, clean, seeded, doubled>>
            /\ Set(p, [job[p] EXCEPT !.at = "activate"])
            /\ \A k \in Keys : Done(job[p], k)
        BY <2>2, <3>2 DEF Compare, Goto, Done
      <4>2. job'[p].at = "activate"
        BY <1>0, <1>1, <4>1 DEF JobRecords
      <4> QED
        BY <1>3, <4>1, <4>2, PublishGoes
    <3> QED
      BY <3>1, <3>2
  <2>3. CASE Activate(p)
    BY <1>9, <2>3 DEF Activate
  <2>4. CASE PublishFails(p)
    BY <1>2, <2>4 DEF PublishFails
  <2> QED
    BY <1>10, <2>1, <2>2, <2>3, <2>4 DEF Publish
<1>11. ASSUME NEW p \in Procs, Crash(p) PROVE Good
  BY <1>2, <1>11 DEF Crash
<1>12. CASE LoseLock \/ UNCHANGED vars
  <2>1. UNCHANGED <<rows, job, clean, seeded, doubled>> /\ lock' \in {lock, NoProc}
    BY <1>12 DEF LoseLock, vars
  <2>2. ASSUME ~doubled, NEW q \in clean PROVE Goes(q)'
    <3>1. Goes(q) /\ (lock' = q => lock = q)
      BY <1>0, <2>1, <2>2, ConfigurationAssumption DEF SeedingGoesOn
    <3> QED
      BY <2>1, <3>1 DEF Goes, HoldsFile
  <2>3. SeedingGoesOn'
    BY <2>1, <2>2 DEF SeedingGoesOn
  <2>4. FilesAreTruth'
    BY <2>1 DEF FilesAreTruth, FromFiles
  <2> QED
    BY <1>0, <2>3, <2>4
<1> QED
  BY <1>0, <1>4, <1>7, <1>8, <1>10, <1>11, <1>12 DEF Next

\* After a seeding without an error, and until a request writes, the tables are
\* those of the bundle files: for any files, any number of replicas and requests,
\* and any loss of the lock, unless two routings bore one name when it began.
THEOREM SeededFromFiles == Spec => []FilesAreTruth
<1>1. Init => FilesInv
  <2> SUFFICES ASSUME Init PROVE SeedsFiles /\ SeedingGoesOn /\ FilesAreTruth
    BY InitTyped DEF FilesInv
  <2>1. SeedsFiles
    BY Blank DEF Init, SeedsFiles, OfFiles, Steps, Procs
  <2> QED
    BY <2>1 DEF Init, SeedingGoesOn, FilesAreTruth
<1>2. FilesInv => FilesAreTruth
  BY DEF FilesInv
<1> QED
  BY <1>1, <1>2, FilesStep, PTL DEF Spec

=============================================================================
