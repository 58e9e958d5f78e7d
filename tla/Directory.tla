------------------------------ MODULE Directory ------------------------------
(***************************************************************************)
(* Users, mailboxes and their assignments between two hands: the LDAP      *)
(* directory, read by the periodic synchronisation of the api-server and   *)
(* by every login through LDAP, and the administrators, who edit the same  *)
(* rows in the web user interface.                                         *)
(*                                                                         *)
(* A job is a replica that synchronises or a login; one action is one      *)
(* search of the directory or one statement (or transaction) on the        *)
(* database.  A rule that finds mailboxes through the groups of a user is  *)
(* modelled (self, search, attr, to_mailbox), and a rule for fixed users;  *)
(* one role of an assignment stands for the three, which no step relates.  *)
(* An entry without an address is skipped by the code: it counts as none.  *)
(***************************************************************************)
EXTENDS Naturals, FiniteSets

CONSTANTS
    People, Groups, Boxes,
    AdminGroup,   \* members have the role admin, the others viewer
    FixedUsers,   \* FixedUserEmails: get every mailbox made from the directory
    Replicas,     \* api-servers that synchronise
    Logins,       \* logins through LDAP
    MaxEvents,    \* bound: changes of the directory, edits of the administrators, logins
    MaxFaults     \* bound: failed searches and statements, replicas and logins that end early

ASSUME DirectoryAssumption ==
    /\ AdminGroup \in Groups
    /\ FixedUsers \subseteq People
    /\ Replicas \cap Logins = {}
    /\ MaxEvents \in Nat
    /\ MaxFaults \in Nat

VARIABLES
    entries,   \* the directory: who has an entry, with which groups
    boxOf,     \* the directory: the mailboxes an entry of a group names
    users,     \* table users, by email
    boxes,     \* table mailboxes, by email_address
    assigned,  \* table mailbox_assignments: provisioned_by, or "none"
    job,       \* where each replica and login is
    events,
    faults,
    (* history *)
    edited     \* users whose role an administrator has set

directory == <<entries, boxOf>>
tables == <<users, boxes, assigned>>
directoryVars == <<directory, tables, job, events, faults, edited>>

Jobs == Replicas \cup Logins
Sources == {"manual", "ldap", "oidc"}
Roles == {"admin", "viewer"}

UserRows == [exists : BOOLEAN, active : BOOLEAN, role : Roles, by : Sources]
BoxRows == [exists : BOOLEAN, active : BOOLEAN, by : {"manual", "ldap"}]

NoUser == [exists |-> FALSE, active |-> FALSE, role |-> "viewer", by |-> "manual"]
NoBox == [exists |-> FALSE, active |-> FALSE, by |-> "manual"]
NoEntry == [listed |-> FALSE, groups |-> {}]
Entries == {NoEntry} \cup [listed : {TRUE}, groups : SUBSET Groups]

Idle == [at |-> "idle",
         found |-> [p \in People |-> NoEntry],  \* the answer of the search
         todo |-> {},      \* entries still to be handled
         who |-> {},       \* the entry that is handled, if any
         present |-> {},   \* presentEmails
         read |-> {},      \* groups in the cache of this round,
         gives |-> [g \in Groups |-> {}],       \* and what they were found to name
         pending |-> {},   \* fixed users, for the second pass
         all |-> {},       \* listLDAPMailboxEmails
         (* history *)
         sure |-> {},      \* what one group of the entry granted ever since the search
         here |-> {},      \* who had an entry ever since the search
         failed |-> {}]    \* who could not be provisioned

\* The directory grants a mailbox through a group of the entry.
Grants(e, of) ==
    {x \in People \X Groups \X Boxes : x[2] \in e[x[1]].groups /\ x[3] \in of[x[2]]}
Listed(e) == {p \in People : e[p].listed}

FromDirectory(b) == boxes[b].exists /\ boxes[b].active /\ boxes[b].by = "ldap"
Granted(p, b) ==
    \/ \E g \in entries[p].groups : b \in boxOf[g]
    \/ p \in FixedUsers /\ FromDirectory(b)

\* A replica or login on its way.
JobStates ==
    [at : {"idle", "entries", "resolve", "reconcile", "boxes", "fixed", "deactivate"},
     found : [People -> Entries],
     todo : SUBSET People, who : SUBSET People, present : SUBSET People,
     read : SUBSET Groups, gives : [Groups -> SUBSET Boxes],
     pending : SUBSET People, all : SUBSET Boxes,
     sure : SUBSET (People \X Groups \X Boxes),
     here : SUBSET People, failed : SUBSET People]

DirectoryTypeOK ==
    /\ entries \in [People -> Entries]
    /\ boxOf \in [Groups -> SUBSET Boxes]
    /\ users \in [People -> UserRows]
    /\ boxes \in [Boxes -> BoxRows]
    /\ assigned \in [People \X Boxes -> {"none", "manual", "ldap"}]
    \* The foreign keys of mailbox_assignments.
    /\ \A p \in People, b \in Boxes :
        assigned[<<p, b>>] # "none" => users[p].exists /\ boxes[b].exists
    /\ job \in [Jobs -> JobStates]
    /\ events \in 0..MaxEvents
    /\ faults \in 0..MaxFaults
    /\ edited \subseteq People

DirectoryInit ==
    /\ entries \in [People -> Entries]
    /\ boxOf \in [Groups -> SUBSET Boxes]
    /\ users = [p \in People |-> NoUser]
    /\ boxes = [b \in Boxes |-> NoBox]
    /\ assigned = [x \in People \X Boxes |-> "none"]
    /\ job = [j \in Jobs |-> Idle]
    /\ events = 0
    /\ faults = 0
    /\ edited = {}

Event == events < MaxEvents /\ events' = events + 1
Fault == faults < MaxFaults /\ faults' = faults + 1

Set(j, new) == job' = [job EXCEPT ![j] = new]

\* GroupRoleMapper.Resolve.
RoleOf(groups) == IF AdminGroup \in groups THEN "admin" ELSE "viewer"

\* The loop over the entries goes on, or ends in the second pass and the
\* deactivation of who is gone.  A login has one entry and no such end.
Onward(job1) ==
    CASE job1.todo # {} -> [job1 EXCEPT !.at = "entries", !.who = {}]
      [] job1.todo = {} /\ job1.pending # {} -> [job1 EXCEPT !.at = "boxes", !.who = {}]
      [] OTHER -> [job1 EXCEPT !.at = "deactivate", !.who = {}]

-----------------------------------------------------------------------------
(* Mutants: plausible bugs, each breaks one of the properties below.       *)

\* A failed search of a group counts as a group that names nothing.
LookupFails_Empty(j, g) ==
    /\ job[j].at = "resolve"
    /\ \E p \in job[j].who : g \in job[j].found[p].groups \ job[j].read
    /\ Fault
    /\ Set(j, [job[j] EXCEPT !.read = @ \cup {g}])
    /\ UNCHANGED <<directory, edited, tables, events>>

\* A search that finds nobody deactivates everybody.
Deactivate_Unguarded(j) ==
    /\ job[j].at = "deactivate"
    /\ users' = [p \in People |->
            IF j \in Replicas /\ users[p].by = "ldap" /\ p \notin job[j].present
            THEN [users[p] EXCEPT !.active = FALSE] ELSE users[p]]
    /\ Set(j, Idle)
    /\ UNCHANGED <<directory, edited, boxes, assigned, events, faults>>

\* The role follows the last login, whoever made the row.
Upserted_Role(u, role, source) ==
    CASE ~u.exists -> [exists |-> TRUE, active |-> TRUE, role |-> role, by |-> source]
      [] u.exists /\ u.by = "oidc" -> [u EXCEPT !.role = role, !.by = source]
      [] OTHER -> [u EXCEPT !.role = role]

\* Nothing is deleted when no mailbox is wanted.
Desired_Guarded(p, want) ==
    [x \in People \X Boxes |->
        CASE x[1] # p -> assigned[x]
          [] x[1] = p /\ x[2] \in want /\ assigned[x] = "none" -> "ldap"
          [] OTHER -> IF want # {} /\ x[2] \notin want /\ assigned[x] = "ldap"
                      THEN "none" ELSE assigned[x]]

-----------------------------------------------------------------------------
(* Users.                                                                  *)

\* The rank of who made a row: a lower source does not take it over.
Yields(u, source) ==
    \/ u.by = "manual"
    \/ u.by = "ldap" /\ source = "oidc"

\* UpsertFederatedUser: is_active of a row that exists stays.
Upserted(u, role, source) ==
    CASE ~u.exists -> [exists |-> TRUE, active |-> TRUE, role |-> role, by |-> source]
      [] u.exists /\ Yields(u, source) -> u
      [] OTHER -> [u EXCEPT !.role = role, !.by = source]

\* The search of a round, or that of a login, which finds the one entry of its
\* user.
Found(j, who) ==
    Set(j, Onward([Idle EXCEPT
        !.found = [p \in People |-> IF p \in who THEN entries[p] ELSE NoEntry],
        !.todo = who,
        !.sure = Grants(entries, boxOf),
        !.here = Listed(entries)]))

Search(j) ==
    /\ j \in Replicas
    /\ job[j].at = "idle"
    /\ Found(j, Listed(entries))
    /\ UNCHANGED <<directory, edited, tables, events, faults>>

Login(j, p) ==
    /\ job[j].at = "idle"
    /\ p \in Listed(entries)
    /\ Event
    /\ Found(j, {p})
    /\ UNCHANGED <<directory, edited, tables, faults>>

\* The search fails: the round is over, and nothing has happened.  Or it
\* finds nobody, though there is somebody: a filter, a base, a replica of the
\* directory that is not right.
SearchFindsNobody(j) ==
    /\ j \in Replicas
    /\ job[j].at = "idle"
    /\ Fault
    /\ Found(j, {})
    /\ UNCHANGED <<directory, edited, tables, events>>

\* One entry is provisioned.  A user who is not active may not log in.
Provision(j, p) ==
    /\ job[j].at = "entries"
    /\ p \in job[j].todo
    /\ LET u == Upserted(users[p], RoleOf(job[j].found[p].groups), "ldap") IN
        /\ users' = [users EXCEPT ![p] = u]
        /\ Set(j, IF j \in Logins /\ ~u.active THEN Idle
                  ELSE [job[j] EXCEPT !.todo = @ \ {p}, !.who = {p},
                                      !.present = @ \cup {p}, !.at = "resolve"])
    /\ UNCHANGED <<directory, edited, boxes, assigned, events, faults>>

\* The entry is passed over, before its address is noted as present.
ProvisionFails(j, p) ==
    /\ job[j].at = "entries"
    /\ p \in job[j].todo
    /\ Fault
    /\ Set(j, IF j \in Logins THEN Idle
              ELSE Onward([job[j] EXCEPT !.todo = @ \ {p}, !.failed = @ \cup {p}]))
    /\ UNCHANGED <<directory, edited, tables, events>>

\* DeactivateMissingLDAPUsers, skipped when nobody was found.
Deactivate(j) ==
    /\ job[j].at = "deactivate"
    /\ users' = [p \in People |->
            IF /\ j \in Replicas /\ job[j].present # {}
               /\ users[p].by = "ldap" /\ p \notin job[j].present
            THEN [users[p] EXCEPT !.active = FALSE] ELSE users[p]]
    /\ Set(j, Idle)
    /\ UNCHANGED <<directory, edited, boxes, assigned, events, faults>>

DeactivateFails(j) ==
    /\ j \in Replicas
    /\ job[j].at = "deactivate"
    /\ Fault
    /\ Set(j, Idle)
    /\ UNCHANGED <<directory, edited, tables, events>>

\* The replica ends on its way, or the client of a login goes away.
Dies(j) ==
    /\ job[j].at # "idle"
    /\ Fault
    /\ Set(j, Idle)
    /\ UNCHANGED <<directory, edited, tables, events>>

-----------------------------------------------------------------------------
(* Mailboxes and assignments of the user at hand.                          *)

\* One group of the entry is looked up, once in a round.
Lookup(j, g) ==
    /\ job[j].at = "resolve"
    /\ \E p \in job[j].who : g \in job[j].found[p].groups \ job[j].read
    /\ Set(j, [job[j] EXCEPT !.read = @ \cup {g}, !.gives[g] = boxOf[g]])
    /\ UNCHANGED <<directory, edited, tables, events, faults>>

\* A search fails: this user keeps the assignments of now.
LookupFails(j, g) ==
    /\ job[j].at = "resolve"
    /\ \E p \in job[j].who : g \in job[j].found[p].groups \ job[j].read
    /\ Fault
    /\ Set(j, Onward(job[j]))
    /\ UNCHANGED <<directory, edited, tables, events>>

\* Everything is resolved; a fixed user waits for the second pass.
Resolved(j) ==
    /\ job[j].at = "resolve"
    /\ \E p \in job[j].who :
        /\ job[j].found[p].groups \subseteq job[j].read
        /\ Set(j, IF p \in FixedUsers
                  THEN Onward([job[j] EXCEPT !.pending = @ \cup {p}])
                  ELSE [job[j] EXCEPT !.at = "reconcile"])
    /\ UNCHANGED <<directory, edited, tables, events, faults>>

Tuples(j, p) ==
    (UNION {job[j].gives[g] : g \in job[j].found[p].groups})
        \cup (IF p \in FixedUsers THEN job[j].all ELSE {})

\* SyncMailboxAssignmentsForUser, one transaction: what is wanted and missing
\* is made, what this source made and is not wanted goes.
UpsertedBoxes(want) ==
    [b \in Boxes |-> IF b \in want /\ ~boxes[b].exists
                     THEN [exists |-> TRUE, active |-> TRUE, by |-> "ldap"] ELSE boxes[b]]

Desired(p, want) ==
    [x \in People \X Boxes |->
        CASE x[1] # p -> assigned[x]
          [] x[1] = p /\ x[2] \in want /\ assigned[x] = "none" -> "ldap"
          [] x[1] = p /\ x[2] \notin want /\ assigned[x] = "ldap" -> "none"
          [] OTHER -> assigned[x]]

SyncAssignments(p, want) ==
    /\ boxes' = UpsertedBoxes(want)
    /\ assigned' = Desired(p, want)
    /\ UNCHANGED users

Reconcile(j) ==
    /\ job[j].at = "reconcile"
    /\ \E p \in job[j].who : SyncAssignments(p, Tuples(j, p))
    /\ Set(j, Onward(job[j]))
    /\ UNCHANGED <<directory, edited, events, faults>>

ReconcileFails(j) ==
    /\ job[j].at = "reconcile"
    /\ Fault
    /\ Set(j, Onward(job[j]))
    /\ UNCHANGED <<directory, edited, tables, events>>

\* The second pass: ListMailboxes, then every fixed user.
ListMailboxes(j) ==
    /\ job[j].at = "boxes"
    /\ Set(j, [job[j] EXCEPT !.at = "fixed", !.all = {b \in Boxes : FromDirectory(b)}])
    /\ UNCHANGED <<directory, edited, tables, events, faults>>

ListMailboxesFails(j) ==
    /\ job[j].at = "boxes"
    /\ Fault
    /\ Set(j, Onward([job[j] EXCEPT !.pending = {}]))
    /\ UNCHANGED <<directory, edited, tables, events>>

AfterFixed(j, p) ==
    IF job[j].pending = {p} THEN Onward([job[j] EXCEPT !.pending = {}])
    ELSE [job[j] EXCEPT !.pending = @ \ {p}]

ReconcileFixed(j, p) ==
    /\ job[j].at = "fixed"
    /\ p \in job[j].pending
    /\ SyncAssignments(p, Tuples(j, p))
    /\ Set(j, AfterFixed(j, p))
    /\ UNCHANGED <<directory, edited, events, faults>>

ReconcileFixedFails(j, p) ==
    /\ job[j].at = "fixed"
    /\ p \in job[j].pending
    /\ Fault
    /\ Set(j, AfterFixed(j, p))
    /\ UNCHANGED <<directory, edited, tables, events>>

-----------------------------------------------------------------------------
(* The directory changes.                                                  *)

Becomes(e, of) ==
    /\ Event
    /\ <<e, of>> # <<entries, boxOf>>
    /\ entries' = e
    /\ boxOf' = of
    /\ job' = [j \in Jobs |-> [job[j] EXCEPT !.sure = @ \cap Grants(e, of),
                                            !.here = @ \cap Listed(e)]]
    /\ UNCHANGED <<tables, edited, faults>>

EntryChanges(p, e) == Becomes([entries EXCEPT ![p] = e], boxOf)
GroupChanges(g, names) == Becomes(entries, [boxOf EXCEPT ![g] = names])

-----------------------------------------------------------------------------
(* The other hands: administrators, and logins through OIDC.               *)

OidcLogin(p, role) ==
    /\ Event
    /\ users' = [users EXCEPT ![p] = Upserted(users[p], role, "oidc")]
    /\ UNCHANGED <<directory, edited, boxes, assigned, job, faults>>

\* A row that is there refuses the insert, be it active or not.
CreateUser(p, role) ==
    /\ Event
    /\ ~users[p].exists
    /\ users' = [users EXCEPT ![p] =
            [exists |-> TRUE, active |-> TRUE, role |-> role, by |-> "manual"]]
    /\ UNCHANGED <<directory, edited, boxes, assigned, job, faults>>

\* ListUsers, where the handlers look a user up, has active users only.
Known(p) == users[p].exists /\ users[p].active

UpdateUserRole(p, role) ==
    /\ Event
    /\ Known(p)
    /\ users' = [users EXCEPT ![p].role = role]
    /\ edited' = edited \cup {p}
    /\ UNCHANGED <<directory, boxes, assigned, job, faults>>

DeleteUser(p) ==
    /\ Event
    /\ Known(p)
    /\ users' = [users EXCEPT ![p].active = FALSE]
    /\ UNCHANGED <<directory, edited, boxes, assigned, job, faults>>

CreateMailbox(b) ==
    /\ Event
    /\ ~boxes[b].exists
    /\ boxes' = [boxes EXCEPT ![b] = [exists |-> TRUE, active |-> TRUE, by |-> "manual"]]
    /\ UNCHANGED <<directory, edited, users, assigned, job, faults>>

UpdateMailbox(b, active) ==
    /\ Event
    /\ boxes[b].exists
    /\ boxes' = [boxes EXCEPT ![b].active = active]
    /\ UNCHANGED <<directory, edited, users, assigned, job, faults>>

DeleteMailbox(b) ==
    /\ Event
    /\ boxes[b].exists
    /\ boxes' = [boxes EXCEPT ![b] = NoBox]
    /\ assigned' = [x \in People \X Boxes |-> IF x[2] = b THEN "none" ELSE assigned[x]]
    /\ UNCHANGED <<directory, edited, users, job, faults>>

\* INSERT IGNORE: a row of the directory stays one.
AddAssignment(p, b) ==
    /\ Event
    /\ boxes[b].exists
    /\ Known(p)
    /\ assigned' = [assigned EXCEPT ![<<p, b>>] = IF @ = "none" THEN "manual" ELSE @]
    /\ UNCHANGED <<directory, edited, users, boxes, job, faults>>

RemoveAssignment(p, b) ==
    /\ Event
    /\ boxes[b].exists
    /\ assigned' = [assigned EXCEPT ![<<p, b>>] = "none"]
    /\ UNCHANGED <<directory, edited, users, boxes, job, faults>>

-----------------------------------------------------------------------------
Step(j) ==
    \/ Search(j) \/ Resolved(j) \/ Reconcile(j) \/ ListMailboxes(j) \/ Deactivate(j)
    \/ \E p \in People : Provision(j, p) \/ ReconcileFixed(j, p)
    \/ \E g \in Groups : Lookup(j, g)

Fails(j) ==
    \/ SearchFindsNobody(j) \/ ReconcileFails(j) \/ ListMailboxesFails(j) \/ DeactivateFails(j)
    \/ Dies(j)
    \/ \E p \in People : ProvisionFails(j, p) \/ ReconcileFixedFails(j, p)
    \/ \E g \in Groups : LookupFails(j, g)

DirectoryChanges ==
    \/ \E p \in People, e \in Entries : EntryChanges(p, e)
    \/ \E g \in Groups, names \in SUBSET Boxes : GroupChanges(g, names)

Hands ==
    \/ \E p \in People, role \in Roles :
        OidcLogin(p, role) \/ CreateUser(p, role) \/ UpdateUserRole(p, role)
    \/ \E p \in People : DeleteUser(p)
    \/ \E b \in Boxes : CreateMailbox(b) \/ DeleteMailbox(b)
    \/ \E b \in Boxes, active \in BOOLEAN : UpdateMailbox(b, active)
    \/ \E p \in People, b \in Boxes : AddAssignment(p, b) \/ RemoveAssignment(p, b)

DirectoryNext ==
    \/ \E j \in Jobs : Step(j) \/ Fails(j)
    \/ \E j \in Logins, p \in People : Login(j, p)
    \/ DirectoryChanges
    \/ Hands

DirectorySpec == DirectoryInit /\ [][DirectoryNext]_directoryVars

-----------------------------------------------------------------------------
(* Properties.                                                             *)

\* A round or a login takes an assignment away only from who was not granted
\* it, through one and the same group, at every moment since its search: a
\* search of a group that fails, a second search that others answered before,
\* the fixed users that are put off and a round beside this one never take a
\* mailbox from who may see it (syncer.go Sync, resolver.go ResolveForUser,
\* repository.go SyncMailboxAssignmentsForUser).  The entry is read once and
\* each group later, so who moves from group to group may be caught between.
OnlyLapsedAreRemoved ==
    [][\A p \in People, b \in Boxes :
        assigned[<<p, b>>] # "none" /\ assigned'[<<p, b>>] = "none" /\ job' # job
            => \E j \in Jobs : /\ job'[j] # job[j]
                               /\ \A g \in Groups : <<p, g, b>> \notin job[j].sure]_directoryVars

\* A round deactivates only who had no entry at some moment since its search,
\* or whose row it failed to write; a search that finds nobody deactivates
\* nobody (syncer.go Sync, repository.go DeactivateMissingLDAPUsers).
OnlyLeaversAreDeactivated ==
    [][\A p \in People :
        users[p].active /\ ~users'[p].active /\ job' # job
            => \E j \in Jobs : /\ job'[j] # job[j]
                               /\ (p \notin job[j].here \/ p \in job[j].failed)]_directoryVars

\* What an administrator made stands against rounds and logins: the role of a
\* manual row is changed by an administrator only, that of a row from the
\* directory not through OIDC; a row goes from OIDC to the directory and no other
\* way; no round and no login touches a mailbox, deactivates a manual user or
\* removes a manual assignment (repository.go UpsertFederatedUser,
\* upsertProvisionedMailboxTx, upsertProvisionedAssignmentTx).  The display name
\* every login writes, whoever made the row, is not modelled.
AuthorityIsKept ==
    [][/\ \A p \in People : users[p].exists =>
            /\ users'[p].by # users[p].by
                   => users[p].by = "oidc" /\ users'[p].by = "ldap" /\ job' # job
            /\ users'[p].role # users[p].role
                   => \/ \E role \in Roles : UpdateUserRole(p, role)
                      \/ users[p].by = "ldap" /\ job' # job
                      \/ users[p].by = "oidc"
            /\ users[p].by = "manual" /\ users'[p] # users[p] => job' = job
       /\ \A b \in Boxes : boxes[b].exists /\ boxes'[b] # boxes[b] => job' = job
       /\ \A x \in People \X Boxes :
            assigned[x] = "manual" /\ assigned'[x] # "manual" => job' = job]_directoryVars

\* Claimed: a role that an administrator has set outranks the directory
\* (docs/specs/api-authentication.md: manual is what was made or edited in the
\* web user interface, above ldap).
EditStands ==
    [][\A p \in edited : users'[p].role # users[p].role => job' = job]_directoryVars
=============================================================================
