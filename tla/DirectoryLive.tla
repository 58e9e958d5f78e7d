---------------------------- MODULE DirectoryLive ----------------------------
(***************************************************************************)
(* What module Directory promises in the long run.  The context of         *)
(* RunPeriodic has no deadline and ldap.Dial sets no timeout on its        *)
(* connection (the limit of a search is one the server keeps): a directory *)
(* or a database that accepts a call and never answers stops the round or  *)
(* the login that called it, until its replica is restarted.               *)
(***************************************************************************)
EXTENDS Directory

VARIABLE silent   \* rounds and logins whose present call never returns

liveVars == <<directoryVars, silent>>

LiveTypeOK == DirectoryTypeOK /\ silent \subseteq Jobs

\* Bound: a call that never returns is one of the MaxFaults faults, and so is
\* the restart that ends it.
WithinBounds == faults + Cardinality(silent) <= MaxFaults

LiveInit == DirectoryInit /\ silent = {}

GoSilent(j) ==
    /\ j \notin silent
    /\ j \in Logins => job[j].at # "idle"
    /\ faults + Cardinality(silent) < MaxFaults
    /\ silent' = silent \cup {j}
    /\ UNCHANGED directoryVars

Proceed(j) == j \notin silent /\ Step(j) /\ UNCHANGED silent

Falter(j) == j \notin silent /\ Fails(j) /\ UNCHANGED silent /\ WithinBounds'

\* The replica ends, or the client goes away, also of a job that is silent.  (To
\* restart one that is silent in the search that begins a round is as if it had
\* waited.)
Restart(j) == j \in silent /\ Dies(j) /\ silent' = silent \ {j}

Change ==
    /\ \/ \E j \in Logins, p \in People : Login(j, p)
       \/ DirectoryChanges \/ Hands
    /\ UNCHANGED silent

LiveNext ==
    \/ \E j \in Jobs : Proceed(j) \/ Falter(j) \/ GoSilent(j) \/ Restart(j)
    \/ Change

\* The ticker ticks, and a round or login whose call returned goes on.  Nothing
\* is assumed of what a peer answers, or that it answers.
Fairness == \A j \in Jobs : WF_liveVars(Proceed(j))

LiveSpec == LiveInit /\ [][LiveNext]_liveVars /\ Fairness

-----------------------------------------------------------------------------
InSync ==
    /\ \A p \in Listed(entries) :
        /\ users[p].exists
        /\ users[p].by = "ldap" => users[p].role = RoleOf(entries[p].groups)
        /\ \A b \in Boxes :
            /\ Granted(p, b) => assigned[<<p, b>>] # "none"
            /\ assigned[<<p, b>>] = "ldap" => Granted(p, b)
    /\ Listed(entries) # {} =>
        \A p \in People \ Listed(entries) : users[p].by = "ldap" => ~users[p].active

\* When nobody edits any more, the rows agree with the directory in the end and
\* stay so, unless every replica hangs: everybody with an entry has what is
\* granted and, of the rows made from the directory, nothing else; the role is
\* that of the groups; who left is not active, unless the directory is empty.  A
\* login that hangs, or one that ends half-way, does no lasting harm, nor does a
\* round that ends half-way (syncer.go RunPeriodic, Sync).
EventuallyInSync == <>[](InSync \/ Replicas \subseteq silent)
=============================================================================
