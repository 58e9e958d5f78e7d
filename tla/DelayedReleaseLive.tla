------------------------- MODULE DelayedReleaseLive -------------------------
(***************************************************************************)
(* What module DelayedRelease promises in the long run.  No call of the    *)
(* api-server to the database, the store or the MTA has a deadline: the    *)
(* context of RunReleaser is one without, and reinject.Send arms the       *)
(* connection only from the deadline of its context.  A peer that keeps a  *)
(* connection open and never answers therefore stops the process that      *)
(* called it, until that process is restarted.                             *)
(***************************************************************************)
EXTENDS DelayedRelease, FiniteSets

CONSTANT MaxSilent   \* bound: processes that wait for ever at one time

ASSUME SilentAssumption == MaxSilent \in Nat

VARIABLE silent      \* processes whose present call never returns

liveVars == <<vars, silent>>

LiveTypeOK == TypeOK /\ silent \subseteq Procs

LiveInit == Init /\ silent = {}

\* A worker between two rows, or a user without a request, calls nobody.
Calls(p) == at[p] # "cycle" /\ (p \in Users => at[p] # "idle")

GoSilent(p) ==
    /\ p \notin silent
    /\ Calls(p)
    /\ Cardinality(silent) < MaxSilent
    /\ silent' = silent \cup {p}
    /\ UNCHANGED vars

Proceed(p) == p \notin silent /\ Work(p) /\ UNCHANGED silent

\* The process ends, a silent one as well as any other.  (To restart one that is
\* silent between two rounds, in the query of the list, is as if it had waited.)
Restart(p) == Crash(p) /\ silent' = silent \ {p}

Ask ==
    /\ \E u \in Users, i \in Releases : SendNow(u, i) \/ RequestCancel(u, i)
    /\ UNCHANGED silent

TimePasses(i) == BecomeDue(i) /\ UNCHANGED silent

LiveNext ==
    \/ \E p \in Procs : Proceed(p) \/ GoSilent(p) \/ Restart(p)
    \/ Ask
    \/ \E i \in Releases : TimePasses(i) \/ (Archive(i) /\ UNCHANGED silent)

\* The ticker keeps ticking, a goroutine whose call returned goes on, and time
\* passes.  Nothing is assumed of what a peer answers, or that it answers.
Fairness ==
    /\ \A i \in Releases : WF_liveVars(TimePasses(i))
    /\ \A p \in Procs : WF_liveVars(Proceed(p))

LiveSpec == LiveInit /\ [][LiveNext]_liveVars /\ Fairness

-----------------------------------------------------------------------------
Settled(i) == confirmed[i] = 1 \/ row[i] = "cancelled" \/ lost[i]

\* The claim of i is in the hands of a process that waits for ever.
Hangs(i) == \E p \in silent : Holds(p, i)

\* A peer reports an error to a process that works on i.
Refused(i) ==
    \E p \in Procs : rel[p] = i /\ (ClaimFails(p) \/ LoadFails(p) \/ SendRefused(p) \/ SendUnclear(p))

\* Every release is in the end handed over or cancelled, or a recorded event
\* lost it, or the process that claimed it hangs, or every worker does; and if
\* peers refuse it again and again, it is taken up again for ever.  One worker
\* that hangs does not keep the others from the rows it has not claimed, and a
\* failed hand-over is not the last one (delay/service.go RunReleaser,
\* releaseDue, Release).
EventuallySettled ==
    \A i \in Releases :
        \/ <>(Settled(i) \/ Hangs(i) \/ Replicas \subseteq silent)
        \/ []<><<Refused(i)>>_liveVars
=============================================================================
