-------------------------- MODULE NotificationsLive --------------------------
(***************************************************************************)
(* What module Notifications promises in the long run.  RunNotifier has a  *)
(* context without a deadline and sendMail sets none on its connection: an *)
(* SMTP server, or a database, that accepts a call and never answers stops *)
(* the notifier that called it, until its replica is restarted.            *)
(***************************************************************************)
EXTENDS Notifications

VARIABLE silent   \* notifiers whose present call never returns

liveVars == <<vars, silent>>

LiveTypeOK == TypeOK /\ silent \subseteq Notifiers

\* Bound: a call that never returns is one of the MaxFaults faults, and so is
\* the restart that ends it.
WithinBounds == faults + Cardinality(silent) <= MaxFaults

LiveInit == Init /\ silent = {}

\* Every step of a round is a call.
GoSilent(n) ==
    /\ n \notin silent
    /\ faults + Cardinality(silent) < MaxFaults
    /\ silent' = silent \cup {n}
    /\ UNCHANGED vars

Proceed(n) == n \notin silent /\ Round(n) /\ UNCHANGED silent /\ WithinBounds'

\* The replica ends, a silent notifier as well as any other.  (To restart one that
\* is silent in the query that begins a round is as if it had waited.)
Restart(n) == Crash(n) /\ silent' = silent \ {n} /\ WithinBounds'

Change == (Decide \/ TakeBack \/ Assign) /\ UNCHANGED silent /\ WithinBounds'

LiveNext ==
    \/ \E n \in Notifiers : Proceed(n) \/ GoSilent(n) \/ Restart(n)
    \/ Change

\* The tickers tick and a notifier whose call returned goes on.  Nothing is
\* assumed of what a peer answers, or that it answers.
Fairness == \A n \in Notifiers : WF_liveVars(Proceed(n))

LiveSpec == LiveInit /\ [][LiveNext]_liveVars /\ Fairness

-----------------------------------------------------------------------------
Informed ==
    /\ status = "pending" => announced \/ admins = {}
    /\ status \in Decided => status \in told \/ undecided

\* In the end a pending request is announced, unless nobody can approve it, and
\* the sender of a decided one knows the outcome, unless an approval was taken
\* back after it was told; or every notifier hangs, or the outcome is tried
\* again and again for ever.  A notifier that hangs, at whatever call, does not
\* keep the others from telling (approval/service.go RunNotifier,
\* sendPendingNotifications, sendResultNotifications, sendMail).
EverybodyKnows ==
    \/ <>[](Informed \/ Notifiers \subseteq silent)
    \/ []<>(\E n \in Notifiers : job[n].at = "tell")
=============================================================================
