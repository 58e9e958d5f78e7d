-------------------------- MODULE MCNotifications --------------------------
(***************************************************************************)
(* A small instance of NotificationsLive for TLC.  No step tells the two   *)
(* approvers apart, so to begin with a2 alone would show nothing new.      *)
(***************************************************************************)
EXTENDS NotificationsLive

CONSTANTS a1, a2, n1, n2

TwoApprovers == {a1, a2}
TwoNotifiers == {n1, n2}

MCInit == LiveInit /\ admins # {a2}

MCSpec == MCInit /\ [][LiveNext]_liveVars /\ Fairness
=============================================================================
