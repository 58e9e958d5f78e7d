-------------------------- MODULE MCDelayedRelease --------------------------
(* Small instances of DelayedReleaseLive for TLC.                           *)
EXTENDS DelayedReleaseLive, TLC

CONSTANTS i1, i2, r1, r2, u1, u2

OneRelease == {i1}
TwoReleases == {i1, i2}
OneReplica == {r1}
TwoReplicas == {r1, r2}
OneUser == {u1}
TwoUsers == {u1, u2}

\* Everybody may act on everything, except that one request lacks the right
\* to the second release.
Permitted == (Users \X Releases) \ {<<u1, i2>>}
=============================================================================
