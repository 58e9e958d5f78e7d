----------------------------- MODULE MCApproval -----------------------------
(* Small instances of Approval for TLC.                                    *)
EXTENDS Approval, TLC

CONSTANTS i1, i2, a1, a2, w1, w2

OneRequest == {i1}
TwoRequests == {i1, i2}
OneApprover == {a1}
TwoApprovers == {a1, a2}
OneWorker == {w1}
TwoWorkers == {w1, w2}

\* a2 is not an approver of the second request.
Permitted == (Approvers \X Requests) \ {<<a2, i2>>}
=============================================================================
