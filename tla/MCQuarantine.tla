---------------------------- MODULE MCQuarantine ----------------------------
(* Small instances of Quarantine for TLC.                                  *)
EXTENDS Quarantine, TLC

CONSTANTS m1, m2, p1, p2, p3

OneMail == {m1}
TwoMails == {m1, m2}
TwoRequests == {p1, p2}
ThreeRequests == {p1, p2, p3}

\* The second request comes from a viewer who may not release the second mail.
Permitted == (Requests \X Mails) \ {<<p2, m2>>}
=============================================================================
