---------------------------- MODULE MCHandleMail ----------------------------
(* Small instances of HandleMail for TLC.                                  *)
EXTENDS HandleMail, TLC

CONSTANTS m1, m2

OneMail == {m1}
TwoMails == {m1, m2}
=============================================================================
