--------------------------- MODULE MCNotifications ---------------------------
(* Small instances of Notifications for TLC.                                 *)
EXTENDS Notifications, TLC

CONSTANTS u1, u2, n1, n2, s1, t1

TwoUsers == {u1, u2}
TwoLogins == {n1, n2}
OneSocket == {s1}
OneTransfer == {t1}
=============================================================================
