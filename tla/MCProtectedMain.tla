---------------------------- MODULE MCProtectedMain ----------------------------
(* The App, one administrator and one other user.                          *)
EXTENDS ProtectedMain

CONSTANTS app, admin, dev

MCOthers == {dev}
===============================================================================
