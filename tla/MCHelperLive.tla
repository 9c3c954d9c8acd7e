----------------------------- MODULE MCHelperLive -----------------------------
(* HelperWorkload with two users, one of whom has two launchers.             *)
EXTENDS HelperWorkload, MCHelperSessions
===============================================================================
