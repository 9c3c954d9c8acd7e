--------------------------- MODULE MCHelperSessions ---------------------------
(* Three launchers of one user, or two of one user and one of another.       *)
EXTENDS HelperSessions, TLC

CONSTANTS c1, c2, c3, alice, bob

SameUser == [c \in {c1, c2, c3} |-> alice]
TwoUsers == (c1 :> alice) @@ (c2 :> alice) @@ (c3 :> bob)
===============================================================================
