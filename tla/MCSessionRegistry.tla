--------------------------- MODULE MCSessionRegistry ---------------------------
(* Two launches that were asked for one name, or one that takes a default name. *)
EXTENDS SessionRegistry, TLC

CONSTANTS l1, l2, o1, o2, x, x2

SameName == [l \in {l1, l2} |-> <<x>>]
DefaultNames == [l \in {l1, l2} |-> <<x, x2>>]
===============================================================================
