---------------------------- MODULE MCSessionDaemon ----------------------------
(* Two attaching processes and a handful of chunks.                           *)
EXTENDS SessionDaemon, TLC

CONSTANTS a, b

\* Clients are interchangeable where both (or neither) may return.
ClientSymmetry == Permutations({a, b})
===============================================================================
