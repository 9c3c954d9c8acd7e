------------------------------ MODULE GuardLease ------------------------------
(***************************************************************************)
(* What the root helper promises to the agents it launches, without saying *)
(* how: a user's firewall guard is up, with exactly the rules every agent  *)
(* of that user asked for, from before the first agent joins until the     *)
(* last one has left.  The helper's mutex, its reference counts and its    *)
(* firewall commands (module HelperSessions) implement this.               *)
(***************************************************************************)

CONSTANTS
  Clients,    \* the agents' launchers
  Uids,       \* the users
  Variants,   \* rule sets a launch may ask for
  Blank       \* values of a guard that is no complete rule set

VARIABLES
  members,    \* members[u]: the agents of u counted on, each with its rules
  rules       \* rules[u]: what the firewall enforces on the agents of u

vars == <<members, rules>>

Member == Clients \X Variants

TypeOK ==
  /\ members \in [Uids -> SUBSET Member]
  /\ rules \in [Uids -> Variants \cup Blank]

Init ==
  /\ members = [u \in Uids |-> {}]
  /\ rules \in [Uids -> Variants \cup Blank]

\* An agent joins under the rules it asked for; only the first one may change
\* what the firewall enforces.
Enter(u, m) ==
  /\ m \notin members[u]
  /\ members' = [members EXCEPT ![u] = @ \cup {m}]
  /\ rules' = [rules EXCEPT ![u] = m[2]]
  /\ members[u] # {} => rules[u] = m[2]

\* An agent is gone; the guard may change only when it was the last one.
Leave(u, m) ==
  /\ m \in members[u]
  /\ members' = [members EXCEPT ![u] = @ \ {m}]
  /\ \E r \in Variants \cup Blank : rules' = [rules EXCEPT ![u] = r]
  /\ members'[u] # {} => rules'[u] = rules[u]

\* Without members a guard is nobody's: it may linger, be reaped or rebuilt.
Unattended ==
  /\ rules' \in [Uids -> Variants \cup Blank]
  /\ \A u \in Uids : members[u] # {} => rules'[u] = rules[u]
  /\ UNCHANGED members

\* The helper gives up its promises (it was told to stop, or it died).  The
\* rules stay as they are in that step.
Disown ==
  /\ members' = [u \in Uids |-> {}]
  /\ UNCHANGED rules

Next ==
  \/ \E u \in Uids, m \in Member : Enter(u, m) \/ Leave(u, m)
  \/ Unattended
  \/ Disown

Spec == Init /\ [][Next]_vars

\* The promise: every agent the helper answers for runs under its own rules.
Guarded == \A u \in Uids : \A m \in members[u] : rules[u] = m[2]

===============================================================================
