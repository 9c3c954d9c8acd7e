------------------------------ MODULE GuardChains ------------------------------
(***************************************************************************)
(* What the chains of a host's guards are to the rest of the program, a    *)
(* chain taken as one thing: nothing of it is there, the rules of one      *)
(* policy are enforced, or neither can be said.  The program counts on     *)
(* this and never looks at the tables (HelperSessions keeps the same three *)
(* values of a chain); the commands of LinuxFirewall implement it.         *)
(***************************************************************************)

CONSTANTS
  Guards,      \* guards, one per chain
  OfHelper,    \* those the root helper makes; launchers make the others
  RuleSetsOf,  \* RuleSetsOf[g]: the rule sets g may be made for
  NoRules,     \* nothing of the chain is in the tables
  Partial      \* something is, and nobody counts on it

VARIABLES
  phase,    \* phase[g]: idle, installing, standing, removing or orphaned
  mark,     \* mark[g]: the rule set g's chain enforces, NoRules or Partial
  helper,   \* the helper: down, reaping or up
  trouble   \* has a command failed that the tables allowed?

vars == <<phase, mark, helper, trouble>>

Init ==
  /\ phase = [g \in Guards |-> "idle"]
  /\ mark = [g \in Guards |-> NoRules]
  /\ helper = "down"
  /\ trouble = FALSE

Becomes(g, next, m) ==
  /\ phase' = [phase EXCEPT ![g] = next]
  /\ mark' = [mark EXCEPT ![g] = m]
  /\ UNCHANGED <<helper, trouble>>

\* What a clean-up leaves of a chain.
Remains == {NoRules} \cup (IF trouble THEN {Partial} ELSE {})

Begin(g) ==
  /\ phase[g] = "idle"
  /\ IF g \in OfHelper THEN helper = "up" ELSE helper # "reaping"
  /\ Becomes(g, "installing", Partial)

Installed(g) ==
  /\ phase[g] = "installing"
  /\ \E rs \in RuleSetsOf[g] : Becomes(g, "standing", rs)

BeginRemoval(g) ==
  /\ phase[g] = "standing"
  /\ Becomes(g, "removing", Partial)

\* A removal is through, or an installation that failed has been undone.
CleanedUp(g) ==
  /\ phase[g] \in {"installing", "removing"}
  /\ \E m \in Remains : Becomes(g, "idle", m)

\* The processes that made these guards are gone.  Where an agent runs, its
\* rules stay; where commands ran, they may have left something or nothing.
Abandon(lost) ==
  /\ phase' = [g \in Guards |-> IF g \notin lost THEN phase[g]
                                ELSE IF phase[g] \in {"standing", "orphaned"} THEN "orphaned"
                                ELSE "idle"]
  /\ \E clear \in SUBSET {g \in lost : phase[g] \in {"installing", "removing"}} :
       mark' = [g \in Guards |-> IF g \in clear THEN NoRules ELSE mark[g]]
  /\ UNCHANGED trouble

LauncherDies(g) ==
  /\ g \notin OfHelper /\ phase[g] \notin {"idle", "orphaned"}
  /\ Abandon({g})
  /\ UNCHANGED helper

HelperDies ==
  /\ helper # "down" /\ helper' = "down"
  /\ Abandon(OfHelper)

\* Its agent was all that counted on the rules.
AgentEnds(g) ==
  /\ phase[g] = "orphaned"
  /\ Becomes(g, "idle", Partial)

HelperStarts ==
  /\ helper = "down" /\ \A g \in Guards : phase[g] = "idle"
  /\ helper' = "reaping"
  /\ UNCHANGED <<phase, mark, trouble>>

\* While the helper reaps all guards are idle.
Reap(g) ==
  /\ helper = "reaping"
  /\ mark' = [mark EXCEPT ![g] = NoRules]
  /\ UNCHANGED <<phase, helper, trouble>>

Serve ==
  /\ helper = "reaping"
  /\ trouble \/ \A g \in Guards : mark[g] = NoRules
  /\ helper' = "up"
  /\ UNCHANGED <<phase, mark, trouble>>

CommandFails ==
  /\ trouble' = TRUE
  /\ UNCHANGED <<phase, mark, helper>>

Next ==
  \/ \E g \in Guards :
       \/ Begin(g) \/ Installed(g) \/ BeginRemoval(g) \/ CleanedUp(g)
       \/ LauncherDies(g) \/ AgentEnds(g) \/ Reap(g)
  \/ HelperDies \/ HelperStarts \/ Serve \/ CommandFails

Spec == Init /\ [][Next]_vars

-------------------------------------------------------------------------------
\* Whoever counts on a guard has the rules of one of its policies, and what a
\* serving helper finds without a guard is clean, unless a command failed.
Kept ==
  /\ \A g \in Guards : phase[g] \in {"standing", "orphaned"} => mark[g] \in RuleSetsOf[g]
  /\ ~trouble /\ helper = "up" =>
       \A g \in OfHelper : phase[g] = "idle" => mark[g] = NoRules
===============================================================================
