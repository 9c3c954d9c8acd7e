---------------------------- MODULE HelperWorkload ----------------------------
(***************************************************************************)
(* HelperSessions with a bounded number of requests and faults, under the  *)
(* fairness its threads have, for the liveness properties.  The mutex is   *)
(* not fair; once requests stop arriving, weak fairness of each worker is  *)
(* enough.                                                                 *)
(***************************************************************************)
EXTENDS HelperSessions

CONSTANT MaxRequests  \* requests the clients may still send

VARIABLES
  budget,   \* requests and faults left
  served    \* users whose rules only their own sessions have touched so far: no
            \* stray uninstall of theirs, no signal, no kill

budgetVars == <<vars, budget, served>>

\* Requests, signals and kills all draw on the budget.
Drawn ==
  \/ \E c \in Clients : NewRequest(c) /\ UNCHANGED served
  \/ \E c \in Clients : StrayUninstall(c) /\ served' = served \ {UidOf[c]}
  \/ (Signal \/ Killed) /\ served' = {}

BudgetNext ==
  \/ /\ budget > 0
     /\ Drawn
     /\ budget' = budget - 1
  \/ /\ \/ \E c \in Clients :
             \/ Worker(c) \/ AgentExits(c)
             \/ HolderExits(c) \/ HolderKilled(c) \/ LooseAgentExits(c)
        \/ Shutdown \/ Restart
     /\ UNCHANGED <<budget, served>>

\* Threads run; a request that has been sent is served.  Agents and launchers
\* may go on for ever.  The supervisor restarts a helper that is gone.
Fairness ==
  /\ \A c \in Clients : WF_budgetVars(Worker(c) /\ UNCHANGED <<budget, served>>)
  /\ WF_budgetVars(Shutdown /\ UNCHANGED <<budget, served>>)
  /\ WF_budgetVars(Restart /\ UNCHANGED <<budget, served>>)

LiveSpec ==
  /\ Init /\ budget = MaxRequests /\ served = Uids
  /\ [][BudgetNext]_budgetVars
  /\ Fairness

\* An agent of the shared-user path is guarded for as long as its user's
\* clients uninstall only what they installed and the helper stays up, also
\* when the launcher that installed its rules was killed.  (Neither is enforced
\* by the helper: `uninstall` carries no token.)
InstallAgentsGuarded ==
  \A c \in Clients :
    UidOf[c] \in served /\ pc[c] \in {"holding", "leaked"}
      => chain[UidOf[c]]["user"] = want[c].variant

\* A worker whose agent has exited always gets to give its reference back
\* and to answer, unless the helper itself is gone.
ReleaseCompletes == \A c \in Clients : pc[c] = "release" ~> pc[c] = "idle"

\* A user none of whose clients is doing anything is not left blocked by
\* rules of sessions that are gone, not even by those of a killed helper.
IdleUserUnblocked ==
  \A u \in Uids :
    (\A c \in Clients : UidOf[c] = u => pc[c] = "idle")
      ~> \/ \A s \in Scopes : chain[u][s] = NoRules
         \/ \E c \in Clients : UidOf[c] = u /\ pc[c] # "idle"
===============================================================================
