---------------------------- MODULE HelperSessions ----------------------------
(***************************************************************************)
(* The root helper's reference-counted firewall sessions                   *)
(* (lianyaohu-app/src/helper_daemon.rs).                                   *)
(*                                                                         *)
(* Each accepted connection is served by its own worker thread, and one    *)
(* mutex guards the map from uid to session.  A `run` request joins or     *)
(* installs its user's rules, waits for the agent it spawned and gives the *)
(* reference back; `install` leaves a reference behind for a later,        *)
(* unauthenticated `uninstall`.  A signal thread tears everything down and *)
(* exits, the process may be killed at any point, and a new instance reaps *)
(* whatever chains it finds.                                               *)
(*                                                                         *)
(* A client stands for one launcher process and for the worker thread that *)
(* serves its current connection.  The commands of one installation are    *)
(* taken apart in LinuxFirewall; here a chain is absent, complete for a    *)
(* variant, or Partial (being built, being removed, or left half done).    *)
(***************************************************************************)
EXTENDS Naturals, FiniteSets

CONSTANTS
  Clients,         \* launcher processes
  Uids,            \* user ids
  UidOf,           \* UidOf[c]: the uid the kernel reports for client c
  Variants,        \* interface and network policy of a rule set
  StrayClients,    \* clients that may send `uninstall` without an `install`
  CleanupFaults,   \* may the cleanup commands, whose errors are ignored, fail?
  MayDie,          \* may the helper process be killed?
  NoRules,         \* chain value: no rules
  Partial,         \* chain value: neither absent nor known to be complete
  NoSession,       \* no entry in the session map
  NoOwner,         \* nobody holds the mutex
  ShutdownThread   \* the signal thread, as a holder of the mutex

Scopes == {"user", "group"}
RuleSet == [scope : Scopes, variant : Variants]

ASSUME ClientsAssumption == IsFiniteSet(Clients) /\ UidOf \in [Clients -> Uids]
ASSUME OptionAssumption ==
  /\ StrayClients \subseteq Clients
  /\ CleanupFaults \in BOOLEAN /\ MayDie \in BOOLEAN
ASSUME SentinelAssumption ==
  /\ NoRules \notin Variants /\ Partial \notin Variants /\ NoRules # Partial
  /\ NoSession \notin RuleSet
  /\ NoOwner \notin Clients /\ ShutdownThread \notin Clients
  /\ NoOwner # ShutdownThread

VARIABLES
  mode,      \* the helper process: up, stopping, torn (sessions gone), down
  lock,      \* holder of the `sessions` mutex
  sess,      \* sess[u]: rule set of u's entry in the map, or NoSession
  refcount,  \* refcount[u]: references of that entry (0 without an entry)
  chain,     \* chain[u][s]: the kernel's chain for user u and scope s
  pc,        \* pc[c]: where client c, or the worker serving it, stands
  want,      \* want[c]: the rule set of c's request
  agent      \* agent[c]: none, live, or orphan (of an earlier instance)

vars == <<mode, lock, sess, refcount, chain, pc, want, agent>>

Modes == {"up", "stopping", "torn", "down"}
Phases == {"idle", "request", "installing", "spawn", "running", "release",
           "holding", "leaked", "uninstall", "tearing"}

TypeOK ==
  /\ mode \in Modes
  /\ lock \in Clients \cup {NoOwner, ShutdownThread}
  /\ sess \in [Uids -> RuleSet \cup {NoSession}]
  /\ refcount \in [Uids -> Nat]
  /\ chain \in [Uids -> [Scopes -> Variants \cup {NoRules, Partial}]]
  /\ pc \in [Clients -> Phases]
  /\ want \in [Clients -> RuleSet \cup {NoSession}]
  /\ agent \in [Clients -> {"none", "live", "orphan"}]

Init ==
  /\ mode = "up"
  /\ lock = NoOwner
  /\ sess = [u \in Uids |-> NoSession]
  /\ refcount = [u \in Uids |-> 0]
  /\ chain = [u \in Uids |-> [s \in Scopes |-> NoRules]]
  /\ pc = [c \in Clients |-> "idle"]
  /\ want = [c \in Clients |-> NoSession]
  /\ agent = [c \in Clients |-> "none"]

-------------------------------------------------------------------------------
(* Building blocks, each followed through the handlers below.               *)

Goto(c, phase) == pc' = [pc EXCEPT ![c] = phase]

UnlockForgotten == UNCHANGED lock
\* The guard of the mutex goes out of scope.
Unlock == lock' = NoOwner

\* The connection (or the launcher) is finished; its request dies with it.
Done(c) == Goto(c, "idle") /\ want' = [want EXCEPT ![c] = NoSession]

\* The entry a connection of c finds under its peer's uid.
Entry(c) == sess[UidOf[c]]

SetChain(u, s, value) == chain' = [chain EXCEPT ![u][s] = value]

\* What a cleanup whose command errors are discarded leaves of a chain.
CleanupOutcomes == {NoRules} \cup (IF CleanupFaults THEN {Partial} ELSE {})

CompatibleByContent(c) == Entry(c).variant = want[c].variant
\* Joining needs the whole rule set to be equal: interface, policy and scope.
Compatible(c) == Entry(c) = want[c]

JoinedUncounted(n) == n
\* One more session on the same rules.
Joined(n) == n + 1

LastReferenceAlways(u) == TRUE
\* The reference being dropped is the last one.
LastReference(u) == refcount[u] = 1

UninstallableAnyScope(u) == TRUE
\* `uninstall` may release only the user-scoped state `install` creates.
Uninstallable(u) == sess[u].scope = "user"

ReapKeepsAll == {Uids \X Scopes}
\* The chains a startup reap leaves behind: none, unless its commands fail.
ReapKeeps == IF CleanupFaults THEN SUBSET (Uids \X Scopes) ELSE {{}}

-------------------------------------------------------------------------------
(* Requests.  A run request reaches the mutex only after the spec was read  *)
(* and validated; a rejected one leaves no trace and is not shown.          *)

NewRequest(c) ==
  /\ mode # "down"
  /\ pc[c] = "idle" /\ agent[c] = "none"
  /\ \E r \in RuleSet : want' = [want EXCEPT ![c] = r]
  /\ Goto(c, "request")
  /\ UNCHANGED <<mode, lock, sess, refcount, chain, agent>>

StrayUninstall(c) ==
  /\ mode # "down"
  /\ c \in StrayClients
  /\ pc[c] = "idle" /\ agent[c] = "none"
  /\ Goto(c, "uninstall")
  /\ UNCHANGED <<mode, lock, sess, refcount, chain, want, agent>>

\* A granted run request goes on to spawn the agent; a granted install is
\* answered, and the launcher starts the agent itself.
Granted(c) ==
  IF want[c].scope = "group"
  THEN Goto(c, "spawn") /\ UNCHANGED agent
  ELSE Goto(c, "holding") /\ agent' = [agent EXCEPT ![c] = "live"]

AcquireConflict(c) ==
  /\ pc[c] = "request" /\ lock = NoOwner
  /\ Entry(c) # NoSession /\ ~Compatible(c)
  /\ Done(c)
  /\ UNCHANGED <<mode, lock, sess, refcount, chain, agent>>

AcquireJoin(c) ==
  /\ pc[c] = "request" /\ lock = NoOwner
  /\ Entry(c) # NoSession /\ Compatible(c)
  /\ refcount' = [refcount EXCEPT ![UidOf[c]] = Joined(@)]
  /\ Granted(c)
  /\ UNCHANGED <<mode, lock, sess, chain, want>>

\* No entry: the firewall commands run with the mutex held.
AcquireInstall(c) ==
  /\ pc[c] = "request" /\ lock = NoOwner
  /\ Entry(c) = NoSession
  /\ lock' = c
  /\ SetChain(UidOf[c], want[c].scope, Partial)
  /\ Goto(c, "installing")
  /\ UNCHANGED <<mode, sess, refcount, want, agent>>

InstallOk(c) ==
  /\ pc[c] = "installing"
  /\ SetChain(UidOf[c], want[c].scope, want[c].variant)
  /\ sess' = [sess EXCEPT ![UidOf[c]] = want[c]]
  /\ refcount' = [refcount EXCEPT ![UidOf[c]] = 1]
  /\ Unlock
  /\ Granted(c)
  /\ UNCHANGED <<mode, want>>

InstallFailsInserted(c) ==
  /\ pc[c] = "installing"
  /\ \E left \in CleanupOutcomes : SetChain(UidOf[c], want[c].scope, left)
  /\ sess' = [sess EXCEPT ![UidOf[c]] = want[c]]
  /\ refcount' = [refcount EXCEPT ![UidOf[c]] = 1]
  /\ Unlock
  /\ Done(c)
  /\ UNCHANGED <<mode, agent>>

\* A command failed: clean up, report, insert nothing.
InstallFails(c) ==
  /\ pc[c] = "installing"
  /\ \E left \in CleanupOutcomes : SetChain(UidOf[c], want[c].scope, left)
  /\ Unlock
  /\ Done(c)
  /\ UNCHANGED <<mode, sess, refcount, agent>>

-------------------------------------------------------------------------------
(* The agent of a run request.  Whether it was spawned or not, its worker   *)
(* releases the reference.                                                  *)

Spawn(c) ==
  /\ pc[c] = "spawn"
  /\ agent' = [agent EXCEPT ![c] = "live"]
  /\ Goto(c, "running")
  /\ UNCHANGED <<mode, lock, sess, refcount, chain, want>>

SpawnFails(c) ==
  /\ pc[c] = "spawn"
  /\ Goto(c, "release")
  /\ UNCHANGED <<mode, lock, sess, refcount, chain, want, agent>>

AgentExits(c) ==
  /\ pc[c] = "running"
  /\ agent' = [agent EXCEPT ![c] = "none"]
  /\ Goto(c, "release")
  /\ UNCHANGED <<mode, lock, sess, refcount, chain, want>>

\* Drop one reference of u; the last one takes the entry out of the map and
\* starts the teardown, still under the mutex.  The worker keeps the removed
\* entry in a local, here want[c].
DropReference(c, u) ==
  IF LastReference(u)
  THEN /\ refcount' = [refcount EXCEPT ![u] = 0]
       /\ sess' = [sess EXCEPT ![u] = NoSession]
       /\ SetChain(u, sess[u].scope, Partial)
       /\ want' = [want EXCEPT ![c] = sess[u]]
       /\ lock' = c
       /\ Goto(c, "tearing")
  ELSE /\ refcount' = [refcount EXCEPT ![u] = @ - 1]
       /\ Done(c)
       /\ UNCHANGED <<lock, sess, chain>>

ReleaseNothing(c) ==
  /\ pc[c] = "release" /\ lock = NoOwner
  /\ Entry(c) = NoSession
  /\ Done(c)
  /\ UNCHANGED <<mode, lock, sess, refcount, chain, agent>>

ReleaseSession(c) ==
  /\ pc[c] = "release" /\ lock = NoOwner
  /\ Entry(c) # NoSession
  /\ DropReference(c, UidOf[c])
  /\ UNCHANGED <<mode, agent>>

TeardownDone(c) ==
  /\ pc[c] = "tearing"
  /\ \E left \in CleanupOutcomes : SetChain(UidOf[c], want[c].scope, left)
  /\ Unlock
  /\ Done(c)
  /\ UNCHANGED <<mode, sess, refcount, agent>>

-------------------------------------------------------------------------------
(* The launcher that holds an install session.                              *)

\* Its agent is done: it sends `uninstall`, if a helper is there to take it.
HolderExits(c) ==
  /\ pc[c] = "holding"
  /\ agent' = [agent EXCEPT ![c] = "none"]
  /\ IF mode = "down" THEN Done(c) ELSE Goto(c, "uninstall") /\ UNCHANGED want
  /\ UNCHANGED <<mode, lock, sess, refcount, chain>>

\* Killed before it could: nobody will send this uninstall.
HolderKilled(c) ==
  /\ pc[c] = "holding"
  /\ Goto(c, "leaked")
  /\ UNCHANGED <<mode, lock, sess, refcount, chain, want, agent>>

\* An agent nobody waits for ends: a killed launcher's, or one that outlived
\* the helper that spawned it.
LooseAgentExits(c) ==
  /\ pc[c] \in {"idle", "leaked"} /\ agent[c] # "none"
  /\ agent' = [agent EXCEPT ![c] = "none"]
  /\ UNCHANGED <<mode, lock, sess, refcount, chain, pc, want>>

\* Refused while a run session is live; a no-op without any session.
UninstallNothing(c) ==
  /\ pc[c] = "uninstall" /\ lock = NoOwner
  /\ Entry(c) # NoSession => ~Uninstallable(UidOf[c])
  /\ Done(c)
  /\ UNCHANGED <<mode, lock, sess, refcount, chain, agent>>

Uninstall(c) ==
  /\ pc[c] = "uninstall" /\ lock = NoOwner
  /\ Entry(c) # NoSession /\ Uninstallable(UidOf[c])
  /\ DropReference(c, UidOf[c])
  /\ UNCHANGED <<mode, agent>>

-------------------------------------------------------------------------------
(* Shutdown, death and restart of the helper process.                       *)

Signal ==
  /\ mode = "up"
  /\ mode' = "stopping"
  /\ UNCHANGED <<lock, sess, refcount, chain, pc, want, agent>>

TeardownAllBegin ==
  /\ mode = "stopping" /\ lock = NoOwner
  /\ lock' = ShutdownThread
  /\ UNCHANGED <<mode, sess, refcount, chain, pc, want, agent>>

TeardownOne(u) ==
  /\ lock = ShutdownThread /\ sess[u] # NoSession
  /\ \E left \in CleanupOutcomes : SetChain(u, sess[u].scope, left)
  /\ sess' = [sess EXCEPT ![u] = NoSession]
  /\ refcount' = [refcount EXCEPT ![u] = 0]
  /\ UNCHANGED <<mode, lock, pc, want, agent>>

TeardownAllEnd ==
  /\ lock = ShutdownThread
  /\ \A u \in Uids : sess[u] = NoSession
  /\ mode' = "torn"
  /\ Unlock
  /\ UNCHANGED <<sess, refcount, chain, pc, want, agent>>

\* The process is gone: with it the map, the mutex and the workers.  The
\* kernel's chains, the agents and the launchers stay.
ProcessEnds ==
  /\ mode' = "down"
  /\ lock' = NoOwner
  /\ sess' = [u \in Uids |-> NoSession]
  /\ refcount' = [u \in Uids |-> 0]
  /\ pc' = [c \in Clients |-> IF pc[c] \in {"holding", "leaked"} THEN pc[c] ELSE "idle"]
  /\ want' = [c \in Clients |-> IF pc[c] \in {"holding", "leaked"} THEN want[c] ELSE NoSession]
  /\ agent' = [c \in Clients |-> IF agent[c] = "live" THEN "orphan" ELSE agent[c]]
  /\ UNCHANGED chain

Exit == mode = "torn" /\ ProcessEnds

Killed == MayDie /\ mode \in {"up", "stopping"} /\ ProcessEnds

\* A new instance reaps the chains it finds and then serves.  One whose
\* commands failed survives.
Restart ==
  /\ mode = "down"
  /\ mode' = "up"
  /\ \E kept \in ReapKeeps :
       chain' = [u \in Uids |-> [s \in Scopes |->
                      IF <<u, s>> \in kept THEN chain[u][s] ELSE NoRules]]
  /\ UNCHANGED <<lock, sess, refcount, pc, want, agent>>

-------------------------------------------------------------------------------
Worker(c) ==
  \/ AcquireConflict(c) \/ AcquireJoin(c) \/ AcquireInstall(c)
  \/ InstallOk(c) \/ InstallFails(c)
  \/ Spawn(c) \/ SpawnFails(c)
  \/ ReleaseNothing(c) \/ ReleaseSession(c)
  \/ UninstallNothing(c) \/ Uninstall(c)
  \/ TeardownDone(c)

Environment(c) ==
  \/ NewRequest(c) \/ StrayUninstall(c)
  \/ AgentExits(c) \/ HolderExits(c) \/ HolderKilled(c) \/ LooseAgentExits(c)

Shutdown == TeardownAllBegin \/ (\E u \in Uids : TeardownOne(u)) \/ TeardownAllEnd \/ Exit

Next ==
  \/ \E c \in Clients : Worker(c) \/ Environment(c)
  \/ Signal \/ Shutdown \/ Killed \/ Restart

Spec == Init /\ [][Next]_vars

-------------------------------------------------------------------------------
(* Properties.                                                              *)

\* The workers that own a reference of u's run session.
RunHolders(u) ==
  {c \in Clients : UidOf[c] = u /\ pc[c] \in {"spawn", "running", "release"}}

\* From before an agent is spawned until its exit has been noticed, the chain
\* that confines it is complete and is the one its own launch asked for,
\* whatever other launches, uninstalls and exits of the same user do
\* meanwhile.  The promise ends with the signal that stops the helper.
RunAgentsGuarded ==
  mode = "up" =>
    \A c \in Clients :
      pc[c] \in {"spawn", "running"} => chain[UidOf[c]]["group"] = want[c].variant

\* The count of a run session is the number of workers that own a reference
\* of it: it neither leaks (rules that never come down) nor runs ahead (rules
\* that come down too early).
RefcountIsHolders ==
  mode = "up" =>
    \A u \in Uids :
      (sess[u] # NoSession /\ sess[u].scope = "group")
        => refcount[u] = Cardinality(RunHolders(u))

\* An entry of the map always stands for a complete chain, also across
\* failed installs, shutdown and restart, so joining one (or reporting it
\* as "installed") never trusts rules that are not there.
SessionMeansRules ==
  \A u \in Uids :
    sess[u] # NoSession => chain[u][sess[u].scope] = sess[u].variant

\* While the mutex is free a chain exists only for an entry of its user and
\* scope: failed installs, last releases and earlier instances leave none.
NoResidue ==
  mode # "down" /\ lock = NoOwner =>
    \A u \in Uids, s \in Scopes :
      chain[u][s] # NoRules => sess[u] # NoSession /\ sess[u].scope = s

\* Why these hold: who owns the mutex, what every phase of a worker knows of
\* its request and of the map, and what is left of a helper that is down.
LockInv ==
  /\ \A c \in Clients : lock = c <=> pc[c] \in {"installing", "tearing"}
  /\ lock = ShutdownThread => mode = "stopping"

CountInv == \A u \in Uids : sess[u] = NoSession <=> refcount[u] = 0

WorkerInv ==
  \A c \in Clients :
    /\ pc[c] \notin {"idle", "uninstall"} => want[c] \in RuleSet
    /\ pc[c] \in {"spawn", "running", "release"} => want[c].scope = "group"
    /\ pc[c] \in {"installing", "tearing"} => sess[UidOf[c]] = NoSession

HolderInv ==
  mode = "up" =>
    \A c \in Clients :
      pc[c] \in {"spawn", "running", "release"} => sess[UidOf[c]] = want[c]

DownInv ==
  mode = "down" =>
    /\ \A u \in Uids : sess[u] = NoSession
    /\ \A c \in Clients : pc[c] \in {"idle", "holding", "leaked"}

\* The inductive invariant behind RunAgentsGuarded, RefcountIsHolders and
\* LeaseSpec: a worker that owns a reference finds its own rules under its
\* uid, and only the owner of the last reference can take them out.
IndInv ==
  /\ TypeOK /\ LockInv /\ CountInv /\ WorkerInv /\ HolderInv /\ DownInv
  /\ SessionMeansRules /\ RefcountIsHolders

\* teardown_all_sessions: "a stopped helper does not leave rules behind".
StoppedLeavesNoRules ==
  [][mode = "torn" /\ mode' = "down"
       => \A u \in Uids, s \in Scopes : chain'[u][s] = NoRules]_vars

\* The agents of u a serving helper answers for: those whose worker owns a
\* reference, each with the rules its launch asked for.
AgentsOf(u) ==
  IF mode = "up" THEN {<<c, want[c].variant>> : c \in RunHolders(u)} ELSE {}

\* The abstract promise, for the agents the helper launches.
Lease == INSTANCE GuardLease WITH
  Blank <- {NoRules, Partial},
  members <- [u \in Uids |-> AgentsOf(u)],
  rules <- [u \in Uids |-> chain[u]["group"]]

\* Every behaviour of the helper keeps the promise GuardLease states.
LeaseSpec == Lease!Spec
===============================================================================
