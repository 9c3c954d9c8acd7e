------------------------ MODULE HelperSessions_proofs ------------------------
(***************************************************************************)
(* Proofs about HelperSessions for any finite set of clients, any users    *)
(* and any rule sets: the inductive invariant IndInv, the properties that  *)
(* follow from it, and that the helper implements GuardLease.              *)
(***************************************************************************)
EXTENDS HelperWorkload, FiniteSetTheorems, TLAPS

\* The phases in which a worker owns a reference of a run session.
RunPhases == {"spawn", "running", "release"}

\* The owners of references are finitely many, so they can be counted.
LEMMA RunHoldersFinite == \A u \in Uids : IsFiniteSet(RunHolders(u))
  BY ClientsAssumption, FS_Subset DEF RunHolders

LEMMA InitInv == Init => IndInv
  <1> SUFFICES ASSUME Init PROVE IndInv
    OBVIOUS
  <1> USE DEF Init
  <1>1. TypeOK
    BY SentinelAssumption DEF TypeOK, Modes, Phases
  <1>2. LockInv /\ CountInv /\ WorkerInv /\ HolderInv /\ DownInv
    BY SentinelAssumption DEF LockInv, CountInv, WorkerInv, HolderInv, DownInv
  <1>3. SessionMeansRules /\ RefcountIsHolders
    BY DEF SessionMeansRules, RefcountIsHolders
  <1> QED
    BY <1>1, <1>2, <1>3 DEF IndInv

-------------------------------------------------------------------------------
(* Steps that leave the map, the chains and the references alone.           *)

\* A step that changes only one client's phase, request and agent, and keeps
\* it out of the phases that own the mutex or a reference.
LEMMA QuietClient ==
  ASSUME IndInv, NEW c \in Clients,
         UNCHANGED <<mode, lock, sess, refcount, chain>>,
         TypeOK', WorkerInv', DownInv',
         \A d \in Clients : d # c => pc'[d] = pc[d] /\ want'[d] = want[d],
         pc[c] \notin RunPhases \cup {"installing", "tearing"},
         pc'[c] \notin RunPhases \cup {"installing", "tearing"}
  PROVE  IndInv'
  <1>1. LockInv' /\ CountInv' /\ SessionMeansRules'
    BY DEF IndInv, LockInv, CountInv, SessionMeansRules
  <1>2. HolderInv'
    BY DEF IndInv, HolderInv, RunPhases
  <1>3. \A u \in Uids : RunHolders(u)' = RunHolders(u)
    BY DEF RunHolders, RunPhases
  <1>4. RefcountIsHolders'
    BY <1>3 DEF IndInv, RefcountIsHolders
  <1> QED
    BY <1>1, <1>2, <1>4 DEF IndInv

LEMMA QuietStep ==
  ASSUME IndInv, NEW c \in Clients,
         \/ NewRequest(c) \/ StrayUninstall(c) \/ AcquireConflict(c)
         \/ UninstallNothing(c)
         \/ HolderExits(c) \/ HolderKilled(c) \/ LooseAgentExits(c)
  PROVE  IndInv'
  <1> USE DEF IndInv, Goto, Done
  <1>1. CASE NewRequest(c)
    BY <1>1, QuietClient DEF NewRequest, TypeOK, Phases, WorkerInv, DownInv, RunPhases
  <1>2. CASE StrayUninstall(c)
    BY <1>2, QuietClient DEF StrayUninstall, TypeOK, Phases, WorkerInv, DownInv, RunPhases
  <1>3. CASE AcquireConflict(c)
    BY <1>3, QuietClient DEF AcquireConflict, TypeOK, Phases, WorkerInv, DownInv, RunPhases
  <1>4. CASE UninstallNothing(c)
    BY <1>4, QuietClient DEF UninstallNothing, TypeOK, Phases, WorkerInv, DownInv, RunPhases
  <1>5. CASE HolderExits(c)
    <2> USE <1>5 DEF HolderExits
    <2>1. TypeOK' /\ WorkerInv' /\ DownInv'
      <3>1. CASE mode = "down"
        <4>1. /\ pc' = [pc EXCEPT ![c] = "idle"]
              /\ want' = [want EXCEPT ![c] = NoSession]
          BY <3>1
        <4>2. TypeOK'
          BY <4>1 DEF TypeOK, Phases
        <4>3. WorkerInv' /\ DownInv'
          BY <4>1 DEF TypeOK, WorkerInv, DownInv
        <4> QED
          BY <4>2, <4>3
      <3>2. CASE mode # "down"
        BY <3>2 DEF TypeOK, Phases, WorkerInv, DownInv
      <3> QED
        BY <3>1, <3>2
    <2>2. \A d \in Clients : d # c => pc'[d] = pc[d] /\ want'[d] = want[d]
      BY DEF TypeOK
    <2>3. pc'[c] \in {"idle", "uninstall"}
      BY DEF TypeOK
    <2> QED
      BY <2>1, <2>2, <2>3, QuietClient DEF RunPhases
  <1>6. CASE HolderKilled(c)
    BY <1>6, QuietClient DEF HolderKilled, TypeOK, Phases, WorkerInv, DownInv, RunPhases
  <1>7. CASE LooseAgentExits(c)
    BY <1>7, QuietClient DEF LooseAgentExits, TypeOK, Phases, WorkerInv, DownInv, RunPhases
  <1> QED
    BY <1>1, <1>2, <1>3, <1>4, <1>5, <1>6, <1>7
-------------------------------------------------------------------------------
(* The agent of a run request: its worker keeps its reference.              *)

LEMMA AgentStep ==
  ASSUME IndInv, NEW c \in Clients, Spawn(c) \/ SpawnFails(c) \/ AgentExits(c)
  PROVE  IndInv'
  <1> USE DEF IndInv, Goto
  <1>1. /\ pc[c] \in RunPhases
        /\ \E p \in RunPhases : pc' = [pc EXCEPT ![c] = p]
        /\ UNCHANGED <<mode, lock, sess, refcount, chain, want>>
    BY DEF Spawn, SpawnFails, AgentExits, RunPhases
  <1>2. TypeOK'
    BY <1>1 DEF Spawn, SpawnFails, AgentExits, TypeOK, RunPhases, Phases
  <1>3. \A d \in Clients : (pc[d] \in RunPhases /\ pc'[d] \in RunPhases) \/ pc'[d] = pc[d]
    BY <1>1 DEF TypeOK
  <1>4. LockInv' /\ CountInv' /\ WorkerInv' /\ HolderInv' /\ DownInv'
    BY <1>1, <1>3
    DEF LockInv, CountInv, WorkerInv, HolderInv, DownInv, RunPhases
  <1>5. \A u \in Uids : RunHolders(u)' = RunHolders(u)
    BY <1>1, <1>3 DEF RunHolders, RunPhases
  <1>6. SessionMeansRules' /\ RefcountIsHolders'
    BY <1>1, <1>5 DEF SessionMeansRules, RefcountIsHolders
  <1> QED
    BY <1>2, <1>4, <1>6

-------------------------------------------------------------------------------
(* The worker that runs firewall commands: its user has no entry, so what   *)
(* becomes of the chain meanwhile is nobody's.                              *)

LEMMA FirewallStep ==
  ASSUME IndInv, NEW c \in Clients,
         AcquireInstall(c) \/ InstallFails(c) \/ TeardownDone(c)
  PROVE  IndInv'
  <1> USE DEF IndInv
  <1>1. /\ sess[UidOf[c]] = NoSession
        /\ want[c] \in RuleSet
        /\ UNCHANGED <<mode, sess, refcount, agent>>
        /\ \E v \in {NoRules, Partial} :
              chain' = [chain EXCEPT ![UidOf[c]][want[c].scope] = v]
    BY DEF AcquireInstall, InstallFails, TeardownDone, Entry, WorkerInv,
           SetChain, CleanupOutcomes
  <1>2. \/ /\ pc[c] = "request" /\ lock = NoOwner /\ lock' = c
           /\ pc' = [pc EXCEPT ![c] = "installing"] /\ want' = want
        \/ /\ pc[c] \in {"installing", "tearing"} /\ lock' = NoOwner
           /\ pc' = [pc EXCEPT ![c] = "idle"] /\ want' = [want EXCEPT ![c] = NoSession]
    BY DEF AcquireInstall, InstallFails, TeardownDone, Goto, Done, Unlock
  <1>3. TypeOK'
    <2>1. UidOf[c] \in Uids /\ want[c].scope \in Scopes
      BY <1>1, ClientsAssumption DEF RuleSet
    <2>2. chain' \in [Uids -> [Scopes -> Variants \cup {NoRules, Partial}]]
      BY <1>1, <2>1 DEF TypeOK
    <2> QED
      BY <1>1, <1>2, <2>2 DEF TypeOK, Phases
  <1>4. LockInv'
    BY <1>2, <1>1, SentinelAssumption DEF LockInv, TypeOK
  <1>5. CountInv' /\ DownInv'
    BY <1>1, <1>2 DEF CountInv, DownInv, TypeOK
  <1>6. WorkerInv' /\ HolderInv'
    BY <1>1, <1>2 DEF WorkerInv, HolderInv, TypeOK
  <1>7. SessionMeansRules'
    BY <1>1 DEF SessionMeansRules, TypeOK
  <1>8. \A u \in Uids : RunHolders(u)' = RunHolders(u)
    BY <1>2 DEF RunHolders, TypeOK
  <1>9. RefcountIsHolders'
    BY <1>1, <1>8 DEF RefcountIsHolders
  <1> QED
    BY <1>3, <1>4, <1>5, <1>6, <1>7, <1>9
-------------------------------------------------------------------------------
(* Gaining a reference.                                                     *)

\* Who is granted a session: the owner of a run session, or a launcher.
LEMMA GrantedPhase ==
  ASSUME NEW c \in Clients, TypeOK, Granted(c)
  PROVE  /\ want[c].scope = "group" => pc' = [pc EXCEPT ![c] = "spawn"]
         /\ want[c].scope # "group" => pc' = [pc EXCEPT ![c] = "holding"]
         /\ agent' \in [Clients -> {"none", "live", "orphan"}]
  BY DEF Granted, Goto, TypeOK

\* One more owner: the set of owners grows by c, and its size by one.
LEMMA RunHoldersGrow ==
  ASSUME TypeOK, NEW c \in Clients, pc[c] \notin RunPhases,
         pc' = [pc EXCEPT ![c] = "spawn"]
  PROVE  /\ \A u \in Uids : u # UidOf[c] => RunHolders(u)' = RunHolders(u)
         /\ RunHolders(UidOf[c])' = RunHolders(UidOf[c]) \cup {c}
         /\ Cardinality(RunHolders(UidOf[c])') = Cardinality(RunHolders(UidOf[c])) + 1
  <1>1. \A u \in Uids : u # UidOf[c] => RunHolders(u)' = RunHolders(u)
    BY DEF RunHolders, TypeOK
  <1>2. RunHolders(UidOf[c])' = RunHolders(UidOf[c]) \cup {c}
    BY DEF RunHolders, TypeOK
  <1>3. c \notin RunHolders(UidOf[c])
    BY DEF RunHolders, RunPhases
  <1>4. IsFiniteSet(RunHolders(UidOf[c]))
    BY RunHoldersFinite, ClientsAssumption
  <1>5. Cardinality(RunHolders(UidOf[c]) \cup {c}) = Cardinality(RunHolders(UidOf[c])) + 1
    BY <1>3, <1>4, FS_AddElement
  <1> QED
    BY <1>1, <1>2, <1>5

LEMMA JoinStep ==
  ASSUME IndInv, NEW c \in Clients, AcquireJoin(c)
  PROVE  IndInv'
  <1> DEFINE u == UidOf[c]
  <1> USE DEF IndInv
  <1>1. /\ u \in Uids /\ pc[c] = "request" /\ want[c] \in RuleSet
        /\ sess[u] = want[c] /\ lock = NoOwner
        /\ refcount[u] \in Nat
        /\ refcount' = [refcount EXCEPT ![u] = refcount[u] + 1]
        /\ UNCHANGED <<mode, lock, sess, chain, want>>
    BY ClientsAssumption
    DEF AcquireJoin, Compatible, Entry, Joined, WorkerInv, TypeOK
  <1>2. /\ want[c].scope = "group" => pc' = [pc EXCEPT ![c] = "spawn"]
        /\ want[c].scope # "group" => pc' = [pc EXCEPT ![c] = "holding"]
        /\ agent' \in [Clients -> {"none", "live", "orphan"}]
    BY GrantedPhase DEF AcquireJoin
  <1>3. TypeOK'
    BY <1>1, <1>2 DEF TypeOK, Phases
  <1>4. LockInv' /\ DownInv'
    BY <1>1, <1>2 DEF LockInv, DownInv, TypeOK
  <1>5. CountInv'
    <2>1. sess[u] # NoSession
      BY <1>1, SentinelAssumption
    <2> QED
      BY <1>1, <2>1 DEF CountInv, TypeOK
  <1>6. WorkerInv' /\ HolderInv'
    BY <1>1, <1>2 DEF WorkerInv, HolderInv, TypeOK
  <1>7. SessionMeansRules'
    BY <1>1 DEF SessionMeansRules
  <1>8. RefcountIsHolders'
    <2>1. CASE want[c].scope = "group"
      <3>1. pc[c] \notin RunPhases /\ pc' = [pc EXCEPT ![c] = "spawn"]
        BY <1>1, <1>2, <2>1 DEF RunPhases
      <3>2. \A v \in Uids : v # u => RunHolders(v)' = RunHolders(v)
        BY <3>1, RunHoldersGrow
      <3>3. Cardinality(RunHolders(u)') = Cardinality(RunHolders(u)) + 1
        BY <3>1, RunHoldersGrow
      <3>4. mode = "up" => refcount[u] = Cardinality(RunHolders(u))
        BY <1>1, <2>1, SentinelAssumption DEF RefcountIsHolders
      <3>5. mode' = "up" => refcount'[u] = Cardinality(RunHolders(u)')
        BY <1>1, <3>3, <3>4 DEF TypeOK
      <3> QED
        BY <1>1, <3>2, <3>5 DEF RefcountIsHolders, TypeOK
    <2>2. CASE want[c].scope # "group"
      <3>1. \A v \in Uids : RunHolders(v)' = RunHolders(v)
        BY <1>1, <1>2, <2>2 DEF RunHolders, TypeOK
      <3> QED
        BY <1>1, <2>2, <3>1 DEF RefcountIsHolders, TypeOK
    <2> QED
      BY <2>1, <2>2
  <1> QED
    BY <1>3, <1>4, <1>5, <1>6, <1>7, <1>8

LEMMA InstallStep ==
  ASSUME IndInv, NEW c \in Clients, InstallOk(c)
  PROVE  IndInv'
  <1> DEFINE u == UidOf[c]
  <1> USE DEF IndInv
  <1>1. /\ u \in Uids /\ pc[c] = "installing" /\ lock = c
        /\ want[c] \in RuleSet /\ want[c].scope \in Scopes /\ want[c].variant \in Variants
        /\ sess[u] = NoSession
        /\ lock' = NoOwner
        /\ sess' = [sess EXCEPT ![u] = want[c]]
        /\ refcount' = [refcount EXCEPT ![u] = 1]
        /\ chain' = [chain EXCEPT ![u][want[c].scope] = want[c].variant]
        /\ UNCHANGED <<mode, want>>
    BY ClientsAssumption
    DEF InstallOk, SetChain, Unlock, WorkerInv, LockInv, RuleSet
  <1>2. /\ want[c].scope = "group" => pc' = [pc EXCEPT ![c] = "spawn"]
        /\ want[c].scope # "group" => pc' = [pc EXCEPT ![c] = "holding"]
        /\ agent' \in [Clients -> {"none", "live", "orphan"}]
    BY GrantedPhase DEF InstallOk
  <1>3. TypeOK'
    <2>1. chain' \in [Uids -> [Scopes -> Variants \cup {NoRules, Partial}]]
      BY <1>1 DEF TypeOK
    <2> QED
      BY <1>1, <1>2, <2>1 DEF TypeOK, Phases
  <1>4. LockInv' /\ DownInv'
    BY <1>1, <1>2, SentinelAssumption DEF LockInv, DownInv, TypeOK
  <1>5. CountInv'
    BY <1>1, SentinelAssumption DEF CountInv, TypeOK
  <1>6. WorkerInv'
    <2>1. \A d \in Clients : d # c => pc[d] \notin {"installing", "tearing"}
      BY <1>1 DEF LockInv
    <2> QED
      BY <1>1, <1>2, <2>1 DEF WorkerInv, TypeOK
  <1>7. mode = "up" => RunHolders(u) = {}
    BY <1>1, SentinelAssumption DEF RunHolders, HolderInv, WorkerInv
  <1>8. HolderInv'
    <2> SUFFICES ASSUME mode = "up", NEW d \in Clients, pc'[d] \in RunPhases
                 PROVE  sess'[UidOf[d]] = want[d]
      BY <1>1 DEF HolderInv, RunPhases
    <2>1. CASE d = c
      BY <1>1, <2>1 DEF TypeOK
    <2>2. CASE d # c
      <3>1. pc[d] \in RunPhases
        BY <1>2, <2>2 DEF TypeOK
      <3>2. UidOf[d] # u
        BY <1>7, <3>1 DEF RunHolders, RunPhases
      <3> QED
        BY <1>1, <3>1, <3>2 DEF HolderInv, TypeOK, RunPhases
    <2> QED
      BY <2>1, <2>2
  <1>9. SessionMeansRules'
    BY <1>1 DEF SessionMeansRules, TypeOK
  <1>10. RefcountIsHolders'
    <2>1. CASE want[c].scope = "group"
      <3>1. pc[c] \notin RunPhases /\ pc' = [pc EXCEPT ![c] = "spawn"]
        BY <1>1, <1>2, <2>1 DEF RunPhases
      <3>2. \A v \in Uids : v # u => RunHolders(v)' = RunHolders(v)
        BY <3>1, RunHoldersGrow
      <3>3. Cardinality(RunHolders(u)') = Cardinality(RunHolders(u)) + 1
        BY <3>1, RunHoldersGrow
      <3>4. mode = "up" => Cardinality(RunHolders(u)') = 1
        BY <1>7, <3>3, FS_EmptySet
      <3> QED
        BY <1>1, <3>2, <3>4 DEF RefcountIsHolders, TypeOK
    <2>2. CASE want[c].scope # "group"
      <3>1. \A v \in Uids : RunHolders(v)' = RunHolders(v)
        BY <1>1, <1>2, <2>2 DEF RunHolders, TypeOK
      <3> QED
        BY <1>1, <2>2, <3>1 DEF RefcountIsHolders, TypeOK
    <2> QED
      BY <2>1, <2>2
  <1> QED
    BY <1>3, <1>4, <1>5, <1>6, <1>8, <1>9, <1>10
-------------------------------------------------------------------------------
(* Giving a reference back.                                                 *)

\* One owner less: the set of owners shrinks by c, and its size by one.
LEMMA RunHoldersShrink ==
  ASSUME TypeOK, NEW c \in Clients, pc[c] \in RunPhases,
         NEW p \in Phases \ RunPhases, pc' = [pc EXCEPT ![c] = p]
  PROVE  /\ \A u \in Uids : u # UidOf[c] => RunHolders(u)' = RunHolders(u)
         /\ Cardinality(RunHolders(UidOf[c])') = Cardinality(RunHolders(UidOf[c])) - 1
  <1>1. \A u \in Uids : u # UidOf[c] => RunHolders(u)' = RunHolders(u)
    BY DEF RunHolders, TypeOK
  <1>2. RunHolders(UidOf[c])' = RunHolders(UidOf[c]) \ {c}
    BY DEF RunHolders, TypeOK, RunPhases
  <1>3. c \in RunHolders(UidOf[c])
    BY DEF RunHolders, RunPhases
  <1>4. IsFiniteSet(RunHolders(UidOf[c]))
    BY RunHoldersFinite, ClientsAssumption
  <1>5. Cardinality(RunHolders(UidOf[c]) \ {c}) = Cardinality(RunHolders(UidOf[c])) - 1
    BY <1>3, <1>4, FS_RemoveElement
  <1> QED
    BY <1>1, <1>2, <1>5

\* The owner of the only reference is the only owner.
LEMMA LastOwner ==
  ASSUME IndInv, mode = "up", NEW c \in Clients, pc[c] \in RunPhases,
         refcount[UidOf[c]] = 1
  PROVE  RunHolders(UidOf[c]) = {c}
  <1> DEFINE u == UidOf[c]
  <1>1. sess[u] = want[c] /\ want[c] \in RuleSet /\ want[c].scope = "group"
    BY DEF IndInv, HolderInv, WorkerInv, RunPhases
  <1>2. Cardinality(RunHolders(u)) = 1
    BY <1>1, ClientsAssumption, SentinelAssumption DEF IndInv, RefcountIsHolders
  <1>3. c \in RunHolders(u)
    BY DEF RunHolders, RunPhases
  <1>4. PICK x : RunHolders(u) = {x}
    BY <1>2, RunHoldersFinite, ClientsAssumption, FS_Singleton
  <1> QED
    BY <1>3, <1>4

\* A step that drops the last reference of c's user: the entry is gone, the
\* worker owns the mutex and the rules are being taken down.
LEMMA LastReleaseStep ==
  ASSUME IndInv, NEW c \in Clients,
         lock = NoOwner, sess[UidOf[c]] \in RuleSet,
         pc[c] \notin {"installing", "tearing"},
         mode = "up" => RunHolders(UidOf[c]) \subseteq {c},
         mode # "down",
         refcount' = [refcount EXCEPT ![UidOf[c]] = 0],
         sess' = [sess EXCEPT ![UidOf[c]] = NoSession],
         chain' = [chain EXCEPT ![UidOf[c]][sess[UidOf[c]].scope] = Partial],
         want' = [want EXCEPT ![c] = sess[UidOf[c]]],
         lock' = c,
         pc' = [pc EXCEPT ![c] = "tearing"],
         UNCHANGED <<mode, agent>>
  PROVE  IndInv'
  <1> DEFINE u == UidOf[c]
  <1> USE DEF IndInv
  <1>1. u \in Uids /\ sess[u].scope \in Scopes
    BY ClientsAssumption DEF RuleSet
  <1>2. TypeOK'
    <2>1. chain' \in [Uids -> [Scopes -> Variants \cup {NoRules, Partial}]]
      BY <1>1 DEF TypeOK
    <2> QED
      BY <1>1, <2>1 DEF TypeOK, Phases
  <1>3. LockInv' /\ DownInv'
    BY SentinelAssumption DEF LockInv, DownInv, TypeOK
  <1>4. CountInv'
    BY <1>1 DEF CountInv, TypeOK
  <1>5. WorkerInv'
    BY <1>1 DEF WorkerInv, TypeOK
  <1>6. HolderInv'
    <2> SUFFICES ASSUME mode = "up", NEW d \in Clients, pc'[d] \in RunPhases
                 PROVE  sess'[UidOf[d]] = want'[d]
      BY DEF HolderInv, RunPhases
    <2>1. d # c /\ pc[d] \in RunPhases
      BY DEF TypeOK, RunPhases
    <2>2. UidOf[d] # u
      BY <2>1 DEF RunHolders, RunPhases
    <2> QED
      BY <2>1, <2>2, <1>1 DEF HolderInv, TypeOK, RunPhases
  <1>7. SessionMeansRules'
    BY <1>1 DEF SessionMeansRules, TypeOK
  <1>8. RefcountIsHolders'
    <2>1. \A v \in Uids : v # u => RunHolders(v)' = RunHolders(v)
      BY DEF RunHolders, TypeOK
    <2> QED
      BY <1>1, <2>1 DEF RefcountIsHolders, TypeOK
  <1> QED
    BY <1>2, <1>3, <1>4, <1>5, <1>6, <1>7, <1>8

\* A step that drops a reference of c's user and leaves others.
LEMMA EarlierReleaseStep ==
  ASSUME IndInv, NEW c \in Clients,
         lock = NoOwner, sess[UidOf[c]] \in RuleSet, mode # "down",
         \/ pc[c] \in RunPhases
         \/ pc[c] = "uninstall" /\ sess[UidOf[c]].scope # "group",
         refcount[UidOf[c]] # 1,
         refcount' = [refcount EXCEPT ![UidOf[c]] = @ - 1],
         want' = [want EXCEPT ![c] = NoSession],
         pc' = [pc EXCEPT ![c] = "idle"],
         UNCHANGED <<mode, lock, sess, chain, agent>>
  PROVE  IndInv'
  <1> DEFINE u == UidOf[c]
  <1> USE DEF IndInv
  <1>1. u \in Uids /\ refcount[u] \in Nat /\ refcount[u] # 0 /\ sess[u] # NoSession
    BY ClientsAssumption, SentinelAssumption DEF CountInv, TypeOK
  <1>2. refcount[u] - 1 \in Nat \ {0}
    BY <1>1
  <1>3. TypeOK'
    BY <1>1, <1>2 DEF TypeOK, Phases
  <1>4. CountInv'
    BY <1>1, <1>2 DEF CountInv, TypeOK
  <1>5. LockInv' /\ WorkerInv' /\ HolderInv' /\ DownInv'
    BY DEF LockInv, WorkerInv, HolderInv, DownInv, TypeOK, RunPhases
  <1>6. SessionMeansRules'
    BY DEF SessionMeansRules
  <1>7. RefcountIsHolders'
    <2>1. CASE pc[c] \in RunPhases
      <3>1. \A v \in Uids : v # u => RunHolders(v)' = RunHolders(v)
        BY <2>1, RunHoldersShrink DEF Phases, RunPhases
      <3>2. Cardinality(RunHolders(u)') = Cardinality(RunHolders(u)) - 1
        BY <2>1, RunHoldersShrink DEF Phases, RunPhases
      <3>3. refcount' = [refcount EXCEPT ![u] = refcount[u] - 1]
        OBVIOUS
      <3> QED
        BY <1>1, <3>1, <3>2, <3>3 DEF RefcountIsHolders, TypeOK
    <2>2. CASE pc[c] = "uninstall" /\ sess[u].scope # "group"
      <3>1. \A v \in Uids : RunHolders(v)' = RunHolders(v)
        BY <2>2 DEF RunHolders, TypeOK
      <3> QED
        BY <1>1, <2>2, <3>1 DEF RefcountIsHolders, TypeOK
    <2> QED
      BY <2>1, <2>2
  <1> QED
    BY <1>3, <1>4, <1>5, <1>6, <1>7

LEMMA ReleaseStep ==
  ASSUME IndInv, NEW c \in Clients,
         ReleaseNothing(c) \/ ReleaseSession(c) \/ Uninstall(c)
  PROVE  IndInv'
  <1> DEFINE u == UidOf[c]
  <1>1. CASE ReleaseNothing(c)
    <2>1. /\ pc[c] = "release" /\ sess[u] = NoSession
          /\ pc' = [pc EXCEPT ![c] = "idle"]
          /\ want' = [want EXCEPT ![c] = NoSession]
          /\ UNCHANGED <<mode, lock, sess, refcount, chain, agent>>
      BY <1>1 DEF ReleaseNothing, Entry, Done, Goto
    <2>2. mode # "up"
      BY <2>1, SentinelAssumption DEF IndInv, HolderInv, WorkerInv
    <2> QED
      BY <2>1, <2>2
      DEF IndInv, TypeOK, Phases, LockInv, CountInv, WorkerInv, HolderInv,
          DownInv, SessionMeansRules, RefcountIsHolders
  <1>2. CASE ReleaseSession(c) \/ Uninstall(c)
    <2>1. /\ lock = NoOwner /\ sess[u] \in RuleSet /\ UNCHANGED <<mode, agent>>
          /\ \/ pc[c] \in RunPhases
             \/ pc[c] = "uninstall" /\ sess[u].scope # "group"
          /\ DropReference(c, u)
      BY <1>2, ClientsAssumption
      DEF IndInv, TypeOK, ReleaseSession, Uninstall, Entry, Uninstallable, RunPhases
    <2>2. mode # "down"
      BY <2>1 DEF IndInv, DownInv, RunPhases
    <2>3. CASE refcount[u] = 1
      <3>1. mode = "up" => RunHolders(u) \subseteq {c}
        <4>1. CASE pc[c] \in RunPhases
          BY <2>3, <4>1, LastOwner
        <4>2. CASE sess[u].scope # "group"
          BY <4>2 DEF IndInv, HolderInv, WorkerInv, RunHolders
        <4> QED
          BY <2>1, <4>1, <4>2
      <3>2. pc[c] \notin {"installing", "tearing"}
        BY <2>1 DEF RunPhases
      <3> QED
        BY <2>1, <2>2, <2>3, <3>1, <3>2, LastReleaseStep
        DEF DropReference, LastReference, SetChain, Goto
    <2>4. CASE refcount[u] # 1
      BY <2>1, <2>2, <2>4, EarlierReleaseStep
      DEF DropReference, LastReference, Done, Goto
    <2> QED
      BY <2>3, <2>4
  <1> QED
    BY <1>1, <1>2
-------------------------------------------------------------------------------
(* Shutdown, death and restart of the process.                              *)

LEMMA ShutdownStep ==
  ASSUME IndInv, Signal \/ TeardownAllBegin \/ TeardownAllEnd
  PROVE  IndInv'
  <1> USE DEF IndInv
  <1>1. UNCHANGED <<sess, refcount, chain, pc, want, agent>>
    BY DEF Signal, TeardownAllBegin, TeardownAllEnd
  <1>2. \/ mode' = "stopping" /\ lock' = lock /\ lock # ShutdownThread
        \/ mode' = "stopping" /\ lock = NoOwner /\ lock' = ShutdownThread
        \/ mode' = "torn" /\ lock = ShutdownThread /\ lock' = NoOwner
    BY DEF Signal, TeardownAllBegin, TeardownAllEnd, Unlock, LockInv
  <1>3. TypeOK'
    BY <1>1, <1>2 DEF TypeOK, Modes
  <1>4. LockInv'
    BY <1>1, <1>2, SentinelAssumption DEF LockInv
  <1>5. CountInv' /\ WorkerInv' /\ HolderInv' /\ DownInv'
    BY <1>1, <1>2 DEF CountInv, WorkerInv, HolderInv, DownInv
  <1>6. SessionMeansRules' /\ RefcountIsHolders'
    BY <1>1, <1>2 DEF SessionMeansRules, RefcountIsHolders
  <1> QED
    BY <1>3, <1>4, <1>5, <1>6

LEMMA TeardownOneStep ==
  ASSUME IndInv, NEW u \in Uids, TeardownOne(u)
  PROVE  IndInv'
  <1> USE DEF IndInv
  <1>1. /\ mode = "stopping" /\ sess[u] \in RuleSet /\ sess[u].scope \in Scopes
        /\ \E v \in {NoRules, Partial} :
              chain' = [chain EXCEPT ![u][sess[u].scope] = v]
        /\ sess' = [sess EXCEPT ![u] = NoSession]
        /\ refcount' = [refcount EXCEPT ![u] = 0]
        /\ UNCHANGED <<mode, lock, pc, want, agent>>
    BY DEF TeardownOne, SetChain, CleanupOutcomes, LockInv, TypeOK, RuleSet
  <1>2. TypeOK'
    <2>1. chain' \in [Uids -> [Scopes -> Variants \cup {NoRules, Partial}]]
      BY <1>1 DEF TypeOK
    <2> QED
      BY <1>1, <2>1 DEF TypeOK
  <1>3. LockInv' /\ CountInv' /\ WorkerInv' /\ HolderInv' /\ DownInv'
    BY <1>1, ClientsAssumption
    DEF LockInv, CountInv, WorkerInv, HolderInv, DownInv, TypeOK
  <1>4. SessionMeansRules' /\ RefcountIsHolders'
    BY <1>1 DEF SessionMeansRules, RefcountIsHolders, TypeOK
  <1> QED
    BY <1>2, <1>3, <1>4

\* Whatever the process was doing, its end leaves no map, no workers and no
\* owner of the mutex.
LEMMA ProcessEndsStep ==
  ASSUME IndInv, ProcessEnds
  PROVE  IndInv'
  <1> USE DEF IndInv, ProcessEnds
  <1>1. TypeOK'
    <2>1. pc' \in [Clients -> Phases]
      BY DEF TypeOK, Phases
    <2>2. want' \in [Clients -> RuleSet \cup {NoSession}]
      BY DEF TypeOK
    <2>3. agent' \in [Clients -> {"none", "live", "orphan"}]
      BY DEF TypeOK
    <2> QED
      BY <2>1, <2>2, <2>3 DEF TypeOK, Modes
  <1>2. LockInv' /\ CountInv'
    BY SentinelAssumption DEF LockInv, CountInv
  <1>3. WorkerInv' /\ HolderInv' /\ DownInv'
    BY DEF WorkerInv, HolderInv, DownInv
  <1>4. SessionMeansRules' /\ RefcountIsHolders'
    BY DEF SessionMeansRules, RefcountIsHolders
  <1> QED
    BY <1>1, <1>2, <1>3, <1>4

LEMMA RestartStep ==
  ASSUME IndInv, Restart
  PROVE  IndInv'
  <1> USE DEF IndInv
  <1>1. /\ mode = "down" /\ mode' = "up"
        /\ \A u \in Uids : sess[u] = NoSession
        /\ \A c \in Clients : pc[c] \in {"idle", "holding", "leaked"}
        /\ UNCHANGED <<lock, sess, refcount, pc, want, agent>>
    BY DEF Restart, DownInv
  <1>2. PICK kept : chain' = [u \in Uids |-> [s \in Scopes |->
                       IF <<u, s>> \in kept THEN chain[u][s] ELSE NoRules]]
    BY DEF Restart
  <1>3. TypeOK'
    BY <1>1, <1>2 DEF TypeOK, Modes
  <1>4. LockInv' /\ CountInv' /\ WorkerInv' /\ HolderInv' /\ DownInv'
    BY <1>1 DEF LockInv, CountInv, WorkerInv, HolderInv, DownInv
  <1>5. SessionMeansRules' /\ RefcountIsHolders'
    BY <1>1 DEF SessionMeansRules, RefcountIsHolders
  <1> QED
    BY <1>3, <1>4, <1>5

-------------------------------------------------------------------------------
LEMMA NextInv == IndInv /\ [Next]_vars => IndInv'
  <1> SUFFICES ASSUME IndInv, [Next]_vars PROVE IndInv'
    OBVIOUS
  <1>1. ASSUME NEW c \in Clients, Worker(c) PROVE IndInv'
    BY <1>1, QuietStep, AgentStep, FirewallStep, JoinStep, InstallStep, ReleaseStep
    DEF Worker
  <1>2. ASSUME NEW c \in Clients, Environment(c) PROVE IndInv'
    BY <1>2, QuietStep, AgentStep DEF Environment
  <1>3. CASE Shutdown
    BY <1>3, ShutdownStep, TeardownOneStep, ProcessEndsStep DEF Shutdown, Exit
  <1>4. CASE Signal \/ Killed \/ Restart
    BY <1>4, ShutdownStep, ProcessEndsStep, RestartStep DEF Killed
  <1>5. CASE UNCHANGED vars
    BY <1>5
    DEF vars, IndInv, TypeOK, LockInv, CountInv, WorkerInv, HolderInv, DownInv,
        SessionMeansRules, RefcountIsHolders, RunHolders
  <1> QED
    BY <1>1, <1>2, <1>3, <1>4, <1>5 DEF Next

\* The inductive invariant holds in every reachable state.
THEOREM Invariance == Spec => []IndInv
  BY InitInv, NextInv, PTL DEF Spec

\* Every variable stays within its type.
THEOREM TypeCorrect == Spec => []TypeOK
  BY Invariance, PTL DEF IndInv

\* The count of a run session is the number of workers that will release it.
THEOREM RefcountCorrect == Spec => []RefcountIsHolders
  BY Invariance, PTL DEF IndInv

\* An entry of the session map is never trusted without its rules.
THEOREM SessionCorrect == Spec => []SessionMeansRules
  BY Invariance, PTL DEF IndInv

\* While the helper serves, every agent it runs is confined by its own rules.
THEOREM AgentsGuarded == Spec => []RunAgentsGuarded
  <1>1. IndInv => RunAgentsGuarded
    BY ClientsAssumption, SentinelAssumption
    DEF IndInv, RunAgentsGuarded, HolderInv, WorkerInv, SessionMeansRules
  <1> QED
    BY <1>1, Invariance, PTL
-------------------------------------------------------------------------------
(* A helper whose cleanup commands work leaves no chain behind.             *)

\* A chain is there for an entry of the map, or for the worker that is just
\* putting it in place or taking it down.
Accounted(u, s) ==
  \/ sess[u] # NoSession /\ sess[u].scope = s
  \/ \E c \in Clients : /\ pc[c] \in {"installing", "tearing"}
                        /\ UidOf[c] = u /\ want[c].scope = s

ResidueInv ==
  mode # "down" =>
    \A u \in Uids, s \in Scopes : chain[u][s] # NoRules => Accounted(u, s)

\* A worker that does not hold the mutex leaves the chains alone, and the
\* entries but for their counts.
LEMMA ResidueKept ==
  ASSUME IndInv, ResidueInv, mode' = mode, chain' = chain, sess' = sess, NEW c \in Clients,
         pc[c] \notin {"installing", "tearing"},
         \A d \in Clients : d # c => pc'[d] = pc[d] /\ want'[d] = want[d]
  PROVE  ResidueInv'
  <1> SUFFICES ASSUME mode # "down", NEW u \in Uids, NEW s \in Scopes, chain[u][s] # NoRules
               PROVE  Accounted(u, s)'
    BY DEF ResidueInv
  <1>1. Accounted(u, s)
    BY DEF ResidueInv
  <1> QED
    BY <1>1 DEF Accounted

LEMMA ResidueWorker ==
  ASSUME ~CleanupFaults, IndInv, ResidueInv, NEW c \in Clients, Worker(c)
  PROVE  ResidueInv'
  <1> DEFINE u0 == UidOf[c]
  <1>0. /\ u0 \in Uids /\ chain \in [Uids -> [Scopes -> Variants \cup {NoRules, Partial}]]
        /\ sess \in [Uids -> RuleSet \cup {NoSession}] /\ pc \in [Clients -> Phases]
        /\ want \in [Clients -> RuleSet \cup {NoSession}]
    BY ClientsAssumption DEF IndInv, TypeOK
  <1>1. CASE \/ AcquireConflict(c) \/ AcquireJoin(c) \/ Spawn(c) \/ SpawnFails(c)
             \/ ReleaseNothing(c) \/ UninstallNothing(c)
    <2>1. /\ UNCHANGED <<mode, chain, sess>> /\ pc[c] \notin {"installing", "tearing"}
          /\ \A d \in Clients : d # c => pc'[d] = pc[d] /\ want'[d] = want[d]
      BY <1>0, <1>1 DEF AcquireConflict, AcquireJoin, Spawn, SpawnFails, ReleaseNothing,
                       UninstallNothing, Granted, Goto, Done
    <2> QED
      BY <2>1, ResidueKept
  <1>2. CASE AcquireInstall(c)
    <2>1. /\ chain' = [chain EXCEPT ![u0][want[c].scope] = Partial]
          /\ pc[c] = "request" /\ pc' = [pc EXCEPT ![c] = "installing"]
          /\ UNCHANGED <<mode, sess, want>>
      BY <1>2 DEF AcquireInstall, SetChain, Goto
    <2> SUFFICES ASSUME mode # "down", NEW u \in Uids, NEW s \in Scopes, chain'[u][s] # NoRules
                 PROVE  Accounted(u, s)'
      BY <2>1 DEF ResidueInv
    <2>2. CASE u = u0 /\ s = want[c].scope
      BY <1>0, <2>1, <2>2 DEF Accounted
    <2>3. CASE ~ (u = u0 /\ s = want[c].scope)
      <3>1. Accounted(u, s)
        BY <1>0, <2>1, <2>3 DEF ResidueInv
      <3> QED
        BY <1>0, <2>1, <3>1 DEF Accounted
    <2> QED
      BY <2>2, <2>3
  <1>3. CASE InstallOk(c)
    <2>1. /\ chain' = [chain EXCEPT ![u0][want[c].scope] = want[c].variant]
          /\ sess' = [sess EXCEPT ![u0] = want[c]] /\ want' = want /\ mode' = mode
          /\ pc[c] = "installing" /\ want[c] \in RuleSet /\ want[c] # NoSession
          /\ sess[u0] = NoSession
          /\ \A d \in Clients : d # c => pc'[d] = pc[d]
      BY <1>0, <1>3, SentinelAssumption
      DEF InstallOk, SetChain, Granted, Goto, IndInv, WorkerInv
    <2> SUFFICES ASSUME mode # "down", NEW u \in Uids, NEW s \in Scopes, chain'[u][s] # NoRules
                 PROVE  Accounted(u, s)'
      BY <2>1 DEF ResidueInv
    <2>2. CASE u = u0 /\ s = want[c].scope
      BY <1>0, <2>1, <2>2 DEF Accounted
    <2>3. CASE ~ (u = u0 /\ s = want[c].scope)
      <3>1. Accounted(u, s)
        BY <1>0, <2>1, <2>3 DEF ResidueInv
      <3> QED
        BY <1>0, <2>1, <2>3, <3>1 DEF Accounted
    <2> QED
      BY <2>2, <2>3
  <1>4. CASE InstallFails(c) \/ TeardownDone(c)
    <2>1. /\ chain' = [chain EXCEPT ![u0][want[c].scope] = NoRules]
          /\ sess' = sess /\ mode' = mode /\ want[c].scope \in Scopes
          /\ \A d \in Clients : d # c => pc'[d] = pc[d] /\ want'[d] = want[d]
      BY <1>0, <1>4
      DEF InstallFails, TeardownDone, SetChain, CleanupOutcomes, Done, Goto, IndInv, WorkerInv,
          RuleSet
    <2> SUFFICES ASSUME mode # "down", NEW u \in Uids, NEW s \in Scopes, chain'[u][s] # NoRules
                 PROVE  Accounted(u, s)'
      BY <2>1 DEF ResidueInv
    <2>2. ~ (u = u0 /\ s = want[c].scope)
      BY <1>0, <2>1
    <2>3. Accounted(u, s)
      BY <1>0, <2>1, <2>2 DEF ResidueInv
    <2> QED
      BY <2>1, <2>2, <2>3 DEF Accounted
  <1>5. CASE (ReleaseSession(c) \/ Uninstall(c)) /\ ~LastReference(u0)
    <2>1. /\ UNCHANGED <<mode, chain, sess>> /\ pc[c] \notin {"installing", "tearing"}
          /\ \A d \in Clients : d # c => pc'[d] = pc[d] /\ want'[d] = want[d]
      BY <1>0, <1>5 DEF ReleaseSession, Uninstall, DropReference, Goto, Done
    <2> QED
      BY <2>1, ResidueKept
  <1>6. CASE (ReleaseSession(c) \/ Uninstall(c)) /\ LastReference(u0)
    <2>1. /\ chain' = [chain EXCEPT ![u0][sess[u0].scope] = Partial]
          /\ sess' = [sess EXCEPT ![u0] = NoSession] /\ mode' = mode
          /\ want' = [want EXCEPT ![c] = sess[u0]] /\ pc' = [pc EXCEPT ![c] = "tearing"]
          /\ pc[c] \notin {"installing", "tearing"}
      BY <1>6 DEF ReleaseSession, Uninstall, DropReference, Goto, SetChain
    <2> SUFFICES ASSUME mode # "down", NEW u \in Uids, NEW s \in Scopes, chain'[u][s] # NoRules
                 PROVE  Accounted(u, s)'
      BY <2>1 DEF ResidueInv
    <2>2. CASE u = u0 /\ s = sess[u0].scope
      BY <1>0, <2>1, <2>2 DEF Accounted
    <2>3. CASE ~ (u = u0 /\ s = sess[u0].scope)
      <3>1. Accounted(u, s)
        BY <1>0, <2>1, <2>3 DEF ResidueInv
      <3> QED
        BY <1>0, <2>1, <2>3, <3>1 DEF Accounted
    <2> QED
      BY <2>2, <2>3
  <1> QED
    BY <1>1, <1>2, <1>3, <1>4, <1>5, <1>6 DEF Worker

LEMMA ResidueEnvironment ==
  ASSUME IndInv, ResidueInv, NEW c \in Clients, Environment(c)
  PROVE  ResidueInv'
  <1>1. /\ UNCHANGED <<mode, chain, sess>> /\ pc[c] \notin {"installing", "tearing"}
        /\ \A d \in Clients : d # c => pc'[d] = pc[d] /\ want'[d] = want[d]
    BY DEF Environment, NewRequest, StrayUninstall, AgentExits, HolderExits, HolderKilled,
           LooseAgentExits, Goto, Done, IndInv, TypeOK
  <1> QED
    BY <1>1, ResidueKept

LEMMA ResidueProcess ==
  ASSUME ~CleanupFaults, IndInv, ResidueInv, Signal \/ Shutdown \/ Killed \/ Restart
  PROVE  ResidueInv'
  <1>1. CASE Signal \/ TeardownAllBegin \/ TeardownAllEnd
    <2>1. UNCHANGED <<sess, chain, pc, want>> /\ mode # "down"
      BY <1>1 DEF Signal, TeardownAllBegin, TeardownAllEnd, IndInv, LockInv
    <2> QED
      BY <2>1 DEF ResidueInv, Accounted
  <1>2. ASSUME NEW v \in Uids, TeardownOne(v) PROVE ResidueInv'
    <2>1. /\ chain' = [chain EXCEPT ![v][sess[v].scope] = NoRules]
          /\ sess' = [sess EXCEPT ![v] = NoSession]
          /\ UNCHANGED <<mode, pc, want>>
          /\ sess[v].scope \in Scopes
      BY <1>2 DEF TeardownOne, SetChain, CleanupOutcomes, IndInv, TypeOK, RuleSet
    <2>2. chain \in [Uids -> [Scopes -> Variants \cup {NoRules, Partial}]]
          /\ sess \in [Uids -> RuleSet \cup {NoSession}]
      BY DEF IndInv, TypeOK
    <2> SUFFICES ASSUME mode # "down", NEW u \in Uids, NEW s \in Scopes, chain'[u][s] # NoRules
                 PROVE  Accounted(u, s)'
      BY <2>1 DEF ResidueInv
    <2>3. ~ (u = v /\ s = sess[v].scope)
      BY <2>1, <2>2
    <2>4. Accounted(u, s)
      BY <2>1, <2>2, <2>3 DEF ResidueInv
    <2> QED
      BY <2>1, <2>2, <2>3, <2>4 DEF Accounted
  <1>3. CASE ProcessEnds
    BY <1>3 DEF ProcessEnds, ResidueInv
  <1>4. CASE Restart
    BY <1>4 DEF Restart, ReapKeeps, ResidueInv
  <1> QED
    BY <1>1, <1>2, <1>3, <1>4 DEF Shutdown, Exit, Killed

\* While the mutex is free a chain exists only for an entry of its user and
\* scope, whatever installs failed, whichever instance was killed or shut
\* down; if the commands of a cleanup, whose errors are ignored, do succeed.
\* Code: acquire_session, release_session, teardown_all_sessions, the reap.
THEOREM NothingIsLeftBehind ==
  ASSUME ~CleanupFaults PROVE Spec => []NoResidue
  <1>1. Init => ResidueInv
    BY DEF Init, ResidueInv
  <1>2. IndInv /\ ResidueInv /\ [Next]_vars => ResidueInv'
    <2> SUFFICES ASSUME IndInv, ResidueInv, [Next]_vars PROVE ResidueInv'
      OBVIOUS
    <2>1. CASE UNCHANGED vars
      BY <2>1 DEF vars, ResidueInv, Accounted
    <2>2. CASE Next
      BY <2>2, ResidueWorker, ResidueEnvironment, ResidueProcess DEF Next
    <2> QED
      BY <2>1, <2>2
  <1>3. IndInv /\ ResidueInv => NoResidue
    BY SentinelAssumption DEF IndInv, LockInv, ResidueInv, Accounted, NoResidue
  <1> QED
    BY <1>1, <1>2, <1>3, Invariance, PTL DEF Spec
-------------------------------------------------------------------------------
(* Tokenless installs keep their rules, as long as nobody interferes.       *)

\* The clients that own a reference of u's install session, if only those that
\* were granted one uninstall.
TenantsOf(u) ==
  {c \in Clients : UidOf[c] = u /\ pc[c] \in {"holding", "leaked", "uninstall"}}

\* Each of them finds its own rules under its uid, and all of them are counted.
Tenanted(u) ==
  /\ \A c \in TenantsOf(u) :
       want[c] \in RuleSet /\ want[c].scope = "user" /\ sess[u] = want[c]
  /\ sess[u] # NoSession /\ sess[u].scope = "user"
       => refcount[u] = Cardinality(TenantsOf(u))

TenantInv ==
  /\ served \subseteq Uids /\ (served # {} => mode = "up")
  /\ \A u \in served : Tenanted(u)

LEMMA TenantsFinite == \A u : IsFiniteSet(TenantsOf(u))
  BY ClientsAssumption, FS_Subset DEF TenantsOf

\* What a step of client c leaves alone of everybody else.
LEMMA StepOfOne ==
  ASSUME IndInv, NEW c \in Clients, Worker(c) \/ Environment(c)
  PROVE  /\ mode' = mode
         /\ \A d \in Clients : d # c => pc'[d] = pc[d] /\ want'[d] = want[d]
         /\ \A u \in Uids : u # UidOf[c] => sess'[u] = sess[u] /\ refcount'[u] = refcount[u]
  <1>1. /\ pc \in [Clients -> Phases] /\ want \in [Clients -> RuleSet \cup {NoSession}]
        /\ sess \in [Uids -> RuleSet \cup {NoSession}] /\ refcount \in [Uids -> Nat]
    BY DEF IndInv, TypeOK
  <1>2. CASE Environment(c)
    BY <1>1, <1>2
    DEF Environment, NewRequest, StrayUninstall, AgentExits, HolderExits, HolderKilled,
        LooseAgentExits, Goto, Done
  <1>3. CASE \/ AcquireConflict(c) \/ AcquireJoin(c) \/ AcquireInstall(c)
             \/ InstallOk(c) \/ InstallFails(c)
    BY <1>1, <1>3
    DEF AcquireConflict, AcquireJoin, AcquireInstall, InstallOk, InstallFails, Granted,
        Goto, Done
  <1>4. CASE \/ Spawn(c) \/ SpawnFails(c) \/ ReleaseNothing(c) \/ ReleaseSession(c)
             \/ UninstallNothing(c) \/ Uninstall(c) \/ TeardownDone(c)
    BY <1>1, <1>4
    DEF Spawn, SpawnFails, ReleaseNothing, ReleaseSession, UninstallNothing, Uninstall,
        TeardownDone, DropReference, Goto, Done
  <1> QED
    BY <1>2, <1>3, <1>4 DEF Worker

\* A user whose entry and tenants stay as they are.
LEMMA TenantsKept ==
  ASSUME NEW u, Tenanted(u), sess'[u] = sess[u], refcount'[u] = refcount[u],
         \A d \in Clients : UidOf[d] = u =>
           /\ pc'[d] \in {"holding", "leaked", "uninstall"}
                <=> pc[d] \in {"holding", "leaked", "uninstall"}
           /\ pc[d] \in {"holding", "leaked", "uninstall"} => want'[d] = want[d]
  PROVE  Tenanted(u)'
  <1>1. TenantsOf(u)' = TenantsOf(u)
    BY DEF TenantsOf
  <1>2. \A d \in TenantsOf(u) : want'[d] = want[d]
    BY DEF TenantsOf
  <1> QED
    BY <1>1, <1>2 DEF Tenanted

\* Where the entry is a run session, or there is none, nobody is a tenant.
LEMMA NoTenants ==
  ASSUME IndInv, NEW u \in Uids, Tenanted(u),
         sess[u] = NoSession \/ sess[u].scope = "group"
  PROVE  TenantsOf(u) = {}
  BY SentinelAssumption DEF Tenanted

\* One tenant more.
LEMMA TenantJoins ==
  ASSUME IndInv, NEW c \in Clients, pc[c] \in {"request", "installing"},
         Tenanted(UidOf[c]),
         want[c] \in RuleSet, want[c].scope = "user",
         pc' = [pc EXCEPT ![c] = "holding"], want' = want,
         sess'[UidOf[c]] = want[c],
         \/ sess[UidOf[c]] = want[c] /\ refcount'[UidOf[c]] = refcount[UidOf[c]] + 1
         \/ sess[UidOf[c]] = NoSession /\ refcount'[UidOf[c]] = 1
  PROVE  Tenanted(UidOf[c])'
  <1> DEFINE u == UidOf[c]
  <1>1. u \in Uids /\ pc \in [Clients -> Phases]
    BY ClientsAssumption DEF IndInv, TypeOK
  <1>2. TenantsOf(u)' = TenantsOf(u) \cup {c} /\ c \notin TenantsOf(u)
    BY <1>1 DEF TenantsOf
  <1>3. Cardinality(TenantsOf(u)') = Cardinality(TenantsOf(u)) + 1
    BY <1>2, TenantsFinite, FS_AddElement
  <1>4. refcount'[u] = Cardinality(TenantsOf(u)')
    <2>1. CASE sess[u] = want[c] /\ refcount'[u] = refcount[u] + 1
      BY <1>3, <2>1, SentinelAssumption DEF Tenanted
    <2>2. CASE sess[u] = NoSession /\ refcount'[u] = 1
      <3>1. Cardinality(TenantsOf(u)) = 0
        BY <1>1, <2>2, NoTenants, FS_EmptySet
      <3> QED
        BY <1>3, <2>2, <3>1
    <2> QED
      BY <2>1, <2>2
  <1>5. \A d \in TenantsOf(u) : want[d] \in RuleSet /\ want[d].scope = "user" /\ sess[u] = want[d]
    BY DEF Tenanted
  <1>6. \A d \in TenantsOf(u) : sess'[u] = want[d]
    BY <1>1, <1>5, NoTenants, SentinelAssumption
  <1> QED
    BY <1>2, <1>4, <1>5, <1>6 DEF Tenanted

\* One tenant less; the last one takes the entry with it.
LEMMA TenantLeaves ==
  ASSUME IndInv, NEW c \in Clients, Uninstall(c), Tenanted(UidOf[c])
  PROVE  Tenanted(UidOf[c])'
  <1> DEFINE u == UidOf[c]
  <1>1. /\ u \in Uids /\ pc \in [Clients -> Phases] /\ pc[c] = "uninstall"
        /\ sess \in [Uids -> RuleSet \cup {NoSession}] /\ refcount \in [Uids -> Nat]
        /\ want \in [Clients -> RuleSet \cup {NoSession}]
        /\ sess[u] # NoSession /\ sess[u].scope = "user" /\ DropReference(c, u)
    BY ClientsAssumption DEF IndInv, TypeOK, Uninstall, Uninstallable, Entry
  <1>2. pc' = [pc EXCEPT ![c] = "tearing"] \/ pc' = [pc EXCEPT ![c] = "idle"]
    BY <1>1 DEF DropReference, Goto, Done
  <1>3. TenantsOf(u)' = TenantsOf(u) \ {c} /\ c \in TenantsOf(u)
    BY <1>1, <1>2 DEF TenantsOf
  <1>4. refcount[u] = Cardinality(TenantsOf(u))
    BY <1>1 DEF Tenanted
  <1> HIDE DEF u
  <1>5. Cardinality(TenantsOf(u)') = Cardinality(TenantsOf(u)) - 1
    BY <1>3, TenantsFinite, FS_RemoveElement
  <1>6. CASE refcount[u] = 1
    <2>1. TenantsOf(u) = {c}
      <3>1. PICK x : TenantsOf(u) = {x}
        BY <1>4, <1>6, TenantsFinite, FS_Singleton
      <3> QED
        BY <1>3, <3>1
    <2>2. sess'[u] = NoSession
      BY <1>1, <1>6 DEF DropReference, LastReference
    <2> QED
      BY <1>3, <2>1, <2>2 DEF Tenanted, u
  <1>7. CASE refcount[u] # 1
    <2>1. /\ sess' = sess /\ refcount'[u] = refcount[u] - 1
          /\ want' = [want EXCEPT ![c] = NoSession]
      BY <1>1, <1>7 DEF DropReference, LastReference, Done
    <2>2. \A d \in TenantsOf(u)' : d \in TenantsOf(u) /\ want'[d] = want[d]
      BY <1>1, <1>3, <2>1 DEF TenantsOf
    <2> QED
      BY <1>4, <1>5, <2>1, <2>2 DEF Tenanted, u
  <1> QED
    BY <1>6, <1>7

\* The steps of a user's own clients, stray uninstalls apart.
LEMMA TenantSteps ==
  ASSUME IndInv, mode = "up", NEW c \in Clients, Tenanted(UidOf[c]),
         \/ Worker(c) \/ NewRequest(c)
         \/ AgentExits(c) \/ HolderExits(c) \/ HolderKilled(c) \/ LooseAgentExits(c)
  PROVE  Tenanted(UidOf[c])'
  <1> DEFINE u == UidOf[c]
  <1>1. /\ u \in Uids /\ pc \in [Clients -> Phases]
        /\ sess \in [Uids -> RuleSet \cup {NoSession}] /\ refcount \in [Uids -> Nat]
        /\ want \in [Clients -> RuleSet \cup {NoSession}]
    BY ClientsAssumption DEF IndInv, TypeOK
  <1>2. CASE \/ NewRequest(c) \/ AgentExits(c) \/ LooseAgentExits(c)
             \/ HolderExits(c) \/ HolderKilled(c)
    BY <1>1, <1>2, TenantsKept
    DEF NewRequest, AgentExits, LooseAgentExits, HolderExits, HolderKilled, Goto, Done
  <1>3. CASE \/ AcquireConflict(c) \/ AcquireInstall(c) \/ InstallFails(c)
             \/ Spawn(c) \/ SpawnFails(c) \/ ReleaseNothing(c) \/ TeardownDone(c)
    BY <1>1, <1>3, TenantsKept
    DEF AcquireConflict, AcquireInstall, InstallFails, Spawn, SpawnFails, ReleaseNothing,
        TeardownDone, Goto, Done
  <1>4. CASE UninstallNothing(c)
    <2>1. c \in TenantsOf(u) /\ (sess[u] # NoSession => sess[u].scope # "user")
      BY <1>4 DEF UninstallNothing, Uninstallable, Entry, TenantsOf
    <2> QED
      BY <2>1, SentinelAssumption DEF Tenanted
  <1>5. CASE AcquireJoin(c) \/ InstallOk(c)
    <2>1. /\ pc[c] \in {"request", "installing"} /\ want[c] \in RuleSet
          /\ want' = want /\ sess'[u] = want[c]
          /\ \/ sess[u] = want[c] /\ refcount'[u] = refcount[u] + 1
             \/ sess[u] = NoSession /\ refcount'[u] = 1
      BY <1>1, <1>5
      DEF AcquireJoin, InstallOk, Entry, Compatible, Joined, IndInv, WorkerInv
    <2>2. CASE want[c].scope = "user"
      <3>1. pc' = [pc EXCEPT ![c] = "holding"]
        BY <1>5, <2>2 DEF AcquireJoin, InstallOk, Granted, Goto
      <3> QED
        BY <2>1, <2>2, <3>1, TenantJoins
    <2>3. CASE want[c].scope = "group"
      <3>1. pc' = [pc EXCEPT ![c] = "spawn"]
        BY <1>5, <2>3 DEF AcquireJoin, InstallOk, Granted, Goto
      <3>2. TenantsOf(u) = {}
        BY <1>1, <2>1, <2>3, NoTenants
      <3>3. TenantsOf(u)' = {}
        BY <1>1, <3>1, <3>2 DEF TenantsOf
      <3> QED
        BY <2>1, <2>3, <3>3 DEF Tenanted
    <2> QED
      BY <2>1, <2>2, <2>3 DEF RuleSet, Scopes
  <1>6. CASE ReleaseSession(c)
    <2>1. pc[c] = "release" /\ sess[u] \in RuleSet /\ sess[u].scope = "group"
      BY <1>6 DEF ReleaseSession, IndInv, HolderInv, WorkerInv
    <2>2. TenantsOf(u) = {}
      BY <1>1, <2>1, NoTenants
    <2>3. pc' = [pc EXCEPT ![c] = "tearing"] \/ pc' = [pc EXCEPT ![c] = "idle"]
      BY <1>6 DEF ReleaseSession, DropReference, Goto, Done
    <2>4. TenantsOf(u)' = {}
      BY <1>1, <2>2, <2>3 DEF TenantsOf
    <2>5. sess'[u] = NoSession \/ sess'[u] = sess[u]
      BY <1>1, <1>6 DEF ReleaseSession, DropReference
    <2> QED
      BY <2>1, <2>4, <2>5 DEF Tenanted
  <1>7. CASE Uninstall(c)
    BY <1>7, TenantLeaves
  <1> QED
    BY <1>2, <1>3, <1>4, <1>5, <1>6, <1>7 DEF Worker

\* A step of another user's client.
LEMMA StepOfOther ==
  ASSUME IndInv, NEW c \in Clients, Worker(c) \/ Environment(c),
         NEW u \in Uids, u # UidOf[c], Tenanted(u)
  PROVE  Tenanted(u)'
  BY StepOfOne, TenantsKept

LEMMA TenantNext ==
  ASSUME IndInv, TenantInv, [BudgetNext]_budgetVars
  PROVE  TenantInv'
  <1>1. CASE UNCHANGED budgetVars
    BY <1>1 DEF budgetVars, vars, TenantInv, Tenanted, TenantsOf
  <1>2. ASSUME NEW c \in Clients, served' = served,
               \/ Worker(c) \/ NewRequest(c)
               \/ AgentExits(c) \/ HolderExits(c) \/ HolderKilled(c) \/ LooseAgentExits(c)
        PROVE  TenantInv'
    <2>1. Worker(c) \/ Environment(c)
      BY <1>2 DEF Environment
    <2>2. mode' = mode
      BY <2>1, StepOfOne
    <2>3. \A u \in served : Tenanted(u)'
      BY <1>2, <2>1, TenantSteps, StepOfOther DEF TenantInv
    <2> QED
      BY <1>2, <2>2, <2>3 DEF TenantInv
  <1>3. ASSUME NEW c \in Clients, StrayUninstall(c), served' = served \ {UidOf[c]}
        PROVE  TenantInv'
    <2>1. Environment(c)
      BY <1>3 DEF Environment
    <2>2. mode' = mode
      BY <2>1, StepOfOne
    <2>3. \A u \in served' : Tenanted(u)'
      BY <1>3, <2>1, StepOfOther DEF TenantInv
    <2> QED
      BY <1>3, <2>2, <2>3 DEF TenantInv
  <1>4. CASE served' = {}
    BY <1>4 DEF TenantInv
  <1>5. CASE (Shutdown \/ Restart) /\ served' = served
    <2>1. mode # "up"
      BY <1>5
      DEF Shutdown, Restart, Exit, TeardownAllBegin, TeardownOne, TeardownAllEnd, IndInv, LockInv
    <2> QED
      BY <1>4, <1>5, <2>1 DEF TenantInv
  <1> QED
    BY <1>1, <1>2, <1>3, <1>4, <1>5 DEF BudgetNext, Drawn

\* An agent of the shared-user path runs behind its own rules for as long as
\* its user's clients uninstall only what they installed and the helper stays
\* up, whatever other users do, and also if its launcher was killed.
\* Code: acquire_session, release_install_session.
THEOREM InstallsGuarded == LiveSpec => []InstallAgentsGuarded
  <1>1. Init /\ served = Uids => IndInv /\ TenantInv
    <2> SUFFICES ASSUME Init, served = Uids PROVE TenantInv
      BY InitInv
    <2>1. \A u : TenantsOf(u) = {}
      BY DEF Init, TenantsOf
    <2> QED
      BY <2>1 DEF Init, TenantInv, Tenanted
  <1>2. IndInv /\ TenantInv /\ [BudgetNext]_budgetVars => (IndInv /\ TenantInv)'
    <2>1. [BudgetNext]_budgetVars => [Next]_vars
      BY DEF BudgetNext, Drawn, budgetVars, Next, Environment
    <2> QED
      BY <2>1, NextInv, TenantNext
  <1>3. IndInv /\ TenantInv => InstallAgentsGuarded
    <2> SUFFICES ASSUME IndInv, TenantInv, NEW c \in Clients, UidOf[c] \in served,
                        pc[c] \in {"holding", "leaked"}
                 PROVE  chain[UidOf[c]]["user"] = want[c].variant
      BY DEF InstallAgentsGuarded
    <2>1. c \in TenantsOf(UidOf[c]) /\ Tenanted(UidOf[c])
      BY DEF TenantsOf, TenantInv
    <2>2. sess[UidOf[c]] = want[c] /\ want[c] # NoSession /\ want[c].scope = "user"
      BY <2>1, SentinelAssumption DEF Tenanted
    <2> QED
      BY <2>2, ClientsAssumption DEF IndInv, SessionMeansRules
  <1> QED
    BY <1>1, <1>2, <1>3, PTL DEF LiveSpec
-------------------------------------------------------------------------------
(* The helper implements GuardLease.                                        *)

LEMMA LeaseInit == Init => Lease!Init
  BY DEF Init, Lease!Init, AgentsOf, RunHolders, Scopes

\* A step that counts on the same agents before and after it, and leaves the
\* rules of everyone who is counted on alone.
LEMMA UnattendedStep ==
  ASSUME TypeOK', \A u \in Uids : AgentsOf(u)' = AgentsOf(u),
         \A u \in Uids : AgentsOf(u) # {} => chain'[u]["group"] = chain[u]["group"]
  PROVE  Lease!Unattended
  BY DEF Lease!Unattended, TypeOK, Scopes

\* No worker comes to own a reference, none loses one, and no owner's request
\* changes: the helper counts on the same agents.
LEMMA SameAgents ==
  ASSUME mode' = mode,
         \A c \in Clients :
           /\ pc[c] \in RunPhases <=> pc'[c] \in RunPhases
           /\ pc[c] \in RunPhases => want'[c] = want[c]
  PROVE  \A u \in Uids : AgentsOf(u)' = AgentsOf(u)
  <1>1. \A u \in Uids : RunHolders(u)' = RunHolders(u)
    BY DEF RunHolders, RunPhases
  <1>2. \A u \in Uids : \A c \in RunHolders(u) : want'[c] = want[c]
    BY DEF RunHolders, RunPhases
  <1> QED
    BY <1>1, <1>2 DEF AgentsOf

\* A user whose rules the map does not know has no agents to answer for.
LEMMA NobodyWithoutEntry ==
  ASSUME IndInv, NEW u \in Uids,
         sess[u] = NoSession \/ sess[u].scope # "group"
  PROVE  AgentsOf(u) = {}
  BY SentinelAssumption DEF IndInv, HolderInv, WorkerInv, AgentsOf, RunHolders

\* Worker and environment steps other than the four that gain or drop a
\* reference of a run session.
LEMMA OtherClientStep ==
  ASSUME IndInv, IndInv', NEW c \in Clients,
         \/ NewRequest(c) \/ StrayUninstall(c) \/ AcquireConflict(c)
         \/ UninstallNothing(c) \/ HolderExits(c) \/ HolderKilled(c)
         \/ LooseAgentExits(c) \/ Spawn(c) \/ SpawnFails(c) \/ AgentExits(c)
         \/ AcquireInstall(c) \/ InstallFails(c) \/ TeardownDone(c)
  PROVE  Lease!Unattended
  <1> USE DEF Goto, Done
  <1>1. /\ mode' = mode
        /\ \A d \in Clients : d # c => pc'[d] = pc[d] /\ want'[d] = want[d]
    BY DEF IndInv, TypeOK, NewRequest, StrayUninstall, AcquireConflict,
           UninstallNothing, HolderExits, HolderKilled, LooseAgentExits, Spawn,
           SpawnFails, AgentExits, AcquireInstall, InstallFails, TeardownDone
  <1>2. /\ pc[c] \in RunPhases <=> pc'[c] \in RunPhases
        /\ pc[c] \in RunPhases => want'[c] = want[c]
    <2>1. CASE Spawn(c) \/ SpawnFails(c) \/ AgentExits(c)
      BY <2>1 DEF IndInv, TypeOK, Spawn, SpawnFails, AgentExits, RunPhases
    <2>2. CASE ~(Spawn(c) \/ SpawnFails(c) \/ AgentExits(c))
      BY <2>2
      DEF IndInv, TypeOK, NewRequest, StrayUninstall, AcquireConflict,
          UninstallNothing, HolderExits, HolderKilled, LooseAgentExits,
          AcquireInstall, InstallFails, TeardownDone, RunPhases
    <2> QED
      BY <2>1, <2>2
  <1>3. \A u \in Uids : AgentsOf(u)' = AgentsOf(u)
    BY <1>1, <1>2, SameAgents
  <1>4. \A u \in Uids : AgentsOf(u) # {} => chain'[u]["group"] = chain[u]["group"]
    <2>1. CASE UNCHANGED chain
      BY <2>1
    <2>2. CASE AcquireInstall(c) \/ InstallFails(c) \/ TeardownDone(c)
      <3>1. sess[UidOf[c]] = NoSession
        BY <2>2 DEF IndInv, WorkerInv, AcquireInstall, InstallFails, TeardownDone, Entry
      <3>2. AgentsOf(UidOf[c]) = {}
        BY <3>1, ClientsAssumption, NobodyWithoutEntry
      <3>3. \A u \in Uids : u # UidOf[c] => chain'[u] = chain[u]
        BY <2>2 DEF IndInv, TypeOK, AcquireInstall, InstallFails, TeardownDone, SetChain
      <3> QED
        BY <3>2, <3>3
    <2> QED
      BY <2>1, <2>2
      DEF NewRequest, StrayUninstall, AcquireConflict, UninstallNothing, HolderExits,
          HolderKilled, LooseAgentExits, Spawn, SpawnFails, AgentExits
  <1> QED
    BY <1>3, <1>4, UnattendedStep DEF IndInv
\* The steps of one agent, as steps of the promise.
LEMMA LeaseMoves ==
  ASSUME NEW u \in Uids, NEW m \in Lease!Member
  PROVE  /\ Lease!Enter(u, m) => Lease!Next
         /\ Lease!Leave(u, m) => Lease!Next
  BY DEF Lease!Next

\* A granted session: its run agent enters under the rules it asked for.
LEMMA GainStep ==
  ASSUME IndInv, IndInv', NEW c \in Clients, AcquireJoin(c) \/ InstallOk(c)
  PROVE  Lease!Next
  <1> DEFINE u == UidOf[c]
  <1>0. PICK m : m = <<c, want[c].variant>>
    OBVIOUS
  <1>1. /\ u \in Uids /\ pc[c] \in {"request", "installing"}
        /\ want[c] \in RuleSet /\ want[c].scope \in Scopes /\ want[c].variant \in Variants
        /\ UNCHANGED <<mode, want>>
        /\ Granted(c)
    BY ClientsAssumption
    DEF IndInv, WorkerInv, AcquireJoin, InstallOk, RuleSet
  <1>2. \/ sess[u] = want[c] /\ UNCHANGED chain
        \/ /\ sess[u] = NoSession
           /\ chain' = [chain EXCEPT ![u][want[c].scope] = want[c].variant]
    BY DEF IndInv, WorkerInv, AcquireJoin, InstallOk, Entry, Compatible, SetChain
  <1>3. /\ want[c].scope = "group" => pc' = [pc EXCEPT ![c] = "spawn"]
        /\ want[c].scope # "group" => pc' = [pc EXCEPT ![c] = "holding"]
    BY <1>1, GrantedPhase DEF IndInv
  <1>4. CASE want[c].scope = "group" /\ mode = "up"
    <2>1. \A v \in Uids : v # u => AgentsOf(v)' = AgentsOf(v)
      BY <1>1, <1>3, <1>4 DEF AgentsOf, RunHolders, IndInv, TypeOK
    <2>2. AgentsOf(u)' = AgentsOf(u) \cup {m}
      <3>1. RunHolders(u)' = RunHolders(u) \cup {c}
        BY <1>1, <1>3, <1>4, RunHoldersGrow DEF IndInv, RunPhases
      <3> QED
        BY <1>0, <1>1, <1>4, <3>1 DEF AgentsOf
    <2>3. m \notin AgentsOf(u)
      BY <1>0, <1>1 DEF AgentsOf, RunHolders
    <2>4. /\ \A v \in Uids : v # u => chain'[v]["group"] = chain[v]["group"]
          /\ chain'[u]["group"] = want[c].variant
          /\ AgentsOf(u) # {} => chain[u]["group"] = want[c].variant
      <3>1. CASE sess[u] = want[c] /\ UNCHANGED chain
        BY <1>1, <1>4, <3>1, SentinelAssumption DEF IndInv, SessionMeansRules
      <3>2. CASE /\ sess[u] = NoSession
                 /\ chain' = [chain EXCEPT ![u][want[c].scope] = want[c].variant]
        BY <1>1, <1>4, <3>2, NobodyWithoutEntry DEF IndInv, TypeOK, Scopes
      <3> QED
        BY <1>2, <3>1, <3>2
    <2>5. m \in Lease!Member
      BY <1>0, <1>1 DEF Lease!Member
    <2>6. Lease!Enter(u, m)
      BY <1>0, <1>1, <2>1, <2>2, <2>3, <2>4 DEF Lease!Enter
    <2> QED
      BY <1>1, <2>5, <2>6, LeaseMoves
  <1>5. CASE want[c].scope # "group" \/ mode # "up"
    <2>1. \A v \in Uids : AgentsOf(v)' = AgentsOf(v)
      <3>1. CASE mode # "up"
        BY <1>1, <3>1 DEF AgentsOf
      <3>2. CASE want[c].scope # "group"
        BY <1>1, <1>3, <3>2, SameAgents DEF IndInv, TypeOK, RunPhases
      <3> QED
        BY <1>5, <3>1, <3>2
    <2>2. \A v \in Uids : AgentsOf(v) # {} => chain'[v]["group"] = chain[v]["group"]
      BY <1>1, <1>2, <1>5 DEF AgentsOf, IndInv, TypeOK, Scopes
    <2> QED
      BY <2>1, <2>2, UnattendedStep DEF IndInv, Lease!Next
  <1> QED
    BY <1>4, <1>5

\* A released session: its run agent leaves, and only the last one takes the
\* rules along.
LEMMA DropStep ==
  ASSUME IndInv, IndInv', NEW c \in Clients,
         ReleaseNothing(c) \/ ReleaseSession(c) \/ Uninstall(c)
  PROVE  Lease!Next
  <1> DEFINE u == UidOf[c]
  <1>0. PICK m : m = <<c, want[c].variant>>
    OBVIOUS
  <1>1. /\ u \in Uids /\ UNCHANGED mode
        /\ \A v \in Uids : v # u => chain'[v] = chain[v]
        /\ \A d \in Clients : d # c => pc'[d] = pc[d] /\ want'[d] = want[d]
        /\ pc'[c] \notin RunPhases
    BY ClientsAssumption
    DEF ReleaseNothing, ReleaseSession, Uninstall, DropReference, Done, Goto,
        SetChain, IndInv, TypeOK, RunPhases
  <1>2. CASE mode = "up" /\ pc[c] = "release"
    <2>1. /\ sess[u] = want[c] /\ want[c] \in RuleSet
          /\ want[c].scope = "group" /\ want[c].variant \in Variants
      BY <1>2 DEF IndInv, HolderInv, WorkerInv, RuleSet
    <2>2. DropReference(c, u)
      BY <1>2, <2>1, SentinelAssumption DEF ReleaseNothing, ReleaseSession, Uninstall, Entry
    <2>3. \A v \in Uids : v # u => AgentsOf(v)' = AgentsOf(v)
      <3>1. \A v \in Uids : v # u => RunHolders(v)' = RunHolders(v)
        BY <1>1 DEF RunHolders
      <3>2. \A v \in Uids : v # u => \A d \in RunHolders(v) : want'[d] = want[d]
        BY <1>1 DEF RunHolders
      <3> QED
        BY <1>1, <3>1, <3>2 DEF AgentsOf
    <2>4. AgentsOf(u)' = AgentsOf(u) \ {m}
      <3>1. RunHolders(u)' = RunHolders(u) \ {c}
        BY <1>1 DEF RunHolders, RunPhases
      <3>2. \A d \in RunHolders(u) : d # c => want'[d] = want[d]
        BY <1>1 DEF RunHolders
      <3> QED
        BY <1>0, <1>1, <1>2, <3>1, <3>2 DEF AgentsOf
    <2>5. m \in AgentsOf(u) /\ m \in Lease!Member
      BY <1>0, <1>1, <1>2, <2>1 DEF AgentsOf, RunHolders, Lease!Member
    <2>6. AgentsOf(u)' # {} => chain'[u]["group"] = chain[u]["group"]
      <3>1. CASE refcount[u] = 1
        <4>1. RunHolders(u) = {c}
          BY <1>2, <3>1, LastOwner DEF RunPhases
        <4> QED
          BY <1>0, <1>2, <2>4, <4>1 DEF AgentsOf
      <3>2. CASE refcount[u] # 1
        BY <2>2, <3>2 DEF DropReference, LastReference
      <3> QED
        BY <3>1, <3>2
    <2>7. \A v \in Uids : chain'[v]["group"] \in Variants \cup {NoRules, Partial}
      BY DEF IndInv, TypeOK, Scopes
    <2>8. Lease!Leave(u, m)
      <3>1. \A v \in Uids : v # u => chain'[v]["group"] = chain[v]["group"]
        BY <1>1
      <3>2. \E r \in Variants \cup {NoRules, Partial} :
              [v \in Uids |-> chain'[v]["group"]]
                = [[v \in Uids |-> chain[v]["group"]] EXCEPT ![u] = r]
        BY <1>1, <2>7, <3>1
      <3>3. [v \in Uids |-> AgentsOf(v)']
              = [[v \in Uids |-> AgentsOf(v)] EXCEPT ![u] = @ \ {m}]
        BY <1>1, <2>3, <2>4
      <3> QED
        BY <1>1, <2>5, <2>6, <3>2, <3>3 DEF Lease!Leave
    <2> QED
      BY <1>1, <2>5, <2>8, LeaseMoves
  <1>3. CASE mode # "up" \/ pc[c] # "release"
    <2>1. \A v \in Uids : AgentsOf(v)' = AgentsOf(v)
      <3>1. CASE mode # "up"
        BY <1>1, <3>1 DEF AgentsOf
      <3>2. CASE pc[c] # "release"
        <4>1. pc[c] \notin RunPhases
          BY <3>2 DEF ReleaseNothing, ReleaseSession, Uninstall, RunPhases
        <4> QED
          BY <1>1, <4>1, SameAgents
      <3> QED
        BY <1>3, <3>1, <3>2
    <2>2. AgentsOf(u) # {} => chain'[u]["group"] = chain[u]["group"]
      <3>1. SUFFICES ASSUME AgentsOf(u) # {} PROVE chain'[u]["group"] = chain[u]["group"]
        OBVIOUS
      <3>2. sess[u] # NoSession /\ sess[u].scope = "group"
        BY <1>1, <3>1, NobodyWithoutEntry
      <3>3. Uninstall(c) => FALSE
        BY <3>2 DEF Uninstall, Uninstallable
      <3>4. mode = "up"
        BY <3>1 DEF AgentsOf
      <3> QED
        BY <1>3, <3>3, <3>4 DEF ReleaseNothing, ReleaseSession
    <2> QED
      BY <1>1, <2>1, <2>2, UnattendedStep DEF IndInv, Lease!Next
  <1> QED
    BY <1>2, <1>3

LEMMA ProcessStep ==
  ASSUME IndInv, IndInv',
         \/ Signal \/ TeardownAllBegin \/ TeardownAllEnd \/ ProcessEnds \/ Restart
         \/ \E u \in Uids : TeardownOne(u)
  PROVE  Lease!Next
  <1>1. CASE mode # "up"
    <2>1. \A u \in Uids : AgentsOf(u) = {}
      BY <1>1 DEF AgentsOf
    <2>2. \A u \in Uids : AgentsOf(u)' = {}
      <3>1. CASE Restart
        BY <3>1 DEF Restart, IndInv, DownInv, AgentsOf, RunHolders
      <3>2. CASE mode' # "up"
        BY <3>2 DEF AgentsOf
      <3> QED
        BY <1>1, <3>1, <3>2
        DEF Signal, TeardownAllBegin, TeardownAllEnd, ProcessEnds, TeardownOne
    <2> QED
      BY <2>1, <2>2, UnattendedStep DEF IndInv, Lease!Next
  <1>2. CASE mode = "up"
    <2>1. CASE Signal \/ ProcessEnds
      <3>1. mode' # "up" /\ UNCHANGED chain
        BY <2>1 DEF Signal, ProcessEnds
      <3> QED
        BY <3>1 DEF AgentsOf, Lease!Disown, Lease!Next
    <2>2. CASE \/ TeardownAllBegin \/ TeardownAllEnd \/ Restart
               \/ \E u \in Uids : TeardownOne(u)
      BY <1>2, <2>2
      DEF TeardownAllBegin, TeardownAllEnd, Restart, TeardownOne, IndInv, LockInv
    <2> QED
      BY <2>1, <2>2
  <1> QED
    BY <1>1, <1>2

LEMMA LeaseNext ==
  ASSUME IndInv, IndInv', [Next]_vars
  PROVE  [Lease!Next]_Lease!vars
  <1>1. ASSUME NEW c \in Clients, Worker(c) \/ Environment(c) PROVE Lease!Next
    BY <1>1, OtherClientStep, GainStep, DropStep DEF Worker, Environment, Lease!Next
  <1>2. CASE Signal \/ Shutdown \/ Killed \/ Restart
    BY <1>2, ProcessStep DEF Shutdown, Exit, Killed
  <1>3. CASE UNCHANGED vars
    BY <1>3 DEF vars, Lease!vars, AgentsOf, RunHolders
  <1> QED
    BY <1>1, <1>2, <1>3 DEF Next

\* Every behaviour of the helper is one GuardLease allows: whoever is counted
\* on keeps the rules it asked for, whatever else the helper does.
THEOREM Refinement == Spec => LeaseSpec
  <1>1. Init => Lease!Init
    BY LeaseInit
  <1>2. IndInv /\ IndInv' /\ [Next]_vars => [Lease!Next]_Lease!vars
    BY LeaseNext
  <1> QED
    BY <1>1, <1>2, Invariance, PTL DEF Spec, LeaseSpec, Lease!Spec
===============================================================================
