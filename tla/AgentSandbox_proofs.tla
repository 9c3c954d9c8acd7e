-------------------------- MODULE AgentSandbox_proofs --------------------------
(***************************************************************************)
(* Proofs about AgentSandbox for any accounts, tree, symlinks and specs:   *)
(* an agent that runs is confined, and what confines it is its policy.     *)
(*                                                                         *)
(* The invariant says, stage by stage, which credentials and guards the    *)
(* child has, and of the Landlock rules that each is still to come or has  *)
(* landed on its own path.  The Seatbelt profile, a list, and the seccomp  *)
(* filter, a program, are shown to decide what they are for.               *)
(***************************************************************************)
EXTENDS AgentSandbox, HelperRequests_proofs

Held(groups, gid, uid) == [groups |-> groups, gid |-> gid, uid |-> uid]

Sandboxed == {"sandbox", "ruleset", "rules", "seccomp", "running", "ended"}
Launched == {"validated", "groups", "gid", "uid"} \cup Sandboxed

RequestInv == host \in Hosts /\ asked \in Asked

CredsInv ==
  /\ stage \in {"groups", "gid", "uid"} => host.helper
  /\ ~host.helper => creds = CallerCreds
  /\ host.helper =>
       /\ stage \in {"asked", "validated", "groups"} => creds = RootCreds
       /\ stage = "gid" => creds = Held(SupplementaryGroups, "wheel", "root")
       /\ stage = "uid" => creds = Held(SupplementaryGroups, SessionGroup, "root")
       /\ stage \in Sandboxed => creds = Held(SupplementaryGroups, SessionGroup, Caller)

GuardsInv ==
  /\ stage \in {"ruleset", "rules", "seccomp"} => host.platform = "linux"
  /\ stage \in {"ruleset", "rules"} => guards = {"no_new_privs"}
  /\ stage = "seccomp" => guards = {"no_new_privs", "landlock"}
  /\ stage = "running" =>
       guards = IF host.platform = "macos" THEN {"seatbelt"}
                ELSE {"no_new_privs", "landlock", "seccomp"}

EnvironmentInv == stage \in Launched => EnvironmentPinned(environment, launch)

ConfinedInv == RequestInv /\ CredsInv /\ GuardsInv /\ EnvironmentInv

-------------------------------------------------------------------------------
(* Credentials, guards and environment.                                     *)

\* Nothing a client or a launcher passes on displaces what the sandbox sets.
LEMMA SanitizePins ==
  ASSUME NEW input, NEW l, NEW extra
  PROVE  EnvironmentPinned(Sanitize(input, l, extra), l)
  <1> DEFINE admitted == {k \in DOMAIN extra : Admits(k)}
             allowed == {k \in DOMAIN input : IsAllowed(k)}
             env == Sanitize(input, l, extra)
  <1>1. /\ DOMAIN env = admitted \cup FixedKeys \cup allowed \cup {"PATH", "TERM"}
        /\ \A k \in FixedKeys \ admitted : env[k] = Pinned(l)[k]
    BY DEF Sanitize
  <1>2. /\ \A k \in FixedKeys : k \notin admitted
        /\ (admitted \cup allowed \cup {"PATH", "TERM"}) \cap BlockedKeys = {}
    BY DEF Admits, IsAllowed, BlockedKeys
  <1> HIDE DEF env, admitted, allowed
  <1> QED
    BY <1>1, <1>2 DEF EnvironmentPinned, env

LEMMA ConfinedInit == SandboxInit => ConfinedInv
  BY DEF SandboxInit, Fresh, ConfinedInv, RequestInv, CredsInv, GuardsInv, EnvironmentInv,
         Launched, Sandboxed

LEMMA ConfinedNext == ConfinedInv /\ [SandboxNext]_sandboxVars => ConfinedInv'
  <1> SUFFICES ASSUME ConfinedInv, [SandboxNext]_sandboxVars PROVE ConfinedInv'
    OBVIOUS
  <1>0. RequestInv'
    BY DEF SandboxNext, sandboxVars, request, ConfinedInv, RequestInv, ValidatedByHelper, Prepared,
           Spawn, SetGroups, SetGid, SetUid, SandboxExec, NoNewPrivs, CreateRuleset, AddPathRule,
           NextLoop, RestrictSelf, ApplySeccomp, StepFails, AgentExits, Replace
  <1> USE DEF request, outcome, process
  <1>1. CASE ValidatedByHelper
    <2>1. /\ stage = "asked" /\ host.helper /\ UNCHANGED <<host, creds, guards>>
          /\ stage' \in {"validated", "rejected"}
          /\ stage' = "validated" => EnvironmentPinned(environment', launch')
      BY <1>1, SanitizePins DEF ValidatedByHelper
    <2> QED
      BY <1>0, <2>1 DEF ConfinedInv, CredsInv, GuardsInv, EnvironmentInv, Launched, Sandboxed
  <1>2. CASE Prepared
    <2>1. /\ stage = "asked" /\ ~host.helper /\ UNCHANGED <<host, creds, guards>>
          /\ stage' \in {"validated", "rejected"}
          /\ stage' = "validated" => EnvironmentPinned(environment', launch')
      BY <1>2, SanitizePins DEF Prepared
    <2> QED
      BY <1>0, <2>1 DEF ConfinedInv, CredsInv, GuardsInv, EnvironmentInv, Launched, Sandboxed
  <1>3. CASE Spawn
    BY <1>3, <1>0 DEF Spawn, ConfinedInv, CredsInv, GuardsInv, EnvironmentInv, Launched, Sandboxed
  <1>4. CASE SetGroups \/ SetGid \/ SetUid
    <2>1. creds = RootCreds => [creds EXCEPT !.groups = SupplementaryGroups]
                                = Held(SupplementaryGroups, "wheel", "root")
      BY DEF RootCreds, Held
    <2>2. creds = Held(SupplementaryGroups, "wheel", "root") =>
            [creds EXCEPT !.gid = SessionGroup] = Held(SupplementaryGroups, SessionGroup, "root")
      BY DEF Held
    <2>3. creds = Held(SupplementaryGroups, SessionGroup, "root") =>
            [creds EXCEPT !.uid = Caller] = Held(SupplementaryGroups, SessionGroup, Caller)
      BY DEF Held
    <2>4. /\ UNCHANGED <<host, guards, environment, launch>>
          /\ \/ stage = "groups" /\ stage' = "gid"
             \/ stage = "gid" /\ stage' = "uid"
             \/ stage = "uid" /\ stage' = "sandbox"
      BY <1>4 DEF SetGroups, SetGid, SetUid
    <2>5. CredsInv'
      BY <1>4, <2>1, <2>2, <2>3, <2>4
      DEF SetGroups, SetGid, SetUid, ConfinedInv, CredsInv, Sandboxed
    <2> QED
      BY <1>0, <2>4, <2>5 DEF ConfinedInv, GuardsInv, EnvironmentInv, Launched, Sandboxed
  <1>5. CASE SandboxExec \/ NoNewPrivs \/ RestrictSelf \/ ApplySeccomp
    <2>1. /\ UNCHANGED <<host, creds, environment, launch>>
          /\ stage \in Sandboxed /\ stage' \in Sandboxed
          /\ stage' \notin {"groups", "gid", "uid", "asked", "validated"}
      BY <1>5 DEF SandboxExec, NoNewPrivs, RestrictSelf, ApplySeccomp, Sandboxed
    <2>2. CredsInv' /\ EnvironmentInv'
      BY <2>1 DEF ConfinedInv, CredsInv, EnvironmentInv, Launched, Sandboxed
    <2>3. GuardsInv'
      BY <1>5, <1>0 DEF SandboxExec, NoNewPrivs, RestrictSelf, ApplySeccomp, ConfinedInv, GuardsInv,
                        RequestInv, Hosts
    <2> QED
      BY <1>0, <2>2, <2>3 DEF ConfinedInv
  <1>6. CASE \/ CreateRuleset \/ AddPathRule \/ NextLoop \/ StepFails \/ AgentExits \/ Replace
             \/ UNCHANGED sandboxVars
    <2>1. /\ UNCHANGED <<host, creds, guards, environment, launch>>
          /\ \/ stage' = stage
             \/ stage = "ruleset" /\ stage' = "rules"
             \/ stage' = "failed"
             \/ stage = "running" /\ stage' = "ended"
      BY <1>6 DEF CreateRuleset, AddPathRule, NextLoop, StepFails, AgentExits, Replace, sandboxVars
    <2> QED
      BY <1>0, <2>1 DEF ConfinedInv, CredsInv, GuardsInv, EnvironmentInv, Launched, Sandboxed
  <1> QED
    BY <1>1, <1>2, <1>3, <1>4, <1>5, <1>6 DEF SandboxNext

\* Whichever step failed on the way, an agent that runs is its caller in the
\* session's group, under every guard of its platform, with pinned roots.
THEOREM ConfinedAgents == SandboxSpec => []AgentsRunConfined
  <1>1. ConfinedInv => AgentsRunConfined
    BY DEF ConfinedInv, CredsInv, GuardsInv, EnvironmentInv, AgentsRunConfined, CallerCreds,
           Held, Launched, Sandboxed
  <1> QED
    BY <1>1, ConfinedInit, ConfinedNext, PTL DEF SandboxSpec

-------------------------------------------------------------------------------
(* The launch: paths all of it.                                             *)

Paths == Seq(STRING)

LaunchInv ==
  /\ launch.home \in Paths /\ launch.cwd \in Paths /\ launch.tmpdir \in Paths
  /\ launch.writable \subseteq Paths /\ launch.read_only \subseteq Paths
  /\ launch.state \subseteq Paths

\* What validate_launch and prepare make of a spec.
LEMMA LaunchTypes ==
  ASSUME SandboxConstants, NEW spec \in Asked, NEW l,
         l \in {Validated(Caller, spec), Configured(Caller, spec)}
  PROVE  /\ l.home \in Paths /\ l.cwd \in Paths /\ l.tmpdir \in Paths
         /\ l.writable \subseteq Paths /\ l.read_only \subseteq Paths
         /\ l.state \subseteq Paths
  <1> DEFINE resolved(kind) == {Canonical(p) : p \in Named(spec, kind)}
  <1>1. \A kind : Named(spec, kind) \subseteq Paths
    BY DEF SandboxConstants, Named, Paths
  <1>2. \A kind : resolved(kind) \subseteq Paths
    BY <1>1, CanonicalType DEF Paths
  <1>3. Named(spec, "cwd") # {} /\ Named(spec, "tmpdir") # {}
    BY DEF SandboxConstants
  <1>4. Canonical(Home[Caller]) \in Paths
    BY CanonicalType, TreeAssumption DEF SandboxConstants, Paths
  <1>5. \A S : S # {} => One(S) \in S
    BY DEF One
  <1>6. One(Named(spec, "cwd")) \in Paths /\ One(Named(spec, "tmpdir")) \in Paths
    BY <1>1, <1>3, <1>5
  <1>7. resolved("cwd") # {} /\ resolved("tmpdir") # {}
    BY <1>3
  <1>8. One(resolved("cwd")) \in Paths /\ One(resolved("tmpdir")) \in Paths
    BY <1>2, <1>5, <1>7
  <1>9. CASE l = Validated(Caller, spec)
    <2>1. /\ l.home = Canonical(Home[Caller]) /\ l.cwd = One(resolved("cwd"))
          /\ l.tmpdir = One(resolved("tmpdir")) /\ l.writable = resolved("writable")
          /\ l.read_only = resolved("read_only") /\ l.state = Named(spec, "state_dir")
      BY <1>9 DEF Validated, Launch
    <2> HIDE DEF resolved
    <2> QED
      BY <1>1, <1>2, <1>4, <1>8, <2>1
  <1>10. CASE l = Configured(Caller, spec)
    <2>1. /\ l.home = Canonical(Home[Caller]) /\ l.cwd = Canonical(One(Named(spec, "cwd")))
          /\ l.tmpdir = One(Named(spec, "tmpdir")) /\ l.writable = Named(spec, "writable")
          /\ l.read_only = Named(spec, "read_only") /\ l.state = Named(spec, "state_dir")
      BY <1>10 DEF Configured, Launch
    <2>2. l.cwd \in Paths
      BY <1>6, <2>1, CanonicalType DEF Paths
    <2> QED
      BY <1>1, <1>4, <1>6, <2>1, <2>2
  <1> QED
    BY <1>9, <1>10

LEMMA LaunchNext ==
  ASSUME SandboxConstants, RequestInv, LaunchInv, [SandboxNext]_sandboxVars
  PROVE  LaunchInv'
  <1>1. CASE UNCHANGED launch
    BY <1>1 DEF LaunchInv
  <1>2. CASE launch' \in {Validated(Caller, asked), Configured(Caller, asked)}
    BY <1>2, LaunchTypes DEF LaunchInv, RequestInv
  <1>3. launch' \in {launch, Validated(Caller, asked), Configured(Caller, asked)}
    BY DEF SandboxNext, sandboxVars, outcome, ValidatedByHelper, Prepared, Spawn,
           SetGroups, SetGid, SetUid, SandboxExec, NoNewPrivs, CreateRuleset, AddPathRule,
           NextLoop, RestrictSelf, ApplySeccomp, StepFails, AgentExits, Replace
  <1> QED
    BY <1>1, <1>2, <1>3

\* Every path of the policy is one.  (No prover here knows a string literal to
\* be of STRING.)
IsPath(p) == \E S : p \in Seq(S)

LEMMA PolicyPaths ==
  ASSUME LaunchInv,
         NEW p \in ReadOnlyPaths(launch) \cup WritablePaths(launch) \cup DeviceFiles
  PROVE  IsPath(p)
  <1>1. \A x, y : <<x>> \in Seq({x, y}) /\ <<x, y>> \in Seq({x, y})
    OBVIOUS
  <1>2. \A x, y : IsPath(<<x>>) /\ IsPath(<<x, y>>)
    BY <1>1 DEF IsPath
  <1>3. \A q \in Paths : IsPath(q)
    BY DEF Paths, IsPath
  <1> HIDE DEF IsPath, Paths
  <1>4. CASE p \in DeviceFiles
    BY <1>2, <1>4 DEF DeviceFiles
  <1>5. CASE p \in ReadOnlyPaths(launch)
    <2>1. p \in {<<d>> : d \in {"bin", "sbin", "usr", "lib", "lib64", "etc", "opt"}}
            \/ p = OwnProc \/ p = launch.home \/ p \in launch.read_only
      BY <1>5 DEF ReadOnlyPaths
    <2> QED
      BY <1>2, <1>3, <2>1 DEF OwnProc, LaunchInv
  <1>6. CASE p \in WritablePaths(launch)
    <2>1. \A entry \in launch.state : launch.home \o entry \in Paths
      BY WithinAppended DEF LaunchInv, Paths
    <2>2. PICK q \in {launch.cwd, launch.tmpdir, <<"tmp">>, <<"var", "tmp">>,
                      <<"dev", "pts">>, <<"dev", "shm">>}
                       \cup (IF launch.narrow THEN StateRoots(launch) ELSE {launch.home})
                       \cup launch.writable : p = Normalize(q)
      BY <1>6 DEF WritablePaths
    <2>3. \/ q \in {launch.cwd, launch.tmpdir, launch.home} \cup launch.writable
          \/ q \in {<<"tmp">>, <<"var", "tmp">>, <<"dev", "pts">>, <<"dev", "shm">>}
          \/ q \in StateRoots(launch)
      BY <2>2
    <2>4. IsPath(q)
      BY <1>2, <1>3, <2>1, <2>3 DEF StateRoots, LaunchInv
    <2> QED
      BY <2>2, <2>4, NormalizeType DEF IsPath
  <1> QED
    BY <1>4, <1>5, <1>6

-------------------------------------------------------------------------------
(* The Landlock rules.                                                      *)

ReadRules ==
  PathRules(ReadOnlyPaths(launch), ReadAccess(host.abi), ReadAccess(host.abi) \cap FileAccess)
BothAccess == ReadAccess(host.abi) \cup WriteAccess(host.abi)
WriteRules == PathRules(WritablePaths(launch), BothAccess, BothAccess \cap FileAccess)
DeviceRules == PathRules(DeviceFiles, BothAccess \cap FileAccess, BothAccess \cap FileAccess)
AllRules == ReadRules \cup WriteRules \cup DeviceRules

Pending == UNION {todo[i] : i \in DOMAIN todo}

\* Every rule that is not to come has landed on its path, if that exists.
LandedInv ==
  swapped = {} =>
    \A rule \in AllRules \ Pending :
      rule.path \in Tree => {rule.path} \X RightsOn(rule, rule.path) \subseteq rules

\* Nothing else has been granted, unless a symlink inside a path redirected it.
SoundInv ==
  ~Redirected =>
    \A r \in rules : \E rule \in AllRules :
      /\ rule.path \in Tree
      /\ r \in {rule.path} \X RightsOn(rule, rule.path)

RulesInv ==
  /\ refused = {}
  /\ stage \in {"asked", "validated", "groups", "gid", "uid", "sandbox", "ruleset"}
       => todo = <<>> /\ rules = {}
  /\ stage = "rules" => todo \in Seq(SUBSET AllRules)
  /\ stage \in {"seccomp", "running"} => todo = <<>>
  /\ stage \in {"rules", "seccomp", "running"} /\ host.platform = "linux"
       => LandedInv /\ SoundInv

SandboxInv == ConfinedInv /\ LaunchInv /\ RulesInv

LEMMA RulesOfPolicy ==
  ASSUME NEW rule \in AllRules
  PROVE  /\ rule.path \in ReadOnlyPaths(launch) \cup WritablePaths(launch) \cup DeviceFiles
         /\ rule.file # {} => rule.dir # {}
         /\ rule.dir \subseteq Handled(host.abi) /\ rule.file \subseteq rule.dir \cap FileAccess
         /\ "execute" \in rule.file
  BY DEF AllRules, ReadRules, WriteRules, DeviceRules, PathRules, BothAccess, ReadAccess,
         WriteAccess, Handled, FileAccess

\* The kernel takes every rule of the policy, whatever it lands on.
LEMMA NothingRefused ==
  ASSUME NEW rule \in AllRules, NEW t
  PROVE  ~KernelRefuses(host.abi, RightsOn(rule, t), t)
  BY RulesOfPolicy DEF KernelRefuses, RightsOn

\* A rule lands on its path or nowhere, unless a symlink inside it redirects.
LEMMA RuleTargets ==
  ASSUME NEW rule \in AllRules, ~Redirected,
         NEW t \in OpenRuleTarget(LinksNow, host.openat2, rule.path)
  PROVE  t = rule.path /\ rule.path \in Tree
  <1> DEFINE linked == {q \in DOMAIN LinksNow : Within(rule.path, q)}
  <1>1. rule.path \in ReadOnlyPaths(launch) \cup WritablePaths(launch) \cup DeviceFiles
    BY RulesOfPolicy
  <1>2. linked # {} => host.openat2 \/ rule.path \in linked
    BY <1>1 DEF Redirected
  <1> QED
    BY <1>2 DEF OpenRuleTarget

\* A path that exists is opened while nothing has been replaced.
LEMMA PathsAreOpened ==
  ASSUME NEW rule \in AllRules, swapped = {}, rule.path \in Tree
  PROVE  OpenRuleTarget(LinksNow, host.openat2, rule.path) = {rule.path}
  <1>1. DOMAIN LinksNow = DOMAIN Links
    BY DEF LinksNow
  <1>2. {q \in DOMAIN LinksNow : Within(rule.path, q)} = {}
    BY <1>1, TreeHasNoLinks
  <1> QED
    BY <1>2 DEF OpenRuleTarget

LEMMA RulesInit == ConfinedInv /\ SandboxInit => RulesInv
  BY DEF SandboxInit, Fresh, RulesInv

LEMMA AddPathRuleStep ==
  ASSUME ConfinedInv, RulesInv, AddPathRule
  PROVE  RulesInv'
  <1> DEFINE rule == CHOOSE r \in Head(todo) : TRUE
             targets == OpenRuleTarget(LinksNow, host.openat2, rule.path)
             bad == {t \in targets : KernelRefuses(host.abi, RightsOn(rule, t), t)}
  <1>1. /\ stage = "rules" /\ host.platform = "linux" /\ todo \in Seq(SUBSET AllRules)
        /\ todo # <<>> /\ Head(todo) # {}
    BY DEF AddPathRule, ConfinedInv, GuardsInv, RulesInv
  <1>2. Len(todo) \in Nat /\ 1 \in DOMAIN todo /\ Head(todo) = todo[1] /\ todo[1] \subseteq AllRules
    BY <1>1
  <1>3. rule \in todo[1] /\ rule \in AllRules /\ rule \in Pending
    BY <1>1, <1>2 DEF Pending
  <1>4. /\ rules' = rules \cup UNION {{t} \X RightsOn(rule, t) : t \in targets \ bad}
        /\ refused' = refused \cup bad
        /\ IF bad = {} THEN stage' = stage ELSE stage' = "failed"
        /\ todo' = [todo EXCEPT ![1] = @ \ {rule}]
        /\ UNCHANGED <<host, asked, launch, environment, creds, guards, swapped>>
    BY DEF AddPathRule, request, outcome, process
  <1> HIDE DEF rule
  <1>5. bad = {}
    BY <1>3, NothingRefused
  <1> HIDE DEF targets, bad
  <1>6. AllRules' = AllRules /\ (Redirected' <=> Redirected)
    BY <1>4 DEF AllRules, ReadRules, WriteRules, DeviceRules, BothAccess, Redirected, LinksNow
  <1>7. todo' \in Seq(SUBSET AllRules)
    <2>1. todo[1] \ {rule} \in SUBSET AllRules
      BY <1>2
    <2> QED
      BY <1>1, <1>4, <2>1
  <1>8. Pending \ {rule} \subseteq Pending'
    <2>1. DOMAIN todo' = DOMAIN todo /\ todo'[1] = todo[1] \ {rule}
          /\ \A i \in DOMAIN todo : i # 1 => todo'[i] = todo[i]
      BY <1>1, <1>2, <1>4
    <2> SUFFICES ASSUME NEW r \in Pending, r # rule PROVE r \in Pending'
      OBVIOUS
    <2>2. PICK i \in DOMAIN todo : r \in todo[i]
      BY DEF Pending
    <2>3. r \in todo'[i]
      BY <2>1, <2>2
    <2> QED
      BY <2>1, <2>3 DEF Pending
  <1>9. LandedInv'
    <2> SUFFICES ASSUME swapped = {}, NEW r \in AllRules, r \notin Pending', r.path \in Tree
                 PROVE  {r.path} \X RightsOn(r, r.path) \subseteq rules'
      BY <1>4, <1>6 DEF LandedInv, RightsOn
    <2>1. CASE r = rule
      <3>1. targets = {r.path}
        BY <1>3, <2>1, PathsAreOpened DEF targets
      <3> QED
        BY <1>4, <1>5, <2>1, <3>1
    <2>2. CASE r # rule
      <3>1. r \notin Pending
        BY <1>8, <2>2
      <3>2. LandedInv
        BY <1>1 DEF RulesInv
      <3> QED
        BY <1>4, <3>1, <3>2 DEF LandedInv
    <2> QED
      BY <2>1, <2>2
  <1>10. SoundInv'
    <2> SUFFICES ASSUME ~Redirected, NEW r \in rules'
                 PROVE  \E o \in AllRules : /\ o.path \in Tree
                                            /\ r \in {o.path} \X RightsOn(o, o.path)
      BY <1>6 DEF SoundInv, RightsOn
    <2>1. CASE r \in rules
      BY <1>1, <2>1 DEF RulesInv, SoundInv
    <2>2. CASE r \notin rules
      <3>1. PICK t \in targets : r \in {t} \X RightsOn(rule, t)
        BY <1>4, <2>2
      <3>2. t = rule.path /\ rule.path \in Tree
        BY <1>3, <3>1, RuleTargets DEF targets
      <3> QED
        BY <1>3, <3>1, <3>2
    <2> QED
      BY <2>1, <2>2
  <1> QED
    BY <1>1, <1>4, <1>5, <1>6, <1>7, <1>9, <1>10 DEF RulesInv

LEMMA NextLoopStep ==
  ASSUME ConfinedInv, RulesInv, NextLoop
  PROVE  RulesInv'
  <1>1. /\ stage = "rules" /\ host.platform = "linux" /\ todo \in Seq(SUBSET AllRules)
        /\ todo # <<>> /\ Head(todo) = {} /\ todo' = Tail(todo)
        /\ UNCHANGED <<host, stage, launch, rules, refused, swapped>>
    BY DEF NextLoop, ConfinedInv, GuardsInv, RulesInv, request, outcome
  <1>2. AllRules' = AllRules /\ (Redirected' <=> Redirected)
    BY <1>1 DEF AllRules, ReadRules, WriteRules, DeviceRules, BothAccess, Redirected, LinksNow
  <1>3. todo' \in Seq(SUBSET AllRules)
    BY <1>1
  <1>4. Pending \subseteq Pending'
    <2> SUFFICES ASSUME NEW r \in Pending PROVE r \in Pending'
      OBVIOUS
    <2>1. PICK i \in DOMAIN todo : r \in todo[i]
      BY DEF Pending
    <2>2. i \in 1..Len(todo) /\ i # 1 /\ Len(todo) \in Nat
      BY <1>1, <2>1
    <2>3. i - 1 \in 1..Len(todo) - 1 /\ DOMAIN todo' = 1..Len(todo) - 1
          /\ todo'[i - 1] = todo[i]
      BY <1>1, <2>2
    <2> QED
      BY <2>1, <2>3 DEF Pending
  <1>5. LandedInv' /\ SoundInv'
    <2>1. LandedInv /\ SoundInv
      BY <1>1 DEF RulesInv
    <2>2. LandedInv'
      BY <1>1, <1>2, <1>4, <2>1 DEF LandedInv, RightsOn
    <2>3. SoundInv'
      BY <1>1, <1>2, <2>1 DEF SoundInv, RightsOn
    <2> QED
      BY <2>2, <2>3
  <1> QED
    BY <1>1, <1>2, <1>3, <1>5 DEF RulesInv

LEMMA CreateRulesetStep ==
  ASSUME ConfinedInv, RulesInv, CreateRuleset
  PROVE  RulesInv'
  <1>1. /\ stage = "ruleset" /\ rules = {} /\ todo = <<>> /\ refused = {}
        /\ \/ stage' = "failed"
           \/ stage' = "rules" /\ todo' = RuleLoops(launch, host.abi)
        /\ UNCHANGED <<host, launch, rules, refused>>
    BY DEF CreateRuleset, RulesInv, request, outcome
  <1>2. CASE stage' = "failed"
    BY <1>1, <1>2 DEF RulesInv
  <1>3. CASE todo' = RuleLoops(launch, host.abi) /\ stage' = "rules"
    <2>1. AllRules' = AllRules
      BY <1>1 DEF AllRules, ReadRules, WriteRules, DeviceRules, BothAccess
    <2>2. todo' = <<ReadRules, WriteRules, DeviceRules>>
      BY <1>3 DEF RuleLoops, ReadRules, WriteRules, DeviceRules, BothAccess
    <2>3. ReadRules \subseteq AllRules /\ WriteRules \subseteq AllRules /\ DeviceRules \subseteq AllRules
      BY DEF AllRules
    <2>4. todo' \in Seq(SUBSET AllRules)
      BY <2>2, <2>3
    <2>5. AllRules \subseteq Pending'
      <3>1. /\ 1 \in DOMAIN todo' /\ 2 \in DOMAIN todo' /\ 3 \in DOMAIN todo'
            /\ todo'[1] = ReadRules /\ todo'[2] = WriteRules /\ todo'[3] = DeviceRules
        BY <2>2
      <3> QED
        BY <3>1 DEF Pending, AllRules
    <2>6. LandedInv' /\ SoundInv'
      BY <1>1, <2>1, <2>5 DEF LandedInv, SoundInv
    <2> QED
      BY <1>1, <1>3, <2>1, <2>4, <2>6 DEF RulesInv
  <1> QED
    BY <1>1, <1>2, <1>3

LEMMA ReplaceStep ==
  ASSUME RulesInv, Replace
  PROVE  RulesInv'
  <1>1. /\ swapped = {} /\ swapped' # {}
        /\ UNCHANGED <<host, stage, launch, todo, rules, refused>>
    BY DEF Replace, request, outcome, ruleset
  <1>2. AllRules' = AllRules
    BY <1>1 DEF AllRules, ReadRules, WriteRules, DeviceRules, BothAccess
  <1>3. Redirected => Redirected'
    <2>1. DOMAIN LinksNow \subseteq DOMAIN LinksNow'
      BY <1>1 DEF LinksNow
    <2> QED
      BY <1>1, <2>1 DEF Redirected
  <1>4. LandedInv'
    BY <1>1 DEF LandedInv
  <1>5. SoundInv => SoundInv'
    BY <1>1, <1>2, <1>3 DEF SoundInv, RightsOn
  <1> QED
    BY <1>1, <1>2, <1>4, <1>5 DEF RulesInv

LEMMA RulesNext == ConfinedInv /\ RulesInv /\ [SandboxNext]_sandboxVars => RulesInv'
  <1> SUFFICES ASSUME ConfinedInv, RulesInv, [SandboxNext]_sandboxVars PROVE RulesInv'
    OBVIOUS
  <1> USE DEF request, outcome, process, ruleset
  <1>1. CASE ValidatedByHelper \/ Prepared \/ Spawn \/ SetGroups \/ SetGid \/ SetUid \/ NoNewPrivs
    <2>1. /\ UNCHANGED <<todo, rules, refused>>
          /\ stage \in {"asked", "validated", "groups", "gid", "uid", "sandbox"}
          /\ stage' \in {"rejected", "validated", "groups", "gid", "uid", "sandbox", "ruleset"}
      BY <1>1 DEF ValidatedByHelper, Prepared, Spawn, SetGroups, SetGid, SetUid, NoNewPrivs
    <2> QED
      BY <2>1 DEF RulesInv
  <1>2. CASE SandboxExec
    <2>1. /\ UNCHANGED <<todo, rules, refused, host>> /\ stage = "sandbox" /\ stage' = "running"
          /\ host.platform = "macos"
      BY <1>2 DEF SandboxExec
    <2> QED
      BY <2>1 DEF RulesInv
  <1>3. CASE RestrictSelf \/ ApplySeccomp \/ UNCHANGED sandboxVars \/ AgentExits \/ StepFails
    <2>1. /\ UNCHANGED <<todo, rules, refused, host, launch, swapped>>
          /\ \/ stage = "rules" /\ todo = <<>> /\ stage' = "seccomp"
             \/ stage = "seccomp" /\ stage' = "running"
             \/ stage' = stage
             \/ stage' \in {"ended", "failed"}
      BY <1>3 DEF RestrictSelf, ApplySeccomp, AgentExits, StepFails, sandboxVars
    <2>2. AllRules' = AllRules /\ (LandedInv => LandedInv') /\ (SoundInv => SoundInv')
      <3>1. AllRules' = AllRules /\ (Redirected' <=> Redirected) /\ Pending' = Pending
        BY <2>1 DEF AllRules, ReadRules, WriteRules, DeviceRules, BothAccess, Redirected, LinksNow,
                    Pending
      <3> QED
        BY <2>1, <3>1 DEF LandedInv, SoundInv, RightsOn
    <2>3. stage = "seccomp" => host.platform = "linux"
      BY DEF ConfinedInv, GuardsInv
    <2> HIDE DEF LandedInv, SoundInv
    <2> QED
      BY <2>1, <2>2, <2>3 DEF RulesInv
  <1>4. CASE CreateRuleset
    BY <1>4, CreateRulesetStep
  <1>5. CASE AddPathRule
    BY <1>5, AddPathRuleStep
  <1>6. CASE NextLoop
    BY <1>6, NextLoopStep
  <1>7. CASE Replace
    BY <1>7, ReplaceStep
  <1> QED
    BY <1>1, <1>2, <1>3, <1>4, <1>5, <1>6, <1>7 DEF SandboxNext

\* What the rules grant beyond or short of the policy, once they are in force.
LEMMA RulesAreThePolicy ==
  ASSUME SandboxConstants, LaunchInv, RulesInv, Running("linux"), ~Redirected, NEW d \in Tree
  PROVE  LET enforced == Enforced(rules, d) \cap Applicable(d)
             intended == Intends(launch, host.abi, d) \cap Applicable(d)
         IN /\ enforced \subseteq intended
            /\ swapped = {} => enforced = intended
  <1> DEFINE enforced == Enforced(rules, d) \cap Applicable(d)
             intended == Intends(launch, host.abi, d) \cap Applicable(d)
  <1>1. LandedInv /\ SoundInv /\ Pending = {}
    <2>1. todo = <<>> /\ LandedInv /\ SoundInv
      BY DEF RulesInv, Running
    <2> QED
      BY <2>1 DEF Pending
  <1>2. ASSUME NEW rule \in AllRules, Within(d, rule.path)
        PROVE  /\ rule.path \in Tree /\ (rule.path \in Files => rule.path = d)
               /\ RightsOn(rule, rule.path) \cap Applicable(d) = rule.dir \cap Applicable(d)
    <2>1. PICK S : rule.path \in Seq(S)
      BY RulesOfPolicy, PolicyPaths DEF IsPath
    <2>2. rule.path \in Tree /\ (rule.path \in Files => rule.path = d)
      BY <1>2, <2>1, ParentsExist
    <2>3. rule.path \in Files => rule.file = rule.dir \cap FileAccess
      BY DEF AllRules, ReadRules, WriteRules, DeviceRules, PathRules, FileAccess
    <2> QED
      BY <2>2, <2>3 DEF RightsOn, Applicable
  <1>3. ASSUME NEW right \in enforced
        PROVE  right \in intended
    <2>1. PICK r \in rules : r[2] = right /\ Within(d, r[1])
      BY DEF Enforced
    <2>2. PICK rule \in AllRules : r \in {rule.path} \X RightsOn(rule, rule.path)
      BY <1>1 DEF SoundInv
    <2>3. Within(d, rule.path) /\ right \in rule.dir /\ right \in Applicable(d)
      BY <1>2, <2>1, <2>2
    <2>4. CASE rule \in ReadRules
      BY <2>3, <2>4 DEF ReadRules, PathRules, Intends, Under
    <2>5. CASE rule \in WriteRules
      BY <2>3, <2>5 DEF WriteRules, PathRules, BothAccess, Intends, Under
    <2>6. CASE rule \in DeviceRules
      <3>1. rule.path \in DeviceFiles \cap Tree /\ rule.dir \subseteq Handled(host.abi)
        BY <1>2, <2>3, <2>6 DEF DeviceRules, PathRules, BothAccess, ReadAccess, WriteAccess
      <3>2. d = rule.path
        BY <1>2, <2>3, <3>1 DEF SandboxConstants
      <3> QED
        BY <2>3, <3>1, <3>2 DEF Intends
    <2> QED
      BY <2>4, <2>5, <2>6 DEF AllRules
  <1>4. ASSUME swapped = {}, NEW right \in intended
        PROVE  right \in enforced
    <2>1. ASSUME NEW rule \in AllRules, Within(d, rule.path), right \in rule.dir
          PROVE  right \in enforced
      <3>1. <<rule.path, right>> \in rules
        BY <1>1, <1>2, <1>4, <2>1 DEF LandedInv
      <3> QED
        BY <1>4, <2>1, <3>1 DEF Enforced
    <2>2. \/ right \in ReadAccess(host.abi) /\ Under(d, ReadOnlyPaths(launch))
          \/ right \in BothAccess /\ Under(d, WritablePaths(launch))
          \/ right \in Handled(host.abi) /\ d \in DeviceFiles /\ right \in FileAccess
      BY <1>4 DEF Intends, Under, BothAccess, SandboxConstants, Applicable
    <2>3. CASE right \in ReadAccess(host.abi) /\ Under(d, ReadOnlyPaths(launch))
      <3>1. PICK p \in ReadOnlyPaths(launch) : Within(d, p)
        BY <2>3 DEF Under
      <3> DEFINE rule == [path |-> p, dir |-> ReadAccess(host.abi),
                          file |-> ReadAccess(host.abi) \cap FileAccess]
      <3>2. rule \in AllRules
        BY DEF AllRules, ReadRules, PathRules
      <3> QED
        BY <2>1, <2>3, <3>1, <3>2
    <2>4. CASE right \in BothAccess /\ Under(d, WritablePaths(launch))
      <3>1. PICK p \in WritablePaths(launch) : Within(d, p)
        BY <2>4 DEF Under
      <3> DEFINE rule == [path |-> p, dir |-> BothAccess, file |-> BothAccess \cap FileAccess]
      <3>2. rule \in AllRules
        BY DEF AllRules, WriteRules, PathRules
      <3> QED
        BY <2>1, <2>4, <3>1, <3>2
    <2>5. CASE right \in Handled(host.abi) /\ d \in DeviceFiles /\ right \in FileAccess
      <3> DEFINE rule == [path |-> d, dir |-> BothAccess \cap FileAccess,
                          file |-> BothAccess \cap FileAccess]
      <3>1. rule \in AllRules
        BY <2>5 DEF AllRules, DeviceRules, PathRules
      <3>2. Handled(host.abi) \subseteq BothAccess
        BY DEF Handled, BothAccess, ReadAccess, WriteAccess
      <3>3. Within(d, d)
        BY WithinSelf, TreeAssumption
      <3> QED
        BY <2>1, <2>5, <3>1, <3>2, <3>3
    <2> QED
      BY <2>2, <2>3, <2>4, <2>5
  <1> QED
    BY <1>3, <1>4

\* In every reachable state the child is as far confined as its stage says,
\* and every rule of its policy is still to come or in place.
THEOREM SandboxInvariance == ASSUME SandboxConstants PROVE SandboxSpec => []SandboxInv
  <1>1. SandboxInit => SandboxInv
    <2> SUFFICES ASSUME SandboxInit PROVE SandboxInv
      OBVIOUS
    <2>1. LaunchInv
      BY LaunchTypes DEF SandboxInit, Fresh, LaunchInv
    <2> QED
      BY <2>1, ConfinedInit, RulesInit DEF SandboxInv
  <1>2. SandboxInv /\ [SandboxNext]_sandboxVars => SandboxInv'
    BY ConfinedNext, LaunchNext, RulesNext DEF SandboxInv, ConfinedInv
  <1> QED
    BY <1>1, <1>2, PTL DEF SandboxSpec

\* The rules are the policy to the last right the kernel knows of, none of
\* them is refused, and a directory that was replaced by a symlink after it
\* was validated only ever takes rights away (apply_landlock).
THEOREM RulesAsPolicy == ASSUME SandboxConstants PROVE SandboxSpec => []LandlockAsPolicy
  <1>1. SandboxInv => LandlockAsPolicy
    <2> SUFFICES ASSUME SandboxInv PROVE LandlockAsPolicy
      OBVIOUS
    <2>1. refused = {}
      BY DEF SandboxInv, RulesInv
    <2> QED
      BY <2>1, RulesAreThePolicy DEF LandlockAsPolicy, SandboxInv
  <1> QED
    BY <1>1, SandboxInvariance, PTL
-------------------------------------------------------------------------------
(* The Seatbelt profile.  Of two sections one after the other the second     *)
(* decides wherever it says anything.                                       *)

Matches(rule, op, p) == op \in rule.ops /\ (p \in rule.paths \/ Under(p, rule.roots))

\* Whether section s says something of op on p, and whether it allows it.
Speaks(s, op, p) == Deciding(s, op, p) # {}
Allows(s, op, p) == LastAllows(s, Deciding(s, op, p))

IsSection(s) == \E R : s \in Seq(R)

LEMMA Sections ==
  /\ \A x, y, z : IsSection(<<x>>) /\ IsSection(<<x, y>>) /\ IsSection(<<x, y, z>>)
  /\ \A s, t : IsSection(s) /\ IsSection(t) =>
       /\ IsSection(s \o t) /\ Len(s) \in Nat /\ Len(t) \in Nat
       /\ Len(s \o t) = Len(s) + Len(t)
       /\ DOMAIN s = 1..Len(s) /\ DOMAIN t = 1..Len(t) /\ DOMAIN (s \o t) = 1..Len(s) + Len(t)
       /\ \A i \in 1..Len(s) : (s \o t)[i] = s[i]
       /\ \A i \in 1..Len(t) : (s \o t)[Len(s) + i] = t[i]
  <1>1. \A x, y, z : /\ <<x>> \in Seq({x}) /\ <<x, y>> \in Seq({x, y})
                     /\ <<x, y, z>> \in Seq({x, y, z})
    OBVIOUS
  <1>2. ASSUME NEW s, NEW t, IsSection(s), IsSection(t)
        PROVE  \E R : s \in Seq(R) /\ t \in Seq(R)
    <2>1. PICK A : s \in Seq(A)
      BY <1>2 DEF IsSection
    <2>2. PICK B : t \in Seq(B)
      BY <1>2 DEF IsSection
    <2>3. s \in Seq(A \cup B)
      BY <2>1
    <2>4. t \in Seq(A \cup B)
      BY <2>2
    <2> QED
      BY <2>3, <2>4
  <1>3. ASSUME NEW R, NEW s \in Seq(R), NEW t \in Seq(R)
        PROVE  /\ s \o t \in Seq(R) /\ Len(s) \in Nat /\ Len(t) \in Nat
               /\ Len(s \o t) = Len(s) + Len(t)
               /\ DOMAIN s = 1..Len(s) /\ DOMAIN t = 1..Len(t)
               /\ DOMAIN (s \o t) = 1..Len(s) + Len(t)
               /\ \A i \in 1..Len(s) : (s \o t)[i] = s[i]
               /\ \A i \in 1..Len(t) : (s \o t)[Len(s) + i] = t[i]
    <2>1. s \o t \in Seq(R) /\ Len(s) \in Nat /\ Len(t) \in Nat /\ Len(s \o t) = Len(s) + Len(t)
      OBVIOUS
    <2>2. /\ DOMAIN s = 1..Len(s) /\ DOMAIN t = 1..Len(t)
          /\ DOMAIN (s \o t) = 1..Len(s) + Len(t)
      BY <2>1
    <2>3. \A i \in 1..Len(s) : (s \o t)[i] = s[i]
      BY <2>1
    <2>4. \A i \in 1..Len(t) : (s \o t)[Len(s) + i] = t[i]
      BY <2>1
    <2> QED
      BY <2>1, <2>2, <2>3, <2>4
  <1>4. ASSUME NEW s, NEW t, IsSection(s), IsSection(t)
        PROVE  /\ IsSection(s \o t) /\ Len(s) \in Nat /\ Len(t) \in Nat
               /\ Len(s \o t) = Len(s) + Len(t)
               /\ DOMAIN s = 1..Len(s) /\ DOMAIN t = 1..Len(t)
               /\ DOMAIN (s \o t) = 1..Len(s) + Len(t)
               /\ \A i \in 1..Len(s) : (s \o t)[i] = s[i]
               /\ \A i \in 1..Len(t) : (s \o t)[Len(s) + i] = t[i]
    <2>1. PICK R : s \in Seq(R) /\ t \in Seq(R)
      BY <1>2, <1>4
    <2>2. s \o t \in Seq(R)
      BY <1>3, <2>1
    <2>3. IsSection(s \o t)
      BY <2>2 DEF IsSection
    <2> QED
      BY <1>3, <2>1, <2>3
  <1>5. \A x, y, z : IsSection(<<x>>) /\ IsSection(<<x, y>>) /\ IsSection(<<x, y, z>>)
    BY <1>1 DEF IsSection
  <1> QED
    BY <1>4, <1>5

\* The last rule that matches is the one LastAllows looks at.
LEMMA LastDecides ==
  ASSUME NEW s, NEW D, D \subseteq Nat, NEW i \in D, \A j \in D : j <= i
  PROVE  LastAllows(s, D) <=> s[i].allow
  <1>1. \A k \in D : (\A j \in D : j <= k) => k = i
    OBVIOUS
  <1>2. (CHOOSE k \in D : \A j \in D : j <= k) = i
    BY <1>1
  <1> QED
    BY <1>2 DEF LastAllows

LEMMA LastExists ==
  ASSUME NEW n \in Nat, NEW D, D \subseteq 1..n, D # {}
  PROVE  \E i \in D : \A j \in D : j <= i
  <1> DEFINE S == {n - i : i \in D}
  <1>1. S \subseteq Nat /\ S # {}
    <2>1. \A i \in D : n - i \in Nat
      OBVIOUS
    <2> QED
      BY <2>1
  <1> HIDE DEF S
  <1>2. PICK m \in S : \A k \in S : m <= k
    BY <1>1, LeastElement
  <1>3. PICK i \in D : m = n - i
    BY DEF S
  <1>4. \A j \in D : n - i <= n - j
    BY <1>2, <1>3 DEF S
  <1> QED
    BY <1>4

LEMMA LaterSectionDecides ==
  ASSUME NEW s, NEW t, IsSection(s), IsSection(t), NEW op, NEW p
  PROVE  /\ IsSection(s \o t)
         /\ Speaks(s \o t, op, p) <=> Speaks(s, op, p) \/ Speaks(t, op, p)
         /\ Allows(s \o t, op, p) <=> IF Speaks(t, op, p) THEN Allows(t, op, p)
                                      ELSE Allows(s, op, p)
  <1> DEFINE A == Deciding(s, op, p)
             B == Deciding(t, op, p)
             C == Deciding(s \o t, op, p)
  <1>1. /\ IsSection(s \o t) /\ Len(s) \in Nat /\ Len(t) \in Nat
        /\ DOMAIN s = 1..Len(s) /\ DOMAIN t = 1..Len(t) /\ DOMAIN (s \o t) = 1..Len(s) + Len(t)
        /\ \A i \in 1..Len(s) : (s \o t)[i] = s[i]
        /\ \A i \in 1..Len(t) : (s \o t)[Len(s) + i] = t[i]
    BY Sections
  <1>2. A \subseteq 1..Len(s) /\ B \subseteq 1..Len(t) /\ C \subseteq 1..Len(s) + Len(t)
    BY <1>1 DEF Deciding
  <1>3. \A i \in 1..Len(s) : i \in C <=> i \in A
    BY <1>1 DEF Deciding
  <1>4. \A i \in 1..Len(t) : Len(s) + i \in C <=> i \in B
    BY <1>1 DEF Deciding
  <1> HIDE DEF A, B, C
  <1>5. \A k \in C : k \in A \/ (k - Len(s) \in B /\ k = Len(s) + (k - Len(s)))
    <2> SUFFICES ASSUME NEW k \in C, k \notin A
                 PROVE  k - Len(s) \in B /\ k = Len(s) + (k - Len(s))
      OBVIOUS
    <2>1. k \in 1..Len(s) + Len(t) /\ k \notin 1..Len(s)
      BY <1>2, <1>3
    <2>2. k - Len(s) \in 1..Len(t) /\ k = Len(s) + (k - Len(s))
      BY <1>1, <2>1
    <2> QED
      BY <1>4, <2>2
  <1>6. C = {} <=> A = {} /\ B = {}
    BY <1>2, <1>3, <1>4, <1>5
  <1>0. A \subseteq Nat /\ B \subseteq Nat /\ C \subseteq Nat
    BY <1>1, <1>2
  <1>7. CASE B = {}
    <2>1. C = A
      BY <1>2, <1>3, <1>5, <1>7
    <2>2. ASSUME A = {} PROVE Allows(s \o t, op, p) <=> Allows(s, op, p)
      <3>1. ~LastAllows(s, A) /\ ~LastAllows(s \o t, C)
        BY <2>1, <2>2 DEF LastAllows
      <3> QED
        BY <3>1 DEF Allows, A, C
    <2>3. ASSUME A # {} PROVE Allows(s \o t, op, p) <=> Allows(s, op, p)
      <3>1. PICK i \in A : \A j \in A : j <= i
        BY <1>1, <1>2, <2>3, LastExists
      <3>2. LastAllows(s, A) <=> s[i].allow
        BY <1>0, <3>1, LastDecides
      <3>3. LastAllows(s \o t, A) <=> (s \o t)[i].allow
        BY <1>0, <3>1, LastDecides
      <3>4. (s \o t)[i] = s[i]
        BY <1>1, <1>2
      <3>5. LastAllows(s \o t, C) <=> LastAllows(s, A)
        BY <2>1, <3>2, <3>3, <3>4
      <3> QED
        BY <3>5 DEF Allows, A, C
    <2>4. Speaks(s \o t, op, p) <=> Speaks(s, op, p) \/ Speaks(t, op, p)
      BY <1>6 DEF Speaks, A, B, C
    <2>5. ~Speaks(t, op, p)
      BY <1>7 DEF Speaks, B
    <2> QED
      BY <1>1, <2>2, <2>3, <2>4, <2>5
  <1>8. CASE B # {}
    <2>1. PICK i \in B : \A j \in B : j <= i
      BY <1>1, <1>2, <1>8, LastExists
    <2>2. LastAllows(t, B) <=> t[i].allow
      BY <1>0, <2>1, LastDecides
    <2>3. Len(s) + i \in C /\ \A j \in C : j <= Len(s) + i
      <3>1. Len(s) + i \in C
        BY <1>2, <1>4
      <3>2. ASSUME NEW j \in C PROVE j <= Len(s) + i
        <4>1. CASE j \in A
          BY <1>1, <1>2, <4>1
        <4>2. CASE j - Len(s) \in B /\ j = Len(s) + (j - Len(s))
          <5>1. j - Len(s) <= i /\ j \in Nat /\ i \in Nat
            BY <1>2, <2>1, <4>2, <1>1
          <5> QED
            BY <1>1, <5>1
        <4> QED
          BY <1>5, <4>1, <4>2
      <3> QED
        BY <3>1, <3>2
    <2>4. LastAllows(s \o t, C) <=> (s \o t)[Len(s) + i].allow
      BY <1>0, <2>3, LastDecides
    <2>5. (s \o t)[Len(s) + i] = t[i]
      BY <1>1, <1>2
    <2>6. Allows(s \o t, op, p) <=> Allows(t, op, p)
      BY <2>2, <2>4, <2>5 DEF Allows, B, C
    <2>7. Speaks(s \o t, op, p) <=> Speaks(s, op, p) \/ Speaks(t, op, p)
      BY <1>6 DEF Speaks, A, B, C
    <2>8. Speaks(t, op, p)
      BY <1>8 DEF Speaks, B
    <2> QED
      BY <1>1, <2>6, <2>7, <2>8
  <1> QED
    BY <1>7, <1>8

LEMMA OneRule ==
  ASSUME NEW r, NEW op, NEW p
  PROVE  /\ IsSection(<<r>>)
         /\ Speaks(<<r>>, op, p) <=> Matches(r, op, p)
         /\ Allows(<<r>>, op, p) <=> Matches(r, op, p) /\ r.allow
  <1> DEFINE D == Deciding(<<r>>, op, p)
  <1>1. DOMAIN <<r>> = {1} /\ <<r>>[1] = r
    OBVIOUS
  <1>2. D = IF Matches(r, op, p) THEN {1} ELSE {}
    BY <1>1 DEF Deciding, Matches
  <1>3. D = {1} => (LastAllows(<<r>>, D) <=> r.allow)
    BY <1>1, LastDecides
  <1>4. IsSection(<<r>>)
    BY Sections
  <1> HIDE DEF D
  <1> QED
    BY <1>2, <1>3, <1>4 DEF Speaks, Allows, D, LastAllows

LEMMA TwoRules ==
  ASSUME NEW q, NEW r, NEW op, NEW p
  PROVE  /\ IsSection(<<q, r>>)
         /\ Speaks(<<q, r>>, op, p) <=> Matches(q, op, p) \/ Matches(r, op, p)
         /\ Allows(<<q, r>>, op, p) <=> IF Matches(r, op, p) THEN r.allow
                                        ELSE Matches(q, op, p) /\ q.allow
  <1> DEFINE D == Deciding(<<q, r>>, op, p)
  <1>1. DOMAIN <<q, r>> = {1, 2} /\ <<q, r>>[1] = q /\ <<q, r>>[2] = r
    OBVIOUS
  <1>2. /\ D \subseteq {1, 2}
        /\ 1 \in D <=> Matches(q, op, p)
        /\ 2 \in D <=> Matches(r, op, p)
    BY <1>1 DEF Deciding, Matches
  <1> HIDE DEF D
  <1>3. 2 \in D => (LastAllows(<<q, r>>, D) <=> r.allow)
    BY <1>1, <1>2, LastDecides
  <1>4. D = {1} => (LastAllows(<<q, r>>, D) <=> q.allow)
    BY <1>1, LastDecides
  <1>5. IsSection(<<q, r>>)
    BY Sections
  <1>6. D = {} \/ D = {1} \/ 2 \in D
    BY <1>2
  <1> QED
    BY <1>2, <1>3, <1>4, <1>5, <1>6 DEF Speaks, Allows, D, LastAllows

LEMMA ThreeRules ==
  ASSUME NEW o, NEW q, NEW r, NEW op, NEW p
  PROVE  /\ IsSection(<<o, q, r>>)
         /\ Speaks(<<o, q, r>>, op, p)
              <=> Matches(o, op, p) \/ Matches(q, op, p) \/ Matches(r, op, p)
         /\ Allows(<<o, q, r>>, op, p) <=> IF Matches(r, op, p) THEN r.allow
                                           ELSE IF Matches(q, op, p) THEN q.allow
                                           ELSE Matches(o, op, p) /\ o.allow
  <1> DEFINE s == <<o, q, r>>
             D == Deciding(s, op, p)
  <1>1. DOMAIN s = {1, 2, 3} /\ s[1] = o /\ s[2] = q /\ s[3] = r
    OBVIOUS
  <1> HIDE DEF s
  <1>2. /\ D \subseteq {1, 2, 3}
        /\ 1 \in D <=> Matches(o, op, p)
        /\ 2 \in D <=> Matches(q, op, p)
        /\ 3 \in D <=> Matches(r, op, p)
    BY <1>1 DEF Deciding, Matches
  <1> HIDE DEF D
  <1>0. D \subseteq Nat
    BY <1>2
  <1>3. ASSUME 3 \in D PROVE LastAllows(s, D) <=> r.allow
    <2>1. \A j \in D : j <= 3
      BY <1>2
    <2>2. LastAllows(s, D) <=> s[3].allow
      BY <1>0, <1>3, <2>1, LastDecides
    <2> QED
      BY <1>1, <2>2
  <1>4. ASSUME 2 \in D, 3 \notin D PROVE LastAllows(s, D) <=> q.allow
    <2>1. \A j \in D : j <= 2
      BY <1>2, <1>4
    <2>2. LastAllows(s, D) <=> s[2].allow
      BY <1>0, <1>4, <2>1, LastDecides
    <2> QED
      BY <1>1, <2>2
  <1>5. D = {1} => (LastAllows(s, D) <=> o.allow)
    BY <1>1, LastDecides
  <1>6. IsSection(s)
    BY Sections DEF s
  <1>7. D = {} \/ D = {1} \/ 2 \in D \/ 3 \in D
    BY <1>2
  <1> QED
    BY <1>2, <1>3, <1>4, <1>5, <1>6, <1>7 DEF Speaks, Allows, D, LastAllows, s

LEMMA AllowMatches ==
  ASSUME NEW ops, NEW trees, NEW op, NEW p
  PROVE  Matches(Allow(ops, trees), op, p) <=> op \in ops /\ Under(p, trees)
  BY DEF Matches, Rule, Allow

LEMMA UnderParts ==
  ASSUME NEW p, NEW X, NEW Y, NEW x
  PROVE  /\ Under(p, X \cup Y) <=> Under(p, X) \/ Under(p, Y)
         /\ Under(p, {x}) <=> Within(p, x)
         /\ ~Under(p, {})
  BY DEF Under

\* What the sections say together: the denies first, then what is given back
\* of the zones, then every grant, in whatever order.
LEMMA ProfileByRule ==
  ASSUME NEW l, NEW op \in EveryFileOp, NEW p \in Seq(STRING)
  PROVE  Permits(Profile(l), op, p) <=>
           /\ ~Under(p, l.deny) /\ p \notin IdentityPaths(l) /\ ~Within(p, ByHost(l))
           /\ \/ op = "read" /\ p \in UtcData
              \/ /\ ~(op = "read" /\ Under(p, TimezoneTrees))
                 /\ \/ op = "metadata"
                    \/ op = "read" /\ (p = Root \/ Under(p, SystemReads))
                    \/ op = "read" /\ l.narrow /\ Within(p, l.home)
                    \/ /\ op \in ReadWrite
                       /\ \/ Under(p, IF l.narrow THEN StateRoots(l) ELSE {l.home})
                          \/ Under(p, {l.cwd, l.tmpdir, Homebrew} \cup l.writable)
                          \/ p \in DeviceNodes \/ Under(p, ScratchRoots)
                    \/ op = "read" /\ (Under(p, SharedReads) \/ Under(p, l.read_only))
  <1> DEFINE roots == {l.cwd, l.tmpdir, Homebrew} \cup l.writable
             metadata == Rule(TRUE, {"metadata"}, {}, {Root})
             root == Rule(TRUE, {"read"}, {Root}, {})
             system == Allow({"read"}, SystemReads)
             first == <<metadata, root, system>>
             home == Allow({"read"}, {l.home})
             narrow == Allow(ReadWrite, StateRoots(l) \cup roots)
             wide == Allow(ReadWrite, {l.home} \cup roots)
             device == Rule(TRUE, ReadWrite, DeviceNodes, ScratchRoots)
             shared == Allow({"read"}, SharedReads)
             middle == <<device, shared>>
             read == Allow({"read"}, l.read_only)
             zones == Rule(FALSE, {"read"}, {}, TimezoneTrees)
             utc == Rule(TRUE, {"read"}, UtcData, {})
             identity == Rule(FALSE, EveryFileOp, IdentityPaths(l), {ByHost(l)})
             deny == Rule(FALSE, EveryFileOp, {}, l.deny)
             M(rule) == Matches(rule, op, p)
             A(s) == Allows(s, op, p)
             S(s) == Speaks(s, op, p)
  <1>1. /\ IsSection(first)
        /\ S(first) <=> M(metadata) \/ M(root) \/ M(system)
        /\ A(first) <=> IF M(system) THEN TRUE ELSE IF M(root) THEN TRUE ELSE M(metadata)
    <2>1. metadata.allow = TRUE /\ root.allow = TRUE /\ system.allow = TRUE
      BY DEF Allow, Rule
    <2> HIDE DEF metadata, root, system
    <2> QED
      BY <2>1, ThreeRules
  <1>2. /\ IsSection(HomeWriteSection(l))
        /\ S(HomeWriteSection(l)) <=> A(HomeWriteSection(l))
        /\ A(HomeWriteSection(l)) <=> IF l.narrow THEN M(home) \/ M(narrow) ELSE M(wide)
    <2>1. CASE l.narrow
      <3>1. HomeWriteSection(l) = <<home, narrow>>
        BY <2>1 DEF HomeWriteSection
      <3>2. home.allow = TRUE /\ narrow.allow = TRUE
        BY DEF Allow, Rule
      <3> HIDE DEF home, narrow
      <3> QED
        BY <2>1, <3>1, <3>2, TwoRules
    <2>2. CASE ~l.narrow
      <3>1. HomeWriteSection(l) = <<wide>>
        BY <2>2 DEF HomeWriteSection
      <3>2. wide.allow = TRUE
        BY DEF Allow, Rule
      <3> HIDE DEF wide
      <3> QED
        BY <2>2, <3>1, <3>2, OneRule
    <2> QED
      BY <2>1, <2>2
  <1>3. /\ IsSection(middle)
        /\ S(middle) <=> M(device) \/ M(shared)
        /\ A(middle) <=> M(device) \/ M(shared)
    <2>1. device.allow = TRUE /\ shared.allow = TRUE
      BY DEF Allow, Rule
    <2> HIDE DEF device, shared
    <2> QED
      BY <2>1, TwoRules
  <1>4. /\ IsSection(ReadOnlySection(l))
        /\ S(ReadOnlySection(l)) <=> M(read)
        /\ A(ReadOnlySection(l)) <=> M(read)
    <2>1. read.allow = TRUE
      BY DEF Allow, Rule
    <2> HIDE DEF read
    <2> QED
      BY <2>1, OneRule DEF ReadOnlySection, read
  <1>5. /\ IsSection(TimezoneSection)
        /\ S(TimezoneSection) <=> M(zones) \/ M(utc)
        /\ A(TimezoneSection) <=> M(utc)
    <2>1. zones.allow = FALSE /\ utc.allow = TRUE /\ TimezoneSection = <<zones, utc>>
      BY DEF Rule, TimezoneSection
    <2> HIDE DEF zones, utc
    <2> QED
      BY <2>1, TwoRules
  <1>6. /\ IsSection(IdentitySection(l))
        /\ S(IdentitySection(l)) <=> M(identity)
        /\ ~A(IdentitySection(l))
    <2>1. identity.allow = FALSE /\ IdentitySection(l) = <<identity>>
      BY DEF Rule, IdentitySection
    <2> HIDE DEF identity
    <2> QED
      BY <2>1, OneRule
  <1>7. /\ IsSection(DenySection(l))
        /\ S(DenySection(l)) <=> M(deny)
        /\ ~A(DenySection(l))
    <2>1. deny.allow = FALSE /\ DenySection(l) = <<deny>>
      BY DEF Rule, DenySection
    <2> HIDE DEF deny
    <2> QED
      BY <2>1, OneRule
  <1>0. /\ M(metadata) <=> op = "metadata"
        /\ M(root) <=> op = "read" /\ p = Root
        /\ M(system) <=> op = "read" /\ Under(p, SystemReads)
        /\ M(home) <=> op = "read" /\ Within(p, l.home)
        /\ M(narrow) <=> op \in ReadWrite /\ (Under(p, StateRoots(l)) \/ Under(p, roots))
        /\ M(wide) <=> op \in ReadWrite /\ (Within(p, l.home) \/ Under(p, roots))
        /\ M(device) <=> op \in ReadWrite /\ (p \in DeviceNodes \/ Under(p, ScratchRoots))
        /\ M(shared) <=> op = "read" /\ Under(p, SharedReads)
        /\ M(read) <=> op = "read" /\ Under(p, l.read_only)
        /\ M(zones) <=> op = "read" /\ Under(p, TimezoneTrees)
        /\ M(utc) <=> op = "read" /\ p \in UtcData
        /\ M(identity) <=> p \in IdentityPaths(l) \/ Within(p, ByHost(l))
        /\ M(deny) <=> Under(p, l.deny)
    <2>1. Within(p, Root)
      BY WithinSelf
    <2> HIDE DEF roots
    <2>2. /\ M(metadata) <=> op \in {"metadata"} /\ (p \in {} \/ Under(p, {Root}))
          /\ M(root) <=> op \in {"read"} /\ (p \in {Root} \/ Under(p, {}))
          /\ M(utc) <=> op \in {"read"} /\ (p \in UtcData \/ Under(p, {}))
      BY DEF Matches, Rule
    <2>3. /\ M(system) <=> op \in {"read"} /\ Under(p, SystemReads)
          /\ M(home) <=> op \in {"read"} /\ Under(p, {l.home})
          /\ M(shared) <=> op \in {"read"} /\ Under(p, SharedReads)
          /\ M(read) <=> op \in {"read"} /\ Under(p, l.read_only)
      BY AllowMatches, Zenon
    <2>4. /\ M(narrow) <=> op \in ReadWrite /\ Under(p, StateRoots(l) \cup roots)
          /\ M(wide) <=> op \in ReadWrite /\ Under(p, {l.home} \cup roots)
      BY AllowMatches, Zenon
    <2>5. /\ M(device) <=> op \in ReadWrite /\ (p \in DeviceNodes \/ Under(p, ScratchRoots))
          /\ M(zones) <=> op \in {"read"} /\ (p \in {} \/ Under(p, TimezoneTrees))
          /\ M(identity) <=> op \in EveryFileOp /\ (p \in IdentityPaths(l) \/ Under(p, {ByHost(l)}))
          /\ M(deny) <=> op \in EveryFileOp /\ (p \in {} \/ Under(p, l.deny))
      BY DEF Matches, Rule
    <2> HIDE DEF M, metadata, root, system, home, narrow, wide, device, shared, read, zones, utc,
             identity, deny
    <2>6. /\ M(metadata) <=> op = "metadata"
          /\ M(root) <=> op = "read" /\ p = Root
          /\ M(utc) <=> op = "read" /\ p \in UtcData
      BY <2>1, <2>2, UnderParts
    <2>7. /\ M(system) <=> op = "read" /\ Under(p, SystemReads)
          /\ M(home) <=> op = "read" /\ Within(p, l.home)
          /\ M(shared) <=> op = "read" /\ Under(p, SharedReads)
          /\ M(read) <=> op = "read" /\ Under(p, l.read_only)
      BY <2>3, UnderParts
    <2>8. /\ M(narrow) <=> op \in ReadWrite /\ (Under(p, StateRoots(l)) \/ Under(p, roots))
          /\ M(wide) <=> op \in ReadWrite /\ (Within(p, l.home) \/ Under(p, roots))
      BY <2>4 DEF Under
    <2>9. /\ M(device) <=> op \in ReadWrite /\ (p \in DeviceNodes \/ Under(p, ScratchRoots))
          /\ M(zones) <=> op = "read" /\ Under(p, TimezoneTrees)
      BY <2>5
    <2>10. /\ M(identity) <=> p \in IdentityPaths(l) \/ Within(p, ByHost(l))
           /\ M(deny) <=> Under(p, l.deny)
      BY <2>5, UnderParts
    <2> QED
      BY <2>6, <2>7, <2>8, <2>9, <2>10
  <1> HIDE DEF M, A, S, first, middle, metadata, root, system, home, narrow, wide, device, shared,
           read, zones, utc, identity, deny
  <1> DEFINE u1 == ReadOnlySection(l) \o TimezoneSection
             u2 == u1 \o IdentitySection(l)
             p1 == first \o HomeWriteSection(l)
             p2 == p1 \o middle
  <1>8. \A s, t : IsSection(s) /\ IsSection(t) =>
          /\ IsSection(s \o t) /\ (S(s \o t) <=> S(s) \/ S(t))
          /\ A(s \o t) <=> IF S(t) THEN A(t) ELSE A(s)
    BY LaterSectionDecides DEF A, S
  <1>9. /\ IsSection(u1) /\ (S(u1) <=> M(read) \/ M(zones) \/ M(utc))
        /\ A(u1) <=> M(utc) \/ (~M(zones) /\ M(read))
    BY <1>4, <1>5, <1>8
  <1> HIDE DEF u1
  <1>10. /\ IsSection(u2) /\ (S(u2) <=> M(identity) \/ M(read) \/ M(zones) \/ M(utc))
         /\ A(u2) <=> ~M(identity) /\ (M(utc) \/ (~M(zones) /\ M(read)))
    BY <1>6, <1>8, <1>9
  <1> HIDE DEF u2
  <1>11. /\ IsSection(UserSections(l))
         /\ S(UserSections(l)) <=> M(deny) \/ M(identity) \/ M(read) \/ M(zones) \/ M(utc)
         /\ A(UserSections(l)) <=>
              ~M(deny) /\ ~M(identity) /\ (M(utc) \/ (~M(zones) /\ M(read)))
    <2>1. UserSections(l) = u2 \o DenySection(l)
      BY DEF UserSections, u1, u2
    <2> QED
      BY <1>7, <1>8, <1>10, <2>1
  <1>12. /\ IsSection(p1)
         /\ S(p1) <=> M(metadata) \/ M(root) \/ M(system) \/ A(HomeWriteSection(l))
         /\ A(p1) <=> M(metadata) \/ M(root) \/ M(system) \/ A(HomeWriteSection(l))
    BY <1>1, <1>2, <1>8
  <1> HIDE DEF p1
  <1>13. /\ IsSection(p2)
         /\ S(p2) <=> S(p1) \/ M(device) \/ M(shared)
         /\ A(p2) <=> A(p1) \/ M(device) \/ M(shared)
    BY <1>3, <1>8, <1>12
  <1> HIDE DEF p2
  <1> DEFINE grants == \/ M(metadata) \/ M(root) \/ M(system) \/ A(HomeWriteSection(l))
                       \/ M(device) \/ M(shared) \/ M(read)
  <1>14. /\ Speaks(Profile(l), op, p)
              <=> grants \/ M(deny) \/ M(identity) \/ M(zones) \/ M(utc)
         /\ Allows(Profile(l), op, p) <=>
              ~M(deny) /\ ~M(identity) /\ (M(utc) \/ (~M(zones) /\ grants))
    <2>1. Profile(l) = p2 \o UserSections(l)
      BY DEF Profile, p1, p2, first, middle, metadata, root, system, device, shared
    <2>2. /\ S(Profile(l)) <=> S(p2) \/ S(UserSections(l))
          /\ A(Profile(l)) <=> IF S(UserSections(l)) THEN A(UserSections(l)) ELSE A(p2)
      BY <1>8, <1>11, <1>13, <2>1
    <2>3. /\ S(Profile(l)) <=> grants \/ M(deny) \/ M(identity) \/ M(zones) \/ M(utc)
          /\ A(Profile(l)) <=>
               ~M(deny) /\ ~M(identity) /\ (M(utc) \/ (~M(zones) /\ grants))
      BY <1>11, <1>12, <1>13, <2>2
    <2> QED
      BY <2>3 DEF A, S
  <1> HIDE DEF grants
  <1>15. Permits(Profile(l), op, p) <=> Allows(Profile(l), op, p)
    <2>1. op = "metadata" => Speaks(Profile(l), op, p)
      BY <1>0, <1>14 DEF grants
    <2> QED
      BY <2>1 DEF Permits, Speaks, Allows
  <1>16. grants <=>
           \/ op = "metadata"
           \/ op = "read" /\ (p = Root \/ Under(p, SystemReads))
           \/ op = "read" /\ l.narrow /\ Within(p, l.home)
           \/ /\ op \in ReadWrite
              /\ \/ Under(p, IF l.narrow THEN StateRoots(l) ELSE {l.home})
                 \/ Under(p, roots)
                 \/ p \in DeviceNodes \/ Under(p, ScratchRoots)
           \/ op = "read" /\ (Under(p, SharedReads) \/ Under(p, l.read_only))
    <2>1. Under(p, {l.home}) <=> Within(p, l.home)
      BY DEF Under
    <2>2. CASE l.narrow
      BY <1>0, <1>2, <2>2 DEF grants
    <2>3. CASE ~l.narrow
      BY <1>0, <1>2, <2>1, <2>3 DEF grants
    <2> QED
      BY <2>2, <2>3
  <1> QED
    BY <1>0, <1>14, <1>15, <1>16

\* Whatever a launch grants and denies: the profile permits what the policy
\* means, on every path there is (SandboxProfile::render).
LEMMA ProfilesAreThePolicy ==
  ASSUME SandboxConstants, NEW l
  PROVE  ProfileIsPolicy(l)
  <1> SUFFICES ASSUME NEW op \in EveryFileOp, NEW p \in Objects
               PROVE  Permits(Profile(l), op, p) <=> Intended(l, op, p)
    BY DEF ProfileIsPolicy
  <1>1. p \in Seq(STRING)
    BY TreeAssumption DEF Objects
  <1>2. Under(p, DeviceNodes) <=> p \in DeviceNodes
    BY <1>1, WithinSelf DEF SandboxConstants, Under
  <1>3. p \in UtcData => Under(p, TimezoneTrees)
    BY DEF UtcData, Under
  <1>4. Under(p, l.deny) \/ p \in IdentityPaths(l) \/ Within(p, ByHost(l)) <=> Forbidden(l, p)
    BY DEF Forbidden
  <1> DEFINE own == Under(p, IF l.narrow THEN StateRoots(l) ELSE {l.home})
             asked_for == Under(p, {l.cwd, l.tmpdir, Homebrew} \cup l.writable)
  <1>5. Under(p, WriteRoots(l)) <=>
          own \/ asked_for \/ p \in DeviceNodes \/ Under(p, ScratchRoots)
    BY <1>2 DEF WriteRoots, Under
  <1>6. Under(p, WriteRoots(l) \cup {l.home} \cup l.read_only \cup SystemReads \cup SharedReads)
          <=> \/ Under(p, WriteRoots(l)) \/ Within(p, l.home) \/ Under(p, l.read_only)
              \/ Under(p, SystemReads) \/ Under(p, SharedReads)
    BY DEF Under
  <1>7. ~l.narrow /\ Within(p, l.home) => own
    BY DEF Under
  <1> HIDE DEF own, asked_for
  <1>8. CASE op = "metadata"
    BY <1>1, <1>4, <1>8, ProfileByRule DEF Intended, ReadWrite
  <1>9. CASE op = "write"
    BY <1>1, <1>4, <1>5, <1>9, ProfileByRule DEF Intended, ReadWrite, own, asked_for
  <1>10. CASE op = "read"
    BY <1>1, <1>3, <1>4, <1>5, <1>6, <1>7, <1>10, ProfileByRule
    DEF Intended, ReadWrite, own, asked_for
  <1> QED
    BY <1>8, <1>9, <1>10 DEF EveryFileOp

\* On macOS, an agent runs under a profile that means its policy: a deny beats
\* every grant, and what tells the machine apart is nobody's to read.
THEOREM ProfileAsPolicy == ASSUME SandboxConstants PROVE SandboxSpec => []SeatbeltAsPolicy
  <1>1. SeatbeltAsPolicy
    BY ProfilesAreThePolicy DEF SeatbeltAsPolicy
  <1> QED
    BY <1>1, PTL

-------------------------------------------------------------------------------
(* The seccomp filter: a program with jumps, for any call.                  *)

\* What an instruction comes to, when from has what the later ones do.
Interpreted(from, i, at, acc, call) ==
  CASE i.do = "return" -> i.verdict
    [] i.do = "load" -> from[at + 1][call[i.field]]
    [] i.do = "mask" -> from[at + 1][acc % TypeMask]
    [] OTHER -> from[at + 1 + (IF acc = i.k THEN i.jt ELSE i.jf)][acc]

\* from is the function Verdict computes with, as far as the end from n on.
IsRun(from, n, program, call) ==
  from = [at \in n..Len(program) |->
            [acc \in Nat |-> Interpreted(from, program[at], at, acc, call)]]

\* An instruction that returns, or goes on to one of the room ones after it, on a
\* call of numbers.
GoesOn(i, room, call) ==
  \/ i.do = "return"
  \/ i.do = "load" /\ call[i.field] \in Nat /\ room > 0
  \/ i.do = "mask" /\ room > 0
  \/ i.do = "jump" /\ i.jt \in 0..room - 1 /\ i.jf \in 0..room - 1

\* Every path through the program ends in an instruction that returns.
Returns(program, call) ==
  \A at \in 1..Len(program) : GoesOn(program[at], Len(program) - at, call)

\* What an instruction comes to depends on the later ones only.
LEMMA LooksAhead ==
  ASSUME NEW T, NEW program \in Seq(T), NEW call, Returns(program, call),
         NEW at \in 1..Len(program), NEW acc \in Nat,
         NEW f, NEW g, \A j \in at + 1..Len(program) : f[j] = g[j]
  PROVE  Interpreted(f, program[at], at, acc, call) = Interpreted(g, program[at], at, acc, call)
  <1> DEFINE i == program[at]
             room == Len(program) - at
  <1>1. CASE i.do = "return"
    BY <1>1 DEF Interpreted
  <1>2. CASE room > 0 /\ i.do \in {"load", "mask"}
    <2>1. f[at + 1] = g[at + 1]
      BY <1>2
    <2> QED
      BY <1>2, <2>1 DEF Interpreted
  <1>3. CASE i.do = "jump" /\ i.jt \in 0..room - 1 /\ i.jf \in 0..room - 1
    <2>1. i.jt \in 0..room - 1 /\ i.jf \in 0..room - 1 /\ room \in Nat
      BY <1>3
    <2>2. at + 1 + i.jt \in at + 1..Len(program)
      BY <2>1
    <2>3. at + 1 + i.jf \in at + 1..Len(program)
      BY <2>1
    <2>4. f[at + 1 + i.jt] = g[at + 1 + i.jt]
      BY <2>2
    <2>5. f[at + 1 + i.jf] = g[at + 1 + i.jf]
      BY <2>3
    <2> QED
      BY <1>3, <2>4, <2>5 DEF Interpreted
  <1> QED
    BY <1>1, <1>2, <1>3 DEF Returns, GoesOn

LEMMA RunExists ==
  ASSUME NEW T, NEW program \in Seq(T), NEW call, Returns(program, call)
  PROVE  \E f : IsRun(f, 1, program, call)
  <1> DEFINE N == Len(program)
             S == {k \in Nat : k <= N /\ ~ \E f : IsRun(f, N + 1 - k, program, call)}
  <1>1. SUFFICES ASSUME S # {} PROVE FALSE
    <2>1. N \in Nat /\ N <= N /\ N + 1 - N = 1
      OBVIOUS
    <2>2. S = {} => N \notin S
      OBVIOUS
    <2> QED
      BY <2>1, <2>2
  <1>2. PICK m \in S : \A n \in S : m <= n
    BY <1>1, LeastElement
  <1>3. m # 0
    <2> DEFINE f == [at \in N + 1..N |-> <<>>]
    <2>1. IsRun(f, N + 1, program, call)
      BY DEF IsRun
    <2>2. N + 1 - 0 = N + 1 /\ m \in S
      BY <1>2
    <2> HIDE DEF f
    <2> QED
      BY <2>1, <2>2
  <1> DEFINE b == N + 1 - m
  <1>4. PICK g : IsRun(g, b + 1, program, call)
    <2>1. m - 1 \in Nat /\ m - 1 <= N /\ ~ (m <= m - 1) /\ N + 1 - (m - 1) = b + 1
      BY <1>2, <1>3
    <2> QED
      BY <2>1, <1>2
  <1>5. b \in 1..N /\ N \in Nat
    BY <1>2, <1>3
  <1> DEFINE e == [at \in b..N |->
                     IF at = b THEN [acc \in Nat |-> Interpreted(g, program[at], at, acc, call)]
                     ELSE g[at]]
  <1>6. IsRun(e, b, program, call)
    <2>1. \A j \in b + 1..N : e[j] = g[j]
      BY <1>5
    <2>2. /\ e[b] = [acc \in Nat |-> Interpreted(g, program[b], b, acc, call)]
          /\ e = [at \in b..N |-> e[at]]
      BY <1>5
    <2> HIDE DEF e
    <2>3. ASSUME NEW at \in b..N, NEW acc \in Nat
          PROVE  Interpreted(e, program[at], at, acc, call)
                   = Interpreted(g, program[at], at, acc, call)
      <3>1. at \in 1..Len(program) /\ \A j \in at + 1..Len(program) : e[j] = g[j]
        BY <1>5, <2>1
      <3> HIDE DEF b, N, S
      <3> QED
        BY <3>1, LooksAhead
    <2>4. ASSUME NEW at \in b..N
          PROVE  e[at] = [acc \in Nat |-> Interpreted(g, program[at], at, acc, call)]
      <3>1. at = b \/ at \in b + 1..N
        BY <1>5
      <3>2. at \in b + 1..N =>
              g[at] = [acc \in Nat |-> Interpreted(g, program[at], at, acc, call)]
        BY <1>4 DEF IsRun
      <3> QED
        BY <3>1, <3>2, <2>1, <2>2
    <2>5. \A at \in b..N :
            e[at] = [acc \in Nat |-> Interpreted(e, program[at], at, acc, call)]
      BY <2>3, <2>4
    <2> QED
      BY <2>2, <2>5 DEF IsRun
  <1> QED
    BY <1>2, <1>6

\* The kernel's verdict is that of a run from the first instruction.
LEMMA VerdictOfRun ==
  ASSUME NEW T, NEW program \in Seq(T), NEW call, Returns(program, call)
  PROVE  \E f : /\ Verdict(program, call) = f[1][0]
                /\ \A at \in 1..Len(program), acc \in Nat :
                     f[at][acc] = Interpreted(f, program[at], at, acc, call)
  <1> DEFINE f == CHOOSE f : IsRun(f, 1, program, call)
  <1>1. IsRun(f, 1, program, call)
    BY RunExists
  <1>2. DOMAIN program = 1..Len(program)
    OBVIOUS
  <1>3. Verdict(program, call) = f[1][0]
    BY <1>2 DEF Verdict, IsRun, Interpreted
  <1> HIDE DEF f
  <1>4. \A at \in 1..Len(program), acc \in Nat :
          f[at][acc] = Interpreted(f, program[at], at, acc, call)
    <2>1. \A at \in 1..Len(program) :
            f[at] = [acc \in Nat |-> Interpreted(f, program[at], at, acc, call)]
      BY <1>1 DEF IsRun
    <2> QED
      BY <2>1
  <1> QED
    BY <1>3, <1>4
-------------------------------------------------------------------------------
(* The filter, instruction by instruction.                                  *)

LEMMA Concatenated ==
  ASSUME NEW T, NEW s \in Seq(T), NEW t \in Seq(T)
  PROVE  /\ s \o t \in Seq(T) /\ Len(s \o t) = Len(s) + Len(t)
         /\ \A i \in 1..Len(s) : (s \o t)[i] = s[i]
         /\ \A i \in 1..Len(t) : (s \o t)[Len(s) + i] = t[i]
  <1>1. s \o t \in Seq(T) /\ Len(s \o t) = Len(s) + Len(t)
    OBVIOUS
  <1>2. \A i \in 1..Len(s) : (s \o t)[i] = s[i]
    OBVIOUS
  <1>3. \A i \in 1..Len(t) : (s \o t)[Len(s) + i] = t[i]
    OBVIOUS
  <1> QED
    BY <1>1, <1>2, <1>3

\* The function FlattenSeq computes with, as far as n.
IsFlat(f, seqs, n) ==
  f = [i \in 1..n |-> IF i = 1 THEN seqs[i] ELSE f[i - 1] \o seqs[i]]

LEMMA FlatExists ==
  ASSUME NEW seqs, NEW n \in Nat
  PROVE  \E f : IsFlat(f, seqs, n)
  <1> DEFINE S == {k \in Nat : ~ \E f : IsFlat(f, seqs, k)}
  <1>1. SUFFICES ASSUME S # {} PROVE FALSE
    <2>1. S = {} => n \notin S
      OBVIOUS
    <2> QED
      BY <2>1
  <1>2. PICK m \in S : \A k \in S : m <= k
    BY <1>1, LeastElement
  <1>3. m # 0
    <2> DEFINE f == [i \in 1..0 |-> <<>>]
    <2>1. IsFlat(f, seqs, 0)
      BY DEF IsFlat
    <2> HIDE DEF f
    <2> QED
      BY <2>1, <1>2
  <1>4. PICK g : IsFlat(g, seqs, m - 1)
    <2>1. m - 1 \in Nat /\ ~ (m <= m - 1)
      BY <1>2, <1>3
    <2> QED
      BY <2>1, <1>2
  <1> DEFINE last == IF m = 1 THEN seqs[m] ELSE g[m - 1] \o seqs[m]
             e == [i \in 1..m |-> IF i = m THEN last ELSE g[i]]
  <1>5. IsFlat(e, seqs, m)
    <2>1. m \in Nat \ {0}
      BY <1>2, <1>3
    <2>2. \A i \in 1..m - 1 : g[i] = IF i = 1 THEN seqs[i] ELSE g[i - 1] \o seqs[i]
      BY <1>4 DEF IsFlat
    <2>3. \A i \in 1..m : i # m => i \in 1..m - 1 /\ (i # 1 => i - 1 \in 1..m - 1 /\ i - 1 # m)
      BY <2>1
    <2>4. m # 1 => m - 1 \in 1..m - 1
      BY <2>1
    <2>5. /\ e = [i \in 1..m |-> e[i]]
          /\ \A i \in 1..m - 1 : e[i] = g[i]
          /\ e[m] = last
      <3> HIDE DEF last
      <3> QED
        BY <2>1
    <2> HIDE DEF e
    <2>6. \A i \in 1..m : e[i] = IF i = 1 THEN seqs[i] ELSE e[i - 1] \o seqs[i]
      BY <2>2, <2>3, <2>4, <2>5
    <2> QED
      BY <2>5, <2>6 DEF IsFlat
  <1> QED
    BY <1>2, <1>5

\* s is the first n of a sequence of pairs, one after the other.
InARow(s, pairs, n, T) ==
  /\ s \in Seq(T) /\ Len(s) = 2 * n
  /\ \A i \in 1..n : s[2 * i - 1] = pairs[i][1] /\ s[2 * i] = pairs[i][2]

LEMMA OneMorePair ==
  ASSUME NEW T, NEW pairs, NEW s, NEW n \in Nat, InARow(s, pairs, n, T),
         NEW pair \in Seq(T), Len(pair) = 2, pair = pairs[n + 1]
  PROVE  InARow(s \o pair, pairs, n + 1, T)
  <1>1. s \in Seq(T) /\ Len(s) = 2 * n
    BY DEF InARow
  <1>2. s \o pair \in Seq(T) /\ Len(s \o pair) = 2 * (n + 1)
    <2>1. s \o pair \in Seq(T) /\ Len(s \o pair) = Len(s) + Len(pair)
      BY <1>1, Concatenated
    <2>2. 2 * (n + 1) = 2 * n + 2
      OBVIOUS
    <2> QED
      BY <1>1, <2>1, <2>2
  <1>3. ASSUME NEW i \in 1..n + 1
        PROVE  (s \o pair)[2 * i - 1] = pairs[i][1] /\ (s \o pair)[2 * i] = pairs[i][2]
    <2>1. CASE i = n + 1
      <3>1. 2 * i - 1 = Len(s) + 1 /\ 2 * i = Len(s) + 2
        BY <1>1, <2>1
      <3>2. (s \o pair)[Len(s) + 1] = pair[1] /\ (s \o pair)[Len(s) + 2] = pair[2]
        BY <1>1
      <3> QED
        BY <2>1, <3>1, <3>2
    <2>2. CASE i # n + 1
      <3>1. i \in 1..n
        BY <2>2
      <3>2. 2 * i - 1 \in 1..Len(s) /\ 2 * i \in 1..Len(s)
        BY <1>1, <3>1
      <3>3. \A j \in 1..Len(s) : (s \o pair)[j] = s[j]
        BY <1>1
      <3> QED
        BY <3>1, <3>2, <3>3 DEF InARow
    <2> QED
      BY <2>1, <2>2
  <1> QED
    BY <1>2, <1>3 DEF InARow

\* Flattening a sequence of pairs puts them in a row.
LEMMA FlattenPairs ==
  ASSUME NEW T, NEW pairs \in Seq(Seq(T)), pairs # <<>>,
         \A i \in 1..Len(pairs) : Len(pairs[i]) = 2
  PROVE  InARow(FlattenSeq(pairs), pairs, Len(pairs), T)
  <1> DEFINE N == Len(pairs)
             f == CHOOSE f : IsFlat(f, pairs, N)
             S == {n \in 1..N : ~InARow(f[n], pairs, n, T)}
  <1>1. IsFlat(f, pairs, N)
    <2>1. N \in Nat
      OBVIOUS
    <2> QED
      BY <2>1, FlatExists
  <1>2. FlattenSeq(pairs) = f[N]
    BY DEF FlattenSeq, IsFlat
  <1> HIDE DEF f
  <1>3. \A i \in 1..N : f[i] = IF i = 1 THEN pairs[i] ELSE f[i - 1] \o pairs[i]
    BY <1>1 DEF IsFlat
  <1>4. \A i \in 1..N : pairs[i] \in Seq(T) /\ Len(pairs[i]) = 2
    OBVIOUS
  <1>5. N \in 1..N
    OBVIOUS
  <1> HIDE DEF N
  <1>6. S = {}
    <2> SUFFICES ASSUME S # {} PROVE FALSE
      OBVIOUS
    <2>1. PICK m \in S : \A k \in S : m <= k
      <3>1. S \subseteq Nat
        OBVIOUS
      <3> HIDE DEF S
      <3> QED
        BY <3>1, LeastElement
    <2>2. m \in 1..N /\ ~InARow(f[m], pairs, m, T)
      BY <2>1
    <2>3. \A k \in 1..N : ~ (m <= k) => InARow(f[k], pairs, k, T)
      BY <2>1
    <2>4. m # 1
      <3>1. m = 1 => f[m] = pairs[1] /\ pairs[1] \in Seq(T) /\ Len(pairs[1]) = 2
        BY <1>3, <1>4, <2>2
      <3>2. m = 1 => InARow(f[m], pairs, m, T)
        BY <3>1 DEF InARow
      <3> QED
        BY <3>2, <2>2
    <2>5. m - 1 \in 1..N /\ m - 1 \in Nat /\ ~ (m <= m - 1) /\ m - 1 + 1 = m
      BY <1>5, <2>2, <2>4
    <2>6. InARow(f[m - 1], pairs, m - 1, T)
      BY <2>3, <2>5
    <2>7. f[m] = f[m - 1] \o pairs[m]
      BY <1>3, <2>2, <2>4
    <2> QED
      BY <1>4, <2>2, <2>5, <2>6, <2>7, OneMorePair
  <1> QED
    BY <1>2, <1>5, <1>6 DEF N
LEMMA ShortSections ==
  \A a, b, c, d, e, g, h :
    /\ LET s == <<a, b, c, d>> IN
       /\ IsSection(s) /\ Len(s) = 4
       /\ s[1] = a /\ s[2] = b /\ s[3] = c /\ s[4] = d
    /\ LET s == <<a, b, c, d, e, g, h>> IN
       /\ IsSection(s) /\ Len(s) = 7
       /\ s[1] = a /\ s[2] = b /\ s[3] = c /\ s[4] = d /\ s[5] = e /\ s[6] = g /\ s[7] = h
    /\ IsSection(<<a>>) /\ Len(<<a>>) = 1 /\ <<a>>[1] = a
  <1> SUFFICES ASSUME NEW a, NEW b, NEW c, NEW d, NEW e, NEW g, NEW h
      PROVE  /\ LET s == <<a, b, c, d>> IN
                /\ IsSection(s) /\ Len(s) = 4
                /\ s[1] = a /\ s[2] = b /\ s[3] = c /\ s[4] = d
             /\ LET s == <<a, b, c, d, e, g, h>> IN
                /\ IsSection(s) /\ Len(s) = 7
                /\ s[1] = a /\ s[2] = b /\ s[3] = c /\ s[4] = d /\ s[5] = e /\ s[6] = g /\ s[7] = h
             /\ IsSection(<<a>>) /\ Len(<<a>>) = 1 /\ <<a>>[1] = a
    OBVIOUS
  <1>1. /\ <<a, b, c, d>> \in Seq({a, b, c, d}) /\ <<a>> \in Seq({a})
        /\ <<a, b, c, d, e, g, h>> \in Seq({a, b, c, d, e, g, h})
    OBVIOUS
  <1> QED
    BY <1>1 DEF IsSection

\* How many calls the filter denies whatever their arguments.
Denied == 29

LEMMA DeniedCount ==
  /\ Len(DeniedSyscalls) = Denied
  /\ DOMAIN DeniedSyscalls = 1..Denied /\ SysSocket = Denied + 1
  <1>1. Len(DeniedSyscalls) = 29
    BY DEF DeniedSyscalls
  <1>2. DOMAIN DeniedSyscalls = 1..29
    BY DEF DeniedSyscalls
  <1> QED
    BY <1>1, <1>2 DEF SysSocket, Denied

DeniedChecks == FlattenSeq([nr \in DOMAIN DeniedSyscalls |-> DenySyscall(nr)])

LEMMA DeniedLayout ==
  /\ IsSection(DeniedChecks) /\ Len(DeniedChecks) = 58
  /\ \A nr \in 1..Denied : /\ DeniedChecks[2 * nr - 1] = IfEqual(nr, 0, 1)
                           /\ DeniedChecks[2 * nr] = Return("EPERM")
  <1> DEFINE pairs == [nr \in 1..Denied |-> DenySyscall(nr)]
             T == {IfEqual(nr, 0, 1) : nr \in 1..Denied} \cup {Return("EPERM")}
  <1>1. DeniedChecks = FlattenSeq(pairs)
    BY DeniedCount DEF DeniedChecks
  <1>2. \A nr \in 1..Denied : /\ pairs[nr] \in Seq(T) /\ Len(pairs[nr]) = 2
                              /\ pairs[nr][1] = IfEqual(nr, 0, 1)
                              /\ pairs[nr][2] = Return("EPERM")
    <2> TAKE nr \in 1..Denied
    <2>1. IfEqual(nr, 0, 1) \in T /\ Return("EPERM") \in T
      OBVIOUS
    <2>2. pairs[nr] = <<IfEqual(nr, 0, 1), Return("EPERM")>>
      BY DEF DenySyscall
    <2> HIDE DEF pairs, T
    <2> QED
      BY <2>1, <2>2
  <1>3. DOMAIN pairs = 1..Denied /\ pairs = [nr \in 1..Denied |-> pairs[nr]]
    OBVIOUS
  <1> HIDE DEF pairs, T
  <1>4. pairs \in Seq(Seq(T)) /\ Len(pairs) = Denied /\ pairs # <<>>
    <2>1. pairs \in [1..Denied -> Seq(T)]
      BY <1>2, <1>3
    <2>2. Denied \in Nat \ {0}
      BY DEF Denied
    <2>3. pairs \in Seq(Seq(T))
      BY <2>1, <2>2
    <2>4. Len(pairs) = Denied
      BY <2>1, <2>2
    <2> QED
      BY <2>2, <2>3, <2>4
  <1>5. InARow(FlattenSeq(pairs), pairs, Denied, T)
    BY <1>2, <1>4, FlattenPairs
  <1>6. 2 * Denied = 58
    BY DEF Denied
  <1> QED
    BY <1>1, <1>2, <1>5, <1>6 DEF InARow, IsSection

\* The check of a socket's type: seven instructions.
LEMMA TypeCheckLayout ==
  /\ IsSection(StreamOrDatagram) /\ Len(StreamOrDatagram) = 7
  /\ StreamOrDatagram[1] = Load("arg1") /\ StreamOrDatagram[2] = Masked
  /\ StreamOrDatagram[3] = IfEqual(SockStream, 0, 1) /\ StreamOrDatagram[4] = Return("allow")
  /\ StreamOrDatagram[5] = IfEqual(SockDgram, 0, 1) /\ StreamOrDatagram[6] = Return("allow")
  /\ StreamOrDatagram[7] = Return("EPERM")
  BY ShortSections DEF StreamOrDatagram

Long(s, n) == IsSection(s) /\ Len(s) = n

\* s holds what t does from a place on.
Holds(s, t, place) ==
  /\ IsSection(t) /\ Len(t) \in Nat
  /\ \A i \in 1..Len(t) : place + i \in 1..Len(s) /\ s[place + i] = t[i]

\* r is s, m long, and then t, n long.
Joined(r, s, m, t, n) == Long(s, m) /\ Long(t, n) /\ r = s \o t

LEMMA JoinedParts ==
  ASSUME NEW s, NEW t, NEW r, NEW m, NEW n, Joined(r, s, m, t, n)
  PROVE  Long(r, m + n) /\ Holds(r, s, 0) /\ Holds(r, t, m)
  <1>1. IsSection(s) /\ IsSection(t) /\ r = s \o t
    BY DEF Joined, Long
  <1>2. m = Len(s)
    BY DEF Joined, Long
  <1>3. n = Len(t)
    BY DEF Joined, Long
  <1>4. /\ IsSection(r) /\ Len(s) \in Nat /\ Len(t) \in Nat /\ Len(r) = Len(s) + Len(t)
        /\ \A i \in 1..Len(s) : r[i] = s[i]
        /\ \A i \in 1..Len(t) : r[Len(s) + i] = t[i]
    BY <1>1, Sections
  <1>5. Long(r, Len(s) + Len(t))
    BY <1>4 DEF Long
  <1>6. Holds(r, s, 0)
    <2>1. \A i \in 1..Len(s) : 0 + i \in 1..Len(r) /\ r[0 + i] = s[i]
      BY <1>4
    <2> QED
      BY <1>1, <1>4, <2>1 DEF Holds
  <1>7. Holds(r, t, Len(s))
    <2>1. \A i \in 1..Len(t) : Len(s) + i \in 1..Len(r) /\ r[Len(s) + i] = t[i]
      BY <1>4
    <2> QED
      BY <1>1, <1>4, <2>1 DEF Holds
  <1> QED
    BY <1>2, <1>3, <1>5, <1>6, <1>7

LEMMA JoinedStill ==
  ASSUME NEW s, NEW t, NEW r, NEW m, NEW n, Joined(r, s, m, t, n),
         NEW u, NEW place, Holds(s, u, place)
  PROVE  Holds(r, u, place)
  <1>1. IsSection(s) /\ IsSection(t) /\ r = s \o t
    BY DEF Joined, Long
  <1>2. /\ Len(s) \in Nat /\ Len(t) \in Nat /\ Len(r) = Len(s) + Len(t)
        /\ \A i \in 1..Len(s) : r[i] = s[i]
    BY <1>1, Sections
  <1>3. \A i \in 1..Len(u) : place + i \in 1..Len(s) /\ s[place + i] = u[i]
    BY DEF Holds
  <1>4. \A i \in 1..Len(u) : place + i \in 1..Len(r) /\ r[place + i] = u[i]
    BY <1>2, <1>3
  <1> QED
    BY <1>4 DEF Holds

\* What the filter has of a socket's domain, after the call's number.
SocketChecks ==
  <<Load("arg0"), IfEqual(AfUnix, 0, 1), Return("allow"),
    IfEqual(AfInet, 0, SocketTypeCheckLen)>> \o StreamOrDatagram
    \o <<IfEqual(AfInet6, 0, SocketTypeCheckLen)>> \o StreamOrDatagram
    \o <<Return("EPERM")>>

LEMMA SocketLayout ==
  /\ Long(SocketChecks, 20)
  /\ SocketChecks[1] = Load("arg0") /\ SocketChecks[2] = IfEqual(AfUnix, 0, 1)
  /\ SocketChecks[3] = Return("allow") /\ SocketChecks[4] = IfEqual(AfInet, 0, 7)
  /\ \A i \in 1..7 : SocketChecks[4 + i] = StreamOrDatagram[i]
  /\ SocketChecks[12] = IfEqual(AfInet6, 0, 7)
  /\ \A i \in 1..7 : SocketChecks[12 + i] = StreamOrDatagram[i]
  /\ SocketChecks[20] = Return("EPERM")
  <1> DEFINE head == <<Load("arg0"), IfEqual(AfUnix, 0, 1), Return("allow"),
                       IfEqual(AfInet, 0, SocketTypeCheckLen)>>
             inet6 == <<IfEqual(AfInet6, 0, SocketTypeCheckLen)>>
             none == <<Return("EPERM")>>
             s1 == head \o StreamOrDatagram
             s2 == s1 \o inet6
             s3 == s2 \o StreamOrDatagram
             s4 == s3 \o none
  <1>1. SocketChecks = s4
    BY DEF SocketChecks
  <1>2. Long(head, 4) /\ Long(inet6, 1) /\ Long(none, 1) /\ Long(StreamOrDatagram, 7)
    BY ShortSections, TypeCheckLayout DEF Long
  <1>3. /\ head[1] = Load("arg0") /\ head[2] = IfEqual(AfUnix, 0, 1)
        /\ head[3] = Return("allow") /\ head[4] = IfEqual(AfInet, 0, 7)
        /\ inet6[1] = IfEqual(AfInet6, 0, 7) /\ none[1] = Return("EPERM")
    BY ShortSections DEF SocketTypeCheckLen
  <1>4. s1 = head \o StreamOrDatagram /\ s2 = s1 \o inet6 /\ s3 = s2 \o StreamOrDatagram
        /\ s4 = s3 \o none
    OBVIOUS
  <1> HIDE DEF head, inet6, none, s1, s2, s3, s4
  <1>5. /\ Long(s1, 11) /\ Holds(s1, head, 0) /\ Holds(s1, StreamOrDatagram, 4)
    <2>1. Joined(s1, head, 4, StreamOrDatagram, 7)
      BY <1>2, <1>4 DEF Joined
    <2>2. Long(s1, 4 + 7) /\ Holds(s1, head, 0) /\ Holds(s1, StreamOrDatagram, 4)
      BY <2>1, JoinedParts
    <2>3. 4 + 7 = 11
      OBVIOUS
    <2> QED
      BY <2>2, <2>3, Zenon
  <1>6. /\ Long(s2, 12)
        /\ Holds(s2, head, 0) /\ Holds(s2, StreamOrDatagram, 4) /\ Holds(s2, inet6, 11)
    <2>1. Joined(s2, s1, 11, inet6, 1)
      BY <1>2, <1>4, <1>5 DEF Joined
    <2>2. Long(s2, 11 + 1) /\ Holds(s2, s1, 0) /\ Holds(s2, inet6, 11)
      BY <2>1, JoinedParts
    <2>3. 11 + 1 = 12
      OBVIOUS
    <2>4. \A u, place : Holds(s1, u, place) => Holds(s2, u, place)
      BY <2>1, JoinedStill
    <2> QED
      BY <1>5, <2>2, <2>3, <2>4, Zenon
  <1>7. /\ Long(s3, 19)
        /\ Holds(s3, head, 0) /\ Holds(s3, StreamOrDatagram, 4) /\ Holds(s3, inet6, 11)
        /\ Holds(s3, StreamOrDatagram, 12)
    <2>1. Joined(s3, s2, 12, StreamOrDatagram, 7)
      BY <1>2, <1>4, <1>6 DEF Joined
    <2>2. Long(s3, 12 + 7) /\ Holds(s3, s2, 0) /\ Holds(s3, StreamOrDatagram, 12)
      BY <2>1, JoinedParts
    <2>3. 12 + 7 = 19
      OBVIOUS
    <2>4. \A u, place : Holds(s2, u, place) => Holds(s3, u, place)
      BY <2>1, JoinedStill
    <2> QED
      BY <1>6, <2>2, <2>3, <2>4, Zenon
  <1>8. /\ Long(s4, 20)
        /\ Holds(s4, head, 0) /\ Holds(s4, StreamOrDatagram, 4) /\ Holds(s4, inet6, 11)
        /\ Holds(s4, StreamOrDatagram, 12) /\ Holds(s4, none, 19)
    <2>1. Joined(s4, s3, 19, none, 1)
      BY <1>2, <1>4, <1>7 DEF Joined
    <2>2. Long(s4, 19 + 1) /\ Holds(s4, s3, 0) /\ Holds(s4, none, 19)
      BY <2>1, JoinedParts
    <2>3. 19 + 1 = 20
      OBVIOUS
    <2>4. \A u, place : Holds(s3, u, place) => Holds(s4, u, place)
      BY <2>1, JoinedStill
    <2> QED
      BY <1>7, <2>2, <2>3, <2>4, Zenon
  <1>9. /\ s4[0 + 1] = head[1] /\ s4[0 + 2] = head[2] /\ s4[0 + 3] = head[3]
        /\ s4[0 + 4] = head[4] /\ s4[11 + 1] = inet6[1] /\ s4[19 + 1] = none[1]
        /\ \A i \in 1..7 : s4[4 + i] = StreamOrDatagram[i] /\ s4[12 + i] = StreamOrDatagram[i]
    BY <1>2, <1>8 DEF Holds, Long
  <1> QED
    BY <1>1, <1>3, <1>8, <1>9

\* Where the filter keeps what.
LEMMA FilterLayout ==
  /\ Long(Filter, 84)
  /\ Filter[1] = Load("arch") /\ Filter[2] = IfEqual(AuditArch, 1, 0)
  /\ Filter[3] = Return("kill") /\ Filter[4] = Load("nr")
  /\ \A nr \in 1..Denied : /\ Filter[4 + (2 * nr - 1)] = IfEqual(nr, 0, 1)
                           /\ Filter[4 + 2 * nr] = Return("EPERM")
  /\ Filter[63] = IfEqual(SysSocket, 0, 20)
  /\ \A i \in 1..20 : Filter[63 + i] = SocketChecks[i]
  /\ Filter[84] = Return("allow")
  <1> DEFINE head == <<Load("arch"), IfEqual(AuditArch, 1, 0), Return("kill"), Load("nr")>>
             socket == <<IfEqual(SysSocket, 0, 20)>>
             rest == socket \o SocketChecks
             allow == <<Return("allow")>>
             s1 == head \o DeniedChecks
             s2 == s1 \o rest
             s3 == s2 \o allow
  <1>1. RestrictSocket = rest
    BY SocketLayout DEF RestrictSocket, SocketChecks, Long
  <1>2. Filter = s3
    BY <1>1 DEF Filter, DeniedChecks
  <1>3. Long(head, 4) /\ Long(socket, 1) /\ Long(allow, 1)
    BY ShortSections DEF Long
  <1>4. Long(DeniedChecks, 58) /\ Long(SocketChecks, 20)
    BY DeniedLayout, SocketLayout DEF Long
  <1>5. /\ head[1] = Load("arch") /\ head[2] = IfEqual(AuditArch, 1, 0)
        /\ head[3] = Return("kill") /\ head[4] = Load("nr")
        /\ socket[1] = IfEqual(SysSocket, 0, 20) /\ allow[1] = Return("allow")
    BY ShortSections
  <1>6. /\ rest = socket \o SocketChecks /\ s1 = head \o DeniedChecks
        /\ s2 = s1 \o rest /\ s3 = s2 \o allow
    OBVIOUS
  <1> HIDE DEF head, socket, rest, allow, s1, s2, s3
  <1>7. Long(rest, 21) /\ Holds(rest, socket, 0) /\ Holds(rest, SocketChecks, 1)
    <2>1. Joined(rest, socket, 1, SocketChecks, 20)
      BY <1>3, <1>4, <1>6 DEF Joined
    <2>2. Long(rest, 1 + 20) /\ Holds(rest, socket, 0) /\ Holds(rest, SocketChecks, 1)
      BY <2>1, JoinedParts
    <2>3. 1 + 20 = 21
      OBVIOUS
    <2> QED
      BY <2>2, <2>3, Zenon
  <1>8. Long(s1, 62) /\ Holds(s1, head, 0) /\ Holds(s1, DeniedChecks, 4)
    <2>1. Joined(s1, head, 4, DeniedChecks, 58)
      BY <1>3, <1>4, <1>6 DEF Joined
    <2>2. Long(s1, 4 + 58) /\ Holds(s1, head, 0) /\ Holds(s1, DeniedChecks, 4)
      BY <2>1, JoinedParts
    <2>3. 4 + 58 = 62
      OBVIOUS
    <2> QED
      BY <2>2, <2>3, Zenon
  <1>9. /\ Long(s2, 83)
        /\ Holds(s2, head, 0) /\ Holds(s2, DeniedChecks, 4) /\ Holds(s2, rest, 62)
    <2>1. Joined(s2, s1, 62, rest, 21)
      BY <1>6, <1>7, <1>8 DEF Joined
    <2>2. Long(s2, 62 + 21) /\ Holds(s2, s1, 0) /\ Holds(s2, rest, 62)
      BY <2>1, JoinedParts
    <2>3. 62 + 21 = 83
      OBVIOUS
    <2>4. \A u, place : Holds(s1, u, place) => Holds(s2, u, place)
      BY <2>1, JoinedStill
    <2> QED
      BY <1>8, <2>2, <2>3, <2>4, Zenon
  <1>10. /\ Long(s3, 84)
         /\ Holds(s3, head, 0) /\ Holds(s3, DeniedChecks, 4) /\ Holds(s3, rest, 62)
         /\ Holds(s3, allow, 83)
    <2>1. Joined(s3, s2, 83, allow, 1)
      BY <1>3, <1>6, <1>9 DEF Joined
    <2>2. Long(s3, 83 + 1) /\ Holds(s3, s2, 0) /\ Holds(s3, allow, 83)
      BY <2>1, JoinedParts
    <2>3. 83 + 1 = 84
      OBVIOUS
    <2>4. \A u, place : Holds(s2, u, place) => Holds(s3, u, place)
      BY <2>1, JoinedStill
    <2>5. Long(s3, 84)
      BY <2>2, <2>3
    <2> QED
      BY <1>9, <2>2, <2>4, <2>5, Zenon
  <1>11. /\ s3[0 + 1] = head[1] /\ s3[0 + 2] = head[2] /\ s3[0 + 3] = head[3]
         /\ s3[0 + 4] = head[4] /\ s3[83 + 1] = allow[1]
    BY <1>3, <1>10 DEF Holds, Long
  <1>12. \A i \in 1..58 : s3[4 + i] = DeniedChecks[i]
    BY <1>4, <1>10 DEF Holds, Long
  <1>13. /\ s3[62 + (0 + 1)] = socket[1]
         /\ \A i \in 1..20 : s3[62 + (1 + i)] = SocketChecks[i]
    <2>1. /\ rest[0 + 1] = socket[1] /\ \A i \in 1..20 : rest[1 + i] = SocketChecks[i]
      BY <1>3, <1>4, <1>7 DEF Holds, Long
    <2>2. \A i \in 1..21 : s3[62 + i] = rest[i]
      BY <1>7, <1>10 DEF Holds, Long
    <2> QED
      BY <2>1, <2>2
  <1>14. \A nr \in 1..Denied : /\ s3[4 + (2 * nr - 1)] = IfEqual(nr, 0, 1)
                               /\ s3[4 + 2 * nr] = Return("EPERM")
    <2> TAKE nr \in 1..Denied
    <2>1. 2 * nr - 1 \in 1..58 /\ 2 * nr \in 1..58
      BY DEF Denied
    <2> QED
      BY <2>1, <1>12, DeniedLayout
  <1> QED
    BY <1>2, <1>5, <1>10, <1>11, <1>13, <1>14
-------------------------------------------------------------------------------
(* What a call gets from the filter.                                        *)

AnyCall == [arch : Nat, nr : Nat, arg0 : Nat, arg1 : Nat]

LEMMA GoesOnBy ==
  ASSUME NEW call \in AnyCall, NEW room \in Nat
  PROVE  /\ \A verdict : GoesOn(Return(verdict), room, call)
         /\ \A k, jt, jf : jt \in Nat /\ jf \in Nat /\ jt < room /\ jf < room =>
                             GoesOn(IfEqual(k, jt, jf), room, call)
         /\ room > 0 => /\ \A field \in {"arch", "nr", "arg0", "arg1"} :
                             GoesOn(Load(field), room, call)
                        /\ GoesOn(Masked, room, call)
  BY DEF GoesOn, Return, IfEqual, Load, Masked, AnyCall

LEMMA TypeCheckGoesOn ==
  ASSUME NEW call \in AnyCall, NEW i \in 1..7, NEW room \in Nat, room > 7 - i
  PROVE  GoesOn(StreamOrDatagram[i], room, call)
  <1>1. /\ \A verdict : GoesOn(Return(verdict), room, call)
        /\ room > 1 => \A k : GoesOn(IfEqual(k, 0, 1), room, call)
        /\ room > 0 => GoesOn(Load("arg1"), room, call) /\ GoesOn(Masked, room, call)
    BY GoesOnBy
  <1>2. /\ i \in {1, 2} => room > 0
        /\ i \in {3, 5} => room > 1
        /\ i \in {1, 2, 3, 4, 5, 6, 7}
    OBVIOUS
  <1> QED
    BY <1>1, <1>2, TypeCheckLayout

LEMMA FilterReturns ==
  ASSUME NEW call \in AnyCall
  PROVE  Returns(Filter, call)
  <1>1. Len(Filter) = 84
    BY FilterLayout DEF Long
  <1>2. \A at \in {1, 2, 3, 4, 63, 84} : GoesOn(Filter[at], 84 - at, call)
    <2>1. GoesOn(Filter[1], 83, call) /\ GoesOn(Filter[4], 80, call)
      BY GoesOnBy, FilterLayout
    <2>2. GoesOn(Filter[2], 82, call) /\ GoesOn(Filter[63], 21, call)
      BY GoesOnBy, FilterLayout
    <2>3. GoesOn(Filter[3], 81, call) /\ GoesOn(Filter[84], 0, call)
      BY GoesOnBy, FilterLayout
    <2> QED
      BY <2>1, <2>2, <2>3
  <1>3. ASSUME NEW nr \in 1..Denied
        PROVE  /\ GoesOn(Filter[4 + (2 * nr - 1)], 84 - (4 + (2 * nr - 1)), call)
               /\ GoesOn(Filter[4 + 2 * nr], 84 - (4 + 2 * nr), call)
    <2> DEFINE room == 84 - (4 + (2 * nr - 1))
               left == 84 - (4 + 2 * nr)
    <2>1. room \in Nat /\ room > 1 /\ left \in Nat
      BY DEF Denied
    <2> HIDE DEF room, left
    <2>2. GoesOn(IfEqual(nr, 0, 1), room, call) /\ GoesOn(Return("EPERM"), left, call)
      BY <2>1, GoesOnBy
    <2> QED
      BY <2>2, FilterLayout DEF room, left
  <1>4. ASSUME NEW i \in 1..20
        PROVE  GoesOn(Filter[63 + i], 84 - (63 + i), call)
    <2>1. Filter[63 + i] = SocketChecks[i] /\ 84 - (63 + i) = 21 - i
      BY FilterLayout
    <2>2. CASE i \in 5..11
      <3>1. /\ i - 4 \in 1..7 /\ 4 + (i - 4) = i
            /\ 21 - i \in Nat /\ 21 - i > 7 - (i - 4)
        BY <2>2
      <3>2. SocketChecks[i] = StreamOrDatagram[i - 4]
        BY <3>1, SocketLayout
      <3> QED
        BY <2>1, <3>1, <3>2, TypeCheckGoesOn
    <2>3. CASE i \in 13..19
      <3>1. /\ i - 12 \in 1..7 /\ 12 + (i - 12) = i
            /\ 21 - i \in Nat /\ 21 - i > 7 - (i - 12)
        BY <2>3
      <3>2. SocketChecks[i] = StreamOrDatagram[i - 12]
        BY <3>1, SocketLayout
      <3> QED
        BY <2>1, <3>1, <3>2, TypeCheckGoesOn
    <2>4. CASE i \in {1, 2, 3, 4, 12, 20}
      <3>1. GoesOn(SocketChecks[1], 20, call) /\ GoesOn(SocketChecks[2], 19, call)
        BY GoesOnBy, SocketLayout
      <3>2. GoesOn(SocketChecks[3], 18, call) /\ GoesOn(SocketChecks[4], 17, call)
        BY GoesOnBy, SocketLayout
      <3>3. GoesOn(SocketChecks[12], 9, call) /\ GoesOn(SocketChecks[20], 1, call)
        BY GoesOnBy, SocketLayout
      <3> QED
        BY <2>1, <2>4, <3>1, <3>2, <3>3
    <2> QED
      BY <2>2, <2>3, <2>4
  <1>5. ASSUME NEW at \in 1..84 PROVE GoesOn(Filter[at], 84 - at, call)
    <2>1. CASE at \in 5..62
      <3>1. PICK nr \in 1..Denied : at = 4 + (2 * nr - 1) \/ at = 4 + 2 * nr
        <4>1. (at - 3) \div 2 \in 1..Denied
          BY <2>1 DEF Denied
        <4>2. at = 4 + (2 * ((at - 3) \div 2) - 1) \/ at = 4 + 2 * ((at - 3) \div 2)
          BY <2>1
        <4> QED
          BY <4>1, <4>2
      <3> QED
        BY <3>1, <1>3
    <2>2. CASE at \in 64..83
      <3>1. at - 63 \in 1..20 /\ 63 + (at - 63) = at
        BY <2>2
      <3> QED
        BY <3>1, <1>4
    <2> QED
      BY <1>2, <2>1, <2>2
  <1> QED
    BY <1>1, <1>5 DEF Returns
\* f runs the filter on a call.
Runs(f, call) ==
  \A at \in 1..84, acc \in Nat : f[at][acc] = Interpreted(f, Filter[at], at, acc, call)

\* One step of a run, by the instruction it is at.
LEMMA RunReturn ==
  ASSUME NEW f, NEW call, Runs(f, call), NEW at \in 1..84, NEW acc \in Nat,
         NEW verdict, Filter[at] = Return(verdict)
  PROVE  f[at][acc] = verdict
  <1>1. f[at][acc] = Interpreted(f, Filter[at], at, acc, call)
    BY DEF Runs
  <1>2. Interpreted(f, Return(verdict), at, acc, call) = verdict
    BY DEF Interpreted, Return
  <1> QED
    BY <1>1, <1>2

LEMMA RunLoad ==
  ASSUME NEW f, NEW call, Runs(f, call), NEW at \in 1..84, NEW acc \in Nat,
         NEW field, Filter[at] = Load(field), NEW next, next = at + 1
  PROVE  f[at][acc] = f[next][call[field]]
  <1>1. f[at][acc] = Interpreted(f, Filter[at], at, acc, call)
    BY DEF Runs
  <1>2. Interpreted(f, Load(field), at, acc, call) = f[at + 1][call[field]]
    BY DEF Interpreted, Load
  <1> QED
    BY <1>1, <1>2

LEMMA RunMasked ==
  ASSUME NEW f, NEW call, Runs(f, call), NEW at \in 1..84, NEW acc \in Nat,
         Filter[at] = Masked, NEW next, next = at + 1
  PROVE  f[at][acc] = f[next][acc % TypeMask]
  <1>1. f[at][acc] = Interpreted(f, Filter[at], at, acc, call)
    BY DEF Runs
  <1>2. Interpreted(f, Masked, at, acc, call) = f[at + 1][acc % TypeMask]
    BY DEF Interpreted, Masked
  <1> QED
    BY <1>1, <1>2

LEMMA RunJump ==
  ASSUME NEW f, NEW call, Runs(f, call), NEW at \in 1..84, NEW acc \in Nat,
         NEW k, NEW jt, NEW jf, Filter[at] = IfEqual(k, jt, jf),
         NEW yes, yes = at + 1 + jt, NEW no, no = at + 1 + jf
  PROVE  f[at][acc] = IF acc = k THEN f[yes][acc] ELSE f[no][acc]
  <1>1. f[at][acc] = Interpreted(f, Filter[at], at, acc, call)
    BY DEF Runs
  <1>2. Interpreted(f, IfEqual(k, jt, jf), at, acc, call)
          = f[at + 1 + (IF acc = k THEN jt ELSE jf)][acc]
    BY DEF Interpreted, IfEqual
  <1>3. f[at][acc] = f[at + 1 + (IF acc = k THEN jt ELSE jf)][acc]
    BY <1>1, <1>2
  <1>4. CASE acc = k
    BY <1>3, <1>4
  <1>5. CASE acc # k
    BY <1>3, <1>5
  <1> QED
    BY <1>4, <1>5

\* Streams and datagrams, whatever flags they are asked for with.
TypeVerdict(call) == IF call.arg1 % TypeMask \in {SockStream, SockDgram} THEN "allow" ELSE "EPERM"

LEMMA TypeChecksRun ==
  ASSUME NEW call \in AnyCall, NEW f, Runs(f, call), NEW acc \in Nat
  PROVE  f[68][acc] = TypeVerdict(call) /\ f[76][acc] = TypeVerdict(call)
  <1>1. \A i \in 1..7 : /\ Filter[67 + i] = StreamOrDatagram[i]
                        /\ Filter[75 + i] = StreamOrDatagram[i]
    <2> TAKE i \in 1..7
    <2>1. 67 + i = 63 + (4 + i) /\ 75 + i = 63 + (12 + i) /\ 4 + i \in 1..20 /\ 12 + i \in 1..20
      OBVIOUS
    <2> QED
      BY <2>1, FilterLayout, SocketLayout
  <1>2. /\ Filter[68] = Load("arg1") /\ Filter[69] = Masked
        /\ Filter[70] = IfEqual(SockStream, 0, 1) /\ Filter[71] = Return("allow")
        /\ Filter[72] = IfEqual(SockDgram, 0, 1) /\ Filter[73] = Return("allow")
        /\ Filter[74] = Return("EPERM")
    <2>1. /\ Filter[67 + 1] = Load("arg1") /\ Filter[67 + 2] = Masked
          /\ Filter[67 + 3] = IfEqual(SockStream, 0, 1) /\ Filter[67 + 4] = Return("allow")
          /\ Filter[67 + 5] = IfEqual(SockDgram, 0, 1) /\ Filter[67 + 6] = Return("allow")
          /\ Filter[67 + 7] = Return("EPERM")
      BY <1>1, TypeCheckLayout
    <2> QED
      BY <2>1
  <1>3. /\ Filter[76] = Load("arg1") /\ Filter[77] = Masked
        /\ Filter[78] = IfEqual(SockStream, 0, 1) /\ Filter[79] = Return("allow")
        /\ Filter[80] = IfEqual(SockDgram, 0, 1) /\ Filter[81] = Return("allow")
        /\ Filter[82] = Return("EPERM")
    <2>1. /\ Filter[75 + 1] = Load("arg1") /\ Filter[75 + 2] = Masked
          /\ Filter[75 + 3] = IfEqual(SockStream, 0, 1) /\ Filter[75 + 4] = Return("allow")
          /\ Filter[75 + 5] = IfEqual(SockDgram, 0, 1) /\ Filter[75 + 6] = Return("allow")
          /\ Filter[75 + 7] = Return("EPERM")
      BY <1>1, TypeCheckLayout
    <2> QED
      BY <2>1
  <1> DEFINE type == call.arg1 % TypeMask
  <1>4. call.arg1 \in Nat /\ type \in Nat
    BY DEF AnyCall, TypeMask
  <1>5. f[69][call.arg1] = f[70][type] /\ f[77][call.arg1] = f[78][type]
    BY <1>2, <1>3, <1>4, RunMasked
  <1> HIDE DEF type
  <1>6. f[68][acc] = f[69][call.arg1] /\ f[76][acc] = f[77][call.arg1]
    BY <1>2, <1>3, RunLoad
  <1>7. /\ f[70][type] = IF type = SockStream THEN f[71][type] ELSE f[72][type]
        /\ f[78][type] = IF type = SockStream THEN f[79][type] ELSE f[80][type]
    BY <1>2, <1>3, <1>4, RunJump
  <1>8. /\ f[72][type] = IF type = SockDgram THEN f[73][type] ELSE f[74][type]
        /\ f[80][type] = IF type = SockDgram THEN f[81][type] ELSE f[82][type]
    BY <1>2, <1>3, <1>4, RunJump
  <1>9. /\ f[71][type] = "allow" /\ f[73][type] = "allow" /\ f[74][type] = "EPERM"
        /\ f[79][type] = "allow" /\ f[81][type] = "allow" /\ f[82][type] = "EPERM"
    BY <1>2, <1>3, <1>4, RunReturn
  <1> QED
    BY <1>5, <1>6, <1>7, <1>8, <1>9 DEF TypeVerdict, type

\* The verdict on a call that makes a socket.
SocketVerdict(call) ==
  IF call.arg0 = AfUnix THEN "allow"
  ELSE IF call.arg0 \in {AfInet, AfInet6} THEN TypeVerdict(call) ELSE "EPERM"

LEMMA SocketRuns ==
  ASSUME NEW call \in AnyCall, NEW f, Runs(f, call), NEW acc \in Nat
  PROVE  f[63][acc] = IF acc = SysSocket THEN SocketVerdict(call) ELSE "allow"
  <1> DEFINE domain == call.arg0
  <1>1. domain \in Nat
    BY DEF AnyCall
  <1>2. \A i \in {1, 2, 3, 4, 12, 20} : Filter[63 + i] = SocketChecks[i]
    BY FilterLayout
  <1>3. /\ Filter[64] = Load("arg0") /\ Filter[65] = IfEqual(AfUnix, 0, 1)
        /\ Filter[66] = Return("allow") /\ Filter[67] = IfEqual(AfInet, 0, 7)
        /\ Filter[75] = IfEqual(AfInet6, 0, 7) /\ Filter[83] = Return("EPERM")
        /\ Filter[84] = Return("allow") /\ Filter[63] = IfEqual(SysSocket, 0, 20)
    <2>1. /\ Filter[63 + 1] = SocketChecks[1] /\ Filter[63 + 2] = SocketChecks[2]
          /\ Filter[63 + 3] = SocketChecks[3] /\ Filter[63 + 4] = SocketChecks[4]
          /\ Filter[63 + 12] = SocketChecks[12] /\ Filter[63 + 20] = SocketChecks[20]
      BY <1>2
    <2> QED
      BY <2>1, SocketLayout, FilterLayout
  <1>4. f[64][acc] = f[65][domain]
    BY <1>3, RunLoad
  <1>5. f[65][domain] = IF domain = AfUnix THEN f[66][domain] ELSE f[67][domain]
    BY <1>1, <1>3, RunJump
  <1>6. f[66][domain] = "allow" /\ f[83][domain] = "EPERM" /\ f[84][acc] = "allow"
    BY <1>1, <1>3, RunReturn
  <1>7. f[67][domain] = IF domain = AfInet THEN f[68][domain] ELSE f[75][domain]
    BY <1>1, <1>3, RunJump
  <1>8. f[75][domain] = IF domain = AfInet6 THEN f[76][domain] ELSE f[83][domain]
    BY <1>1, <1>3, RunJump
  <1>9. f[68][domain] = TypeVerdict(call) /\ f[76][domain] = TypeVerdict(call)
    BY <1>1, TypeChecksRun
  <1>10. f[64][acc] = SocketVerdict(call)
    BY <1>4, <1>5, <1>6, <1>7, <1>8, <1>9 DEF SocketVerdict, AfUnix, AfInet, AfInet6
  <1>11. f[63][acc] = IF acc = SysSocket THEN f[64][acc] ELSE f[84][acc]
    BY <1>3, RunJump
  <1> QED
    BY <1>6, <1>10, <1>11
\* The denied calls, from the last check back to the first.
LEMMA DeniedRuns ==
  ASSUME NEW call \in AnyCall, NEW f, Runs(f, call), NEW acc \in Nat
  PROVE  f[5][acc] = IF acc \in 1..Denied THEN "EPERM" ELSE f[63][acc]
  <1> DEFINE Goal(k) == f[63 - 2 * k][acc]
                          = IF acc \in 30 - k..29 THEN "EPERM" ELSE f[63][acc]
             S == {k \in 0..29 : ~Goal(k)}
  <1>1. ASSUME NEW k \in 0..28, Goal(k) PROVE Goal(k + 1)
    <2> DEFINE nr == 29 - k
               at == 4 + (2 * nr - 1)
    <2>1. /\ nr \in 1..Denied /\ at \in 1..84 /\ at + 1 \in 1..84
          /\ at + 1 = 4 + 2 * nr /\ at + 2 = 63 - 2 * k /\ at = 63 - 2 * (k + 1)
      BY DEF Denied
    <2>2. Filter[at] = IfEqual(nr, 0, 1) /\ Filter[at + 1] = Return("EPERM")
      BY <2>1, FilterLayout
    <2> HIDE DEF at, nr
    <2>4. f[at][acc] = IF acc = nr THEN f[at + 1][acc] ELSE f[at + 2][acc]
      <3>1. f[at][acc] = Interpreted(f, IfEqual(nr, 0, 1), at, acc, call)
        BY <2>1, <2>2 DEF Runs
      <3>2. f[at][acc] = f[at + 1 + (IF acc = nr THEN 0 ELSE 1)][acc]
        BY <3>1 DEF Interpreted, IfEqual
      <3>3. at + 1 + 0 = at + 1 /\ at + 1 + 1 = at + 2
        BY <2>1
      <3> QED
        BY <3>2, <3>3
    <2>5. f[at + 1][acc] = "EPERM"
      <3>1. f[at + 1][acc] = Interpreted(f, Return("EPERM"), at + 1, acc, call)
        BY <2>1, <2>2 DEF Runs
      <3> QED
        BY <3>1 DEF Interpreted, Return
    <2>6. acc \in 30 - (k + 1)..29 <=> acc = nr \/ acc \in 30 - k..29
      BY DEF nr
    <2>7. f[at][acc] = IF acc = nr THEN "EPERM" ELSE f[63 - 2 * k][acc]
      BY <2>1, <2>4, <2>5
    <2>8. f[63 - 2 * (k + 1)][acc] = IF acc = nr THEN "EPERM" ELSE f[63 - 2 * k][acc]
      BY <2>1, <2>7
    <2> QED
      BY <1>1, <2>6, <2>8
  <1>2. Goal(0)
    BY DEF Goal
  <1> HIDE DEF Goal
  <1>3. S = {}
    <2> SUFFICES ASSUME S # {} PROVE FALSE
      OBVIOUS
    <2>1. PICK m \in S : \A k \in S : m <= k
      <3>1. S \subseteq Nat
        OBVIOUS
      <3> HIDE DEF S
      <3> QED
        BY <3>1, LeastElement
    <2>2. m \in 1..29 /\ ~Goal(m)
      BY <1>2, <2>1
    <2>3. m - 1 \in 0..28 /\ ~ (m <= m - 1) /\ m - 1 + 1 = m
      BY <2>2
    <2>4. Goal(m - 1)
      BY <2>1, <2>3
    <2> QED
      BY <1>1, <2>2, <2>3, <2>4
  <1>4. Goal(29)
    BY <1>3
  <1> QED
    BY <1>4 DEF Goal, Denied

\* What the filter decides, of any machine, call, and arguments.
Decision(call) ==
  IF call.arch # AuditArch THEN "kill"
  ELSE IF call.nr \in DOMAIN DeniedSyscalls THEN "EPERM"
  ELSE IF call.nr # SysSocket THEN "allow" ELSE SocketVerdict(call)

\* Whatever machine a call is of, whatever its number and its arguments, the
\* program of jumps comes to the decision it is meant to.
THEOREM FilterDecides == \A call \in AnyCall : Verdict(Filter, call) = Decision(call)
  <1> SUFFICES ASSUME NEW call \in AnyCall PROVE Verdict(Filter, call) = Decision(call)
    OBVIOUS
  <1>1. PICK T : Filter \in Seq(T)
    BY FilterLayout DEF Long, IsSection
  <1>2. Len(Filter) = 84
    BY FilterLayout DEF Long
  <1>3. \E f : /\ Verdict(Filter, call) = f[1][0]
               /\ \A at \in 1..Len(Filter), acc \in Nat :
                    f[at][acc] = Interpreted(f, Filter[at], at, acc, call)
    BY <1>1, FilterReturns, VerdictOfRun
  <1>4. 1..Len(Filter) = 1..84
    BY <1>2
  <1>5. PICK f : /\ Verdict(Filter, call) = f[1][0]
                 /\ \A at \in 1..84, acc \in Nat :
                      f[at][acc] = Interpreted(f, Filter[at], at, acc, call)
    BY <1>3, <1>4, Zenon
  <1>6. Runs(f, call)
    BY <1>5 DEF Runs
  <1>7. call.arch \in Nat /\ call.nr \in Nat
    BY DEF AnyCall
  <1>8. /\ Filter[1] = Load("arch") /\ Filter[2] = IfEqual(AuditArch, 1, 0)
        /\ Filter[3] = Return("kill") /\ Filter[4] = Load("nr")
    BY FilterLayout
  <1>9. f[1][0] = f[2][call.arch] /\ f[4][call.arch] = f[5][call.nr]
    BY <1>6, <1>7, <1>8, RunLoad
  <1>10. f[2][call.arch] = IF call.arch = AuditArch THEN f[4][call.arch] ELSE f[3][call.arch]
    BY <1>6, <1>7, <1>8, RunJump
  <1>11. f[3][call.arch] = "kill"
    BY <1>6, <1>7, <1>8, RunReturn
  <1>12. f[5][call.nr] = IF call.nr \in 1..Denied THEN "EPERM" ELSE f[63][call.nr]
    BY <1>6, <1>7, DeniedRuns
  <1>13. f[63][call.nr] = IF call.nr = SysSocket THEN SocketVerdict(call) ELSE "allow"
    BY <1>6, <1>7, SocketRuns
  <1> QED
    BY <1>5, <1>9, <1>10, <1>11, <1>12, <1>13, DeniedCount DEF Decision

\* The filter is what it is for on every call the runs try.
THEOREM FilterExact == FilterIsExact
  <1> SUFFICES ASSUME NEW call \in Calls PROVE Verdict(Filter, call) = Wanted(call)
    BY DEF FilterIsExact
  <1>1. DOMAIN Syscalls \subseteq Nat
    <2> DEFINE more == <<"socket", "connect", "openat">>
    <2>1. IsSection(DeniedSyscalls)
      <3>1. DeniedSyscalls = [nr \in 1..29 |-> DeniedSyscalls[nr]]
        BY DEF DeniedSyscalls
      <3>2. \A s : s = [nr \in 1..29 |-> s[nr]] => s \in Seq({s[nr] : nr \in 1..29})
        OBVIOUS
      <3> QED
        BY <3>1, <3>2 DEF IsSection
    <2>2. IsSection(more)
      BY Sections
    <2> HIDE DEF more
    <2>3. DOMAIN (DeniedSyscalls \o more) \subseteq Nat
      BY <2>1, <2>2, Sections
    <2> QED
      BY <2>3 DEF Syscalls, more
  <1>2. call \in AnyCall
    BY <1>1 DEF Calls, AnyCall, AuditArch, ForeignArch, AfUnix, AfInet, AfInet6, AfNetlink,
                AfPacket, SockStream, SockDgram, SockRaw, SockSeqpacket, SockCloexec
  <1>3. call.arg1 % TypeMask \in {SockStream, SockDgram}
          <=> call.arg1 \in {t + f : t \in {SockStream, SockDgram}, f \in {0, SockCloexec}}
    BY DEF Calls, TypeMask, SockStream, SockDgram, SockRaw, SockSeqpacket, SockCloexec
  <1>4. Decision(call) = Wanted(call)
    BY <1>3 DEF Decision, Wanted, SocketVerdict, TypeVerdict
  <1> QED
    BY <1>2, <1>4, FilterDecides

\* The filter an agent on Linux runs under is exact.
THEOREM ExactFilter == SandboxSpec => []SeccompExact
  <1>1. SeccompExact
    BY FilterExact DEF SeccompExact
  <1> QED
    BY <1>1, PTL
================================================================================
