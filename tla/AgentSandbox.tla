----------------------------- MODULE AgentSandbox -----------------------------
(***************************************************************************)
(* From a launch spec to a confined agent: what validate_launch leaves of  *)
(* the spec, the child that gives up root, and the sandbox it enters       *)
(* before it runs the command (run_launch_spec, drop_exec and              *)
(* drop_child_credentials in lianyaohu-app/src/helper_daemon.rs,           *)
(* launch_agent in main.rs, LinuxSandbox::apply in lianyaohu-core), on     *)
(* macOS and Linux, through the helper or not.                             *)
(*                                                                         *)
(* Paths are checked first and used by name later.  All that time another  *)
(* process of the caller may put a symlink in the place of one of his      *)
(* directories.                                                            *)
(***************************************************************************)
EXTENDS SeatbeltProfile, LandlockRules, SeccompFilter, AgentEnvironment

CONSTANTS
  Caller,       \* the account that launches
  Asked,        \* the specs it may ask for
  Primary,      \* its primary group
  Memberships,  \* what id -G prints for it
  SessionGroup, \* the group the firewall rules of the session are for
  Swaps,        \* symlinks [at, to] that may replace a directory
  Abis          \* Landlock versions of the kernels looked at, 0 for none

VARIABLES
  host,         \* the platform, what its kernel has, and whether the helper is used
  asked,        \* the spec
  stage,        \* where the launch stands
  launch,       \* what is left of the spec once it is validated
  environment,  \* the agent's environment
  creds,        \* groups, gid and uid of the process that becomes the agent
  guards,       \* what the kernel enforces on it
  todo,         \* the path rules still to add, loop by loop
  rules,        \* rights the ruleset grants, each on the file it landed on
  refused,      \* rules the kernel would not take
  swapped       \* the directory replaced meanwhile, at most one

\* A spec names one working and one temporary directory, and device nodes are
\* files: what the proofs assume of the constants.
SandboxConstants ==
  /\ Caller \in Accounts /\ Abis \subseteq Nat
  /\ \A s \in Asked :
       /\ s.grants \subseteq Kinds \X Seq(STRING) /\ s.deny \subseteq Seq(STRING)
       /\ s.narrow \in BOOLEAN
       /\ \A k \in {"cwd", "tmpdir"} : Named(s, k) # {}
  /\ DeviceFiles \cap Tree \subseteq Files
  /\ \A d \in DeviceNodes, p \in Objects : Within(p, d) => p = d

request == <<host, asked>>
outcome == <<launch, environment>>
process == <<creds, guards>>
ruleset == <<todo, rules, refused>>
sandboxVars == <<request, stage, outcome, process, ruleset, swapped>>

Hosts ==
  [platform : {"macos"}, helper : BOOLEAN, abi : {0}, openat2 : {TRUE}]
    \cup [platform : {"linux"}, helper : BOOLEAN, abi : Abis, openat2 : BOOLEAN]

RootCreds == [groups |-> {"wheel"}, gid |-> "wheel", uid |-> "root"]
CallerCreds == [groups |-> Memberships, gid |-> Primary, uid |-> Caller]

\* All but the stage.
Fresh ==
  /\ host \in Hosts /\ asked \in Asked
  /\ launch = Configured(Caller, asked) /\ environment = Nothing
  /\ creds = IF host.helper THEN RootCreds ELSE CallerCreds
  /\ guards = {} /\ todo = <<>> /\ rules = {} /\ refused = {} /\ swapped = {}

SandboxInit == Fresh /\ stage = "asked"

-----------------------------------------------------------------------------

Elsewhere == <<"elsewhere">>

\* validate_launch in the helper: all of a client's environment is extras.
ValidatedByHelper ==
  /\ stage = "asked" /\ host.helper
  /\ IF IsWellFormed(asked) /\ IsAcceptable(Caller, asked.grants)
     THEN LET l == Validated(Caller, asked) IN
          /\ launch' = l /\ stage' = "validated"
          /\ environment' = Sanitize(Nothing, l, [k \in Keys |-> Elsewhere])
     ELSE stage' = "rejected" /\ UNCHANGED outcome
  /\ UNCHANGED <<request, process, ruleset, swapped>>

\* prepare: the grammar alone is looked at.
Prepared ==
  /\ stage = "asked" /\ ~host.helper
  /\ IF IsWellFormed(asked)
     THEN LET l == Configured(Caller, asked) IN
          /\ launch' = l /\ stage' = "validated"
          /\ environment' = Sanitize([k \in Keys |-> Elsewhere], l, [k \in Keys |-> Elsewhere])
     ELSE stage' = "rejected" /\ UNCHANGED outcome
  /\ UNCHANGED <<request, process, ruleset, swapped>>

\* run_launch_spec or launch_agent: the profile written, the child spawned.
Spawn ==
  /\ stage = "validated" /\ stage' = IF host.helper THEN "groups" ELSE "sandbox"
  /\ UNCHANGED <<request, outcome, process, ruleset, swapped>>

\* supplementary_groups_for_uid: never the group the rules are for.
SupplementaryGroups == (Memberships \ {SessionGroup}) \cup {Primary}

\* A mistake to catch: a setgroups that fails is not noticed.
SetGroupsUnchecked ==
  /\ stage = "groups" /\ stage' = "gid"
  /\ creds' \in {creds, [creds EXCEPT !.groups = SupplementaryGroups]}
  /\ UNCHANGED <<request, outcome, guards, ruleset, swapped>>

\* The credentials are dropped in this order; only root may drop them.
SetGroups ==
  /\ stage = "groups" /\ stage' = "gid"
  /\ creds' = [creds EXCEPT !.groups = SupplementaryGroups]
  /\ UNCHANGED <<request, outcome, guards, ruleset, swapped>>

SetGid ==
  /\ stage = "gid" /\ creds.uid = "root" /\ stage' = "uid"
  /\ creds' = [creds EXCEPT !.gid = SessionGroup]
  /\ UNCHANGED <<request, outcome, guards, ruleset, swapped>>

\* On macOS drop_exec tries whether root is gone before it goes on.
SetUid ==
  /\ stage = "uid" /\ creds.uid = "root" /\ stage' = "sandbox"
  /\ creds' = [creds EXCEPT !.uid = Caller]
  /\ UNCHANGED <<request, outcome, guards, ruleset, swapped>>

\* sandbox-exec -f: the profile comes into force with the agent.
SandboxExec ==
  /\ stage = "sandbox" /\ host.platform = "macos" /\ stage' = "running"
  /\ guards' = {"seatbelt"}
  /\ UNCHANGED <<request, outcome, creds, ruleset, swapped>>

-----------------------------------------------------------------------------
\* LinuxSandbox::apply, in the forked child.
NoNewPrivs ==
  /\ stage = "sandbox" /\ host.platform = "linux" /\ stage' = "ruleset"
  /\ guards' = {"no_new_privs"}
  /\ UNCHANGED <<request, outcome, creds, ruleset, swapped>>

CreateRuleset ==
  /\ stage = "ruleset"
  /\ IF host.abi < 1 THEN stage' = "failed" /\ UNCHANGED todo
     ELSE stage' = "rules" /\ todo' = RuleLoops(launch, host.abi)
  /\ UNCHANGED <<request, outcome, process, rules, refused, swapped>>

\* The symlinks as they are now.
LinksNow ==
  [p \in {s.at : s \in swapped} \cup DOMAIN Links |->
     IF \E s \in swapped : s.at = p THEN (CHOOSE s \in swapped : s.at = p).to
     ELSE Links[p]]

\* One turn of a loop of apply_landlock: add_path_rule.
AddPathRule ==
  /\ stage = "rules" /\ todo # <<>> /\ Head(todo) # {}
  /\ LET rule == CHOOSE r \in Head(todo) : TRUE
         targets == OpenRuleTarget(LinksNow, host.openat2, rule.path)
         bad == {t \in targets : KernelRefuses(host.abi, RightsOn(rule, t), t)}
     IN /\ rules' = rules \cup UNION {{t} \X RightsOn(rule, t) : t \in targets \ bad}
        /\ refused' = refused \cup bad
        /\ IF bad = {} THEN UNCHANGED stage ELSE stage' = "failed"
        /\ todo' = [todo EXCEPT ![1] = @ \ {rule}]
  /\ UNCHANGED <<request, outcome, process, swapped>>

NextLoop ==
  /\ stage = "rules" /\ todo # <<>> /\ Head(todo) = {}
  /\ todo' = Tail(todo)
  /\ UNCHANGED <<request, stage, outcome, process, rules, refused, swapped>>

\* The kernel restricts a process without root only under no_new_privs.
RestrictSelf ==
  /\ stage = "rules" /\ todo = <<>> /\ "no_new_privs" \in guards
  /\ stage' = "seccomp" /\ guards' = guards \cup {"landlock"}
  /\ UNCHANGED <<request, outcome, creds, ruleset, swapped>>

ApplySeccomp ==
  /\ stage = "seccomp" /\ "no_new_privs" \in guards
  /\ stage' = "running" /\ guards' = guards \cup {"seccomp"}
  /\ UNCHANGED <<request, outcome, creds, ruleset, swapped>>

-----------------------------------------------------------------------------
\* Whatever step of the parent or the child fails, the launch does.
StepFails ==
  /\ stage \notin {"asked", "running", "rejected", "failed", "ended"}
  /\ stage' = "failed"
  /\ UNCHANGED <<request, outcome, process, ruleset, swapped>>

AgentExits ==
  /\ stage = "running" /\ stage' = "ended"
  /\ UNCHANGED <<request, outcome, process, ruleset, swapped>>

\* Another process of the caller moves a directory and leaves a symlink.
Replace ==
  /\ stage \notin {"running", "rejected", "failed", "ended"} /\ swapped = {}
  /\ \E s \in Swaps : Owner[s.at] = Caller /\ swapped' = {s}
  /\ UNCHANGED <<request, stage, outcome, process, ruleset>>

SandboxNext ==
  \/ ValidatedByHelper \/ Prepared \/ Spawn
  \/ SetGroups \/ SetGid \/ SetUid \/ SandboxExec
  \/ NoNewPrivs \/ CreateRuleset \/ AddPathRule \/ NextLoop
  \/ RestrictSelf \/ ApplySeccomp
  \/ StepFails \/ AgentExits \/ Replace

SandboxSpec == SandboxInit /\ [][SandboxNext]_sandboxVars

-----------------------------------------------------------------------------
Running(platform) == stage = "running" /\ host.platform = platform

\* Whatever failed on the way: an agent runs as its caller, in the one group
\* the firewall rules of its session match and with that group nowhere else,
\* under all the guards of its platform, and with an environment whose roots
\* are the ones that were validated.  Code: drop_exec, drop_child_credentials,
\* supplementary_groups_for_uid, LinuxSandbox::apply, sanitize.
AgentsRunConfined ==
  stage = "running" =>
    /\ creds.uid = Caller
    /\ host.helper => creds.gid = SessionGroup /\ creds.groups = SupplementaryGroups
    /\ guards = IF host.platform = "macos" THEN {"seatbelt"}
                ELSE {"no_new_privs", "landlock", "seccomp"}
    /\ EnvironmentPinned(environment, launch)

\* The order of the profile's sections means what the policy means: a deny
\* beats every grant, what tells the machine apart is nobody's to read whoever
\* is granted the tree around it, and nothing else gets lost to a rule further
\* down.  Code: SandboxProfile::render.
SeatbeltAsPolicy == Running("macos") => ProfileIsPolicy(launch)

\* A symlink somewhere in a rule's path, where openat2 is blocked.
Redirected ==
  /\ ~host.openat2
  /\ \E p \in ReadOnlyPaths(launch) \cup WritablePaths(launch) \cup DeviceFiles,
        q \in DOMAIN LinksNow : p # q /\ Within(p, q)

\* A directory that was replaced by a symlink after it was validated grants
\* nothing where the symlink leads; without that the rules are the policy, to
\* the last right the kernel knows of; and none of them makes a launch fail.
\* Only where openat2 is blocked may a symlink inside a path redirect its
\* rule.  Code: apply_landlock, open_rule_target, add_path_rule.
LandlockAsPolicy ==
  /\ refused = {}
  /\ Running("linux") /\ ~Redirected =>
       \A d \in Tree :
         LET enforced == Enforced(rules, d) \cap Applicable(d)
             intended == Intends(launch, host.abi, d) \cap Applicable(d)
         IN /\ enforced \subseteq intended
            /\ swapped = {} => enforced = intended

\* The filter, jumps and all, decides every call the way it is meant to.
\* Code: apply_seccomp, restrict_socket_syscall.
SeccompExact == Running("linux") => FilterIsExact
===============================================================================
