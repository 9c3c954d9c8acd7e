---------------------------- MODULE LaunchPipeline ----------------------------
(***************************************************************************)
(* From the configuration to the confined agent: what attach_policy,       *)
(* LaunchSpec and the client of the helper socket (main.rs, launch.rs,     *)
(* helper.rs) do with the policy a launch has merged.                      *)
(*                                                                         *)
(* ConfigTrust is extended by the steps after it; the helper's sessions    *)
(* are what GuardLease promises and HelperSessions implements.  The helper *)
(* may be of an older build than the client and be replaced while launches *)
(* are under way.                                                          *)
(***************************************************************************)
EXTENDS ConfigTrust

CONSTANTS
  Builds,      \* helper builds: what they can do, the oldest first
  NoHelper,    \* no helper process is listening
  NoRules,     \* the user's firewall chain is absent
  Me           \* the user of these launches

\* LAUNCH_SPEC_VERSION; legacy specs say 0 and carry no policy.
PolicyVersion == 2

\* Does the build understand policies, and which spec versions does it refuse?
\* One from before there were versions refuses none.
Build == [policy : BOOLEAN, refuses : SUBSET {0, PolicyVersion}]

ASSUME BuildsAssumption ==
  /\ Builds \in Seq(Build) /\ NoHelper \notin DOMAIN Builds
  /\ \A i, j \in DOMAIN Builds : i < j /\ Builds[i].policy => Builds[j].policy

VARIABLES
  helper,    \* index of the running build, or NoHelper
  installed, \* index of the build the supervisor starts
  at,        \* at[l]: where l stands once its configuration is ready
  spec,      \* spec[l]: the launch spec l has written
  enforced,  \* enforced[l]: the policy the helper sandboxed l's agent with
  members,   \* GuardLease: the agents the helper answers for
  rules      \* GuardLease: what the firewall enforces

server == <<helper, installed>>
pipeline == <<server, at, spec, enforced, members, rules>>
allVars == <<vars, pipeline>>

\* sandbox_policy: an unset default is "allow".
Policy(f) == [f EXCEPT !.default = IF f.default = "unset" THEN "allow" ELSE f.default]

DefaultPolicy == Policy(Empty)
Policies == [default : {"allow", "deny"},
             deny : SUBSET Destinations, widen : SUBSET Destinations]

NoSpec == [version |-> 0, policy |-> NoFile]
Lease == INSTANCE GuardLease WITH
  Clients <- Launchers, Uids <- {Me}, Variants <- Policies, Blank <- {NoRules}

PipelineTypeOK ==
  /\ TypeOK
  /\ helper \in DOMAIN Builds \cup {NoHelper} /\ installed \in DOMAIN Builds
  /\ at \in [Launchers -> {"config", "probe", "request", "running", "ended",
                           "refused", "orphaned"}]
  /\ spec \in [Launchers -> [version : {0, PolicyVersion}, policy : Policies \cup {NoFile}]]
  /\ enforced \in [Launchers -> Policies \cup {NoFile}]
  /\ members[Me] \subseteq Launchers \X Policies
  /\ rules[Me] \in Policies \cup {NoRules}

PipelineInit ==
  /\ Init
  /\ helper \in DOMAIN Builds /\ installed = helper
  /\ at = [l \in Launchers |-> "config"]
  /\ spec = [l \in Launchers |-> NoSpec]
  /\ enforced = [l \in Launchers |-> NoFile]
  /\ members = [u \in {Me} |-> {}] /\ rules = [u \in {Me} |-> NoRules]

-----------------------------------------------------------------------------
Step(l, from, to) == at[l] = from /\ at' = [at EXCEPT ![l] = to]

\* Launchers end with all they hold; the configuration files stay.
Leave(L) ==
  /\ End(L) /\ UNCHANGED <<files, command, consented, raced>>
  /\ spec' = [l \in Launchers |-> IF l \in L THEN NoSpec ELSE spec[l]]

\* A mistake to catch: the policy is attached without asking the helper.
PrepareUnprobed(l) ==
  /\ Ready(l) /\ Step(l, "config", "request")
  /\ spec' = [spec EXCEPT ![l] = [version |-> PolicyVersion, policy |-> Policy(Effective(l))]]
  /\ UNCHANGED <<vars, server, enforced, members, rules>>

\* attach_policy: the built-in policy goes out as a legacy spec, unasked.
Prepare(l) ==
  /\ Ready(l) /\ at[l] = "config"
  /\ at' = [at EXCEPT ![l] = IF Policy(Effective(l)) = DefaultPolicy THEN "request" ELSE "probe"]
  /\ UNCHANGED <<vars, server, spec, enforced, members, rules>>

SupportsPolicy == helper # NoHelper /\ Builds[helper].policy

\* supports_policy: an old build answers the verb with an error line.
Probe(l) ==
  /\ SupportsPolicy
  /\ Step(l, "probe", "request")
  /\ spec' = [spec EXCEPT ![l] = [version |-> PolicyVersion, policy |-> Policy(Effective(l))]]
  /\ UNCHANGED <<vars, server, enforced, members, rules>>

ProbeFails(l) ==
  /\ ~SupportsPolicy
  /\ Step(l, "probe", "refused") /\ Leave({l})
  /\ UNCHANGED <<budget, server, enforced, members, rules>>

\* LaunchSpec::validate in the helper.
Accepts(build, s) == s.version \notin build.refuses

\* The policy a build takes from a spec; one that knows none skips the field.
Understood(build, s) ==
  IF build.policy /\ s.policy # NoFile THEN s.policy ELSE DefaultPolicy

\* A user has one rule set at a time.
Joinable(p) == \A m \in members[Me] : m[2] = p

\* A helper listens, takes the spec, and no other rule set is in force.
Grantable(s) ==
  /\ helper # NoHelper /\ Accepts(Builds[helper], s)
  /\ Joinable(Understood(Builds[helper], s))

\* The `run` request, up to the agent's start under its guard.
Run(l) ==
  /\ Grantable(spec[l])
  /\ Step(l, "request", "running")
  /\ LET p == Understood(Builds[helper], spec[l]) IN
     /\ Lease!Enter(Me, <<l, p>>)
     /\ enforced' = [enforced EXCEPT ![l] = p]
  /\ UNCHANGED <<vars, server, spec>>

RunRefused(l) ==
  /\ ~Grantable(spec[l])
  /\ Step(l, "request", "refused") /\ Leave({l})
  /\ UNCHANGED <<budget, server, enforced, members, rules>>

AgentExits(l) ==
  /\ Step(l, "running", "ended") /\ Leave({l})
  /\ enforced' = [enforced EXCEPT ![l] = NoFile]
  /\ rules' = [rules EXCEPT ![Me] =
                IF members[Me] = {<<l, enforced[l]>>} THEN NoRules ELSE @]
  /\ Lease!Leave(Me, <<l, enforced[l]>>)
  /\ UNCHANGED <<budget, server>>

\* install-helper.sh puts a later build in place and restarts the service, or
\* the helper just dies.  The agents live on; their launchers read no answer.
HelperStops ==
  /\ helper # NoHelper /\ helper' = NoHelper
  /\ installed' \in {i \in DOMAIN Builds : i >= installed}
  /\ at' = [l \in Launchers |-> IF at[l] = "running" THEN "orphaned" ELSE at[l]]
  /\ Leave({l \in Launchers : at[l] = "running"})
  /\ Lease!Disown
  /\ Spend
  /\ UNCHANGED enforced

\* The next instance reaps the chains it finds before it listens.
HelperStarts ==
  /\ helper = NoHelper /\ helper' = installed
  /\ rules' = [rules EXCEPT ![Me] = NoRules] /\ Lease!Unattended
  /\ UNCHANGED <<vars, installed, at, spec, enforced>>

Pipeline ==
  \/ \E l \in Launchers :
       Prepare(l) \/ Probe(l) \/ ProbeFails(l) \/ Run(l) \/ RunRefused(l) \/ AgentExits(l)
  \/ HelperStops \/ HelperStarts

PipelineNext ==
  \/ ConfigNext /\ UNCHANGED pipeline
  \/ Pipeline

PipelineSpec == PipelineInit /\ [][PipelineNext]_allVars

-----------------------------------------------------------------------------
\* An agent the helper answers for runs under exactly the policy its launch
\* merged from the files and flags, in the sandbox and in the firewall: no
\* build, however old, enforces a part of it or another launch's.  Code: the
\* probe in attach_policy, spec_version, the conflict check of the helper.
AgentsUnderTheirPolicy ==
  \A l \in Launchers : at[l] = "running" =>
    enforced[l] = Policy(Effective(l)) /\ rules[Me] = enforced[l]

===============================================================================
