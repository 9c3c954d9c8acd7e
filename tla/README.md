# A TLA+ verification of LianYaoHu

LianYaoHu (`lyh`) launches a coding agent inside a sandbox and behind a firewall
that lets its traffic out through one VPN interface (or, in proxy-only mode,
through loopback alone).  A root helper owns the firewall; agents may run
detached in background sessions; what an agent may touch comes from layered
configuration files, some of which lie in repositories nobody has vouched for.

This directory holds TLA+ models of the parts whose correctness depends on the
order of things: threads, processes, signals, crashes, files rewritten by
others, firewall commands that fail half way, and lists of rules of which one
match decides.

Source paths below are shortened: `helper_daemon.rs`, `main.rs`, `session/*` and
`tui/*` are in `src/crates/lianyaohu-app/src/`, the others in
`src/crates/lianyaohu-core/src/`.

## The system

| part | code | state it keeps | who acts on it |
|---|---|---|---|
| helper: sessions | `helper_daemon.rs` | map uid -> (rule set, count, guard) under a mutex; kernel chains | one worker thread per connection, the signal thread, kill and restart |
| helper: admission | `helper_daemon.rs`, `launch.rs` | connection count, count per uid, abandoned readers per uid | accept loop, workers, spec reader threads, timeouts |
| helper: grants | `helper_daemon.rs` | none (reads the file system and passwd) | a worker that validates a spec |
| firewall guards | `linux_firewall.rs`, `pf.rs` | the kernel's chains and jumps; PF's anchors, references and rules files | the helper's guards, launchers with sudo, a reaping helper |
| configuration and trust | `config.rs`, `main.rs`, `tui/editor.rs` | global file, project files, trust store | launches, `lyh config`, the editor, checkouts; no locks |
| launch pipeline | `main.rs`, `helper.rs`, `launch.rs` | the merged policy, the spec | a launch, a helper that may be replaced |
| session daemon | `session/daemon.rs` | clients, poll entries, scrollback, PTY | its loop, clients, the agent and its children |
| session registry | `session/mod.rs`, `session/client.rs`, `main.rs` | a socket and a metadata file per name | launches, daemons, `lyh ls/attach/kill`; no locks |
| sandboxes | `sandbox_profile.rs`, `linux_sandbox.rs`, `env_policy.rs` | credentials, rulesets and filters of the child | the child, once, before exec, while others move directories |
| configuration editor | `tui/editor.rs` | two drafts, an input line, an undo, what is on disk | one thread, key by key; saves that fail |
| interfaces | `route.rs`, `interfaces.rs` | none | a launch |
| rest of the user interface | `tui/*` | the form on screen | one thread |

A launch reads its configuration (trust), picks an interface, asks the helper
whether it understands policies, writes a spec and sends `run`.  The helper
admits the request, reads and validates the spec, joins or installs its user's
rules and spawns the agent.  A background launch does this from a daemon that
holds the agent's terminal and serves whoever attaches; the registry is how
they find it.

What is hard here, and what a test would hardly reach, is listed per line under
`hazards` in `PROJECT.json`.

## The modules

### Firewall sessions: `GuardLease`, `HelperSessions`

`GuardLease` is the promise, without a how: a user's guard is up, with exactly
the rules every agent of that user asked for, from before the first agent joins
until the last has left.

`HelperSessions` is the code: `mode` is the process, `lock` the `sessions`
mutex, `sess`/`refcount` the map, `chain` what the kernel has, `pc`/`want` a
launcher and the worker that serves it, `agent` its agent.  `acquire_session` is
`AcquireConflict`, `AcquireJoin`, and `AcquireInstall` followed by `InstallOk` or
`InstallFails` with the mutex held; `run_session` goes on with `Spawn`,
`AgentExits` and `release_session` (`ReleaseSession`, then `TeardownDone`).
`install` leaves its reference to a later `uninstall`, which carries no token
(`Uninstall`, `StrayUninstall`).  `shutdown_on_signal` is `Signal`,
`TeardownAllBegin`, `TeardownOne`, `TeardownAllEnd`, `Exit`.  `Killed` and
`Restart` (with its reap) may come at any time.  `HelperWorkload` adds a budget of
requests, and which users nobody has interfered with.

The helper's chains are here absent, complete or `Partial`; the commands between
these are `LinuxFirewall`'s, which implement the same three values in
`GuardChains`.

### Requests: `GrantValidation`, `HelperRequests`

`GrantValidation` is stateless: `IsGrantable` is what `validate_launch` and
`validate_policy` let each field of a spec name, `ForeignHomeConflict` the rule
that keeps grants out of other people's homes.  A path is the sequence of its
names, a symlink is resolved at its last component.

`HelperRequests` follows a connection through the accept loop (`ConnectionSlot`),
`UidSlot`, the receipt of the message and `read_with_deadline`, whose reader
thread may be given up on a file that never comes back.  The caller's timeout
and the reader's late answer hand the count of abandoned readers over by a
swapped flag (`CountAbandoned`, `GiveUp`, `ReaderFinishes`).

### Agents: `SandboxPolicy`, `SeatbeltProfile`, `LandlockRules`, `SeccompFilter`, `AgentEnvironment`, `AgentSandbox`

`SandboxPolicy` is what is left of a spec once it is validated (`Validated`, by the
helper) or taken as configured (`Configured`, a direct launch), over the same
tree of directories, files and symlinks `GrantValidation` looks at.

* `SeatbeltProfile` is `SandboxProfile::render`: `Profile` is the list of rules,
  section by section, of which the last match decides; `ProfileIsPolicy` compares
  what it decides of every object of the tree with what the policy means, which
  is written without an order.
* `LandlockRules` is `apply_landlock`: the paths (`ReadOnlyPaths`, `WritablePaths`,
  device nodes), the rights each kernel version has (`Handled`), what a rule
  lands on when its path is opened without following symlinks
  (`OpenRuleTarget`, with `openat2` or the weaker fallback), the rights a file
  gets instead of a directory (`RightsOn`), and which rules the kernel refuses.
* `SeccompFilter` is the BPF program of `apply_seccomp`, jump by jump, with an
  interpreter for it (`Verdict`, a recursive function) and a table of what each
  call should get (`FilterIsExact`).
* `AgentEnvironment` is `sanitize`, on one name of each kind.

`AgentSandbox` composes them in the order of `run_launch_spec` (or `launch_agent`,
for a launch without the helper): `ValidatedByHelper`/`Prepared`, `Spawn`, then the
child's `SetGroups`, `SetGid`, `SetUid`, and either `SandboxExec` or `NoNewPrivs`,
`CreateRuleset`, `AddPathRule` (one rule at a time), `RestrictSelf`, `ApplySeccomp`.
`StepFails` may come before any of them; `Replace`, by another process of the
caller, puts a symlink in the place of a directory between its validation and
its use.

### Firewall: `NetworkPolicy`, `GuardChains`, `LinuxFirewall`, `PfGuard`

`NetworkPolicy` is stateless: `Allowed` is what a policy permits, without an
order of rules; `Chain` is the iptables chain and `PfAnchor` the PF anchor that
are to enforce it, as first-match lists.  Networks are sets of addresses.

`LinuxFirewall` executes the command lists of `LinuxFirewallGuard` one command
at a time, on both families: commands fail because the tables do not allow them
(`Possible`) or for another reason (`faults`), processes die between commands,
guards of the helper and of a sudo launcher interleave, and a new helper reaps.

`GuardChains` is what the program counts on, which never looks at the tables: a
chain is absent, the rules of one policy, or `Partial`, and a guard is idle,
installing, standing, removing or orphaned.  `LinuxFirewall` implements it
(`ChainsSpec`).  The mapping reads the tables and not the steps: a live guard has
its rule set if the jumps of both families lead to that policy's whole chains
(`InPlace`), an idle one has nothing if no table has a trace of it (`NoTrace`),
and everything else is `Partial`.  Its actions are those of `HelperSessions` on a
chain: `Begin` is `AcquireInstall`, `Installed` is `InstallOk`, `BeginRemoval` the
release of the last reference, `CleanedUp` is `TeardownDone` or `InstallFails`,
`HelperDies` is `Killed`, and `Reap` and `Serve` are the two halves of `Restart`.

`PfGuard` is the same of `pfctl`: `PFGuard::install` and `uninstall` of direct
launches (`UseSudo`, `Check`, `Enable`, `Load`, `Release`, `SudoUninstall`, `Flush`) beside
the helper's twin, which runs the same commands with its mutex held (`AskHelper`,
`HelperUninstall`).  PF is on as long as somebody holds a reference (`refs`), and
only the token printed by `-E` gives one back; the token may not be found in the
output, and dies with its process.  A launch whose policy an old helper does not
know goes to sudo instead.  `disturbed` is a history variable: the scopes in
which the guards share an anchor or a rules file with another of the same user,
or have seen a helper go or come.

### Configuration: `ConfigTrust`, `LaunchPipeline`

`ConfigTrust` is `load_layered_config`, one file access at a time (the project
file is read twice: to parse it and to hash it), against `lyh config trust` and
`revoke`, the editor's saves, and checkouts.  A save truncates its file before
it writes; the process may die between the two.  A file is abstracted to its
default action, what it denies and what it opens; a digest is the contents it
is the digest of.  `consented` and `raced` are history variables: which contents
the user agreed to, and which digests were recorded although the file had
changed since.

`LaunchPipeline` extends it to the running agent: `attach_policy` asks for the
`policy` capability, a helper of an older build ignores what it does not know,
and the helper that answered may have been replaced by the time of the `run`.
The helper's sessions are composed in as the abstract `GuardLease`, which
`HelperSessions` is proved to implement.

### The configuration editor: `PolicyEditor`

One action per kind of key.  A draft per scope, the file and what the editor
takes for its contents (`disk`), one input line with the list it is for, one
deletion that can be undone, and the review screen's saves, each of which may
fail at any of its steps (`Save` with an outcome).  The five forms are one: a key
acts on any entry of any list that a form has.  `opened` and `deleted` are history
variables: the scope the input line was opened in, and the list the last
deletion was from, before and after it.

### Background sessions: `SessionDaemon`, `SessionRegistry`

`SessionDaemon` is `run_loop`: `Poll` takes a snapshot (`polled`), which is worked
off by `Accept`/`Accepted`, `Drain`/`Drained`, and the back-to-front walk
(`WalkPast`, `Service`), while clients connect, send, stall and close and the
agent writes and exits.  After the loop come `FinalDrain` and `Farewell`.

`SessionRegistry` is the directory of sockets and metadata files, without which
nobody finds a daemon: `launch_in_session` step by step (parent and daemon both
write metadata), `list_sessions` with its look-then-remove, attaching, killing,
and the clients' removal of files by name.  Nothing is locked, and nothing is
left out of the interleaving.  A write empties the file first (`Truncate`,
`Torn`, `Write`); a removal takes the socket first and the metadata later
(`UnlinkSocket`, `UnlinkMeta`).  A launch may fail, or be killed, at each of its
steps, and a daemon may be killed at any time, or not come to be at all.
`disturbed` is a history variable, read by no guard: the launches that met one of
three races in which the code itself loses the files of a session (see *What the
models leave open on purpose*).

## Runs

All runs stop at a bounded instance without an error, or with the violation
named; sizes are distinct states.

Three runs answer two questions each, about parts that share no variable:
requests and the launch of an agent, chains and PF's guards, launches and the
editor.  A behaviour is about one of the two from its first state on (`half`, or
the disjuncts of `MCInit` in `MCHelperRequests`); the other half stays in one
state.  So the number of states is the sum of both, not the product, and a
property of one half says nothing, and claims nothing, of the other.

| run | instance | states | shows |
|---|---|---|---|
| `helper_run` | 3 launchers of one user, 2 rule sets, 2 scopes, stray uninstalls, failing cleanups, kills | 721 k | `IndInv` and the safety properties; `LeaseSpec` (refinement of `GuardLease`) |
| `helper_live` | 2 users, budget of 4 requests, signals and kills | 26 k | no residue, release completes, no user left blocked, tokenless installs stay guarded |
| `helper_shutdown` | as `helper_run`, no faults, no kills | | **violated**: a stopped helper leaves rules behind |
| `request_run` | 4 requests of 2 users, 3 slots, 2 per user, 1 abandoned reader; half: eight launches of one user, both platforms, with the helper and without, Landlock versions 0, 1 and 3, one directory replaced meanwhile | 137 k | slots, claims and reader counts are exact; grants stay home; everybody is answered; agents run confined, and profile, ruleset and filter are the policy |
| `firewall_run` | a group and a user guard of one user, 2 rule sets for the second, 2 addresses per family, 2 ports, 2 faults; half: PF guards of one run and two direct launches, 2 kills | 470 k | confinement, no over-blocking, PF agrees, installs heal, removals are complete; `ChainsSpec` (refinement of `GuardChains`); PF's guards keep their rules and give back their reference |
| `launch_run` | 2 launches, 1 project directory, 2 helper builds (the old one runs first), 2 events; half: an editor, a global file with an entry that builds no policy, a project file or none, 2 changes | 0.8 M | consent to widenings, tightenings, agents under exactly their policy; edits land where they were begun, and what is shown as saved is what is launched |
| `config_widening` | 1 launch, 2 directories | | **violated**: a project file lifts the global default deny unasked |
| `daemon_run` | 2 clients that return, 2 chunks, scrollback of 1 | 2.4 M | clients see the output, good clients are kept, exit comes last |
| `daemon_live` | 2 clients, 1 chunk, non-blocking reads | 488 k | the exit, and a kill, end the session |
| `daemon_index` | as above, blocking reads | | **violated**: the walk reads from a client `poll` did not report |
| `registry_run` | 2 launches asked for one name, 2 observers | 304 k | live sessions lose their files by three races only, stale sockets go |
| `registry_start` | 1 detached launch, 1 observer | | **violated**: a list takes a starting session for stale |

### Why these bounds

* Three launchers are the least for one agent to run, a second to leave and a
  third to race both for the mutex; a second user only matters for independence,
  and is in `helper_live`.  The proofs lift the bound.
* Two guards are all the scopes one user has.  Their rule sets are chosen to
  overlap: an exception inside a deny, a deny inside an allow, a port deny, a
  gateway, and proxy-only.  The user guard has two, so that what an earlier
  launch left behind differs from what the next one installs.  Two faults allow a failed command and a failed
  command of its clean-up, the least that leaves residue without a crash; deaths
  between any two commands, which are not bounded, leave the other shapes.
* Per user, two requests are the cap and three the least that meets it; two of
  them stall, so that reads under way overlap with a full count of abandoned
  readers.  The excess over the cap is what `AbandonedExact` bounds:
  `MaxAbandoned + MaxPerUid - 1`.
* Two events of the user or a checkout are the least that both rewrite a file
  and change the store between two reads of one launch.  `ConfigTrust` alone was
  also explored with two launches and two directories (1.4 M states).
* With a scrollback of one chunk the second chunk is already cut off; one more
  client, or chunk, repeats what two do.
* The launches of the sandbox half are one per shape: plain, narrow-home, a
  read-only path over the timezone files, a deny inside what is granted, symlinks
  as a directory, in a path and as a state directory, the root and a way up.
  Landlock 0 is a kernel without it, 1 has neither `refer` nor `truncate`, 3 has
  both.  One replaced directory is what a check-then-use needs.
* Three launches are the least for PF: a run, and two direct launches that share
  an anchor in the user's scope.  Two kills allow a launch, and then the helper,
  to be killed, or a helper to go twice.
* Two changes of a draft with a switch of scope between them are the least to
  land somewhere else; a third adds nothing to one undo and one input line.
  Lists are over their limit at two entries, so that a save may be refused.
* `SameName`: both launches were asked for `x`.  One name is where all races of
  the registry are; two observers, so that one removes while the other lists or
  attaches.  Default names (`DefaultNames`: `x`, then `x2`) were also explored, the
  invariants with two observers (3.5 M states), the liveness with one (163 k).

### What the switches show

Some constants switch on behaviour under which a property is known to fail.  The
passing runs have them off; this is what TLC finds when they are on.

* `ReapAnyTime` (`LinuxFirewall`): a helper that starts while an earlier one's
  agents live reaps their chains: `Confined` and `RemovalIsComplete` fail.  The
  fail-open is documented (`website/security-model.md`, 237-242).
* `BlockingReads` (`SessionDaemon`): `TRUE` is Linux, where an accepted stream does
  not inherit `O_NONBLOCK`; with it `ExitEndsSession` fails, by the way
  `daemon_index` shows.  The safety run has it `TRUE`, the liveness run `FALSE`.
* `Stragglers` (`SessionDaemon`): children of an agent the helper launched outlive
  it on the terminal, as that agent leads no session.
* `StrayClients`, `CleanupFaults`, `MayDie` (`HelperSessions`) are on in
  `helper_run`.  The clean-up faults are off for `NoResidue`, which nothing could
  keep if clean-ups may fail for good.
* Helper builds only get newer (`HelperStops` of `LaunchPipeline`).  If one could get older between
  probe and `run`, `AgentsUnderTheirPolicy` would fail.

### Disagreements with the code's own words

Four runs check what a comment says and find that the code does not do it
(`findings` in `PROJECT.json` quotes each):

* `helper_shutdown`: `teardown_all_sessions` lets the mutex go before
  `process::exit`; a worker that waited for it installs in between.
* `daemon_index`: the walk goes back to front so that drops cannot shift the poll
  indices, but the broadcast before it has dropped clients already.
* `registry_start`: the parent's metadata is to keep a concurrent `lyh ls` from
  taking the session for stale; with `--detached` the parent is dead by then.
* `config_widening`: "never silently widened" holds for lists, not for
  `network.default` (nor `paths.narrow_home`) of an unapproved project file.

### What the models leave open on purpose

Not violated properties, but behaviours of the code that the properties are
worded around.  They were met while modelling.

* Sandboxes: `paths.deny` is not enforced on Linux, where Landlock can only grant,
  and is compared by name on macOS, so that a symlink's other name is another
  path.  Without `openat2` a symlink inside a path redirects its rule
  (`Redirected`).  A right the kernel version does not handle is not taken away
  at all.  A direct launch on macOS from `/` is granted everything; one on Linux is
  given a `TMPDIR` that nobody creates.
* iptables: after two failed clean-up commands a chain of an earlier launch may
  stand, and reject by its own policy, until the next install removes it;
  `OnlyPolicyRejects` says that nothing but a guard's own rules ever rejects.
* PF: two sudo guards of one user share an anchor and a rules file, and may load
  each other's rules; a helper that stops, also gracefully, takes down the rules
  of direct launches it installed for; after its restart a left-over `uninstall`
  counts down whatever user session is there.
* Registry: a session that lives loses its files in three cases, in which nobody
  finds it any more.  Its name was bound while somebody who had to do with an
  earlier session there was not yet done: an observer about to remove its files, a
  launch of that name still writing or cleaning up (`InUse`).  A list found it
  stale while it was starting: no metadata yet, metadata just emptied, or the
  parent gone (`Look`).  Or a client that was dropped for being slow, or a kill
  that could not write, took it for ended (`StreamEnds`, `KillFails`).
  `LiveSessionsReachable` excepts exactly these (`disturbed`); asked of every
  session it is violated in each of the three ways.  A socket left behind is not
  found stale while another daemon lives whose metadata is at that name
  (`Shadowed` in `StaleSocketsGo`).
* Editor: `confirm_quit` is not reset by a save, so a later quit with unsaved edits
  may not ask; once the project file is written and only its approval fails, the
  review says there is nothing to save; `g` on a clean draft may leave an emptied
  file that is still shown as clean; the interface `none` goes to the global draft
  and the proxy it asks for to the scope in sight; an undo after the entry was
  added again makes a duplicate.

## Fairness

Safety runs assume none.  Otherwise:

* `HelperSessions`: weak fairness of each worker, of the signal thread and of
  `Restart`, the last because the supervisor restarts a helper that is gone
  (`scripts/install-helper.sh`, 59 and 138).  `std::sync::Mutex` is not fair, so
  `HelperWorkload` bounds the requests that arrive: without more of them, every
  waiting worker gets the mutex in the end.  Agents and launchers owe nothing.
* `HelperRequests`: one weak fairness of all worker and reader steps.  Everything
  a worker waits for has a deadline, but for the agent's life (`Served` and the
  arrival of a message are not fair; `ReceiveFails` is the deadline).  No step
  leads back, so fairness to all together is fairness to each.  A reader on a
  stalled file never moves.
* `SessionDaemon`: weak fairness of the loop, and of the exit of an agent whose
  terminal was hung up, which is what the code's kill relies on.
* `SessionRegistry`: a process that began a sequence of file operations ends it, a
  launch past its bind and a removal included, unless it fails or is killed; a
  client's stream ends or is left; somebody lists again and again (strong fairness
  of `StartList`, since an observer may be busy in between).

## Proofs

Each proof module extends the module it is about.  Its theorems hold for every
value of the constants that meets the assumptions named here; TLC evaluates the
assumptions in the runs, and checks there most of what is proved.

### `HelperSessions_proofs`

For any finite set of clients, any users, rule sets and any setting of the fault
switches (`ClientsAssumption`: finitely many clients, each with a uid;
`OptionAssumption` and `SentinelAssumption`: the special values are distinct):

* `Invariance`: `Spec => []IndInv`, and from it `TypeCorrect`,
  `RefcountCorrect`, `SessionCorrect`, `AgentsGuarded`;
* `NothingIsLeftBehind`: `NoResidue`, if clean-ups do not fail for good
  (`~CleanupFaults`, as in `helper_live`, which checks it);
* `Refinement`: `Spec => LeaseSpec`, that is, `HelperSessions` implements
  `GuardLease` with `members` mapped to the workers that own a reference while
  the helper is up, and `rules` to the group-scope chain;
* `InstallsGuarded`: `InstallAgentsGuarded` under `HelperWorkload`, however many
  requests that allows.

`RunAgentsGuarded` is not inductive: nothing in it says why a release could not
take somebody else's rules.  `IndInv` adds that the mutex is held exactly in the
two phases that run firewall commands (`LockInv`), that such a worker's user has
no entry meanwhile (`WorkerInv`), that a worker that owns a reference finds its
own rule set under its uid (`HolderInv`), that the count is the number of such
workers (`RefcountIsHolders`) and is zero only without an entry (`CountInv`).  So
the one that sees the count at 1 is the only owner (`LastOwner`), and the chain
it removes confines nobody.  There is one lemma per kind of step, and
`QuietClient`/`QuietStep` carry what a step leaves alone.  The refinement goes by
`GainStep` (an `Enter`), `DropStep` (a `Leave`), `ProcessStep` (`Disown`) and
stuttering or `Unattended` for the rest.  For `NoResidue`, `ResidueInv` says of
every chain, while a helper is up, that there is an entry for it or a worker that
is just installing or removing it (`Accounted`).  An install session has no worker
to own its references.  `TenantInv` counts instead the clients that were granted
one and did not yet uninstall (`TenantsOf`), killed launchers among them, for the
users whose sessions nobody has interfered with (`served`): all of them find their
own rules in the entry, so only the last one takes it out (`TenantLeaves`).

### `HelperRequests_proofs`

`GrantValidation` and `HelperRequests`, in this order.

For any finite set of connections, any limits above zero, any tree and any specs
that name paths (`ConnsAssumption`, `LimitsAssumption`, `SpecsAssumption`,
`TreeAssumption`, `ParentsAssumption`: a path in the tree has its directories):

* `SlotsAreExact` and `AbandonedIsExact`.  In `IndInv` every counter is the
  cardinality of the set of connections in the phases that hold it.  A step
  moves one connection, so each set gains or loses at most one element
  (`CountMoves`, `SlotsFollow`, `AbandonedFollows`).  The bound of
  `AbandonedExact`, which is more than the cap, comes from `CapInv`: whoever is
  past the check of the cap is `Waiting`, holds a claim, and claims are capped.
* `ServedGrantsStayHome`: what is granted was validated (`GrantInv`), and what
  validation accepts opens nothing of another regular account.  The second is
  about trees alone: `Canonical` is the recursive function of `realpath`, whose
  result has no symlink in it (`CanonicalType`, `NormalizeType`), and of two paths
  one is within the other if they have a common descendant (`Comparable`).
  Recursive definitions are shown to exist by a least-counterexample argument
  (`LeastElement`, `UpToExists`).  These lemmas about paths come first in the module;
  `AgentSandbox_proofs` uses them too.
* `TypeCorrect`.

### `AgentSandbox_proofs`

For any accounts, specs, versions of Landlock and trees (`SandboxConstants`,
which `MCHelperRequests` has TLC evaluate):

* `ConfinedAgents`: `ConfinedInv` says, stage by stage, which credentials and
  which guards are set, and that the environment pins what it must.
* `RulesAsPolicy`: `SandboxInv` adds, for every rule of the policy, that it is
  still to come or has landed on its own path, and for every right in the
  ruleset, that a rule put it there or a symlink redirected one (`RulesInv`).
  With nothing left to come, that is `LandlockAsPolicy` (`RulesAreThePolicy`).
* `ProfileAsPolicy`: no invariant is needed, but the meaning of a list of which
  the last match decides.  `LaterSectionDecides` reduces it to two sections:
  the second decides wherever it says anything.  `ProfileByRule` applies this
  down the profile, `OneRule` to `ThreeRules` to each section, and what remains
  is compared with the policy.
* `FilterDecides`, for any call of numbers: whatever its architecture, its number
  and its arguments, the jumps of the filter come to the decision they are for
  (`Decision`), so also for calls and flags no run tries; `ExactFilter` is
  `SeccompExact`.  That the interpreter is defined takes that every path
  returns (`Returns`, proved of the program in `FilterReturns`) and a least
  counterexample over the instructions (`RunExists`).  Then one instruction is
  one equation (`RunReturn`, `RunLoad`, `RunMasked`, `RunJump`); `FilterLayout`
  says which instruction is where, and the sections are solved one by one
  (`DeniedRuns`, `SocketRuns`, `TypeChecksRun`).

### `Firewall_proofs`

`NetworkPolicy`, `LinuxFirewall` with `GuardChains`, and `PfGuard`, in this order.

Rule lists, for any addresses, ports, LANs and policies (`PolicyAssumption`).  Of a
concatenation the first part that speaks about a packet decides
(`Concatenated`); a section whose rules have one target is that target for
what it speaks about (`SectionAppended`); what a section speaks about is what one
of its destinations hits (`SectionMatches`, `ClausesMatch`).  So the chain returns
a packet exactly if the policy allows it (`ChainDecides`), and so does the PF
anchor for TCP and UDP, but for what it reroutes (`PfDecides`).

The iptables guards, for any finite set of guards with any sound rule sets
(`GuardAssumption`), any number of faults, with or without `ip6tables`, and kills at
any point.  All assume `~ReapAnyTime`: a helper starts only when no earlier
guard's agent lives, without which `Confined` is false (see the switches above):

* `FirewallInvariance`: `FirewallInv`.  The properties alone are not inductive: that
  a live guard confines says nothing about the command before the last.
  `Progress` says of every guard that it has run the first `k` commands of its
  clean-up or setup, and what these `k` leave in each family (`Cleared`, `Filled`);
  the clean-up's part holds while no possible command has failed.  `Whole` says
  that a chain packets get to is empty or all of one of its guard's policies.
  `HelperOK` says that a reaping helper's list of commands, made from one listing
  of the tables, still covers all that is there (`Covers`: every jump has its `-D`
  ahead, and every chain its `-F` and `-X` behind all of these); it holds because
  no guard works while the helper reaps.
* `Confinement`, `PolicyOnly`, `PfAgreement`, `FirewallTyped` follow from it with
  `ChainDecides` and `PfDecides`; `InstallsHeal` because every command of a setup
  is possible where the clean-up before it has run (`SetupPossible`);
  `RemovalsComplete` because a clean-up that has run all its commands, or a helper
  that has none left, has cleared what there was.
* `ChainRefinement`: `Spec => ChainsSpec`.  By `FirewallInv` a live guard is seen
  with the rules it was made for (`LiveMark`, as `SeenInv` before and after the
  step).  A step of one guard leaves how the others are seen alone (`SameMark`,
  `Becoming`), a death changes only what died with it (`AbandonSeen`), and the end
  of a clean-up is `RemovalStep` again.  The refinement does not replace
  `RemovalIsComplete`: a process that dies in its last command may be seen as one
  that came through.
* `ChainsKept`: what `GuardChains` promises (`Kept`) follows from it alone.
* `ServiceIsClean`, from these two: while a helper serves and no command has
  failed, a group guard that is idle has no trace in either table.  It is what
  `NoResidue` says in `HelperSessions`, now of the tables; with it a session's
  install never meets its own leftovers.

The PF guards, for any finite set of launches, any number of kills and any rules
(`PfConstants`, evaluated through `MCLinuxFirewall`): `PfGuardsStand` and
`PfTypeCorrect`.  `PfInv` has what a launch in each phase holds (`Placed`), that a
standing guard's anchor is its own unless disturbed (`Guarded`), that the
helper's session counts the launches it serves (`SessionInv`), and that PF's
references are those held by launches, by the session, and those whose token
was never found (`RefsInv`).

### `LaunchPipeline_proofs`

Both `ConfigTrust` and `LaunchPipeline`, for any directories, files, launchers,
budgets and any sequence of helper builds of which none forgets a capability
(`FilesAssumption`, `LaunchersAssumption`, `BudgetAssumption`,
`BuildsAssumption`):

* `WideningsAreConsented`: in `ConfigInv`, whatever digest is in the store on
  disk, in anybody's copy of it, or about to be written, is of contents that
  somebody agreed to or that raced (`Backed`).
* `TighteningsAlwaysApply`: from the types and the merge alone.
* `AgentsRunUnderTheirPolicy`: `PipelineInv` carries the policy along: a launch
  that got past the probe saw a build that understands policies, and the helper
  of today is no older (`Negotiated`), so the spec it is sent is understood as
  merged (`Served`).
* `PipelineConsents`: the first two in the whole pipeline.
* `PipelineUsesLease`: `PipelineSpec => Lease!Spec`.  The launches use the helper
  as `GuardLease` allows, which is what `HelperSessions` is proved to implement.

### `PolicyEditor_proofs`

For any files that parse, any entries and any limits (`EditorConstants`, which
`MCLaunchPipeline` has TLC evaluate):

* `EditsLand`, an action property.  `EditorInv` adds to the types that an open input
  line was opened in the scope in sight (`InputInv`: no key but the line's own
  reaches the editor meanwhile), and that the deletion kept for undo has the place
  and the entry of the list as it was, and that list without it (`UndoInv`).  With
  `Restored`, putting back what was taken gives the list as it was.
* `SavedDraftsLaunch`: what was saved last is in the file, valid and approved
  (`SavedIn`); a save that fails at any step leaves the scope as not saved
  (`SaveKeeps`).
* `EditorTypeCorrect`.

### `SessionDaemon_proofs`

For any clients, output and scrollback (`BoundsAssumption`):
`ClientsSeeOneStretch`, `ExitComesLast`, `DaemonTypeCorrect`.  `DaemonInv` says
that the client list has no repetitions, that what each client got and what the
scrollback holds are stretches of the output up to the last chunk read
(`OutputInv`, with `StretchGrows` and `StretchTrimmed`), and that the terminal is
given up only when drained (`ExitInv`).  `GoodClientsAreKept` is an action
property, under `BlockingReads` (Linux); without it `daemon_index` shows how a
good client is lost.

### `SessionRegistry_proofs`

For any launches, observers and candidate names (`RegistryAssumption`):
`RegistryTypeCorrect`, `RegistryInvariance` and `ServingDaemonsAreFound`, with
every interleaving and no other assumption.  `LiveSessionsReachable` is not
inductive.  `RegistryInv` adds that a session that is not `disturbed` holds its
name from its bind on: what is at the name is its own (`Files`: the socket, and
the metadata as far as it is written), no observer is about to remove it, and no
other launch of that name is at work (`Alone`).  `Bind` establishes it, since such
a session found its name not `InUse`.  Another launch cannot break it, since
`bind` fails on a path that exists.  An observer's step towards a removal at the
name either makes the session `disturbed`, or finds it serving, and then its
metadata says that it lives (`ServingIsNotStale`).

### Only model-checked

* All liveness (`StaleSocketsGo` too): fairness and ENABLED are outside the prover.
* The violated properties.
* That `GuardChains` and the `chain` of `HelperSessions` are the same three values:
  the two specifications share no variable, and are compared by reading.

The other way round, the type invariants of `PfGuard`, `LaunchPipeline` and
`PolicyEditor` are proved and no longer part of a run.

## Not modelled

* Frames of the helper and session protocols in pieces; descriptor passing.
* The direct launch's process handling (terminal, signals, exit code), the
  profile file of `sandbox-exec`, `launchctl asuser`: what they run is in
  `AgentSandbox`.
* The rules of the Seatbelt profile about sysctls, Mach services and sockets,
  which are the same for every launch; system calls of the x32 ABI.
* Interface and route discovery: it parses the output of commands once per
  launch, and its answer is a parameter here.  The picker, the themes and the
  text fallback keep nothing.  Agent presets are data.
* Install and release scripts, but for the supervisor's restart of the helper.
* Pids are not reused; a digest has no collisions.

Two hazards have no property.  `drain_master` serves no frame while an agent
writes faster than its clients read: an unbounded writer would need a fairness
the kernel does not promise.  Trust store and global file are saved without a
lock: the interleavings are in `ConfigTrust`, but the code promises nothing that
they could break, other than what `WideningsConsented` covers.

## Plan

Done, in this order: `HelperSessions` with `GuardLease` and the proofs;
`SessionDaemon`; `SessionRegistry`; `NetworkPolicy` and `LinuxFirewall`;
`ConfigTrust` and `LaunchPipeline`; `GrantValidation` and `HelperRequests`;
`SandboxPolicy`, `SeatbeltProfile`, `LandlockRules`, `SeccompFilter`, `AgentEnvironment`
and `AgentSandbox`; `PolicyEditor`; `PfGuard`; the proofs about all of these;
`GuardChains` and the refinement.

Next: `HelperSessions` with `GuardChains` composed in, in the place of its own
three-valued `chain`; a decoder that keeps what it could not yet decode, for the
session protocol.
