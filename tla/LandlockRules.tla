---------------------------- MODULE LandlockRules ----------------------------
(***************************************************************************)
(* The Landlock rules of a launch on Linux (lianyaohu-core/src/            *)
(* linux_sandbox.rs): which paths get which access rights, and which file  *)
(* each rule lands on once its path is opened without following symlinks.  *)
(* The rights that matter alike are one: change_dir stands for making and  *)
(* removing entries of every type.                                         *)
(***************************************************************************)
EXTENDS SandboxPolicy

\* handled_landlock_access: what the ruleset takes away unless a rule grants it.
Handled(abi) ==
  {"execute", "read_file", "read_dir", "write_file", "change_dir"}
    \cup (IF abi >= 2 THEN {"refer"} ELSE {})
    \cup (IF abi >= 3 THEN {"truncate"} ELSE {})

ReadAccess(abi) == Handled(abi) \cap {"execute", "read_file", "read_dir"}
WriteAccess(abi) == Handled(abi) \cap {"write_file", "change_dir", "refer", "truncate"}

\* file_landlock_access: the rights a file can have.
FileAccess == {"execute", "read_file", "write_file", "truncate"}

OwnProc == <<"proc", "self-pid">>

\* read_only_paths
ReadOnlyPaths(l) ==
  {<<d>> : d \in {"bin", "sbin", "usr", "lib", "lib64", "etc", "opt"}} \cup {OwnProc}
    \cup (IF l.narrow THEN {l.home} ELSE {}) \cup l.read_only

\* writable_paths, safe_writable_path
WritablePaths(l) ==
  {Normalize(p) : p \in
     {l.cwd, l.tmpdir, <<"tmp">>, <<"var", "tmp">>, <<"dev", "pts">>, <<"dev", "shm">>}
       \cup (IF l.narrow THEN StateRoots(l) ELSE {l.home}) \cup l.writable} \ {Root}

\* writable_device_files
DeviceFiles ==
  {<<"dev", d>> : d \in {"null", "zero", "full", "random", "urandom", "tty", "ptmx"}}

PathRules(paths, dir, file) == {[path |-> p, dir |-> dir, file |-> file] : p \in paths}

\* The three loops of apply_landlock, in their order.
RuleLoops(l, abi) ==
  LET read == ReadAccess(abi)
      both == read \cup WriteAccess(abi)
  IN <<PathRules(ReadOnlyPaths(l), read, read \cap FileAccess),
       PathRules(WritablePaths(l), both, both \cap FileAccess),
       PathRules(DeviceFiles, both \cap FileAccess, both \cap FileAccess)>>

-----------------------------------------------------------------------------
\* A mistake to catch: the path is opened like any other.
OpenFollowing(links, openat2, p) == {Resolve(links, p)} \cap Tree

\* open_rule_target, and the symlink add_path_rule steps over: the file a rule
\* lands on, if any.  openat2 refuses a symlink anywhere in the path; where it
\* is blocked, O_NOFOLLOW refuses one at the end only.
OpenRuleTarget(links, openat2, p) ==
  LET linked == {q \in DOMAIN links : Within(p, q)} IN
  IF linked = {} THEN {p} \cap Tree
  ELSE IF openat2 \/ p \in linked THEN {}
  ELSE {Resolve(links, p)} \cap Tree

\* add_path_rule: by what was opened, never by a second look at the path.
RightsOn(rule, target) == IF target \in Files THEN rule.file ELSE rule.dir

\* What landlock_add_rule refuses: no rights at all, rights the ruleset does
\* not handle, and rights of a directory on a file.
KernelRefuses(abi, rights, target) ==
  \/ rights = {} \/ ~(rights \subseteq Handled(abi))
  \/ target \in Files /\ ~(rights \subseteq FileAccess)

\* What a domain with these rules lets a process do with d.
Enforced(rules, d) == {r[2] : r \in {s \in rules : Within(d, s[1])}}

-----------------------------------------------------------------------------
\* What the policy means: read what is listed, write what is writable.
Intends(l, abi, d) ==
  (IF Under(d, ReadOnlyPaths(l) \cup WritablePaths(l)) THEN ReadAccess(abi) ELSE {})
    \cup (IF Under(d, WritablePaths(l)) THEN WriteAccess(abi) ELSE {})
    \cup (IF d \in DeviceFiles THEN Handled(abi) ELSE {})

Applicable(d) == IF d \in Files THEN FileAccess ELSE FileAccess \cup {"read_dir", "change_dir", "refer"}
=============================================================================
