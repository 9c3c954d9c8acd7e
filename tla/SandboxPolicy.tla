---------------------------- MODULE SandboxPolicy ----------------------------
(***************************************************************************)
(* What one launch asks the platform's sandbox for: the roots, and the     *)
(* paths of the policy (PathPolicy in lianyaohu-core/src/policy.rs).  The  *)
(* root helper fills them in from what it validated, a direct launch from  *)
(* what the user configured, resolving only its home and working directory.*)
(***************************************************************************)
EXTENDS GrantValidation

\* A spec is its grants, as GrantValidation has them, with the narrow_home
\* switch and the deny list, which only ever take away.
Named(spec, kind) == {g[2] : g \in {h \in spec.grants : h[1] = kind}}
One(S) == CHOOSE x \in S : TRUE

\* Grammar of the whole policy: PathPolicy::validate.
IsWellFormed(spec) ==
  \A p \in spec.deny \cup UNION {Named(spec, k) : k \in {"writable", "read_only", "state_dir"}} :
    IsNormal(p)

Launch(home, cwd, tmpdir, writable, read_only, spec) ==
  [home |-> home, cwd |-> cwd, tmpdir |-> tmpdir, writable |-> writable,
   read_only |-> read_only, deny |-> spec.deny, narrow |-> spec.narrow,
   state |-> Named(spec, "state_dir")]

\* validate_launch: directories by where they resolve to, deny entries and
\* state directories as they are written.
Validated(a, spec) ==
  LET resolved(kind) == {Canonical(p) : p \in Named(spec, kind)} IN
  Launch(Canonical(Home[a]), One(resolved("cwd")), One(resolved("tmpdir")),
         resolved("writable"), resolved("read_only"), spec)

\* prepare, of a launch without the helper.
Configured(a, spec) ==
  Launch(Canonical(Home[a]), Canonical(One(Named(spec, "cwd"))),
         One(Named(spec, "tmpdir")), Named(spec, "writable"),
         Named(spec, "read_only"), spec)

\* The state directories of narrow-home mode.
StateRoots(l) == {l.home \o entry : entry \in l.state}

Under(p, roots) == \E r \in roots : Within(p, r)

\* Everything a process can name: what exists, and the symlinks themselves.
Objects == Tree \cup DOMAIN Links
=============================================================================
