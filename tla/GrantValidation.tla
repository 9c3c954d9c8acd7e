--------------------------- MODULE GrantValidation ---------------------------
(***************************************************************************)
(* What the root helper lets a launch spec grant to the sandbox            *)
(* (validate_launch, validate_policy and foreign_home_conflict in          *)
(* lianyaohu-app/src/helper_daemon.rs).  The client's word counts for      *)
(* nothing: every directory it names is resolved, its owner is looked at,  *)
(* and it must neither lie in nor contain the home of somebody else.       *)
(*                                                                         *)
(* A path is the sequence of its names; a grant reaches everything below   *)
(* the directory it names.  A symlink leads to a path without symlinks.    *)
(***************************************************************************)
EXTENDS Sequences, SequencesExt

CONSTANTS
  Accounts,     \* users of the passwd database
  Home,         \* Home[a]: the home directory of account a
  Regular,      \* accounts with a uid from FIRST_REGULAR_UID up
  Tree,         \* the directories and files that exist
  Files,        \* those of them that are files
  Owner,        \* Owner[d]: the account that owns d
  Links,        \* Links[p]: where the symlink p points
  HomeParents,  \* /home, /Users: directories of homes
  StubHomes,    \* homes of service accounts that are shared stubs
  SystemDirs    \* prefixes no extra writable path may lie in

ASSUME TreeAssumption ==
  /\ Home \in [Accounts -> Seq(STRING)] /\ Owner \in [Tree -> Accounts]
  /\ Regular \subseteq Accounts
  /\ Tree \subseteq Seq(STRING) /\ Files \subseteq Tree
  /\ DOMAIN Links \cap Tree = {} /\ Links \in [DOMAIN Links -> Seq(STRING)]
  /\ DOMAIN Links \subseteq Seq(STRING)

\* What exists lies in directories that exist, never below a file.
ASSUME ParentsAssumption ==
  \A d \in Tree : \A n \in 0..Len(d) - 1 : SubSeq(d, 1, n) \in Tree \ Files

Root == <<>>

\* path_has_prefix: p is q or lies below it.
Within(p, q) == IsPrefix(q, p)

HasDots(p) == Range(p) \cap {".", ".."} # {}

\* "." and ".." worked out without a look at any file.
Normalize(p) ==
  LET upTo[n \in 0..Len(p)] ==
        CASE n = 0 -> Root
          [] n > 0 /\ p[n] = "." -> upTo[n - 1]
          [] n > 0 /\ p[n] = ".." -> IF upTo[n - 1] = Root THEN Root ELSE Front(upTo[n - 1])
          [] OTHER -> Append(upTo[n - 1], p[n])
  IN IF HasDots(p) THEN upTo[Len(p)] ELSE p

\* p as it reads once the symlinks of L are followed.
Resolve(L, p) ==
  LET linked == {q \in DOMAIN L : Within(p, q)} IN
  IF linked = {} THEN p
  ELSE LET q == CHOOSE q \in linked : \A o \in linked : Len(q) <= Len(o)
       IN L[q] \o SubSeq(p, Len(q) + 1, Len(p))

Canonical(p) == Resolve(Links, Normalize(p))

\* validated_directory
IsDirectory(p) == Canonical(p) \in Tree \ (Files \cup {Root})
OwnedBy(a, p) == Owner[Canonical(p)] = a

\* The grammar of a path of the policy: "." and ".." are refused, and so is
\* the root; entries relative to the home obey it too.
IsNormal(p) == p # Root /\ ~HasDots(p)

\* home_directory_roots: the well-known parents and every home that is not a
\* stub, each as written and resolved.
HomeRoots ==
  LET written == {[path |-> h, user |-> TRUE] : h \in HomeParents}
        \cup {[path |-> Home[a], user |-> a \in Regular] :
                a \in {b \in Accounts : Home[b] \notin StubHomes \cup {Root}}}
  IN written \cup {[r EXCEPT !.path = Canonical(@)] : r \in written}

\* At or below a home that is not the caller's.
Below(a, p, r) == Within(p, r.path) /\ ~Within(p, Canonical(Home[a]))

\* Above the home of a regular user, or of a directory of homes.
Above(p, r) == r.user /\ Within(r.path, p)

Foreign(a) == {r \in HomeRoots : ~Within(r.path, Canonical(Home[a]))}

\* A mistake to catch: only what lies in a foreign home is refused.
InsideOnly(a, p) == \E r \in Foreign(a) : Below(a, p, r)

ForeignHomeConflict(a, p) == \E r \in Foreign(a) : Below(a, p, r) \/ Above(p, r)

\* validated_writable_root: working directory, TMPDIR, extra writable paths.
IsWritableRoot(a, p) ==
  IsDirectory(p) /\ OwnedBy(a, p) /\ ~ForeignHomeConflict(a, Canonical(p))

\* validated_state_dir: relative to the home; one that is not there yet is let
\* pass, one behind a symlink never.
IsStateDir(a, entry) ==
  LET joined == Canonical(Home[a]) \o entry IN
  \/ Canonical(joined) \notin Tree
  \/ Canonical(joined) = joined /\ OwnedBy(a, joined)

Kinds == {"cwd", "tmpdir", "writable", "read_only", "state_dir"}

\* One directory of a spec, by the field that names it.
IsGrantable(a, kind, p) ==
  CASE kind \in {"cwd", "tmpdir"} -> IsWritableRoot(a, p)
    [] kind = "writable" ->
         /\ IsNormal(p) /\ IsWritableRoot(a, p)
         /\ \A s \in SystemDirs : ~Within(Canonical(p), s)
    [] kind = "read_only" ->
         IsNormal(p) /\ IsDirectory(p) /\ ~ForeignHomeConflict(a, Canonical(p))
    [] kind = "state_dir" -> IsNormal(p) /\ IsStateDir(a, p)

\* The caller's own home must be a directory of the caller.
IsAcceptable(a, spec) ==
  /\ IsDirectory(Home[a]) /\ OwnedBy(a, Home[a])
  /\ \A g \in spec : IsGrantable(a, g[1], g[2])

\* The directory the sandbox opens for an entry of an accepted spec.
GrantedPath(a, kind, p) ==
  IF kind = "state_dir" THEN Canonical(Home[a]) \o p ELSE Canonical(p)

\* What an accepted spec opens: those directories and everything below.
Reach(a, spec) ==
  {d \in Tree : \E g \in spec : Within(d, GrantedPath(a, g[1], g[2]))}

=============================================================================
