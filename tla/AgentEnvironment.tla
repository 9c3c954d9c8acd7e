--------------------------- MODULE AgentEnvironment ---------------------------
(***************************************************************************)
(* What of an environment reaches an agent (lianyaohu-core/src/            *)
(* env_policy.rs).  A launcher sanitizes its own; the helper treats all of *)
(* what a client sends as extras, and pins the roots again.                *)
(***************************************************************************)
EXTENDS SandboxPolicy

\* One name of each kind: passed on, neither listed nor blocked, blocked even
\* as an extra, and those nobody sets but the sandbox.
AllowedKeys == {"OPENAI_API_KEY", "HOME", "PWD", "TMPDIR", "PATH", "TERM"}
OtherKeys == {"EDITOR", "HTTPS_PROXY", "LIANYAOHU_SANDBOX"}
BlockedKeys == {"LD_PRELOAD", "SSH_AUTH_SOCK", "TZ"}
FixedKeys == {"HOME", "PWD", "TMPDIR", "TZ", "LIANYAOHU_SANDBOX"}
Keys == AllowedKeys \cup OtherKeys \cup BlockedKeys

Nothing == [k \in {} |-> Root]
Utc == <<"UTC">>
On == <<"1">>

\* What the sandbox sets itself for a launch.
Pinned(l) ==
  [k \in FixedKeys |-> CASE k = "HOME" -> l.home [] k = "PWD" -> l.cwd
                         [] k = "TMPDIR" -> l.tmpdir [] k = "TZ" -> Utc
                         [] k = "LIANYAOHU_SANDBOX" -> On]

\* is_allowed, of the launcher's environment; everything else must be asked for.
IsAllowed(k) == k \notin BlockedKeys /\ k \in AllowedKeys

\* What an extra may set.
Admits(k) == k \notin BlockedKeys /\ k \notin FixedKeys

\* sanitize
Sanitize(input, l, extra) ==
  LET admitted == {k \in DOMAIN extra : Admits(k)}
      allowed == {k \in DOMAIN input : IsAllowed(k)}
  IN [k \in admitted \cup FixedKeys \cup allowed \cup {"PATH", "TERM"} |->
        CASE k \in admitted -> extra[k]
          [] k \in FixedKeys \ admitted -> Pinned(l)[k]
          [] k \in allowed \ (FixedKeys \cup admitted) -> input[k]
          [] OTHER -> <<"default", k>>]

EnvironmentPinned(env, l) ==
  /\ \A k \in FixedKeys : k \in DOMAIN env /\ env[k] = Pinned(l)[k]
  /\ DOMAIN env \cap BlockedKeys \subseteq FixedKeys
=============================================================================
