--------------------------- MODULE SeatbeltProfile ---------------------------
(***************************************************************************)
(* The Seatbelt profile of a launch on macOS (SandboxProfile::render in    *)
(* lianyaohu-core/src/sandbox_profile.rs): a list of rules of which the    *)
(* last that matches decides, so that the order of its sections is what    *)
(* protects the timezone, the identity files and the paths a user denies.  *)
(* Rules about files only; what the profile says of sysctls, Mach services *)
(* and sockets does not depend on the launch.                              *)
(***************************************************************************)
EXTENDS SandboxPolicy

\* file-read*, file-write* and file-read-metadata.  A rule reaches the paths it
\* names itself (literal, regex) and those below the directories it names.
Rule(allow, ops, paths, roots) ==
  [allow |-> allow, ops |-> ops, paths |-> paths, roots |-> roots]
Allow(ops, roots) == Rule(TRUE, ops, {}, roots)
ReadWrite == {"read", "write"}
EveryFileOp == {"read", "metadata", "write"}

Homebrew == <<"opt", "homebrew">>
SystemReads ==
  {<<"Applications">>, <<"Library", "Apple">>, <<"Library", "Developer">>,
   <<"System">>, <<"bin">>, <<"opt">>, <<"private", "etc">>, <<"sbin">>, <<"usr">>}
DeviceNodes ==
  {<<"dev", d>> : d \in {"null", "random", "urandom", "zero", "tty", "ptmx"}}
ScratchRoots == {<<"dev", "fd">>, <<"private", "tmp">>, <<"tmp">>}
SharedReads ==
  {<<"Library", "Keychains">>, <<"private", "var", "db", "mds">>,
   <<"Library", "Preferences", "com.apple.dt.Xcode.plist">>}

\* The zone files, and those of them every process may read.
TimezoneTrees == {<<"var", "db", "timezone">>, <<"private", "var", "db", "timezone">>}
UtcData ==
  {p \in Objects : \E z \in TimezoneTrees :
     /\ Within(p, z) /\ Len(p) = Len(z) + 4 /\ p[Len(z) + 1] = "tz"
     /\ SubSeq(p, Len(z) + 3, Len(p)) \in
          {<<"zoneinfo", "UTC">>, <<"zoneinfo", "posixrules">>, <<"icutz", "icutz.dat">>}}

GlobalPreferences == <<"Library", "Preferences", ".GlobalPreferences.plist">>
IdentityPaths(l) ==
  {<<"etc", "localtime">>, <<"private", "etc", "localtime">>,
   GlobalPreferences, l.home \o GlobalPreferences}
ByHost(l) == l.home \o <<"Library", "Preferences", "ByHost">>

-----------------------------------------------------------------------------
\* home_write_section
HomeWriteSection(l) ==
  LET roots == {l.cwd, l.tmpdir, Homebrew} \cup l.writable IN
  IF l.narrow
  THEN <<Allow({"read"}, {l.home}), Allow(ReadWrite, StateRoots(l) \cup roots)>>
  ELSE <<Allow(ReadWrite, {l.home} \cup roots)>>

ReadOnlySection(l) == <<Allow({"read"}, l.read_only)>>

\* The zones are denied without a word on metadata, so that those given back
\* can still be looked at.
TimezoneSection ==
  <<Rule(FALSE, {"read"}, {}, TimezoneTrees), Rule(TRUE, {"read"}, UtcData, {})>>

IdentitySection(l) ==
  <<Rule(FALSE, EveryFileOp, IdentityPaths(l), {ByHost(l)})>>

DenySection(l) == <<Rule(FALSE, EveryFileOp, {}, l.deny)>>

\* A mistake to catch: what the user may read comes after what nobody may.
UserSectionsReadLast(l) ==
  TimezoneSection \o IdentitySection(l) \o ReadOnlySection(l) \o DenySection(l)

\* user_sections
UserSections(l) ==
  ReadOnlySection(l) \o TimezoneSection \o IdentitySection(l) \o DenySection(l)

\* render
Profile(l) ==
  <<Rule(TRUE, {"metadata"}, {}, {Root}), Rule(TRUE, {"read"}, {Root}, {}),
    Allow({"read"}, SystemReads)>>
    \o HomeWriteSection(l)
    \o <<Rule(TRUE, ReadWrite, DeviceNodes, ScratchRoots), Allow({"read"}, SharedReads)>>
    \o UserSections(l)

-----------------------------------------------------------------------------
\* How the kernel reads a profile: p is what a path resolves to; the last rule
\* that matches decides, and a rule that names the metadata goes before every
\* rule that only implies them.
Deciding(profile, op, p) ==
  {i \in DOMAIN profile :
     /\ op \in profile[i].ops
     /\ p \in profile[i].paths \/ Under(p, profile[i].roots)}

LastAllows(profile, deciding) ==
  deciding # {} /\ profile[CHOOSE i \in deciding : \A j \in deciding : j <= i].allow

Permits(profile, op, p) ==
  LET named == Deciding(profile, op, p) IN
  LastAllows(profile, IF op = "metadata" /\ named = {} THEN Deciding(profile, "read", p)
                      ELSE named)

\* What the policy means, in no order.  A user's deny covers everything, the
\* identity files are nobody's, of the zones only UTC is read.
Forbidden(l, p) ==
  Under(p, l.deny) \/ p \in IdentityPaths(l) \/ Within(p, ByHost(l))

WriteRoots(l) ==
  {l.cwd, l.tmpdir, Homebrew} \cup l.writable \cup ScratchRoots \cup DeviceNodes
    \cup (IF l.narrow THEN StateRoots(l) ELSE {l.home})

Intended(l, op, p) ==
  /\ ~Forbidden(l, p)
  /\ \/ op = "metadata"
     \/ op = "write" /\ Under(p, WriteRoots(l))
     \/ op = "read" /\ IF Under(p, TimezoneTrees) THEN p \in UtcData
                       ELSE \/ p = Root
                            \/ Under(p, WriteRoots(l) \cup {l.home} \cup l.read_only
                                          \cup SystemReads \cup SharedReads)

ProfileIsPolicy(l) ==
  LET profile == Profile(l) IN
  \A op \in EveryFileOp, p \in Objects : Permits(profile, op, p) <=> Intended(l, op, p)
=============================================================================
