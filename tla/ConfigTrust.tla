----------------------------- MODULE ConfigTrust -----------------------------
(***************************************************************************)
(* Layered configuration and the trust in project files                    *)
(* (lianyaohu-core/src/config.rs, load_layered_config in main.rs, the save *)
(* paths of tui/editor.rs).                                                *)
(*                                                                         *)
(* A launch reads the global file, finds the nearest project file, and, if *)
(* that one widens the sandbox, reads it again for its digest and looks    *)
(* the digest up in the trust store.  Meanwhile the user runs `lyh config` *)
(* commands or saves in the editor, checkouts rewrite project files, and   *)
(* every save empties its file before it writes it.                        *)
(*                                                                         *)
(* A file is what it says about destinations: its default action, the ones *)
(* it denies (tightening lists) and the ones it opens (widening lists).  A *)
(* digest is the contents it is the digest of; the empty file parses.      *)
(***************************************************************************)
EXTENDS Naturals, Sequences, SequencesExt

CONSTANTS
  Launchers,       \* processes of one user that launch an agent
  Dirs,            \* directories that may hold a project file
  UpFrom,          \* UpFrom[l]: the directories from l's cwd up to the home
  Destinations,    \* what a policy denies or opens
  Reachable,       \* the destinations open under the default action "allow"
  GlobalFiles,     \* contents the global file may have, or NoFile
  ProjectFiles,    \* contents a project file may have
  CommandLine,     \* CommandLine[l]: what the policy flags of l add
  Answers,         \* Answers[l]: "trust" (flag or prompt), "ignore" (prompt, no tty)
  NoFile,          \* no such file, no approval
  NoDir,           \* no project file was found
  MaxEvents        \* bound: commands, saves and checkouts in a run

File == [default : {"unset", "allow", "deny"},
         deny : SUBSET Destinations, widen : SUBSET Destinations]
Empty == [default |-> "unset", deny |-> {}, widen |-> {}]

ASSUME FilesAssumption ==
  /\ GlobalFiles \subseteq File \cup {NoFile} /\ ProjectFiles \subseteq File
  /\ NoFile \notin File /\ NoDir \notin Dirs
  /\ Reachable \subseteq Destinations
ASSUME LaunchersAssumption ==
  /\ UpFrom \in [Launchers -> Seq(Dirs)]
  /\ CommandLine \in [Launchers -> File]
  /\ Answers \in [Launchers -> (SUBSET {"trust", "ignore"}) \ {{}}]
ASSUME BudgetAssumption == MaxEvents \in Nat

VARIABLES
  global,     \* the global file
  project,    \* project[d]: the project file in d
  store,      \* store[d]: the contents approved for d, in the trust store
  stage,      \* stage[l]: where the launch stands
  base,       \* base[l]: the global file as l read it
  found,      \* found[l]: the directory of l's project file
  parsed,     \* parsed[l]: that file as l parsed it
  digest,     \* digest[l]: its contents when l read it for the digest
  approvals,  \* approvals[l]: the trust store as l loaded it
  ignored,    \* ignored[l]: were the widenings of the project stripped?
  command,    \* the user's command or save under way
  budget,     \* events left
  consented,  \* history: project files the user agreed to
  raced       \* history: approvals of contents other than those agreed to

files == <<global, project, store>>
launch == <<stage, base, found, parsed, digest, approvals, ignored>>
user == <<command, budget, consented, raced>>
vars == <<files, launch, user>>

Idle == [op |-> "idle", step |-> "none", dir |-> NoDir, file |-> NoFile, pinned |-> NoFile,
         store |-> <<>>]
MaybeFile == File \cup {NoFile}
Stages == {"start", "discover", "digest", "lookup", "ask", "save", "ready", "over"}
NoApprovals == [d \in Dirs |-> NoFile]

TypeOK ==
  /\ global \in MaybeFile /\ project \in [Dirs -> MaybeFile]
  /\ store \in [Dirs -> MaybeFile]
  /\ stage \in [Launchers -> Stages]
  /\ base \in [Launchers -> File] /\ parsed \in [Launchers -> MaybeFile]
  /\ digest \in [Launchers -> MaybeFile]
  /\ found \in [Launchers -> Dirs \cup {NoDir}]
  /\ approvals \in [Launchers -> [Dirs -> MaybeFile]]
  /\ ignored \in [Launchers -> BOOLEAN]
  /\ command.op \in {"idle", "trust", "revoke", "project", "global"}
  /\ command.dir \in Dirs \cup {NoDir} /\ {command.file, command.pinned} \subseteq MaybeFile
  /\ command.store \in [Dirs -> MaybeFile] \cup {<<>>}
  /\ budget \in 0..MaxEvents
  /\ consented \subseteq Dirs \X File /\ raced \subseteq Dirs \X File

Init ==
  /\ global \in GlobalFiles
  /\ project \in [Dirs -> ProjectFiles \cup {NoFile}]
  /\ store = NoApprovals
  /\ stage = [l \in Launchers |-> "start"]
  /\ base = [l \in Launchers |-> Empty]
  /\ found = [l \in Launchers |-> NoDir]
  /\ parsed = [l \in Launchers |-> NoFile]
  /\ digest = [l \in Launchers |-> NoFile]
  /\ approvals = [l \in Launchers |-> NoApprovals]
  /\ ignored = [l \in Launchers |-> FALSE]
  /\ command = Idle
  /\ budget = MaxEvents
  /\ consented = {} /\ raced = {}

-----------------------------------------------------------------------------
(* What the files mean. *)

\* A mistake to catch: an unapproved file is dropped as a whole.
StrippedEntirely(f) == Empty

\* strip_widenings empties the widening lists; scalars and denies stay.
Stripped(f) == [f EXCEPT !.widen = {}]

HasWidenings(f) == f.widen # {}

\* merge and append_unique: lists add up, a scalar of the upper layer wins.
Merge(lower, upper) ==
  [default |-> IF upper.default # "unset" THEN upper.default ELSE lower.default,
   deny |-> lower.deny \cup upper.deny,
   widen |-> lower.widen \cup upper.widen]

Layer(f) == IF f = NoFile THEN Empty ELSE f

\* The project layer as the launch applies it.
ProjectLayer(l) ==
  IF parsed[l] = NoFile THEN Empty
  ELSE IF ignored[l] THEN Stripped(parsed[l]) ELSE parsed[l]

\* The configuration a launch ends up with, command-line flags last.
Effective(l) == Merge(Merge(base[l], ProjectLayer(l)), CommandLine[l])

\* The destinations a policy lets out.  LAN exceptions, which are meant to
\* come before denies (see NetworkPolicy), are not among them.
Permitted(f) ==
  ((IF f.default = "deny" THEN {} ELSE Reachable) \cup f.widen) \ f.deny

\* The nearest directory upward that holds a project file.
Nearest(path) ==
  LET hits == {i \in DOMAIN path : project[path[i]] # NoFile} IN
  IF hits = {} THEN NoDir ELSE path[Min(hits)]

\* A mistake to catch: an approval that outlives an edit of the file.
ApprovedByDirectory(s, d, contents) == s[d] # NoFile

IsApproved(s, d, contents) == s[d] = contents

-----------------------------------------------------------------------------
(* A launch: load_layered_config, one file access at a time. *)

Stage(l, s) == stage[l] = s
Goto(l, s) == stage' = [stage EXCEPT ![l] = s]

\* Processes end, and with them what they have read.
End(L) ==
  LET becomes(was, none) == [l \in Launchers |-> IF l \in L THEN none ELSE was[l]] IN
  /\ stage' = becomes(stage, "over") /\ base' = becomes(base, Empty)
  /\ found' = becomes(found, NoDir) /\ parsed' = becomes(parsed, NoFile)
  /\ digest' = becomes(digest, NoFile) /\ approvals' = becomes(approvals, NoApprovals)
  /\ ignored' = becomes(ignored, FALSE)

LoadGlobal(l) ==
  /\ Stage(l, "start") /\ Goto(l, "discover")
  /\ base' = [base EXCEPT ![l] = Layer(global)]
  /\ UNCHANGED <<files, user, found, parsed, digest, approvals, ignored>>

\* Finds and parses the project file in one read of it.
Discover(l) ==
  LET d == Nearest(UpFrom[l]) IN
  /\ Stage(l, "discover")
  /\ Goto(l, IF d = NoDir \/ ~HasWidenings(project[d]) THEN "ready" ELSE "digest")
  /\ found' = [found EXCEPT ![l] = d]
  /\ parsed' = [parsed EXCEPT ![l] = IF d = NoDir THEN NoFile ELSE project[d]]
  /\ UNCHANGED <<files, user, base, digest, approvals, ignored>>

\* A second read of the same path; by now the file may have changed.
ReadDigest(l) ==
  /\ Stage(l, "digest") /\ project[found[l]] # NoFile /\ Goto(l, "lookup")
  /\ digest' = [digest EXCEPT ![l] = project[found[l]]]
  /\ UNCHANGED <<files, user, base, found, parsed, approvals, ignored>>

DigestFails(l) ==
  /\ Stage(l, "digest") /\ project[found[l]] = NoFile
  /\ End({l}) /\ UNCHANGED <<files, user>>

LookUp(l) ==
  LET approved == IsApproved(store, found[l], digest[l]) IN
  /\ Stage(l, "lookup")
  /\ Goto(l, IF approved THEN "ready" ELSE "ask")
  /\ approvals' = IF approved THEN approvals ELSE [approvals EXCEPT ![l] = store]
  /\ UNCHANGED <<files, user, base, found, parsed, digest, ignored>>

\* The loaded store is a local of the function that returns.
Forget(l) == approvals' = [approvals EXCEPT ![l] = NoApprovals]

\* What is agreed to is the parsed file, what is recorded is the digest.
Record(d, agreed, pinned) ==
  /\ consented' = consented \cup {<<d, agreed>>}
  /\ raced' = IF pinned = agreed THEN raced ELSE raced \cup {<<d, pinned>>}

\* approve; the save has opened the store with truncate and not written it.
Approve(l) ==
  /\ "trust" \in Answers[l]
  /\ Stage(l, "ask") /\ Goto(l, "save")
  /\ approvals' = [approvals EXCEPT ![l][found[l]] = digest[l]]
  /\ store' = NoApprovals
  /\ Record(found[l], parsed[l], digest[l])
  /\ UNCHANGED <<global, project, base, found, parsed, digest, ignored, command, budget>>

SaveStore(l) ==
  /\ Stage(l, "save") /\ Goto(l, "ready")
  /\ store' = approvals[l] /\ Forget(l)
  /\ UNCHANGED <<global, project, user, base, found, parsed, digest, ignored>>

\* No answer "y", or nobody to ask.
Ignore(l) ==
  /\ "ignore" \in Answers[l]
  /\ Stage(l, "ask") /\ Goto(l, "ready")
  /\ ignored' = [ignored EXCEPT ![l] = TRUE] /\ Forget(l)
  /\ UNCHANGED <<files, user, base, found, parsed, digest>>

\* The launcher is killed, perhaps while the store is empty.
LaunchDies(l) ==
  /\ Stage(l, "ask") \/ Stage(l, "save")
  /\ End({l}) /\ UNCHANGED <<files, user>>

Launch(l) ==
  \/ LoadGlobal(l) \/ Discover(l) \/ ReadDigest(l) \/ DigestFails(l) \/ LookUp(l)
  \/ Approve(l) \/ SaveStore(l) \/ Ignore(l) \/ LaunchDies(l)

-----------------------------------------------------------------------------
(* The user's commands, one at a time, and whoever else writes the files. *)

Spend == budget > 0 /\ budget' = budget - 1

\* A checkout, a pull or the agent itself rewrites a project file at once.
Checkout(d, f) ==
  /\ Spend /\ project[d] # f
  /\ project' = [project EXCEPT ![d] = f]
  /\ UNCHANGED <<global, store, launch, command, consented, raced>>

\* `lyh config trust` and `revoke` begin with the discovery of the file.
StartTrust(op, d) ==
  /\ command = Idle /\ Spend /\ project[d] # NoFile
  /\ command' = [Idle EXCEPT !.op = op, !.step = "load", !.dir = d]
  /\ UNCHANGED <<files, launch, consented, raced>>

\* The editor's saves: the file is open, truncated and not yet written.
StartProjectSave(d, f) ==
  /\ command = Idle /\ Spend
  /\ command' = [Idle EXCEPT !.op = "project", !.step = "write", !.dir = d, !.file = f]
  /\ project' = [project EXCEPT ![d] = Empty]
  /\ UNCHANGED <<global, store, launch, consented, raced>>

StartGlobalSave(f) ==
  /\ command = Idle /\ Spend
  /\ command' = [Idle EXCEPT !.op = "global", !.step = "write", !.file = f]
  /\ global' = Empty
  /\ UNCHANGED <<project, store, launch, consented, raced>>

At(step) == command.step = step

WriteGlobal ==
  /\ At("write") /\ command.op = "global"
  /\ global' = command.file /\ command' = Idle
  /\ UNCHANGED <<project, store, launch, budget, consented, raced>>

WriteProject ==
  /\ At("write") /\ command.op = "project"
  /\ project' = [project EXCEPT ![command.dir] = command.file]
  /\ command' = IF HasWidenings(command.file) THEN [command EXCEPT !.step = "digest"] ELSE Idle
  /\ UNCHANGED <<global, store, launch, budget, consented, raced>>

\* The file as it stands is what `trust` pins; the editor reads back its save.
ReadPinned ==
  /\ At("digest")
  /\ command' =
       LET f == project[command.dir] IN
       IF f = NoFile THEN Idle
       ELSE IF command.op = "trust"
            THEN [command EXCEPT !.step = "truncate", !.file = f, !.pinned = f]
            ELSE [command EXCEPT !.step = "load", !.pinned = f]
  /\ UNCHANGED <<files, launch, budget, consented, raced>>

\* A revocation without an approval has nothing to save.
LoadStore ==
  /\ At("load")
  /\ command' =
       CASE command.op = "trust" -> [command EXCEPT !.step = "digest", !.store = store]
         [] command.op = "project" -> [command EXCEPT !.step = "truncate", !.store = store]
         [] command.op = "revoke" ->
              IF store[command.dir] = NoFile THEN Idle
              ELSE [command EXCEPT !.step = "truncate", !.store = store]
  /\ UNCHANGED <<files, launch, budget, consented, raced>>

TruncateStore ==
  /\ At("truncate")
  /\ store' = NoApprovals
  /\ command' = [command EXCEPT !.step = "store"]
  /\ IF command.op = "revoke"
     THEN UNCHANGED <<consented, raced>>
     ELSE Record(command.dir, command.file, command.pinned)
  /\ UNCHANGED <<global, project, launch, budget>>

WriteStore ==
  /\ At("store")
  /\ store' = [command.store EXCEPT ![command.dir] = command.pinned]
  /\ command' = Idle
  /\ UNCHANGED <<global, project, launch, budget, consented, raced>>

\* The process is killed between truncate and write: the file stays empty.
CommandDies ==
  /\ command.step \in {"write", "store"}
  /\ command' = Idle
  /\ UNCHANGED <<files, launch, budget, consented, raced>>

User ==
  \/ \E op \in {"trust", "revoke"}, d \in Dirs : StartTrust(op, d)
  \/ \E d \in Dirs, f \in ProjectFiles : StartProjectSave(d, f)
  \/ \E f \in GlobalFiles \ {NoFile} : StartGlobalSave(f)
  \/ WriteGlobal \/ WriteProject \/ ReadPinned \/ LoadStore
  \/ TruncateStore \/ WriteStore \/ CommandDies

Environment == \E d \in Dirs, f \in ProjectFiles \cup {NoFile} : Checkout(d, f)

ConfigNext == (\E l \in Launchers : Launch(l)) \/ User \/ Environment

ConfigSpec == Init /\ [][ConfigNext]_vars

-----------------------------------------------------------------------------
Ready(l) == Stage(l, "ready")

\* Destinations a project file opens take part in a launch only if the user
\* agreed to that very file, by flag, prompt, command or editor.  The one way
\* around is a rewrite between the two reads of the path: in the launch (then
\* the parsed file is not the hashed one), or between a save or a launch and
\* the digest it recorded (then the approval is raced).  Code: the digest pins
\* of config.rs and the second read in load_layered_config.
WideningsConsented ==
  \A l \in Launchers :
    (Ready(l) /\ HasWidenings(ProjectLayer(l)) /\ parsed[l] = digest[l])
    => <<found[l], parsed[l]>> \in consented \cup raced

\* What a layer forbids stays forbidden, whichever layer says otherwise and
\* whatever becomes of the project's trust: no denied destination is let out,
\* and under a default "deny" that no upper layer lifts only listed ones are.
\* Code: strip_widenings, merge, apply_cli_policy.
TighteningsApply ==
  \A l \in Launchers : Ready(l) =>
    LET layers == {base[l], Layer(parsed[l]), CommandLine[l]}
        permitted == Permitted(Effective(l)) IN
    /\ \A f \in layers : permitted \cap f.deny = {}
    /\ Layer(parsed[l]).default = "deny" /\ CommandLine[l].default = "unset"
       => permitted \subseteq UNION {f.widen : f \in layers}

\* main.rs: "tightenings always apply; widenings apply only with a hash-pinned
\* approval (or explicit consent), and are otherwise stripped ... never
\* silently widened".  A project file the user did not agree to lets nothing
\* out that the global file and the command line do not.
NeverSilentlyWidened ==
  \A l \in Launchers :
    (Ready(l) /\ (parsed[l] = NoFile \/ <<found[l], parsed[l]>> \notin consented \cup raced))
    => Permitted(Effective(l)) \subseteq Permitted(Merge(base[l], CommandLine[l]))
       \cup (IF parsed[l] # NoFile /\ parsed[l] # digest[l] /\ ~ignored[l]
             THEN parsed[l].widen ELSE {})

=============================================================================
