----------------------------- MODULE PolicyEditor -----------------------------
(***************************************************************************)
(* The configuration editor (lianyaohu-app/src/tui/editor.rs): two drafts, *)
(* what it believes is on disk of each, one input line, one deletion that  *)
(* can be undone, and the saves, each of which may fail at any of its      *)
(* steps.  A step is one key.  Which of the five forms is open, and moving *)
(* a selection, a pane or a cursor, are left out: a key acts on any entry  *)
(* of any list that has it; so is the help, which takes one key.           *)
(*                                                                         *)
(* What other processes do to the same files between two reads of a save   *)
(* is the subject of ConfigTrust.                                          *)
(***************************************************************************)
EXTENDS Naturals, Sequences, SequencesExt

CONSTANTS
  Typed,        \* Typed[l]: entries the user types into list l
  Unparsable,   \* entries a file may hold that build no policy
  Presets,      \* the sensitive paths with a toggle of their own
  Proxies,      \* proxy URLs
  Interfaces,   \* VPN interfaces, ProxyOnly among them
  ProxyOnly,    \* the interface "none": everything goes through a proxy
  GlobalDrafts, \* contents of the global file at the start
  ProjectDrafts,\* contents of the project file at the start, or NoProject
  NoProject, None,
  MaxRules,     \* MAX_RULES_PER_LIST
  MaxChanges    \* bound: keys that change a draft, undo apart

VARIABLES
  draft,     \* draft[c]: the contents shown for scope c
  disk,      \* the files, what the editor believes of them, and the approval
  scope,
  screen,    \* home, a form (one of the five screens that edit), review; gone
  input,     \* the open input line and its target, or None
  warned,    \* confirm_quit
  undo,      \* the deletion that can be undone, or None
  changes,   \* changes made so far
  opened,    \* history: the scope the input line was opened in
  deleted    \* history: the list the last deletion was from, before and after

view == <<scope, screen, warned>>
edits == <<input, undo, opened, deleted>>
editorVars == <<draft, disk, view, edits, changes>>

Scopes == {"global", "project"}
Lists == {"allow", "deny", "lan_allow", "writable", "read_only", "deny_paths"}

EntriesOf(l) == Typed[l] \cup Unparsable \cup (IF l = "deny_paths" THEN Presets ELSE {})
Entries == UNION {EntriesOf(l) : l \in Lists}
Draft == [list : [Lists -> Seq(Entries)],
          mode : {"unset", "allow", "deny"}, narrow : {"unset", "on", "off"},
          proxy : Proxies \cup {None}, interface : Interfaces \cup {None}]
Blank == [list |-> [l \in Lists |-> <<>>], mode |-> "unset", narrow |-> "unset",
          proxy |-> None, interface |-> None]

\* A deletion that can be undone, as record_delete keeps it.
Deletion == [scope : Scopes, list : Lists, index : Nat \ {0}, entry : Entries]

\* The files parse, and a deletion is not mistaken for none.
EditorConstants ==
  /\ GlobalDrafts \subseteq Draft /\ ProjectDrafts \subseteq Draft \cup {NoProject}
  /\ None \notin Deletion /\ MaxChanges \in Nat

EditorTypeOK ==
  /\ \A c \in Scopes : {draft[c], disk.belief[c], disk.file[c]} \subseteq Draft
  /\ disk.approved \in Draft \cup {NoProject}
  /\ disk.last \in [Scopes -> {"none", "saved", "failed"}]
  /\ scope \in Scopes /\ screen \in {"home", "form", "review", "gone"}
  /\ input # None => input.edit \in Nat /\ input.list \in Lists \cup {"proxy"}
  /\ undo # None => undo \in Deletion
  /\ warned \in BOOLEAN /\ changes \in 0..MaxChanges

\* No project file is an empty draft; ConfigFile::load validates no entry.
EditorInit ==
  /\ \E g \in GlobalDrafts, p \in ProjectDrafts :
       LET loaded == [c \in Scopes |->
             IF c = "global" THEN g ELSE IF p = NoProject THEN Blank ELSE p] IN
       /\ draft = loaded
       /\ \E a \in {NoProject, p} :
            disk = [file |-> loaded, belief |-> loaded, approved |-> a,
                    last |-> [c \in Scopes |-> "none"]]
       /\ scope = IF p = NoProject THEN "global" ELSE "project"
  /\ screen = "home" /\ input = None /\ undo = None
  /\ warned = FALSE /\ changes = 0
  /\ opened = None /\ deleted = None

-----------------------------------------------------------------------------
(* The keys every screen has. *)

\* An open input line takes every key.
Browsing == input = None /\ screen # "gone"
Editing == Browsing /\ screen = "form"
Changing == changes < MaxChanges /\ changes' = changes + 1
Dirty == \E c \in Scopes : draft[c] # disk.belief[c]

SwitchScope ==
  /\ Browsing /\ screen # "review"
  /\ scope' \in Scopes \ {scope}
  /\ UNCHANGED <<draft, disk, screen, warned, edits, changes>>

\* Ctrl-S, from every screen; it leaves confirm_quit as it is.
JumpToReview ==
  /\ Browsing /\ screen' = "review"
  /\ UNCHANGED <<draft, disk, scope, warned, edits, changes>>

OpenScreen ==
  /\ Browsing /\ screen = "home"
  /\ screen' \in {"form", "review"} /\ warned' = FALSE
  /\ UNCHANGED <<draft, disk, scope, edits, changes>>

LeaveScreen ==
  /\ Browsing
  /\ IF screen # "home" THEN screen' = "home" /\ UNCHANGED warned
     ELSE IF Dirty /\ ~warned THEN warned' = TRUE /\ UNCHANGED screen
     ELSE screen' = "gone" /\ UNCHANGED warned
  /\ UNCHANGED <<draft, disk, scope, edits, changes>>

\* Ctrl-C.
Quit ==
  /\ Browsing /\ screen' = "gone"
  /\ UNCHANGED <<draft, disk, scope, warned, edits, changes>>

\* A mistake to catch: the entry returns to the list in sight.
UndoHere ==
  /\ Browsing /\ undo # None
  /\ draft' = [draft EXCEPT ![scope].list[undo.list] =
                 LET i == undo.index IN
                 InsertAt(@, IF i <= Len(@) THEN i ELSE Len(@) + 1, undo.entry)]
  /\ undo' = None
  /\ UNCHANGED <<disk, view, input, changes, opened, deleted>>

\* undo_delete, on every screen: the entry goes back to its place, or to the
\* end of a list that has become shorter.
Undo ==
  /\ Browsing /\ undo # None
  /\ draft' = [draft EXCEPT ![undo.scope].list[undo.list] =
                 LET i == undo.index IN
                 InsertAt(@, IF i <= Len(@) THEN i ELSE Len(@) + 1, undo.entry)]
  /\ undo' = None
  /\ UNCHANGED <<disk, view, input, changes, opened, deleted>>

-----------------------------------------------------------------------------
(* The input line. *)

OpenInput(l, i) ==
  /\ input' = [list |-> l, edit |-> i] /\ opened' = scope
  /\ UNCHANGED <<draft, disk, view, undo, changes, deleted>>

\* a: an entry to add to a list of the screen.
AddEntry == Editing /\ \E l \in Lists : OpenInput(l, 0)

\* e: the entry to replace; the presets have no such key.
EditEntry ==
  /\ Editing
  /\ \E l \in Lists \ {"deny_paths"} : \E i \in DOMAIN draft[scope].list[l] : OpenInput(l, i)

\* p: the proxy of the scope in sight.
EditProxy == Editing /\ OpenInput("proxy", 0)

\* validate_entry: what is stored, normalized; an empty proxy clears it.
Stored(l) == IF l = "proxy" THEN Proxies \cup {None} ELSE Typed[l]

\* Enter; until what the line holds can be stored it stays open.
Commit ==
  /\ input # None /\ Changing
  /\ \E e \in Stored(input.list) :
       draft' = IF input.list = "proxy" THEN [draft EXCEPT ![scope].proxy = e]
                ELSE [draft EXCEPT ![scope].list[input.list] =
                        IF input.edit \in DOMAIN @ THEN [@ EXCEPT ![input.edit] = e]
                        ELSE IF Contains(@, e) THEN @ ELSE Append(@, e)]
  /\ input' = None /\ opened' = None
  /\ UNCHANGED <<disk, view, undo, deleted>>

CancelInput ==
  /\ input # None /\ input' = None /\ opened' = None
  /\ UNCHANGED <<draft, disk, view, undo, changes, deleted>>

-----------------------------------------------------------------------------
(* Keys that change the draft in sight. *)

\* d: record_delete forgets the deletion before.
Delete ==
  /\ Editing /\ Changing
  /\ \E l \in Lists : \E i \in DOMAIN draft[scope].list[l] :
       LET old == draft[scope].list[l]
           position == IF l = "deny_paths" THEN SelectInSeq(old, LAMBDA e : e = old[i]) ELSE i
       IN
       /\ l = "deny_paths" => old[i] \notin Presets
       /\ draft' = [draft EXCEPT ![scope].list[l] = RemoveAt(@, position)]
       /\ undo' = [scope |-> scope, list |-> l, index |-> position, entry |-> old[i]]
       /\ deleted' = [scope |-> scope, list |-> l, before |-> old,
                      after |-> draft'[scope].list[l]]
  /\ UNCHANGED <<disk, view, input, opened>>

\* Space on a preset; no undo of this.
TogglePreset ==
  /\ Editing /\ Changing
  /\ \E p \in Presets : draft' = [draft EXCEPT ![scope].list["deny_paths"] =
                                    IF Contains(@, p) THEN RemoveFirst(@, p) ELSE Append(@, p)]
  /\ UNCHANGED <<disk, view, edits>>

ToggleMode ==
  /\ Editing /\ Changing
  /\ draft' = [draft EXCEPT ![scope].mode = IF @ = "deny" THEN "unset" ELSE "deny"]
  /\ UNCHANGED <<disk, view, edits>>

ToggleNarrow ==
  /\ Editing /\ Changing
  /\ draft' = [draft EXCEPT ![scope].narrow = IF @ = "on" THEN "unset" ELSE "on"]
  /\ UNCHANGED <<disk, view, edits>>

\* Always into the global draft; "none" asks for a proxy where there is none.
ChooseInterface ==
  /\ Editing /\ Changing
  /\ \E i \in Interfaces :
       /\ draft' = [draft EXCEPT !["global"].interface = i]
       /\ IF i = ProxyOnly /\ draft[scope].proxy = None
          THEN input' = [list |-> "proxy", edit |-> 0] /\ opened' = scope
          ELSE UNCHANGED <<input, opened>>
  /\ UNCHANGED <<disk, view, undo, deleted>>

ClearProxy ==
  /\ Editing /\ Changing
  /\ draft' = [draft EXCEPT ![scope].proxy = None]
  /\ UNCHANGED <<disk, view, edits>>

-----------------------------------------------------------------------------
(* Saving. *)

\* sandbox_policy, and validate_as_project of the project's.
Valid(c) ==
  /\ \A l \in Lists :
       /\ Len(draft[c].list[l]) <= MaxRules
       /\ Unparsable \cap ToSet(draft[c].list[l]) = {}
  /\ c = "project" => draft[c].interface = None

\* widening_keys is not empty.
Widens(d) ==
  d.proxy # None \/ \E l \in {"allow", "lan_allow", "writable", "read_only"} : d.list[l] # <<>>

\* How far a save gets: the file cannot be opened, is emptied and not written,
\* the trust store cannot be opened, or is emptied and not written.
FileOutcomes == {"unopened", "torn", "ok"}
Outcomes == FileOutcomes \cup {"unpinned", "pins_lost"}

Failed(d, c) == [d EXCEPT !.last[c] = "failed"]

\* A mistake to catch: the file is taken for saved before it is.
SaveBelieved(d, c, outcome) ==
  IF ~Valid(c) THEN Failed(d, c)
  ELSE [d EXCEPT !.belief[c] = draft[c], !.last[c] = "saved",
                 !.file[c] = IF outcome = "torn" THEN Blank ELSE draft[c]]

\* save_global, save_project: what a save makes of d.  The draft counts as
\* saved once the file is written, whatever becomes of the approval.
Save(d, c, outcome) ==
  LET written == [d EXCEPT !.file[c] = draft[c], !.belief[c] = draft[c], !.last[c] = "saved"]
      pins == c = "project" /\ Widens(draft[c])
  IN CASE ~Valid(c) \/ outcome = "unopened" -> Failed(d, c)
       [] Valid(c) /\ outcome = "torn" -> Failed([d EXCEPT !.file[c] = Blank], c)
       [] Valid(c) /\ pins /\ outcome = "unpinned" -> Failed(written, c)
       [] Valid(c) /\ pins /\ outcome = "pins_lost" ->
            Failed([written EXCEPT !.approved = NoProject], c)
       [] Valid(c) /\ pins /\ outcome = "ok" -> [written EXCEPT !.approved = draft[c]]
       [] OTHER -> written

\* g and p on the review save a scope, dirty or not.
SaveOne ==
  /\ Browsing /\ screen = "review"
  /\ \/ \E outcome \in FileOutcomes : disk' = Save(disk, "global", outcome)
     \/ \E outcome \in Outcomes : disk' = Save(disk, "project", outcome)
  /\ UNCHANGED <<draft, view, edits, changes>>

\* Enter saves what is dirty, and not the project after a failure.
SaveAll ==
  /\ Browsing /\ screen = "review"
  /\ \E first \in FileOutcomes, second \in Outcomes :
       LET dirty(c) == draft[c] # disk.belief[c]
           global == IF dirty("global") THEN Save(disk, "global", first) ELSE disk
           stopped == dirty("global") /\ global.last["global"] = "failed"
       IN disk' = IF stopped \/ ~dirty("project") THEN global
                  ELSE Save(global, "project", second)
  /\ UNCHANGED <<draft, view, edits, changes>>

EditorNext ==
  \/ SwitchScope \/ JumpToReview \/ OpenScreen \/ LeaveScreen \/ Quit
  \/ Undo \/ AddEntry \/ EditEntry \/ EditProxy \/ Commit \/ CancelInput
  \/ Delete \/ TogglePreset \/ ToggleMode \/ ToggleNarrow
  \/ ChooseInterface \/ ClearProxy \/ SaveOne \/ SaveAll

EditorSpec == EditorInit /\ [][EditorNext]_editorVars

-----------------------------------------------------------------------------
\* An entry lands in the list and the scope its input line was opened for, and
\* an undone deletion in the list it is from, which is then what it was; every
\* other edit is of the scope in sight, and none puts machine
\* settings into a project file.  Code: undo_delete, commit_input, update.
EditLands ==
  /\ \A c \in Scopes, l \in Lists : draft'[c].list[l] # draft[c].list[l] =>
       CASE input # None -> opened = c /\ input.list = l
         [] undo # None /\ undo' = None ->
              /\ deleted.scope = c /\ deleted.list = l
              /\ draft[c].list[l] = deleted.after => draft'[c].list[l] = deleted.before
         [] OTHER -> scope = c /\ screen = "form"
  /\ draft'["project"].interface = draft["project"].interface
EditsLandWhereBegun == [][EditLands]_draft

\* What the editor saved, and shows as unchanged since, is what the next launch
\* builds its policy from, without another question: it is all in the file, it
\* builds a policy, and it is approved if it widens.  Code: save_project.
SavedIsLaunched ==
  \A c \in Scopes : disk.last[c] = "saved" /\ draft[c] = disk.belief[c] =>
    /\ disk.file[c] = draft[c] /\ Valid(c)
    /\ c = "project" /\ Widens(draft[c]) => disk.approved = draft[c]

===============================================================================
