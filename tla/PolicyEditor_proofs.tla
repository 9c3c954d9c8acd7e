-------------------------- MODULE PolicyEditor_proofs --------------------------
(***************************************************************************)
(* Proofs about PolicyEditor for any files, entries and limits: an edit    *)
(* lands where it was begun, an undone deletion restores the list it is    *)
(* from, and what counts as saved is what the next launch takes.           *)
(*                                                                         *)
(* The invariant adds to the types what the editor remembers: an open      *)
(* input line is of the scope in sight, the deletion that can be undone    *)
(* says what the list was and what became of it, and what was saved last   *)
(* is on disk, valid and approved.                                         *)
(***************************************************************************)
EXTENDS PolicyEditor, SequenceTheorems, WellFoundedInduction, TLAPS

Files ==
  [file : [Scopes -> Draft], belief : [Scopes -> Draft], approved : Draft \cup {NoProject},
   last : [Scopes -> {"none", "saved", "failed"}]]

TypesInv ==
  /\ draft \in [Scopes -> Draft] /\ disk \in Files
  /\ scope \in Scopes /\ screen \in {"home", "form", "review", "gone"}
  /\ warned \in BOOLEAN /\ changes \in 0..MaxChanges

InputInv ==
  input # None =>
    input.edit \in Nat /\ input.list \in Lists \cup {"proxy"} /\ opened = scope

\* What undo holds, and what the list was and became.
UndoInv ==
  undo # None =>
    /\ undo \in Deletion
    /\ deleted.scope = undo.scope /\ deleted.list = undo.list
    /\ deleted.before \in Seq(Entries)
    /\ undo.index \in DOMAIN deleted.before
    /\ deleted.before[undo.index] = undo.entry
    /\ deleted.after = RemoveAt(deleted.before, undo.index)

\* Would a file with contents d build a policy in scope c?
Sound(d, c) ==
  /\ \A l \in Lists : Len(d.list[l]) <= MaxRules /\ Unparsable \cap ToSet(d.list[l]) = {}
  /\ c = "project" => d.interface = None

SavedIn(d) ==
  \A c \in Scopes : d.last[c] = "saved" =>
    /\ d.file[c] = d.belief[c] /\ Sound(d.belief[c], c)
    /\ c = "project" /\ Widens(d.belief[c]) => d.approved = d.belief[c]

EditorInv == TypesInv /\ InputInv /\ UndoInv /\ SavedIn(disk)

\* A step keeps the invariant, and an edit lands where it was begun.
Kept == EditorInv' /\ [EditLands]_draft

-------------------------------------------------------------------------------
(* Lists.                                                                   *)

LEMMA Removed ==
  ASSUME NEW S, NEW s \in Seq(S), NEW i \in 1..Len(s)
  PROVE  /\ RemoveAt(s, i) \in Seq(S) /\ Len(RemoveAt(s, i)) = Len(s) - 1
         /\ \A j \in 1..Len(s) - 1 : RemoveAt(s, i)[j] = IF j < i THEN s[j] ELSE s[j + 1]
  <1> DEFINE a == SubSeq(s, 1, i - 1)
             b == SubSeq(s, i + 1, Len(s))
             t == RemoveAt(s, i)
  <1>1. /\ i \in Nat /\ Len(s) \in Nat /\ 1 <= i /\ i <= Len(s)
        /\ \A j \in 1..Len(s) : s[j] \in S
    OBVIOUS
  <1>2. a \in Seq(S) /\ Len(a) = i - 1 /\ \A j \in 1..i - 1 : a[j] = s[j]
    BY <1>1
  <1>3. b \in Seq(S) /\ Len(b) = Len(s) - i
    BY <1>1
  <1>4. \A j \in 1..Len(s) - i : b[j] = s[i + j]
    BY <1>1, <1>3
  <1>5. t = a \o b
    BY DEF RemoveAt
  <1> HIDE DEF a, b, t
  <1>6. /\ t \in Seq(S) /\ Len(t) = Len(a) + Len(b)
        /\ \A j \in 1..Len(a) + Len(b) : t[j] = IF j <= Len(a) THEN a[j] ELSE b[j - Len(a)]
    BY <1>2, <1>3, <1>5, ConcatProperties
  <1>7. ASSUME NEW j \in 1..Len(s) - 1 PROVE t[j] = IF j < i THEN s[j] ELSE s[j + 1]
    <2>1. CASE j < i
      <3>1. j \in 1..i - 1 /\ j \in 1..Len(a) + Len(b) /\ j <= Len(a)
        BY <1>1, <1>2, <1>3, <2>1
      <3> QED
        BY <1>2, <1>6, <2>1, <3>1
    <2>2. CASE ~ (j < i)
      <3>1. /\ j - Len(a) \in 1..Len(s) - i /\ j \in 1..Len(a) + Len(b) /\ ~ (j <= Len(a))
            /\ i + (j - Len(a)) = j + 1
        BY <1>1, <1>2, <1>3, <2>2
      <3> QED
        BY <1>4, <1>6, <2>2, <3>1
    <2> QED
      BY <2>1, <2>2
  <1> QED
    BY <1>1, <1>2, <1>3, <1>6, <1>7 DEF t

LEMMA Inserted ==
  ASSUME NEW S, NEW s \in Seq(S), NEW i \in 1..Len(s) + 1, NEW e \in S
  PROVE  /\ InsertAt(s, i, e) \in Seq(S) /\ Len(InsertAt(s, i, e)) = Len(s) + 1
         /\ \A j \in 1..Len(s) + 1 :
              InsertAt(s, i, e)[j] = IF j < i THEN s[j] ELSE IF j = i THEN e ELSE s[j - 1]
  <1> DEFINE a == SubSeq(s, 1, i - 1)
             b == SubSeq(s, i, Len(s))
             c == a \o <<e>>
             t == InsertAt(s, i, e)
  <1>1. /\ i \in Nat /\ Len(s) \in Nat /\ 1 <= i /\ i <= Len(s) + 1
        /\ \A j \in 1..Len(s) : s[j] \in S
    OBVIOUS
  <1>2. a \in Seq(S) /\ Len(a) = i - 1 /\ \A j \in 1..i - 1 : a[j] = s[j]
    BY <1>1
  <1>3. b \in Seq(S) /\ Len(b) = Len(s) + 1 - i
    BY <1>1
  <1>4. \A j \in 1..Len(s) + 1 - i : b[j] = s[i + j - 1]
    BY <1>1, <1>3
  <1>5. t = c \o b
    BY DEF InsertAt
  <1>6. c \in Seq(S) /\ Len(c) = i /\ \A j \in 1..i : c[j] = IF j = i THEN e ELSE s[j]
    <2> HIDE DEF a
    <2>1. <<e>> \in Seq(S) /\ Len(<<e>>) = 1 /\ <<e>>[1] = e
      OBVIOUS
    <2>2. /\ c \in Seq(S) /\ Len(c) = Len(a) + 1
          /\ \A j \in 1..Len(a) + 1 : c[j] = IF j <= Len(a) THEN a[j] ELSE <<e>>[j - Len(a)]
      BY <1>2, <2>1, ConcatProperties
    <2> HIDE DEF c
    <2>3. ASSUME NEW j \in 1..i PROVE c[j] = IF j = i THEN e ELSE s[j]
      <3>1. CASE j = i
        <4>1. j \in 1..Len(a) + 1 /\ ~ (j <= Len(a)) /\ j - Len(a) = 1
          BY <1>1, <1>2, <3>1
        <4> QED
          BY <2>1, <2>2, <3>1, <4>1
      <3>2. CASE j # i
        <4>1. j \in 1..Len(a) + 1 /\ j <= Len(a) /\ j \in 1..i - 1
          BY <1>1, <1>2, <3>2
        <4> QED
          BY <1>2, <2>2, <3>2, <4>1
      <3> QED
        BY <3>1, <3>2
    <2> QED
      BY <1>1, <1>2, <2>2, <2>3
  <1> HIDE DEF a, b, c, t
  <1>7. /\ t \in Seq(S) /\ Len(t) = Len(c) + Len(b)
        /\ \A j \in 1..Len(c) + Len(b) : t[j] = IF j <= Len(c) THEN c[j] ELSE b[j - Len(c)]
    BY <1>3, <1>5, <1>6, ConcatProperties
  <1>8. ASSUME NEW j \in 1..Len(s) + 1
        PROVE  t[j] = IF j < i THEN s[j] ELSE IF j = i THEN e ELSE s[j - 1]
    <2>1. CASE j <= i
      <3>1. j \in 1..i /\ j \in 1..Len(c) + Len(b) /\ j <= Len(c)
        BY <1>1, <1>3, <1>6, <2>1
      <3>2. t[j] = c[j]
        BY <1>7, <3>1
      <3> QED
        BY <1>1, <1>6, <2>1, <3>1, <3>2
    <2>2. CASE ~ (j <= i)
      <3>1. /\ j - Len(c) \in 1..Len(s) + 1 - i /\ j \in 1..Len(c) + Len(b) /\ ~ (j <= Len(c))
            /\ i + (j - Len(c)) - 1 = j - 1 /\ ~ (j < i) /\ j # i
        BY <1>1, <1>3, <1>6, <2>2
      <3> QED
        BY <1>4, <1>7, <3>1
    <2> QED
      BY <1>1, <2>1, <2>2
  <1>9. Len(t) = Len(s) + 1
    BY <1>1, <1>3, <1>6, <1>7
  <1>10. /\ t \in Seq(S) /\ Len(t) = Len(s) + 1
         /\ \A j \in 1..Len(s) + 1 :
              t[j] = IF j < i THEN s[j] ELSE IF j = i THEN e ELSE s[j - 1]
    BY <1>7, <1>8, <1>9
  <1> QED
    BY <1>10 DEF t

\* Where undo_delete puts an entry back.
Place(i, s) == IF i <= Len(s) THEN i ELSE Len(s) + 1

LEMMA Rejoined ==
  ASSUME NEW S, NEW s \in Seq(S), NEW t \in Seq(S), NEW i \in 1..Len(t) + 1, NEW e \in S,
         Len(s) = Len(t) + 1, s[i] = e,
         \A j \in 1..Len(t) : t[j] = IF j < i THEN s[j] ELSE s[j + 1]
  PROVE  InsertAt(t, i, e) = s
  <1> DEFINE u == InsertAt(t, i, e)
  <1>1. /\ u \in Seq(S) /\ Len(u) = Len(t) + 1
        /\ \A j \in 1..Len(t) + 1 : u[j] = IF j < i THEN t[j] ELSE IF j = i THEN e ELSE t[j - 1]
    BY Inserted
  <1> HIDE DEF u
  <1>2. i \in Nat /\ Len(t) \in Nat
    OBVIOUS
  <1>3. ASSUME NEW j \in 1..Len(t) + 1 PROVE u[j] = s[j]
    <2>1. CASE j < i
      <3>1. j \in 1..Len(t)
        BY <1>2, <2>1
      <3> QED
        BY <1>1, <2>1, <3>1
    <2>2. CASE j = i
      BY <1>1, <1>2, <2>2
    <2>3. CASE j > i
      <3>1. j - 1 \in 1..Len(t) /\ ~ (j - 1 < i) /\ ~ (j < i) /\ j # i /\ (j - 1) + 1 = j
        BY <1>2, <2>3
      <3> QED
        BY <1>1, <3>1
    <2> QED
      BY <1>2, <2>1, <2>2, <2>3
  <1>4. u = s
    BY <1>1, <1>3, SeqEqual
  <1> QED
    BY <1>4 DEF u

\* A deletion undone in the list it left is as if it had not been.
LEMMA Restored ==
  ASSUME NEW S, NEW s \in Seq(S), NEW i \in DOMAIN s
  PROVE  InsertAt(RemoveAt(s, i), Place(i, RemoveAt(s, i)), s[i]) = s
  <1> DEFINE t == RemoveAt(s, i)
  <1>1. /\ i \in 1..Len(s) /\ Len(s) \in Nat /\ s[i] \in S
    OBVIOUS
  <1>2. /\ t \in Seq(S) /\ Len(t) = Len(s) - 1
        /\ \A j \in 1..Len(s) - 1 : t[j] = IF j < i THEN s[j] ELSE s[j + 1]
    BY <1>1, Removed
  <1> HIDE DEF t
  <1>3. Place(i, t) = i
    BY <1>1, <1>2 DEF Place
  <1>4. i \in 1..Len(t) + 1 /\ Len(s) = Len(t) + 1
    BY <1>1, <1>2
  <1>5. InsertAt(t, i, s[i]) = s
    BY <1>1, <1>2, <1>4, Rejoined
  <1> QED
    BY <1>3, <1>5 DEF t

\* The natural numbers have minima.
Less == {p \in Nat \X Nat : p[1] < p[2]}

LEMMA FirstFound ==
  ASSUME NEW s, Len(s) \in Nat, NEW i \in 1..Len(s)
  PROVE  /\ SelectInSeq(s, LAMBDA e : e = s[i]) \in 1..Len(s)
         /\ s[SelectInSeq(s, LAMBDA e : e = s[i])] = s[i]
  <1> DEFINE hits == {j \in 1..Len(s) : s[j] = s[i]}
  <1>1. IsWellFoundedOn(Less, Nat)
    BY NatLessThanWellFounded DEF OpToRel, Less
  <1>2. hits \subseteq Nat /\ hits # {}
    OBVIOUS
  <1>3. PICK m \in hits : \A n \in hits : ~ (<<n, m>> \in Less)
    <2> HIDE DEF hits
    <2> QED
      BY <1>1, <1>2, WFMin
  <1>4. ASSUME NEW n \in hits PROVE m =< n
    <2>1. m \in Nat /\ n \in Nat /\ ~ (<<n, m>> \in Less)
      BY <1>3
    <2> QED
      BY <2>1 DEF Less
  <1>5. Min(hits) \in hits
    <2> HIDE DEF hits
    <2> QED
      BY <1>3, <1>4 DEF Min
  <1>6. SelectInSeq(s, LAMBDA e : e = s[i]) = Min(hits)
    BY <1>2 DEF SelectInSeq
  <1> QED
    BY <1>5, <1>6

-------------------------------------------------------------------------------
(* Keys that look.                                                          *)

LEMMA StartInv == ASSUME EditorConstants, EditorInit PROVE EditorInv
  <1>1. PICK g \in GlobalDrafts, p \in ProjectDrafts :
          LET loaded == [c \in Scopes |->
                IF c = "global" THEN g ELSE IF p = NoProject THEN Blank ELSE p] IN
          /\ draft = loaded
          /\ \E a \in {NoProject, p} :
               disk = [file |-> loaded, belief |-> loaded, approved |-> a,
                       last |-> [c \in Scopes |-> "none"]]
          /\ scope = IF p = NoProject THEN "global" ELSE "project"
    BY DEF EditorInit
  <1> DEFINE loaded == [c \in Scopes |->
               IF c = "global" THEN g ELSE IF p = NoProject THEN Blank ELSE p]
  <1>2. PICK a \in {NoProject, p} :
          disk = [file |-> loaded, belief |-> loaded, approved |-> a,
                  last |-> [c \in Scopes |-> "none"]]
    BY <1>1
  <1>3. Blank \in Draft
    <2>1. <<>> \in Seq(Entries)
      OBVIOUS
    <2> QED
      BY <2>1 DEF Blank, Draft
  <1>4. g \in Draft /\ p \in Draft \cup {NoProject}
    BY DEF EditorConstants
  <1>5. loaded \in [Scopes -> Draft]
    BY <1>3, <1>4
  <1>6. draft = loaded /\ scope \in Scopes
    BY <1>1 DEF Scopes
  <1> HIDE DEF loaded
  <1>7. disk \in Files /\ \A c \in Scopes : disk.last[c] # "saved"
    BY <1>2, <1>4, <1>5 DEF Files
  <1>8. TypesInv
    <2>1. screen = "home" /\ warned = FALSE /\ changes = 0 /\ MaxChanges \in Nat
      BY DEF EditorInit, EditorConstants
    <2>2. draft \in [Scopes -> Draft]
      BY <1>5, <1>6
    <2>3. changes \in 0..MaxChanges
      BY <2>1
    <2> QED
      BY <1>6, <1>7, <2>1, <2>2, <2>3, Zenon DEF TypesInv
  <1> QED
    BY <1>7, <1>8 DEF EditorInv, InputInv, UndoInv, SavedIn, EditorInit

\* Moving about changes neither drafts nor files.
LEMMA LookStep ==
  ASSUME EditorInv, SwitchScope \/ JumpToReview \/ OpenScreen \/ LeaveScreen \/ Quit
  PROVE  Kept
  <1> USE DEF SwitchScope, JumpToReview, OpenScreen, LeaveScreen, Quit, Browsing, edits
  <1>1. TypesInv'
    BY DEF EditorInv, TypesInv
  <1>2. UNCHANGED <<draft, disk, input, undo, deleted>> /\ input = None
    OBVIOUS
  <1>3. UndoInv' /\ SavedIn(disk)' /\ InputInv'
    BY <1>2 DEF EditorInv, UndoInv, SavedIn, InputInv
  <1> QED
    BY <1>1, <1>2, <1>3 DEF Kept, EditorInv

LEMMA InputStep ==
  ASSUME EditorInv, AddEntry \/ EditEntry \/ EditProxy \/ CancelInput
  PROVE  Kept
  <1>1. UNCHANGED <<draft, disk, scope, screen, warned, undo, changes, deleted>>
    BY DEF AddEntry, EditEntry, EditProxy, CancelInput, OpenInput, view
  <1>2. InputInv'
    <2>1. CASE CancelInput
      BY <2>1 DEF CancelInput, InputInv
    <2>2. ASSUME NEW l \in Lists \cup {"proxy"}, NEW i \in Nat, OpenInput(l, i) PROVE InputInv'
      BY <1>1, <2>2 DEF OpenInput, InputInv
    <2>3. CASE AddEntry \/ EditProxy
      BY <2>2, <2>3 DEF AddEntry, EditProxy
    <2>4. CASE EditEntry
      <3>0. PICK l \in Lists : \E i \in DOMAIN draft[scope].list[l] : OpenInput(l, i)
        BY <2>4 DEF EditEntry
      <3>1. PICK i \in DOMAIN draft[scope].list[l] : OpenInput(l, i)
        BY <3>0
      <3>2. draft[scope].list[l] \in Seq(Entries)
        BY DEF EditorInv, TypesInv, Draft
      <3>3. i \in Nat
        BY <3>2
      <3> QED
        BY <2>2, <3>1, <3>3
    <2> QED
      BY <2>1, <2>3, <2>4
  <1>3. TypesInv' /\ UndoInv' /\ SavedIn(disk)'
    BY <1>1 DEF EditorInv, TypesInv, UndoInv, SavedIn
  <1> QED
    BY <1>1, <1>2, <1>3 DEF Kept, EditorInv

-------------------------------------------------------------------------------
(* Keys that edit.                                                          *)

\* What replacing one list of one draft does.
LEMMA ListReplaced ==
  ASSUME TypesInv, NEW c \in Scopes, NEW l \in Lists, NEW s \in Seq(Entries),
         draft' = [draft EXCEPT ![c].list[l] = s]
  PROVE  /\ draft' \in [Scopes -> Draft]
         /\ draft'[c].list[l] = s
         /\ \A o \in Scopes, m \in Lists :
              draft'[o].list[m] # draft[o].list[m] => o = c /\ m = l
         /\ draft'["project"].interface = draft["project"].interface
  <1> DEFINE new == [draft[c].list EXCEPT ![l] = s]
  <1>1. draft \in [Scopes -> Draft] /\ draft[c] \in Draft
    BY DEF TypesInv
  <1>2. draft[c].list \in [Lists -> Seq(Entries)]
    BY <1>1 DEF Draft
  <1>3. new \in [Lists -> Seq(Entries)] /\ new[l] = s
        /\ \A m \in Lists : m # l => new[m] = draft[c].list[m]
    BY <1>2
  <1>4. draft' = [draft EXCEPT ![c].list = new]
    OBVIOUS
  <1> HIDE DEF new
  <1>5. /\ draft'[c] \in Draft /\ draft'[c].list = new
        /\ draft'[c].interface = draft[c].interface
    <2>1. draft'[c] = [draft[c] EXCEPT !.list = new]
      BY <1>1, <1>4
    <2> QED
      BY <1>1, <1>3, <2>1 DEF Draft
  <1>6. \A o \in Scopes : o # c => draft'[o] = draft[o]
    BY <1>1, <1>4
  <1>7. draft' \in [Scopes -> Draft]
    BY <1>1, <1>4, <1>5, <1>6
  <1>8. \A o \in Scopes, m \in Lists :
          draft'[o].list[m] # draft[o].list[m] => o = c /\ m = l
    BY <1>3, <1>5, <1>6
  <1> QED
    BY <1>3, <1>5, <1>6, <1>7, <1>8 DEF Scopes

LEMMA ProxySet ==
  ASSUME TypesInv, NEW c \in Scopes, NEW e \in Proxies \cup {None},
         draft' = [draft EXCEPT ![c].proxy = e]
  PROVE  /\ draft' \in [Scopes -> Draft]
         /\ \A o \in Scopes : /\ draft'[o].list = draft[o].list
                             /\ draft'[o].interface = draft[o].interface
  <1>1. draft \in [Scopes -> Draft]
    BY DEF TypesInv
  <1>2. draft'[c] = [draft[c] EXCEPT !.proxy = e]
    BY <1>1
  <1>3. /\ draft'[c] \in Draft /\ draft'[c].list = draft[c].list
        /\ draft'[c].interface = draft[c].interface
    BY <1>1, <1>2 DEF Draft
  <1>4. \A o \in Scopes : o # c => draft'[o] = draft[o]
    BY <1>1
  <1>5. draft' \in [Scopes -> Draft]
    BY <1>1, <1>3, <1>4
  <1> QED
    BY <1>3, <1>4, <1>5

\* The draft changed: what is left to show of an edit.
LEMMA Edited ==
  ASSUME EditorConstants, EditorInv, draft' \in [Scopes -> Draft], UNCHANGED <<disk, view>>,
         InputInv', UndoInv', changes' \in 0..MaxChanges, EditLands
  PROVE  Kept
  <1>1. TypesInv' /\ SavedIn(disk)'
    BY DEF EditorInv, TypesInv, SavedIn, view
  <1> QED
    BY <1>1 DEF Kept, EditorInv

LEMMA Counted ==
  ASSUME EditorConstants, TypesInv, Changing
  PROVE  changes' \in 0..MaxChanges
  BY DEF EditorConstants, TypesInv, Changing

LEMMA UndoStep ==
  ASSUME EditorConstants, EditorInv, Undo
  PROVE  Kept
  <1>1. /\ undo # None /\ undo \in Deletion /\ input = None /\ undo' = None
        /\ UNCHANGED <<disk, view, input, changes, opened, deleted>>
    BY DEF EditorInv, UndoInv, Undo, Browsing
  <1> DEFINE c == undo.scope
             l == undo.list
             cur == draft[c].list[l]
             at == Place(undo.index, cur)
             new == InsertAt(cur, at, undo.entry)
  <1>2. c \in Scopes /\ l \in Lists /\ undo.index \in Nat \ {0} /\ undo.entry \in Entries
    BY <1>1 DEF Deletion
  <1>3. cur \in Seq(Entries)
    BY <1>2 DEF EditorInv, TypesInv, Draft
  <1>4. draft' = [draft EXCEPT ![c].list[l] = new]
    BY DEF Undo, Place
  <1>5. new \in Seq(Entries)
    <2> HIDE DEF cur
    <2>1. at \in 1..Len(cur) + 1
      BY <1>2, <1>3 DEF Place
    <2> HIDE DEF at
    <2> QED
      BY <1>2, <1>3, <2>1, Inserted
  <1>6. cur = deleted.after => new = deleted.before
    <2> DEFINE old == deleted.before
    <2>1. /\ old \in Seq(Entries) /\ undo.index \in DOMAIN old
          /\ old[undo.index] = undo.entry /\ deleted.after = RemoveAt(old, undo.index)
      BY <1>1 DEF EditorInv, UndoInv
    <2> HIDE DEF old
    <2>2. InsertAt(RemoveAt(old, undo.index), Place(undo.index, RemoveAt(old, undo.index)),
                   old[undo.index]) = old
      BY <2>1, Restored
    <2> QED
      BY <2>1, <2>2 DEF old
  <1> HIDE DEF c, l, cur, at, new
  <1>7. /\ draft' \in [Scopes -> Draft] /\ draft'[c].list[l] = new
        /\ \A o \in Scopes, m \in Lists :
             draft'[o].list[m] # draft[o].list[m] => o = c /\ m = l
        /\ draft'["project"].interface = draft["project"].interface
    <2>1. TypesInv /\ c \in Scopes /\ l \in Lists
      BY <1>2 DEF EditorInv
    <2> QED
      BY <1>4, <1>5, <2>1, ListReplaced
  <1>8. EditLands
    <2>1. deleted.scope = c /\ deleted.list = l
      BY <1>1 DEF EditorInv, UndoInv, c, l
    <2>2. draft[c].list[l] = deleted.after => draft'[c].list[l] = deleted.before
      BY <1>6, <1>7 DEF cur
    <2> QED
      BY <1>1, <1>7, <2>1, <2>2 DEF EditLands
  <1>9. InputInv' /\ UndoInv'
    BY <1>1 DEF InputInv, UndoInv
  <1>10. changes' \in 0..MaxChanges
    BY <1>1 DEF EditorInv, TypesInv
  <1> QED
    BY <1>1, <1>7, <1>8, <1>9, <1>10, Edited

\* An entry of the line's list: it replaces the one it was opened for, or is
\* added unless it is there.
LEMMA CommitStep ==
  ASSUME EditorConstants, EditorInv, Commit
  PROVE  Kept
  <1>1. /\ input # None /\ input' = None /\ UNCHANGED <<disk, view, undo, deleted>>
        /\ changes' \in 0..MaxChanges
        /\ input.edit \in Nat /\ input.list \in Lists \cup {"proxy"} /\ opened = scope
        /\ scope \in Scopes
    BY Counted DEF Commit, EditorInv, InputInv, TypesInv
  <1>2. InputInv' /\ UndoInv'
    BY <1>1 DEF EditorInv, InputInv, UndoInv
  <1>3. PICK e \in Stored(input.list) :
          draft' = IF input.list = "proxy" THEN [draft EXCEPT ![scope].proxy = e]
                   ELSE [draft EXCEPT ![scope].list[input.list] =
                           IF input.edit \in DOMAIN @ THEN [@ EXCEPT ![input.edit] = e]
                           ELSE IF Contains(@, e) THEN @ ELSE Append(@, e)]
    BY DEF Commit
  <1>4. CASE input.list = "proxy"
    <2>1. draft' = [draft EXCEPT ![scope].proxy = e] /\ e \in Proxies \cup {None}
      BY <1>3, <1>4 DEF Stored
    <2>2. /\ draft' \in [Scopes -> Draft]
          /\ \A o \in Scopes : /\ draft'[o].list = draft[o].list
                              /\ draft'[o].interface = draft[o].interface
      BY <1>1, <2>1, ProxySet DEF EditorInv
    <2>3. EditLands
      BY <2>2 DEF EditLands, Scopes
    <2> QED
      BY <1>1, <1>2, <2>2, <2>3, Edited
  <1>5. CASE input.list \in Lists
    <2> DEFINE l == input.list
               cur == draft[scope].list[l]
               new == IF input.edit \in DOMAIN cur THEN [cur EXCEPT ![input.edit] = e]
                      ELSE IF Contains(cur, e) THEN cur ELSE Append(cur, e)
    <2>1. l \in Lists /\ l # "proxy" /\ e \in Entries
      BY <1>5 DEF Lists, Stored, Entries, EntriesOf
    <2>2. cur \in Seq(Entries)
      BY <1>1, <2>1 DEF EditorInv, TypesInv, Draft
    <2>3. new \in Seq(Entries)
      <3> HIDE DEF cur
      <3> QED
        BY <2>1, <2>2
    <2>4. draft' = [draft EXCEPT ![scope].list[l] = new]
      BY <1>3, <2>1
    <2> HIDE DEF cur, new
    <2>5. /\ draft' \in [Scopes -> Draft]
          /\ \A o \in Scopes, m \in Lists :
               draft'[o].list[m] # draft[o].list[m] => o = scope /\ m = l
          /\ draft'["project"].interface = draft["project"].interface
      <3> HIDE DEF l
      <3> QED
        BY <1>1, <2>1, <2>3, <2>4, ListReplaced DEF EditorInv
    <2>6. EditLands
      BY <1>1, <2>5 DEF EditLands
    <2> QED
      BY <1>1, <1>2, <2>5, <2>6, Edited
  <1> QED
    BY <1>1, <1>4, <1>5

\* What the deletion remembers is enough to undo it.
LEMMA DeleteStep ==
  ASSUME EditorConstants, EditorInv, Delete
  PROVE  Kept
  <1>1. /\ input = None /\ screen = "form" /\ UNCHANGED <<disk, view, input, opened>>
        /\ scope \in Scopes /\ changes' \in 0..MaxChanges
    BY Counted DEF Delete, Editing, Browsing, EditorInv, TypesInv
  <1>2. PICK l \in Lists : \E i \in DOMAIN draft[scope].list[l] :
          LET old == draft[scope].list[l]
              position == IF l = "deny_paths" THEN SelectInSeq(old, LAMBDA e : e = old[i]) ELSE i
          IN
          /\ l = "deny_paths" => old[i] \notin Presets
          /\ draft' = [draft EXCEPT ![scope].list[l] = RemoveAt(@, position)]
          /\ undo' = [scope |-> scope, list |-> l, index |-> position, entry |-> old[i]]
          /\ deleted' = [scope |-> scope, list |-> l, before |-> old,
                         after |-> draft'[scope].list[l]]
    BY DEF Delete
  <1> DEFINE old == draft[scope].list[l]
  <1>3. PICK i \in DOMAIN old :
          LET position == IF l = "deny_paths" THEN SelectInSeq(old, LAMBDA e : e = old[i]) ELSE i
          IN
          /\ draft' = [draft EXCEPT ![scope].list[l] = RemoveAt(old, position)]
          /\ undo' = [scope |-> scope, list |-> l, index |-> position, entry |-> old[i]]
          /\ deleted' = [scope |-> scope, list |-> l, before |-> old,
                         after |-> draft'[scope].list[l]]
    BY <1>2
  <1>4. old \in Seq(Entries)
    BY <1>1 DEF EditorInv, TypesInv, Draft
  <1> DEFINE k == IF l = "deny_paths" THEN SelectInSeq(old, LAMBDA e : e = old[i]) ELSE i
             new == RemoveAt(old, k)
  <1>5. /\ draft' = [draft EXCEPT ![scope].list[l] = new]
        /\ undo' = [scope |-> scope, list |-> l, index |-> k, entry |-> old[i]]
        /\ deleted' = [scope |-> scope, list |-> l, before |-> old,
                       after |-> draft'[scope].list[l]]
    BY <1>3
  <1>6. k \in 1..Len(old) /\ old[k] = old[i]
    <2>1. Len(old) \in Nat /\ i \in 1..Len(old)
      BY <1>4
    <2>2. /\ SelectInSeq(old, LAMBDA e : e = old[i]) \in 1..Len(old)
          /\ old[SelectInSeq(old, LAMBDA e : e = old[i])] = old[i]
      <3> HIDE DEF old
      <3> QED
        BY <2>1, FirstFound
    <2> QED
      BY <2>1, <2>2
  <1> HIDE DEF k
  <1>7. new \in Seq(Entries)
    <2> HIDE DEF old
    <2> QED
      BY <1>4, <1>6, Removed
  <1> HIDE DEF new, old
  <1>8. /\ draft' \in [Scopes -> Draft] /\ draft'[scope].list[l] = new
        /\ \A o \in Scopes, m \in Lists :
             draft'[o].list[m] # draft[o].list[m] => o = scope /\ m = l
        /\ draft'["project"].interface = draft["project"].interface
    BY <1>1, <1>5, <1>7, ListReplaced DEF EditorInv
  <1>9. undo' \in Deletion
    <2>1. old[i] \in Entries /\ k \in Nat \ {0}
      BY <1>4, <1>6
    <2> QED
      BY <1>1, <1>5, <2>1 DEF Deletion
  <1>10. InputInv' /\ UndoInv'
    <2>1. k \in DOMAIN old
      BY <1>4, <1>6
    <2>2. InputInv'
      BY <1>1 DEF InputInv
    <2> QED
      BY <1>4, <1>5, <1>6, <1>8, <1>9, <2>1, <2>2 DEF UndoInv, new
  <1>11. EditLands
    BY <1>1, <1>8, <1>9 DEF EditLands, EditorConstants
  <1> QED
    BY <1>1, <1>8, <1>10, <1>11, Edited

LEMMA PresetStep ==
  ASSUME EditorConstants, EditorInv, TogglePreset
  PROVE  Kept
  <1>1. /\ input = None /\ screen = "form" /\ UNCHANGED <<disk, view, edits>>
        /\ scope \in Scopes /\ changes' \in 0..MaxChanges
    BY Counted DEF TogglePreset, Editing, Browsing, EditorInv, TypesInv
  <1>2. PICK p \in Presets : draft' = [draft EXCEPT ![scope].list["deny_paths"] =
                               IF Contains(@, p) THEN RemoveFirst(@, p) ELSE Append(@, p)]
    BY DEF TogglePreset
  <1> DEFINE old == draft[scope].list["deny_paths"]
             new == IF Contains(old, p) THEN RemoveFirst(old, p) ELSE Append(old, p)
  <1>3. draft' = [draft EXCEPT ![scope].list["deny_paths"] = new]
    BY <1>2
  <1>4. "deny_paths" \in Lists /\ p \in Entries
    BY DEF Lists, Entries, EntriesOf
  <1>5. old \in Seq(Entries)
    BY <1>1, <1>4 DEF EditorInv, TypesInv, Draft
  <1> HIDE DEF old
  <1>6. new \in Seq(Entries)
    <2>1. CASE ~Contains(old, p)
      BY <1>4, <1>5, <2>1
    <2>2. CASE Contains(old, p)
      <3>1. PICK i \in 1..Len(old) : old[i] = p
        BY <2>2 DEF Contains
      <3>2. SelectInSeq(old, LAMBDA e : e = old[i]) \in 1..Len(old)
        <4>1. Len(old) \in Nat
          BY <1>5
        <4> QED
          BY <4>1, FirstFound
      <3>3. SelectInSeq(old, LAMBDA v : v = p) \in 1..Len(old)
        BY <3>1, <3>2 DEF SelectInSeq
      <3>4. RemoveFirst(old, p) = RemoveAt(old, SelectInSeq(old, LAMBDA v : v = p))
        BY <3>1 DEF RemoveFirst
      <3>5. \A k \in 1..Len(old) : RemoveAt(old, k) \in Seq(Entries)
        BY <1>5, Removed
      <3> QED
        BY <2>2, <3>3, <3>4, <3>5
    <2> QED
      BY <2>1, <2>2
  <1> HIDE DEF new
  <1>7. /\ draft' \in [Scopes -> Draft]
        /\ \A o \in Scopes, m \in Lists :
             draft'[o].list[m] # draft[o].list[m] => o = scope /\ m = "deny_paths"
        /\ draft'["project"].interface = draft["project"].interface
    BY <1>1, <1>3, <1>4, <1>6, ListReplaced DEF EditorInv
  <1>8. InputInv' /\ UndoInv'
    BY <1>1 DEF EditorInv, InputInv, UndoInv, edits
  <1>9. EditLands
    BY <1>1, <1>7 DEF EditLands, edits
  <1> QED
    BY <1>1, <1>7, <1>8, <1>9, Edited

\* Keys that leave the lists alone.
LEMMA FieldStep ==
  ASSUME EditorConstants, EditorInv,
         ToggleMode \/ ToggleNarrow \/ ChooseInterface \/ ClearProxy
  PROVE  Kept
  <1>1. /\ input = None /\ UNCHANGED <<disk, view, undo, deleted>>
        /\ scope \in Scopes /\ changes' \in 0..MaxChanges
    BY Counted DEF ToggleMode, ToggleNarrow, ChooseInterface, ClearProxy, Editing, Browsing,
                   EditorInv, TypesInv, edits
  <1>2. draft \in [Scopes -> Draft]
    BY DEF EditorInv, TypesInv
  <1>3. UndoInv'
    BY <1>1 DEF EditorInv, UndoInv
  <1>4. InputInv'
    <2>1. CASE ToggleMode \/ ToggleNarrow \/ ClearProxy
      BY <1>1, <2>1 DEF ToggleMode, ToggleNarrow, ClearProxy, edits, InputInv
    <2>2. CASE ChooseInterface
      BY <1>1, <2>2 DEF ChooseInterface, InputInv, view
    <2> QED
      BY <2>1, <2>2
  <1>5. /\ draft' \in [Scopes -> Draft]
        /\ \A o \in Scopes : draft'[o].list = draft[o].list
        /\ draft'["project"].interface = draft["project"].interface
    <2>1. CASE ToggleMode
      <3>1. \E m \in {"unset", "deny"} : draft' = [draft EXCEPT ![scope].mode = m]
        BY <2>1 DEF ToggleMode
      <3>2. PICK m \in {"unset", "deny"} : draft' = [draft EXCEPT ![scope].mode = m]
        BY <3>1
      <3>3. draft'[scope] = [draft[scope] EXCEPT !.mode = m]
        BY <1>1, <1>2, <3>2
      <3>4. /\ draft'[scope] \in Draft /\ draft'[scope].list = draft[scope].list
            /\ draft'[scope].interface = draft[scope].interface
        BY <1>1, <1>2, <3>3 DEF Draft
      <3> QED
        BY <1>1, <1>2, <3>2, <3>4 DEF Scopes
    <2>2. CASE ToggleNarrow
      <3>1. \E m \in {"unset", "on"} : draft' = [draft EXCEPT ![scope].narrow = m]
        BY <2>2 DEF ToggleNarrow
      <3>2. PICK m \in {"unset", "on"} : draft' = [draft EXCEPT ![scope].narrow = m]
        BY <3>1
      <3>3. draft'[scope] = [draft[scope] EXCEPT !.narrow = m]
        BY <1>1, <1>2, <3>2
      <3>4. /\ draft'[scope] \in Draft /\ draft'[scope].list = draft[scope].list
            /\ draft'[scope].interface = draft[scope].interface
        BY <1>1, <1>2, <3>3 DEF Draft
      <3> QED
        BY <1>1, <1>2, <3>2, <3>4 DEF Scopes
    <2>3. CASE ChooseInterface
      <3>1. PICK i \in Interfaces : draft' = [draft EXCEPT !["global"].interface = i]
        BY <2>3 DEF ChooseInterface
      <3>2. draft'["global"] = [draft["global"] EXCEPT !.interface = i]
        BY <1>2, <3>1 DEF Scopes
      <3>3. draft'["global"] \in Draft /\ draft'["global"].list = draft["global"].list
        BY <1>2, <3>2 DEF Draft, Scopes
      <3> QED
        BY <1>2, <3>1, <3>3 DEF Scopes
    <2>4. CASE ClearProxy
      <3>1. draft' = [draft EXCEPT ![scope].proxy = None]
        BY <2>4 DEF ClearProxy
      <3> QED
        BY <1>1, <3>1, ProxySet DEF EditorInv, Scopes
    <2> QED
      BY <2>1, <2>2, <2>3, <2>4
  <1>6. EditLands
    BY <1>5 DEF EditLands
  <1> QED
    BY <1>1, <1>3, <1>4, <1>5, <1>6, Edited

-------------------------------------------------------------------------------
(* Saves.                                                                   *)

\* d with this in scope c: file, belief and outcome, and the approval.
Made(d, c, f, b, a, s) ==
  [file |-> [d.file EXCEPT ![c] = f], belief |-> [d.belief EXCEPT ![c] = b],
   approved |-> a, last |-> [d.last EXCEPT ![c] = s]]

LEMMA MadeFrom ==
  ASSUME NEW d \in Files, NEW c \in Scopes, NEW f
  PROVE  [d EXCEPT !.file[c] = f, !.belief[c] = f, !.last[c] = "saved"]
           = Made(d, c, f, f, d.approved, "saved")
  <1>1. /\ d = [file |-> d.file, belief |-> d.belief, approved |-> d.approved, last |-> d.last]
        /\ d.last \in [Scopes -> {"none", "saved", "failed"}]
    BY DEF Files
  <1>2. [d EXCEPT !.file[c] = f, !.belief[c] = f, !.last[c] = "saved"]
          = Made(d, c, f, f, d.approved, "saved")
    <2> DEFINE F == [d.file EXCEPT ![c] = f]
               B == [d.belief EXCEPT ![c] = f]
               L == [d.last EXCEPT ![c] = "saved"]
    <2>1. [d EXCEPT !.file[c] = f, !.belief[c] = f, !.last[c] = "saved"]
            = [d EXCEPT !.file = F, !.belief = B, !.last = L]
      BY <1>1
    <2>2. \A x, y, z : [d EXCEPT !.file = x, !.belief = y, !.last = z]
                         = [file |-> x, belief |-> y, approved |-> d.approved, last |-> z]
      <3> SUFFICES ASSUME NEW x, NEW y, NEW z
                   PROVE  [d EXCEPT !.file = x, !.belief = y, !.last = z]
                            = [file |-> x, belief |-> y, approved |-> d.approved, last |-> z]
        OBVIOUS
      <3> DEFINE r == [d EXCEPT !.file = x]
      <3>1. r = [file |-> x, belief |-> d.belief, approved |-> d.approved, last |-> d.last]
        BY <1>1
      <3> DEFINE q == [r EXCEPT !.belief = y]
      <3>2. q = [file |-> x, belief |-> y, approved |-> d.approved, last |-> d.last]
        <4> HIDE DEF r
        <4> QED
          BY <3>1
      <3>3. [q EXCEPT !.last = z]
              = [file |-> x, belief |-> y, approved |-> d.approved, last |-> z]
        <4> HIDE DEF q
        <4> QED
          BY <3>2
      <3>4. [d EXCEPT !.file = x, !.belief = y, !.last = z] = [q EXCEPT !.last = z]
        OBVIOUS
      <3> QED
        BY <3>3, <3>4
    <2> HIDE DEF F, B, L
    <2>3. [d EXCEPT !.file[c] = f, !.belief[c] = f, !.last[c] = "saved"]
            = [file |-> F, belief |-> B, approved |-> d.approved, last |-> L]
      BY <2>1, <2>2
    <2> QED
      BY <2>3 DEF Made, F, B, L
  <1> QED
    BY <1>2

LEMMA MadeAgain ==
  ASSUME NEW d \in Files, NEW c \in Scopes, NEW f, NEW b, NEW a, NEW s
  PROVE  /\ Failed(Made(d, c, f, b, a, s), c) = Made(d, c, f, b, a, "failed")
         /\ \A x : [Made(d, c, f, b, a, s) EXCEPT !.approved = x] = Made(d, c, f, b, x, s)
  <1>1. d.last \in [Scopes -> {"none", "saved", "failed"}]
    BY DEF Files
  <1>2. [[d.last EXCEPT ![c] = s] EXCEPT ![c] = "failed"] = [d.last EXCEPT ![c] = "failed"]
    BY <1>1
  <1> QED
    BY <1>2 DEF Made, Failed

\* What a save may leave behind in one scope.
LEMMA Left ==
  ASSUME NEW d \in Files, SavedIn(d), NEW c \in Scopes, NEW f \in Draft, NEW b \in Draft,
         NEW a \in Draft \cup {NoProject}, NEW s \in {"saved", "failed"},
         c = "global" => a = d.approved,
         s = "saved" => /\ f = b /\ Sound(b, c)
                        /\ c = "project" /\ Widens(b) => a = b
  PROVE  Made(d, c, f, b, a, s) \in Files /\ SavedIn(Made(d, c, f, b, a, s))
  <1> DEFINE e == Made(d, c, f, b, a, s)
  <1>0. e = [file |-> [d.file EXCEPT ![c] = f], belief |-> [d.belief EXCEPT ![c] = b],
             approved |-> a, last |-> [d.last EXCEPT ![c] = s]]
    BY DEF Made
  <1> HIDE DEF e
  <1>1. /\ d.file \in [Scopes -> Draft] /\ d.belief \in [Scopes -> Draft]
        /\ d.last \in [Scopes -> {"none", "saved", "failed"}]
    BY DEF Files
  <1>2. e \in Files
    BY <1>0, <1>1 DEF Files
  <1>3. ASSUME NEW o \in Scopes, e.last[o] = "saved"
        PROVE  /\ e.file[o] = e.belief[o] /\ Sound(e.belief[o], o)
               /\ o = "project" /\ Widens(e.belief[o]) => e.approved = e.belief[o]
    <2>1. CASE o = c
      <3>1. e.file[o] = f /\ e.belief[o] = b /\ e.approved = a /\ s = "saved"
        BY <1>0, <1>1, <1>3, <2>1
      <3> QED
        BY <2>1, <3>1
    <2>2. CASE o # c
      <3>1. /\ e.file[o] = d.file[o] /\ e.belief[o] = d.belief[o] /\ e.approved = a
            /\ d.last[o] = "saved"
        BY <1>0, <1>1, <1>3, <2>2
      <3>2. o = "project" => e.approved = d.approved
        BY <2>2, <3>1 DEF Scopes
      <3> QED
        BY <3>1, <3>2 DEF SavedIn
    <2> QED
      BY <2>1, <2>2
  <1> QED
    BY <1>2, <1>3 DEF SavedIn, e

\* However far a save gets, what it leaves as saved is.
LEMMA SaveKeeps ==
  ASSUME TypesInv, NEW d \in Files, SavedIn(d), NEW c \in Scopes, NEW outcome,
         outcome \in FileOutcomes \/ (c = "project" /\ outcome \in Outcomes)
  PROVE  Save(d, c, outcome) \in Files /\ SavedIn(Save(d, c, outcome))
  <1> DEFINE e == Save(d, c, outcome)
             pins == c = "project" /\ Widens(draft[c])
             written == [d EXCEPT !.file[c] = draft[c], !.belief[c] = draft[c],
                                  !.last[c] = "saved"]
  <1>1. draft[c] \in Draft /\ (Valid(c) => Sound(draft[c], c))
    BY DEF TypesInv, Valid, Sound
  <1>2. Blank \in Draft
    <2>1. <<>> \in Seq(Entries)
      OBVIOUS
    <2> QED
      BY <2>1 DEF Blank, Draft
  <1>3. /\ d = [file |-> d.file, belief |-> d.belief, approved |-> d.approved, last |-> d.last]
        /\ d.file \in [Scopes -> Draft] /\ d.belief \in [Scopes -> Draft]
        /\ d.last \in [Scopes -> {"none", "saved", "failed"}]
        /\ d.approved \in Draft \cup {NoProject}
        /\ d.file[c] \in Draft /\ d.belief[c] \in Draft
    BY DEF Files
  <1>4. written = Made(d, c, draft[c], draft[c], d.approved, "saved")
    BY MadeFrom
  <1>5. CASE ~Valid(c) \/ outcome = "unopened"
    <2>1. e = Failed(d, c)
      BY <1>5 DEF Save
    <2>2. e = Made(d, c, d.file[c], d.belief[c], d.approved, "failed")
      BY <1>3, <2>1 DEF Failed, Made
    <2> HIDE DEF e
    <2>3. e \in Files /\ SavedIn(e)
      BY <1>3, <2>2, Left
    <2> QED
      BY <2>3 DEF e
  <1>6. CASE Valid(c) /\ outcome = "torn"
    <2>1. e = Failed([d EXCEPT !.file[c] = Blank], c)
      BY <1>6 DEF Save
    <2>2. e = Made(d, c, Blank, d.belief[c], d.approved, "failed")
      BY <1>3, <2>1 DEF Failed, Made
    <2> HIDE DEF e
    <2>3. e \in Files /\ SavedIn(e)
      BY <1>2, <1>3, <2>2, Left
    <2> QED
      BY <2>3 DEF e
  <1>7. CASE Valid(c) /\ outcome \notin {"unopened", "torn"} /\ ~pins
    <2>1. e = written
      BY <1>7 DEF Save
    <2>2. e = Made(d, c, draft[c], draft[c], d.approved, "saved")
      BY <1>4, <2>1
    <2>3. ~ (c = "project" /\ Widens(draft[c]))
      BY <1>7
    <2> HIDE DEF e, written
    <2>4. e \in Files /\ SavedIn(e)
      BY <1>1, <1>3, <1>7, <2>2, <2>3, Left
    <2> QED
      BY <2>4 DEF e
  <1>8. CASE Valid(c) /\ outcome \notin {"unopened", "torn"} /\ pins
    <2>0. c = "project" /\ outcome \in {"ok", "unpinned", "pins_lost"}
      BY <1>8 DEF Outcomes, FileOutcomes
    <2>1. CASE outcome = "unpinned"
      <3>1. e = Failed(written, c)
        BY <1>8, <2>1 DEF Save
      <3> HIDE DEF e, written
      <3>2. e = Made(d, c, draft[c], draft[c], d.approved, "failed")
        BY <1>4, <3>1, MadeAgain
      <3>3. e \in Files /\ SavedIn(e)
        BY <1>1, <1>3, <3>2, Left
      <3> QED
        BY <3>3 DEF e
    <2>2. CASE outcome = "pins_lost"
      <3>1. e = Failed([written EXCEPT !.approved = NoProject], c)
        BY <1>8, <2>2 DEF Save
      <3> HIDE DEF e, written
      <3>2. e = Made(d, c, draft[c], draft[c], NoProject, "failed")
        BY <1>4, <3>1, MadeAgain
      <3>3. e \in Files /\ SavedIn(e)
        BY <1>1, <1>3, <2>0, <3>2, Left
      <3> QED
        BY <3>3 DEF e
    <2>3. CASE outcome = "ok"
      <3>1. e = [written EXCEPT !.approved = draft[c]]
        BY <1>8, <2>3 DEF Save
      <3> HIDE DEF e, written
      <3>2. e = Made(d, c, draft[c], draft[c], draft[c], "saved")
        BY <1>4, <3>1, MadeAgain
      <3>3. e \in Files /\ SavedIn(e)
        BY <1>1, <1>3, <1>8, <2>0, <3>2, Left
      <3> QED
        BY <3>3 DEF e
    <2> QED
      BY <2>0, <2>1, <2>2, <2>3
  <1> QED
    BY <1>5, <1>6, <1>7, <1>8

LEMMA SaveStep ==
  ASSUME EditorInv, SaveOne \/ SaveAll
  PROVE  Kept
  <1>1. UNCHANGED <<draft, view, edits, changes>>
    BY DEF SaveOne, SaveAll
  <1>2. /\ TypesInv /\ disk \in Files /\ SavedIn(disk)
        /\ "global" \in Scopes /\ "project" \in Scopes
    BY DEF EditorInv, TypesInv, Scopes
  <1>3. disk' \in Files /\ SavedIn(disk')
    <2>1. CASE SaveOne
      <3>1. \/ \E outcome \in FileOutcomes : disk' = Save(disk, "global", outcome)
            \/ \E outcome \in Outcomes : disk' = Save(disk, "project", outcome)
        BY <2>1 DEF SaveOne
      <3>2. \A outcome \in FileOutcomes : /\ Save(disk, "global", outcome) \in Files
                                         /\ SavedIn(Save(disk, "global", outcome))
        BY <1>2, SaveKeeps
      <3>3. \A outcome \in Outcomes : /\ Save(disk, "project", outcome) \in Files
                                     /\ SavedIn(Save(disk, "project", outcome))
        BY <1>2, SaveKeeps
      <3> QED
        BY <3>1, <3>2, <3>3
    <2>2. CASE SaveAll
      <3>1. PICK first \in FileOutcomes, second \in Outcomes :
              LET dirty(c) == draft[c] # disk.belief[c]
                  global == IF dirty("global") THEN Save(disk, "global", first) ELSE disk
                  stopped == dirty("global") /\ global.last["global"] = "failed"
              IN disk' = IF stopped \/ ~dirty("project") THEN global
                         ELSE Save(global, "project", second)
        BY <2>2 DEF SaveAll
      <3> DEFINE global == IF draft["global"] # disk.belief["global"]
                           THEN Save(disk, "global", first) ELSE disk
      <3>2. disk' = global \/ disk' = Save(global, "project", second)
        BY <3>1
      <3>3. global \in Files /\ SavedIn(global)
        <4>1. /\ Save(disk, "global", first) \in Files
              /\ SavedIn(Save(disk, "global", first))
          BY <1>2, SaveKeeps
        <4> QED
          BY <1>2, <4>1
      <3> HIDE DEF global
      <3>4. /\ Save(global, "project", second) \in Files
            /\ SavedIn(Save(global, "project", second))
        BY <1>2, <3>3, SaveKeeps
      <3> QED
        BY <3>2, <3>3, <3>4
    <2> QED
      BY <2>1, <2>2
  <1>4. TypesInv' /\ InputInv' /\ UndoInv'
    BY <1>1, <1>3 DEF EditorInv, TypesInv, InputInv, UndoInv, view, edits
  <1>5. SavedIn(disk)'
    BY <1>3 DEF SavedIn
  <1> QED
    BY <1>1, <1>4, <1>5 DEF Kept, EditorInv

-------------------------------------------------------------------------------
(* The theorems.                                                            *)

LEMMA EditorStep ==
  ASSUME EditorConstants, EditorInv, [EditorNext]_editorVars
  PROVE  Kept
  <1>1. CASE UNCHANGED editorVars
    BY <1>1 DEF editorVars, view, edits, Kept, EditorInv, TypesInv, InputInv, UndoInv, SavedIn
  <1> QED
    BY <1>1, LookStep, InputStep, UndoStep, CommitStep, DeleteStep, PresetStep, FieldStep,
       SaveStep DEF EditorNext

\* The types, what the editor remembers of an input line and of a deletion, and
\* what is on disk of what counts as saved.  Code: the whole of update.
THEOREM EditorInvariance == ASSUME EditorConstants PROVE EditorSpec => []EditorInv
  <1>1. EditorInit => EditorInv
    BY StartInv
  <1>2. EditorInv /\ [EditorNext]_editorVars => EditorInv'
    BY EditorStep DEF Kept
  <1> QED
    BY <1>1, <1>2, PTL DEF EditorSpec

\* The editor's variables have their types, the drafts and the files theirs.
THEOREM EditorTypeCorrect == ASSUME EditorConstants PROVE EditorSpec => []EditorTypeOK
  <1>1. EditorInv => EditorTypeOK
    BY DEF EditorInv, TypesInv, InputInv, UndoInv, Files, EditorTypeOK
  <1> QED
    BY <1>1, EditorInvariance, PTL

\* An entry lands in the list and scope its input line was opened for, an undone
\* deletion where it is from, restoring it if it is as the deletion left it, and
\* every other edit in the scope in sight; no key gives a project an interface.
\* Code: undo_delete, commit_input, update.
THEOREM EditsLand == ASSUME EditorConstants PROVE EditorSpec => EditsLandWhereBegun
  <1>1. EditorInv /\ [EditorNext]_editorVars => [EditLands]_draft
    BY EditorStep DEF Kept
  <1> QED
    BY <1>1, EditorInvariance, PTL DEF EditorSpec, EditsLandWhereBegun

\* Whatever step of a save fails, a draft that shows as saved is in the file, is
\* valid, and is approved if it widens.  Code: save_global, save_project.
THEOREM SavedDraftsLaunch == ASSUME EditorConstants PROVE EditorSpec => []SavedIsLaunched
  <1>1. EditorInv => SavedIsLaunched
    BY DEF EditorInv, SavedIn, SavedIsLaunched, Sound, Valid
  <1> QED
    BY <1>1, EditorInvariance, PTL
===============================================================================
