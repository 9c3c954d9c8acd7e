-------------------------- MODULE LaunchPipeline_proofs --------------------------
(***************************************************************************)
(* Proofs about ConfigTrust and LaunchPipeline for any launchers, files,   *)
(* flags and builds: a project file's widenings take part in a launch only *)
(* by consent or by a rewrite between two reads, what a layer forbids      *)
(* stays forbidden, and an agent the helper answers for runs under the     *)
(* policy its launch merged.                                               *)
(***************************************************************************)
EXTENDS LaunchPipeline, WellFoundedInduction, TLAPS

-------------------------------------------------------------------------------
(* The configuration.  The inductive invariant follows the approvals:       *)
(* whatever the trust store holds, and every copy of it that a launch or a  *)
(* command has loaded and may write back later, was agreed to or raced.     *)

Agreed == consented \cup raced

\* What a trust store, or a copy of it, may say.
Backed(s) == \A d \in Dirs : s[d] # NoFile => <<d, s[d]>> \in Agreed

Stores == [Dirs -> MaybeFile]
Commands ==
  [op : {"idle", "trust", "revoke", "project", "global"},
   step : {"none", "load", "digest", "truncate", "store", "write"},
   dir : Dirs \cup {NoDir}, file : MaybeFile, pinned : MaybeFile, store : Stores \cup {<<>>}]

FilesInv ==
  /\ global \in MaybeFile /\ project \in [Dirs -> MaybeFile]
  /\ store \in Stores /\ Backed(store)
  /\ consented \subseteq Dirs \X File /\ raced \subseteq Dirs \X File
  /\ budget \in 0..MaxEvents

\* What the user's command has at each of its steps.
CommandInv ==
  /\ command \in Commands
  /\ command.step \in {"load", "digest", "truncate", "store"} =>
       command.op \in {"trust", "revoke", "project"} /\ command.dir \in Dirs
  /\ command.step = "write" =>
       command.file \in File /\ (command.op = "project" => command.dir \in Dirs)
  /\ command.step = "load" =>
       /\ command.op = "revoke" => command.pinned = NoFile
       /\ command.op = "project" => command.file \in File /\ command.pinned \in File
  /\ command.step = "digest" =>
       /\ command.op = "trust" => command.store \in Stores /\ Backed(command.store)
       /\ command.op = "project" => command.file \in File
       /\ command.op # "revoke"
  /\ command.step \in {"truncate", "store"} =>
       /\ command.store \in Stores /\ Backed(command.store)
       /\ IF command.op = "revoke" THEN command.pinned = NoFile
          ELSE command.file \in File /\ command.pinned \in File
  /\ command.step = "store" /\ command.pinned # NoFile =>
       <<command.dir, command.pinned>> \in Agreed

LaunchTypes ==
  /\ stage \in [Launchers -> Stages]
  /\ base \in [Launchers -> File] /\ parsed \in [Launchers -> MaybeFile]
  /\ digest \in [Launchers -> MaybeFile]
  /\ found \in [Launchers -> Dirs \cup {NoDir}]
  /\ approvals \in [Launchers -> Stores]
  /\ ignored \in [Launchers -> BOOLEAN]

\* The project file's widenings are off, or raced, or agreed to.
Settled(l) ==
  \/ ~HasWidenings(ProjectLayer(l)) \/ parsed[l] # digest[l]
  \/ <<found[l], parsed[l]>> \in Agreed

LaunchInv ==
  \A l \in Launchers :
    /\ stage[l] \in {"digest", "lookup", "ask", "save"} =>
         found[l] \in Dirs /\ parsed[l] \in File
    /\ stage[l] \in {"lookup", "ask", "save"} => digest[l] \in File
    /\ Backed(approvals[l])
    /\ stage[l] \in {"save", "ready"} => Settled(l)

ConfigInv == FilesInv /\ CommandInv /\ LaunchTypes /\ LaunchInv

-----------------------------------------------------------------------------
(* Operators.                                                               *)

LEMMA Contents ==
  /\ Empty \in File /\ NoFile \notin File
  /\ NoApprovals \in Stores /\ Idle \in Commands
  /\ GlobalFiles \subseteq MaybeFile /\ ProjectFiles \subseteq File
  BY FilesAssumption DEF Empty, File, NoApprovals, Stores, Idle, Commands, MaybeFile

\* The natural numbers have minima.
Less == {p \in Nat \X Nat : p[1] < p[2]}

LEMMA HasMinimum ==
  ASSUME NEW T, T \subseteq Nat, T # {}
  PROVE  Min(T) \in T
  <1>1. IsWellFoundedOn(Less, Nat)
    BY NatLessThanWellFounded DEF OpToRel, Less
  <1>2. PICK x \in T : \A y \in T : ~ (<<y, x>> \in Less)
    BY <1>1, WFMin
  <1>3. ASSUME NEW y \in T PROVE x <= y
    <2>1. x \in Nat /\ y \in Nat /\ ~ (<<y, x>> \in Less)
      BY <1>2
    <2> QED
      BY <2>1 DEF Less
  <1> QED
    BY <1>3 DEF Min

\* The search upward ends in a directory that has a project file, or nowhere.
LEMMA NearestFound ==
  ASSUME NEW path \in Seq(Dirs), Nearest(path) # NoDir
  PROVE  Nearest(path) \in Dirs /\ project[Nearest(path)] # NoFile
  <1> DEFINE hits == {i \in DOMAIN path : project[path[i]] # NoFile}
  <1>1. hits # {} /\ Nearest(path) = path[Min(hits)]
    BY DEF Nearest
  <1>2. hits \subseteq Nat
    OBVIOUS
  <1>3. Min(hits) \in hits
    BY <1>1, <1>2, HasMinimum
  <1> QED
    BY <1>1, <1>3

LEMMA LayersAreFiles ==
  ASSUME LaunchTypes, NEW l \in Launchers
  PROVE  /\ base[l] \in File /\ Layer(parsed[l]) \in File /\ ProjectLayer(l) \in File
         /\ CommandLine[l] \in File /\ Effective(l) \in File
         /\ ProjectLayer(l).deny = Layer(parsed[l]).deny
         /\ ProjectLayer(l).default = Layer(parsed[l]).default
         /\ ProjectLayer(l).widen \subseteq Layer(parsed[l]).widen
  <1>1. /\ base[l] \in File /\ CommandLine[l] \in File
        /\ parsed[l] # NoFile => parsed[l] \in File
    BY LaunchersAssumption DEF LaunchTypes, MaybeFile
  <1>2. /\ Layer(parsed[l]) \in File /\ ProjectLayer(l) \in File
        /\ ProjectLayer(l).deny = Layer(parsed[l]).deny
        /\ ProjectLayer(l).default = Layer(parsed[l]).default
        /\ ProjectLayer(l).widen \subseteq Layer(parsed[l]).widen
    BY <1>1, Contents DEF Layer, ProjectLayer, Stripped, File, Empty
  <1>3. \A f, g \in File : Merge(f, g) \in File
    BY DEF Merge, File
  <1> QED
    BY <1>1, <1>2, <1>3 DEF Effective

-----------------------------------------------------------------------------
(* The steps of a launch.                                                   *)

\* An approval that was backed stays so: nothing agreed to is forgotten.
LEMMA BackedStays ==
  ASSUME consented \subseteq consented', raced \subseteq raced', NEW s, Backed(s)
  PROVE  Backed(s)'
  BY DEF Backed, Agreed

\* What one launch does leaves the others as they were.
LEMMA OtherLaunches ==
  ASSUME ConfigInv, consented \subseteq consented', raced \subseteq raced', NEW l \in Launchers,
         \A o \in Launchers \ {l} :
           /\ stage'[o] = stage[o] /\ parsed'[o] = parsed[o] /\ digest'[o] = digest[o]
           /\ found'[o] = found[o] /\ approvals'[o] = approvals[o] /\ ignored'[o] = ignored[o],
         /\ stage'[l] \in {"digest", "lookup", "ask", "save"} =>
              found'[l] \in Dirs /\ parsed'[l] \in File
         /\ stage'[l] \in {"lookup", "ask", "save"} => digest'[l] \in File
         /\ Backed(approvals[l])'
         /\ stage'[l] \in {"save", "ready"} => Settled(l)'
  PROVE  LaunchInv'
  <1> SUFFICES ASSUME NEW o \in Launchers
               PROVE  /\ stage'[o] \in {"digest", "lookup", "ask", "save"} =>
                           found'[o] \in Dirs /\ parsed'[o] \in File
                      /\ stage'[o] \in {"lookup", "ask", "save"} => digest'[o] \in File
                      /\ Backed(approvals[o])'
                      /\ stage'[o] \in {"save", "ready"} => Settled(o)'
    BY DEF LaunchInv
  <1>1. CASE o = l
    BY <1>1
  <1>2. CASE o # l
    <2>1. Backed(approvals[o]) /\ (stage[o] \in {"save", "ready"} => Settled(o))
      BY DEF ConfigInv, LaunchInv
    <2>2. Backed(approvals[o])'
      BY <1>2, <2>1 DEF Backed, Agreed
    <2>3. Settled(o) => Settled(o)'
      BY <1>2 DEF Settled, ProjectLayer, HasWidenings, Agreed
    <2> QED
      BY <1>2, <2>1, <2>2, <2>3 DEF ConfigInv, LaunchInv
  <1> QED
    BY <1>1, <1>2

\* A step of a launch that touches no file, or only the trust store.
LEMMA FilesKept ==
  ASSUME ConfigInv, UNCHANGED <<global, project, user>>, store' \in Stores, Backed(store)'
  PROVE  FilesInv' /\ CommandInv'
  BY DEF ConfigInv, FilesInv, CommandInv, user, Backed, Agreed

LEMMA EndInv ==
  ASSUME ConfigInv, NEW L, End(L), consented \subseteq consented', raced \subseteq raced'
  PROVE  LaunchTypes' /\ LaunchInv'
  <1>1. LaunchTypes'
    BY Contents DEF ConfigInv, LaunchTypes, End, Stages, MaybeFile
  <1>2. ASSUME NEW l \in Launchers
        PROVE  /\ stage'[l] \in {"digest", "lookup", "ask", "save"} =>
                    found'[l] \in Dirs /\ parsed'[l] \in File
               /\ stage'[l] \in {"lookup", "ask", "save"} => digest'[l] \in File
               /\ Backed(approvals[l])'
               /\ stage'[l] \in {"save", "ready"} => Settled(l)'
    <2>1. CASE l \in L
      BY <2>1 DEF End, Backed, NoApprovals
    <2>2. CASE l \notin L
      BY <2>2 DEF End, ConfigInv, LaunchInv, Backed, Settled, ProjectLayer, HasWidenings, Agreed
    <2> QED
      BY <2>1, <2>2
  <1> QED
    BY <1>1, <1>2 DEF LaunchInv

LEMMA LoadGlobalStep ==
  ASSUME ConfigInv, NEW l \in Launchers, LoadGlobal(l)
  PROVE  ConfigInv'
  <1> USE DEF LoadGlobal, Goto, Stage, files, user, launch
  <1>1. FilesInv' /\ CommandInv'
    BY FilesKept DEF ConfigInv, FilesInv, Backed, Agreed
  <1>2. LaunchTypes'
    BY Contents DEF ConfigInv, FilesInv, LaunchTypes, Layer, MaybeFile, Stages
  <1>3. LaunchInv'
    BY OtherLaunches DEF ConfigInv, LaunchTypes, LaunchInv, Backed, Agreed
  <1> QED
    BY <1>1, <1>2, <1>3 DEF ConfigInv

LEMMA DiscoverStep ==
  ASSUME ConfigInv, NEW l \in Launchers, Discover(l)
  PROVE  ConfigInv'
  <1> USE DEF Discover, Goto, Stage, files, user, launch
  <1> DEFINE d == Nearest(UpFrom[l])
  <1>1. FilesInv' /\ CommandInv'
    BY FilesKept DEF ConfigInv, FilesInv, Backed, Agreed
  <1>2. d # NoDir => d \in Dirs /\ project[d] \in File
    BY NearestFound, LaunchersAssumption DEF ConfigInv, FilesInv, MaybeFile
  <1>3. LaunchTypes'
    BY <1>2 DEF ConfigInv, LaunchTypes, MaybeFile, Stages
  <1>4. /\ found'[l] = d /\ parsed'[l] = (IF d = NoDir THEN NoFile ELSE project[d])
        /\ stage'[l] = IF d = NoDir \/ ~HasWidenings(project[d]) THEN "ready" ELSE "digest"
    BY DEF ConfigInv, LaunchTypes
  <1>5. stage'[l] = "ready" => ~HasWidenings(ProjectLayer(l))'
    BY <1>2, <1>4 DEF ProjectLayer, HasWidenings, Empty, Stripped, File
  <1>6. LaunchInv'
    <2>1. Backed(approvals[l])'
      BY DEF ConfigInv, LaunchInv, Backed, Agreed
    <2>2. stage'[l] = "ready" => Settled(l)'
      BY <1>5 DEF Settled
    <2>3. stage'[l] \in {"ready", "digest"} /\ (stage'[l] = "digest" => d # NoDir)
      BY <1>4
    <2> HIDE DEF d
    <2> QED
      BY <1>2, <1>4, <2>1, <2>2, <2>3, OtherLaunches DEF ConfigInv, LaunchTypes
  <1> QED
    BY <1>1, <1>3, <1>6 DEF ConfigInv

LEMMA ReadDigestStep ==
  ASSUME ConfigInv, NEW l \in Launchers, ReadDigest(l)
  PROVE  ConfigInv'
  <1> USE DEF ReadDigest, Goto, Stage, files, user, launch
  <1>1. FilesInv' /\ CommandInv'
    BY FilesKept DEF ConfigInv, FilesInv, Backed, Agreed
  <1>2. LaunchTypes'
    BY DEF ConfigInv, FilesInv, LaunchTypes, LaunchInv, Stages
  <1>3. LaunchInv'
    BY OtherLaunches DEF ConfigInv, FilesInv, LaunchTypes, LaunchInv, Backed, Agreed, MaybeFile
  <1> QED
    BY <1>1, <1>2, <1>3 DEF ConfigInv

LEMMA DiesStep ==
  ASSUME ConfigInv, NEW l \in Launchers, DigestFails(l) \/ LaunchDies(l)
  PROVE  ConfigInv'
  <1> USE DEF DigestFails, LaunchDies, files, user
  <1>1. FilesInv' /\ CommandInv'
    BY FilesKept DEF ConfigInv, FilesInv, Backed, Agreed
  <1>2. LaunchTypes' /\ LaunchInv'
    BY EndInv
  <1> QED
    BY <1>1, <1>2 DEF ConfigInv

\* What the store approves was agreed to; otherwise the launch takes a copy.
LEMMA LookUpStep ==
  ASSUME ConfigInv, NEW l \in Launchers, LookUp(l)
  PROVE  ConfigInv'
  <1> USE DEF LookUp, Goto, Stage, files, user, launch
  <1>1. FilesInv' /\ CommandInv'
    BY FilesKept DEF ConfigInv, FilesInv, Backed, Agreed
  <1>2. LaunchTypes'
    BY DEF ConfigInv, FilesInv, LaunchTypes, Stages
  <1>3. IsApproved(store, found[l], digest[l]) =>
          <<found[l], digest[l]>> \in Agreed
    BY Contents DEF ConfigInv, FilesInv, LaunchInv, IsApproved, Backed
  <1>4. LaunchInv'
    <2>1. Backed(approvals[l])'
      BY DEF ConfigInv, FilesInv, LaunchTypes, LaunchInv, Backed, Agreed
    <2>2. stage'[l] = "ready" => Settled(l)'
      BY <1>3 DEF ConfigInv, LaunchTypes, Settled, Agreed
    <2>3. stage'[l] \in {"ready", "ask"} /\ digest[l] \in File
          /\ found[l] \in Dirs /\ parsed[l] \in File
      BY DEF ConfigInv, LaunchTypes, LaunchInv
    <2> QED
      BY <2>1, <2>2, <2>3, OtherLaunches DEF ConfigInv, LaunchTypes
  <1> QED
    BY <1>1, <1>2, <1>4 DEF ConfigInv

\* The approval that goes into the launch's copy is recorded as it goes in.
LEMMA ApproveStep ==
  ASSUME ConfigInv, NEW l \in Launchers, Approve(l)
  PROVE  ConfigInv'
  <1> USE DEF Approve, Goto, Stage, Record
  <1>1. /\ found[l] \in Dirs /\ parsed[l] \in File /\ digest[l] \in File
        /\ consented \subseteq consented' /\ raced \subseteq raced'
        /\ {<<found[l], parsed[l]>>, <<found[l], digest[l]>>} \subseteq Agreed'
    BY DEF ConfigInv, LaunchInv, Agreed
  <1>2. FilesInv'
    <2>1. Backed(store)'
      BY DEF Backed, NoApprovals
    <2> QED
      BY <1>1, <2>1, Contents DEF ConfigInv, FilesInv
  <1>3. CommandInv'
    BY <1>1 DEF ConfigInv, CommandInv, Backed, Agreed
  <1>4. LaunchTypes'
    BY <1>1 DEF ConfigInv, LaunchTypes, MaybeFile, Stores, Stages
  <1>5. LaunchInv'
    <2>1. Backed(approvals[l])'
      BY <1>1 DEF ConfigInv, LaunchTypes, LaunchInv, Backed, Agreed, Stores
    <2> QED
      BY <1>1, <2>1, OtherLaunches
      DEF ConfigInv, LaunchTypes, LaunchInv, Settled
  <1> QED
    BY <1>2, <1>3, <1>4, <1>5 DEF ConfigInv

LEMMA SaveStoreStep ==
  ASSUME ConfigInv, NEW l \in Launchers, SaveStore(l)
  PROVE  ConfigInv'
  <1> USE DEF SaveStore, Goto, Stage, Forget, user
  <1>1. store' \in Stores /\ Backed(store)'
    BY DEF ConfigInv, LaunchTypes, LaunchInv, Backed, Agreed
  <1>2. FilesInv' /\ CommandInv'
    BY <1>1, FilesKept
  <1>3. LaunchTypes'
    BY Contents DEF ConfigInv, LaunchTypes, Stages
  <1>4. LaunchInv'
    <2>1. Backed(approvals[l])'
      BY DEF ConfigInv, LaunchTypes, Backed, NoApprovals
    <2>2. Settled(l)'
      BY DEF ConfigInv, LaunchInv, Settled, ProjectLayer, HasWidenings, Agreed
    <2> QED
      BY <2>1, <2>2, OtherLaunches DEF ConfigInv, LaunchTypes
  <1> QED
    BY <1>2, <1>3, <1>4 DEF ConfigInv

\* Stripped, the file widens nothing.
LEMMA IgnoreStep ==
  ASSUME ConfigInv, NEW l \in Launchers, Ignore(l)
  PROVE  ConfigInv'
  <1> USE DEF Ignore, Goto, Stage, Forget, files, user
  <1>1. FilesInv' /\ CommandInv'
    BY FilesKept DEF ConfigInv, FilesInv, Backed, Agreed
  <1>2. LaunchTypes'
    BY Contents DEF ConfigInv, LaunchTypes, Stages
  <1>3. LaunchInv'
    <2>1. Backed(approvals[l])'
      BY DEF ConfigInv, LaunchTypes, Backed, NoApprovals
    <2>2. Settled(l)'
      BY DEF ConfigInv, LaunchTypes, LaunchInv, Settled, ProjectLayer, HasWidenings, Stripped,
             Empty, File
    <2> QED
      BY <2>1, <2>2, OtherLaunches DEF ConfigInv, LaunchTypes
  <1> QED
    BY <1>1, <1>2, <1>3 DEF ConfigInv

LEMMA LaunchStep ==
  ASSUME ConfigInv, NEW l \in Launchers, Launch(l)
  PROVE  ConfigInv'
  BY LoadGlobalStep, DiscoverStep, ReadDigestStep, DiesStep, LookUpStep, ApproveStep,
     SaveStoreStep, IgnoreStep
  DEF Launch

-----------------------------------------------------------------------------
(* The user's commands and the environment.                                 *)

\* No launch moves while they act, and nothing agreed to is forgotten.
LEMMA LaunchesKept ==
  ASSUME ConfigInv, UNCHANGED launch, consented \subseteq consented', raced \subseteq raced'
  PROVE  LaunchTypes' /\ LaunchInv'
  BY DEF ConfigInv, LaunchTypes, LaunchInv, launch, Backed, Settled, ProjectLayer, HasWidenings,
         Agreed

LEMMA CheckoutStep ==
  ASSUME ConfigInv, NEW d \in Dirs, NEW f \in ProjectFiles \cup {NoFile}, Checkout(d, f)
  PROVE  ConfigInv'
  <1> USE DEF Checkout, Spend
  <1>1. FilesInv' /\ CommandInv'
    BY Contents, BudgetAssumption
    DEF ConfigInv, FilesInv, CommandInv, MaybeFile, Backed, Agreed
  <1> QED
    BY <1>1, LaunchesKept DEF ConfigInv

LEMMA StartTrustStep ==
  ASSUME ConfigInv, NEW op \in {"trust", "revoke"}, NEW d \in Dirs, StartTrust(op, d)
  PROVE  ConfigInv'
  <1> USE DEF StartTrust, Spend, files
  <1>1. FilesInv'
    BY BudgetAssumption DEF ConfigInv, FilesInv, Backed, Agreed
  <1>2. CommandInv'
    <2>1. command' = [op |-> op, step |-> "load", dir |-> d, file |-> NoFile, pinned |-> NoFile,
                      store |-> <<>>]
      BY DEF Idle
    <2>2. op = "trust" \/ op = "revoke"
      OBVIOUS
    <2>3. command' \in Commands
      BY <2>1, <2>2 DEF Commands, MaybeFile
    <2> HIDE DEF StartTrust
    <2>4. /\ command'.op = op /\ command'.step = "load" /\ command'.dir = d
          /\ command'.pinned = NoFile
      BY <2>1
    <2> QED
      BY <2>2, <2>3, <2>4 DEF CommandInv
  <1> QED
    BY <1>1, <1>2, LaunchesKept DEF ConfigInv

LEMMA StartProjectSaveStep ==
  ASSUME ConfigInv, NEW d \in Dirs, NEW f \in ProjectFiles, StartProjectSave(d, f)
  PROVE  ConfigInv'
  <1> USE DEF StartProjectSave, Spend
  <1>1. FilesInv'
    BY Contents, BudgetAssumption DEF ConfigInv, FilesInv, MaybeFile, Backed, Agreed
  <1>2. CommandInv'
    <2>1. command' = [op |-> "project", step |-> "write", dir |-> d, file |-> f,
                      pinned |-> NoFile, store |-> <<>>]
      BY DEF Idle
    <2> QED
      BY <2>1, Contents DEF CommandInv, Commands, MaybeFile
  <1> QED
    BY <1>1, <1>2, LaunchesKept DEF ConfigInv

LEMMA StartGlobalSaveStep ==
  ASSUME ConfigInv, NEW f \in GlobalFiles \ {NoFile}, StartGlobalSave(f)
  PROVE  ConfigInv'
  <1> USE DEF StartGlobalSave, Spend
  <1>1. FilesInv'
    BY Contents, BudgetAssumption DEF ConfigInv, FilesInv, MaybeFile, Backed, Agreed
  <1>2. CommandInv'
    <2>1. command' = [op |-> "global", step |-> "write", dir |-> NoDir, file |-> f,
                      pinned |-> NoFile, store |-> <<>>]
      BY DEF Idle
    <2> QED
      BY <2>1, Contents DEF CommandInv, Commands, MaybeFile
  <1> QED
    BY <1>1, <1>2, LaunchesKept DEF ConfigInv

LEMMA WriteStep ==
  ASSUME ConfigInv, WriteGlobal \/ WriteProject \/ CommandDies
  PROVE  ConfigInv'
  <1> USE DEF At, files
  <1>1. FilesInv'
    BY DEF WriteGlobal, WriteProject, CommandDies, ConfigInv, FilesInv, CommandInv, MaybeFile,
           Backed, Agreed
  <1>2. CommandInv'
    <2>1. CASE command' = Idle
      BY <2>1, Contents DEF CommandInv, Idle
    <2>2. CASE WriteProject /\ command' = [command EXCEPT !.step = "digest"]
      BY <2>2 DEF WriteProject, ConfigInv, CommandInv, Commands
    <2> QED
      BY <2>1, <2>2 DEF WriteGlobal, WriteProject, CommandDies
  <1> QED
    BY <1>1, <1>2, LaunchesKept DEF ConfigInv, WriteGlobal, WriteProject, CommandDies

LEMMA ReadPinnedStep ==
  ASSUME ConfigInv, ReadPinned
  PROVE  ConfigInv'
  <1> USE DEF At, files, ReadPinned
  <1> DEFINE f == project[command.dir]
  <1>1. FilesInv'
    BY DEF ConfigInv, FilesInv, Backed, Agreed
  <1>2. f # NoFile => f \in File
    BY DEF ConfigInv, FilesInv, CommandInv, MaybeFile
  <1>3. CommandInv'
    <2>1. CASE f = NoFile
      BY <2>1, Contents DEF CommandInv, Idle
    <2>2. CASE f # NoFile /\ command.op = "trust"
      <3>1. command' = [command EXCEPT !.step = "truncate", !.file = f, !.pinned = f]
        BY <2>2
      <3>2. command.store \in Stores /\ Backed(command.store)
        BY <2>2 DEF ConfigInv, CommandInv
      <3> QED
        BY <1>2, <2>2, <3>1, <3>2
        DEF ConfigInv, CommandInv, Commands, MaybeFile, Backed, Agreed
    <2>3. CASE f # NoFile /\ command.op # "trust"
      <3>1. command' = [command EXCEPT !.step = "load", !.pinned = f]
        BY <2>3
      <3> QED
        BY <1>2, <2>3, <3>1 DEF ConfigInv, CommandInv, Commands, MaybeFile
    <2> QED
      BY <2>1, <2>2, <2>3
  <1> QED
    BY <1>1, <1>3, LaunchesKept DEF ConfigInv

LEMMA LoadStoreStep ==
  ASSUME ConfigInv, LoadStore
  PROVE  ConfigInv'
  <1> USE DEF At, files, LoadStore
  <1>1. FilesInv'
    BY DEF ConfigInv, FilesInv, Backed, Agreed
  <1>2. CommandInv'
    <2>1. CASE command.op = "trust"
      BY <2>1 DEF ConfigInv, FilesInv, CommandInv, Commands, Backed, Agreed
    <2>2. CASE command.op = "project"
      BY <2>2 DEF ConfigInv, FilesInv, CommandInv, Commands, Backed, Agreed
    <2>3. CASE command.op = "revoke" /\ store[command.dir] = NoFile
      BY <2>3, Contents DEF CommandInv, Idle
    <2>4. CASE command.op = "revoke" /\ store[command.dir] # NoFile
      BY <2>4 DEF ConfigInv, FilesInv, CommandInv, Commands, Backed, Agreed
    <2> QED
      BY <2>1, <2>2, <2>3, <2>4 DEF ConfigInv, CommandInv
  <1> QED
    BY <1>1, <1>2, LaunchesKept DEF ConfigInv

\* The consent is on record before the approval is in the file.
LEMMA TruncateStoreStep ==
  ASSUME ConfigInv, TruncateStore
  PROVE  ConfigInv'
  <1> USE DEF At, TruncateStore, Record
  <1>1. /\ consented \subseteq consented' /\ raced \subseteq raced'
        /\ consented' \subseteq Dirs \X File /\ raced' \subseteq Dirs \X File
        /\ command.op # "revoke" => <<command.dir, command.pinned>> \in Agreed'
    BY DEF ConfigInv, FilesInv, CommandInv, Agreed
  <1>2. FilesInv'
    BY <1>1, Contents DEF ConfigInv, FilesInv, Backed, NoApprovals
  <1>3. CommandInv'
    <2>1. Backed(command.store)'
      BY <1>1 DEF ConfigInv, CommandInv, Commands, Backed, Agreed
    <2> QED
      BY <1>1, <2>1 DEF ConfigInv, CommandInv, Commands
  <1> QED
    BY <1>1, <1>2, <1>3, LaunchesKept DEF ConfigInv

LEMMA WriteStoreStep ==
  ASSUME ConfigInv, WriteStore
  PROVE  ConfigInv'
  <1> USE DEF At, WriteStore
  <1>1. store' \in Stores /\ Backed(store)'
    BY DEF ConfigInv, CommandInv, Commands, Backed, Agreed, Stores, MaybeFile
  <1>2. FilesInv' /\ CommandInv'
    BY <1>1, Contents DEF ConfigInv, FilesInv, CommandInv, Idle
  <1> QED
    BY <1>2, LaunchesKept DEF ConfigInv

-----------------------------------------------------------------------------
(* The invariant and what follows from it.                                  *)

LEMMA ConfigInitInv == Init => ConfigInv
  <1> SUFFICES ASSUME Init PROVE ConfigInv
    OBVIOUS
  <1> USE DEF Init
  <1>1. FilesInv
    BY Contents, BudgetAssumption DEF FilesInv, MaybeFile, Backed, NoApprovals
  <1>2. CommandInv
    BY Contents DEF CommandInv, Idle
  <1>3. LaunchTypes
    BY Contents DEF LaunchTypes, MaybeFile, Stages
  <1>4. LaunchInv
    BY DEF LaunchInv, Backed, NoApprovals
  <1> QED
    BY <1>1, <1>2, <1>3, <1>4 DEF ConfigInv

LEMMA ConfigNextInv ==
  ASSUME ConfigInv, [ConfigNext]_vars
  PROVE  ConfigInv'
  <1>1. CASE \E l \in Launchers : Launch(l)
    BY <1>1, LaunchStep
  <1>2. CASE User
    BY <1>2, StartTrustStep, StartProjectSaveStep, StartGlobalSaveStep, WriteStep,
       ReadPinnedStep, LoadStoreStep, TruncateStoreStep, WriteStoreStep
    DEF User
  <1>3. CASE Environment
    BY <1>3, CheckoutStep DEF Environment
  <1>4. CASE UNCHANGED vars
    BY <1>4 DEF vars, files, launch, user, ConfigInv, FilesInv, CommandInv, LaunchTypes, LaunchInv,
                Backed, Settled, ProjectLayer, HasWidenings, Agreed
  <1> QED
    BY <1>1, <1>2, <1>3, <1>4 DEF ConfigNext

\* Whatever the trust store holds, or a process has loaded of it and may yet
\* write back, was agreed to or raced (config.rs, TrustStore).
THEOREM ConfigInvariance == ConfigSpec => []ConfigInv
  BY ConfigInitInv, ConfigNextInv, PTL DEF ConfigSpec

\* A ready launch applies widenings nobody agreed to only after a race.
LEMMA ConsentHolds ==
  ASSUME ConfigInv
  PROVE  WideningsConsented
  BY DEF ConfigInv, LaunchInv, Settled, Ready, Stage, WideningsConsented, Agreed

\* The layers' denies and a default "deny" survive the merge.
LEMMA TighteningsHold ==
  ASSUME LaunchTypes
  PROVE  TighteningsApply
  <1> SUFFICES ASSUME NEW l \in Launchers
               PROVE  LET layers == {base[l], Layer(parsed[l]), CommandLine[l]}
                          permitted == Permitted(Effective(l)) IN
                      /\ \A f \in layers : permitted \cap f.deny = {}
                      /\ Layer(parsed[l]).default = "deny" /\ CommandLine[l].default = "unset"
                         => permitted \subseteq UNION {f.widen : f \in layers}
    BY DEF TighteningsApply
  <1> DEFINE layers == {base[l], Layer(parsed[l]), CommandLine[l]}
  <1>1. /\ Effective(l).deny = (base[l].deny \cup ProjectLayer(l).deny) \cup CommandLine[l].deny
        /\ Effective(l).widen = (base[l].widen \cup ProjectLayer(l).widen) \cup CommandLine[l].widen
        /\ ProjectLayer(l).default = "deny" /\ CommandLine[l].default = "unset"
           => Effective(l).default = "deny"
    BY LayersAreFiles DEF Effective, Merge, File
  <1>2. \A f \in layers : Permitted(Effective(l)) \cap f.deny = {}
    BY <1>1, LayersAreFiles DEF Permitted
  <1>3. ASSUME Layer(parsed[l]).default = "deny", CommandLine[l].default = "unset"
        PROVE  Permitted(Effective(l)) \subseteq UNION {f.widen : f \in layers}
    <2>1. Permitted(Effective(l)) \subseteq Effective(l).widen
      BY <1>1, <1>3, LayersAreFiles DEF Permitted
    <2>2. Effective(l).widen \subseteq
            (base[l].widen \cup Layer(parsed[l]).widen) \cup CommandLine[l].widen
      BY <1>1, LayersAreFiles
    <2> QED
      BY <2>1, <2>2
  <1> QED
    BY <1>2, <1>3

\* Destinations a project file opens take part in a launch only by the user's
\* consent to that file, or by a rewrite between two reads.
THEOREM WideningsAreConsented == ConfigSpec => []WideningsConsented
  BY ConfigInvariance, ConsentHolds, PTL

\* What a layer forbids stays forbidden, whichever layer says otherwise.
THEOREM TighteningsAlwaysApply == ConfigSpec => []TighteningsApply
  <1>1. ConfigInv => TighteningsApply
    BY TighteningsHold DEF ConfigInv
  <1> QED
    BY <1>1, ConfigInvariance, PTL

LEMMA ConfigTyped ==
  ASSUME ConfigInv
  PROVE  TypeOK
  BY DEF ConfigInv, FilesInv, CommandInv, Commands, LaunchTypes, Stores, TypeOK

-------------------------------------------------------------------------------
(* The pipeline.  The argument carries the policy along.  What a launch has *)
(* merged stays as it is from "ready" on; a spec that names a policy was    *)
(* written for a helper that knows policies, and later helpers know them    *)
(* too; and every agent at work is a member of the lease, whose members     *)
(* share the rules in force.                                                *)

SpecsSent == [version : {0, PolicyVersion}, policy : Policies \cup {NoFile}]
Places == {"config", "probe", "request", "running", "ended", "refused", "orphaned"}

ServerInv ==
  /\ helper \in DOMAIN Builds \cup {NoHelper} /\ installed \in DOMAIN Builds
  /\ helper # NoHelper => helper = installed

PlacesInv ==
  /\ at \in [Launchers -> Places] /\ spec \in [Launchers -> SpecsSent]
  /\ enforced \in [Launchers -> Policies \cup {NoFile}]

\* The default policy goes out unsaid; another only to a helper that takes it.
Negotiated(l) ==
  \/ spec[l] = NoSpec /\ Policy(Effective(l)) = DefaultPolicy
  \/ /\ spec[l] = [version |-> PolicyVersion, policy |-> Policy(Effective(l))]
     /\ Builds[installed].policy

Served(l) ==
  /\ at[l] \in {"probe", "request", "running"} => Ready(l)
  /\ at[l] \in {"config", "probe"} => spec[l] = NoSpec
  /\ at[l] = "request" => Negotiated(l)
  /\ at[l] = "running" =>
       enforced[l] = Policy(Effective(l)) /\ <<l, enforced[l]>> \in members[Me]

LeaseInv == Lease!TypeOK /\ Lease!Guarded

PipelineInv ==
  /\ ConfigInv /\ ServerInv /\ PlacesInv
  /\ \A l \in Launchers : Served(l)
  /\ LeaseInv

-------------------------------------------------------------------------------
(* What a launch has merged.                                                *)

LEMMA PoliciesAreFiles ==
  /\ Policies \subseteq File /\ NoFile \notin Policies /\ DefaultPolicy \in Policies
  /\ \A f \in File : Policy(f) \in Policies
  /\ NoSpec \in SpecsSent
  BY FilesAssumption
  DEF Policies, Policy, DefaultPolicy, Empty, File, NoSpec, SpecsSent, PolicyVersion

LEMMA MergedPolicy ==
  ASSUME PipelineInv, NEW l \in Launchers
  PROVE  Policy(Effective(l)) \in Policies
  BY LayersAreFiles, PoliciesAreFiles DEF PipelineInv, ConfigInv

\* No step of the configuration moves a launch that is ready.
LEMMA ReadyStays ==
  ASSUME ConfigInv, [ConfigNext]_vars, NEW l \in Launchers, Ready(l)
  PROVE  Ready(l)' /\ Effective(l)' = Effective(l)
  <1> DEFINE Still == /\ stage'[l] = stage[l] /\ base'[l] = base[l] /\ parsed'[l] = parsed[l]
                      /\ ignored'[l] = ignored[l]
  <1>1. Still
    <2>1. ASSUME NEW o \in Launchers, Launch(o)
          PROVE  Still
      <3> USE DEF ConfigInv, LaunchTypes, Ready, Stage, Goto, launch, user, files
      <3>1. CASE DigestFails(o) \/ LaunchDies(o)
        BY <3>1 DEF DigestFails, LaunchDies, End
      <3>2. CASE LoadGlobal(o) \/ Discover(o) \/ ReadDigest(o) \/ LookUp(o)
        BY <3>2 DEF LoadGlobal, Discover, ReadDigest, LookUp
      <3>3. CASE Approve(o) \/ SaveStore(o) \/ Ignore(o)
        BY <3>3 DEF Approve, SaveStore, Ignore
      <3> QED
        BY <2>1, <3>1, <3>2, <3>3 DEF Launch
    <2>2. CASE User \/ Environment
      <3>1. UNCHANGED launch
        BY <2>2 DEF User, Environment, Checkout, StartTrust, StartProjectSave, StartGlobalSave,
                    WriteGlobal, WriteProject, ReadPinned, LoadStore, TruncateStore, WriteStore,
                    CommandDies
      <3> QED
        BY <3>1 DEF launch
    <2>3. CASE UNCHANGED vars
      BY <2>3 DEF vars, launch
    <2> HIDE DEF Still
    <2> QED
      BY <2>1, <2>2, <2>3 DEF ConfigNext
  <1> QED
    BY <1>1 DEF Ready, Stage, Effective, ProjectLayer

\* Nor does the end of others.
LEMMA OthersEnd ==
  ASSUME NEW L, End(L), NEW l \in Launchers \ L
  PROVE  /\ Ready(l)' <=> Ready(l)
         /\ Effective(l)' = Effective(l)
  BY DEF End, Ready, Stage, Effective, ProjectLayer

\* A launch that stays where it is, with what it has, is served as before.
LEMMA ServedStays ==
  ASSUME NEW l \in Launchers, Served(l), at'[l] = at[l], spec'[l] = spec[l],
         at[l] \in {"probe", "request", "running"} =>
           Ready(l)' /\ Effective(l)' = Effective(l),
         at[l] = "request" => (Builds[installed].policy => Builds[installed'].policy),
         at[l] = "running" =>
           enforced'[l] = enforced[l] /\ <<l, enforced[l]>> \in members'[Me]
  PROVE  Served(l)'
  BY DEF Served, Negotiated

-------------------------------------------------------------------------------
(* One lemma per action.                                                    *)

LEMMA ConfigStep ==
  ASSUME PipelineInv, [ConfigNext]_vars, UNCHANGED pipeline
  PROVE  PipelineInv'
  <1> USE DEF PipelineInv, pipeline, server
  <1>1. ConfigInv'
    BY ConfigNextInv
  <1>2. ServerInv' /\ PlacesInv' /\ LeaseInv'
    BY DEF ServerInv, PlacesInv, LeaseInv, Lease!TypeOK, Lease!Guarded
  <1>3. ASSUME NEW l \in Launchers PROVE Served(l)'
    <2>1. at[l] \in {"probe", "request", "running"} => Ready(l)' /\ Effective(l)' = Effective(l)
      BY ReadyStays DEF Served
    <2> QED
      BY <2>1, ServedStays DEF Served
  <1> QED
    BY <1>1, <1>2, <1>3

\* A launch moves on its own: the helper, the members and the files stay.
LEMMA AskStep ==
  ASSUME PipelineInv, NEW l \in Launchers, Prepare(l) \/ Probe(l)
  PROVE  PipelineInv'
  <1>1. /\ UNCHANGED <<vars, server, enforced, members, rules>>
        /\ Ready(l) /\ at' = [at EXCEPT ![l] = at'[l]] /\ at'[l] \in {"probe", "request"}
        /\ spec' = [spec EXCEPT ![l] = spec'[l]] /\ spec'[l] \in SpecsSent
        /\ at'[l] = "probe" => spec'[l] = NoSpec
        /\ at'[l] = "request" =>
             \/ spec'[l] = NoSpec /\ Policy(Effective(l)) = DefaultPolicy
             \/ /\ spec'[l] = [version |-> PolicyVersion, policy |-> Policy(Effective(l))]
                /\ Builds[installed].policy
    <2>1. CASE Prepare(l)
      BY <2>1 DEF Prepare, PipelineInv, PlacesInv, Served
    <2>2. CASE Probe(l)
      <3>1. Ready(l) /\ helper = installed /\ Builds[installed].policy
        BY <2>2 DEF Probe, Step, SupportsPolicy, PipelineInv, ServerInv, Served
      <3>2. [version |-> PolicyVersion, policy |-> Policy(Effective(l))] \in SpecsSent
        BY MergedPolicy DEF SpecsSent
      <3> QED
        BY <2>2, <3>1, <3>2 DEF Probe, Step, PipelineInv, PlacesInv
    <2> QED
      BY <2>1, <2>2
  <1>2. ConfigInv' /\ ServerInv' /\ PlacesInv' /\ LeaseInv'
    <2>1. ConfigInv'
      BY <1>1, ConfigNextInv DEF PipelineInv
    <2> QED
      BY <1>1, <2>1
      DEF PipelineInv, server, ServerInv, PlacesInv, Places, LeaseInv, Lease!TypeOK, Lease!Guarded
  <1>3. \A o \in Launchers : (Ready(o)' <=> Ready(o)) /\ Effective(o)' = Effective(o)
    BY <1>1 DEF vars, launch, Ready, Stage, Effective, ProjectLayer
  <1>4. ASSUME NEW o \in Launchers PROVE Served(o)'
    <2>1. CASE o = l
      <3>1. at'[l] = "request" => Negotiated(l)'
        BY <1>1, <1>3 DEF Negotiated, server
      <3> QED
        BY <1>1, <1>3, <2>1, <3>1 DEF Served, PipelineInv, PlacesInv
    <2>2. CASE o # l
      <3>1. at'[o] = at[o] /\ spec'[o] = spec[o]
        BY <1>1, <2>2 DEF PipelineInv, PlacesInv
      <3> QED
        BY <1>1, <1>3, <3>1, ServedStays DEF PipelineInv, Served, server
    <2> QED
      BY <2>1, <2>2
  <1> QED
    BY <1>2, <1>4 DEF PipelineInv

\* Launches that end, refused or with their agent; the others go on.
LEMMA LeaveInv ==
  ASSUME PipelineInv, NEW L, Leave(L), budget' \in 0..MaxEvents
  PROVE  /\ ConfigInv'
         /\ spec' \in [Launchers -> SpecsSent]
         /\ \A o \in Launchers \ L :
              spec'[o] = spec[o] /\ (Ready(o)' <=> Ready(o)) /\ Effective(o)' = Effective(o)
  <1>1. LaunchTypes' /\ LaunchInv'
    BY EndInv DEF Leave, PipelineInv
  <1>2. FilesInv' /\ CommandInv'
    BY DEF Leave, files, PipelineInv, ConfigInv, FilesInv, CommandInv, Backed, Agreed
  <1>3. spec' \in [Launchers -> SpecsSent]
    BY PoliciesAreFiles DEF Leave, PipelineInv, PlacesInv
  <1>4. \A o \in Launchers \ L : spec'[o] = spec[o]
    BY DEF Leave
  <1> QED
    BY <1>1, <1>2, <1>3, <1>4, OthersEnd DEF Leave, ConfigInv

LEMMA RefusedStep ==
  ASSUME PipelineInv, NEW l \in Launchers, ProbeFails(l) \/ RunRefused(l)
  PROVE  PipelineInv'
  <1>1. /\ Leave({l}) /\ UNCHANGED <<budget, server, enforced, members, rules>>
        /\ at' = [at EXCEPT ![l] = "refused"]
    BY DEF ProbeFails, RunRefused, Step
  <1>2. budget' \in 0..MaxEvents
    BY <1>1 DEF PipelineInv, ConfigInv, FilesInv
  <1>3. ServerInv' /\ PlacesInv' /\ LeaseInv'
    BY <1>1, <1>2, LeaveInv
    DEF PipelineInv, server, ServerInv, PlacesInv, Places, LeaseInv, Lease!TypeOK, Lease!Guarded
  <1>4. ASSUME NEW o \in Launchers PROVE Served(o)'
    <2>1. CASE o = l
      BY <1>1, <2>1 DEF Served, PipelineInv, PlacesInv
    <2>2. CASE o # l
      <3>1. at'[o] = at[o] /\ spec'[o] = spec[o] /\ (Ready(o)' <=> Ready(o))
            /\ Effective(o)' = Effective(o)
        BY <1>1, <1>2, <2>2, LeaveInv DEF PipelineInv, PlacesInv
      <3> QED
        BY <1>1, <3>1, ServedStays DEF PipelineInv, Served, server
    <2> QED
      BY <2>1, <2>2
  <1> QED
    BY <1>1, <1>2, <1>3, <1>4, LeaveInv DEF PipelineInv

\* What a helper makes of a spec is the policy the launch merged.
LEMMA UnderstoodAsMerged ==
  ASSUME PipelineInv, NEW l \in Launchers, at[l] = "request", helper # NoHelper
  PROVE  Understood(Builds[helper], spec[l]) = Policy(Effective(l))
  <1>1. Negotiated(l) /\ helper = installed
    BY DEF PipelineInv, Served, ServerInv
  <1>2. CASE spec[l] = NoSpec /\ Policy(Effective(l)) = DefaultPolicy
    BY <1>2 DEF Understood, NoSpec
  <1>3. CASE /\ spec[l] = [version |-> PolicyVersion, policy |-> Policy(Effective(l))]
             /\ Builds[installed].policy
    BY <1>1, <1>3, MergedPolicy, PoliciesAreFiles DEF Understood
  <1> QED
    BY <1>1, <1>2, <1>3 DEF Negotiated

\* The new agent and the members before it share one policy.
LEMMA RunStep ==
  ASSUME PipelineInv, NEW l \in Launchers, Run(l)
  PROVE  PipelineInv'
  <1> DEFINE p == Policy(Effective(l))
  <1>1. /\ at[l] = "request" /\ Ready(l) /\ p \in Policies
        /\ UNCHANGED <<vars, server, spec>> /\ at' = [at EXCEPT ![l] = "running"]
        /\ enforced' = [enforced EXCEPT ![l] = p]
        /\ members' = [members EXCEPT ![Me] = @ \cup {<<l, p>>}]
        /\ rules' = [rules EXCEPT ![Me] = p]
        /\ \A m \in members[Me] : m[2] = p
    BY UnderstoodAsMerged, MergedPolicy
    DEF Run, Grantable, Joinable, Step, Lease!Enter, PipelineInv, Served
  <1> HIDE DEF p
  <1>2. ConfigInv' /\ ServerInv'
    BY <1>1, ConfigNextInv DEF PipelineInv, server, ServerInv
  <1>3. PlacesInv'
    BY <1>1 DEF PipelineInv, PlacesInv, Places
  <1>4. LeaseInv'
    <2>1. /\ members'[Me] = members[Me] \cup {<<l, p>>} /\ rules'[Me] = p
          /\ members'[Me] \subseteq Lease!Member
      BY <1>1 DEF PipelineInv, LeaseInv, Lease!TypeOK, Lease!Member
    <2>2. Lease!TypeOK'
      BY <1>1, <2>1 DEF PipelineInv, LeaseInv, Lease!TypeOK, Lease!Member
    <2>3. Lease!Guarded'
      BY <1>1, <2>1 DEF Lease!Guarded
    <2> QED
      BY <2>2, <2>3 DEF LeaseInv
  <1>5. \A o \in Launchers : (Ready(o)' <=> Ready(o)) /\ Effective(o)' = Effective(o)
    BY <1>1 DEF vars, launch, Ready, Stage, Effective, ProjectLayer
  <1>6. ASSUME NEW o \in Launchers PROVE Served(o)'
    <2>1. members[Me] \subseteq members'[Me] /\ <<l, p>> \in members'[Me]
      BY <1>1 DEF PipelineInv, LeaseInv, Lease!TypeOK
    <2>2. CASE o = l
      <3>1. at'[l] = "running" /\ enforced'[l] = Policy(Effective(l))'
        BY <1>1, <1>5 DEF PipelineInv, PlacesInv, Policy, p
      <3> QED
        BY <1>1, <1>5, <2>1, <2>2, <3>1 DEF Served, PipelineInv, PlacesInv, p
    <2>3. CASE o # l
      <3>1. at'[o] = at[o] /\ spec'[o] = spec[o] /\ enforced'[o] = enforced[o]
        BY <1>1, <2>3 DEF PipelineInv, PlacesInv
      <3> QED
        BY <1>1, <1>5, <2>1, <3>1, ServedStays DEF PipelineInv, Served, server
    <2> QED
      BY <2>2, <2>3
  <1> QED
    BY <1>2, <1>3, <1>4, <1>6 DEF PipelineInv

\* Another agent of the user is still a member, and then the rules stay.
LEMMA AgentExitsStep ==
  ASSUME PipelineInv, NEW l \in Launchers, AgentExits(l)
  PROVE  PipelineInv'
  <1> DEFINE m == <<l, enforced[l]>>
  <1>1. /\ Leave({l}) /\ UNCHANGED <<budget, server>>
        /\ at' = [at EXCEPT ![l] = "ended"]
        /\ enforced' = [enforced EXCEPT ![l] = NoFile]
        /\ members' = [members EXCEPT ![Me] = @ \ {m}]
        /\ rules' = [rules EXCEPT ![Me] = IF members[Me] = {m} THEN NoRules ELSE @]
    BY DEF AgentExits, Step, Lease!Leave
  <1> HIDE DEF m
  <1>2. budget' \in 0..MaxEvents
    BY <1>1 DEF PipelineInv, ConfigInv, FilesInv
  <1>3. ServerInv' /\ PlacesInv'
    BY <1>1, <1>2, LeaveInv DEF PipelineInv, server, ServerInv, PlacesInv, Places
  <1>4. members'[Me] = members[Me] \ {m}
    BY <1>1 DEF PipelineInv, LeaseInv, Lease!TypeOK
  <1>5. LeaseInv'
    <2>1. Lease!TypeOK'
      BY <1>1, <1>4 DEF PipelineInv, LeaseInv, Lease!TypeOK
    <2>2. members'[Me] # {} => rules'[Me] = rules[Me]
      BY <1>1, <1>4 DEF PipelineInv, LeaseInv, Lease!TypeOK
    <2>3. Lease!Guarded'
      BY <1>4, <2>2 DEF PipelineInv, LeaseInv, Lease!Guarded
    <2> QED
      BY <2>1, <2>3 DEF LeaseInv
  <1>6. ASSUME NEW o \in Launchers PROVE Served(o)'
    <2>1. CASE o = l
      BY <1>1, <2>1 DEF Served, PipelineInv, PlacesInv
    <2>2. CASE o # l
      <3>1. /\ at'[o] = at[o] /\ spec'[o] = spec[o] /\ (Ready(o)' <=> Ready(o))
            /\ Effective(o)' = Effective(o)
        BY <1>1, <1>2, <2>2, LeaveInv DEF PipelineInv, PlacesInv
      <3>2. /\ enforced'[o] = enforced[o]
            /\ <<o, enforced[o]>> \in members[Me] => <<o, enforced[o]>> \in members'[Me]
        BY <1>1, <1>4, <2>2 DEF PipelineInv, PlacesInv, m
      <3> QED
        BY <1>1, <3>1, <3>2, ServedStays DEF PipelineInv, Served, server
    <2> QED
      BY <2>1, <2>2
  <1> QED
    BY <1>1, <1>2, <1>3, <1>5, <1>6, LeaveInv DEF PipelineInv

\* A launch that has negotiated meets this build or a later one.
LEMMA HelperStopsStep ==
  ASSUME PipelineInv, HelperStops
  PROVE  PipelineInv'
  <1> DEFINE L == {l \in Launchers : at[l] = "running"}
  <1>1. /\ Leave(L) /\ budget > 0 /\ budget' = budget - 1
        /\ helper' = NoHelper /\ installed' \in DOMAIN Builds /\ installed' >= installed
        /\ at' = [l \in Launchers |-> IF at[l] = "running" THEN "orphaned" ELSE at[l]]
        /\ members' = [u \in {Me} |-> {}] /\ rules' = rules /\ enforced' = enforced
    BY DEF HelperStops, Spend, Lease!Disown
  <1>2. budget' \in 0..MaxEvents
    BY <1>1, BudgetAssumption DEF PipelineInv, ConfigInv, FilesInv
  <1>3. ServerInv' /\ PlacesInv'
    BY <1>1, <1>2, LeaveInv DEF PipelineInv, ServerInv, PlacesInv, Places
  <1>4. LeaseInv'
    BY <1>1 DEF PipelineInv, LeaseInv, Lease!TypeOK, Lease!Guarded
  <1>5. Builds[installed].policy => Builds[installed'].policy
    <2>1. installed \in Nat /\ installed' \in Nat
      BY <1>1, BuildsAssumption DEF PipelineInv, ServerInv
    <2> QED
      BY <1>1, <2>1, BuildsAssumption DEF PipelineInv, ServerInv
  <1>6. ASSUME NEW o \in Launchers PROVE Served(o)'
    <2>1. CASE at[o] = "running"
      BY <1>1, <2>1 DEF Served
    <2>2. CASE at[o] # "running"
      <3>1. /\ at'[o] = at[o] /\ spec'[o] = spec[o] /\ (Ready(o)' <=> Ready(o))
            /\ Effective(o)' = Effective(o)
        BY <1>1, <1>2, <2>2, LeaveInv
      <3> QED
        BY <1>5, <2>2, <3>1, ServedStays DEF PipelineInv, Served
    <2> QED
      BY <2>1, <2>2
  <1> QED
    BY <1>1, <1>2, <1>3, <1>4, <1>6, LeaveInv DEF PipelineInv

LEMMA HelperStartsStep ==
  ASSUME PipelineInv, HelperStarts
  PROVE  PipelineInv'
  <1>1. /\ helper' = installed /\ UNCHANGED <<vars, installed, at, spec, enforced, members>>
        /\ rules' \in [{Me} -> Policies \cup {NoRules}]
        /\ members[Me] # {} => rules'[Me] = rules[Me]
    BY DEF HelperStarts, Lease!Unattended
  <1>2. ConfigInv' /\ ServerInv' /\ PlacesInv'
    BY <1>1, ConfigNextInv DEF PipelineInv, ServerInv, PlacesInv
  <1>3. LeaseInv'
    BY <1>1 DEF PipelineInv, LeaseInv, Lease!TypeOK, Lease!Guarded
  <1>4. ASSUME NEW o \in Launchers PROVE Served(o)'
    <2>1. (Ready(o)' <=> Ready(o)) /\ Effective(o)' = Effective(o)
      BY <1>1 DEF vars, launch, Ready, Stage, Effective, ProjectLayer
    <2> QED
      BY <1>1, <2>1, ServedStays DEF PipelineInv, Served
  <1> QED
    BY <1>2, <1>3, <1>4 DEF PipelineInv

-------------------------------------------------------------------------------
(* The invariant and what follows from it.                                  *)

LEMMA PipelineInitInv == PipelineInit => PipelineInv
  <1> SUFFICES ASSUME PipelineInit PROVE PipelineInv
    OBVIOUS
  <1>1. ConfigInv
    BY ConfigInitInv DEF PipelineInit
  <1>2. ServerInv /\ PlacesInv /\ LeaseInv
    BY PoliciesAreFiles
    DEF PipelineInit, ServerInv, PlacesInv, Places, LeaseInv, Lease!TypeOK, Lease!Guarded
  <1>3. \A l \in Launchers : Served(l)
    BY DEF PipelineInit, Served
  <1> QED
    BY <1>1, <1>2, <1>3 DEF PipelineInv

LEMMA PipelineNextInv ==
  ASSUME PipelineInv, [PipelineNext]_allVars
  PROVE  PipelineInv'
  <1>1. CASE ConfigNext /\ UNCHANGED pipeline
    BY <1>1, ConfigStep
  <1>2. CASE Pipeline
    BY <1>2, AskStep, RefusedStep, RunStep, AgentExitsStep, HelperStopsStep, HelperStartsStep
    DEF Pipeline
  <1>3. CASE UNCHANGED allVars
    BY <1>3, ConfigStep DEF allVars
  <1> QED
    BY <1>1, <1>2, <1>3 DEF PipelineNext

\* The policy a launch merged stays with it, through the negotiation with
\* whichever helper, into the lease (attach_policy, supports_policy).
THEOREM PipelineInvariance == PipelineSpec => []PipelineInv
  BY PipelineInitInv, PipelineNextInv, PTL DEF PipelineSpec

THEOREM PipelineTypeCorrect == PipelineSpec => []PipelineTypeOK
  <1>1. PipelineInv => PipelineTypeOK
    BY ConfigTyped
    DEF PipelineInv, ServerInv, PlacesInv, Places, SpecsSent, LeaseInv, Lease!TypeOK,
        Lease!Member, PipelineTypeOK
  <1> QED
    BY <1>1, PipelineInvariance, PTL

\* An agent the helper answers for runs under exactly the policy its launch
\* merged, whatever builds of the helper come and go.
THEOREM AgentsRunUnderTheirPolicy == PipelineSpec => []AgentsUnderTheirPolicy
  <1>1. PipelineInv => AgentsUnderTheirPolicy
    BY DEF PipelineInv, Served, LeaseInv, Lease!Guarded, AgentsUnderTheirPolicy
  <1> QED
    BY <1>1, PipelineInvariance, PTL

\* In the pipeline, too, only consent widens and what is forbidden stays so.
THEOREM PipelineConsents == PipelineSpec => [](WideningsConsented /\ TighteningsApply)
  <1>1. PipelineInv => WideningsConsented /\ TighteningsApply
    BY ConsentHolds, TighteningsHold DEF PipelineInv, ConfigInv
  <1> QED
    BY <1>1, PipelineInvariance, PTL

\* The launches use the helper as GuardLease allows, so what HelperSessions
\* was shown to implement is what they rely on.
THEOREM PipelineUsesLease == PipelineSpec => Lease!Spec
  <1>1. PipelineInit => Lease!Init
    BY DEF PipelineInit, Lease!Init
  <1>2. ASSUME PipelineInv, [PipelineNext]_allVars
        PROVE  [Lease!Next]_(Lease!vars)
    <2> USE DEF Lease!vars
    <2>1. ASSUME NEW l \in Launchers, Run(l) PROVE Lease!Next
      <3>1. Understood(Builds[helper], spec[l]) \in Policies
        BY <2>1, UnderstoodAsMerged, MergedPolicy, <1>2 DEF Run, Step, Grantable
      <3> QED
        BY <2>1, <3>1 DEF Run, Lease!Next, Lease!Member
    <2>2. ASSUME NEW l \in Launchers, AgentExits(l) PROVE Lease!Next
      <3>1. <<l, enforced[l]>> \in Lease!Member
        BY <1>2, <2>2 DEF AgentExits, Step, PipelineInv, Served, LeaseInv, Lease!TypeOK
      <3> QED
        BY <2>2, <3>1 DEF AgentExits, Lease!Next
    <2>3. CASE HelperStops \/ HelperStarts
      BY <2>3 DEF HelperStops, HelperStarts, Lease!Next
    <2>4. ASSUME NEW l \in Launchers, Prepare(l) \/ Probe(l) \/ ProbeFails(l) \/ RunRefused(l)
          PROVE  UNCHANGED Lease!vars
      BY <2>4 DEF Prepare, Probe, ProbeFails, RunRefused
    <2>5. CASE UNCHANGED pipeline
      BY <2>5 DEF pipeline
    <2> QED
      BY <1>2, <2>1, <2>2, <2>3, <2>4, <2>5 DEF PipelineNext, Pipeline, allVars, pipeline
  <1> QED
    BY <1>1, <1>2, PipelineInvariance, PTL DEF PipelineSpec, Lease!Spec

===============================================================================
