------------------------ MODULE SessionRegistry_proofs ------------------------
(***************************************************************************)
(* Proofs about SessionRegistry for any launches, observers and names.     *)
(*                                                                         *)
(* No step of the registry is protected by a lock, and files are removed   *)
(* by name.  What is at a session's name is nevertheless its own as long   *)
(* as it has met none of the races that SessionRegistry records: nobody is *)
(* about to remove the files at its name, and no other launch that had the *)
(* name is still at work.                                                  *)
(***************************************************************************)
EXTENDS SessionRegistry, TLAPS

\* A launch that got as far as a name has one.
NamedInv == \A l \in Launches : phase[l] \notin {"idle", "over"} => name[l] \in Names

\* What is at the path of a launch that holds its name.
Files(l) ==
  /\ sock[name[l]] = l
  /\ phase[l] \in {"describing", "rewriting"} => meta[name[l]] = Torn(l)
  /\ phase[l] = "serving" => meta[name[l]] = [launch |-> l, of |-> "daemon"]

Resting == {"idle", "named", "over"}

\* Nobody is about to remove the files of l, and no other launch at its name
\* will touch them.
Alone(l) ==
  /\ \A o \in Observers : target[o] = name[l] => op[o] = "attached"
  /\ \A k \in Launches \ {l} : name[k] = name[l] => phase[k] \in Resting

HoldersInv == \A l \in Launches \ disturbed : Holds(l) => Files(l) /\ Alone(l)

RegistryInv == TypeOK /\ NamedInv /\ HoldersInv

-------------------------------------------------------------------------------
(* Types.                                                                   *)

LEMMA CandidateIsName ==
  ASSUME NEW l \in Launches, NEW i \in DOMAIN Candidates[l]
  PROVE  Candidates[l][i] \in Names
  BY RegistryAssumption

LEMMA NoFileIsNobodys == NoFile \notin Launches /\ NoFile \notin Metas
  BY RegistryAssumption

LEMMA InitTyped == Init => TypeOK /\ NamedInv
  BY RegistryAssumption DEF Init, TypeOK, NamedInv, Phases, Metas

LEMMA LaunchTyped ==
  ASSUME TypeOK, NamedInv, NEW l \in Launches, Launch(l)
  PROVE  TypeOK' /\ NamedInv'
  <1> USE DEF TypeOK, NamedInv, Phases, Starting, Holding, Leaving, files, launchVars,
              observerVars, Step
  <1>1. CASE ChooseName(l)
    <2>1. PICK n \in Names : name' = [name EXCEPT ![l] = n]
      BY <1>1, CandidateIsName DEF ChooseName
    <2> QED
      BY <1>1, <2>1 DEF ChooseName
  <1>2. CASE Bind(l)
    BY <1>2 DEF Bind
  <1>3. CASE LaunchFails(l)
    BY <1>3 DEF LaunchFails
  <1>4. CASE BeginDescription(l)
    BY <1>4 DEF BeginDescription, Truncate, Torn, Metas
  <1>5. CASE DescribeByParent(l)
    BY <1>5 DEF DescribeByParent, Write, Metas
  <1>6. CASE Fork(l)
    BY <1>6 DEF Fork
  <1>7. CASE ParentExits(l)
    BY <1>7 DEF ParentExits
  <1>8. CASE BeginRewrite(l)
    BY <1>8 DEF BeginRewrite, Truncate, Torn, Metas
  <1>9. CASE Serve(l)
    BY <1>9 DEF Serve, Write, Metas
  <1>10. CASE DaemonFails(l)
    BY <1>10 DEF DaemonFails
  <1>11. CASE AgentEnds(l)
    BY <1>11 DEF AgentEnds
  <1>12. CASE DaemonClears(l)
    BY <1>12 DEF DaemonClears, UnlinkSocket
  <1>13. CASE DaemonEnds(l)
    BY <1>13 DEF DaemonEnds, UnlinkMeta
  <1>14. CASE Crash(l)
    BY <1>14 DEF Crash
  <1> QED
    BY <1>1, <1>2, <1>3, <1>4, <1>5, <1>6, <1>7, <1>8, <1>9, <1>10, <1>11, <1>12, <1>13, <1>14
       DEF Launch

\* A name that is neither observed nor chosen: the observers' types need it.
LEMMA NamesAreSomebody == \A n \in Names : n # Nobody
  BY RegistryAssumption

LEMMA ObserveTyped ==
  ASSUME TypeOK, NamedInv, NEW o \in Observers, Observe(o)
  PROVE  TypeOK' /\ NamedInv'
  <1> USE NamesAreSomebody
      DEF TypeOK, NamedInv, files, launchVars, observerVars, Reaping, Removing
  <1>1. CASE StartList(o)
    BY <1>1 DEF StartList
  <1>2. ASSUME NEW n \in Names, Look(o, n) PROVE TypeOK' /\ NamedInv'
    BY <1>2 DEF Look
  <1>3. CASE BeginRemoval(o)
    BY <1>3 DEF BeginRemoval, UnlinkSocket
  <1>4. CASE EndRemoval(o)
    BY <1>4 DEF EndRemoval, UnlinkMeta
  <1>5. CASE Listed(o)
    BY <1>5 DEF Listed
  <1>6. ASSUME NEW n \in Names, Attach(o, n) PROVE TypeOK' /\ NamedInv'
    <2>1. sock[n] \in Launches /\ sock[n] # Nobody
      BY <1>6, RegistryAssumption DEF Attach
    <2> QED
      BY <1>6, <2>1 DEF Attach
  <1>7. ASSUME NEW n \in Names, KillFails(o, n) PROVE TypeOK' /\ NamedInv'
    BY <1>7 DEF KillFails, TakenForOver
  <1>8. CASE Detach(o)
    BY <1>8 DEF Detach
  <1>9. CASE StreamEnds(o)
    BY <1>9 DEF StreamEnds, TakenForOver
  <1> QED
    BY <1>1, <1>2, <1>3, <1>4, <1>5, <1>6, <1>7, <1>8, <1>9 DEF Observe, List, Remove

\* The type invariant.
\* Code: session/mod.rs and the session commands of main.rs.
THEOREM RegistryTypeCorrect == Spec => []TypeOK
  <1>1. Init => TypeOK /\ NamedInv
    BY InitTyped
  <1>2. (TypeOK /\ NamedInv) /\ [Next]_vars => (TypeOK /\ NamedInv)'
    <2> SUFFICES ASSUME TypeOK, NamedInv, [Next]_vars PROVE TypeOK' /\ NamedInv'
      OBVIOUS
    <2>1. CASE UNCHANGED vars
      BY <2>1 DEF vars, files, launchVars, observerVars, TypeOK, NamedInv
    <2>2. CASE Next
      BY <2>2, LaunchTyped, ObserveTyped DEF Next
    <2> QED
      BY <2>1, <2>2
  <1> QED
    BY <1>1, <1>2, PTL DEF Spec

-------------------------------------------------------------------------------
(* Who holds a name.                                                        *)

\* A launch at work at the name of an undisturbed session is that session.
LEMMA NobodyElse ==
  ASSUME HoldersInv, NEW l \in Launches, l \notin disturbed, Holds(l),
         NEW k \in Launches, k # l, phase[k] \notin Resting
  PROVE  name[k] # name[l]
  BY DEF HoldersInv, Alone

\* A session that serves does not look stale.
LEMMA ServingIsNotStale ==
  ASSUME HoldersInv, NEW l \in Launches, l \notin disturbed, phase[l] = "serving"
  PROVE  ~Stale(name[l])
  <1>1. meta[name[l]] = [launch |-> l, of |-> "daemon"]
    BY DEF HoldersInv, Holds, Holding, Files
  <1>2. [launch |-> l, of |-> "daemon"] \in Metas
    BY DEF Metas
  <1>3. meta[name[l]] # NoFile
    BY <1>1, <1>2, NoFileIsNobodys
  <1>4. PidAlive(meta[name[l]])
    BY <1>1 DEF PidAlive, DaemonAlive
  <1> QED
    BY <1>3, <1>4 DEF Stale

\* What another launch does at another name leaves a session as it is, if it is
\* at rest afterwards or was not before.
LEMMA OtherLaunch ==
  ASSUME HoldersInv, NEW l \in Launches, l \notin disturbed, Holds(l),
         NEW k \in Launches, k # l,
         phase'[l] = phase[l], name'[l] = name[l],
         \A j \in Launches \ {k} : phase'[j] = phase[j] /\ name'[j] = name[j],
         phase'[k] \in Resting \/ name'[k] # name[l],
         sock'[name[l]] = sock[name[l]], meta'[name[l]] = meta[name[l]],
         UNCHANGED observerVars
  PROVE  Files(l)' /\ Alone(l)'
  <1>1. Files(l) /\ Alone(l)
    BY DEF HoldersInv
  <1>2. Files(l)'
    BY <1>1 DEF Files, Torn
  <1>3. Alone(l)'
    BY <1>1 DEF Alone, observerVars
  <1> QED
    BY <1>2, <1>3

\* A launch's step leaves the files of every undisturbed session as they should be.
LEMMA LaunchHolders ==
  ASSUME RegistryInv, NEW k \in Launches, Launch(k)
  PROVE  HoldersInv'
  <1> SUFFICES ASSUME NEW l \in Launches, l \notin disturbed', Holds(l)'
               PROVE  Files(l)' /\ Alone(l)'
    BY DEF HoldersInv
  <1>0. TypeOK /\ NamedInv /\ HoldersInv
    BY DEF RegistryInv
  <1>a. /\ \A j \in Launches \ {k} : phase'[j] = phase[j] /\ name'[j] = name[j]
        /\ l \notin disturbed /\ UNCHANGED observerVars
    BY <1>0 DEF TypeOK, Launch, ChooseName, Bind, LaunchFails, BeginDescription, DescribeByParent,
           Fork, ParentExits, BeginRewrite, Serve, DaemonFails, AgentEnds, DaemonClears, DaemonEnds,
           Crash, Step
  <1>b. NoFile # l
    BY NoFileIsNobodys
  <1>1. CASE l # k
    <2>1. Holds(l) /\ phase'[l] = phase[l] /\ name'[l] = name[l]
      BY <1>1, <1>a DEF Holds
    <2>2. sock[name[l]] = l
      BY <1>0, <1>a, <2>1 DEF HoldersInv, Files
    <2>3. CASE ChooseName(k)
      <3>1. phase'[k] \in Resting
        BY <1>0, <2>3 DEF ChooseName, Step, Resting, TypeOK
      <3> QED
        BY <1>0, <1>1, <1>a, <2>1, <2>3, <3>1, OtherLaunch DEF ChooseName, files
    <2>4. CASE Bind(k)
      <3>1. name[k] # name[l] /\ name'[k] = name[k]
        BY <1>b, <2>2, <2>4 DEF Bind, Bindable
      <3>2. sock'[name[l]] = sock[name[l]] /\ meta' = meta
        BY <1>0, <2>4, <3>1 DEF Bind, TypeOK
      <3> QED
        BY <1>0, <1>1, <1>a, <2>1, <3>1, <3>2, OtherLaunch
    <2>5. CASE LaunchFails(k)
      <3>1. phase'[k] \in Resting
        BY <1>0, <2>5 DEF LaunchFails, Step, Resting, TypeOK
      <3> QED
        BY <1>0, <1>1, <1>a, <2>1, <2>5, <3>1, OtherLaunch DEF LaunchFails, files
    <2>6. CASE ParentExits(k)
      <3>1. phase' = phase /\ name' = name /\ phase[k] \in Resting \cup Leaving \cup Holding
        BY <1>0, <2>6 DEF ParentExits, TypeOK, Phases, Resting
      <3>2. phase[k] \notin Resting => name[k] # name[l]
        BY <1>0, <1>1, <1>a, <2>1, NobodyElse
      <3>3. files' = files
        BY <2>6 DEF ParentExits
      <3> QED
        BY <1>0, <1>1, <1>a, <2>1, <3>1, <3>2, <3>3, OtherLaunch DEF files
    <2>7. CASE \/ BeginDescription(k) \/ DescribeByParent(k) \/ Fork(k) \/ BeginRewrite(k) \/ Serve(k)
               \/ DaemonFails(k) \/ AgentEnds(k) \/ DaemonClears(k) \/ DaemonEnds(k) \/ Crash(k)
      <3>1. phase[k] \notin Resting /\ name' = name
        BY <2>7 DEF BeginDescription, DescribeByParent, Fork, BeginRewrite, Serve, DaemonFails,
               AgentEnds, DaemonClears, DaemonEnds, Crash, DaemonAlive, Leaving, Resting
      <3>2. name[k] # name[l]
        BY <1>0, <1>1, <1>a, <2>1, <3>1, NobodyElse
      <3>3. name[l] \in Names /\ name[k] \in Names
        BY <1>0, <2>1, <3>1 DEF NamedInv, Holds, Holding, Starting, Resting
      <3>4. sock'[name[l]] = sock[name[l]] /\ meta'[name[l]] = meta[name[l]]
        BY <1>0, <2>7, <3>2, <3>3 DEF TypeOK, BeginDescription, DescribeByParent, Fork, BeginRewrite,
               Serve, DaemonFails, AgentEnds, DaemonClears, DaemonEnds, Crash, Truncate, Write,
               UnlinkSocket, UnlinkMeta, files
      <3> QED
        BY <1>0, <1>1, <1>a, <2>1, <3>1, <3>2, <3>4, OtherLaunch
    <2> QED
      BY <2>3, <2>4, <2>5, <2>6, <2>7 DEF Launch
  <1>2. CASE l = k
    <2>1. CASE Bind(k)
      <3>1. /\ phase' = [phase EXCEPT ![l] = "bound"] /\ name' = name /\ name[l] \in Names
            /\ sock' = [sock EXCEPT ![name[l]] = l] /\ ~InUse(name[l])
        BY <1>0, <1>2, <2>1 DEF Bind, Step, NamedInv
      <3>2. Files(l)'
        BY <1>0, <3>1 DEF Files, TypeOK
      <3>3. \A o \in Observers : target[o] = name[l] => op[o] = "attached"
        <4>1. \A o \in Observers : target[o] = name[l] => op[o] \notin Reaping \cup Removing
          BY <3>1 DEF InUse
        <4>2. \A o \in Observers : op[o] \in {"idle", "list"} => target[o] = Nobody
          BY <1>0 DEF TypeOK
        <4> QED
          BY <1>0, <3>1, <4>1, <4>2, NamesAreSomebody DEF TypeOK
      <3>4. \A j \in Launches : name[j] = name[l] => phase[j] \in Resting
        BY <1>0, <3>1 DEF InUse, TypeOK, Phases, Resting
      <3>5. Alone(l)'
        BY <1>a, <3>1, <3>3, <3>4 DEF Alone, observerVars
      <3> QED
        BY <3>2, <3>5
    <2>2. CASE ~Bind(k)
      <3>1. Holds(l) /\ name'[l] = name[l]
        BY <1>0, <1>2, <2>2 DEF TypeOK, Launch, ChooseName, LaunchFails, BeginDescription,
               DescribeByParent, Fork, ParentExits, BeginRewrite, Serve, DaemonFails, AgentEnds,
               DaemonClears, DaemonEnds, Crash, Step, Holds, Holding, Starting, DaemonAlive, Leaving
      <3>2. Files(l) /\ Alone(l) /\ name[l] \in Names
        BY <1>0, <1>a, <3>1 DEF HoldersInv, NamedInv, Holds, Holding, Starting
      <3>3. Alone(l)'
        BY <1>2, <1>a, <3>1, <3>2 DEF Alone, observerVars
      <3>4. sock' = sock
        BY <1>0, <1>2, <2>2 DEF Launch, ChooseName, LaunchFails, BeginDescription, DescribeByParent,
               Fork, ParentExits, BeginRewrite, Serve, DaemonFails, AgentEnds, DaemonClears,
               DaemonEnds, Crash, Step, Holds, Holding, Starting, files, UnlinkMeta, TypeOK
      <3>5. /\ phase'[l] \in {"describing", "rewriting"} => meta'[name[l]] = Torn(l)
            /\ phase'[l] = "serving" => meta'[name[l]] = [launch |-> l, of |-> "daemon"]
        <4>1. CASE BeginDescription(k) \/ BeginRewrite(k)
          BY <1>0, <1>2, <3>2, <4>1 DEF BeginDescription, BeginRewrite, Truncate, Step, TypeOK
        <4>2. CASE DescribeByParent(k) \/ Fork(k)
          BY <1>0, <1>2, <4>2 DEF DescribeByParent, Fork, Step, TypeOK
        <4>3. CASE Serve(k)
          <5>1. phase[l] = "rewriting" /\ phase'[l] = "serving" /\ Write(l, "daemon")
            BY <1>0, <1>2, <4>3 DEF Serve, Step, TypeOK
          <5>2. meta[name[l]] = Torn(l)
            BY <3>2, <5>1 DEF Files
          <5>3. meta' = [meta EXCEPT ![name[l]] = [launch |-> l, of |-> "daemon"]]
            BY <5>1, <5>2 DEF Write
          <5> QED
            BY <1>0, <3>2, <5>1, <5>3 DEF TypeOK
        <4>4. CASE ParentExits(k)
          BY <3>2, <4>4 DEF ParentExits, files, Files
        <4>5. CASE \/ ChooseName(k) \/ LaunchFails(k) \/ DaemonFails(k) \/ AgentEnds(k)
                   \/ DaemonClears(k) \/ DaemonEnds(k) \/ Crash(k)
          BY <1>0, <1>2, <4>5 DEF ChooseName, LaunchFails, DaemonFails, AgentEnds, DaemonClears,
                 DaemonEnds, Crash, Step, TypeOK
        <4> QED
          BY <2>2, <4>1, <4>2, <4>3, <4>4, <4>5 DEF Launch
      <3> QED
        BY <3>1, <3>2, <3>3, <3>4, <3>5 DEF Files, Torn
    <2> QED
      BY <2>1, <2>2
  <1> QED
    BY <1>1, <1>2

\* So does an observer's step.
LEMMA ObserveHolders ==
  ASSUME RegistryInv, NEW o \in Observers, Observe(o)
  PROVE  HoldersInv'
  <1> SUFFICES ASSUME NEW l \in Launches, l \notin disturbed', Holds(l)'
               PROVE  Files(l)' /\ Alone(l)'
    BY DEF HoldersInv
  <1>1. TypeOK /\ NamedInv /\ HoldersInv
    BY DEF RegistryInv
  <1>2. launchVars' = launchVars /\ disturbed \subseteq disturbed'
    BY DEF Observe, List, Remove, StartList, Look, BeginRemoval, EndRemoval, Listed, Attach,
           KillFails, Detach, StreamEnds, TakenForOver
  <1>3. /\ Holds(l) /\ l \notin disturbed /\ Files(l) /\ Alone(l)
        /\ phase' = phase /\ name' = name /\ name[l] \in Names /\ name[l] # Nobody
    BY <1>1, <1>2, NamesAreSomebody
       DEF launchVars, Holds, Holding, Starting, HoldersInv, NamedInv
  <1>4. ASSUME sock'[name[l]] = sock[name[l]], meta'[name[l]] = meta[name[l]],
               \A p \in Observers : target'[p] = name[l] => op'[p] = "attached"
        PROVE  Files(l)' /\ Alone(l)'
    BY <1>3, <1>4 DEF Files, Alone, Torn
  <1>5. \A p \in Observers : target[p] = name[l] => op[p] = "attached"
    BY <1>3 DEF Alone
  <1>6. CASE StartList(o)
    BY <1>1, <1>4, <1>5, <1>6 DEF StartList, files, TypeOK
  <1>7. ASSUME NEW n \in Names, Look(o, n) PROVE Files(l)' /\ Alone(l)'
    <2>1. Stale(n) => n # name[l]
      <3>1. CASE phase[l] = "serving"
        BY <1>1, <1>3, <3>1, ServingIsNotStale
      <3>2. CASE phase[l] \in Starting
        BY <1>7, <3>2 DEF Look
      <3> QED
        BY <1>3, <3>1, <3>2 DEF Holds, Holding
    <2> QED
      BY <1>1, <1>4, <1>5, <1>7, <2>1 DEF Look, files, TypeOK
  <1>8. CASE BeginRemoval(o) \/ EndRemoval(o)
    <2>1. target[o] # name[l]
      BY <1>5, <1>8 DEF BeginRemoval, EndRemoval
    <2>2. sock'[name[l]] = sock[name[l]] /\ meta'[name[l]] = meta[name[l]]
      BY <1>1, <1>3, <1>8, <2>1 DEF BeginRemoval, EndRemoval, UnlinkSocket, UnlinkMeta, TypeOK
    <2>3. \A p \in Observers : target'[p] = name[l] => target[p] = name[l] /\ p # o /\ op'[p] = op[p]
      BY <1>1, <1>3, <1>8, <2>1 DEF BeginRemoval, EndRemoval, TypeOK
    <2> QED
      BY <1>4, <1>5, <2>2, <2>3
  <1>9. CASE Listed(o)
    BY <1>1, <1>4, <1>5, <1>9 DEF Listed, files, TypeOK
  <1>10. ASSUME NEW n \in Names, Attach(o, n) PROVE Files(l)' /\ Alone(l)'
    BY <1>1, <1>4, <1>5, <1>10 DEF Attach, files, TypeOK
  <1>11. ASSUME NEW n \in Names, KillFails(o, n) PROVE Files(l)' /\ Alone(l)'
    <2>1. n # name[l]
      BY <1>3, <1>11 DEF KillFails, TakenForOver
    <2> QED
      BY <1>1, <1>4, <1>5, <1>11, <2>1 DEF KillFails, files, TypeOK
  <1>12. CASE Detach(o)
    BY <1>1, <1>3, <1>4, <1>5, <1>12 DEF Detach, files, TypeOK
  <1>13. CASE StreamEnds(o)
    <2>1. target[o] # name[l]
      BY <1>3, <1>13 DEF StreamEnds, TakenForOver
    <2> QED
      BY <1>1, <1>4, <1>5, <1>13, <2>1 DEF StreamEnds, files, TypeOK
  <1> QED
    BY <1>6, <1>7, <1>8, <1>9, <1>10, <1>11, <1>12, <1>13 DEF Observe, List, Remove

-------------------------------------------------------------------------------
(* The theorems.                                                            *)

\* The inductive invariant of the registry, with every race there is.
\* Code: launch_in_session, attach_loop, list_sessions, daemon::run.
THEOREM RegistryInvariance == Spec => []RegistryInv
  <1>1. Init => RegistryInv
    BY InitTyped DEF Init, RegistryInv, HoldersInv, Holds, Holding, Starting
  <1>2. RegistryInv /\ [Next]_vars => RegistryInv'
    <2> SUFFICES ASSUME RegistryInv, [Next]_vars PROVE RegistryInv'
      OBVIOUS
    <2>1. CASE UNCHANGED vars
      BY <2>1 DEF vars, files, launchVars, observerVars, RegistryInv, TypeOK, NamedInv,
                  HoldersInv, Holds, Files, Torn, Alone
    <2>2. CASE Next
      BY <2>2, LaunchTyped, ObserveTyped, LaunchHolders, ObserveHolders DEF Next, RegistryInv
    <2> QED
      BY <2>1, <2>2
  <1> QED
    BY <1>1, <1>2, PTL DEF Spec

\* A daemon in service can be found by its name, however many sessions start,
\* end, fail, crash and reuse names around it and whoever lists, attaches and
\* kills, if its name was free of earlier users when it was bound, no list found
\* it stale before it served, and no client or kill lost its stream to it.
\* Code: launch_in_session, SessionMeta::save, list_sessions, remove_session_files.
THEOREM ServingDaemonsAreFound == Spec => []LiveSessionsReachable
  <1>1. RegistryInv => LiveSessionsReachable
    BY DEF RegistryInv, HoldersInv, Holds, Holding, Files, LiveSessionsReachable
  <1> QED
    BY <1>1, RegistryInvariance, PTL

===============================================================================
