---------------------------- MODULE SessionRegistry ----------------------------
(***************************************************************************)
(* The directory of background sessions: a socket and a metadata file per  *)
(* name, and nothing else that says which sessions exist                   *)
(* (lianyaohu-app/src/session/mod.rs, launch_in_session, attach_loop and   *)
(* the session commands of main.rs).                                       *)
(*                                                                         *)
(* `lyh run` picks a name, binds the socket, writes the metadata with its  *)
(* own pid and forks; the daemon writes the metadata again with its pid,   *)
(* serves, and removes the files when its agent is gone.  Other processes  *)
(* list, attach and kill, and remove files they take for leftovers, by     *)
(* name.  No step is protected by a lock, a file is empty before it is     *)
(* written, and the two files of a session go one after the other.         *)
(***************************************************************************)
EXTENDS Naturals, Sequences, FiniteSets

CONSTANTS
  Launches,     \* `lyh run` invocations, each with its parent and its daemon
  Observers,    \* processes that list, attach and kill
  Names,        \* session names
  Candidates,   \* Candidates[l]: the name asked for, or the names unique_name tries
  NoFile,       \* the file does not exist
  Nobody        \* no name, no launch

\* What a metadata file holds: the pid of a launch's parent, or of its daemon,
\* or nothing that can be read, since somebody is just writing it, or died then.
Metas == [launch : Launches, of : {"parent", "daemon", "torn"}]

ASSUME RegistryAssumption ==
  /\ \A l \in Launches : Candidates[l] \in Seq(Names) /\ Candidates[l] # <<>>
  /\ NoFile \notin Launches \cup Metas /\ Nobody \notin Names \cup Launches

VARIABLES
  sock,     \* sock[n]: the launch whose socket is bound at n's path, or NoFile
  meta,     \* meta[n]: what n's metadata file holds, or NoFile
  phase,    \* phase[l]: how far launch l has come
  name,     \* name[l]: the name l chose
  parent,   \* parent[l]: is the process that the user started alive?
  op,       \* op[o]: what observer o is doing
  target,   \* target[o]: the name it is doing it to
  peer,     \* peer[o]: the launch whose daemon it is connected to
  todo,     \* todo[o]: names its list command has still to look at
  disturbed \* history: the launches that met a race by which files are lost

files == <<sock, meta>>
launchVars == <<phase, name, parent>>
observerVars == <<op, target, peer, todo>>
vars == <<files, launchVars, observerVars, disturbed>>

Starting == {"bound", "describing", "described", "forked", "rewriting"}
Holding == Starting \cup {"serving"}
Leaving == {"ending", "clearing"}
Phases == {"idle", "named", "over"} \cup Holding \cup Leaving

\* An observer that will remove a socket and a metadata file, or the latter only.
Reaping == {"reap", "reaping"}
Removing == {"remove", "removing"}

TypeOK ==
  /\ sock \in [Names -> Launches \cup {NoFile}]
  /\ meta \in [Names -> Metas \cup {NoFile}]
  /\ phase \in [Launches -> Phases]
  /\ name \in [Launches -> Names \cup {Nobody}]
  /\ parent \in [Launches -> BOOLEAN]
  /\ op \in [Observers -> {"idle", "list", "attached"} \cup Reaping \cup Removing]
  /\ target \in [Observers -> Names \cup {Nobody}]
  /\ peer \in [Observers -> Launches \cup {Nobody}]
  /\ todo \in [Observers -> SUBSET Names]
  /\ disturbed \subseteq Launches
  /\ \A o \in Observers : /\ op[o] = "attached" <=> peer[o] # Nobody
                          /\ op[o] \in {"idle", "list"} <=> target[o] = Nobody

Init ==
  /\ sock = [n \in Names |-> NoFile] /\ meta = [n \in Names |-> NoFile]
  /\ phase = [l \in Launches |-> "idle"]
  /\ name = [l \in Launches |-> Nobody]
  /\ parent = [l \in Launches |-> TRUE]
  /\ op = [o \in Observers |-> "idle"]
  /\ target = [o \in Observers |-> Nobody]
  /\ peer = [o \in Observers |-> Nobody]
  /\ todo = [o \in Observers |-> {}]
  /\ disturbed = {}

-------------------------------------------------------------------------------
Holds(l) == phase[l] \in Holding

DaemonAlive(l) == phase[l] \in {"forked", "rewriting", "serving"} \cup Leaving

\* Somebody can still connect to the socket l bound.
Listening(l) == phase[l] \in {"bound", "describing", "described"} \/ DaemonAlive(l)

PidAlive(pid) == \/ pid.of = "parent" /\ parent[pid.launch]
                 \/ pid.of = "daemon" /\ DaemonAlive(pid.launch)

\* Files are removed by name, whoever they belong to: first the socket, then
\* the metadata.
UnlinkSocket(n) == sock' = [sock EXCEPT ![n] = NoFile] /\ UNCHANGED meta
UnlinkMeta(n) == meta' = [meta EXCEPT ![n] = NoFile] /\ UNCHANGED sock

Torn(l) == [launch |-> l, of |-> "torn"]

\* fs::write opens the file and empties it ...
Truncate(l) == meta' = [meta EXCEPT ![name[l]] = Torn(l)]

\* ... then it writes.  When somebody has removed the file in between, or made it
\* anew, that may go to the file that is no longer there.
Write(l, which) ==
  \/ meta' = [meta EXCEPT ![name[l]] = [launch |-> l, of |-> which]] /\ meta[name[l]] # NoFile
  \/ meta[name[l]] # Torn(l) /\ UNCHANGED meta

Step(l, p) == phase' = [phase EXCEPT ![l] = p]

-------------------------------------------------------------------------------
(* `lyh run`.                                                               *)

\* A name that was asked for needs a free socket path only; a default name
\* needs both paths free.
Free(l, n) == sock[n] = NoFile /\ (Len(Candidates[l]) > 1 => meta[n] = NoFile)

ChooseName(l) ==
  /\ phase[l] = "idle"
  /\ \E i \in DOMAIN Candidates[l] :
       /\ Free(l, Candidates[l][i])
       /\ \A j \in 1..i - 1 : ~Free(l, Candidates[l][j])
       /\ name' = [name EXCEPT ![l] = Candidates[l][i]]
  /\ Step(l, "named")
  /\ UNCHANGED <<files, parent, observerVars, disturbed>>

\* Somebody who had to do with an earlier session at n is not yet done: it is
\* removing the files there, or it is a launch that lost them and lives.
InUse(n) ==
  \/ \E o \in Observers : target[o] = n /\ op[o] \in Reaping \cup Removing
  \/ \E k \in Launches : name[k] = n /\ phase[k] \in Holding \cup Leaving

BindableAlways(n) == TRUE
\* bind fails on a path that exists.
Bindable(n) == sock[n] = NoFile

\* Nothing keeps a name from being bound while it is in use.
Bind(l) ==
  /\ phase[l] = "named"
  /\ Bindable(name[l])
  /\ sock' = [sock EXCEPT ![name[l]] = l]
  /\ Step(l, "bound")
  /\ disturbed' = IF InUse(name[l]) THEN disturbed \cup {l} ELSE disturbed
  /\ UNCHANGED <<meta, name, parent, observerVars>>

\* The name asked for is taken; or bind, a later step, or the fork fails, or the
\* process is killed.  What is there by then is left behind.
LaunchFails(l) ==
  /\ \/ phase[l] = "idle" /\ \A i \in DOMAIN Candidates[l] : ~Free(l, Candidates[l][i])
     \/ phase[l] \in {"named", "bound", "describing", "described"}
  /\ Step(l, "over")
  /\ parent' = [parent EXCEPT ![l] = FALSE]
  /\ UNCHANGED <<files, name, observerVars, disturbed>>

BeginDescription(l) ==
  /\ phase[l] = "bound"
  /\ Truncate(l)
  /\ Step(l, "describing")
  /\ UNCHANGED <<sock, name, parent, observerVars, disturbed>>

DescribeByParent(l) ==
  /\ phase[l] = "describing"
  /\ Write(l, "parent")
  /\ Step(l, "described")
  /\ UNCHANGED <<sock, name, parent, observerVars, disturbed>>

Fork(l) ==
  /\ phase[l] = "described"
  /\ Step(l, "forked")
  /\ UNCHANGED <<files, name, parent, observerVars, disturbed>>

\* With --detached at once, otherwise when its user detaches or its session ends.
ParentExits(l) ==
  /\ DaemonAlive(l) \/ phase[l] = "over"
  /\ parent[l]
  /\ parent' = [parent EXCEPT ![l] = FALSE]
  /\ UNCHANGED <<files, phase, name, observerVars, disturbed>>

BeginRewrite(l) ==
  /\ phase[l] = "forked"
  /\ Truncate(l)
  /\ Step(l, "rewriting")
  /\ UNCHANGED <<sock, name, parent, observerVars, disturbed>>

\* The daemon's own pid replaces its parent's.
Serve(l) ==
  /\ phase[l] = "rewriting"
  /\ Write(l, "daemon")
  /\ Step(l, "serving")
  /\ UNCHANGED <<sock, name, parent, observerVars, disturbed>>

\* Something goes wrong before the loop: the daemon will clean up, and exit.
DaemonFails(l) ==
  /\ phase[l] \in {"forked", "rewriting"}
  /\ Step(l, "ending")
  /\ UNCHANGED <<files, name, parent, observerVars, disturbed>>

\* The agent is gone and the clients have been told; or the launch of the agent
\* has failed.
AgentEnds(l) ==
  /\ phase[l] = "serving"
  /\ Step(l, "ending")
  /\ UNCHANGED <<files, name, parent, observerVars, disturbed>>

\* Then the files go, and the process.
DaemonClears(l) ==
  /\ phase[l] = "ending"
  /\ UnlinkSocket(name[l])
  /\ Step(l, "clearing")
  /\ UNCHANGED <<name, parent, observerVars, disturbed>>

DaemonEnds(l) ==
  /\ phase[l] = "clearing"
  /\ UnlinkMeta(name[l])
  /\ Step(l, "over")
  /\ UNCHANGED <<name, parent, observerVars, disturbed>>

\* The daemon is killed, or never came to be: the intermediate child could not
\* fork it, or it could not open its log.  Nobody cleans up.
Crash(l) ==
  /\ DaemonAlive(l)
  /\ Step(l, "over")
  /\ UNCHANGED <<files, name, parent, observerVars, disturbed>>

-------------------------------------------------------------------------------
(* list_sessions, behind `lyh ls`, `lyh attach` and switching.              *)

StartList(o) ==
  /\ op[o] = "idle"
  /\ op' = [op EXCEPT ![o] = "list"]
  /\ todo' = [todo EXCEPT ![o] = {n \in Names : sock[n] # NoFile}]
  /\ UNCHANGED <<files, launchVars, target, peer, disturbed>>

StaleNever(n) == FALSE
\* No readable metadata, or the pid in it is gone.
Stale(n) == meta[n] = NoFile \/ ~PidAlive(meta[n])

\* What is stale will be removed, also when it is only starting.
Look(o, n) ==
  /\ op[o] = "list" /\ n \in todo[o]
  /\ todo' = [todo EXCEPT ![o] = @ \ {n}]
  /\ IF Stale(n)
     THEN /\ op' = [op EXCEPT ![o] = "reap"]
          /\ target' = [target EXCEPT ![o] = n]
          /\ disturbed' = disturbed \cup {l \in Launches : name[l] = n /\ phase[l] \in Starting}
     ELSE UNCHANGED <<op, target, disturbed>>
  /\ UNCHANGED <<files, launchVars, peer>>

\* remove_session_files, of a list command or of a client.
BeginRemoval(o) ==
  /\ op[o] \in {"reap", "remove"}
  /\ UnlinkSocket(target[o])
  /\ op' = [op EXCEPT ![o] = IF @ = "reap" THEN "reaping" ELSE "removing"]
  /\ UNCHANGED <<launchVars, target, peer, todo, disturbed>>

EndRemoval(o) ==
  /\ op[o] \in {"reaping", "removing"}
  /\ UnlinkMeta(target[o])
  /\ op' = [op EXCEPT ![o] = IF @ = "reaping" THEN "list" ELSE "idle"]
  /\ target' = [target EXCEPT ![o] = Nobody]
  /\ UNCHANGED <<launchVars, peer, todo, disturbed>>

Listed(o) ==
  /\ op[o] = "list" /\ todo[o] = {}
  /\ op' = [op EXCEPT ![o] = "idle"]
  /\ UNCHANGED <<files, launchVars, target, peer, todo, disturbed>>

-------------------------------------------------------------------------------
(* Attaching and killing.                                                   *)

Attach(o, n) ==
  /\ op[o] = "idle"
  /\ sock[n] # NoFile /\ Listening(sock[n])
  /\ op' = [op EXCEPT ![o] = "attached"]
  /\ target' = [target EXCEPT ![o] = n]
  /\ peer' = [peer EXCEPT ![o] = sock[n]]
  /\ UNCHANGED <<files, launchVars, todo, disturbed>>

DetachLeaks(o) ==
  /\ op[o] = "attached"
  /\ op' = [op EXCEPT ![o] = "idle"]
  /\ UNCHANGED <<files, launchVars, target, peer, todo, disturbed>>

Detach(o) ==
  /\ op[o] = "attached"
  /\ op' = [op EXCEPT ![o] = "idle"]
  /\ target' = [target EXCEPT ![o] = Nobody]
  /\ peer' = [peer EXCEPT ![o] = Nobody]
  /\ UNCHANGED <<files, launchVars, todo, disturbed>>

\* A client goes on to remove the files at n: a session that holds n has met a race.
TakenForOver(n) == disturbed' = disturbed \cup {l \in Launches : name[l] = n /\ Holds(l)}

\* The client is told of the exit, or its stream just ends: it takes the
\* session for over.  A stream also ends when the daemon drops a client it cannot
\* write to, or the client cannot write.
StreamEnds(o) ==
  /\ op[o] = "attached"
  /\ op' = [op EXCEPT ![o] = "remove"]
  /\ peer' = [peer EXCEPT ![o] = Nobody]
  /\ TakenForOver(target[o])
  /\ UNCHANGED <<files, launchVars, target, todo>>

\* `lyh kill` cannot connect, as when nobody listens any more, or cannot write: it
\* takes the session for gone.  (A kill that is heard ends the agent, which may
\* end at any time.)
KillFails(o, n) ==
  /\ op[o] = "idle"
  /\ sock[n] # NoFile
  /\ op' = [op EXCEPT ![o] = "remove"]
  /\ target' = [target EXCEPT ![o] = n]
  /\ TakenForOver(n)
  /\ UNCHANGED <<files, launchVars, peer, todo>>

-------------------------------------------------------------------------------
Launch(l) ==
  \/ ChooseName(l) \/ Bind(l) \/ LaunchFails(l) \/ BeginDescription(l) \/ DescribeByParent(l)
  \/ Fork(l) \/ ParentExits(l) \/ BeginRewrite(l) \/ Serve(l) \/ DaemonFails(l) \/ AgentEnds(l)
  \/ DaemonClears(l) \/ DaemonEnds(l) \/ Crash(l)

List(o) == StartList(o) \/ (\E n \in Names : Look(o, n)) \/ Listed(o)

Remove(o) == BeginRemoval(o) \/ EndRemoval(o)

Observe(o) ==
  \/ List(o) \/ Remove(o)
  \/ \E n \in Names : Attach(o, n) \/ KillFails(o, n)
  \/ Detach(o) \/ StreamEnds(o)

Next == (\E l \in Launches : Launch(l)) \/ (\E o \in Observers : Observe(o))

Spec == Init /\ [][Next]_vars

\* A command that was started runs to its end, and somebody lists again and
\* again (`lyh ls`, or the list every attach by name begins with).
FairSpec ==
  /\ Spec
  /\ \A o \in Observers : /\ WF_vars(List(o) \/ Remove(o)) /\ SF_vars(StartList(o))
                           /\ WF_vars(StreamEnds(o) \/ Detach(o))
  /\ \A l \in Launches :
       /\ WF_vars(\/ BeginDescription(l) \/ DescribeByParent(l) \/ Fork(l) \/ BeginRewrite(l)
                  \/ Serve(l) \/ DaemonClears(l) \/ DaemonEnds(l))
       /\ WF_vars(ParentExits(l))

-------------------------------------------------------------------------------
(* Properties.                                                              *)

\* A daemon that serves can be found, its own socket and its own pid at its
\* name, but for three cases, which are all: the name was still in use when it
\* was bound; a list found the session stale while it was starting; a client, or
\* a kill, at that name took a broken stream for the session's end.
LiveSessionsReachable ==
  \A l \in Launches \ disturbed :
    phase[l] = "serving" =>
      /\ sock[name[l]] = l
      /\ meta[name[l]] = [launch |-> l, of |-> "daemon"]

\* "so a concurrent `lyh ls` between fork and the daemon's own metadata write
\* never mistakes the session for stale": a list command decides to remove
\* files only of sessions that are not between those two steps.
NeverMistakenForStale ==
  [][\A o \in Observers :
       op[o] = "list" /\ op'[o] = "reap"
         => \A l \in Launches : sock[target'[o]] = l => phase[l] # "forked"]_vars

HasSocket(l) == \E n \in Names : sock[n] = l

\* A daemon that lives under l's name: its metadata vouches for any socket there.
Shadowed(l) == \E k \in Launches \ {l} : name[k] = name[l] /\ DaemonAlive(k)

\* The socket of a daemon that is gone, however it went, does not stay, but
\* while another daemon lives that also has its name.
StaleSocketsGo ==
  \A l \in Launches :
    (phase[l] = "over" /\ HasSocket(l)) ~> (~HasSocket(l) \/ Shadowed(l))
===============================================================================
