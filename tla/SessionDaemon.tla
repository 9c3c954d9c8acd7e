---------------------------- MODULE SessionDaemon ----------------------------
(***************************************************************************)
(* The per-session daemon (lianyaohu-app/src/session/daemon.rs): one poll  *)
(* loop that owns the PTY master and the session socket, replays a         *)
(* scrollback to whoever attaches, broadcasts the agent's output, applies  *)
(* its clients' frames and leaves when the agent does.                     *)
(*                                                                         *)
(* One iteration is poll, accept, exit pipe, drain, walk over the clients. *)
(* What poll reported is a snapshot: while it is worked off, clients close *)
(* and send, and the agent writes and exits.  The agent's output is the    *)
(* sequence of chunks 1, 2, ...; typed input and window sizes change       *)
(* nothing the properties speak about and are one frame, "input".          *)
(***************************************************************************)
EXTENDS Naturals, Sequences, SequencesExt

CONSTANTS
  Clients,        \* attaching processes
  MaxChunks,      \* bound: chunks of output the agent writes
  Scrollback,     \* chunks the scrollback keeps (SCROLLBACK_LIMIT)
  Returning,      \* clients that attach again after a connection ended
  Stragglers,     \* may children of the agent outlive it on its terminal? (The
                  \* helper's agents lead no session, whose end would hang it up.)
  BlockingReads   \* accepted streams block: so on Linux; macOS lets them
                  \* inherit the listener's O_NONBLOCK

ASSUME BoundsAssumption ==
  /\ MaxChunks \in Nat /\ Scrollback \in Nat \ {0}
  /\ Returning \subseteq Clients /\ {BlockingReads, Stragglers} \subseteq BOOLEAN

VARIABLES
  pc,         \* the step of the loop
  clients,    \* the daemon's Vec of clients, in its order
  polled,     \* what the last poll was asked for, and what it reported
  offset,     \* position of the walk over the clients, counted from 1
  master,     \* does the daemon still hold the PTY master?
  scrollback, \* the chunks kept for replay
  drained,    \* chunks read from the PTY
  written,    \* chunks the agent, and what it left behind, wrote to it
  agent,      \* "running" or "exited"
  children,   \* a child of the exited agent holds the terminal open
  atExit,     \* chunks written when the agent exited
  exitSeen,   \* exit_code.is_some()
  killed,     \* a client's Kill frame was applied
  link,       \* link[c]: the socket of client c
  inbox,      \* inbox[c]: frames c sent and the daemon has not read
  stopped,    \* stopped[c]: c does not drain its socket (SIGSTOP, dead link)
  recv,       \* recv[c]: chunks sent to c on its current connection
  told        \* told[c]: c was sent the Exited frame

daemonVars == <<pc, clients, polled, offset, master, scrollback, drained, exitSeen, killed>>
agentVars == <<written, agent, children, atExit>>
clientVars == <<link, inbox, stopped, recv, told>>
vars == <<daemonVars, agentVars, clientVars>>

Frames == {"input", "kill", "bad"}
Links == {"away", "connecting", "open", "closed", "dropped"}
NoPoll == [listener |-> FALSE, exit |-> FALSE, master |-> FALSE,
           entries |-> <<>>, ready |-> {}]

TypeOK ==
  /\ pc \in {"poll", "accept", "drain", "walk", "final", "gone"}
  /\ clients \in Seq(Clients) /\ offset \in 0..Len(clients)
  /\ polled.entries \in Seq(Clients) /\ polled.ready \subseteq DOMAIN polled.entries
  /\ {polled.listener, polled.exit, polled.master, master, exitSeen, killed} \subseteq BOOLEAN
  /\ scrollback \in Seq(1..MaxChunks) /\ Len(scrollback) <= Scrollback
  /\ drained \in 0..MaxChunks /\ written \in drained..MaxChunks
  /\ agent \in {"running", "exited"} /\ children \in BOOLEAN /\ atExit \in 0..written
  /\ link \in [Clients -> Links]
  /\ inbox \in [Clients -> {<<>>} \cup {<<f>> : f \in Frames}]
  /\ stopped \in [Clients -> BOOLEAN] /\ told \in [Clients -> BOOLEAN]
  /\ recv \in [Clients -> Seq(1..MaxChunks)]

Init ==
  /\ pc = "poll" /\ clients = <<>> /\ polled = NoPoll /\ offset = 0
  /\ master = TRUE /\ scrollback = <<>> /\ drained = 0 /\ exitSeen = FALSE /\ killed = FALSE
  /\ written = 0 /\ agent = "running" /\ children = FALSE /\ atExit = 0
  /\ link = [c \in Clients |-> "away"]
  /\ inbox = [c \in Clients |-> <<>>]
  /\ stopped = [c \in Clients |-> FALSE]
  /\ recv = [c \in Clients |-> <<>>]
  /\ told = [c \in Clients |-> FALSE]

-------------------------------------------------------------------------------
(* The processes at the other ends.                                         *)

Connect(c) ==
  /\ pc # "gone" /\ link[c] = "away"
  /\ link' = [link EXCEPT ![c] = "connecting"]
  /\ recv' = [recv EXCEPT ![c] = <<>>]
  /\ UNCHANGED <<daemonVars, agentVars, inbox, stopped, told>>

Send(c) ==
  /\ link[c] \in {"connecting", "open"} /\ ~stopped[c]
  /\ inbox[c] = <<>>
  /\ \E f \in Frames : inbox' = [inbox EXCEPT ![c] = <<f>>]
  /\ UNCHANGED <<daemonVars, agentVars, link, stopped, recv, told>>

\* Detach, or end of the attaching process.  Nothing comes of a connection
\* closed before it was accepted: its replay cannot be written.
Close(c) ==
  /\ link[c] \in {"connecting", "open"}
  /\ link' = [link EXCEPT ![c] = IF @ = "open" THEN "closed" ELSE "dropped"]
  /\ UNCHANGED <<daemonVars, agentVars, inbox, stopped, recv, told>>

Stop(c) ==
  /\ link[c] = "open"
  /\ stopped' = [stopped EXCEPT ![c] = ~@]
  /\ UNCHANGED <<daemonVars, agentVars, link, inbox, recv, told>>

\* The process whose connection is over may come again.
Return(c) ==
  /\ c \in Returning /\ link[c] = "dropped"
  /\ link' = [link EXCEPT ![c] = "away"]
  /\ inbox' = [inbox EXCEPT ![c] = <<>>]
  /\ stopped' = [stopped EXCEPT ![c] = FALSE]
  /\ told' = [told EXCEPT ![c] = FALSE]
  /\ UNCHANGED <<daemonVars, agentVars, recv>>

Write ==
  /\ agent = "running" \/ children
  /\ master /\ written < MaxChunks
  /\ written' = written + 1
  /\ UNCHANGED <<daemonVars, agent, children, atExit, clientVars>>

\* The waiter thread reports the exit through the pipe.
AgentExits ==
  /\ agent = "running"
  /\ agent' = "exited"
  /\ atExit' = written
  /\ children' \in {FALSE, Stragglers}
  /\ UNCHANGED <<daemonVars, written, clientVars>>

ChildrenExit ==
  /\ children
  /\ children' = FALSE
  /\ UNCHANGED <<daemonVars, written, agent, atExit, clientVars>>

-------------------------------------------------------------------------------
(* Writing to clients.  A closed socket fails at once, one nobody drains    *)
(* once it is full (after CLIENT_WRITE_TIMEOUT), and on a non-blocking one  *)
(* that may happen to a client that is merely slow.                         *)

MustFail(c) == link[c] = "closed"
MayFail(c) == MustFail(c) \/ stopped[c] \/ ~BlockingReads

\* The sets of clients in s a write to all of s may fail for.
Failures(s) ==
  {F \in SUBSET Range(s) :
     /\ \A c \in F : MayFail(c)
     /\ \A c \in Range(s) \ F : ~MustFail(c)}

\* retain_mut: those of s that are not in F, in their order.
Without(s, F) ==
  LET keep[n \in 0..Len(s)] ==
        IF n = 0 THEN <<>>
        ELSE IF s[n] \in F THEN keep[n - 1] ELSE Append(keep[n - 1], s[n])
  IN keep[Len(s)]

\* Drop the connections of F.
DropLinks(F) == link' = [c \in Clients |-> IF c \in F THEN "dropped" ELSE link[c]]

LastChunks(s) == IF Len(s) > Scrollback THEN SubSeq(s, Len(s) - Scrollback + 1, Len(s)) ELSE s

ScrollForgotten(s, chunk) == s
ScrollUntrimmed(s, chunk) == Append(s, chunk)
\* Keep a chunk for replay, and the newest chunks only.
Scroll(s, chunk) == LastChunks(Append(s, chunk))

-------------------------------------------------------------------------------
(* One iteration of the loop.                                               *)

ExitUnwatched == FALSE
\* The exit pipe has the agent's code.
ExitReady == agent = "exited"
\* Every slave descriptor is closed.
HungUp == agent = "exited" /\ ~children
\* The master has output, or has been hung up by its last slave.
MasterReady == master /\ (drained < written \/ HungUp)
ClientReady(c) == inbox[c] # <<>> \/ link[c] = "closed"
ListenerReady == \E c \in Clients : link[c] = "connecting"

\* poll blocks until there is something to report.
Poll ==
  /\ pc = "poll"
  /\ ListenerReady \/ ExitReady \/ MasterReady \/ \E c \in Range(clients) : ClientReady(c)
  /\ polled' = [listener |-> ListenerReady, exit |-> ExitReady, master |-> MasterReady,
                entries |-> clients,
                ready |-> {i \in DOMAIN clients : ClientReady(clients[i])}]
  /\ pc' = "accept"
  /\ UNCHANGED <<clients, offset, master, scrollback, drained, exitSeen, killed, agentVars, clientVars>>

\* accept until nobody waits: replay the scrollback; a client that cannot be
\* written to is not taken on.
Accept(c) ==
  /\ pc = "accept" /\ polled.listener
  /\ link[c] = "connecting"
  /\ \/ /\ clients' = Append(clients, c)
        /\ recv' = [recv EXCEPT ![c] = scrollback]
        /\ link' = [link EXCEPT ![c] = "open"]
     \/ /\ MayFail(c)
        /\ DropLinks({c})
        /\ UNCHANGED <<clients, recv>>
  /\ UNCHANGED <<pc, polled, offset, master, scrollback, drained, exitSeen, killed, agentVars,
                 inbox, stopped, told>>

\* Nobody is left to accept; look at the exit pipe.
Accepted ==
  /\ pc = "accept"
  /\ polled.listener => ~ListenerReady
  /\ exitSeen' = polled.exit
  /\ pc' = "drain"
  /\ UNCHANGED <<clients, polled, offset, master, scrollback, drained, killed, agentVars, clientVars>>
\* Read a chunk and broadcast it; whoever cannot be written to is dropped.
\* (A final drain does not touch the walk, which is over.)
ReadChunk ==
  /\ master /\ drained < written
  /\ drained' = drained + 1
  /\ scrollback' = Scroll(scrollback, drained + 1)
  /\ \E F \in Failures(clients) :
       /\ clients' = Without(clients, F)
       /\ DropLinks(F)
       /\ recv' = [c \in Clients |-> IF c \in Range(clients) \ F
                                    THEN Append(recv[c], drained + 1) ELSE recv[c]]
  /\ UNCHANGED <<pc, polled, offset, master, exitSeen, killed, agentVars, inbox, stopped, told>>

Drain == pc = "drain" /\ polled.master /\ ReadChunk

ClosedByHangup == agent = "exited"
\* Read returned EIO: all output was read and no slave is open any more.
ClosedByRead == drained = written /\ HungUp

\* Nothing more to read.  The walk starts at the last of the clients that
\* are left.
Drained ==
  /\ pc = "drain"
  /\ polled.master => drained = written \/ ClosedByRead
  /\ master' = (master /\ ~(polled.master /\ ClosedByRead))
  /\ offset' = Len(clients)
  /\ pc' = "walk"
  /\ UNCHANGED <<clients, polled, scrollback, drained, exitSeen, killed, agentVars, clientVars>>

\* The poll entry the walk looks up for the client at this offset.
EntryReady == offset \in polled.ready

WalkPast ==
  /\ pc = "walk" /\ offset > 0
  /\ ~EntryReady
  /\ offset' = offset - 1
  /\ UNCHANGED <<pc, clients, polled, master, scrollback, drained, exitSeen, killed, agentVars, clientVars>>

\* Drop the client at the offset.
DropClient ==
  /\ clients' = RemoveAt(clients, offset)
  /\ DropLinks({clients[offset]})

KeptWhileTyping(c) == inbox[c] = <<"input">>
\* The client stays: it sent frames a client may send.
Kept(c) == inbox[c] \in {<<"input">>, <<"kill">>}

HungUpByHookOnly(c) == master
\* A kill drops the master: hanging the terminal up reaches an agent the
\* daemon has no pid of.
MasterAfter(c) == master /\ inbox[c] # <<"kill">>

\* service_client: apply what the client sent; end of file, a confused client
\* and a read error drop it.  A blocking read of a client that sent nothing
\* waits, and the whole loop with it, until that client sends or closes.
Service ==
  /\ pc = "walk" /\ offset > 0
  /\ EntryReady
  /\ LET c == clients[offset] IN
       /\ BlockingReads => ClientReady(c)
       /\ killed' = (killed \/ inbox[c] = <<"kill">>)
       /\ master' = MasterAfter(c)
       /\ inbox' = [inbox EXCEPT ![c] = <<>>]
       /\ IF Kept(c) THEN UNCHANGED <<clients, link>> ELSE DropClient
  /\ offset' = offset - 1
  /\ UNCHANGED <<pc, polled, scrollback, drained, exitSeen, agentVars, stopped, recv, told>>

Walked ==
  /\ pc = "walk" /\ offset = 0
  /\ pc' = IF exitSeen THEN "final" ELSE "poll"
  /\ polled' = NoPoll
  /\ UNCHANGED <<clients, offset, master, scrollback, drained, exitSeen, killed, agentVars, clientVars>>

-------------------------------------------------------------------------------
(* After the loop.                                                          *)

FinalDrain == pc = "final" /\ ReadChunk

\* Tell everybody, remove the session's files and exit; connections nobody
\* accepted are closed with the others.
Farewell ==
  /\ pc = "final"
  /\ master => drained = written
  /\ \E F \in Failures(clients) :
       told' = [c \in Clients |-> told[c] \/ c \in Range(clients) \ F]
  /\ link' = [c \in Clients |-> IF link[c] = "away" THEN "away" ELSE "dropped"]
  /\ clients' = <<>>
  /\ pc' = "gone"
  /\ UNCHANGED <<polled, offset, master, scrollback, drained, exitSeen, killed, agentVars,
                 inbox, stopped, recv>>

-------------------------------------------------------------------------------
Loop ==
  \/ Poll \/ (\E c \in Clients : Accept(c)) \/ Accepted
  \/ Drain \/ Drained \/ WalkPast \/ Service \/ Walked
  \/ FinalDrain \/ Farewell

Environment ==
  \/ \E c \in Clients : Connect(c) \/ Send(c) \/ Close(c) \/ Stop(c) \/ Return(c)
  \/ Write \/ AgentExits \/ ChildrenExit

Next == Loop \/ Environment

Spec == Init /\ [][Next]_vars

\* The loop runs whenever it can, and an agent whose terminal was hung up
\* exits.  Clients and a healthy agent owe nothing.
Fairness == WF_vars(Loop) /\ WF_vars(AgentExits /\ ~master)

FairSpec == Spec /\ Fairness

-------------------------------------------------------------------------------
(* Properties.                                                              *)

Consecutive(s) == \A i \in 1..Len(s) - 1 : s[i + 1] = s[i] + 1

\* What an attached client was sent is one stretch of the agent's output
\* without gap, repetition or reordering, up to the last chunk read, and it
\* begins early enough to fill the scrollback; whenever it attached, and
\* whoever else comes, stalls or goes.
ClientsSeeTheOutput ==
  \A c \in Range(clients) :
    /\ Consecutive(recv[c])
    /\ recv[c] # <<>> => Last(recv[c]) = drained
    /\ drained > 0 => Len(recv[c]) >= (IF drained < Scrollback THEN drained ELSE Scrollback)

\* A client that is told of the exit was sent everything the agent wrote
\* before it exited, unless the session was killed, which hangs the terminal up.
ExitAfterAllOutput ==
  \A c \in Clients :
    told[c] /\ ~killed => drained >= atExit /\ (recv[c] = <<>> \/ Last(recv[c]) = drained)

\* The daemon never drops a client that reads what it is sent and sends only
\* frames a client may send; such a client hears of the exit instead.
GoodClientsKept ==
  [][\A c \in Clients :
       link[c] = "open" /\ link'[c] = "dropped"
         => stopped[c] \/ inbox[c] = <<"bad">> \/ told'[c]]_vars

\* The walk goes back to front "so dropping one cannot shift the poll indices
\* of those not yet visited": the entry it looks up is that of the client it
\* is about to read from.
EntriesMatchClients ==
  pc = "walk" /\ offset > 0 /\ EntryReady => polled.entries[offset] = clients[offset]

\* The session ends with its agent, and a kill ends it: no client, whatever
\* it does or fails to do, keeps the loop from seeing the exit.
ExitEndsSession == agent = "exited" ~> pc = "gone"
KillEndsSession == killed ~> pc = "gone"
===============================================================================
