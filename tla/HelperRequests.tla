---------------------------- MODULE HelperRequests ----------------------------
(***************************************************************************)
(* How the root helper admits and reads requests: the connection limits,   *)
(* the deadline of a request, and the reader threads that may be abandoned *)
(* on a file system that never answers (HelperDaemon::run, handle and      *)
(* run_session in lianyaohu-app/src/helper_daemon.rs, read_with_deadline   *)
(* in lianyaohu-core/src/launch.rs).                                       *)
(*                                                                         *)
(* What a request does to the firewall is HelperSessions; here it is being *)
(* served or not.  A connection makes one request; a `run` is served as    *)
(* long as its agent lives.                                                *)
(***************************************************************************)
EXTENDS Naturals, FiniteSets, GrantValidation

CONSTANTS
  Conns,          \* connections to the helper's socket
  Uid,            \* Uid[c]: the account the kernel reports for c
  Specs,          \* Specs[c]: the launch specs c may have written
  Stalled,        \* connections whose spec file never comes back
  MaxConnections, \* MAX_CONCURRENT_CONNECTIONS
  MaxPerUid,      \* MAX_CONNECTIONS_PER_UID
  MaxAbandoned    \* MAX_ABANDONED_SPEC_READS

ASSUME ConnsAssumption ==
  /\ IsFiniteSet(Conns) /\ Uid \in [Conns -> Accounts] /\ Stalled \subseteq Conns
ASSUME SpecsAssumption ==
  \A c \in Conns : \A s \in Specs[c] : s \subseteq Kinds \X Seq(STRING)
ASSUME LimitsAssumption ==
  {MaxConnections, MaxPerUid, MaxAbandoned} \subseteq Nat \ {0}

VARIABLES
  active,     \* active_connections
  claims,     \* claims[u]: entry of u in uid_connections
  abandoned,  \* abandoned[u]: entry of u in ABANDONED_SPEC_READS
  phase,      \* phase[c]: where the worker of connection c stands
  reader,     \* reader[c]: the thread that reads c's spec file
  finished,   \* finished[c]: the flag the two hand the count over with
  granted     \* granted[c]: the spec c is served under

slots == <<active, claims>>
reading == <<abandoned, reader, finished>>
vars == <<slots, reading, phase, granted>>

Phases == {"away", "backlog", "admitted", "receiving", "spec", "timedout",
           "counted", "serving", "reply", "answered", "closed"}

\* Phases in which the worker holds a slot, and in which it holds a claim.
Slotted == {"admitted", "receiving", "spec", "timedout", "counted",
            "serving", "reply", "answered"}
Claiming == {"receiving", "spec", "timedout", "counted", "serving"}

TypeOK ==
  /\ active \in 0..MaxConnections
  /\ claims \in [Accounts -> 0..MaxPerUid]
  /\ abandoned \in [Accounts -> 0..Cardinality(Conns)]
  /\ phase \in [Conns -> Phases]
  /\ reader \in [Conns -> {"none", "reading", "sent", "done"}]
  /\ finished \in [Conns -> BOOLEAN]
  /\ \A c \in Conns : granted[c] \in Specs[c] \cup {{}}

\* All but the connections' phases.
Idle ==
  /\ active = 0 /\ claims = [u \in Accounts |-> 0]
  /\ abandoned = [u \in Accounts |-> 0]
  /\ reader = [c \in Conns |-> "none"]
  /\ finished = [c \in Conns |-> FALSE]
  /\ granted = [c \in Conns |-> {}]

Init == Idle /\ phase = [c \in Conns |-> "away"]

-----------------------------------------------------------------------------
At(c, p) == phase[c] = p
Goto(c, p) == phase' = [phase EXCEPT ![c] = p]

Connect(c) ==
  /\ At(c, "away") /\ Goto(c, "backlog")
  /\ UNCHANGED <<slots, reading, granted>>

\* The accept loop; a connection over the limit is answered and let go.
Accept(c) ==
  /\ At(c, "backlog")
  /\ IF active >= MaxConnections
     THEN Goto(c, "closed") /\ UNCHANGED active
     ELSE Goto(c, "admitted") /\ active' = active + 1
  /\ UNCHANGED <<claims, reading, granted>>

\* A mistake to catch: one claim too many.
ClaimOneMore(c) ==
  /\ At(c, "admitted")
  /\ IF claims[Uid[c]] > MaxPerUid
     THEN Goto(c, "reply") /\ UNCHANGED claims
     ELSE Goto(c, "receiving") /\ claims' = [claims EXCEPT ![Uid[c]] = @ + 1]
  /\ UNCHANGED <<active, reading, granted>>

\* UidSlot::acquire
Claim(c) ==
  /\ At(c, "admitted")
  /\ IF claims[Uid[c]] >= MaxPerUid
     THEN Goto(c, "reply") /\ UNCHANGED claims
     ELSE Goto(c, "receiving") /\ claims' = [claims EXCEPT ![Uid[c]] = @ + 1]
  /\ UNCHANGED <<active, reading, granted>>

\* A mistake to catch: the claim outlives the request.
AnswerKeepsClaim(c) == Goto(c, "reply") /\ UNCHANGED claims

\* The claim is dropped with the closure, before the response is written.
Answer(c) ==
  /\ Goto(c, "reply")
  /\ claims' = [claims EXCEPT ![Uid[c]] = @ - 1]

\* Every verb but `run` is served at once.
ReceiveSimple(c) ==
  /\ At(c, "receiving") /\ Goto(c, "serving")
  /\ UNCHANGED <<slots, reading, granted>>

\* A `run` starts a reader, unless too many of its user's have been given up.
ReceiveRun(c) ==
  /\ At(c, "receiving") /\ abandoned[Uid[c]] < MaxAbandoned
  /\ Goto(c, "spec")
  /\ reader' = [reader EXCEPT ![c] = "reading"]
  /\ UNCHANGED <<slots, abandoned, finished, granted>>

\* Cut off by the deadline, malformed, without its three descriptors, over the
\* cap of abandoned readers, or no thread to be had.
ReceiveFails(c) ==
  /\ At(c, "receiving") /\ Answer(c)
  /\ UNCHANGED <<active, reading, granted>>

\* The reader: the file answers, the result is sent, the flag is swapped.
ReaderSends(c) ==
  /\ reader[c] = "reading" /\ c \notin Stalled
  /\ reader' = [reader EXCEPT ![c] = "sent"]
  /\ UNCHANGED <<slots, abandoned, finished, phase, granted>>

\* Whoever swaps the flag second takes the count back.
Swap(c) ==
  /\ finished' = [finished EXCEPT ![c] = TRUE]
  /\ abandoned' = [abandoned EXCEPT ![Uid[c]] = IF finished[c] THEN @ - 1 ELSE @]

ReaderFinishes(c) ==
  /\ reader[c] = "sent"
  /\ reader' = [reader EXCEPT ![c] = "done"]
  /\ Swap(c)
  /\ UNCHANGED <<slots, phase, granted>>

\* The specs validate_launch lets pass.
Acceptable == [c \in Conns |-> {s \in Specs[c] : IsAcceptable(Uid[c], s)}]

SpecRead(c) == At(c, "spec") /\ reader[c] \in {"sent", "done"}

SpecAccepted(c) ==
  /\ SpecRead(c) /\ Goto(c, "serving")
  /\ \E s \in Acceptable[c] : granted' = [granted EXCEPT ![c] = s]
  /\ UNCHANGED <<slots, reading>>

SpecRejected(c) ==
  /\ SpecRead(c) /\ Acceptable[c] # Specs[c]
  /\ Answer(c)
  /\ UNCHANGED <<active, reading, granted>>

\* A mistake to catch: recv without a timeout.
SpecNeverTimesOut(c) == FALSE

\* recv_timeout comes back empty; the result may still arrive after that.
SpecTimesOut(c) ==
  /\ At(c, "spec") /\ reader[c] = "reading" /\ Goto(c, "timedout")
  /\ UNCHANGED <<slots, reading, granted>>

CountAbandoned(c) ==
  /\ At(c, "timedout") /\ Goto(c, "counted")
  /\ abandoned' = [abandoned EXCEPT ![Uid[c]] = @ + 1]
  /\ UNCHANGED <<slots, reader, finished, granted>>

\* A mistake to catch: the timeout leaves the flag alone.
GiveUpSilently(c) ==
  /\ At(c, "counted") /\ Answer(c)
  /\ UNCHANGED <<active, reading, granted>>

GiveUp(c) ==
  /\ At(c, "counted") /\ Answer(c) /\ Swap(c)
  /\ UNCHANGED <<active, reader, granted>>

\* The request is done: the agent ended or never started, or a short request.
Served(c) ==
  /\ At(c, "serving") /\ Answer(c)
  /\ granted' = [granted EXCEPT ![c] = {}]
  /\ UNCHANGED <<active, reading>>

\* The response is out, or its write timed out.
Respond(c) ==
  /\ At(c, "reply") /\ Goto(c, "answered")
  /\ UNCHANGED <<slots, reading, granted>>

\* ConnectionSlot::drop, at the end of the worker thread.
Release(c) ==
  /\ At(c, "answered") /\ Goto(c, "closed")
  /\ active' = active - 1
  /\ UNCHANGED <<claims, reading, granted>>

\* What the helper does by itself; the rest waits for a client or an agent.
Worker(c) ==
  \/ Accept(c) \/ Claim(c) \/ ReceiveFails(c)
  \/ SpecAccepted(c) \/ SpecRejected(c) \/ SpecTimesOut(c)
  \/ CountAbandoned(c) \/ GiveUp(c) \/ Respond(c) \/ Release(c)

Reader(c) == ReaderSends(c) \/ ReaderFinishes(c)

Next ==
  \E c \in Conns :
    Connect(c) \/ ReceiveSimple(c) \/ ReceiveRun(c) \/ Served(c) \/ Worker(c) \/ Reader(c)

Spec == Init /\ [][Next]_vars

\* A worker is a thread with a deadline on everything it waits for, but for
\* the agent; a reader runs when its file answers.  No step leads back to an
\* earlier phase, so that fairness to all threads together is fairness to each.
Fairness == WF_vars(\E c \in Conns : Worker(c) \/ Reader(c))

FairSpec == Spec /\ Fairness

-----------------------------------------------------------------------------
Count(S) == Cardinality(S)

\* Every slot and claim belongs to a worker that will give it back: none leaks
\* on any path through handle, none is given back twice.
SlotsExact ==
  /\ active = Count({c \in Conns : phase[c] \in Slotted})
  /\ \A u \in Accounts :
       claims[u] = Count({c \in Conns : Uid[c] = u /\ phase[c] \in Claiming})

\* The count of a user's abandoned readers is the number of reader threads
\* nobody waits for any more, however a late answer and the timeout cross; and
\* as the cap is looked at before a read and raised after it, it is only kept
\* to within the reads that were under way.  Code: AbandonedReads,
\* read_with_deadline.
AbandonedExact ==
  \A u \in Accounts :
    /\ abandoned[u] = Count({c \in Conns : Uid[c] = u /\ phase[c] = "counted"})
         + Count({c \in Conns : /\ Uid[c] = u /\ reader[c] \in {"reading", "sent"}
                                /\ finished[c]})
    /\ abandoned[u] <= MaxAbandoned + MaxPerUid - 1

\* Homes of others, but for shared stubs and those that are part of the
\* caller's own.
OthersHomes(u) ==
  {a \in Accounts \ {u} : /\ Home[a] \notin StubHomes \cup {Root}
                          /\ ~Within(Home[a], Canonical(Home[u]))}

\* d lies in the home of a, and not in u's.
Strays(u, a, d) == Within(d, Home[a]) /\ ~Within(d, Canonical(Home[u]))

Trespasses(u, spec) ==
  \/ \E a \in OthersHomes(u) \cap Regular, d \in Reach(u, spec) : Strays(u, a, d)
  \/ \E a \in OthersHomes(u), g \in spec : Strays(u, a, GrantedPath(u, g[1], g[2]))

Trespassing == [c \in Conns |-> {s \in Specs[c] : Trespasses(Uid[c], s)}]

\* What an agent may reach is never the home of another regular user, and what
\* it is granted lies in nobody's home but the caller's.  Code:
\* foreign_home_conflict and all the grants that are checked with it.
GrantsStayHome == \A c \in Conns : granted[c] \notin Trespassing[c]

\* A stalled file or a silent client holds up nobody's answer: whoever is in
\* the backlog is served or told why not.
EveryRequestAnswered ==
  \A c \in Conns : phase[c] = "backlog" ~> phase[c] \in {"serving", "closed"}

===============================================================================
