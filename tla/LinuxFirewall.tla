----------------------------- MODULE LinuxFirewall -----------------------------
(***************************************************************************)
(* The guards that put iptables chains in place and remove them, command   *)
(* by command (lianyaohu-core/src/linux_firewall.rs).                      *)
(*                                                                         *)
(* A guard belongs to the helper (group scope: one user's sessions) or to  *)
(* a launcher that uses sudo (user scope: everything of the user).  Each   *)
(* command is one atomic change of the kernel's tables (-w), the commands  *)
(* of different guards interleave, a command may fail, and a process may   *)
(* be killed between two commands.  A new helper reaps the chains it finds *)
(* before it serves.                                                       *)
(***************************************************************************)
EXTENDS NetworkPolicy, FiniteSets

CONSTANTS
  Guards,        \* guards, one per chain name
  ChainOf,       \* ChainOf[g]: the name of g's chain, its scope and uid
  RuleSetsOf,    \* RuleSetsOf[g]: the rule sets g may be made for
  Uids,          \* the users of the machine
  ReapAnyTime,   \* may a helper start while agents of earlier guards live?
  MaxFaults,     \* bound: commands that fail though the tables allow them
  NoChain,       \* there is no chain of that name
  Partial        \* for GuardChains: some of a chain is there

ASSUME GuardAssumption ==
  /\ \A g, h \in Guards : ChainOf[g] = ChainOf[h] => g = h
  /\ \A g \in Guards : \A rs \in RuleSetsOf[g] :
       /\ ChainOf[g] = <<rs.scope, rs.uid>> /\ rs.scope \in {"user", "group"} /\ rs.uid \in Uids
       /\ rs.interface \in {Vpn, ProxyOnly} /\ rs.gateway \in BOOLEAN
       /\ rs.network \in NetworkPolicies /\ ValidPolicy(rs.network)
  /\ ReapAnyTime \in BOOLEAN /\ MaxFaults \in Nat
  /\ IsFiniteSet(Guards) /\ "helper" \notin Guards
  /\ \A g \in Guards : RuleSetsOf[g] # {}
  /\ NoChain \notin Seq(FilterRules)
  /\ NoChain # Partial /\ \A g \in Guards : {NoChain, Partial} \cap RuleSetsOf[g] = {}

VARIABLES
  chain,    \* chain[f][n]: the rules of family f's chain n, or NoChain
  output,   \* output[f]: the jumps at the head of OUTPUT, by chain name
  built,    \* built[g]: the rule set g's chain was last built from
  pc,       \* pc[g]: how far guard g has come; pc["helper"]: the helper process
  todo,     \* todo[g]: the commands g (or the reaping helper) still has to run
  v6,       \* is ip6tables installed?
  faults    \* how many more commands may fail for a reason the tables do not show

vars == <<chain, output, built, pc, todo, v6, faults>>

\* Scopes never share a chain, and the name tells whose packets jump to it.
ChainName(rs) == <<rs.scope, rs.uid>>
Names == {ChainOf[g] : g \in Guards}

IsHelpers(g) == ChainOf[g][1] = "group"

\* The owner match of a jump: the uid, and the session's gid for group scope.
OwnerMatch(n, from) == from.uid = n[2] /\ (n[1] = "group" => from.session)

Senders == [uid : Uids, session : BOOLEAN]
Workers == Guards \cup {"helper"}

-------------------------------------------------------------------------------
(* Commands.                                                                *)

Command(f, op, n) == [family |-> f, op |-> op, name |-> n]

\* The -A commands of a chain, one per rule.  They are one step: nothing jumps
\* to the chain before the last of them, and one that fails ends the step.
AppendCommands(f, n, rules) == [family |-> f, op |-> "A", name |-> n, rules |-> rules]

SetupCommands(rs, f) ==
  LET n == ChainName(rs)
  IN <<Command(f, "N", n), Command(f, "F", n),
       AppendCommands(f, n, Chain(rs, f)), Command(f, "I", n)>>

CleanupKeepsChain(n) ==
  LET of(f) == <<Command(f, "D", n), Command(f, "F", n)>>
  IN of("v4") \o of("v6")

CleanupCommands(n) ==
  LET of(f) == <<Command(f, "D", n), Command(f, "F", n), Command(f, "X", n)>>
  IN of("v4") \o of("v6")

ReapKeepsJumps(f) ==
  LET chains == SetToSeq({n \in Names : chain[f][n] # NoChain})
  IN ForEach(chains, LAMBDA n : <<Command(f, "F", n), Command(f, "X", n)>>)

\* What a reaping helper runs for family f, from one listing of its tables.
ReapCommands(f) ==
  LET chains == SetToSeq({n \in Names : chain[f][n] # NoChain})
  IN [i \in DOMAIN output[f] |-> Command(f, "D", output[f][i])]
       \o ForEach(chains, LAMBDA n : <<Command(f, "F", n), Command(f, "X", n)>>)

\* The conditions under which the kernel carries command c out.
Possible(c) ==
  LET exists == chain[c.family][c.name] # NoChain
      jumped == Contains(output[c.family], c.name)
  IN /\ c.family = "v6" => v6
     /\ CASE c.op = "N" -> ~exists
          [] c.op \in {"F", "A", "I"} -> exists
          [] c.op = "D" -> jumped
          [] c.op = "X" -> exists /\ ~jumped /\ chain[c.family][c.name] = <<>>

Effect(c) ==
  LET f == c.family
      n == c.name
      Becomes(rules) == chain' = [chain EXCEPT ![f][n] = rules] /\ UNCHANGED output
      Jumps(names) == output' = [output EXCEPT ![f] = names] /\ UNCHANGED chain
  IN CASE c.op \in {"N", "F"} -> Becomes(<<>>)
       [] c.op = "A" -> Becomes(chain[f][n] \o c.rules)
       [] c.op = "X" -> Becomes(NoChain)
       [] c.op = "I" -> Jumps(<<n>> \o output[f])
       [] c.op = "D" -> Jumps(RemoveFirst(output[f], n))

\* What a failure leaves: nothing, or the rules before the one that failed.
\* It is the last one here (a bound): a chain is flushed before it is filled
\* again, and jumped to only when it is full.
PartialEffect(c) ==
  \/ UNCHANGED <<chain, output>>
  \/ /\ c.op = "A" /\ Possible(c)
     /\ Effect([c EXCEPT !.rules = Front(@)])

-------------------------------------------------------------------------------
Init ==
  /\ chain = [f \in Families |-> [n \in Names |-> NoChain]]
  /\ output = [f \in Families |-> <<>>]
  /\ built = [g \in Guards |-> CHOOSE rs \in RuleSetsOf[g] : TRUE]
  /\ pc = [w \in Workers |-> IF w = "helper" THEN "down" ELSE "idle"]
  /\ todo = [w \in Workers |-> <<>>]
  /\ v6 \in BOOLEAN
  /\ faults = MaxFaults

Goto(w, at, commands) ==
  /\ pc' = [pc EXCEPT ![w] = at]
  /\ todo' = [todo EXCEPT ![w] = commands]

Cleanup(g) == CleanupCommands(ChainOf[g])
\* A mistake to catch: IPv6 is forgotten.
SetupV4Only(rs) == SetupCommands(rs, "v4")
Setup(rs) == SetupCommands(rs, "v4") \o SetupCommands(rs, "v6")

Reaping == pc["helper"] \in {"reap4", "reap6"}
Live(g) == pc[g] \in {"active", "orphaned"}

-------------------------------------------------------------------------------
(* A guard.                                                                 *)

\* install starts with a cleanup of what may be left of an earlier guard.
Install(g) ==
  /\ pc[g] = "idle"
  /\ IF IsHelpers(g) THEN pc["helper"] = "up" ELSE ReapAnyTime \/ ~Reaping
  /\ Goto(g, "cleaning", Cleanup(g))
  /\ UNCHANGED <<chain, output, built, v6, faults>>

Succeed(w) ==
  /\ todo[w] # <<>>
  /\ Possible(Head(todo[w]))
  /\ Effect(Head(todo[w]))
  /\ todo' = [todo EXCEPT ![w] = Tail(todo[w])]
  /\ UNCHANGED <<built, pc, v6, faults>>

FailUnlessExists(w) ==
  /\ todo[w] # <<>>
  /\ \/ ~Possible(Head(todo[w])) /\ UNCHANGED faults
     \/ Possible(Head(todo[w])) /\ faults > 0 /\ faults' = faults - 1
  /\ IF pc[w] = "building" /\ Head(todo[w]).op # "N"
     THEN Goto(w, "undoing", Cleanup(w))
     ELSE Goto(w, pc[w], Tail(todo[w]))
  /\ PartialEffect(Head(todo[w]))
  /\ UNCHANGED <<built, v6>>

\* Only setup stops at a command that fails, and undoes what it did.
Fail(w) ==
  /\ todo[w] # <<>>
  /\ \/ ~Possible(Head(todo[w])) /\ UNCHANGED faults
     \/ Possible(Head(todo[w])) /\ faults > 0 /\ faults' = faults - 1
  /\ IF pc[w] = "building"
     THEN Goto(w, "undoing", Cleanup(w))
     ELSE Goto(w, pc[w], Tail(todo[w]))
  /\ PartialEffect(Head(todo[w]))
  /\ UNCHANGED <<built, v6>>

\* Cleanup through, install begins to build.  What came before depends on the
\* chain's name only, so the rule set is chosen here.
Build(g) ==
  /\ pc[g] = "cleaning" /\ todo[g] = <<>>
  /\ \E rs \in RuleSetsOf[g] :
       /\ built' = [built EXCEPT ![g] = rs]
       /\ Goto(g, "building", Setup(rs))
  /\ UNCHANGED <<chain, output, v6, faults>>

\* What comes after the last command of every other phase.
Proceed(w) ==
  /\ todo[w] = <<>>
  /\ \/ pc[w] = "building" /\ Goto(w, "active", <<>>)
     \/ pc[w] \in {"undoing", "removing"} /\ Goto(w, "idle", <<>>)
     \/ pc[w] = "reap4" /\ Goto(w, "reap6", IF v6 THEN ReapCommands("v6") ELSE <<>>)
     \/ pc[w] = "reap6" /\ Goto(w, "up", <<>>)
  /\ UNCHANGED <<chain, output, built, v6, faults>>

\* uninstall, and the drop of an installed guard on every other way out.
Uninstall(g) ==
  /\ pc[g] = "active"
  /\ Goto(g, "removing", Cleanup(g))
  /\ UNCHANGED <<chain, output, built, v6, faults>>

-------------------------------------------------------------------------------
(* Processes that die.  The tables outlive them, and so may their agents.   *)

AfterDeath(g) == IF Live(g) THEN "orphaned" ELSE "idle"

LauncherDies(g) ==
  /\ ~IsHelpers(g) /\ pc[g] \notin {"idle", "orphaned"}
  /\ Goto(g, AfterDeath(g), <<>>)
  /\ UNCHANGED <<chain, output, built, v6, faults>>

Helpers == {g \in Guards : IsHelpers(g)} \cup {"helper"}

HelperDies ==
  /\ pc["helper"] # "down"
  /\ pc' = [w \in Workers |-> IF w = "helper" THEN "down"
                              ELSE IF IsHelpers(w) THEN AfterDeath(w) ELSE pc[w]]
  /\ todo' = [w \in Workers |-> IF w \in Helpers THEN <<>> ELSE todo[w]]
  /\ UNCHANGED <<chain, output, built, v6, faults>>

AgentEnds(g) ==
  /\ pc[g] = "orphaned"
  /\ Goto(g, "idle", <<>>)
  /\ UNCHANGED <<chain, output, built, v6, faults>>

\* The helper reaps before it serves, family by family.  It cannot tell a
\* leftover from the chain of a live agent.
HelperStarts ==
  /\ pc["helper"] = "down"
  /\ ReapAnyTime \/ \A g \in Guards : pc[g] = "idle"
  /\ Goto("helper", "reap4", ReapCommands("v4"))
  /\ UNCHANGED <<chain, output, built, v6, faults>>

Next ==
  \/ \E w \in Workers : Succeed(w) \/ Fail(w) \/ Proceed(w)
  \/ \E g \in Guards : Install(g) \/ Build(g) \/ Uninstall(g) \/ LauncherDies(g) \/ AgentEnds(g)
  \/ HelperDies \/ HelperStarts

Spec == Init /\ [][Next]_vars

-------------------------------------------------------------------------------
(* Properties.                                                              *)

\* Variables hold values of their kinds; only a phase that runs commands has
\* commands left; a chain name is jumped to at most once per family, and
\* only when the chain exists.
TypeOK ==
  /\ \A w \in Workers :
       /\ pc[w] \in IF w = "helper" THEN {"down", "reap4", "reap6", "up"}
                    ELSE {"idle", "cleaning", "building", "active", "undoing",
                          "removing", "orphaned"}
       /\ pc[w] \in {"idle", "active", "orphaned", "down", "up"} => todo[w] = <<>>
  /\ \A f \in Families : \A i \in DOMAIN output[f] :
       /\ chain[f][output[f][i]] # NoChain
       /\ \A j \in DOMAIN output[f] : output[f][i] = output[f][j] => i = j

\* What the policies allow, and what the PF rules for them do.
RuleSets == UNION {RuleSetsOf[g] : g \in Guards}
AllowedBy == [rs \in RuleSets |-> {p \in Packets : Allowed(rs, p)}]
PfDoes == [rs \in RuleSets |-> LET rules == PfAnchor(rs)
                              IN [p \in Packets |-> Verdict(rules, p, "pass")]]

FamilyOf(p) == IF p.dst \in V4 THEN "v4" ELSE "v6"

Accepts(n, p) == Verdict(chain[FamilyOf(p)][n], p, "RETURN") = "RETURN"

\* OUTPUT accepts what every chain returns whose jump matches the sender.
Accepted(from, p) ==
  \A i \in DOMAIN output[FamilyOf(p)] : LET n == output[FamilyOf(p)][i] IN
    OwnerMatch(n, from) => Accepts(n, p)

\* An agent under a guard that reported success (and is not being removed)
\* gets out only what the guard's policy allows, whatever other guards do,
\* whichever commands failed before, and if the guard's process is dead.
Confined ==
  \A g \in Guards : Live(g) =>
    \A p \in Packets \ AllowedBy[built[g]], from \in Senders :
      OwnerMatch(ChainOf[g], from) => ~Accepted(from, p)

\* g's chain accepts, of family f, just what rule set rs allows.
PacketsOf(f) == {p \in Packets : FamilyOf(p) = f}
Decides(g, f, rs) ==
  \A p \in PacketsOf(f) : Accepts(ChainOf[g], p) <=> p \in AllowedBy[rs]

\* Nobody's packet is rejected but for a policy that forbids it: not by a
\* chain half built or half removed, and not in an order of rules that shadows
\* an exception.  A chain that packets get to is its guard's whole policy, or
\* empty; what a failed clean-up left behind may be an earlier policy's.
OnlyPolicyRejects ==
  \A g \in Guards, f \in Families : Contains(output[f], ChainOf[g]) =>
    IF Live(g) THEN Decides(g, f, built[g])
    ELSE \/ \A p \in PacketsOf(f) : Accepts(ChainOf[g], p)
         \/ \E rs \in RuleSetsOf[g] : Decides(g, f, rs)

\* The PF rules for the same policy decide like the chain in place, for the
\* protocols PF filters; what PF sends to the VPN instead, the chain would
\* let out there.
PfAgrees ==
  \A g \in Guards : Live(g) =>
    LET does == PfDoes[built[g]] IN
    \A p \in Packets : p.proto \in {"tcp", "udp"} =>
      /\ does[p] = "pass" <=> Accepts(ChainOf[g], p)
      /\ does[p] = "reroute" => Accepts(ChainOf[g], [p EXCEPT !.out = Vpn])

Reliable == faults = MaxFaults

\* As long as the kernel does what it is told, an install succeeds whatever
\* killed processes left behind in the tables.
InstallHeals ==
  [][\A g \in Guards : Reliable' /\ v6 /\ pc[g] = "building" => pc'[g] # "undoing"]_vars

NoTrace(n) == \A f \in Families : chain[f][n] = NoChain /\ ~Contains(output[f], n)

\* An uninstall or a failed install, once through, leaves nothing of the guard
\* in the tables, and a helper that begins to serve has left nothing at all.
RemovalIsComplete ==
  [][Reliable =>
     /\ \A g \in Guards :
          pc[g] \in {"undoing", "removing"} /\ todo[g] = <<>> /\ pc'[g] = "idle"
            => NoTrace(ChainOf[g])'
     /\ pc["helper"] = "reap6" /\ pc'["helper"] = "up" => \A n \in Names : NoTrace(n)']_vars

-------------------------------------------------------------------------------
(* What the program counts on.                                              *)

\* How a guard stands to one that knows nothing of its commands.
PhaseOf ==
  [g \in Guards |-> IF pc[g] \in {"cleaning", "building", "undoing"} THEN "installing"
                    ELSE IF pc[g] = "active" THEN "standing" ELSE pc[g]]

PolicyChains == [rs \in RuleSets |-> [f \in Families |-> Chain(rs, f)]]

\* Both families' packets get to the whole chain of the rule set.
InPlace(g) ==
  \A f \in Families : /\ chain[f][ChainOf[g]] = PolicyChains[built[g]][f]
                      /\ Contains(output[f], ChainOf[g])

MarkOf ==
  [g \in Guards |-> IF Live(g) /\ InPlace(g) THEN built[g]
                    ELSE IF pc[g] = "idle" /\ NoTrace(ChainOf[g]) THEN NoChain
                    ELSE Partial]

HelperOf == IF Reaping THEN "reaping" ELSE pc["helper"]

Chains == INSTANCE GuardChains WITH
  OfHelper <- {g \in Guards : IsHelpers(g)},
  NoRules <- NoChain,
  phase <- PhaseOf,
  mark <- MarkOf,
  helper <- HelperOf,
  trouble <- ~Reliable

\* Command by command, with kills, failures and other guards in between, a
\* guard is what GuardChains says of it: its tables are seen as nothing, as
\* one policy's rules in both families, or are nobody's.
ChainsSpec == Chains!Spec

===============================================================================
