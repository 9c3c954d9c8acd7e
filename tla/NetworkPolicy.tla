----------------------------- MODULE NetworkPolicy -----------------------------
(***************************************************************************)
(* What a network policy allows, and the two rule lists that are to        *)
(* enforce it: the iptables chain of linux_firewall.rs and the PF anchor   *)
(* of pf.rs (lianyaohu-core; the policy's types are in policy.rs).         *)
(*                                                                         *)
(* A network is the set of its addresses, a rule a set of packets with a   *)
(* target, and a rule list is first-match-wins.  This module has no state; *)
(* LinuxFirewall executes the commands that put the chain in place.        *)
(***************************************************************************)
EXTENDS Naturals, Sequences, SequencesExt

CONSTANTS
  V4, V6,        \* the addresses of the two families
  Lans,          \* the sequence of blocked LAN networks (LAN4_BLOCKED, LAN6_BLOCKED)
  Ports,         \* TCP and UDP ports
  Vpn, Other,    \* the VPN interface, and every other one but lo
  ProxyOnly      \* the interface name that stands for proxy-only mode

Families == {"v4", "v6"}
Protocols == {"tcp", "udp", "icmp"}
Interfaces == {"lo", Vpn, Other}
Addresses(f) == IF f = "v4" THEN V4 ELSE V6

ASSUME PolicyAssumption ==
  /\ V4 \cap V6 = {}
  /\ Lans \in Seq((SUBSET V4) \cup (SUBSET V6))
  /\ "lo" \notin {Vpn, Other} /\ Vpn # Other /\ ProxyOnly \notin Interfaces

\* A destination of a policy: a network of one family, and its ports; a rule
\* that names none is for every port and protocol.
DestRules == [net : (SUBSET V4) \cup (SUBSET V6), ports : SUBSET Ports]
AnyPort == {}

NetworkPolicies ==
  [default : {"allow", "deny"},
   allow : Seq(DestRules), deny : Seq(DestRules), lan_allow : Seq(DestRules)]

\* LAN exceptions stay within one of the blocked ranges.
ValidPolicy(np) ==
  \A i \in DOMAIN np.lan_allow : \E j \in DOMAIN Lans : np.lan_allow[i].net \subseteq Lans[j]

Packets == [dst : V4 \cup V6, out : Interfaces, proto : Protocols, port : Ports]

IsProxyOnly(rs) == rs.interface = ProxyOnly

-------------------------------------------------------------------------------
(* The policy, without an order of rules.                                   *)

InLan(p) == \E i \in DOMAIN Lans : p.dst \in Lans[i]

Hit(d, p) ==
  /\ p.dst \in d.net
  /\ d.ports # AnyPort => p.proto \in {"tcp", "udp"} /\ p.port \in d.ports

HitAny(ds, p) == \E i \in DOMAIN ds : Hit(ds[i], p)

\* May a packet p of an agent under rule set rs leave the machine?  LAN
\* exceptions hold on every interface and against every deny.
Allowed(rs, p) ==
  \/ p.out = "lo"
  \/ /\ ~IsProxyOnly(rs)
     /\ \/ HitAny(rs.network.lan_allow, p)
        \/ /\ ~InLan(p)
           /\ ~HitAny(rs.network.deny, p)
           /\ p.out = rs.interface
           /\ rs.network.default = "allow" \/ HitAny(rs.network.allow, p)

-------------------------------------------------------------------------------
(* Rule lists.                                                              *)

\* A rule for the packets to dst that leave by one of out.
Rule(dst, out, proto, ports, target) ==
  [dst |-> dst, out |-> out, proto |-> proto, ports |-> ports, target |-> target]

FilterRules ==
  [dst : SUBSET (V4 \cup V6), out : SUBSET Interfaces, proto : SUBSET Protocols,
   ports : SUBSET Ports, target : {"RETURN", "REJECT", "pass", "block", "reroute"}]

Matches(r, p) == p.dst \in r.dst /\ p.out \in r.out /\ p.proto \in r.proto /\ p.port \in r.ports

\* The target of the first rule that matches, or what happens without one.
Verdict(rules, p, otherwise) ==
  LET hits == {i \in DOMAIN rules : Matches(rules[i], p)}
  IN IF hits = {} THEN otherwise
     ELSE rules[CHOOSE i \in hits : \A j \in hits : i <= j].target

\* The rules of a list of destinations, each rendered by R, in order.
ForEach(ds, R(_)) == FlattenSeq([i \in DOMAIN ds |-> R(ds[i])])

\* Those of family f, if dst is of it.
OfFamily(f, dst, rules) == IF dst \subseteq Addresses(f) THEN rules ELSE <<>>

-------------------------------------------------------------------------------
(* iptables: one chain per family.                                          *)

ChainRule(dst, out, target) == Rule(dst, out, Protocols, Ports, target)

\* A port needs a protocol: such a rule becomes one for TCP and one for UDP.
DestinationRules(d, out, target) ==
  IF d.ports = AnyPort
  THEN <<ChainRule(d.net, out, target)>>
  ELSE <<Rule(d.net, out, {"tcp"}, d.ports, target), Rule(d.net, out, {"udp"}, d.ports, target)>>

Destinations(f, ds, out, target) ==
  ForEach(ds, LAMBDA d : OfFamily(f, d.net, DestinationRules(d, out, target)))

ChainTail(rs, f) ==
  IF IsProxyOnly(rs) THEN <<>>
  ELSE IF rs.network.default = "allow"
  THEN <<ChainRule(Addresses(f), {rs.interface}, "RETURN")>>
  ELSE Destinations(f, rs.network.allow, {rs.interface}, "RETURN")

LanExceptions(rs, f) ==
  IF IsProxyOnly(rs) THEN <<>>
  ELSE Destinations(f, rs.network.lan_allow, Interfaces, "RETURN")

LanBlocks(f) ==
  ForEach(Lans, LAMBDA lan : OfFamily(f, lan, <<ChainRule(lan, Interfaces, "REJECT")>>))

Denies(rs, f) == Destinations(f, rs.network.deny, Interfaces, "REJECT")

ToLoopback(f) == <<ChainRule(Addresses(f), {"lo"}, "RETURN")>>
Rest(f) == <<ChainRule(Addresses(f), Interfaces, "REJECT")>>

ChainDeniesLast(rs, f) ==
  ToLoopback(f) \o LanExceptions(rs, f) \o LanBlocks(f) \o ChainTail(rs, f) \o Denies(rs, f)
    \o Rest(f)

ChainBlocksFirst(rs, f) ==
  ToLoopback(f) \o LanBlocks(f) \o LanExceptions(rs, f) \o Denies(rs, f) \o ChainTail(rs, f)
    \o Rest(f)

Chain(rs, f) ==
  ToLoopback(f) \o LanExceptions(rs, f) \o LanBlocks(f) \o Denies(rs, f) \o ChainTail(rs, f)
    \o Rest(f)

-------------------------------------------------------------------------------
(* PF: one anchor for both families; every rule is quick and for TCP and    *)
(* UDP only.                                                                *)

PfRule(dst, out, ports, target) == Rule(dst, out, {"tcp", "udp"}, ports, target)

PortsOf(d) == IF d.ports = AnyPort THEN Ports ELSE d.ports
DestinationClause(d, out, target) == <<PfRule(d.net, out, PortsOf(d), target)>>
Clauses(ds, out, target) == ForEach(ds, LAMBDA d : DestinationClause(d, out, target))

AnyAddress == V4 \cup V6
NotVpn(rs) == Interfaces \ {rs.interface}
BlockRest == <<PfRule(AnyAddress, Interfaces, Ports, "block")>>

\* With a gateway, IPv4 bound for another interface is sent to the VPN instead.
Rerouted(rs, dst, ports) ==
  IF rs.gateway THEN <<PfRule(dst, NotVpn(rs), ports, "reroute")>> ELSE <<>>

PfTailReroutesAll(rs) ==
  IF IsProxyOnly(rs) THEN BlockRest
  ELSE Rerouted(rs, V4, Ports) \o <<PfRule(AnyAddress, NotVpn(rs), Ports, "block")>>
         \o (IF rs.network.default = "allow"
             THEN <<PfRule(AnyAddress, {rs.interface}, Ports, "pass")>>
             ELSE Clauses(rs.network.allow, {rs.interface}, "pass")
                    \o BlockRest)

PfTail(rs) ==
  IF IsProxyOnly(rs) THEN BlockRest
  ELSE IF rs.network.default = "allow"
  THEN Rerouted(rs, V4, Ports) \o <<PfRule(AnyAddress, NotVpn(rs), Ports, "block")>>
         \o <<PfRule(AnyAddress, {rs.interface}, Ports, "pass")>>
  ELSE ForEach(rs.network.allow,
               LAMBDA d : DestinationClause(d, {rs.interface}, "pass")
                            \o (IF d.net \subseteq V4 THEN Rerouted(rs, d.net, PortsOf(d)) ELSE <<>>))
         \o BlockRest

PfAnchor(rs) ==
  <<PfRule(AnyAddress, {"lo"}, Ports, "pass")>>
    \o (IF IsProxyOnly(rs) THEN <<>>
        ELSE Clauses(rs.network.lan_allow, Interfaces, "pass"))
    \o ForEach(Lans, LAMBDA lan : <<PfRule(lan, Interfaces, Ports, "block")>>)
    \o Clauses(rs.network.deny, Interfaces, "block")
    \o PfTail(rs)
===============================================================================
