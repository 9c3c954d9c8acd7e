---- MODULE MCLinuxFirewall ----
(* Half of the behaviours are on Linux: two guards of one user, in both      *)
(* scopes, whose LAN exceptions, denies and allows overlap, on a machine     *)
(* with a second user.  The other half are PF's guards on macOS: a run and   *)
(* two direct launches of one user, beside a helper without policies.        *)
EXTENDS LinuxFirewall, PfGuard, TLC

CONSTANTS r1, d1, d2, g1, g2, u1, u2, nas, site, nas6, site6

MCV4 == {nas, site}
MCV6 == {nas6, site6}
MCLans == <<{nas}, {nas6}>>
MCGuards == {g1, g2}
MCUids == {u1, u2}

Dest(addresses, ports) == [net |-> addresses, ports |-> ports]

MCChains == g1 :> <<"group", u1>> @@ g2 :> <<"user", u1>>

\* The first helps itself to the site but for two services; the second is for
\* two destinations only, or proxy-only.
OverVpn ==
  [scope |-> "group", uid |-> u1, interface |-> Vpn, gateway |-> TRUE,
   network |-> [default |-> "allow", allow |-> <<>>,
                deny |-> <<Dest({site}, {443}), Dest(MCV4, {22})>>,
                lan_allow |-> <<Dest({nas}, AnyPort), Dest({nas6}, {443})>>]]

Narrow ==
  [scope |-> "user", uid |-> u1, interface |-> Vpn, gateway |-> TRUE,
   network |-> [default |-> "deny",
                allow |-> <<Dest({site}, {443}), Dest({site6}, AnyPort)>>,
                deny |-> <<Dest({site6}, {22})>>,
                lan_allow |-> <<Dest({nas}, {22})>>]]

OverProxy == [Narrow EXCEPT !.interface = ProxyOnly, !.gateway = FALSE]

MCRuleSets == g1 :> {OverVpn} @@ g2 :> {Narrow, OverProxy}

-----------------------------------------------------------------------------
VARIABLE half

MCLaunches == {r1, d1, d2}
MCRuns == {r1}
MCVariants == r1 :> {"plain"} @@ d1 :> {"plain", "custom"} @@ d2 :> {"custom"}

ASSUME GuardsAssumption == PfConstants

\* The half a behaviour is not about stays in one state.
NoChains == Init /\ v6 = TRUE
NoGuards ==
  /\ PfInit /\ alive
  /\ net = CHOOSE f \in [Launches -> Variants] : \A l \in Launches : f[l] \in VariantsOf[l]

MCInit == \/ half = "iptables" /\ Init /\ NoGuards
          \/ half = "pf" /\ NoChains /\ PfInit
MCNext == /\ UNCHANGED half
          /\ \/ half = "iptables" /\ Next /\ UNCHANGED pfVars
             \/ half = "pf" /\ PfNext /\ UNCHANGED vars
MCSpec == MCInit /\ [][MCNext]_<<half, vars, pfVars>>
====
