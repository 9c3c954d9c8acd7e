------------------------------- MODULE PfGuard -------------------------------
(***************************************************************************)
(* PF's guards on macOS, command by command: PFGuard of a direct launch    *)
(* (lianyaohu-core/src/pf.rs) and its twin in the root helper              *)
(* (acquire_session and teardown_session in helper_daemon.rs).             *)
(*                                                                         *)
(* PF filters while somebody holds a reference to it: `pfctl -E` takes one *)
(* and prints its token, `pfctl -X token` gives it back.  The helper runs  *)
(* its commands under a mutex, a launch with sudo runs its own at any      *)
(* time, any command may fail, and the helper may be killed between two.   *)
(* The launches are of one user, whose helper sessions are one at a time.  *)
(***************************************************************************)
EXTENDS Naturals, FiniteSets

CONSTANTS
  Launches,    \* launches, each of which wants a guard once
  RunLaunches, \* those that ask the helper to run the agent; the rest are direct
  VariantsOf,  \* VariantsOf[l]: the network policies l may have
  DefaultNet,  \* the policy every helper knows
  PolicyAware, \* does the helper support install-time policies?
  MaxDeaths,   \* bound: kills of the helper or of a launch
  NoRules, None

Owners == {"user", "group"}
Variants == UNION {VariantsOf[l] : l \in Launches}

\* The helper's entry for the user: which scope, its rules, how many count on
\* it, and whether it has a token to give back.
Sessions == [owner : Owners, net : Variants, count : Nat \ {0}, token : BOOLEAN]

PfConstants ==
  /\ IsFiniteSet(Launches) /\ RunLaunches \subseteq Launches
  /\ None \notin Launches \cup Sessions /\ MaxDeaths \in Nat

VARIABLES
  alive,     \* is there a helper process?
  lock,      \* the launch whose request the helper holds its mutex for, or None
  session,   \* the user's entry in the helper's map, or None
  phase,        \* phase[l]: how far l's guard has come
  backend,   \* backend[l]: who runs its commands, "helper" or "sudo"
  net,       \* net[l]: its policy
  token,     \* token[l]: has whoever runs the commands a token to give back?
  file,      \* the rules file of the user's sudo guards on the interface
  anchor,    \* anchor[s]: the rules PF has under the user's anchor of scope s
  refs,      \* PF's references
  deaths,    \* kills so far
  lost,      \* history: references nobody can give back any more
  disturbed  \* history: scopes where a guard may have lost its rules to another

helper == <<alive, lock, session>>
pf == <<anchor, refs, lost>>
launch == <<phase, backend, net, token, file>>
pfVars == <<helper, launch, pf, deaths, disturbed>>

Phases == {"idle", "written", "enabling", "loading", "unwinding", "guarded",
           "flushing", "releasing", "done"}

PfTypeOK ==
  /\ alive \in BOOLEAN /\ lock \in Launches \cup {None}
  /\ session # None => session.owner \in Owners /\ session.count \in 1..Cardinality(Launches)
  /\ phase \in [Launches -> Phases] /\ backend \in [Launches -> {"none", "helper", "sudo"}]
  /\ token \in [Launches -> BOOLEAN] /\ \A l \in Launches : net[l] \in VariantsOf[l]
  /\ anchor \in [Owners -> Variants \cup {NoRules}] /\ file \in Variants \cup {NoRules}
  /\ {refs, lost} \subseteq Nat /\ disturbed \subseteq Owners /\ deaths \in 0..MaxDeaths
  /\ lock # None => alive

PfInit ==
  /\ alive \in BOOLEAN /\ lock = None /\ session = None
  /\ phase = [l \in Launches |-> "idle"] /\ backend = [l \in Launches |-> "none"]
  /\ net \in {f \in [Launches -> Variants] :
                \A l \in Launches : f[l] \in VariantsOf[l]}
  /\ token = [l \in Launches |-> FALSE]
  /\ file = NoRules /\ anchor = [s \in Owners |-> NoRules] /\ refs = 0
  /\ deaths = 0 /\ lost = 0 /\ disturbed = {}

-----------------------------------------------------------------------------
\* SocketOwner: a direct launch guards everything of its user.
Owner(l) == IF l \in RunLaunches THEN "group" ELSE "user"

\* A mistake to catch: one anchor per user.
AnchorOfUid(l) == "user"

\* anchor_name: the scopes never share an anchor, for each loads and flushes
\* its own as a whole.
AnchorName(l) == Owner(l)

Reach(l, p) == phase' = [phase EXCEPT ![l] = p]
Standing(l) == phase[l] = "guarded"

\* Another guard of the scope stands, or a session of the helper, and one of the
\* two is not the helper's.
Shared(l) ==
  \/ backend[l] = "sudo" /\ session # None /\ session.owner = Owner(l)
  \/ \E o \in Launches \ {l} :
       Owner(o) = Owner(l) /\ Standing(o) /\ "sudo" \in {backend[l], backend[o]}
Disturbs(l, mixed) ==
  disturbed' = disturbed \cup (IF mixed \/ Shared(l) THEN {Owner(l)} ELSE {})

-----------------------------------------------------------------------------
(* Asking for a guard. *)

Joins(l) == session # None /\ session.owner = Owner(l) /\ session.net = net[l]

\* try_helper_install: only a custom policy is negotiated; without a helper, or
\* with one that would install the default rules for it, sudo is used.
TakesHelper(l) == alive /\ (l \in RunLaunches \/ net[l] = DefaultNet \/ PolicyAware)

AskHelper(l) ==
  /\ phase[l] = "idle" /\ TakesHelper(l) /\ lock = None
  /\ backend' = [backend EXCEPT ![l] = "helper"]
  /\ IF session = None THEN Reach(l, "written") /\ lock' = l /\ UNCHANGED session
     ELSE IF Joins(l) THEN /\ Reach(l, "guarded") /\ UNCHANGED lock
                           /\ session' = [session EXCEPT !.count = @ + 1]
     ELSE Reach(l, "done") /\ UNCHANGED <<lock, session>>
  /\ UNCHANGED <<alive, net, token, file, pf, deaths, disturbed>>

UseSudo(l) ==
  /\ phase[l] = "idle" /\ l \notin RunLaunches /\ ~TakesHelper(l)
  /\ backend' = [backend EXCEPT ![l] = "sudo"]
  /\ Reach(l, "written") /\ file' = net[l]
  /\ UNCHANGED <<helper, net, token, pf, deaths, disturbed>>

\* A run needs the helper.
RunRefused(l) ==
  /\ phase[l] = "idle" /\ l \in RunLaunches /\ ~alive /\ Reach(l, "done")
  /\ UNCHANGED <<helper, backend, net, token, file, pf, deaths, disturbed>>

-----------------------------------------------------------------------------
(* Installing, for both backends: -n, -E, -f, and -X when the last fails. *)

Unlock(l) == lock' = IF backend[l] = "helper" THEN None ELSE lock
Abandon(l) == Reach(l, "done") /\ Unlock(l)

\* The rules pfctl reads for l.  The helper writes its file under its mutex; the
\* sudo guards of a user overwrite and remove each other's.
Rules(l) == IF backend[l] = "sudo" THEN file ELSE net[l]

Check(l) ==
  /\ phase[l] = "written"
  /\ \/ Rules(l) # NoRules /\ Reach(l, "enabling") /\ UNCHANGED lock
     \/ Abandon(l)
  /\ UNCHANGED <<alive, session, backend, net, token, file, pf, deaths, disturbed>>

\* parse_enable_token: a token that is not recognised is not given back.
Enable(l) ==
  /\ phase[l] = "enabling" /\ Reach(l, "loading")
  /\ refs' = refs + 1
  /\ \E parsed \in BOOLEAN :
       /\ token' = [token EXCEPT ![l] = parsed]
       /\ lost' = IF parsed THEN lost ELSE lost + 1
  /\ UNCHANGED <<helper, backend, net, file, anchor, deaths, disturbed>>

EnableFails(l) ==
  /\ phase[l] = "enabling" /\ Abandon(l)
  /\ UNCHANGED <<alive, session, backend, net, token, file, pf, deaths, disturbed>>

\* The rules are in force; the helper enters them in its map with the token.
Load(l) ==
  /\ phase[l] = "loading" /\ Rules(l) # NoRules /\ Reach(l, "guarded")
  /\ anchor' = [anchor EXCEPT ![AnchorName(l)] = Rules(l)]
  /\ Disturbs(l, Rules(l) # net[l])
  /\ IF backend[l] = "helper"
     THEN /\ session' = [owner |-> Owner(l), net |-> net[l], count |-> 1, token |-> token[l]]
          /\ token' = [token EXCEPT ![l] = FALSE]
          /\ lock' = None
     ELSE UNCHANGED <<lock, session, token>>
  /\ UNCHANGED <<alive, backend, net, file, refs, lost, deaths>>

LoadFails(l) ==
  /\ phase[l] = "loading" /\ Reach(l, "unwinding")
  /\ UNCHANGED <<helper, backend, net, token, file, pf, deaths, disturbed>>

\* `pfctl -X token`; its failure is ignored.
GiveBack(l) ==
  /\ token' = [token EXCEPT ![l] = FALSE]
  /\ IF token[l] THEN \/ refs' = refs - 1 /\ UNCHANGED lost
                      \/ lost' = lost + 1 /\ UNCHANGED refs
     ELSE UNCHANGED <<refs, lost>>

Release(l) ==
  /\ phase[l] \in {"unwinding", "releasing"}
  /\ Abandon(l) /\ GiveBack(l)
  /\ file' = IF backend[l] = "sudo" THEN NoRules ELSE file
  /\ UNCHANGED <<alive, session, backend, net, anchor, deaths, disturbed>>

-----------------------------------------------------------------------------
(* Removing: -F rules, then -X; both may fail unnoticed. *)

\* PFGuard::uninstall of a sudo guard.
SudoUninstall(l) ==
  /\ phase[l] = "guarded" /\ backend[l] = "sudo" /\ Reach(l, "flushing")
  /\ UNCHANGED <<helper, backend, net, token, file, pf, deaths, disturbed>>

\* The `uninstall` of a direct launch, or the end of a run; the last one takes
\* the session out of the map and down.  An uninstall names no session: one
\* that outlived its helper counts down whatever user session is there now.
HelperUninstall(l) ==
  /\ phase[l] = "guarded" /\ backend[l] = "helper" /\ lock = None
  /\ IF ~alive \/ session = None \/ session.owner # Owner(l)
     THEN Reach(l, "done") /\ UNCHANGED <<lock, session, token>>
     ELSE IF session.count > 1
     THEN /\ Reach(l, "done") /\ session' = [session EXCEPT !.count = @ - 1]
          /\ UNCHANGED <<lock, token>>
     ELSE /\ Reach(l, "flushing") /\ lock' = l /\ session' = None
          /\ token' = [token EXCEPT ![l] = session.token]
  /\ UNCHANGED <<alive, backend, net, file, pf, deaths, disturbed>>

Flush(l) ==
  /\ phase[l] = "flushing" /\ Reach(l, "releasing")
  /\ \/ anchor' = [anchor EXCEPT ![AnchorName(l)] = NoRules]
     \/ UNCHANGED anchor
  /\ Disturbs(l, FALSE)
  /\ UNCHANGED <<helper, backend, net, token, file, refs, lost, deaths>>

-----------------------------------------------------------------------------
(* Deaths. *)

Killable == deaths < MaxDeaths /\ deaths' = deaths + 1

\* A direct launch is killed: nobody runs the rest of its commands; the helper
\* is left with a count nobody takes back.
LaunchKilled(l) ==
  /\ Killable /\ l \notin RunLaunches
  /\ phase[l] = "guarded" \/ (backend[l] = "sudo" /\ phase[l] \notin {"idle", "done"})
  /\ Reach(l, "done")
  /\ lost' = IF token[l] THEN lost + 1 ELSE lost
  /\ token' = [token EXCEPT ![l] = FALSE]
  /\ UNCHANGED <<helper, backend, net, file, anchor, refs, disturbed>>

\* What a helper that is gone takes with it: its map, and every run.
HelperGone ==
  /\ alive' = FALSE /\ lock' = None /\ session' = None
  /\ phase' = [l \in Launches |->
       IF l = lock \/ (l \in RunLaunches /\ phase[l] # "idle") THEN "done" ELSE phase[l]]
  /\ disturbed' = disturbed \cup (IF session = None THEN {} ELSE {session.owner})
       \cup {Owner(l) : l \in {l \in Launches : Standing(l) /\ backend[l] = "helper"}}
  /\ UNCHANGED <<backend, net, file>>

\* The tokens die too.
PfHelperDies ==
  /\ alive /\ Killable /\ HelperGone
  /\ lost' = lost + (IF session # None /\ session.token THEN 1 ELSE 0)
                  + (IF lock # None /\ token[lock] THEN 1 ELSE 0)
  /\ token' = [l \in Launches |-> token[l] /\ l # lock]
  /\ UNCHANGED <<anchor, refs>>

\* shutdown_on_signal: teardown_all_sessions, with the mutex, before it exits.
PfHelperStops ==
  /\ alive /\ Killable /\ lock = None /\ HelperGone
  /\ IF session = None THEN UNCHANGED <<anchor, refs, lost>>
     ELSE /\ \/ anchor' = [anchor EXCEPT ![session.owner] = NoRules]
             \/ UNCHANGED anchor
          /\ IF session.token THEN \/ refs' = refs - 1 /\ UNCHANGED lost
                                   \/ lost' = lost + 1 /\ UNCHANGED refs
             ELSE UNCHANGED <<refs, lost>>
  /\ UNCHANGED token

\* reap_stale_sessions flushes every anchor of ours, those of live sudo guards
\* included; it may fail to list or to flush them.
PfHelperStarts ==
  /\ ~alive /\ alive' = TRUE
  /\ \E reaped \in SUBSET Owners :
       anchor' = [s \in Owners |-> IF s \in reaped THEN NoRules ELSE anchor[s]]
  /\ disturbed' = disturbed \cup {Owner(l) : l \in {l \in Launches : Standing(l)}}
  /\ UNCHANGED <<lock, session, launch, refs, lost, deaths>>

PfNext ==
  \/ \E l \in Launches :
       \/ AskHelper(l) \/ UseSudo(l) \/ RunRefused(l)
       \/ Check(l) \/ Enable(l) \/ EnableFails(l) \/ Load(l) \/ LoadFails(l) \/ Release(l)
       \/ SudoUninstall(l) \/ HelperUninstall(l) \/ Flush(l) \/ LaunchKilled(l)
  \/ PfHelperDies \/ PfHelperStops \/ PfHelperStarts

PfSpec == PfInit /\ [][PfNext]_pfVars

-----------------------------------------------------------------------------
\* A standing guard has its own rules in force, whatever launches of the other
\* scope load and flush: only guards that share an anchor, and a helper that
\* comes or goes, disturb one.  PF stays on under it; not even those others turn
\* it off under a sudo guard.  And PF is on for no longer: a reference is
\* somebody's to give back, or was lost with its token.  Code: anchor_name,
\* install, uninstall, acquire_session, teardown_session.
GuardsStand ==
  /\ \A l \in Launches : Standing(l) =>
       /\ Owner(l) \notin disturbed => anchor[AnchorName(l)] = net[l]
       /\ Owner(l) \notin disturbed \/ backend[l] = "sudo" => refs > 0
  /\ refs = lost + Cardinality({l \in Launches : token[l]})
            + (IF session # None /\ session.token THEN 1 ELSE 0)

===============================================================================
