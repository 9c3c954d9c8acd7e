---------------------------- MODULE MCHelperRequests ----------------------------
\* Two questions about one request: whether it is admitted and read (two of
\* bob's files stall, the others may answer late; alice asks for every kind of
\* grant), and whether what it launches is confined.  A behaviour is about one
\* of them: the other half of the state stays as it is.
EXTENDS HelperRequests, AgentSandbox, TLC

CONSTANTS a1, b1, b2, b3

MCAccounts == {"alice", "bob", "carol", "www"}
MCHome == [a \in MCAccounts |->
  CASE a = "alice" -> <<"home", "alice">> [] a = "bob" -> <<"home", "bob">>
    [] a = "carol" -> <<"srv", "people", "carol">> [] a = "www" -> <<"var", "www">>]
Mine(d) == <<"home", "alice">> \o d
Zone(name) == <<"private", "var", "db", "timezone", "tz", "v1", "zoneinfo", name>>

MCFiles == {Mine(<<".claude.json">>), Mine(<<"Library", "Preferences", ".GlobalPreferences.plist">>),
            Zone("UTC"), Zone("Paris"), <<"dev", "null">>}
OfAlice == {Mine(d) : d \in {<<>>, <<"src">>, <<"src", "out">>, <<".claude">>, <<".ssh">>,
                             <<"Library", "Preferences", "ByHost">>}}
           \cup {<<"srv">>, <<"srv", "people">>, <<"var", "www">>, <<"usr", "local">>,
                 <<"tmp", "lyh">>, <<"data">>}
Places == OfAlice \cup MCFiles \cup {MCHome[a] : a \in MCAccounts}
         \cup {<<"usr", "bin">>, <<"etc">>, <<"opt", "homebrew">>, <<"proc", "self-pid">>}
MCTree == UNION {{SubSeq(p, 1, n) : n \in 0..Len(p)} : p \in Places}
\* alice owns a parent of carol's home, a system directory and one of www's.
MCOwner == [d \in MCTree |->
  IF d = MCHome["bob"] THEN "bob" ELSE IF d = MCHome["carol"] THEN "carol"
  ELSE IF d \in OfAlice \/ (Len(d) > 2 /\ d[2] = "alice") THEN "alice" ELSE "www"]
MCHomeParents == {<<"home">>}
MCSystemDirs == {<<"usr">>}
MCLinks == <<"link">> :> <<"srv", "people">> @@ Mine(<<"cache">>) :> MCHome["bob"]
           @@ <<"bin">> :> <<"usr", "bin">> @@ <<"etc", "localtime">> :> Zone("Paris")

Paths == MCTree \cup DOMAIN MCLinks \cup {<<"cache">>, <<"src">>, <<"gone">>, <<".claude.json">>}
\* Everything she is granted when she asks for it alone, and one thing she is not.
Greedy == {g \in Kinds \X Paths : IsGrantable("alice", g[1], g[2])}
MCSpecs == [c \in Conns |->
  IF c = a1 THEN {Greedy, {<<"cwd", <<"home", "bob">>>>}} ELSE {{<<"cwd", MCHome[Uid[c]]>>}}]
MCUid == [c \in Conns |-> IF c = a1 THEN "alice" ELSE "bob"]

-------------------------------------------------------------------------------
\* The launches: in her source directory if nothing else is said.
Ask(cwd, more, narrow, deny) ==
  [grants |-> {<<"cwd", cwd>>, <<"tmpdir", <<"tmp", "lyh">>>>} \cup more,
   narrow |-> narrow, deny |-> deny]
Src == Mine(<<"src">>)
States == {"state_dir"} \X {<<".claude">>, <<".claude.json">>, <<".codex">>}
MCAsked ==
  {Ask(Src, {}, FALSE, {Mine(<<".ssh">>)}),
   Ask(Src, {<<"writable", <<"data">>>>, <<"read_only", <<"var", "www">>>>}, FALSE, {}),
   \* Read-only paths over the zones and the identity files; a deny in the cwd.
   Ask(Src, States \cup {<<"read_only", <<"private", "var", "db", "timezone">>>>,
                         <<"read_only", Mine(<<"Library", "Preferences", "ByHost">>)>>},
       TRUE, {Mine(<<"src", "out">>), <<"tmp", "lyh">>}),
   \* Symlinks as a working directory, as a state directory, inside a path.
   Ask(<<"link">>, {<<"writable", Mine(<<".claude">>)>>}, TRUE, {}),
   Ask(Src, {<<"state_dir", <<"cache">>>>}, TRUE, {}),
   Ask(Src, {<<"writable", <<"link", "carol">>>>}, FALSE, {}),
   \* The root, and a way up.
   Ask(<<>>, {}, FALSE, {}),
   Ask(Src, {<<"state_dir", <<"..", "bob">>>>}, TRUE, {})}
MCSwaps == {[at |-> Src, to |-> MCHome["bob"]], [at |-> MCHome["alice"], to |-> <<"srv", "people">>],
            [at |-> <<"data">>, to |-> MCHome["bob"]],
            [at |-> Mine(<<".claude">>), to |-> Mine(<<".ssh">>)]}

ASSUME SandboxAssumption == SandboxConstants

\* Half of the behaviours are about connections and have no launch, the other
\* half about a launch, with every connection closed.
NoLaunch ==
  /\ Fresh /\ stage = "ended"
  /\ host = CHOOSE h \in Hosts : TRUE
  /\ asked = CHOOSE s \in MCAsked : TRUE
NoRequest == Idle /\ phase = [c \in Conns |-> "closed"]

MCInit == (Init /\ NoLaunch) \/ (NoRequest /\ SandboxInit)
MCNext == (Next /\ UNCHANGED sandboxVars) \/ (SandboxNext /\ UNCHANGED vars)
MCSpec == MCInit /\ [][MCNext]_<<vars, sandboxVars>> /\ Fairness
===============================================================================
