---------------------------- MODULE MCConfigTrust ----------------------------
\* One launch from a directory below a project, against a user's own terminal.
EXTENDS ConfigTrust

CONSTANTS l1, l2, d1, d2, site, nas

MCReachable == {site}
MCGlobals == {[default |-> "deny", deny |-> {}, widen |-> {}]}
MCProjects ==
  {[default |-> "unset", deny |-> {site}, widen |-> {nas}],
   [default |-> "allow", deny |-> {}, widen |-> {}],
   [default |-> "unset", deny |-> {}, widen |-> {site}]}
MCPaths == [l \in Launchers |-> IF l = l1 THEN <<d2, d1>> ELSE <<d1>>]
MCFlags == [l \in Launchers |-> IF l = l1 THEN Empty ELSE [Empty EXCEPT !.deny = {site}]]
MCAnswers == [l \in Launchers |-> IF l = l1 THEN {"trust", "ignore"} ELSE {"ignore"}]
==============================================================================
