--------------------------- MODULE MCLaunchPipeline ---------------------------
\* How a policy comes about and what becomes of it: half of the behaviours are
\* two launches of one user, one with --trust-project, one scripted without;
\* the other half are a session of the editor, with no launch.
EXTENDS LaunchPipeline, PolicyEditor

CONSTANTS l1, l2, d1, site, nas, notes, nonsense, ssh, socks

MCReachable == {site}
MCGlobals == {[default |-> "deny", deny |-> {}, widen |-> {}]}
MCProjects ==
  {[default |-> "unset", deny |-> {site}, widen |-> {nas}],
   [default |-> "unset", deny |-> {}, widen |-> {site}]}
MCPaths == [l \in Launchers |-> <<d1>>]
MCFlags == [l \in Launchers |-> IF l = l1 THEN Empty ELSE [Empty EXCEPT !.deny = {nas}]]
MCAnswers == [l \in Launchers |-> IF l = l1 THEN {"trust"} ELSE {"ignore"}]

\* From before policies and spec versions, and this one.
MCBuilds == <<[policy |-> FALSE, refuses |-> {}], [policy |-> TRUE, refuses |-> {}]>>

-------------------------------------------------------------------------------
VARIABLE half

\* Two kinds of list are written to, one that widens and one that does not; a
\* list of more than one entry is over the limit.
MCTyped == [allow |-> {site}, deny |-> {}, lan_allow |-> {}, writable |-> {},
            read_only |-> {}, deny_paths |-> {notes}]
MCGlobalDrafts == {[Blank EXCEPT !.list["allow"] = <<site, nonsense>>]}
MCProjectDrafts == {NoProject, [Blank EXCEPT !.list["deny_paths"] = <<notes>>]}

ASSUME EditorAssumption == EditorConstants

\* The half a behaviour is not about stays in one state.
NoLaunch == PipelineInit /\ helper = 1 /\ project = [d \in Dirs |-> NoFile]
NoEditor == EditorInit /\ scope = "global"

\* The launches begin under the old build; an upgrade is one of the events.
MCInit == \/ half = "launch" /\ PipelineInit /\ helper = 1 /\ NoEditor
          \/ half = "editor" /\ NoLaunch /\ EditorInit
MCNext == /\ UNCHANGED half
          /\ \/ half = "launch" /\ PipelineNext /\ UNCHANGED editorVars
             \/ half = "editor" /\ EditorNext /\ UNCHANGED allVars
MCSpec == MCInit /\ [][MCNext]_<<half, allVars, editorVars>>
===============================================================================
