----------------------------- MODULE MCAgentRuns -----------------------------
(* TLC instance of AgentRuns: two runs of a session, the first of which may *)
(* hang, and the run of another session.  Their turns share the main lane.  *)
EXTENDS AgentRuns, TLC

CONSTANTS here, there, main, a, b, c, ta, tb, tc

MCLanes == {here, there, main}
NoLanes == {}
MCRuns == {a, b, c}
MCTurnOf == (a :> ta) @@ (b :> tb) @@ (c :> tc)
MCEntries == {a, b, c, ta, tb, tc}
MCLaneOf == (a :> here) @@ (b :> here) @@ (c :> there) @@ (ta :> main) @@ (tb :> main) @@ (tc :> main)

ServingPhase == {"waiting"}

HungRuns == {a}
LiveSpec == AgentRunsSpec /\ AgentRunsFairness(HungRuns)
RunsEnd == EveryRunEnds(HungRuns)
=============================================================================
