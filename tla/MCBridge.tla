------------------------------ MODULE MCBridge ------------------------------
(* The bridge on small instances.                                          *)
EXTENDS BridgeRefinement, TLC

\* Agents with a session each, and one agent with several sessions: it was
\* disconnected and has connected again.
AgentPerSession == [s \in Session |-> s]
OneAgent == [s \in Session |-> "agent"]

\* Sessions, tabs and keys are interchangeable under both assignments.
Symmetry == Permutations(Session) \union Permutations(Tab) \union Permutations(Key)
=============================================================================
