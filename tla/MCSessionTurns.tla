--------------------------- MODULE MCSessionTurns ---------------------------
(* Instances of SessionTurns for TLC. *)
EXTENDS SessionTurns, TLC

\* Connections, turns of one kind and tool ids are interchangeable.
Alike == Permutations(Conns) \cup Permutations(WsTurns) \cup Permutations(ToolIds)

\* No guard reads the history: states that differ in it only have the same future.
WithoutHistory == <<status, shouldAbort, mode, perm, connVars, taskVars, localVars>>
=============================================================================
