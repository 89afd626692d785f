--------------------------- MODULE MCFleetManager ---------------------------
(* Small instances of FleetManager for TLC. *)
EXTENDS FleetManager, TLC

Symmetry == Permutations(AgentIds) \cup Permutations(Callers)

NoDisturbance == {}
SlowOnly == {"slow"}
Failures == {"panic", "slow", "dbFail"}
PanicsAndToolStop == {"panic", "toolStop"}
PanicsSlowAndCut == {"panic", "slow", "cut"}

\* Boot resumes; a pause stops.
FewRequests == {"deploy", "pause", "rebalance"}
=============================================================================
