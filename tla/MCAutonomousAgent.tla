-------------------------- MODULE MCAutonomousAgent --------------------------
(* Small instances of AutonomousAgent for TLC. *)
EXTENDS AutonomousAgent, TLC

Symmetry == Permutations(Agents) \cup Permutations(Bounties)

\* Failures of the relay and the database, without panics.
LossyRelay == {"claimLost", "recordFail", "submitLost", "checkLost"}
\* Failures of answers and of the database, and the stop tool.
LossyAnswers == {"claimLost", "recordFail", "checkLost", "toolStop"}
NoToolStop == AllDisturbances \ {"toolStop"}
LossySubmits == {"submitLost"}
ToolStops == {"toolStop"}
PanicsOnly == {"panic"}
NoDisturbance == {}
=============================================================================
