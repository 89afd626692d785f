-------------------------- MODULE MCBountySelection --------------------------
(* A small instance of BountySelection for TLC. *)
EXTENDS BountySelection, TLC

Symmetry == Permutations(Bounties)
SomeScores == {70, 100}
SomeRewards == {0, 10, 15}
=============================================================================
