SPECIFICATION Spec
CONSTANTS
  Bounties = {b1, b2}
  NoBounty = NoBounty
  CapScores <- SomeScores
  Rewards <- SomeRewards
  MinFit = 50
  QueryMayFail = FALSE
  MaxListed = 2
  MaxClaims = 5
SYMMETRY Symmetry
INVARIANT ChoiceIsBest
