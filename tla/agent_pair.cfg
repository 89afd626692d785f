SPECIFICATION Spec
CONSTANTS
  Agents = {a1, a2}
  Bounties = {b1}
  NoBounty = NoBounty
  NoAgent = NoAgent
  DailyLimit = 2
  MaxRevisions = 1
  MaxRestarts = 1
  Disturbances <- LossyRelay
  MaxDays = 0
  MaxReopens = 1
SYMMETRY Symmetry
INVARIANT WorkerIsHolder
PROPERTY RowsMoveForward
CHECK_DEADLOCK FALSE
