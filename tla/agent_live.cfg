SPECIFICATION FairSpec
CONSTANTS
  Agents = {a1}
  Bounties = {b1, b2}
  NoBounty = NoBounty
  NoAgent = NoAgent
  DailyLimit = 2
  MaxRevisions = 1
  MaxRestarts = 1
  Disturbances <- LossyAnswers
  MaxDays = 0
  MaxReopens = 1
PROPERTY BusyResolves
PROPERTY StopHonoured
CHECK_DEADLOCK FALSE
