SPECIFICATION Spec
CONSTANTS
  Agents = {a1}
  Bounties = {b1, b2}
  NoBounty = NoBounty
  NoAgent = NoAgent
  DailyLimit = 1
  MaxRevisions = 1
  MaxRestarts = 1
  Disturbances <- NoToolStop
  MaxDays = 1
  MaxReopens = 1
SYMMETRY Symmetry
INVARIANTS TypeOK PhaseOK ClaimAccounting LocalApprovalIsReal CompletedOncePerApproval FreshTimer DailyOvershoot
PROPERTY ImplementsLedger
CHECK_DEADLOCK FALSE
