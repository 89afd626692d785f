SPECIFICATION Spec
CONSTANTS
  AgentIds = {a1, a2}
  NoAgent = NoAgent
  Callers = {c1}
  Boot = Boot
  Rebalancer = Rebalancer
  Health = Health
  Nobody = Nobody
  Requests <- AllRequests
  MaxAgents = 1
  InitialFleet = 1
  MaxRestarts = 1
  Disturbances <- Failures
  MaxCrashes = 1
SYMMETRY Symmetry
INVARIANT TypeOK
INVARIANT FleetCounted
INVARIANT NothingForgotten
