SPECIFICATION Spec
CONSTANTS
  AgentIds = {a1, a2, a3}
  NoAgent = NoAgent
  Callers = {c1, c2}
  Boot = Boot
  Rebalancer = Rebalancer
  Health = Health
  Nobody = Nobody
  Requests <- AllRequests
  MaxAgents = 2
  InitialFleet = 1
  MaxRestarts = 1
  Disturbances <- SlowOnly
  MaxCrashes = 0
SYMMETRY Symmetry
INVARIANT ForceStopStops
