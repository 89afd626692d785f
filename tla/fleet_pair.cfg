SPECIFICATION Spec
CONSTANTS
  AgentIds = {a1, a2}
  NoAgent = NoAgent
  Callers = {c1, c2}
  Boot = Boot
  Rebalancer = Rebalancer
  Health = Health
  Nobody = Nobody
  Requests <- AllRequests
  MaxAgents = 1
  InitialFleet = 1
  MaxRestarts = 1
  Disturbances <- PanicsAndToolStop
  MaxCrashes = 0
SYMMETRY Symmetry
INVARIANT FleetBound
 
