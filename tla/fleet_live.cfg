SPECIFICATION FairSpec
CONSTANTS
  AgentIds = {a1}
  NoAgent = NoAgent
  Callers = {c1, c2}
  Boot = Boot
  Rebalancer = Rebalancer
  Health = Health
  Nobody = Nobody
  Requests <- FewRequests
  MaxAgents = 1
  InitialFleet = 1
  MaxRestarts = 0
  Disturbances <- PanicsSlowAndCut
  MaxCrashes = 0
PROPERTY CallsReturn
PROPERTY FinishedAreReaped
