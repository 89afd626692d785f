SPECIFICATION FairSpec
CONSTANTS
  hook = hook
  echo = echo
  Autos = {hook, echo}
  NoAuto = NoAuto
  Trigger <- MCTrigger
  Action <- MCAction
  Entries = {e1, e2}
  Capacity = 1
  ChainLimit = 1
  MaxAttempts = 2
  Batch = 2
  MaxEvents = 2
  MaxFaults = 1
  MaxRequeues = 1
  Agents = {a1}
  NoAgent = NoAgent
  Users = {u1, u2}
  Slots = 1
  MaxRequests = 2
  MaxBreaks = 1
  Tasks = {t1, t2}
  External = {t1}
  Workers = {w1, w2}
  Nobody = Nobody
  Cancellers = {c1}
  NoTask = NoTask
  Messages = {m1, m2}
  Readers = {r1, r2}
  DeskAgents = {d1}
  NoOne = NoOne
  Jobs = {j1, j2}
  Calls = {k1, k2, k3}
INVARIANTS
  TypeOK
  
  GatewayKnows
PROPERTIES
  
  EverythingSettles
CHECK_DEADLOCK FALSE
