SPECIFICATION Spec
CONSTANTS
  a1 = a1
  c1 = c1
  c2 = c2
  r1 = r1
  r2 = r2
  NoConn = NoConn
  NoAgent = NoAgent
  NoTask = NoTask
  Agents = {a1}
  Conns = {c1, c2}
  Requests = {r1, r2}
  AgentOf <- OneAgent
  Outcomes = {"completed"}
  SendCap = 1
  ReportCap = 2
  AgentQueueCap = 1
  Fragile = {}
  MaxCrashes = 1
INVARIANTS
  ReportsPaired
  StartsBacked
  RunningOnConnection
PROPERTIES
  PeerRefined
CHECK_DEADLOCK FALSE
