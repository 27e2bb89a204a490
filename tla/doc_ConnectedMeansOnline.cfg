SPECIFICATION Spec
CONSTANTS
  a1 = a1
  a2 = a2
  c1 = c1
  c2 = c2
  c3 = c3
  r1 = r1
  r2 = r2
  NoConn = NoConn
  NoAgent = NoAgent
  Agents = {a1}
  Conns = {c1, c2}
  Requests = {r1}
  AgentOf <- OneAgent
  Outcomes = {"completed"}
  SendCap = 2
  AgentQueueCap = 1
  MaxCrashes = 0
INVARIANT ConnectedMeansOnline
CHECK_DEADLOCK FALSE
