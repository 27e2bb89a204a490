SPECIFICATION Spec
CONSTANTS
  a1 = a1
  a2 = a2
  c1 = c1
  c2 = c2
  c3 = c3
  r1 = r1
  r2 = r2
  NoConn = NoConn
  NoAgent = NoAgent
  Agents = {a1, a2}
  Conns = {c1, c3}
  Requests = {r1}
  AgentOf <- TwoAgents
  Outcomes = {"completed"}
  SendCap = 1
  AgentQueueCap = 1
  MaxCrashes = 1
SYMMETRY Symmetry
INVARIANTS
  FramesAddressed
  NoTaskOverlooked
CHECK_DEADLOCK FALSE
