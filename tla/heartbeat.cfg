SPECIFICATION Spec
CONSTANTS
  PingPeriod = 3
  PongWait = 6
  AgentTimeout = 9
  SweepFloor = 1
  Base = 1
  MaxRetry = 6
  RestartSec = 1
  Delay = 1
  AttemptTime = 5
INVARIANTS
  TypeOK
  LiveConnectionKept
  LiveAgentOnline
  GoneAgentOffline
  ReconnectsInTime
