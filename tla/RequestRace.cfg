SPECIFICATION LiveSpec
CONSTANTS
  Callers = {c1, c2}
  NULL = NULL
  FirstId = 100
  LastId = 102
  MinTicks = 1
  MaxTicks = 2
  TicksPerSec = 1
  Timeouts = {}
  MaxGlue = 1
  MaxEvents = 0
  MaxCloses = 0
  SendMayFail = FALSE
  SocketMayFail = FALSE
  Spurious = FALSE
PROPERTY CallReturns
