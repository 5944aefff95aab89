SPECIFICATION LiveSpecExpiry
CONSTANTS
  Callers = {c1, c2}
  NULL = NULL
  FirstId = 100
  LastId = 102
  MinTicks = 1
  MaxTicks = 2
  TicksPerSec = 1
  Timeouts = {2}
  MaxGlue = 1
  MaxEvents = 1
  MaxCloses = 1
  SendMayFail = TRUE
  SocketMayFail = TRUE
  Spurious = FALSE
\* Once socket() has failed nobody counts ticks: the client may stop for ever.
CHECK_DEADLOCK FALSE
INVARIANT TypeOK
INVARIANT SafeInv
INVARIANT NoLostWakeup
INVARIANT NoDangling
INVARIANT ReplyMatches
INVARIANT ExpiryNotLate
PROPERTY ResolvedOnce
PROPERTY ErrMeansExpired
PROPERTY KeepsPromise
PROPERTY CallReturnsWhileServed
