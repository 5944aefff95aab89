SPECIFICATION Spec
CONSTANTS
  Conns = {k1, k2}
  Publishers = {p1, p2}
  NULL = NULL
  Fds = {4, 5}
  Events = {a, b}
  NamePrefix = {}
  Types = {"ON_CHANGE_SYNC_TIMEOUT"}
  Answers = {"Success"}
  Values = {v, NULL}
  FirstSeq = 100
  Radix = 10
  MaxAsks = 1
  MaxPublishes = 2
SYMMETRY Symmetry
\* A null value leaves the mutex locked: the server may stop for ever.
CHECK_DEADLOCK FALSE
INVARIANT TypeOK
INVARIANT FdSafe
INVARIANT OnlySubscribers
INVARIANT SyncDone
