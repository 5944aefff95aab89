SPECIFICATION Spec
CONSTANTS
  Conns = {k1}
  Publishers = {p1}
  NULL = NULL
  Fds = {4}
  Events = {"a", "ab"}
  NamePrefix <- ShortIsPrefix
  Types = {"ON_CHANGE"}
  Answers = {"Success"}
  Values = {v}
  FirstSeq = 100
  Radix = 10
  MaxAsks = 1
  MaxPublishes = 1
CHECK_DEADLOCK FALSE
INVARIANT OnlySubscribers
