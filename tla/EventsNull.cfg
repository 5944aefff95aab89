SPECIFICATION LiveSpec
CONSTANTS
  Conns = {k1}
  Publishers = {p1}
  NULL = NULL
  Fds = {4}
  Events = {a}
  NamePrefix = {}
  Types = {"ON_CHANGE"}
  Answers = {"Success"}
  Values = {v, NULL}
  FirstSeq = 100
  Radix = 10
  MaxAsks = 1
  MaxPublishes = 2
CHECK_DEADLOCK FALSE
PROPERTY PublishReturns
