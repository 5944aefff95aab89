SPECIFICATION LiveSpec
CONSTANTS
  Conns = {k1, k2}
  Publishers = {p1, p2}
  NULL = NULL
  Fds = {4}
  Events = {a}
  NamePrefix = {}
  Types = {"ON_CHANGE", "ON_CHANGE_SYNC_TIMEOUT"}
  Answers = {"Success", "Failed"}
  Values = {v}
  FirstSeq = 100
  Radix = 10
  MaxAsks = 1
  MaxPublishes = 2
PROPERTY PublishReturns
