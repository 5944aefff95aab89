SPECIFICATION Spec
CONSTANTS
  Files = {f1}
  Callers = {c1}
  NULL = NULL
  MaxRuns = 1
INVARIANT StoppedWhenFreed
