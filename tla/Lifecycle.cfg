SPECIFICATION LiveSpecOrderly
CONSTANTS
  Files = {f1, f2}
  Callers = {c1, c2}
  NULL = NULL
  MaxRuns = 3
INVARIANT TypeOK
INVARIANT StoppedWhenFreed
INVARIANT UsesWhatIsThere
INVARIANT PortFree
PROPERTY TerminateReturns
