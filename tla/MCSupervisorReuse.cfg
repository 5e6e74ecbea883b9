SPECIFICATION Spec
CHECK_DEADLOCK FALSE
CONSTANTS
  Services <- MCServices
  Pids = {1, 2, 3}
  MaxProcs = 2
  MaxStartups = 2
  MaxSignals = 1
INVARIANTS
  TableTellsRuns
