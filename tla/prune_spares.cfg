SPECIFICATION PruningSpec
CONSTANTS
  Sessions = {s1, s2}
  NoSession = NoSession
  Concurrency = 2
  MaxRuns = 2
  MaxStops = 0
  MaxCrashes = 0
  MaxFaults = 0
CHECK_DEADLOCK FALSE
INVARIANT TerminationSparesOthers
