SPECIFICATION LoopSpec
CONSTANTS
  ela = ela
  noise = noise
  ghost = ghost
  clone = clone
  prnu = prnu
  summary = summary
  odd = odd
  hash = hash
  Plan <- MCPlan
  Asks <- MCAsks
  Toolless = {odd}
  LeftToOthers = {summary}
  Unregistered = {hash}
  Absences = {prnu}
  Ceiling = 7
  MaxOutages = 1
  MaxAuditFaults = 1
  Nothing = Nothing
  NoTask = NoTask
INVARIANT FallbackKeepsPlan
CHECK_DEADLOCK FALSE
