SPECIFICATION SessionSpec
CONSTANTS
  MaxFaults = 2
  MaxRestarts = 1
  MaxResumes = 1
  runner = runner
  handler = handler
  Senders = {runner, handler}
  LocalSenders = {handler}
  Finisher = runner
  Script <- MCScript
  BufferMax = 2
  QueueMax = 1
  MaxMishaps = 1
  Requests = {r1, r2}
INVARIANTS AnnouncedIsRetrievable EndedIsVisible GapIsNarrow GatesExplained WaitingIsVisible
PROPERTIES StoredReportIsFinal PollNeverTakesBack EveryJobEnds EndIsShown GatesAreLeft
CHECK_DEADLOCK FALSE
