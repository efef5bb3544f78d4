SPECIFICATION CallSpec
CONSTANTS
  api = api
  worker = worker
  w1 = w1
  w2 = w2
  w3 = w3
  a1 = a1
  NoCall = NoCall
  Processes <- MCProcesses
  Calls <- MCCalls
  Home <- MCHome
  Cost <- MCCost
  Critical <- MCCritical
  Minute = 2
  Day = 4
  RpmLimit = 2
  TpmLimit = 2
  RpdLimit = 3
  MaxTime = 2
  MaxDisruptions = 1
  large = large
  small = small
  r2 = r2
  Reasoners = {r1, r2}
  Writers = {y1, y2}
  Candidates <- MCCandidates
  Threshold = 2
  Probes = 2
  Recovery = 1
  Share = 1
  Span = 2
  Requests = 2
  Tries = 2
  audio = audio
  video = video
  e1 = e1
  e2 = e2
  e3 = e3
  e4 = e4
  None = None
  Agents = {audio, video}
  Entries <- MCEntries
  AgentOf <- MCAgentOf
  Poison <- MCPoison
  WalCap = 2
  FlushBatch = 2
  MaxDbFaults = 2
  MaxFailures = 1
INVARIANTS LimitsRespected CountersKept ShareRespected UndivertedChainsVerify DeadAreSettled OneLossPerFailure
PROPERTIES CallersAnswered ClosingIsEarned CallsEnd
CHECK_DEADLOCK FALSE
