SPECIFICATION CustodySpec
CONSTANTS
  A = A
  B = B
  a1 = a1
  a2 = a2
  a3 = a3
  b1 = b1
  None = None
  Agents <- MCAgents
  Entries <- MCEntries
  AgentOf <- MCAgentOf
  Poison <- MCPoison
  WalCap = 2
  FlushBatch = 2
  MaxDbFaults = 2
  MaxFailures = 1
INVARIANT ChainLinked
CHECK_DEADLOCK FALSE
