SPECIFICATION Spec
CONSTANTS
  MaxFaults = 1
  MaxRestarts = 0
  MaxResumes = 0
INVARIANT DurableBeforeComplete
CHECK_DEADLOCK FALSE
