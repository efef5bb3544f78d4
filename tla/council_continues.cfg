SPECIFICATION CouncilSpec
CONSTANTS
  a1 = a1
  a2 = a2
  a3 = a3
  Agents = {a1, a2, a3}
  FatalFailures = 3
INVARIANT DeepChoiceGoesOn
CHECK_DEADLOCK FALSE
