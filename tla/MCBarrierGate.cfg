SPECIFICATION Spec
CONSTANTS
  Callers = {a, b, c}
  MaxCalls = 2
INVARIANTS
  OkMeansDurable
  AtMostTwoBarriers
PROPERTIES
  EveryWaitReturns
CHECK_DEADLOCK FALSE
