SPECIFICATION ProcessFairSpec
CONSTANTS
  Proc = {main, a}
  main = main
  Status = {0}
  NULL = NULL
  CreateMayFail = FALSE
  MaxCalls = 2
CHECK_DEADLOCK FALSE
PROPERTY WaitReturns
