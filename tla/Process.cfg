SPECIFICATION ProcessSpec
CONSTANTS
  Proc = {main, a, b, c}
  main = main
  Status = {1}
  NULL = NULL
  CreateMayFail = TRUE
  MaxCalls = 3
SYMMETRY Symmetry
CHECK_DEADLOCK FALSE
INVARIANTS WaitSound DeadHoldNothing ExecSound
