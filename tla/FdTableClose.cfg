SPECIFICATION FdTableFairSpec
CONSTANTS
  Proc = {p1}
  Inode = {i1}
  Length = 1
  Fd = {2, 3}
  Sentinel = {5}
  MaxFd = 4
  Habits = {"close_any"}
  NULL = NULL
PROPERTY CallsReturn
CHECK_DEADLOCK FALSE
