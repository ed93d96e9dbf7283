SPECIFICATION SyscallsSpec
CONSTANTS
  AddrCnt = 28
  PHYS_BASE = 24
  PGSIZE = 4
  Mapped = {1, 2, 4}
  Number = {0, 3, 4}
INVARIANT RemoveRejectsBadPointer
