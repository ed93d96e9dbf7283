SPECIFICATION MCSpec
CONSTANTS
  NULL = NULL
  \* Vaddr: six user pages and one for the kernel.
  AddrCnt = 28
  PHYS_BASE = 24
  PGSIZE = 4
  \* Syscalls: a hole among the user pages.
  Mapped = {1, 2, 4}
  Number = {0, 3}
  \* Load: a file of two pages and a byte.
  FileLen = 9
  Phdrs <- Executables
  \* Pagedir: memory for one process and most of a second.
  Thread = {t1, t2}
  UPages = {0}
  PerTable = 1
  KPage = {1, 2, 3, 4, 5}
  \* FrameTable: enough frames for one process and not for two.
  Process = {p1, p2}
  VPage = {u1, u2}
  Frame = {1, 2, 3}
  MaxEntries = 4
  ENTRY = ENTRY
  \* UserMemory: files of four pages, and room for two of them below the stack.
  PageCnt = 9
  StackLow = 7
  File = {f1, f2}
  Pages = 4
  MaxMap = 4
  \* FdTable: two processes, the same file open more than once, and one
  \* descriptor's number in a list head.
  Proc = {q1, q2}
  Inode = {i1}
  Length = 1
  Fd = {2, 3, 4}
  Sentinel = {4}
  MaxFd = 4
  Habits = {"close_any", "name_fault", "stdin"}
INVARIANT FreedOnce
CHECK_DEADLOCK FALSE
