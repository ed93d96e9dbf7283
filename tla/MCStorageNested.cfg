SPECIFICATION MCSpec
CONSTANTS
  NULL = NULL
  \* FileSys
  SectorCnt = 8
  DirSlots = 2
  Name = {n1, n2, bad}
  BadName = {bad}
  File = {f1, f2}
  Sizes = {1}
  \* InodeTable
  Locker = {t1, t2}
  Loader = {t3}
  Inode = {i1, i2}
  InodeSector = {s1, s2}
  \* InodeIO: a file of a sector and a half, with a sector before and one after it
  SECTOR_SIZE = 2
  DevSectors = 4
  Start = 1
  Length = 3
  MaxSize = 4
  \* Ide
  Caller = {c1, c2}
  DiskSector = {1, 2}
  Data = {0, 1}
  \* Ide, detection
  Limit = 4
INVARIANTS NestedTablesRead
