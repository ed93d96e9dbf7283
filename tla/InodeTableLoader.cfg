SPECIFICATION TableSpec
CONSTANTS
  Locker = {t1}
  Loader = {t2}
  Inode = {i1, i2, i3}
  InodeSector = {s1, s2}
  NULL = NULL
INVARIANT OneInodePerSector
