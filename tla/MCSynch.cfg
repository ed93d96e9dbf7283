SPECIFICATION SynchFairSpec
CONSTANTS
  Thread = {main, t1, t2}
  initial_thread = main
  idle_thread = idle
  TIME_SLICE = 1
  Sema = {s1}
  Lock = {l1}
  Cond = {c1}
  lock_of <- MC_lock_of
  NULL = NULL
  MaxValue = 2
INVARIANTS ElemOnOneList LockExclusion NoLostWakeup NoLostSignal
PROPERTIES ImplementsMonitor SignalDelivered
