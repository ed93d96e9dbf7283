SPECIFICATION FairSpec
CONSTANTS
  Thread = {main, t1, t2, t3}
  initial_thread = main
  idle_thread = idle
  TIME_SLICE = 2
INVARIANTS RunQueueConsistent NeverHaltedWithWork
PROPERTIES NoOvertaking ReadyRuns
