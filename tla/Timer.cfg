SPECIFICATION FairSpec
CONSTANTS
  Timers = {t1, t2}
  Delays <- MCDelays
  Intervals <- MCIntervals
  IdleWait = 2
  MaxTime = 3
INVARIANTS MapMatchesHeap NeverEarly
PROPERTIES CancelIsFinal QuietAfterStop SetTimerFires StopReturns
CHECK_DEADLOCK FALSE
