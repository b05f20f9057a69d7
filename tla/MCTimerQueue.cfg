CONSTANTS
  t1 = t1
  t2 = t2
  Timer <- MCTimer
  Intervals <- MCIntervals
  MaxTime = 5
SPECIFICATION Spec
CHECK_DEADLOCK FALSE
INVARIANTS
  CancelledStaysOut
  PendingTimerIsArmed
PROPERTY
  PromptTimersRun
