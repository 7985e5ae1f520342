\* A due time beyond the wrap of GetTickCount.
CONSTANTS
  Timers = {t1}
  Elapses = {7}
  Repeats = {99}
  TIMES_INFINITY = 99
  TIMER_SPACE = 2
  TIMER_LEAD = 2
  Width = 12
  MaxTime = 15
  MaxPending = 2
  MaxSets = 1
  MaxStops = 0
SPECIFICATION Spec
INVARIANT NotEarly
CHECK_DEADLOCK FALSE
