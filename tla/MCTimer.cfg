\* Two timers, late scans, a clock that does not wrap.
CONSTANTS
  Timers = {t1, t2}
  Elapses = {3, 7}
  Repeats = {1, 2, 99}
  TIMES_INFINITY = 99
  TIMER_SPACE = 2
  TIMER_LEAD = 2
  Width = 1000
  MaxTime = 6
  MaxPending = 2
  MaxSets = 2
  MaxStops = 1
SPECIFICATION Spec
INVARIANTS NoDrift RepeatBound
PROPERTY TimerFires
