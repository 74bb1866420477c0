SPECIFICATION Spec
CONSTANTS
  Drivers = {d1, d2, d3}
  Threads = {t1}
  Pool = {e1, e2}
  None = None
  Wrap = 6
  MaxInterval = 2
  MaxNow = 5
SYMMETRY Symmetry
CHECK_DEADLOCK FALSE
INVARIANTS QueueExact OnTime PoolExhausted
