SPECIFICATION Spec
CONSTANTS
  Ports = {p1, p2, p3, p4}
  Threads = {t1, t2, t3}
  None = None
SYMMETRY Symmetry
INVARIANTS NoCircle NoDeadlock
CHECK_DEADLOCK FALSE
