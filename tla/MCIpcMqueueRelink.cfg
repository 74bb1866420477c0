SPECIFICATION Spec
CONSTANTS
  Threads = {t1, t2}
  Ports = {p1}
  Psets = {s1}
  None = None
  QLimits = {1, 2}
  QLimitDefault = 1
  MaxSent = 3
  Builds <- SendsTimed
PROPERTIES EnqueueAssert
CHECK_DEADLOCK FALSE
