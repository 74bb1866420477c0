SPECIFICATION Spec
CONSTANTS
  Threads = {t1, t2}
  Ulocks = {u1}
  None = None
  Builds = {TRUE}
CHECK_DEADLOCK FALSE
INVARIANT OwnerWakes
