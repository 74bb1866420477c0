SPECIFICATION FairSpec
CONSTANTS
  Threads = {t1, t2, t3}
  Ulocks = {u1}
  None = None
  Builds = {FALSE}
CHECK_DEADLOCK FALSE
INVARIANTS OwnershipAgrees SleepersKnown HandoffPaired
PROPERTY DestroyReleases
