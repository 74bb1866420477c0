SPECIFICATION MutexFairSpec
CONSTANTS
  Users = {t1, t2, t3, t4, t5}
  WaitersMod = 65536
INVARIANTS OneOwner WaitersExact NoSleepOnFree
PROPERTY SomebodyGetsIt
