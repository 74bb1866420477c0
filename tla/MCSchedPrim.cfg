SPECIFICATION Spec
CONSTANTS
  s1 = s1
  s2 = s2
  k1 = k1
  k2 = k2
  c1 = c1
  c2 = c2
  Sleepers = {s1, s2}
  Controllers = {k1, k2}
  Events = {e}
  Contexts = {c1, c2}
  Softclock = Softclock
  None = None
  Waking = Waking
  Casts <- WaitAndStop
  MaxRefs = 2
INVARIANTS
  QueuesAgree RunsOnce TimerHeld AbortSeen StopExclusive WaiterWoken
