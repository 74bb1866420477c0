SPECIFICATION Spec
CONSTANTS
  Threads = {t1, t2, t3}
  Ports = {p1}
  Psets = {s1, s2}
  None = None
  QLimits = {1, 2}
  QLimitDefault = 1
  MaxSent = 3
  Builds <- MPAndUP
SYMMETRY Symmetry
INVARIANTS
  MsgcountExact ReceiversReachable SlotsClaimed SeqnoOrder LinkedOnce NoPanic
CHECK_DEADLOCK FALSE
