SPECIFICATION Spec
CONSTANTS
  Spaces = {A, B}
  A = A
  B = B
  a1 = a1
  a2 = a2
  b1 = b1
  Slots <- TwoAndOne
  Ports = {p}
  None = None
  UrefsMax = 3
  MaxMscount = 1
  MaxNaked = 1
  MaxSendOnce = 1
  MaxStray = 1
SYMMETRY Symmetry
CHECK_DEADLOCK FALSE
INVARIANT NoStrayRight
