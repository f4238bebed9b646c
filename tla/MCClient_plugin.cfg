SPECIFICATION Spec
CONSTANTS
  t1 = t1  t2 = t2
  p1 = p1  p2 = p2  p3 = p3
  k1 = k1  k2 = k2  k3 = k3
  c1 = c1  c2 = c2
  None = None
  Threads <- TwoThreads
  Ptrs <- TwoPtrs
  Slots <- TwoSlots
  Cores <- TwoCores
  HostCores <- FirstCore
  MaxId = 2
  StaticMain = FALSE
SYMMETRY Symmetry
CHECK_DEADLOCK FALSE
INVARIANTS
  HandleAlive
