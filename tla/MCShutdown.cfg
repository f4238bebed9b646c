SPECIFICATION LiveSpec
CONSTANTS
  t1 = t1  t2 = t2  t3 = t3
  Threads <- ThreeThreads
  StrongAt <- TwoStrong
  MaxOwned = 2
CHECK_DEADLOCK FALSE
INVARIANTS
  TypeOK
  

  
  
