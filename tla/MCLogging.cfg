SPECIFICATION LiveSpec
CONSTANTS
  t1 = t1  t2 = t2
  Threads = {t1, t2}
  Inits = {i1, i2}
  Paths <- SomePaths
  MaxRecords <- Records
  MaxTime = 2
  MaxSets = 1
INVARIANTS TypeOK LinesWhole InOrder OneLogger StampsAligned PanicsOnlyIfSetBack BesideMpvLog
PROPERTIES LogReturns
CHECK_DEADLOCK FALSE
