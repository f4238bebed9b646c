SPECIFICATION LiveSpec
CONSTANTS
  r1 = r1  r2 = r2
  None = None  Invalid = Invalid
  Requests <- TwoRequests
  ReplyOf <- MCReplyOf
  Endless <- OneEndless
  Outcomes <- TwoOutcomes
  Values = {1}
  Observations = {}
  UserOf <- MCUserOf
  NameOf <- MCNameOf
  Hooks = {}
  Entries = {1}
  Endings <- TwoEndings
  Wakeups = FALSE
  Timeouts <- Blocking
  Notices = {}
  Cap = 2
  Budget = 2
CHECK_DEADLOCK FALSE
INVARIANTS
  AnsweredAsSent
  FilesKnown
PROPERTIES
  ImplementsCalls
  OverflowReported
  WaitAsyncReturns
  ShutdownEndsLoop
