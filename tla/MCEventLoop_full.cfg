SPECIFICATION Spec
CONSTANTS
  r1 = r1  r2 = r2
  None = None  Invalid = Invalid
  Requests <- TwoRequests
  ReplyOf <- MCReplyOf
  Endless = {}
  Outcomes <- TwoOutcomes
  Values = {1}
  Observations = {}
  UserOf <- MCUserOf
  NameOf <- MCNameOf
  Hooks = {}
  Entries = {}
  Endings = {}
  Wakeups = TRUE
  Timeouts <- Blocking
  Notices <- SomeNotices
  Cap = 2
  Budget = 1
CHECK_DEADLOCK FALSE
INVARIANTS
  KnownErrorsAreKnown
