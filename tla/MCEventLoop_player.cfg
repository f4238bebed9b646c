SPECIFICATION LiveSpec
CONSTANTS
  r1 = r1  r2 = r2
  None = None  Invalid = Invalid
  Requests = {}
  ReplyOf <- MCReplyOf
  Endless = {}
  Outcomes <- TwoOutcomes
  Values = {1}
  Observations = {"o1", "o2", "o3"}
  UserOf <- MCUserOf
  NameOf <- MCNameOf
  Hooks = {"on_load"}
  Entries = {}
  Endings = {}
  Wakeups = TRUE
  Timeouts <- Polling
  Notices <- SomeNotices
  Cap = 1
  Budget = 2
CHECK_DEADLOCK FALSE
INVARIANTS
  TypeOK
  FilterAsAsked
  ObservationsKnown
PROPERTIES
  HooksContinue
  PropertyConverges
