SPECIFICATION Spec
CONSTANTS
  Inputs <- MCInputs
  HasNul <- MCNul
  MaxLen = 2
  MaxDepth = 3
  Types <- MCTypes
INVARIANTS TypeOK FreedOnce NothingLeaks RoundTrip RetTyped
CHECK_DEADLOCK FALSE
