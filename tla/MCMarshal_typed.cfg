SPECIFICATION Spec
CONSTANTS
  Inputs <- MCInputs
  HasNul <- MCNul
  MaxLen = 2
  MaxDepth = 3
  Types <- MCTypes
INVARIANTS GetTyped
CHECK_DEADLOCK FALSE
