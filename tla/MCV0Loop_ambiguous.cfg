CONSTANTS
  Capacity = 3
  Reserve = 1
  Margin = 1
  Cap = 2
  MaxLoopErrors = 2
  Enough = 1
  Environment <- Unrecognised
SPECIFICATION Spec
INVARIANT SessionCapHolds
