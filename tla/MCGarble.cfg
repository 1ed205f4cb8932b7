SPECIFICATION Spec
CONSTANTS
  Bounds <- MCBounds
  Owner <- MCOwner
  Handles <- MCHandles
  CallInputs <- MCCallInputs
  Values <- MCValues
  MaxDecodes = 2
  MaxJoint = 2
CHECK_DEADLOCK FALSE
INVARIANTS NoFailure DecodesTruth OnlyDecoded NoDecodeForgotten
PROPERTY Returns
