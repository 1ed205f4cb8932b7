SPECIFICATION Spec
CONSTANTS
  InputSizes <- MCInputSizes
  Owner <- MCOwner
  Handles <- MCHandles
  Value <- MCValue
  Circuits <- MCCircuits
  BatchSize = 2
  ChunkCap = 3
  CheckOts = 2
  MaxFaults = 1
  MaxDecodes = 1
  MaxJoint = 2
CHECK_DEADLOCK FALSE
INVARIANTS NoFailure Soundness OtBudget NoDecodeForgotten
PROPERTY Returns
