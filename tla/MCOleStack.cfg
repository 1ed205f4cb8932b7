SPECIFICATION Spec
CONSTANTS
  Csp = 1
  DeltaBits <- MCDelta
  Modulus = 5
  BitSize = 3
  Tape <- MCTape
  MaxOps = 5
  Faults = FALSE
  MaxCount = 2
  Stacks <- MCStacks
INVARIANTS Correlated SharesUsedOnce NoFault Answered
