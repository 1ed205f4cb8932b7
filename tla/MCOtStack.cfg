SPECIFICATION Spec
CONSTANTS
  Csp = 2
  DeltaBits <- MCDelta
  Ssp = 2
  BatchSize = 2
  MaxOps = 5
  Faults = TRUE
  MaxCount = 2
  Stacks <- MCStacks
  CheckSize = 1
  FerretConfigs <- MCFerret
  AllocAdds = FALSE
INVARIANTS Correlated NoReuse NoFault Answered NoStall
