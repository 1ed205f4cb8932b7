SPECIFICATION Spec
CONSTANTS N = 2
 MaxFailures = 1
 Programs <- TwoRounds
INVARIANTS Correlated LeadersAgree OtsAccounted
PROPERTY FlushesReturn
CHECK_DEADLOCK FALSE
