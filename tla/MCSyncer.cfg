SPECIFICATION Spec
CONSTANTS Threads = {t1, t2, t3}
 Rounds = 2
 Modulus = 3
 MaxPending = 2
 MaxFailures = 1
PROPERTIES ImplementsSameOrder EveryoneServed
CHECK_DEADLOCK FALSE
