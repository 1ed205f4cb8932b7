SPECIFICATION Spec
CONSTANTS NumThreads = 1
 Tasks = {t1, t2}
 Clients = {c1}
 MaxSchedules = 2
INVARIANT NothingStranded
