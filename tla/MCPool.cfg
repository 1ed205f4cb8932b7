SPECIFICATION Spec
CONSTANTS NumThreads = 2
 Tasks = {t1, t2}
 Clients = {c1}
 MaxSchedules = 2
INVARIANT OneRunnable
PROPERTIES ScheduledRuns WorkersExit
