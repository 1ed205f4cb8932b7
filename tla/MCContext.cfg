\* Contexts: all layouts of MCSessions, one refused open.
SPECIFICATION Spec
CONSTANTS
    Work <- MCWork
    Sessions <- MCSessions
    Capacity = 2
    MaxFaults = 1
INVARIANTS
    CounterpartsMeet
    RightAnswers
    AllLanesOrNone
PROPERTY
    EveryOperationReturns
CHECK_DEADLOCK FALSE
