\* Outputs read through maps, asked for twice.
SPECIFICATION Spec
CONSTANTS
    Values = {v1, v2}
    MaxMaps = 2
    MaxTries = 2
PROPERTY
    SentIsNotCanceled
CHECK_DEADLOCK FALSE
