SPECIFICATION Spec
CONSTANT MaxInstances = 5
INVARIANTS ElectionIsComplete NoStrandedRound
PROPERTY WaitersReturn
