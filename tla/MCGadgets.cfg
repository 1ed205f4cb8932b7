\* Hash gadgets on an ideal machine; circuits by hand, from files, by gadgets;
\* binary fields; bit transposition.
SPECIFICATION GadgetSpec
CONSTANTS
    ShaBlock = 3
    KeccakBlock = 2
    ChunkBlocks = 2
    Sizes <- MCSizes
    Kinds <- MCKinds
    Masks <- MCMasks
    MaxPieces <- MCMaxPieces
    MaxFinals <- MCMaxFinals
    MaxRuns = 2
    MaxCalls = 6
    Lag = 1
    MaxInputs = 2
    MaxGates = 2
    MaxLines = 3
    MaxOutputs = 2
    Patterns <- MCPatterns
    MaxWordOps = 1
    Width = 3
    BatchSize = 2
    Rotations <- MCRotations
    Seeds <- MCSeeds
    PieceLen = 2
    Elements <- MCElements
    MaxOps = 1
    Shapes <- MCShapes
    MaxRounds = 5
INVARIANTS
    DigestsRight
    DecodesAnswered
    BuiltComputes
    GarblingRight
    BackendsRight
