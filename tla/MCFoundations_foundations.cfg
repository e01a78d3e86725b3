SPECIFICATION FoundationsSpec
CONSTANTS
    NumKBs = 2
    Connections <- MCConnections
    DefaultLlm <- MCDefaultLlm
    Targets = {1, 6, 11}
    MaxCommands = 3
    Lines <- MCLines
    MaxLines = 4
    Size = 3
    MaxTexts = 5
    BatchSize = 3
    NumKeys = 2
    MaxAttempts = 2
    Dims = {1, 2}
INVARIANTS
    UpgradeFaithful
    ChunksFaithful
    VectorsFit
CHECK_DEADLOCK FALSE
