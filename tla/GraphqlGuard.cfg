SPECIFICATION Spec
CONSTANTS
    MaxDepth = 3
    MaxComplexity = 4
    MaxBatchSize = 2
    Longest = 6
    AllowIntrospection = FALSE
    Payloads <- MCPayloads
CHECK_DEADLOCK FALSE
INVARIANTS
    TypeOK
    SeenIsPath
    VerdictIsTrue
PROPERTIES
    ScanEnds
