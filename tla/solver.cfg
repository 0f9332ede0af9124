SPECIFICATION Spec
CONSTANTS
    Blocks = {"b"}
    Tasks = {"t", "u", "v"}
    Duration <- MCDuration
    Chunk <- MCChunk
    Family <- MCFamily
    Allowed <- MCAllowed
    MaxMinute = 5
    Inputs <- MCInputs
    None = None
INVARIANTS
    ComponentsExact
    GreedyValid
    MergedValid
    InfeasibleProven
CHECK_DEADLOCK FALSE
