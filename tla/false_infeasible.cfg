SPECIFICATION Spec
CONSTANTS
    Blocks = {"b"}
    Tasks = {"t", "u", "v"}
    Duration <- LongBlock
    Chunk <- MCChunk
    Family <- MCFamily
    Allowed <- MCAllowed
    MaxMinute = 6
    Inputs <- InProgressInputs
    None = None
INVARIANT InfeasibleIsProof
CHECK_DEADLOCK FALSE
