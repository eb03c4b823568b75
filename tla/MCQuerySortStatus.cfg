SPECIFICATION Spec
CONSTANTS
    Record <- MCRecord
    ChunkSize = 2
    Limits = {9}
INVARIANT SuccessIsComplete
