SPECIFICATION Spec
CONSTANTS
    Record <- MCRecord
    ChunkSize = 2
    Limits = {0, 3, 9}
INVARIANTS
    CompleteAtEnd
PROPERTIES
    ImplementsOrderedOutput
