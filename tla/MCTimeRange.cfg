SPECIFICATION Spec
CONSTANTS
    UMax = 63
    SMax = 31
    Units = {1, 6, 10}
    MaxDigits = 1
    Scale <- MCScale
    Wholes = {0, 1, 3, 4, 5, 31, 32, 64}
    MaxLength = 2
    Given <- MCGiven
    TraceEnd = 4
    MaxOptions = 3
INVARIANTS
    BoundsAreExact
    SelectsTheRange
    RefusedForAReason
