SPECIFICATION Spec
CONSTANTS
    Record <- MCSamples
    AtTimes = {3}
    Limits = {9}
    Groupings = {}
INVARIANT NextReported
