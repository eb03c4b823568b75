SPECIFICATION TestFairSpec
CONSTANTS
    Callers = {test}
    Test = test
INVARIANTS
    PassingWritesNothing
    FailureHasItsCapture
PROPERTIES
    HelperEnds
