\* Two threads that configure and finish against each other, or one of them.
CONSTANTS
    Callers = {a, b}
SPECIFICATION FairSpec
INVARIANTS OneFinisher OnlyDrainedIsWritten OutputIsWrittenOut NoPartialLeft
PROPERTIES ForeignFileKept LifecycleKept FinishReturns
