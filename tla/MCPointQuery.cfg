SPECIFICATION Spec
CONSTANTS
    Record <- MCIntervals
    AtTimes = {0, 3, 4}
    Limits = {2, 9}
    Groupings <- MCGroupings
INVARIANTS
    LatestReported
    NextReported
    OnlyWanted
    ReportedOnce
    CountsAreExact
