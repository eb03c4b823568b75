\* Both sides send and one receives: messages longer than the pipe, partial
\* reads, timeouts, every order of closing and cancelling.
CONSTANTS
    Capacity = 1
    Lengths = {2}
    Senders = {"client", "server"}
    Receivers = {"server"}
    Kinds = {"Recv", "ReadUpTo", "Read", "ReadRaw"}
    MaxBytes = 2
SPECIFICATION FairSpec
INVARIANTS EndpointsMadeOnce ShortOnlyAtEnd NobodyIsCutOff
PROPERTIES CancelReleases CloseReleasesPeer
CHECK_DEADLOCK FALSE
