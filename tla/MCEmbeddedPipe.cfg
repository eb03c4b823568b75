\* Two writers compete for the pipe and one reader empties it.
CONSTANTS
    Capacity = 2
    Byte = {0, 1, 2}
    Blank = 0
    Writers = {w1, w2}
    Readers = {r1}
    Payloads <- MCPayloads
    ReadLengths = {1, 2}
    MaxBytes = 4
SPECIFICATION FairSpec
INVARIANTS
    StreamIntact
    NoLostWakeup
    WritersNeverStranded
PROPERTIES
    ImplementsByteChannel
    CloseReleases
    TimedReadsReturn
    OpenSendsReturn
