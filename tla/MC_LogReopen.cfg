\* Failed appends, torn or not, and a reopen for appending after a crash.
CONSTANTS
    BlockSize = 8
    HeaderSize = 3
    Lengths = {0, 2, 7}
    MaxRecords = 3
    MaxCorrupt = 0
    CorruptValues = {}
    InitialOffsets = {0}
    Checksum = TRUE
    MaxFaults = 1
    TornAppends = TRUE
    MaxReopens = 1
    MaxReadFaults = 0
SPECIFICATION Spec
CHECK_DEADLOCK FALSE
INVARIANTS
    NoGarbageRecords
    CleanReopenRecovered
