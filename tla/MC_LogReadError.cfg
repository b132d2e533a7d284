\* A failed Skip or block Read while the reader starts at an initial
\* offset: is every record it loses reported?
CONSTANTS
    BlockSize = 8
    HeaderSize = 3
    Lengths = {0, 2, 7}
    MaxRecords = 3
    MaxCorrupt = 0
    CorruptValues = {}
    InitialOffsets <- MCInitialOffsets
    Checksum = TRUE
    MaxFaults = 0
    TornAppends = FALSE
    MaxReopens = 0
    MaxReadFaults = 1
SPECIFICATION Spec
CHECK_DEADLOCK FALSE
INVARIANTS
    NoSilentLoss
