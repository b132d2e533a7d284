\* Resynchronisation at an initial offset inside a fragmented record:
\* does the reader skip the record's tail without reporting it?
CONSTANTS
    BlockSize = 8
    HeaderSize = 3
    Lengths = {0, 2, 7}
    MaxRecords = 3
    MaxCorrupt = 0
    CorruptValues = {}
    InitialOffsets <- MCInitialOffsets
    Checksum = TRUE
    MaxFaults = 0
    TornAppends = FALSE
    MaxReopens = 0
    MaxReadFaults = 0
SPECIFICATION Spec
CHECK_DEADLOCK FALSE
INVARIANTS
    NoSpuriousCorruption
