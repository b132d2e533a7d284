\* AddRecord after a failed Append, or after a crash that cut a header and
\* a reopen with Writer(dest, dest_length): are the records acknowledged
\* afterwards recovered?
CONSTANTS
    BlockSize = 8
    HeaderSize = 3
    Lengths = {0, 2, 7}
    MaxRecords = 3
    MaxCorrupt = 0
    CorruptValues = {}
    InitialOffsets = {0}
    Checksum = TRUE
    MaxFaults = 1
    TornAppends = FALSE
    MaxReopens = 1
    MaxReadFaults = 0
SPECIFICATION Spec
CHECK_DEADLOCK FALSE
INVARIANTS
    AcknowledgedRecordsRecovered
