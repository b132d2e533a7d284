\* Recovery of a log cut by a crash at any cell, with at most one cell then
\* corrupted and at most one Skip or Read of the reader failing; reader
\* opened at offset 0, inside a record (1), at a record start (5) and in
\* the second block (9).  Corrupted values: a zero type, a zero length and
\* an over-long length, and a crc mismatch wherever they land.
CONSTANTS
    BlockSize = 8
    HeaderSize = 3
    Lengths = {0, 2, 7}
    MaxRecords = 3
    MaxCorrupt = 1
    CorruptValues = {0, 9}
    InitialOffsets <- MCInitialOffsets
    Checksum = TRUE
    MaxFaults = 0
    TornAppends = FALSE
    MaxReopens = 0
    MaxReadFaults = 1
SPECIFICATION Spec
CHECK_DEADLOCK FALSE
INVARIANTS
    TypeOK
    ReadsBackWritten
    NoSpuriousCorruptionFromStart
    NoSilentLossFromStart
    NoGarbageRecords
PROPERTIES
    ReaderTerminates
