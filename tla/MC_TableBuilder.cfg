\* Up to five Adds of increasing keys with one-byte values.  With 24-byte
\* blocks and restart interval 2, data blocks hold one to three entries
\* (17 to 32 bytes with the trailer); with 16-byte filter ranges, two
\* blocks may share a filter and a block may skip a range (an empty
\* filter).  Any one file operation of any call may fail: an Append or
\* Flush of a data block, or one of the writes of Finish.
CONSTANTS
    Keys <- MCKeys
    Values <- MCValues
    BlockSizeOption = 24
    RestartInterval = 2
    MaxEntries = 5
    FilterBaseLg = 4
    ParanoidChecks = TRUE
SPECIFICATION Spec
CHECK_DEADLOCK FALSE
INVARIANTS
    TypeOK
    ReadBack
    FailuresReported
    RestartPointsUnshared
