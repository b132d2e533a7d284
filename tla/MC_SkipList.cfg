\* One writer inserting keys 1..3 at heights 1..3, one lock-free reader.
CONSTANTS
    Keys = {1, 2, 3}
    Compare <- IntCompare
    MaxHeight = 3
    Readers <- MCReaders
    HeadNode = HeadNode
    Nil = Nil
    Garbage = Garbage
SPECIFICATION Spec
CHECK_DEADLOCK FALSE
INVARIANTS
    TypeOK
    NoUnsetPointerRead
    SeekFindsInserted
    ScanSeesSnapshot
    BackwardFindsInserted
PROPERTIES
    ReadersFinish
