\* Three Adds over two user keys racing one Get reader, through a
\* 64-byte-block arena.
CONSTANTS
    UserKeys = {1, 2}
    Values = {v1}
    MaxSequence = 3
    MaxHeight = 2
    Readers <- MCReaders
    HeadNode = HeadNode
    Nil = Nil
    Garbage = Garbage
    NoAnswer = NoAnswer
    KeyBytes <- MCKeyBytes
    ValueBytes <- MCValueBytes
    ArenaBlockSize = 64
    PointerSize = 8
SPECIFICATION Spec
CHECK_DEADLOCK FALSE
INVARIANTS
    TypeOK
    AllocationsDisjoint
    NodesAligned
PROPERTIES
    AbsSpec
