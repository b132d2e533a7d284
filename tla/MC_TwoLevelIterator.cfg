\* A table of three data blocks, any block read failing on any call.
CONSTANTS
    Blocks <- MCBlocks
    Targets <- MCTargets
    ReadFailures = TRUE
    NULL = NULL
SPECIFICATION Spec
INVARIANTS
    DataIterMatchesIndex
PROPERTIES
    AbsSpec
