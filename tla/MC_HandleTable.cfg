\* Six keys with colliding slots and one colliding hash, five handles.
CONSTANTS
    k1 = k1
    k2 = k2
    k3 = k3
    k4 = k4
    k5 = k5
    k6 = k6
    h1 = h1
    h2 = h2
    h3 = h3
    h4 = h4
    h5 = h5
    NULL = NULL
    Keys <- MCKeys
    Handles <- MCHandles
    HashOf <- MCHashOf
SPECIFICATION Spec
SYMMETRY MCSymmetry
INVARIANTS
    ChainsHashed
PROPERTIES
    AbsSpec
