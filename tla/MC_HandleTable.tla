---------------------------- MODULE MC_HandleTable ----------------------------
(* Model-checking instance of HandleTable.  Six keys, so that a fifth     *)
(* handle makes elems_ exceed length_ 4 and Resize runs.  Their hashes    *)
(* fall in slots 0, 1 and 3 at length 4 and in 0, 4, 5 and 7 at length   *)
(* 8; k2 and k6 have the same hash, so FindPointer's key comparison       *)
(* decides.  Five handles fill the table up to the Resize; handles are    *)
(* interchangeable.                                                        *)
EXTENDS HandleTable, TLC

CONSTANTS k1, k2, k3, k4, k5, k6, h1, h2, h3, h4, h5

MCKeys == {k1, k2, k3, k4, k5, k6}
MCHandles == {h1, h2, h3, h4, h5}
MCHashOf == (k1 :> 0) @@ (k2 :> 4) @@ (k3 :> 5) @@ (k4 :> 12)
              @@ (k5 :> 7) @@ (k6 :> 4)
MCSymmetry == Permutations(MCHandles)
===============================================================================
