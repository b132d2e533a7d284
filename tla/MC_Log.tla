-------------------------------- MODULE MC_Log --------------------------------
(* Model-checking instance of Log.  Blocks of 8 cells with a 3-cell header *)
(* leave 5 payload cells per block, so a 7-cell payload needs two or      *)
(* three fragments, and a record ending 5 cells into a block leaves a     *)
(* 3-cell gap where the writer emits an empty kFirstType fragment.        *)
EXTENDS Log

\* initial offsets: the start, inside the first block, and in the second
\* block (inside a record or at a record start, depending on the lengths)
MCInitialOffsets == {0, 1, 5, 9}
===============================================================================
