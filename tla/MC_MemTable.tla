------------------------------ MODULE MC_MemTable ------------------------------
(* Model-checking instance of MemTable: two user keys, one value, three  *)
(* Adds (Put or Delete), skiplist height up to 2, one reader, an arena   *)
(* of 64-byte blocks with 8-byte pointers.                                *)
EXTENDS MemTable

MCReaders == {"r1"}

\* Key sizes 1 and 3 bytes, a 5-byte value: entries of 11 to 18 bytes, so
\* with 64-byte blocks (a quarter is 16) entries and the 24-byte nodes of
\* height 2 take both fallback paths, and odd entry lengths make slop.
MCKeyBytes   == [k \in {1, 2} |-> IF k = 1 THEN 1 ELSE 3]
MCValueBytes == [v \in Values |-> 5]
===============================================================================
