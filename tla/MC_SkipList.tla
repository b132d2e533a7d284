------------------------------ MODULE MC_SkipList ------------------------------
(* Model-checking instance of SkipList over integer keys compared as     *)
(* numbers: three keys, three levels, one reader (readers only load, so   *)
(* a second reader adds interleavings of loads that no property relates). *)
EXTENDS SkipList

MCReaders == {"r1"}
IntCompare(a, b) == IF a < b THEN -1 ELSE IF a > b THEN 1 ELSE 0
===============================================================================
