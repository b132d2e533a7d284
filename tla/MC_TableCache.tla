---------------------------- MODULE MC_TableCache ----------------------------
(* Model-checking instance of TableCache: two threads, two files, one     *)
(* shard holding one table, so that a miss by one thread races a miss or  *)
(* an Evict by the other and a second file pushes the first out.          *)
EXTENDS TableCache

CONSTANTS t1, t2, f1, f2, e1, e2, e3, e4

MCThreads == {t1, t2}
MCFiles == {f1, f2}
\* TableAndFile allocations: at most three tables are open at once here (one
\* per thread and one cached), so malloc in Insert never runs out.
MCEntries == {e1, e2, e3, e4}
MCShardOf == [f \in MCFiles |-> 1]
===============================================================================
