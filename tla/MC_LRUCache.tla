----------------------------- MODULE MC_LRUCache -----------------------------
(* Model-checking instance of LRUCache: two keys, three LRUHandle          *)
(* allocations, charges 1 and 2, so that one Insert can push the shard    *)
(* over capacity while a client still holds another entry.                *)
EXTENDS LRUCache

CONSTANTS k1, k2, e1, e2, e3

MCKeys == {k1, k2}
MCEntries == {e1, e2, e3}
\* one shard: every key hashes to it
MCShardOf1 == [k \in MCKeys |-> 1]
\* two shards: the keys hash to different shards
MCShardOf2 == [k \in MCKeys |-> IF k = k1 THEN 1 ELSE 2]
===============================================================================
