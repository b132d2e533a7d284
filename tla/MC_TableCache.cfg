\* Two threads, two files, TableCache(entries = 1) on one shard; opening a
\* file may fail.
CONSTANTS
    t1 = t1
    t2 = t2
    f1 = f1
    f2 = f2
    e1 = e1
    e2 = e2
    e3 = e3
    e4 = e4
    NULL = NULL
    Threads <- MCThreads
    Files <- MCFiles
    Entries <- MCEntries
    Capacities = {1}
    Shards = {1}
    ShardOf <- MCShardOf
    OpenFails = TRUE
SPECIFICATION Spec
INVARIANTS
    HandlesMatchThreads
PROPERTIES
    EvictedTablesClosed
