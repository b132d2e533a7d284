\* One shard; NewLRUCache(2), or NewLRUCache(0) which turns caching off.
CONSTANTS
    k1 = k1
    k2 = k2
    e1 = e1
    e2 = e2
    e3 = e3
    NULL = NULL
    Keys <- MCKeys
    Entries <- MCEntries
    Charges = {1, 2}
    Capacities = {0, 2}
    Shards = {1}
    ShardOf <- MCShardOf1
    MaxHeld = 2
SPECIFICATION Spec
INVARIANTS
    TypeOK
    RefsMatchHandles
    ListsPartitionCache
    UsageMatchesCharges
PROPERTIES
    HeldEntriesNotEvicted
    DroppedEntriesFreed
