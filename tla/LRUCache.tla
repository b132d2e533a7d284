------------------------------- MODULE LRUCache -------------------------------
(***************************************************************************)
(* The sharded LRU cache of util/cache.cc (ShardedLRUCache over LRUCache). *)
(*                                                                         *)
(* Every LRUCache method runs under its shard's mutex_, so each one is a   *)
(* single atomic action here.  ShardedLRUCache::Prune locks the shards one *)
(* after the other, so it is one action per shard.  Client threads hold    *)
(* Cache::Handle pointers outside the lock; `held` counts the handles the  *)
(* clients hold on each LRUHandle.                                         *)
(*                                                                         *)
(* An LRUHandle is an element of Entries: malloc in Insert takes a free    *)
(* one, the deleter + free in Unref gives it back.  HandleTable (a chained *)
(* hash table with Resize) is abstracted to its meaning, a map from key to *)
(* the one LRUHandle stored under it.  The lru_ list keeps its order (its  *)
(* head is evicted first); in_use_ is never read in order, so it is a set. *)
(***************************************************************************)
EXTENDS Naturals, Sequences, SequencesExt, FiniteSets

CONSTANTS
    Keys,       \* cache keys (model values)
    Entries,    \* the LRUHandle allocations malloc can return
    Charges,    \* charges a caller may pass to Insert
    Capacities, \* capacities NewLRUCache may be called with
    Shards,     \* shard indices
    ShardOf,    \* [Keys -> Shards]: Shard(HashSlice(key)), the top hash bits
    MaxHeld,    \* bound on the handles the clients hold on one entry
    NULL

ASSUME Capacities \subseteq Nat /\ MaxHeld \in Nat \ {0}
ASSUME Charges \subseteq Nat \ {0} /\ ShardOf \in [Keys -> Shards]
ASSUME NULL \notin Entries

VARIABLES
    status,     \* [Entries -> {"free", "live"}]: malloc'd and not yet freed
    key,        \* LRUHandle::key_data
    charge,     \* LRUHandle::charge
    refs,       \* LRUHandle::refs
    in_cache,   \* LRUHandle::in_cache
    table,      \* HandleTable: [Keys -> Entries \cup {NULL}]
    lru,        \* [Shards -> Seq(Entries)]: lru_ list, oldest first
    in_use,     \* [Shards -> SUBSET Entries]: in_use_ list
    usage,      \* [Shards -> Nat]: usage_
    held,       \* [Entries -> Nat]: handles the clients hold
    capacity,   \* [Shards -> Nat]: capacity_, set once by the constructor
    lastOp      \* the last cache operation, for the action property

vars == <<capacity, status, key, charge, refs, in_cache, table, lru, in_use, usage,
          held, lastOp>>

\* ShardedLRUCache constructor: per_shard = ceil(capacity / kNumShards).
PerShard(c) == (c + Cardinality(Shards) - 1) \div Cardinality(Shards)

\* The entries removed from the head of a shard's lru_ by the eviction loop
\* of Insert: while usage_ > capacity_ and lru_ is not empty.
RECURSIVE EvictPrefix(_, _, _)
EvictPrefix(l, u, cap) ==
    IF u > cap /\ l # <<>>
    THEN <<Head(l)>> \o EvictPrefix(Tail(l), u - charge[Head(l)], cap)
    ELSE <<>>

SumCharge(S) == LET F[T \in SUBSET S] ==
                      IF T = {} THEN 0
                      ELSE LET x == CHOOSE x \in T : TRUE
                           IN charge[x] + F[T \ {x}]
                IN F[S]

(***************************************************************************)
(* Deallocation of a set D of entries whose refs drop to 0 (Unref calling *)
(* the deleter and free).                                                  *)
(***************************************************************************)
Free(st, D) == [e \in Entries |-> IF e \in D THEN "free" ELSE st[e]]

\* NewLRUCache(capacity): SetCapacity(per_shard) on every shard, then the
\* LRUCache constructor of each.
Init ==
    /\ \E c \in Capacities : capacity = [s \in Shards |-> PerShard(c)]
    /\ status = [e \in Entries |-> "free"]
    /\ key = [e \in Entries |-> CHOOSE k \in Keys : TRUE]
    /\ charge = [e \in Entries |-> CHOOSE c \in Charges : TRUE]
    /\ refs = [e \in Entries |-> 0]
    /\ in_cache = [e \in Entries |-> FALSE]
    /\ table = [k \in Keys |-> NULL]
    /\ lru = [s \in Shards |-> <<>>]
    /\ in_use = [s \in Shards |-> {}]
    /\ usage = [s \in Shards |-> 0]
    /\ held = [e \in Entries |-> 0]
    /\ lastOp = [op |-> "none", key |-> NULL]

\* Mutant: the cache's reference is taken even when caching is off.
NewRefsAlwaysCached(cache) == 2

\* refs of a new entry: 1 for the returned handle, plus 1 for the cache's
\* reference when capacity_ > 0.
NewRefs(cache) == IF cache THEN 2 ELSE 1

(***************************************************************************)
(* LRUCache::Insert.  The new entry gets refs 1 for the returned handle;  *)
(* when capacity_ > 0 it also gets the cache's reference, joins in_use_,  *)
(* adds its charge, and replaces (FinishErase) any entry under the same   *)
(* key.  Then the head of lru_ is evicted until usage_ <= capacity_.      *)
(* e is the LRUHandle malloc returned; it is the handle Insert returns.   *)
(***************************************************************************)
InsertEntry(k, c, e) ==
      /\ status[e] = "free"
      /\ LET s     == ShardOf[k]
             cache == capacity[s] > 0
             old   == IF cache THEN table[k] ELSE NULL
             \* FinishErase(old): unlink, clear in_cache, drop its charge, Unref
             lru1  == IF old # NULL THEN Remove(lru[s], old) ELSE lru[s]
             use1  == IF old # NULL THEN usage[s] + c - charge[old]
                      ELSE IF cache THEN usage[s] + c ELSE usage[s]
             oldFreed == IF old # NULL /\ refs[old] = 1 THEN {old} ELSE {}
             ev    == EvictPrefix(lru1, use1, capacity[s])
             evSet == ToSet(ev)
         IN
         /\ status' = Free([status EXCEPT ![e] = "live"], oldFreed \cup evSet)
         /\ key' = [key EXCEPT ![e] = k]
         /\ charge' = [charge EXCEPT ![e] = c]
         /\ refs' = [x \in Entries |->
                       IF x = e THEN NewRefs(cache)
                       ELSE IF x = old \/ x \in evSet THEN refs[x] - 1
                       ELSE refs[x]]
         /\ in_cache' = [x \in Entries |->
                       IF x = e THEN cache
                       ELSE IF x = old \/ x \in evSet THEN FALSE
                       ELSE in_cache[x]]
         /\ table' = [kk \in Keys |->
                       IF kk = k /\ cache THEN e
                       ELSE IF table[kk] \in evSet THEN NULL
                       ELSE table[kk]]
         /\ lru' = [lru EXCEPT ![s] = SubSeq(lru1, Len(ev) + 1, Len(lru1))]
         /\ in_use' = [in_use EXCEPT ![s] =
                         (IF cache THEN @ \cup {e} ELSE @) \ {old}]
         /\ usage' = [usage EXCEPT ![s] =
                         use1 - SumCharge(evSet)]
         /\ held' = [held EXCEPT ![e] = 1]
         /\ lastOp' = [op |-> "insert", key |-> k]
         /\ UNCHANGED capacity

\* Insert with malloc returning any free LRUHandle.
Insert(k, c) == \E e \in Entries : InsertEntry(k, c, e)

(***************************************************************************)
(* LRUCache::Lookup: on a hit, Ref moves an entry with refs 1 from lru_   *)
(* to in_use_, increments refs, and the handle goes to the caller.        *)
\* Mutant: Ref forgets refs++ when it moves the entry off lru_.
LookupSkipRef(k) ==
    LET e == table[k]
        s == ShardOf[k]
    IN
    /\ e # NULL
    /\ held[e] < MaxHeld
    /\ IF refs[e] = 1 /\ in_cache[e]
       THEN /\ lru' = [lru EXCEPT ![s] = Remove(@, e)]
            /\ in_use' = [in_use EXCEPT ![s] = @ \cup {e}]
            /\ UNCHANGED refs
       ELSE /\ refs' = [refs EXCEPT ![e] = @ + 1]
            /\ UNCHANGED <<lru, in_use>>
    /\ held' = [held EXCEPT ![e] = @ + 1]
    /\ lastOp' = [op |-> "lookup", key |-> k]
    /\ UNCHANGED <<capacity, status, key, charge, in_cache, table, usage>>

\* Mutant: Ref counts the reference but leaves the entry on lru_.
LookupNoListMove(k) ==
    LET e == table[k]
    IN
    /\ e # NULL
    /\ held[e] < MaxHeld
    /\ refs' = [refs EXCEPT ![e] = @ + 1]
    /\ held' = [held EXCEPT ![e] = @ + 1]
    /\ lastOp' = [op |-> "lookup", key |-> k]
    /\ UNCHANGED <<capacity, status, key, charge, in_cache, table, usage, lru, in_use>>

(***************************************************************************)
Lookup(k) ==
    LET e == table[k]
        s == ShardOf[k]
    IN
    /\ e # NULL
    /\ held[e] < MaxHeld
    /\ IF refs[e] = 1 /\ in_cache[e]
       THEN /\ lru' = [lru EXCEPT ![s] = Remove(@, e)]
            /\ in_use' = [in_use EXCEPT ![s] = @ \cup {e}]
       ELSE UNCHANGED <<lru, in_use>>
    /\ refs' = [refs EXCEPT ![e] = @ + 1]
    /\ held' = [held EXCEPT ![e] = @ + 1]
    /\ lastOp' = [op |-> "lookup", key |-> k]
    /\ UNCHANGED <<capacity, status, key, charge, in_cache, table, usage>>

(***************************************************************************)
(* LRUCache::Release = Unref: at refs 0 the deleter runs and the entry is *)
(* freed; an entry still in the cache whose refs drop to 1 moves from     *)
(* in_use_ to the tail (newest end) of lru_.                              *)
\* Mutant: Unref never moves an entry back to lru_.
ReleaseNoRequeue(e) ==
    /\ held[e] > 0
    /\ held' = [held EXCEPT ![e] = @ - 1]
    /\ refs' = [refs EXCEPT ![e] = @ - 1]
    /\ status' = IF refs[e] = 1 THEN Free(status, {e}) ELSE status
    /\ lastOp' = [op |-> "release", key |-> key[e]]
    /\ UNCHANGED <<capacity, key, charge, in_cache, table, usage, lru, in_use>>

(***************************************************************************)
Release(e) ==
    LET s == ShardOf[key[e]]
    IN
    /\ held[e] > 0
    /\ held' = [held EXCEPT ![e] = @ - 1]
    /\ refs' = [refs EXCEPT ![e] = @ - 1]
    /\ status' = IF refs[e] = 1 THEN Free(status, {e}) ELSE status
    /\ IF in_cache[e] /\ refs[e] = 2
       THEN /\ lru' = [lru EXCEPT ![s] = Append(@, e)]
            /\ in_use' = [in_use EXCEPT ![s] = @ \ {e}]
       ELSE UNCHANGED <<lru, in_use>>
    /\ lastOp' = [op |-> "release", key |-> key[e]]
    /\ UNCHANGED <<capacity, key, charge, in_cache, table, usage>>

\* Mutant: FinishErase forgets usage_ -= charge.
EraseKeepsUsage(k) ==
    LET e == table[k]
        s == ShardOf[k]
    IN
    /\ e # NULL
    /\ table' = [table EXCEPT ![k] = NULL]
    /\ lru' = [lru EXCEPT ![s] = Remove(@, e)]
    /\ in_use' = [in_use EXCEPT ![s] = @ \ {e}]
    /\ in_cache' = [in_cache EXCEPT ![e] = FALSE]
    /\ refs' = [refs EXCEPT ![e] = @ - 1]
    /\ status' = IF refs[e] = 1 THEN Free(status, {e}) ELSE status
    /\ lastOp' = [op |-> "erase", key |-> k]
    /\ UNCHANGED <<capacity, key, charge, held, usage>>

\* Mutant: FinishErase clears in_cache but forgets the Unref.
EraseNoUnref(k) ==
    LET e == table[k]
        s == ShardOf[k]
    IN
    /\ e # NULL
    /\ table' = [table EXCEPT ![k] = NULL]
    /\ lru' = [lru EXCEPT ![s] = Remove(@, e)]
    /\ in_use' = [in_use EXCEPT ![s] = @ \ {e}]
    /\ in_cache' = [in_cache EXCEPT ![e] = FALSE]
    /\ usage' = [usage EXCEPT ![s] = @ - charge[e]]
    /\ lastOp' = [op |-> "erase", key |-> k]
    /\ UNCHANGED <<capacity, key, charge, held, refs, status>>

\* Mutant: both Erase and FinishErase Unref the entry.
EraseDoubleUnref(k) ==
    LET e == table[k]
        s == ShardOf[k]
    IN
    /\ e # NULL
    /\ table' = [table EXCEPT ![k] = NULL]
    /\ lru' = [lru EXCEPT ![s] = Remove(@, e)]
    /\ in_use' = [in_use EXCEPT ![s] = @ \ {e}]
    /\ in_cache' = [in_cache EXCEPT ![e] = FALSE]
    /\ usage' = [usage EXCEPT ![s] = @ - charge[e]]
    /\ refs' = [refs EXCEPT ![e] = @ - 2]
    /\ status' = IF refs[e] <= 2 THEN Free(status, {e}) ELSE status
    /\ lastOp' = [op |-> "erase", key |-> k]
    /\ UNCHANGED <<capacity, key, charge, held>>

(***************************************************************************)
(* LRUCache::Erase: remove the key from the table and FinishErase it.     *)
(***************************************************************************)
Erase(k) ==
    LET e == table[k]
        s == ShardOf[k]
    IN
    /\ e # NULL
    /\ table' = [table EXCEPT ![k] = NULL]
    /\ lru' = [lru EXCEPT ![s] = Remove(@, e)]
    /\ in_use' = [in_use EXCEPT ![s] = @ \ {e}]
    /\ in_cache' = [in_cache EXCEPT ![e] = FALSE]
    /\ usage' = [usage EXCEPT ![s] = @ - charge[e]]
    /\ refs' = [refs EXCEPT ![e] = @ - 1]
    /\ status' = IF refs[e] = 1 THEN Free(status, {e}) ELSE status
    /\ lastOp' = [op |-> "erase", key |-> k]
    /\ UNCHANGED <<capacity, key, charge, held>>

(***************************************************************************)
(* LRUCache::Prune of one shard: FinishErase every entry of lru_.         *)
(***************************************************************************)
Prune(s) ==
    LET P == ToSet(lru[s])
    IN
    /\ P # {}
    /\ table' = [k \in Keys |-> IF table[k] \in P THEN NULL ELSE table[k]]
    /\ lru' = [lru EXCEPT ![s] = <<>>]
    /\ in_cache' = [e \in Entries |-> IF e \in P THEN FALSE ELSE in_cache[e]]
    /\ usage' = [usage EXCEPT ![s] = @ - SumCharge(P)]
    /\ refs' = [e \in Entries |-> IF e \in P THEN refs[e] - 1 ELSE refs[e]]
    /\ status' = Free(status, P)
    /\ lastOp' = [op |-> "prune", key |-> NULL]
    /\ UNCHANGED <<capacity, key, charge, in_use, held>>

Next ==
    \/ \E k \in Keys, c \in Charges : Insert(k, c)
    \/ \E k \in Keys : Lookup(k) \/ Erase(k)
    \/ \E e \in Entries : Release(e)
    \/ \E s \in Shards : Prune(s)

\* Every handle a client obtains is eventually released (the Cache contract).
Fairness == \A e \in Entries : WF_vars(Release(e))

Spec == Init /\ [][Next]_vars /\ Fairness

-------------------------------------------------------------------------------
Live == {e \in Entries : status[e] = "live"}

TypeOK ==
    /\ status \in [Entries -> {"free", "live"}]
    /\ key \in [Entries -> Keys]
    /\ charge \in [Entries -> Charges]
    /\ refs \in [Entries -> Nat]
    /\ in_cache \in [Entries -> BOOLEAN]
    /\ table \in [Keys -> Entries \cup {NULL}]
    /\ lru \in [Shards -> Seq(Entries)]
    /\ in_use \in [Shards -> SUBSET Entries]
    /\ usage \in [Shards -> Nat]
    /\ held \in [Entries -> 0..MaxHeld]

(***************************************************************************)
(* Reference counts (Ref/Unref in Insert, Lookup, Release, FinishErase):  *)
(* an allocated entry's refs is exactly the handles clients hold plus one *)
(* if the cache holds it, and no client holds a handle on a freed entry   *)
(* (the deleter never runs while a handle is outstanding).                *)
(***************************************************************************)
RefsMatchHandles ==
    \A e \in Entries :
       IF status[e] = "live"
       THEN refs[e] = held[e] + (IF in_cache[e] THEN 1 ELSE 0) /\ refs[e] > 0
       ELSE held[e] = 0

(***************************************************************************)
(* The two lists of a shard (the comment on LRUCache and Ref/Unref): an   *)
(* entry is in the cache iff the table maps its key to it iff it is on    *)
(* exactly one of lru_ (refs = 1) and in_use_ (refs >= 2) of its shard.   *)
(***************************************************************************)
ListsPartitionCache ==
    \A e \in Entries :
       LET s == ShardOf[key[e]] IN
       /\ in_cache[e] <=> (status[e] = "live" /\ table[key[e]] = e)
       /\ in_cache[e] <=> (Contains(lru[s], e) \/ e \in in_use[s])
       /\ Contains(lru[s], e) => refs[e] = 1 /\ e \notin in_use[s]
       /\ e \in in_use[s] => refs[e] >= 2
       /\ \A t \in Shards \ {s} : ~Contains(lru[t], e) /\ e \notin in_use[t]

\* lru_ never holds an entry twice (LRU_Append only of unlinked entries).
LruNoDuplicates == \A s \in Shards : Len(lru[s]) = Cardinality(ToSet(lru[s]))

(***************************************************************************)
(* usage_ (TotalCharge) equals the sum of the charges of the entries the  *)
(* shard holds, across Insert's replacement and eviction and Erase.       *)
(***************************************************************************)
UsageMatchesCharges ==
    \A s \in Shards :
       usage[s] = SumCharge({e \in Entries : in_cache[e] /\ ShardOf[key[e]] = s})

(***************************************************************************)
(* Eviction never touches an entry a client holds: such an entry leaves   *)
(* the cache only through Erase or Insert of its own key.                 *)
(***************************************************************************)
HeldEntriesNotEvicted ==
    [][\A e \in Entries :
         (in_cache[e] /\ ~in_cache'[e] /\ held[e] > 0)
           => lastOp'.op \in {"erase", "insert"} /\ lastOp'.key = key[e]]_vars

(***************************************************************************)
(* No leak: an entry that has left the cache is eventually freed, once    *)
(* clients release their handles.                                         *)
(***************************************************************************)
DroppedEntriesFreed ==
    \A e \in Entries :
       (status[e] = "live" /\ ~in_cache[e]) ~> (status[e] = "free")
===============================================================================
