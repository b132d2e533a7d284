------------------------------ MODULE TableCache ------------------------------
(***************************************************************************)
(* db/table_cache.cc: the cache of open tables, an LRU cache (LRUCache)   *)
(* keyed by file number whose values are TableAndFile pairs, each entry   *)
(* of charge 1.                                                            *)
(*                                                                         *)
(* Client threads call Get and NewIterator concurrently.  Both start with *)
(* FindTable: a Lookup under the shard's lock, and on a miss the file is  *)
(* opened and Table::Open'd with no lock held, then Insert'ed.  Two       *)
(* threads may therefore miss on the same file and both open it; the      *)
(* second Insert replaces the first.  Get releases its handle after       *)
(* InternalGet; NewIterator's handle is released by the iterator's        *)
(* cleanup (UnrefEntry) when the client deletes the iterator.  Evict      *)
(* (called when a file is deleted) erases the file's entry while other    *)
(* threads may hold it.  A TableAndFile is an LRUHandle of the cache      *)
(* model; the deleter DeleteEntry is the cache freeing it.                *)
(***************************************************************************)
EXTENDS Naturals, FiniteSets

CONSTANTS
    Threads,        \* client threads calling Get / NewIterator
    Files,          \* file numbers (the cache keys)
    Entries,        \* TableAndFile allocations
    Capacities,     \* the entries argument: NewLRUCache(entries)
    Shards,
    ShardOf,
    OpenFails,      \* whether opening a table file may fail
    NULL

VARIABLES
    status, key, charge, refs, in_cache, table, lru, in_use, usage, held,
    capacity, lastOp,
    pc,             \* [Threads -> {"idle", "opening", "get", "iter"}]
    op,             \* the call a thread is in: "get" or "iter"
    file,           \* the file_number it asked for
    handle          \* the Cache::Handle FindTable returned, or NULL

cacheVars == <<status, key, charge, refs, in_cache, table, lru, in_use, usage,
               held, capacity, lastOp>>
threadVars == <<pc, op, file, handle>>
vars == <<cacheVars, threadVars>>

\* TableCache(dbname, options, entries): cache_ = NewLRUCache(entries).
C == INSTANCE LRUCache WITH
        Keys <- Files, Charges <- {1},
        MaxHeld <- Cardinality(Threads)

Init ==
    /\ C!Init
    /\ pc = [t \in Threads |-> "idle"]
    /\ op = [t \in Threads |-> "get"]
    /\ file = [t \in Threads |-> CHOOSE f \in Files : TRUE]
    /\ handle = [t \in Threads |-> NULL]

\* Thread t's locals become those given; the other threads keep theirs.
SetThread(t, p, o, f, h) ==
    /\ pc' = [pc EXCEPT ![t] = p]
    /\ op' = [op EXCEPT ![t] = o]
    /\ file' = [file EXCEPT ![t] = f]
    /\ handle' = [handle EXCEPT ![t] = h]

(***************************************************************************)
(* The status of opening file_number: NewRandomAccessFile of the .ldb     *)
(* name, else of the old .sst name, then Table::Open.                     *)
(***************************************************************************)
OpenStatus(newOk, oldOk, tableOk) == (newOk \/ oldOk) /\ tableOk

OpenChoices == IF OpenFails THEN BOOLEAN ELSE {TRUE}

\* Mutant: a hit uses the cached entry without Lookup's Ref.
FindTableNoRef(t, f, o) ==
    /\ pc[t] = "idle"
    /\ IF table[f] # NULL
       THEN /\ SetThread(t, o, o, f, table[f])
            /\ UNCHANGED cacheVars
       ELSE /\ SetThread(t, "opening", o, f, NULL)
            /\ UNCHANGED cacheVars

(***************************************************************************)
(* FindTable up to the miss branch, for Get (o = "get") or NewIterator    *)
(* (o = "iter"): cache_->Lookup(key); a hit hands the handle to the call, *)
(* a miss goes on to open the file outside the cache's lock.              *)
(***************************************************************************)
FindTable(t, f, o) ==
    /\ pc[t] = "idle"
    /\ IF table[f] # NULL
       THEN /\ C!Lookup(f)
            /\ SetThread(t, o, o, f, table[f])
       ELSE /\ SetThread(t, "opening", o, f, NULL)
            /\ UNCHANGED cacheVars

(***************************************************************************)
(* The miss branch of FindTable.  On an error nothing is cached, and Get  *)
(* returns the status / NewIterator returns NewErrorIterator(s).  On      *)
(* success the TableAndFile is Insert'ed with charge 1 and its handle     *)
(* returned.                                                               *)
(***************************************************************************)
OpenTable(t) ==
    /\ pc[t] = "opening"
    /\ \E newOk, oldOk, tableOk \in OpenChoices :
         IF OpenStatus(newOk, oldOk, tableOk)
         THEN \E e \in Entries :
                 /\ C!InsertEntry(file[t], 1, e)
                 /\ SetThread(t, op[t], op[t], file[t], e)
         ELSE /\ SetThread(t, "idle", op[t], file[t], NULL)
              /\ UNCHANGED cacheVars

\* Mutant: Get returns without releasing its handle.
GetDoneNoRelease(t) ==
    /\ pc[t] = "get"
    /\ SetThread(t, "idle", op[t], file[t], NULL)
    /\ UNCHANGED cacheVars

\* The rest of Get: InternalGet on the table, then cache_->Release(handle).
GetDone(t) ==
    /\ pc[t] = "get"
    /\ C!Release(handle[t])
    /\ SetThread(t, "idle", op[t], file[t], NULL)

\* The client deletes the iterator NewIterator returned: UnrefEntry releases
\* the handle RegisterCleanup attached.
IteratorDeleted(t) ==
    /\ pc[t] = "iter"
    /\ C!Release(handle[t])
    /\ SetThread(t, "idle", op[t], file[t], NULL)

\* Evict(file_number): cache_->Erase; nothing happens if it is not cached.
Evict(f) ==
    /\ C!Erase(f)
    /\ UNCHANGED threadVars

Next ==
    \/ \E t \in Threads :
          \/ \E f \in Files, o \in {"get", "iter"} : FindTable(t, f, o)
          \/ OpenTable(t) \/ GetDone(t) \/ IteratorDeleted(t)
    \/ \E f \in Files : Evict(f)

(***************************************************************************)
(* Get runs to its end once it has the handle, and a client deletes the    *)
(* iterators it takes (the Iterator contract), so each thread's remaining *)
(* steps are weakly fair.  Evict and new calls are not.                   *)
(***************************************************************************)
Fairness ==
    \A t \in Threads :
        WF_vars(OpenTable(t)) /\ WF_vars(GetDone(t)) /\ WF_vars(IteratorDeleted(t))

Spec == Init /\ [][Next]_vars /\ Fairness

-------------------------------------------------------------------------------
TypeOK ==
    /\ C!TypeOK
    /\ pc \in [Threads -> {"idle", "opening", "get", "iter"}]
    /\ op \in [Threads -> {"get", "iter"}]
    /\ file \in [Threads -> Files]
    /\ handle \in [Threads -> Entries \cup {NULL}]

Holding(t) == pc[t] \in {"get", "iter"}

(***************************************************************************)
(* The table a Get or an iterator reads is the one of its own file and    *)
(* stays open while the thread uses it: every handle a thread holds is on *)
(* a live entry for its file_number, and the cache's count of outstanding *)
(* handles is exactly the threads holding it -- through concurrent misses *)
(* that open one file twice, Insert replacing an entry a thread still     *)
(* holds, Evict and LRU eviction.                                          *)
(***************************************************************************)
HandlesMatchThreads ==
    /\ \A t \in Threads :
          Holding(t) => status[handle[t]] = "live" /\ key[handle[t]] = file[t]
    /\ \A e \in Entries :
          held[e] = Cardinality({t \in Threads : Holding(t) /\ handle[t] = e})

(***************************************************************************)
(* No table or file is leaked: a TableAndFile that has left the cache     *)
(* (Evict, replacement by a racing Insert, LRU eviction) is eventually    *)
(* deleted by DeleteEntry, once the Gets and iterators using it are done. *)
(***************************************************************************)
EvictedTablesClosed ==
    \A e \in Entries :
       (status[e] = "live" /\ ~in_cache[e]) ~> (status[e] = "free")
===============================================================================
