# TLA+ models of the leveldb core (leveldb-master under `src/`)

This directory holds TLA+ models of the storage core in `src/leveldb-master`, and the
TLC configurations that check them. `PROJECT.json` lists:

- the components;
- the runs and the properties each one checks;
- a mutant for every checked property: a plausible bug in the modelled code that TLC must catch;
- the source lines each definition translates;
- the findings and the hazards.

## 1. The system

The repository holds the single-process storage core of leveldb. It has no DB layer, no
version set and no compaction.

| Part | Source | State | Operations | Concurrency |
|---|---|---|---|---|
| Arena | util/arena.{h,cc} | current block pointer, bytes left, list of blocks, memory usage | Allocate, AllocateAligned, AllocateFallback | single writer (the memtable's) |
| Coding | util/coding.{h,cc} | none (pure) | Put/Get Fixed32/64, Varint32/64, length-prefixed slices | none |
| Key format / comparator | db/dbformat.cc, util/comparator.cc | none (pure) | InternalKeyComparator::Compare, FindShortestSeparator, FindShortSuccessor, LookupKey | none |
| Skiplist | db/skiplist.h | nodes with per-level next pointers, max_height_ | Insert, Contains, Iterator Seek/Next/Prev/SeekToLast | one writer (external lock), many lock-free readers |
| Memtable | db/memtable.cc | a skiplist of encoded entries, refcount | Add, Get, NewIterator | as the skiplist |
| Log writer | db/log_writer.cc | dest_ file, block_offset_ | AddRecord (fragmenting), EmitPhysicalRecord | caller-serialised |
| Log reader | db/log_reader.{h,cc} | buffer_, eof_, end_of_buffer_offset_, last_record_offset_, resyncing_, initial_offset_ | ReadRecord, ReadPhysicalRecord, SkipToInitialBlock, ReportDrop | single-threaded |
| Block builder | table/block_builder.{h,cc} | buffer_, restarts_, counter_, last_key_, finished_ | Add, Finish, Reset, CurrentSizeEstimate | single-threaded |
| Filter block | table/filter_block.{h,cc} | keys_, start_, result_, filter_offsets_ | StartBlock, AddKey, Finish, KeyMayMatch | single-threaded |
| Table builder | table/table_builder.cc | the Rep (offset_, data/index blocks, pending_index_entry, status, closed) | Add, Flush, WriteBlock, Finish, Abandon | single-threaded |
| Table reader | table/table.cc, table/format.{h,cc} | the Rep (index block, filter, cache id) | Open, ReadMeta, BlockReader, InternalGet | read-only, shares the block cache |
| Two-level iterator | table/two_level_iterator.cc | index iterator, data iterator | Seek, Next, Prev, SkipEmptyDataBlocks | single-threaded |
| Sharded LRU cache | util/cache.cc | per shard: hash table, lru_ and in_use_ lists, usage_, capacity_ | Insert, Lookup, Release, Erase, Prune, NewId | one mutex per shard, many client threads |
| Table cache | db/table_cache.cc | an LRU cache of open tables | FindTable, NewIterator, Get, Evict | as the cache |
| Status, logging | util/status.cc, util/logging.cc | none | formatting | none |

How the parts interact:

- The memtable stores entries in the skiplist, and the skiplist allocates from the arena.
- The table builder cuts data blocks with the block builder. It records each block's
  offset in the filter block and in the index block.
- The table reader finds a data block through the index and the filter. It reads the block
  through the block cache, which is a sharded LRU cache.
- The table cache keeps open tables in another LRU cache.
- The log writer and reader share the physical record format (log_format.h, which is not in
  the repository).

## 2. The modules

### LRUCache (util/cache.cc)

`LRUCache` models the shards of `ShardedLRUCache`. Every `LRUCache` method runs under the
shard's mutex, so each method is one atomic action:

- `Insert(k, c)`: allocate, Ref for the cache, `FinishErase` of the entry it replaces, then
  the eviction loop from the head of `lru_`.
- `Lookup(k)`: Ref, moving an entry from `lru_` to `in_use_`.
- `Release(e)`: Unref, moving the entry back to `lru_` when only the cache holds it.
- `Erase(k)`.
- `Prune(s)`.

Entries are model values. Each entry is in one of these states:

- `status`: free or allocated;
- `refs`;
- `in_cache`;
- on `lru[s]`, which is a sequence in LRU order, or in `in_use[s]`, which is a set.

The hash table is a function from keys to entries. `held[e]` counts the handles clients
hold, so an action may only Release a handle a client really holds. `lastOp` records the
last operation for the action property.

`capacity[s]` is the shard's `capacity_`. Each behaviour picks one total from
`Capacities`, and `PerShard` rounds it up per shard as the `ShardedLRUCache` constructor does.
Only a total of 0 gives a shard capacity 0. With capacity 0 `Insert` takes no cache
reference: `NewRefs` is 1 and the entry is on no list. `Release` then frees it. The eviction loop is the
recursive `EvictPrefix`. `Free` is the deallocation in `Unref`.

### KeyMap and HandleTable (util/cache.cc)

`HandleTable` is the shard's own hash table. `list_` holds `length_` chains linked through
`next_hash`, and a handle's slot is `hash & (length_ - 1)`. In the model a chain is a
sequence of handles, head first. `hkey` gives the key of each handle in the table.

- `Lookup(k)`: `*FindPointer(k)`. `FindPointer` walks the chain while the hash or the key
  differs (`SelectInSeq`).
- `Insert(h, k)`: `h` takes the place of the handle with the same key and keeps its
  `next_hash`, or goes at the chain's end. A new key increments `elems_`. When
  `elems_ > length_`, `Resize` runs: `NewLength` doubles from 4 while below `elems_`, and
  `Rehash` walks the old slots in order, pushing each handle on the front of its new
  chain.
- `Remove(k)`: unlinks the handle and decrements `elems_`.

`result` is each call's return value. `KeyMap` is what the table promises: a function from
keys to handles, which is how `LRUCache`'s model represents its table. `AbsTable` reads the
function off the chains, and `AbsSpec` checks that `HandleTable` implements `KeyMap`.

### LogFormat, LogWriter, LogReader and Log (db/log_*.cc)

The file is a sequence of cells.

- A header is three cells: crc, length and type. The reader reads these fields back from
  whatever cell sits in each position, so corruption of any cell is possible.
- `BlockSize` is 8, which leaves 5 payload cells per block. Records therefore span blocks
  and leave trailers of 1 or 2 cells.
- The crc is a polynomial hash over the type and the payload. Like CRC32C, it changes
  when any one cell changes.
- `Mask`/`Unmask` are the real rotate-and-add at 16 bits instead of 32, because TLC's
  integers are 32-bit.

`LogWriter!AddRecord` is one action. The recursive `FileOps` is the do-while loop of
`AddRecord` with `EmitPhysicalRecord`. It lists the file calls one record makes, in order:

- the zero-fill `Append` of a trailer;
- per fragment, the header `Append`, the payload `Append` and the `Flush`.

Each call carries the `block_offset_` the loop has reached after it. `Outcome(ops, f, w)`
applies them when call `f` fails (0 means no call fails) and writes only its first `w`
cells (`TornAppends`). The failure is chosen per call, among that call's own operations:

- a failed fill is ignored, as at log_writer.cc:61;
- any other failure ends the loop with `block_offset_` already advanced (line 143);
- `AddRecord` returns the status, and the writer stays usable.

The history variable `written` records, for each record:

- its payload;
- the offset of its first header and its end;
- whether `AddRecord` returned OK (`ok`);
- whether a call failed (`fault`);
- whether a crash kept it whole (`kept`).

`WriterReopen(dest_length)` is the second constructor, `Writer(dest, dest_length)`. It
sets `block_offset_ = dest_length % kBlockSize`.

`LogReader` breaks a `ReadRecord` call into the steps the code takes. Only the reader reads
the file, so no two of these steps run concurrently. The steps matter because they show
which state each iteration sees. They are:

- `BeginReadRecord`: `SkipToInitialBlock`, then the locals are cleared.
- `Refill`: the read branch of `ReadPhysicalRecord`.
- `Fragment`: the parse in `Physical`, in the code's order of checks (length, zero type,
  checksum, before `initial_offset_`), followed by `Dispatch`. `Dispatch` is the resync
  filter plus the `switch` of `ReadRecord`.
- `AtEof`.
- `SkipFails`: the `Skip` in `SkipToInitialBlock` fails. `ReportDrop(block_start_location)`
  runs, and `ReadRecord` returns false.
- `RefillFails(r)`: the `Read` of a block fails after returning `r` cells.
  `end_of_buffer_offset_` grows by `r`, the buffer is cleared, `ReportDrop(kBlockSize)`
  runs, `eof_` is set, and `kEof` goes through `Dispatch`.

The locals of `ReadRecord` are variables (`in_frag`, `scratch`, `prospective`). The
outputs are `returned` (record and `LastRecordOffset`) and `reports` (the byte counts
passed to the Reporter, after `ReportDrop`'s filter).

`Log` composes the writer and the reader. The writer runs first. Then a crash keeps any
prefix of the file, because `AddRecord` flushes but never syncs. Then up to `MaxCorrupt`
cells are corrupted. Finally a reader is opened at one of `InitialOffsets` and run until
`ReadRecord` returns false.

Two further steps come before the reader:

- `Reopen`: after a crash, up to `MaxReopens` times, the log is reopened for appending with
  `Writer(dest, file size)`, and writing resumes.
- Up to `MaxFaults` calls to `AddRecord` may have a file call fail.
- At recovery, up to `MaxReadFaults` of the reader's `Skip` or `Read` calls may fail
  (`ReaderFails`). `readFaults` counts them.

`torn` records that a crash cut a record in the middle.

### IteratorSpec and TwoLevelIterator (table/two_level_iterator.cc)

`IteratorSpec` is what an `Iterator` promises over a sorted sequence of keys. The
position is an index into the sequence, and 0 means not Valid. Each call lands where a
sorted iterator would land:

- `Seek(t)` lands on the first key >= t;
- `SeekToFirst` and `SeekToLast` land on the ends;
- `Next` and `Prev` move one key.

A call may instead set the error flag. It may then land anywhere beyond the place it
should have reached, or on no key. Once set, the error flag is never cleared. The history
variable `call` records which method ran and with which target. The same variable in the
implementation ties each concrete step to the abstract step of the same method.

`TwoLevelIterator` is the iterator `Table::NewIterator` builds:

- `index` holds the separators the builder can write;
- `ii` is `index_iter_`'s entry;
- `data_iter` is `data_iter_`, a position in one block, or an error iterator when
  `BlockReader` failed;
- `data_block_handle_` and `status_` are the code's fields.

Each public method is one action, because an iterator belongs to one thread. The action
is built from `InitDataBlock`, `SetDataIterator`/`SaveError` and the recursive
`SkipEmptyDataBlocksForward/Backward`. The set `F` of blocks whose reads fail is chosen
per call. `Block::Iter` is not in the repository, so its operators (`DSeek`, ...) are
modelled from spec 4.6. `Abs == INSTANCE IteratorSpec WITH ...` maps the position to an
offset in the concatenated blocks and `status()` to the error flag.

### SkipList (db/skiplist.h)

`SkipList` has one writer and lock-free readers. Every load and store of a `next_` pointer
or of `max_height_` is its own step, in program order:

- `InsertBegin(k, h)`: `FindGreaterOrEqual` for `prev`, then `NewNode` with height `h`.
  Its slots start as `Garbage`.
- `RaiseMaxHeight`: the `NoBarrier_Store` of `max_height_`, after setting `prev` to
  `head_` on the new levels.
- `SetOwnNext`: the node's own `NoBarrier_SetNext`.
- `Publish`: the `SetNext` into the predecessor, level by level from 0.
- `SeekBegin`/`SeekStep`: a reader's `FindGreaterOrEqual`, one load per step.
- `ScanBegin`/`ScanStep`: `SeekToFirst` and `Next` along level 0.
- `LastBegin`/`PrevBegin` and `BackStep`: `SeekToLast` (`FindLast`) and `Prev`
  (`FindLessThan` of `node_`'s key). `BackStep` is one iteration of either loop, one load
  per step. `NotHead` is the iterator's `node_ == head_` check, which turns a search that
  ended on `head_` into NULL.

The writer's release stores and the readers' acquire loads order a node's own pointers
before its publication. An interleaving of these steps is therefore a behaviour of the
code. `max_height_` has no barrier, so a reader may see the new height before `head_`'s
upper pointers change. `RandomHeight` is a free choice in `1..MaxHeight`.

### TableCache (db/table_cache.cc)

`TableCache` composes client threads with an instance of `LRUCache`. The cache is keyed by
file number, and each entry is a `TableAndFile` of charge 1. Each thread runs `Get` or
`NewIterator`, both of which start with `FindTable`:

- `FindTable(t, f, o)`: the `Lookup` under the shard's lock. A hit hands the handle over;
  a miss goes on to open the file.
- `OpenTable(t)`: the unlocked miss path. `OpenStatus` is the `.ldb` open, the fallback to
  the old `.sst` name, and `Table::Open`. Opening may fail, and a failure is not cached.
  A success is `InsertEntry` of the new `TableAndFile`, whose handle the thread keeps.
- `GetDone(t)`: `InternalGet`, then `Release`.
- `IteratorDeleted(t)`: the iterator's cleanup, `UnrefEntry`, which releases the handle.
- `Evict(f)`: `Erase`, at any time.

Because the miss path holds no lock, two threads can miss on one file and open it twice.
The second `Insert` then replaces an entry the first thread still holds. `LRUCache!Insert`
is `\E e : InsertEntry(k, c, e)`, so that the composition knows which handle `Insert`
returned.

### MemTable and KVStore (db/memtable.cc, db/dbformat.cc)

`MemTable` instantiates `SkipList` with entries as keys. An entry is the user key, the
tag `PackSequenceAndType(seq, type)` and the value. The skiplist orders entries by
`InternalCompare`: the user key, then the tag in descending order.

- `Add` encodes the entry and runs the skiplist insert steps.
- `GetBegin` builds the `LookupKey` `(key, snapshot, kValueTypeForSeek)` and starts a Seek.
- `GetStep` is a Seek step.
- `GetResult` is the check of the found entry's user key and type.

A reader asks at a snapshot no later than the newest Add that has returned. The DB
publishes a sequence only after its write completes.

`KVStore` is the promise: a history of writes, and `Lookup(k, s)`, which answers with the
newest write of `k` at or below `s`. `MemTable` maps the inserted entries to that history
and the readers' results to answers. `Abs == INSTANCE KVStore WITH ...` makes this
mapping, and `AbsSpec` is checked as a property.

`Arena` (util/arena.{h,cc}) is composed into `MemTable`. The arena is a record: the
current pointer, bytes remaining, block sizes and `memory_usage_`. Each call is an
operator from a state to `[st, res]`, so `Add` can chain its two calls in one step. A
pointer is a block number and an offset; `new char[]` returns aligned memory, so an
address's low bits are its offset's.

- `Init` allocates the skiplist's head node of `kMaxHeight` levels with `AllocateAligned`.
- `Add` (`AddAllocates`) calls `Allocate(encoded_len)` and then `AllocateAligned` for the
  node (`NewNode`).
- `allocs` records every allocation: block, offset, length, and whether it was aligned.
- `AllocationsDisjoint`: every allocation lies inside its block, and no two overlap.
- `NodesAligned`: every node starts at a multiple of `align`. This is `AllocateAligned`'s
  assert.

### The sstable: Coding, Crc32c, Bytewise, BlockBuilder, Block, FilterBlock, Format, Table, TableBuilder

These modules work on real bytes (sequences of `0..255`). A table the builder writes is
read back by the reader models, byte for byte.

- `Coding`: `EncodeFixed32`, `PutFixed32`, varints, `VarintLength` and
  `GetVarint32Ptr`/`GetVarint64Ptr` (the code's `NULL` is `ok = FALSE`).
- `Crc32c`: util/crc32c is not in the repository. `Crc32cValue` is a position-sensitive
  hash. `Mask`/`Unmask` are the real rotate-and-add, at 16 bits.
- `Bytewise`: `Slice::compare`, `FindShortestSeparator` and `FindShortSuccessor`.
- `BlockBuilder`: `Add` with prefix sharing, restart points every `interval` entries,
  `Finish` and `CurrentSizeEstimate`, as operators on a record of the builder's fields.
- `Block`: block.cc is not in the repository, so this module is modelled from block.h and
  the format description. `BlockSeek` binary-searches the restart array, then scans
  forward. A restart entry that shares a prefix or does not decode is corruption.
- `FilterBlock`: `StartBlock` (one filter per `2^FilterBaseLg` bytes of file),
  `GenerateFilter`, `AddKey`, `Finish`, and the reader's `KeyMayMatch` with the
  constructor's checks. The filter policy is not in the repository. It is a one-byte bit
  set of key hashes, so it has false positives and no false negatives, like a Bloom
  filter.
- `Format`: `BlockHandle` and `Footer` encoding and decoding, the magic number, the block
  trailer and `ReadBlock` with checksum verification.
- `Table`: `Table::Open` (footer, index block, `ReadMeta`, `ReadFilter`), `BlockReader`
  without a block cache, and `InternalGet`. Each stage of these functions is an operator
  that takes the previous stage's result as a parameter (for example
  `TableOpen` → `OpenWithFooter` → `OpenWithIndex` → `OpenWithMeta`). An early return is
  then an IF at one stage, and each intermediate value is computed once.
- `TableBuilder` is the state machine. `rep` is the `Rep` together with the file's bytes
  and a count of file operations. The file may fail once: `rep.fail_at` is the `Append`
  or `Flush` that failed, and 0 means none has failed. `Perform` runs a call's body and
  lets the file fail any one of the operations the call makes. States before a failure
  are therefore shared, instead of being repeated for every future failure point.
  - `Add` covers the early return, the pending index entry under
    `FindShortestSeparator`, the filter key, the data block and the size-triggered flush.
  - `Flush` is the client's `Flush`.
  - `Finish` is one action, built from the stages `FinishFilter`, `FinishMetaindex`,
    `FinishIndex` and `FinishFooter`, each skipped once the status is an error.
  - `Abandon`.

  The history variable `calls` records what the client added, and `result` what
  `Finish` returned.

## 3. Runs

| Run | Config | Checks | Shows |
|---|---|---|---|
| lru_one_shard | MC_LRUCache.cfg | TypeOK, RefsMatchHandles, ListsPartitionCache, UsageMatchesCharges, HeldEntriesNotEvicted, DroppedEntriesFreed | refcounts, the two lists and usage_ stay consistent under every interleaving of Insert, Lookup, Release, Erase and Prune by clients holding up to 2 handles each; eviction never takes a held entry; every dropped entry is freed |
| log_recovery | MC_Log.cfg | TypeOK, ReadsBackWritten, NoSpuriousCorruptionFromStart, NoSilentLossFromStart, NoGarbageRecords, ReaderTerminates | after any crash, with at most one corrupted cell and one failing `Skip` or `Read`, a reader opened at offset 0, 1, 5 or 9 (inside a record, at a record start, in the second block): on an uncorrupted file it returns complete records from that offset on, whole and in order, all of them when no read fails; from offset 0 it reports nothing unless a read fails, and it reports every read error that loses records; with a corrupted cell it hands out only records the writer wrote, at their offsets and in order; and its read always ends |
| log_resync_report | MC_LogResync.cfg | NoSpuriousCorruption (violation expected) | see Findings |
| skiplist_concurrent | MC_SkipList.cfg | TypeOK, NoUnsetPointerRead, SeekFindsInserted, ScanSeesSnapshot, BackwardFindsInserted, ReadersFinish | under every interleaving of the writer's stores with a reader's loads, no reader loads an unset slot; a Seek finds every key inserted before it began; a scan returns, in order, a set of keys that includes every key inserted before it began; SeekToLast and Prev never end on `head_`, Prev lands before its start key, and neither stops before a key inserted before it began; readers finish |
| table_cache | MC_TableCache.cfg | HandlesMatchThreads, EvictedTablesClosed | two threads call Get and NewIterator on two files, with `Evict` at any time and opens that may fail: each held handle is on a live table of the thread's own file, the cache's handle count equals the holding threads, and every table that leaves the cache is eventually closed |
| memtable_refines_kvstore | MC_MemTable.cfg | TypeOK, AllocationsDisjoint, NodesAligned, AbsSpec | Add and a concurrent Get implement KVStore: each Get answers with the newest write of its key at or below its snapshot. The arena never hands out overlapping or out-of-block memory, and every node is aligned |
| table_builder | MC_TableBuilder.cfg | TypeOK, ReadBack, FailuresReported, RestartPointsUnshared | for every sequence of Adds, Flushes, Finish or Abandon, and every single failing file operation: if Finish returns OK, the table opens and every Get returns exactly what was added (and nothing for a key never added); Finish returns OK only when no file operation failed; restart points are increasing offsets of unshared entries |
| log_faults_reopen | MC_LogReopen.cfg | NoGarbageRecords, CleanReopenRecovered | with one failing (possibly torn) `Append`/`Flush`, a crash and a reopen: the reader never returns garbage, and when nothing failed and the crash tore no record, every acknowledged record, including those written after the reopen, is recovered |
| log_acked_loss | MC_LogAckedLoss.cfg | AcknowledgedRecordsRecovered (violation expected) | see Findings |
| log_read_error | MC_LogReadError.cfg | NoSilentLoss (violation expected) | see Findings |
| handle_table | MC_HandleTable.cfg | ChainsHashed, AbsSpec | through the `Resize` from 4 to 8 slots, every handle sits in its hash's slot, a key has at most one handle, `elems_` counts the chains (Resize's assert) and stays at most `length_`; every `Lookup`, `Insert` and `Remove` answers and acts as a plain key-to-handle map |
| two_level_iterator | MC_TwoLevelIterator.cfg | DataIterMatchesIndex, AbsSpec | over three data blocks with any block read failing on any call, the two-level iterator implements `IteratorSpec`: every call lands on the right key or reports an error, and the cached data iterator always belongs to the index entry |

Bounds:

- **HandleTable.** There are 6 keys and 5 handles, with symmetry over the handles. The
  hashes are 0, 4, 5, 12, 7 and 4. At length 4 they fall in slots 0, 1 and 3, four of
  them in slot 0; at length 8 they fall in slots 0, 4, 5 and 7. Two keys share a whole
  hash. A fifth handle makes `elems_` exceed 4 and triggers `Resize`. A second `Resize`
  would need 9 handles and only repeats the first.
- **Cache.** One shard has capacity 2, or 0 (caching off). There are 3 entries, 2 keys, charges {1, 2}, and
  at most 2 handles per entry. These bounds reach replacement of a held key, eviction of
  one or two entries, an over-capacity `in_use_`, and an entry held by two clients.
  One shard is enough. `ShardedLRUCache` sends each key to one shard by its hash, and
  shards share no state. So an interleaving across shards, including `Prune` locking
  one shard at a time, is the same as the shards' own interleavings run side by side.
- **Log.** Payload lengths are {0, 2, 7}, with up to 3 records.
  With 8-cell blocks these give:
  - Full, First/Middle/Last and empty records;
  - 1- and 2-cell trailers;
  - a record ending exactly where the next header fits.

  Crash points cover every cell. Corrupted values {0, 9}, at any cell, give a zero type, a
  zero length, an over-long length and a crc mismatch. With checksums on, a different
  type value is caught like any other mismatch. log_recovery reaches 2.27M states.

  The fault run allows one failing file call (the fill, a header, a payload or a flush),
  torn to any prefix, and one reopen. It takes 3.1M states. One fault and one reopen are
  enough to show both findings. A second fault only repeats the first.

  log_recovery and log_read_error allow one failing `Skip` or `Read` (`MaxReadFaults` 1),
  with the `Read` returning 0 to 7 cells. With offsets in the first and second block, this
  reaches each `ReportDrop` filter case: a negative difference, a difference at or above
  the offset, and one below it.
- **Two-level iterator.** There are three blocks, `<<1, 2>>`, `<<4>>` and `<<6, 7>>`.
  Targets run over 0..8. These bounds give:
  - a target in each block;
  - a target between a block's last key and its separator;
  - a target past the end.

  Any subset of the blocks may fail on any call, so a skip loop may pass over one, two or
  three unreadable blocks.

- **Table cache.** There are two threads, two files and a cache of one entry on one
  shard. These give a hit, a miss, two threads missing on one file, a second file pushing
  out the first, and `Evict` of a held table. At most three tables are open at once, so the
  four `TableAndFile` allocations never run out.
- **SkipList.** Keys {1, 2, 3} with heights 1..3 and one reader. An insert can raise
  `max_height_` past a reader's search, and a node can be published at level 0 but not
  yet at level 1. A second reader would only add loads that no property relates.
- **MemTable.** Two user keys, one value and 3 sequence numbers, with the skiplist at
  height 2. These give an overwrite, a snapshot between two writes of one key, and a Get
  racing the insert of its own key. The arena has 64-byte blocks (a quarter is 16) and
  8-byte pointers. Keys of 1 and 3 bytes and a 5-byte value give entries of 11 to 18
  bytes, and nodes are 16 or 24 bytes. So every path is reached:
  - a bump;
  - a small fallback, which starts a new current block;
  - a large fallback, which gets a block of its own (the head node, and height-2 nodes);
  - `AllocateAligned` with and without slop.

  The run has 355k states and takes about 1m30.
- **TableBuilder.** Keys are one or two bytes from {1, 2, 255}. The value is one byte.
  There are at most 5 Adds. `block_size` is 24 and `block_restart_interval` is 2.
  `kFilterBaseLg` is 4 (the code has 11), so a filter covers 16 bytes of file. Any one
  file operation may fail. These bounds reach:
  - shortened separators (1 and 255) and unshortened ones (adjacent 1 and 2);
  - a last key of 0xff bytes;
  - data blocks that share a filter, and an empty filter for a skipped range;
  - files of more than 128 bytes, whose handles use two-byte varints;
  - a failure at every stage of Finish and at each flush.

Fairness:

- **Cache.** `Release` is weakly fair for each entry. Clients are assumed to release what
  they hold, which is the `Cache` contract: "caller must call this->Release(handle) when
  the returned mapping is no longer needed".
- **SkipList and MemTable.** Reader steps (`SeekStep`, `ScanStep`, `BackStep`) are weakly fair. A reader's loop never blocks
  and takes no lock. The writer has no fairness, because it may stop writing.
- **TableBuilder.** No fairness. The run checks only invariants. Deadlock is not checked,
  because the builder really stops after `Finish` or `Abandon`.
- **Table cache.** Each thread's `OpenTable`, `GetDone` and `IteratorDeleted` are weakly
  fair. `Get` runs to its end once it holds a handle, and clients delete their iterators
  (the `Iterator` contract). New calls and `Evict` are not fair.
- **Two-level iterator.** No fairness. The checks are an invariant and a safety
  refinement.
- **Log.** `Read`, `Crash` and `OpenReader` are weakly fair, because recovery calls
  `ReadRecord` until it returns false. `ReadFails` is not fair, because nothing forces a file
  call to fail.

## 4. Findings

**log_resync_report.** `log_reader.h:99-101` says that while resynchronising after a seek
"a run of kMiddleType and kLastType records can be silently skipped". The code does not
skip them in this case:

1. A 7-cell record is written. Its First fragment is at offset 0 of block 0, and its Last
   fragment is in block 1.
2. A reader is opened with `initial_offset` 1.
3. `ReadPhysicalRecord` returns `kBadRecord` for the First fragment, because it starts
   before `initial_offset_` (log_reader.cc:355).
4. The resync filter ends resync mode on any type but Middle and Last (log_reader.cc:122).
5. The Last fragment reaches the switch with `in_fragmented_record` false. It is reported
   as "missing start of fragmented record(2)" (log_reader.cc:188).

`ReportDrop` does not filter the report, because the dropped bytes lie after
`initial_offset_`.

Both findings below come from the run log_acked_loss. Its cfg allows one failed `Append`
(`MaxFaults` 1) and one reopen (`MaxReopens` 1). Both lose an acknowledged record for the
same reason: the writer appends after an incomplete physical record. TLC's shortest trace
is the failed append. Setting `MaxFaults` to 0 in the cfg gives the reopen trace.

**Failed append (log_acked_loss).** An `AddRecord` that fails leaves the writer usable. `block_offset_`
has already advanced past the fragment (log_writer.cc:143), and the file may end in a
header whose payload was never written. TLC's trace:

1. A 7-cell record is written. Its First header is appended, and the payload `Append`
   fails, writing nothing. `AddRecord` returns an error.
2. A 0-length record is written, and `AddRecord` returns OK.
3. The reader reads the First header, which declares 5 cells. Only the second record's
   header follows, so the header runs past the end of the file.
4. The reader treats this as a torn tail (`kEof`). Both records are dropped, and nothing
   is reported.

The spec states the round trip only for a file that does not fail. Nothing says that a
writer must be discarded after an error.

**Reopen after a torn header (log_acked_loss).** `Writer(dest, dest_length)` (log_writer.cc:29) appends after whatever
the file ends with. TLC's trace:

1. A crash keeps one cell of a header.
2. The log is reopened with `dest_length` 1, and a Full record is written at offset 1.
   `AddRecord` returns OK.
3. At recovery, the reader parses the torn header together with the new cells. The
   length it reads runs past the end of the file.
4. The reader ends silently at EOF, and the acknowledged record is lost.

Reopening a log for appending is safe only when the log ends at a record boundary.
`CleanReopenRecovered` checks that it is safe then.

**log_read_error.** `log_reader.h:35` says the reporter "is notified whenever some data is
dropped". `SkipToInitialBlock` and `ReadPhysicalRecord` pass a file error to the reporter
through `ReportDrop`, but `ReportDrop`'s offset filter can drop it. TLC's trace:

1. Three records are written, the last one at offset 16.
2. A reader is opened with `initial_offset` 9. `SkipToInitialBlock` sets
   `end_of_buffer_offset_` to 8 and calls `Skip(8)`, which fails.
3. `ReportDrop(8)` computes 8 - 0 - 8 = 0, which is below `initial_offset_`, so nothing is
   reported (log_reader.cc:240).
4. `ReadRecord` returns false, and the record at offset 16 is lost without a report.

A failed `Read` of block 1 is filtered the same way: 8 + r - 8 = r < 9
(log_reader.cc:270). DBImpl's recovery reads from offset 0, and from there every read error
is reported. The run log_recovery checks this as `NoSilentLossFromStart`.

## 5. Not modelled

- Memory allocation failures, which are fatal in the code.
- The `Table` inside a `TableCache` entry, which is opaque there. Its content is checked
  by the table_builder run.
- The cache holding more idle tables than its capacity between `Insert`s. `Release` never
  evicts, and nothing in the code or the spec promises otherwise. The lru_one_shard run
  checks the accounting (`UsageMatchesCharges`) instead of a capacity bound.
- Arena's destructor, which frees every block at once. `MemoryUsage` is modelled, but no
  property reads it: it is an estimate that the write path compares with
  `write_buffer_size`, and that path is outside `src/`'s modelled parts.
- Snappy compression (`port::Snappy_Compress` is not in the repository). Blocks are stored
  with `kNoCompression`.
- `TableBuilder::ChangeOptions`, the block cache path of `Table::BlockReader`,
  `Table::NewIterator` and `ApproximateOffsetOf`.
- The real Bloom filter policy and crc32c tables, which are not in the repository. They
  are abstracted by what the code relies on.
- Memtable `Ref`/`Unref` and iterators.
- The formatting in status.cc and logging.cc.
- version_edit.h, which has no behaviour here.
- NewId, a counter under a mutex.

## 6. Plan

The order puts the most important behaviour first. Items 1 to 12 are done:

1. LRUCache.
2. Log: truncation, offsets and corruption.
3. SkipList: a writer racing readers.
4. MemTable refining KVStore.
5. Table: BlockBuilder, Block, FilterBlock, Format, Table and TableBuilder, checked as a
   round trip with failing I/O.

6. LRUCache: capacity 0 (caching off).
7. Log writer: `Append` failure and reopen with `dest_length`, with two findings.
8. The two-level iterator, shown to implement `IteratorSpec`.
9. TableCache over LRUCache: `FindTable`, `Get`, `NewIterator` and `Evict` by concurrent
   threads. The log_initial_offset run was folded into the truncation run to make room.
10. SkipList `SeekToLast` and `Prev` racing the writer.
11. Log reader `Skip` and `Read` errors, with one finding. The two writer findings now share
    the run log_acked_loss, to make room.
12. HandleTable with `Resize`, shown to implement `KeyMap`. The truncation and corruption
    runs were merged into log_recovery to make room.

Left:

13. (Dropped.) LRUCache with two shards: they share no state, so it would add no behaviour.
14. An abstract "sorted map" spec for `BlockSeek`, with the block builder and reader shown
    to refine it.
15. Arena composed into MemTable (done: `AllocationsDisjoint`, `NodesAligned`).
