----------------------------- MODULE TableBuilder -----------------------------
(***************************************************************************)
(* TableBuilder (table/table_builder.cc) writing an sstable, read back     *)
(* with the Table reader.  The variable rep is TableBuilder::Rep: the     *)
(* fields of the struct, with the WritableFile's bytes (file) and the     *)
(* number of file operations so far (ops).  The file may fail once: the   *)
(* fail_at-th Append or Flush returns an I/O error (0: none has failed). *)
(* Each call of the client may fail any one of the operations it makes.  *)
(* Options: no compression, a filter policy, the bytewise comparator.     *)
(***************************************************************************)
EXTENDS Integers, Sequences, Table, BlockBuilder

CONSTANTS
    Keys,               \* keys the client may add (byte strings)
    Values,             \* values the client may add (byte strings)
    BlockSizeOption,    \* options.block_size
    RestartInterval,    \* options.block_restart_interval
    MaxEntries,         \* bound on Add calls
    ParanoidChecks      \* options.paranoid_checks of the reader

VARIABLES
    rep,        \* TableBuilder::Rep, with the file
    calls,      \* the client's Add calls, in order
    result      \* what Finish returned, "none" before it is called

vars == <<rep, calls, result>>

Ok(t) == t.status = "ok"

\* The next file operation's Status.
OpResult(t) == IF t.ops + 1 = t.fail_at THEN "io_error" ELSE "ok"

\* r->status = r->file->Append(data): a failed Append writes nothing.
FileAppend(t, data) ==
    [t EXCEPT !.file = IF OpResult(t) = "ok" THEN @ \o data ELSE @,
              !.ops = @ + 1,
              !.status = OpResult(t)]

FileFlushNoStatus(t) == [t EXCEPT !.ops = @ + 1]

\* r->status = r->file->Flush().
FileFlush(t) == [t EXCEPT !.ops = @ + 1, !.status = OpResult(t)]

(***************************************************************************)
(* WriteRawBlock(contents, type, &handle): set the handle to the current  *)
(* offset and the contents' size, append the contents and, if that        *)
(* succeeded, the trailer; the offset advances only if both succeeded.    *)
(***************************************************************************)
WriteRawBlock(t, contents, type) ==
    LET t1 == FileAppend(t, contents)
        t2 == FileAppend(t1, BlockTrailer(contents, type))
    IN [handle |-> [offset |-> t.offset, size |-> Len(contents)],
        rep |-> IF ~Ok(t1) THEN t1
                ELSE IF ~Ok(t2) THEN t2
                ELSE [t2 EXCEPT !.offset = @ + Len(contents) + kBlockTrailerSize]]

\* WriteBlock(block, &handle): Finish the block and write it raw (the
\* compression is kNoCompression).  The caller resets the block.
WriteBlock(t, b) == WriteRawBlock(t, BlockFinish(b).buffer, kNoCompression)

(***************************************************************************)
(* TableBuilder::Flush: nothing on an error or an empty data block;       *)
(* otherwise write the data block (resetting it even if the write         *)
(* failed), remember its handle for the index entry, flush the file, and  *)
(* start the filter for the next block at the new offset.                 *)
(***************************************************************************)
FlushBlock(t) ==
    IF ~Ok(t) \/ BlockEmpty(t.data_block) THEN t
    ELSE LET w  == WriteBlock(t, t.data_block)
             t1 == [w.rep EXCEPT !.data_block = BlockBuilderNew,
                                 !.pending_handle = w.handle]
             t2 == IF Ok(t1)
                   THEN FileFlush([t1 EXCEPT !.pending_index_entry = TRUE])
                   ELSE t1
         IN [t2 EXCEPT !.filter_block = StartBlock(@, t2.offset)]

Init ==
    /\ rep = [offset |-> 0, status |-> "ok",
              data_block |-> BlockBuilderNew, index_block |-> BlockBuilderNew,
              last_key |-> <<>>, num_entries |-> 0, closed |-> FALSE,
              filter_block |-> StartBlock(FilterBlockBuilderNew, 0),
              pending_index_entry |-> FALSE, pending_handle |-> UnsetHandle,
              file |-> <<>>, ops |-> 0, fail_at |-> 0]
    /\ calls = <<>>
    /\ result = "none"

(***************************************************************************)
(* The file's one failure: a call of the client that makes n file         *)
(* operations may fail any one of them, unless the file already failed.  *)
(* Perform(Body) runs the call's body on the Rep: first without a new     *)
(* failure, to learn n, then with the failure chosen.                     *)
(***************************************************************************)
FailurePoints(t, n) ==
    IF t.fail_at # 0 THEN {t.fail_at} ELSE {0} \cup (t.ops + 1 .. t.ops + n)

Perform(Body(_)) ==
    \E clean \in {Body(rep)} :
       \E f \in FailurePoints(rep, clean.ops - rep.ops) :
          rep' = IF f = rep.fail_at THEN clean ELSE Body([rep EXCEPT !.fail_at = f])

(***************************************************************************)
(* TableBuilder::Add(key, value).  The client adds keys in increasing     *)
(* order (the code asserts it).  After an error Add returns at once.      *)
(* Otherwise a pending index entry for the previous data block is added   *)
(* with a separator between its last key and this key; the key goes to   *)
(* the filter and the data block, which is flushed when its estimated     *)
(* size reaches block_size.                                               *)
(***************************************************************************)
AddBody(t, key, value) ==
    IF ~Ok(t) THEN t
    ELSE LET sep == FindShortestSeparator(t.last_key, key)
             t1  == IF t.pending_index_entry
                    THEN [t EXCEPT !.index_block =
                                       BlockAdd(@, sep, EncodeHandle(t.pending_handle), 1),
                                   !.pending_index_entry = FALSE]
                    ELSE t
             t2  == [t1 EXCEPT !.filter_block = FilterAddKey(@, key),
                               !.last_key = key,
                               !.num_entries = @ + 1,
                               !.data_block = BlockAdd(@, key, value, RestartInterval)]
         IN IF CurrentSizeEstimate(t2.data_block) >= BlockSizeOption
            THEN FlushBlock(t2) ELSE t2

Add(key, value) ==
    /\ ~rep.closed
    /\ Len(calls) < MaxEntries
    /\ IF calls = <<>> THEN TRUE ELSE BytewiseCompare(key, calls[Len(calls)].key) > 0
    /\ calls' = Append(calls, [key |-> key, value |-> value])
    /\ Perform(LAMBDA t : AddBody(t, key, value))
    /\ UNCHANGED result

\* TableBuilder::Flush, called by the client.
Flush ==
    /\ ~rep.closed
    /\ Perform(FlushBlock)
    /\ UNCHANGED <<calls, result>>

(***************************************************************************)
(* TableBuilder::Finish: flush the last data block; then, each only while *)
(* no error has occurred, write the filter block, the metaindex block     *)
(* (one entry: the filter's key and handle), the index block with the     *)
(* last pending entry under a short successor of the last key, and the    *)
(* footer.  Finish returns the status.  A handle the code never sets      *)
(* keeps BlockHandle's initial value.                                     *)
(***************************************************************************)
FinishFilter(t) ==
    IF Ok(t) THEN WriteRawBlock(t, FilterFinish(t.filter_block), kNoCompression)
    ELSE [rep |-> t, handle |-> UnsetHandle]

FinishMetaindex(t, filter_handle) ==
    IF Ok(t)
    THEN WriteBlock(t, BlockAdd(BlockBuilderNew, kFilterMetaKey,
                                EncodeHandle(filter_handle), RestartInterval))
    ELSE [rep |-> t, handle |-> UnsetHandle]

FinishIndex(t) ==
    LET succ == FindShortSuccessor(t.last_key)
        t4 == IF t.pending_index_entry
              THEN [t EXCEPT !.last_key = succ,
                             !.index_block = BlockAdd(@, succ, EncodeHandle(t.pending_handle), 1),
                             !.pending_index_entry = FALSE]
              ELSE t
        w  == WriteBlock(t4, t4.index_block)
    IN IF Ok(t) THEN [w EXCEPT !.rep.index_block = BlockBuilderNew]
       ELSE [rep |-> t, handle |-> UnsetHandle]

FinishFooter(t, metaindex_handle, index_handle) ==
    LET footer == FooterEncode(metaindex_handle, index_handle)
        a      == FileAppend(t, footer)
    IN IF ~Ok(t) THEN t
       ELSE IF Ok(a) THEN [a EXCEPT !.offset = @ + Len(footer)] ELSE a

FinishBody(t) ==
    LET t1 == [FlushBlock(t) EXCEPT !.closed = TRUE]
        fw == FinishFilter(t1)
        mw == FinishMetaindex(fw.rep, fw.handle)
        iw == FinishIndex(mw.rep)
    IN FinishFooter(iw.rep, mw.handle, iw.handle)

Finish ==
    /\ ~rep.closed
    /\ Perform(FinishBody)
    /\ result' = rep'.status
    /\ UNCHANGED calls

\* TableBuilder::Abandon.
Abandon ==
    /\ ~rep.closed
    /\ rep' = [rep EXCEPT !.closed = TRUE]
    /\ UNCHANGED <<calls, result>>

Next ==
    \/ \E k \in Keys, v \in Values : Add(k, v)
    \/ Flush
    \/ Finish
    \/ Abandon

\* The builder is done once Finish or Abandon has been called.
Spec == Init /\ [][Next]_vars

-----------------------------------------------------------------------------
TypeOK ==
    /\ rep.offset \in Nat
    /\ rep.status \in {"ok", "io_error"}
    /\ rep.file \in Seq(Byte)
    /\ rep.num_entries \in 0..MaxEntries
    /\ rep.pending_index_entry \in BOOLEAN
    /\ rep.ops \in Nat
    \* counter_ <= block_restart_interval, asserted by BlockBuilder::Add
    /\ rep.data_block.counter \in 0..RestartInterval
    /\ rep.index_block.counter \in 0..1
    /\ rep.fail_at \in 0..rep.ops
    /\ result \in {"none", "ok", "io_error"}

\* The pairs the client added.
Added == {calls[i] : i \in 1..Len(calls)}

(***************************************************************************)
(* A table whose Finish returned OK reads back (TableBuilder::Add, Flush, *)
(* Finish against Table::Open and Table::InternalGet): it opens, and a    *)
(* Get of every key succeeds and passes the saver exactly the pair added  *)
(* under that key, or, for a key never added, no pair with that key.      *)
(* This needs the index separators, the pending index entries, the       *)
(* filter offsets, the block encodings, the handles and the footer to     *)
(* agree.                                                                 *)
(***************************************************************************)
ReadBack ==
    result = "ok" =>
      \E t \in {TableOpen(rep.file, ParanoidChecks)} :
         /\ t.status = "ok"
         /\ \A k \in Keys :
              \E g \in {InternalGet(rep.file, t, k, ParanoidChecks)} :
                 /\ g.status = "ok"
                 /\ \A v \in Values :
                      [key |-> k, value |-> v] \in Added => g.saved = <<[key |-> k, value |-> v]>>
                 /\ \A i \in 1..Len(g.saved) : g.saved[i].key = k => g.saved[i] \in Added

(***************************************************************************)
(* Errors are sticky: Finish returns OK only if no Append or Flush of the *)
(* file failed (r->status after every file operation, ok() checks).       *)
(***************************************************************************)
FailuresReported == result = "ok" => rep.fail_at = 0

(***************************************************************************)
(* Restart points (BlockBuilder::Add): in the data and index blocks being *)
(* built, the restart offsets increase strictly and each one is the      *)
(* offset of an entry that shares no prefix, so the reader's binary       *)
(* search can decode the key there on its own.                            *)
(***************************************************************************)
RestartsWellFormed(b) ==
    /\ \A i \in 1..Len(b.restarts) - 1 : b.restarts[i] < b.restarts[i+1]
    /\ \A i \in 1..Len(b.restarts) :
          b.restarts[i] < Len(b.buffer) =>
             LET e == DecodeEntry(b.buffer, b.restarts[i], Len(b.buffer))
             IN e.ok /\ e.shared = 0
RestartPointsUnshared ==
    RestartsWellFormed(rep.data_block) /\ RestartsWellFormed(rep.index_block)
===============================================================================
