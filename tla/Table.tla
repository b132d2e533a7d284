--------------------------------- MODULE Table ---------------------------------
(***************************************************************************)
(* The table reader of table/table.cc: Table::Open (with ReadMeta and     *)
(* ReadFilter) and Table::InternalGet through BlockReader, over the bytes *)
(* of a file.  The block cache is not used (options.block_cache = NULL);  *)
(* a filter policy is configured.                                         *)
(***************************************************************************)
EXTENDS Integers, Sequences, Format, Block, FilterBlock

\* The metaindex key of the filter: "filter." followed by the policy's
\* Name(), a one-byte name here.
kFilterMetaKey == <<102, 105, 108, 116, 101, 114, 46>> \o <<66>>

\* Table::ReadFilter(filter_handle_value): decode the handle, read the
\* block; on any failure the table has no filter.
FilterRead(b) ==
    IF b.status # "ok" THEN [has_filter |-> FALSE]
    ELSE [has_filter |-> TRUE, filter |-> b.data]

ReadFilterAt(file, h, verify) ==
    IF ~h.ok THEN [has_filter |-> FALSE]
    ELSE FilterRead(ReadBlock(file, [offset |-> h.offset, size |-> h.size], verify))

ReadFilter(file, v, verify) == ReadFilterAt(file, DecodeHandle(v, 1, Len(v) + 1), verify)

\* Table::ReadMeta: find the filter's handle in the metaindex block.
MetaFound(file, it, verify) ==
    IF it.valid /\ it.key = kFilterMetaKey THEN ReadFilter(file, it.value, verify)
    ELSE [has_filter |-> FALSE]

MetaRead(file, meta, verify) ==
    IF meta.status # "ok" THEN [has_filter |-> FALSE]
    ELSE MetaFound(file, BlockSeek(meta.data, kFilterMetaKey), verify)

ReadMeta(file, footer, verify) ==
    MetaRead(file, ReadBlock(file, footer.metaindex_handle, verify), verify)

(***************************************************************************)
(* Table::Open(options, file, size): the footer from the last             *)
(* kEncodedLength bytes, the index block, then ReadMeta.  paranoid_checks *)
(* turns on checksum verification of these reads.  Each stage takes the   *)
(* result of the one before as a parameter.                               *)
(***************************************************************************)
OpenWithMeta(index, meta) ==
    [status |-> "ok", index_block |-> index.data,
     has_filter |-> meta.has_filter,
     filter |-> IF meta.has_filter THEN meta.filter ELSE <<>>]

OpenWithIndex(file, footer, index, paranoid_checks) ==
    IF index.status # "ok" THEN [status |-> index.status]
    ELSE OpenWithMeta(index, ReadMeta(file, footer, paranoid_checks))

OpenWithFooter(file, footer, paranoid_checks) ==
    IF footer.status # "ok" THEN [status |-> "corruption"]
    ELSE OpenWithIndex(file, footer,
                       ReadBlock(file, footer.index_handle, paranoid_checks),
                       paranoid_checks)

TableOpen(file, paranoid_checks) ==
    IF Len(file) < kEncodedLength THEN [status |-> "corruption"]
    ELSE OpenWithFooter(file,
                        FooterDecode(SubSeq(file, Len(file) - kEncodedLength + 1, Len(file))),
                        paranoid_checks)

\* Table::BlockReader(index_value)->Seek(k), without a block cache.
BlockReadSeek(b, k) == IF b.status # "ok" THEN NoEntry(b.status) ELSE BlockSeek(b.data, k)

BlockReaderSeekAt(file, h, k, verify) ==
    IF ~h.ok THEN NoEntry("corruption")
    ELSE BlockReadSeek(ReadBlock(file, [offset |-> h.offset, size |-> h.size], verify), k)

BlockReaderSeek(file, index_value, k, verify) ==
    BlockReaderSeekAt(file, DecodeHandle(index_value, 1, Len(index_value) + 1), k, verify)

(***************************************************************************)
(* Table::InternalGet(options, k, arg, saver): seek the index; skip the   *)
(* data block when the filter rules k out at the block's offset;          *)
(* otherwise seek the data block and pass the entry found to the saver.   *)
(* The result is the status and the entries passed to the saver.         *)
(***************************************************************************)
SaveFound(ii, bi) ==
    [status |-> IF bi.status # "ok" THEN bi.status ELSE ii.status,
     saved |-> IF bi.valid THEN <<[key |-> bi.key, value |-> bi.value]>> ELSE <<>>]

GetFromBlock(file, t, ii, h, k, verify) ==
    IF t.has_filter /\ h.ok /\ ~FilterKeyMayMatch(t.filter, h.offset, k)
    THEN [status |-> ii.status, saved |-> <<>>]
    ELSE SaveFound(ii, BlockReaderSeek(file, ii.value, k, verify))

GetAt(file, t, ii, k, verify) ==
    IF ~ii.valid THEN [status |-> ii.status, saved |-> <<>>]
    ELSE GetFromBlock(file, t, ii, DecodeHandle(ii.value, 1, Len(ii.value) + 1), k, verify)

InternalGet(file, t, k, verify) == GetAt(file, t, BlockSeek(t.index_block, k), k, verify)
===============================================================================
