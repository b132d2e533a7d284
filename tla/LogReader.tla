------------------------------ MODULE LogReader ------------------------------
(***************************************************************************)
(* log::Reader (db/log_reader.cc), single-threaded, reading `file`.       *)
(*                                                                         *)
(* The caller loops on ReadRecord until it returns false.  A ReadRecord   *)
(* call is a sequence of steps: Begin (SkipToInitialBlock, clearing the   *)
(* scratch), then iterations of its while loop.  An iteration calls       *)
(* ReadPhysicalRecord, whose own loop refills the buffer a block at a     *)
(* time (Refill) and then parses one physical record (Fragment) or finds  *)
(* the end of the file (AtEof); the iteration then runs the switch on the *)
(* returned type.  The locals of ReadRecord (in_fragmented_record,        *)
(* scratch, prospective_record_offset) are variables that Begin resets.   *)
(*                                                                         *)
(* `returned` and `reports` are the observable outputs: the records       *)
(* ReadRecord hands out with LastRecordOffset, and the byte counts passed *)
(* to Reporter::Corruption.                                               *)
(***************************************************************************)
EXTENDS LogFormat

CONSTANT Checksum   \* the reader's checksum_ flag

kEof       == kMaxRecordType + 1
kBadRecord == kMaxRecordType + 2

VARIABLES
    file,                   \* the log file being read (shared with the writer)
    initial_offset,         \* initial_offset_
    fpos,                   \* position of the SequentialFile
    rbuf,                   \* buffer_: unparsed cells of the last block read
    eof,                    \* eof_
    last_record_offset,     \* last_record_offset_
    end_of_buffer_offset,   \* end_of_buffer_offset_
    resyncing,              \* resyncing_
    rpc,                    \* "idle" between calls, "loop" inside, "done"
    in_frag,                \* in_fragmented_record (local of ReadRecord)
    scratch,                \* *scratch
    prospective,            \* prospective_record_offset (local)
    returned,               \* records returned: [payload, offset]
    reports                 \* bytes reported to the Reporter, in order

readerVars == <<initial_offset, fpos, rbuf, eof, last_record_offset,
                end_of_buffer_offset, resyncing, rpc, in_frag, scratch,
                prospective, returned, reports>>

\* Reader::Reader(file, reporter, checksum, off).
ReaderInit(off) ==
    /\ initial_offset = off
    /\ fpos = 0
    /\ rbuf = <<>>
    /\ eof = FALSE
    /\ last_record_offset = 0
    /\ end_of_buffer_offset = 0
    /\ resyncing = (off > 0)
    /\ rpc = "idle"
    /\ in_frag = FALSE
    /\ scratch = <<>>
    /\ prospective = 0
    /\ returned = <<>>
    /\ reports = <<>>

\* The same constructor run at recovery, replacing the reader's state.
ReaderOpen(off) ==
    /\ initial_offset' = off
    /\ fpos' = 0
    /\ rbuf' = <<>>
    /\ eof' = FALSE
    /\ last_record_offset' = 0
    /\ end_of_buffer_offset' = 0
    /\ resyncing' = (off > 0)
    /\ rpc' = "idle"
    /\ in_frag' = FALSE
    /\ scratch' = <<>>
    /\ prospective' = 0
    /\ returned' = <<>>
    /\ reports' = <<>>

(***************************************************************************)
(* ReportDrop: the reporter hears of `bytes` dropped unless they lie      *)
(* before initial_offset_, judged with the unsigned difference            *)
(* end_of_buffer_offset_ - buffer_.size() - bytes (negative wraps high).  *)
(***************************************************************************)
\* Mutant: the wrapped unsigned difference is not treated as a report.
DropAtNoWrap(eob, bytes, bufLen) ==
    IF eob - bufLen - bytes >= initial_offset THEN <<bytes>> ELSE <<>>

DropAt(eob, bytes, bufLen) ==
    LET d == eob - bufLen - bytes
    IN IF d < 0 \/ d >= initial_offset THEN <<bytes>> ELSE <<>>

Drop(bytes, bufLen) == DropAt(end_of_buffer_offset, bytes, bufLen)

(***************************************************************************)
(* SkipToInitialBlock: position at the block holding initial_offset_, or *)
(* the next one when the offset is in a trailer.  SequentialFile::Skip    *)
(* moves relative to the current position.                                *)
(***************************************************************************)
SkipToInitialBlock ==
    LET inBlock    == initial_offset % BlockSize
        blockStart == initial_offset - inBlock
                        + (IF inBlock > BlockSize - (HeaderSize - 1)
                           THEN BlockSize ELSE 0)
        to         == fpos + blockStart
    IN [eob |-> blockStart,
        fpos |-> IF blockStart > 0
                 THEN IF to < Len(file) THEN to ELSE Len(file)
                 ELSE fpos]

\* Start of ReadRecord: skip when nothing at or after initial_offset_ has
\* been returned yet, then clear the scratch and the locals.
BeginReadRecord ==
    /\ rpc = "idle"
    /\ IF last_record_offset < initial_offset
       THEN /\ end_of_buffer_offset' = SkipToInitialBlock.eob
            /\ fpos' = SkipToInitialBlock.fpos
       ELSE UNCHANGED <<end_of_buffer_offset, fpos>>
    /\ rpc' = "loop"
    /\ in_frag' = FALSE
    /\ scratch' = <<>>
    /\ prospective' = 0
    /\ UNCHANGED <<file, initial_offset, rbuf, eof, last_record_offset,
                   resyncing, returned, reports>>

\* Refills that miss the short read at the end of the file.
RefillNoEof ==
    LET n    == IF fpos + BlockSize <= Len(file) THEN BlockSize
                ELSE Len(file) - fpos
    IN
    /\ rpc = "loop"
    /\ Len(rbuf) < HeaderSize
    /\ ~eof
    /\ rbuf' = SubSeq(file, fpos + 1, fpos + n)
    /\ fpos' = fpos + n
    /\ end_of_buffer_offset' = end_of_buffer_offset + n
    /\ eof' = eof
    /\ UNCHANGED <<file, initial_offset, last_record_offset, resyncing, rpc,
                   in_frag, scratch, prospective, returned, reports>>
RefillFullBlock ==
    LET n    == IF fpos + BlockSize <= Len(file) THEN BlockSize
                ELSE Len(file) - fpos
    IN
    /\ rpc = "loop"
    /\ Len(rbuf) < HeaderSize
    /\ ~eof
    /\ rbuf' = SubSeq(file, fpos + 1, fpos + n)
    /\ fpos' = fpos + BlockSize
    /\ end_of_buffer_offset' = end_of_buffer_offset + n
    /\ eof' = (n < BlockSize)
    /\ UNCHANGED <<file, initial_offset, last_record_offset, resyncing, rpc,
                   in_frag, scratch, prospective, returned, reports>>

\* ReadPhysicalRecord with fewer than kHeaderSize cells left and no EOF yet:
\* drop the trailer and read the next block; a short read sets eof_.
Refill ==
    LET n    == IF fpos + BlockSize <= Len(file) THEN BlockSize
                ELSE Len(file) - fpos
    IN
    /\ rpc = "loop"
    /\ Len(rbuf) < HeaderSize
    /\ ~eof
    /\ rbuf' = SubSeq(file, fpos + 1, fpos + n)
    /\ fpos' = fpos + n
    /\ end_of_buffer_offset' = end_of_buffer_offset + n
    /\ eof' = (n < BlockSize)
    /\ UNCHANGED <<file, initial_offset, last_record_offset, resyncing, rpc,
                   in_frag, scratch, prospective, returned, reports>>

\* The crc check of ReadPhysicalRecord: the stored crc (first header cell)
\* against the crc of the type and the payload.
ChecksumSkipped(t, body) == FALSE
ChecksumMismatch(t, body) == Checksum /\ Unmask(rbuf[1]) # Crc(t, body)

\* The physical record of `len` payload cells, followed in the buffer by
\* `rest`, starts before initial_offset_.
NeverBeforeInitial(len, rest) == FALSE
StartsBeforeInitial(len, rest) ==
    end_of_buffer_offset - Len(rest) - HeaderSize - len < initial_offset

(***************************************************************************)
(* The parse half of ReadPhysicalRecord on a buffer holding a header:     *)
(* the record type it returns (or kEof / kBadRecord), the fragment, the   *)
(* buffer left, and the drops it reports.  A length running past the     *)
(* buffer is a corruption unless the buffer is the last one of the file.  *)
(***************************************************************************)
Result(t, frag, buf, drops) == [type |-> t, frag |-> frag, buf |-> buf, drops |-> drops]

PhysicalNoEofCheck ==
    LET len == rbuf[2]  t == rbuf[3]
        body == SubSeq(rbuf, HeaderSize + 1, HeaderSize + len)
        rest == SubSeq(rbuf, HeaderSize + len + 1, Len(rbuf))
    IN IF HeaderSize + len > Len(rbuf)
       THEN Result(kBadRecord, <<>>, <<>>, Drop(Len(rbuf), 0))
       ELSE IF t = kZeroType /\ len = 0 THEN Result(kBadRecord, <<>>, <<>>, <<>>)
       ELSE IF ChecksumMismatch(t, body)
       THEN Result(kBadRecord, <<>>, <<>>, Drop(Len(rbuf), 0))
       ELSE IF StartsBeforeInitial(len, rest)
       THEN Result(kBadRecord, <<>>, rest, <<>>)
       ELSE Result(t, body, rest, <<>>)

PhysicalKeepsBuffer ==
    LET len == rbuf[2]  t == rbuf[3]
        body == SubSeq(rbuf, HeaderSize + 1, HeaderSize + len)
        rest == SubSeq(rbuf, HeaderSize + len + 1, Len(rbuf))
    IN IF HeaderSize + len > Len(rbuf)
       THEN IF ~eof THEN Result(kBadRecord, <<>>, rbuf, Drop(Len(rbuf), Len(rbuf)))
            ELSE Result(kEof, <<>>, <<>>, <<>>)
       ELSE IF t = kZeroType /\ len = 0 THEN Result(kBadRecord, <<>>, <<>>, <<>>)
       ELSE IF ChecksumMismatch(t, body)
       THEN Result(kBadRecord, <<>>, <<>>, Drop(Len(rbuf), 0))
       ELSE IF StartsBeforeInitial(len, rest)
       THEN Result(kBadRecord, <<>>, rest, <<>>)
       ELSE Result(t, body, rest, <<>>)

Physical ==
    LET len  == rbuf[2]
        t    == rbuf[3]
        body == SubSeq(rbuf, HeaderSize + 1, HeaderSize + len)
        rest == SubSeq(rbuf, HeaderSize + len + 1, Len(rbuf))
    IN IF HeaderSize + len > Len(rbuf)
       THEN IF ~eof THEN Result(kBadRecord, <<>>, <<>>, Drop(Len(rbuf), 0))
            ELSE Result(kEof, <<>>, <<>>, <<>>)
       ELSE IF t = kZeroType /\ len = 0 THEN Result(kBadRecord, <<>>, <<>>, <<>>)
       ELSE IF ChecksumMismatch(t, body)
       THEN Result(kBadRecord, <<>>, <<>>, Drop(Len(rbuf), 0))
       ELSE IF StartsBeforeInitial(len, rest)
       THEN Result(kBadRecord, <<>>, rest, <<>>)
       ELSE Result(t, body, rest, <<>>)

(***************************************************************************)
(* One iteration of ReadRecord's loop after ReadPhysicalRecord returned   *)
(* type t with fragment fr, buffer buf and drops: the resync filter and   *)
(* the switch.  Returning true hands the record out and ends the call;    *)
(* kEof ends the call with false.                                         *)
(***************************************************************************)
Dispatch(t, fr, buf, drops) ==
    LET pro    == end_of_buffer_offset - Len(buf) - HeaderSize - Len(fr)
        skip   == resyncing /\ t \in {kMiddleType, kLastType}
        Rep(b) == Drop(b, Len(buf))
        partial == IF in_frag /\ scratch # <<>> THEN Rep(Len(scratch))
                   ELSE <<>>
    IN
    /\ rbuf' = buf
    /\ resyncing' = (resyncing /\ t = kMiddleType)
    /\ IF skip
       THEN /\ reports' = reports \o drops
            /\ UNCHANGED <<last_record_offset, rpc, in_frag, scratch,
                           prospective, returned>>
       ELSE CASE t = kFullType ->
                 /\ reports' = reports \o drops \o partial
                 /\ returned' = Append(returned, [payload |-> fr, offset |-> pro])
                 /\ last_record_offset' = pro
                 /\ rpc' = "idle"
                 /\ scratch' = <<>>
                 /\ prospective' = pro
                 /\ UNCHANGED in_frag
            [] t = kFirstType ->
                 /\ reports' = reports \o drops \o partial
                 /\ prospective' = pro
                 /\ scratch' = fr
                 /\ in_frag' = TRUE
                 /\ UNCHANGED <<last_record_offset, rpc, returned>>
            [] t = kMiddleType ->
                 /\ IF in_frag
                    THEN /\ scratch' = scratch \o fr
                         /\ reports' = reports \o drops
                    ELSE /\ reports' = reports \o drops \o Rep(Len(fr))
                         /\ UNCHANGED scratch
                 /\ UNCHANGED <<last_record_offset, rpc, in_frag, prospective,
                                returned>>
            [] t = kLastType ->
                 IF in_frag
                 THEN /\ reports' = reports \o drops
                      /\ returned' = Append(returned,
                                       [payload |-> scratch \o fr,
                                        offset |-> prospective])
                      /\ last_record_offset' = prospective
                      /\ rpc' = "idle"
                      /\ scratch' = scratch \o fr
                      /\ UNCHANGED <<in_frag, prospective>>
                 ELSE /\ reports' = reports \o drops \o Rep(Len(fr))
                      /\ UNCHANGED <<last_record_offset, rpc, in_frag, scratch,
                                     prospective, returned>>
            [] t = kEof ->
                 /\ reports' = reports \o drops
                 /\ rpc' = "done"
                 /\ scratch' = <<>>
                 /\ UNCHANGED <<last_record_offset, in_frag, prospective,
                                returned>>
            [] t = kBadRecord ->
                 /\ reports' = reports \o drops
                                \o (IF in_frag THEN Rep(Len(scratch)) ELSE <<>>)
                 /\ in_frag' = FALSE
                 /\ scratch' = IF in_frag THEN <<>> ELSE scratch
                 /\ UNCHANGED <<last_record_offset, rpc, prospective, returned>>
            [] OTHER ->
                 \* unknown record type
                 /\ reports' = reports \o drops
                        \o Rep(Len(fr) + (IF in_frag THEN Len(scratch) ELSE 0))
                 /\ in_frag' = FALSE
                 /\ scratch' = <<>>
                 /\ UNCHANGED <<last_record_offset, rpc, prospective, returned>>

\* A loop iteration whose ReadPhysicalRecord parses a physical record.
Fragment ==
    /\ rpc = "loop"
    /\ Len(rbuf) >= HeaderSize
    /\ Dispatch(Physical.type, Physical.frag, Physical.buf, Physical.drops)
    /\ UNCHANGED <<file, initial_offset, fpos, eof, end_of_buffer_offset>>

\* A loop iteration whose ReadPhysicalRecord finds the end of the file: a
\* header truncated by the end of the file is not a corruption.
AtEof ==
    /\ rpc = "loop"
    /\ Len(rbuf) < HeaderSize
    /\ eof
    /\ Dispatch(kEof, <<>>, <<>>, <<>>)
    /\ UNCHANGED <<file, initial_offset, fpos, eof, end_of_buffer_offset>>

ReaderNext == BeginReadRecord \/ Refill \/ Fragment \/ AtEof

(***************************************************************************)
(* The same steps when the SequentialFile call they make fails.           *)
(*                                                                         *)
(* A failed Skip in SkipToInitialBlock: end_of_buffer_offset_ is already  *)
(* block_start_location, the drop of block_start_location bytes goes to  *)
(* ReportDrop, and ReadRecord returns false.                               *)
(***************************************************************************)
SkipFails ==
    LET eob == SkipToInitialBlock.eob
    IN
    /\ rpc = "idle"
    /\ last_record_offset < initial_offset
    /\ eob > 0
    /\ end_of_buffer_offset' = eob
    /\ reports' = reports \o DropAt(eob, eob, 0)
    /\ rpc' = "done"
    /\ UNCHANGED <<file, initial_offset, fpos, rbuf, eof, last_record_offset,
                   resyncing, in_frag, scratch, prospective, returned>>

(***************************************************************************)
(* A failed Read(kBlockSize) in ReadPhysicalRecord after reading r cells  *)
(* (the Env may return part of the block with the error):                 *)
(* end_of_buffer_offset_ grows by r, buffer_ is cleared, ReportDrop of    *)
(* kBlockSize, eof_ set, and kEof goes to ReadRecord's switch.            *)
(***************************************************************************)
RefillFails(r) ==
    /\ rpc = "loop"
    /\ Len(rbuf) < HeaderSize
    /\ ~eof
    /\ fpos + r <= Len(file)
    /\ r < BlockSize
    /\ fpos' = fpos + r
    /\ end_of_buffer_offset' = end_of_buffer_offset + r
    /\ eof' = TRUE
    /\ Dispatch(kEof, <<>>, <<>>,
                DropAt(end_of_buffer_offset + r, BlockSize, 0))
    /\ UNCHANGED <<file, initial_offset>>

ReaderFails == SkipFails \/ \E r \in 0..BlockSize - 1 : RefillFails(r)
===============================================================================
