--------------------------------- MODULE Log ---------------------------------
(***************************************************************************)
(* The write-ahead log end to end: log::Writer appends records, the       *)
(* process or machine crashes, and at recovery a log::Reader reads the    *)
(* file back.  Writer::AddRecord flushes but never syncs, so a crash      *)
(* keeps any prefix of the file (a torn tail); the disk may then flip up  *)
(* to MaxCorrupt cells.  The reader is opened with an initial offset from *)
(* InitialOffsets and read until ReadRecord returns false.                *)
(*                                                                         *)
(* Two faults the code meets are modelled as well: up to MaxFaults calls  *)
(* of AddRecord see one of their Append or Flush calls on the file fail,  *)
(* after writing a prefix of what they were given; and up to MaxReopens   *)
(* times the crashed file is reopened for appending with                  *)
(* Writer(dest, dest_length), as a database reusing its log does.  At     *)
(* recovery, up to MaxReadFaults of the reader's Skip or Read calls fail  *)
(* (after reading part of the block, for Read).                           *)
(***************************************************************************)
EXTENDS LogFormat, FiniteSets

CONSTANTS
    Lengths,            \* payload lengths passed to AddRecord
    MaxRecords,         \* bound on AddRecord calls
    MaxCorrupt,         \* bound on corrupted cells
    CorruptValues,      \* values a corrupted cell may take
    InitialOffsets,     \* initial_offset values a Reader is opened with
    Checksum,           \* the Reader's checksum flag
    MaxFaults,          \* bound on AddRecord calls that see a file error
    TornAppends,        \* whether a failed Append may write part of its data
    MaxReopens,         \* bound on reopens of the log for appending
    MaxReadFaults       \* bound on failed Skip / Read calls of the reader

ASSUME Lengths \subseteq Nat /\ MaxRecords \in Nat /\ MaxCorrupt \in Nat
       /\ MaxFaults \in Nat /\ MaxReopens \in Nat /\ MaxReadFaults \in Nat
       /\ TornAppends \in BOOLEAN

VARIABLES
    phase,              \* "write", then "crashed", then "read"
    corrupted,          \* cells corrupted so far
    reopens,            \* reopens so far
    torn,               \* whether a crash cut the file inside a record
    readFaults,         \* failed Skip / Read calls of the reader so far
    file, block_offset, written,
    initial_offset, fpos, rbuf, eof, last_record_offset, end_of_buffer_offset,
    resyncing, rpc, in_frag, scratch, prospective, returned, reports

W == INSTANCE LogWriter
R == INSTANCE LogReader

writerVars == <<file, block_offset, written>>
readerVars == <<initial_offset, fpos, rbuf, eof, last_record_offset,
                end_of_buffer_offset, resyncing, rpc, in_frag, scratch,
                prospective, returned, reports>>
vars == <<phase, corrupted, reopens, torn, readFaults, writerVars, readerVars>>

\* AddRecord calls so far that saw a file error.
Faults == Cardinality({i \in 1..Len(written) : written[i].fault})

Init ==
    /\ phase = "write"
    /\ corrupted = 0
    /\ reopens = 0
    /\ torn = FALSE
    /\ readFaults = 0
    /\ W!WriterInit
    /\ R!ReaderInit(0)

Write(n) ==
    /\ phase = "write"
    /\ Len(written) < MaxRecords
    /\ W!AddRecord(n, Faults < MaxFaults, TornAppends)
    /\ UNCHANGED <<readFaults, phase, corrupted, reopens, torn, readerVars>>

\* The crash keeps the first n cells of the file; the history notes which
\* records lost cells.
Crash(n) ==
    /\ phase = "write"
    /\ phase' = "crashed"
    /\ file' = SubSeq(file, 1, n)
    /\ written' = [i \in 1..Len(written) |->
                    [written[i] EXCEPT !.kept = @ /\ written[i].end <= n]]
    /\ torn' = (torn \/ \E i \in 1..Len(written) :
                            written[i].offset < n /\ n < written[i].end)
    /\ UNCHANGED <<readFaults, corrupted, reopens, block_offset, readerVars>>

\* The log is reused: a new log::Writer appends to the file as it is.
Reopen ==
    /\ phase = "crashed"
    /\ reopens < MaxReopens
    /\ phase' = "write"
    /\ reopens' = reopens + 1
    /\ W!WriterReopen(Len(file))
    /\ UNCHANGED <<readFaults, corrupted, torn, file, written, readerVars>>

Corrupt(i, v) ==
    /\ phase = "crashed"
    /\ corrupted < MaxCorrupt
    /\ file[i] # v
    /\ file' = [file EXCEPT ![i] = v]
    /\ corrupted' = corrupted + 1
    /\ UNCHANGED <<readFaults, phase, reopens, torn, block_offset, written, readerVars>>

OpenReader(off) ==
    /\ phase = "crashed"
    /\ phase' = "read"
    /\ R!ReaderOpen(off)
    /\ UNCHANGED <<readFaults, corrupted, reopens, torn, writerVars>>

Read ==
    /\ phase = "read"
    /\ R!ReaderNext
    /\ UNCHANGED <<readFaults, phase, corrupted, reopens, torn, block_offset,
                   written>>

\* A reader step whose Skip or Read of the file fails.
ReadFails ==
    /\ phase = "read"
    /\ readFaults < MaxReadFaults
    /\ R!ReaderFails
    /\ readFaults' = readFaults + 1
    /\ UNCHANGED <<phase, corrupted, reopens, torn, block_offset, written>>

Next ==
    \/ \E n \in Lengths : Write(n)
    \/ \E n \in 0..Len(file) : Crash(n)
    \/ \E i \in 1..Len(file), v \in CorruptValues : Corrupt(i, v)
    \/ Reopen
    \/ \E off \in InitialOffsets : OpenReader(off)
    \/ Read
    \/ ReadFails

\* The recovery loop keeps calling ReadRecord while it returns true.  File
\* errors are not fair: nothing makes a Skip or Read fail.
Spec == Init /\ [][Next]_vars /\ WF_vars(Read)
        /\ WF_vars(\E n \in 0..Len(file) : Crash(n))
        /\ WF_vars(\E off \in InitialOffsets : OpenReader(off))

-------------------------------------------------------------------------------
TypeOK ==
    /\ phase \in {"write", "crashed", "read"}
    /\ file \in Seq(Nat)
    /\ block_offset \in 0..BlockSize
    /\ rpc \in {"idle", "loop", "done"}
    /\ rbuf \in Seq(Nat)
    /\ fpos \in 0..Len(file)
    /\ returned \in Seq([payload : Seq(Nat), offset : Nat])
    /\ reports \in Seq(Int)
    /\ readFaults \in 0..MaxReadFaults

\* The records a correct reader returns from an uncorrupted file: every
\* record whose first header is at or after initial_offset and whose cells
\* all survived the crash, in the order written.
Expected ==
    LET ok(w) == w.ok /\ w.kept /\ w.offset >= initial_offset
    IN [i \in 1..Len(SelectSeq(written, ok)) |->
          [payload |-> SelectSeq(written, ok)[i].payload,
           offset  |-> SelectSeq(written, ok)[i].offset]]

(***************************************************************************)
(* Round trip (Writer::AddRecord, Reader::ReadRecord, LastRecordOffset):  *)
(* on a file that was only truncated, the reader hands out exactly the    *)
(* complete records at or after initial_offset, whole, in order, each     *)
(* with the offset of its first header; a record torn by the crash is     *)
(* dropped.  A failed Skip or Read may end the read early, never change  *)
(* or reorder what it hands out.                                          *)
(***************************************************************************)
ReadsBackWritten ==
    (phase = "read" /\ corrupted = 0) =>
        /\ IsPrefix(returned, Expected)
        /\ (rpc = "done" /\ readFaults = 0) => returned = Expected

(***************************************************************************)
(* A torn tail is not a corruption: reading a file that was truncated     *)
(* but not corrupted reports nothing (the comments at the kEof cases of   *)
(* ReadPhysicalRecord and ReadRecord; for initial_offset > 0, the header  *)
(* comment that Middle and Last records are skipped silently).            *)
(***************************************************************************)
NoSpuriousCorruption ==
    (phase = "read" /\ corrupted = 0 /\ readFaults = 0) => reports = <<>>

(***************************************************************************)
(* The same for a reader opened at initial_offset 0, which never          *)
(* resynchronises: a truncated, uncorrupted log reads back with no report *)
(* (the kEof cases of ReadPhysicalRecord and ReadRecord).                 *)
(***************************************************************************)
NoSpuriousCorruptionFromStart ==
    initial_offset = 0 => NoSpuriousCorruption

(***************************************************************************)
(* Corruption is never passed on: with checksums on, every record handed *)
(* out is one the writer wrote, at the offset it was written at, and the  *)
(* records come out in file order, none twice.                            *)
(***************************************************************************)
NoGarbageRecords ==
    /\ \A i \in 1..Len(returned) :
          \E j \in 1..Len(written) :
             /\ returned[i].payload = written[j].payload
             /\ returned[i].offset = written[j].offset
    /\ \A i \in 1..Len(returned) - 1 : returned[i].offset < returned[i+1].offset

(***************************************************************************)
(* What AddRecord acknowledged is recovered: once the recovery read ends  *)
(* on a file that was not corrupted, every record whose AddRecord         *)
(* returned OK, that lost no cells in a crash and starts at or after      *)
(* initial_offset was handed out.  Records whose AddRecord failed may or  *)
(* may not come back.                                                     *)
(***************************************************************************)
AcknowledgedRecordsRecovered ==
    (phase = "read" /\ corrupted = 0 /\ rpc = "done") =>
        \A i \in 1..Len(Expected) :
            \E j \in 1..Len(returned) : returned[j] = Expected[i]

(***************************************************************************)
(* Writer(dest, dest_length) continues a log where it left off: when no   *)
(* AddRecord saw a file error and no crash cut a record, every            *)
(* acknowledged record is recovered, those appended after a reopen (at    *)
(* block_offset_ = dest_length % kBlockSize) included.                    *)
(***************************************************************************)
CleanReopenRecovered ==
    (Faults = 0 /\ ~torn) => AcknowledgedRecordsRecovered

(***************************************************************************)
(* No record is lost silently at recovery: when ReadRecord has returned  *)
(* false on a file that was only truncated, either every complete record *)
(* at or after initial_offset was handed out or the reporter was told of  *)
(* a drop -- in particular when a Skip or Read of the file failed (the    *)
(* ReportDrop calls at the file errors in SkipToInitialBlock and          *)
(* ReadPhysicalRecord; log_reader.h: the reporter is notified whenever    *)
(* some data is dropped).                                                 *)
(***************************************************************************)
NoSilentLoss ==
    (phase = "read" /\ corrupted = 0 /\ rpc = "done") =>
        returned = Expected \/ reports # <<>>

(***************************************************************************)
(* The same for a reader opened at initial_offset 0, as DBImpl's recovery *)
(* opens its logs: a file error while reading is always reported.         *)
(***************************************************************************)
NoSilentLossFromStart ==
    initial_offset = 0 => NoSilentLoss

\* The recovery read always ends: ReadRecord eventually returns false.
ReaderTerminates == <>(rpc = "done")
===============================================================================
