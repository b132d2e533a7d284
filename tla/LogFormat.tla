------------------------------ MODULE LogFormat ------------------------------
(***************************************************************************)
(* The write-ahead log format shared by log::Writer and log::Reader       *)
(* (db/log_writer.cc, db/log_reader.cc; the constants of log_format.h).   *)
(*                                                                         *)
(* The file is a sequence of cells.  A physical record is a header of     *)
(* HeaderSize cells followed by its payload cells.  The real header is 7  *)
(* bytes (crc 4, length 2, type 1); the model's header is three cells,    *)
(* one per field, so HeaderSize = 3, and the crc, length and type are     *)
(* read back from whatever cell sits at that position.  BlockSize is      *)
(* kBlockSize scaled down so that records span blocks and leave           *)
(* trailers.  Every cell holds a number, as a byte would.                 *)
(***************************************************************************)
EXTENDS Naturals, Sequences, SequencesExt, Crc32c

CONSTANTS
    BlockSize,      \* kBlockSize (32768 in the code)
    HeaderSize      \* kHeaderSize: crc cell, length cell, type cell

ASSUME HeaderSize = 3 /\ BlockSize > HeaderSize

\* RecordType of log_format.h.
kZeroType   == 0
kFullType   == 1
kFirstType  == 2
kMiddleType == 3
kLastType   == 4
kMaxRecordType == kLastType

(***************************************************************************)
(* crc32c::Extend(type_crc_[t], ptr, n): a checksum over the type and     *)
(* the payload, type_crc_[t] being the crc of the type byte alone.        *)
(***************************************************************************)
Crc(t, payload) == Crc32cValue(<<t>> \o payload)
===============================================================================
