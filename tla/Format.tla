-------------------------------- MODULE Format --------------------------------
(***************************************************************************)
(* The sstable format of table/format.{h,cc}: block handles, the footer,  *)
(* the block trailer and ReadBlock.  A file is a sequence of bytes and a  *)
(* handle is a record [offset, size].                                     *)
(***************************************************************************)
EXTENDS Integers, Sequences, Coding, Crc32c

kBlockTrailerSize == 5
kMaxEncodedLength == 20                          \* BlockHandle, 10 + 10
kEncodedLength    == 2 * kMaxEncodedLength + 8   \* Footer

\* CompressionType.
kNoCompression     == 0
kSnappyCompression == 1

\* kTableMagicNumber 0xdb4775248b80fb57 as the footer stores it: the low
\* word, then the high word, each fixed32 little-endian.
kTableMagicBytes == <<87, 251, 128, 139, 36, 117, 71, 219>>

\* BlockHandle's fields before they are set (~0).
UnsetHandle == [offset |-> -1, size |-> -1]

\* BlockHandle::EncodeTo.
EncodeHandle(h) == EncodeVarint(h.offset) \o EncodeVarint(h.size)

\* BlockHandle::DecodeFrom the bytes of s from index p up to limit.
DecodeHandle(s, p, limit) ==
    LET o == GetVarint64Ptr(s, p, limit)
        z == GetVarint64Ptr(s, o.next, limit)
    IN IF o.ok /\ z.ok
       THEN [ok |-> TRUE, offset |-> o.value, size |-> z.value, next |-> z.next]
       ELSE [ok |-> FALSE]

\* Footer::EncodeTo: the two handles, zero padding to 40 bytes, the magic.
FooterEncode(metaindex_handle, index_handle) ==
    LET h == EncodeHandle(metaindex_handle) \o EncodeHandle(index_handle)
    IN h \o [i \in 1..(2 * kMaxEncodedLength - Len(h)) |-> 0] \o kTableMagicBytes

\* Footer::DecodeFrom the kEncodedLength bytes of input.
FooterDecode(input) ==
    LET m == DecodeHandle(input, 1, kEncodedLength + 1)
        i == DecodeHandle(input, m.next, kEncodedLength + 1)
    IN IF SubSeq(input, kEncodedLength - 7, kEncodedLength) # kTableMagicBytes
       THEN [status |-> "corruption"]
       ELSE IF ~m.ok \/ ~i.ok THEN [status |-> "corruption"]
       ELSE [status |-> "ok",
             metaindex_handle |-> [offset |-> m.offset, size |-> m.size],
             index_handle |-> [offset |-> i.offset, size |-> i.size]]

\* The trailer WriteRawBlock appends: the type byte, then the masked crc
\* of the contents and the type.
BlockTrailer(contents, type) ==
    <<type>> \o EncodeFixed32(Mask(Crc32cValue(contents \o <<type>>)))

(***************************************************************************)
(* ReadBlock(file, options, handle): read size + kBlockTrailerSize bytes   *)
(* at the handle's offset; a short read is a truncated block; with        *)
(* verify_checksums the crc of the contents and type must match; then the *)
(* type decides.  Blocks are written uncompressed (kSnappyCompression is   *)
(* not modelled), so any other type is a bad block type.                  *)
(***************************************************************************)
ReadBlock(file, handle, verify_checksums) ==
    LET n    == handle.size
        data == SubSeq(file, handle.offset + 1, handle.offset + n + kBlockTrailerSize)
    IN IF handle.offset + n + kBlockTrailerSize > Len(file)
       THEN [status |-> "corruption"]
       ELSE IF verify_checksums
               /\ Unmask(DecodeFixed32(data, n + 2)) # Crc32cValue(SubSeq(data, 1, n + 1))
       THEN [status |-> "corruption"]
       ELSE IF data[n + 1] = kNoCompression
       THEN [status |-> "ok", data |-> SubSeq(data, 1, n)]
       ELSE [status |-> "corruption"]
===============================================================================
