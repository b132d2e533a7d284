-------------------------------- MODULE Coding --------------------------------
(***************************************************************************)
(* The byte encodings of util/coding.cc.  A string is a sequence of bytes *)
(* (0..255).  Positions passed to the decoders are 1-based indices into   *)
(* the sequence, and a decoder's "limit" is the index one past the last   *)
(* byte it may read, as the code's [p, limit) ranges.                     *)
(***************************************************************************)
EXTENDS Integers, Sequences

Byte == 0..255

\* EncodeFixed32 / PutFixed32: four bytes, little-endian.
EncodeFixed32(v) ==
    <<v % 256, (v \div 256) % 256, (v \div 65536) % 256, (v \div 16777216) % 256>>

\* PutFixed32 of each number of a sequence, in order.
RECURSIVE EncodeFixed32Array(_)
EncodeFixed32Array(s) ==
    IF s = <<>> THEN <<>> ELSE EncodeFixed32(Head(s)) \o EncodeFixed32Array(Tail(s))

\* DecodeFixed32 of the four bytes starting at index p.
DecodeFixed32(s, p) ==
    s[p] + 256 * s[p+1] + 65536 * s[p+2] + 16777216 * s[p+3]

\* EncodeVarint32 / EncodeVarint64 (PutVarint32 / PutVarint64): seven bits
\* per byte, low group first, the high bit set on every byte but the last.
RECURSIVE EncodeVarint(_)
EncodeVarint(v) ==
    IF v >= 128 THEN <<(v % 128) + 128>> \o EncodeVarint(v \div 128)
    ELSE <<v>>

\* VarintLength.
RECURSIVE VarintLength(_)
VarintLength(v) == IF v >= 128 THEN 1 + VarintLength(v \div 128) ELSE 1

(***************************************************************************)
(* GetVarint64Ptr(p, limit, &value) (and GetVarint32Ptr): the value and    *)
(* the index after it, or ok = FALSE (the code's NULL) when the bytes run *)
(* out before a byte without the high bit, or after MaxShift bits.        *)
(***************************************************************************)
RECURSIVE GetVarintLoop(_, _, _, _, _, _)
GetVarintLoop(s, p, limit, shift, maxShift, result) ==
    IF shift > maxShift \/ p >= limit
    THEN [ok |-> FALSE, value |-> 0, next |-> p]
    ELSE IF s[p] >= 128
         THEN GetVarintLoop(s, p + 1, limit, shift + 7, maxShift,
                            result + (s[p] - 128) * 2^shift)
         ELSE [ok |-> TRUE, value |-> result + s[p] * 2^shift, next |-> p + 1]

GetVarint32Ptr(s, p, limit) == GetVarintLoop(s, p, limit, 0, 28, 0)
GetVarint64Ptr(s, p, limit) == GetVarintLoop(s, p, limit, 0, 63, 0)
===============================================================================
