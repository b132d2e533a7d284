------------------------------- MODULE Bytewise -------------------------------
(***************************************************************************)
(* BytewiseComparator (util/comparator.cc) over byte strings, with        *)
(* Slice::compare (include/leveldb/slice.h): memcmp of the common length, *)
(* then the shorter string first.                                          *)
(***************************************************************************)
EXTENDS Integers, Sequences

RECURSIVE BytewiseCompare(_, _)
BytewiseCompare(a, b) ==
    IF a = <<>> \/ b = <<>>
    THEN (IF Len(a) < Len(b) THEN -1 ELSE IF Len(a) > Len(b) THEN 1 ELSE 0)
    ELSE IF Head(a) < Head(b) THEN -1
    ELSE IF Head(a) > Head(b) THEN 1
    ELSE BytewiseCompare(Tail(a), Tail(b))

\* The length of the common prefix of a and b.
RECURSIVE SharedPrefixLength(_, _)
SharedPrefixLength(a, b) ==
    IF a # <<>> /\ b # <<>> /\ Head(a) = Head(b)
    THEN 1 + SharedPrefixLength(Tail(a), Tail(b))
    ELSE 0

(***************************************************************************)
(* FindShortestSeparator(start, limit): past the common prefix, if the    *)
(* first differing byte of start is below 0xff and at least two below     *)
(* limit's, increment it and cut start after it; otherwise (one string a  *)
(* prefix of the other, or adjacent bytes) leave start alone.             *)
(***************************************************************************)
FindShortestSeparatorNoGapCheck(start, limit) ==
    LET diff_index == SharedPrefixLength(start, limit)
        min_length == IF Len(start) < Len(limit) THEN Len(start) ELSE Len(limit)
    IN IF diff_index >= min_length THEN start
       ELSE LET diff_byte == start[diff_index + 1]
            IN IF diff_byte < 255
               THEN Append(SubSeq(start, 1, diff_index), diff_byte + 1)
               ELSE start

FindShortestSeparator(start, limit) ==
    LET diff_index == SharedPrefixLength(start, limit)
        min_length == IF Len(start) < Len(limit) THEN Len(start) ELSE Len(limit)
    IN IF diff_index >= min_length THEN start
       ELSE LET diff_byte == start[diff_index + 1]
            IN IF diff_byte < 255 /\ diff_byte + 1 < limit[diff_index + 1]
               THEN Append(SubSeq(start, 1, diff_index), diff_byte + 1)
               ELSE start

(***************************************************************************)
(* FindShortSuccessor(key): increment the first byte that is not 0xff and *)
(* cut the key after it; a run of 0xff bytes is left alone.               *)
(***************************************************************************)
FindShortSuccessor(key) ==
    LET idx == {i \in 1..Len(key) : key[i] # 255}
    IN IF idx = {} THEN key
       ELSE LET i == CHOOSE j \in idx : \A l \in idx : j <= l
            IN Append(SubSeq(key, 1, i - 1), key[i] + 1)
===============================================================================
