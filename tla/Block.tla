--------------------------------- MODULE Block ---------------------------------
(***************************************************************************)
(* The block reader (Block, Block::Iter of table/block.h; its .cc is not  *)
(* in the repository, so this follows the block format and the reader's   *)
(* description in the specification).  A block is the byte string        *)
(* BlockBuilder::Finish returns.  Offsets are 0-based, as in the code, so *)
(* the byte at offset o is d[o + 1].                                      *)
(***************************************************************************)
EXTENDS Integers, Sequences, Coding, Bytewise

\* The restart count in the last four bytes, and where the array starts.
NumRestarts(d) == DecodeFixed32(d, Len(d) - 3)
RestartsOffset(d) == Len(d) - (1 + NumRestarts(d)) * 4
GetRestartPoint(d, i) == DecodeFixed32(d, RestartsOffset(d) + i * 4 + 1)

\* Block::Block: a block shorter than its length word, or whose restart
\* count cannot fit, is malformed (size_ = 0).
BlockWellSized(d) ==
    Len(d) >= 4 /\ NumRestarts(d) <= (Len(d) - 4) \div 4

(***************************************************************************)
(* DecodeEntry(p, limit): the three varint32 lengths of the entry at      *)
(* offset p, and the offset of its key suffix; ok = FALSE (NULL) when the *)
(* header or the suffix and value run past limit.                         *)
(***************************************************************************)
DecodeEntry(d, p, limit) ==
    LET s  == GetVarint32Ptr(d, p + 1, limit + 1)
        n  == GetVarint32Ptr(d, s.next, limit + 1)
        v  == GetVarint32Ptr(d, n.next, limit + 1)
        at == v.next - 1
    IN IF limit - p < 3 \/ ~s.ok \/ ~n.ok \/ ~v.ok
          \/ limit - at < n.value + v.value
       THEN [ok |-> FALSE]
       ELSE [ok |-> TRUE, shared |-> s.value, non_shared |-> n.value,
             value_length |-> v.value, at |-> at]

NoEntry(status) == [status |-> status, valid |-> FALSE]

(***************************************************************************)
(* Iter::ParseNextKey loop of Seek: from the entry at p, whose key        *)
(* shares a prefix with key, decode entries until one is >= target.       *)
(***************************************************************************)
RECURSIVE ScanForward(_, _, _, _)
ScanForward(d, target, p, key) ==
    IF p >= RestartsOffset(d) THEN NoEntry("ok")
    ELSE LET e == DecodeEntry(d, p, RestartsOffset(d))
         IN IF ~e.ok \/ Len(key) < e.shared THEN NoEntry("corruption")
            ELSE LET k == SubSeq(key, 1, e.shared)
                          \o SubSeq(d, e.at + 1, e.at + e.non_shared)
                     v == SubSeq(d, e.at + e.non_shared + 1,
                                 e.at + e.non_shared + e.value_length)
                 IN IF BytewiseCompare(k, target) >= 0
                    THEN [status |-> "ok", valid |-> TRUE, key |-> k, value |-> v]
                    ELSE ScanForward(d, target, e.at + e.non_shared + e.value_length, k)

(***************************************************************************)
(* Iter::Seek's binary search: the last restart whose key is < target.  A *)
(* restart entry that does not decode, or shares a prefix, is corruption. *)
(***************************************************************************)
RECURSIVE RestartSearch(_, _, _, _)
RestartSearch(d, target, left, right) ==
    IF left >= right THEN [ok |-> TRUE, index |-> left]
    ELSE LET mid == (left + right + 1) \div 2
             e   == DecodeEntry(d, GetRestartPoint(d, mid), RestartsOffset(d))
         IN IF ~e.ok \/ e.shared # 0 THEN [ok |-> FALSE]
            ELSE IF BytewiseCompare(SubSeq(d, e.at + 1, e.at + e.non_shared), target) < 0
                 THEN RestartSearch(d, target, mid, right)
                 ELSE RestartSearch(d, target, left, mid - 1)

\* Block::NewIterator(...)->Seek(target).
BlockSeek(d, target) ==
    IF ~BlockWellSized(d) THEN NoEntry("corruption")
    ELSE IF NumRestarts(d) = 0 THEN NoEntry("ok")
    ELSE LET r == RestartSearch(d, target, 0, NumRestarts(d) - 1)
         IN IF ~r.ok THEN NoEntry("corruption")
            ELSE ScanForward(d, target, GetRestartPoint(d, r.index), <<>>)
===============================================================================
