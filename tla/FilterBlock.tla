----------------------------- MODULE FilterBlock -----------------------------
(***************************************************************************)
(* FilterBlockBuilder and FilterBlockReader (table/filter_block.cc).  The *)
(* builder's keys_/start_ pair is the sequence of keys added since the    *)
(* last filter; result_ and filter_offsets_ are as in the code.          *)
(*                                                                         *)
(* The filter policy is user-supplied (no implementation is in the        *)
(* repository); it is modelled as a one-byte bit set with one bit per     *)
(* key, which, like a Bloom filter, never misses a key it was built from  *)
(* and may match others.                                                  *)
(***************************************************************************)
EXTENDS Integers, Sequences, Coding

CONSTANT FilterBaseLg       \* kFilterBaseLg (11 in the code)

kFilterBase == 2^FilterBaseLg

\* FilterPolicy::CreateFilter and KeyMayMatch.
RECURSIVE KeyHash(_, _)
KeyHash(h, key) == IF key = <<>> THEN h ELSE KeyHash((h * 31 + Head(key)) % 8, Tail(key))
KeyBit(key) == KeyHash(0, key)
RECURSIVE BitsByte(_)
BitsByte(S) == IF S = {} THEN 0
               ELSE LET b == CHOOSE x \in S : TRUE IN 2^b + BitsByte(S \ {b})
CreateFilter(keys) == <<BitsByte({KeyBit(keys[i]) : i \in 1..Len(keys)})>>
PolicyKeyMayMatch(key, filter) ==
    Len(filter) > 0 /\ (filter[1] \div 2^KeyBit(key)) % 2 = 1

FilterBlockBuilderNew == [keys |-> <<>>, result |-> <<>>, filter_offsets |-> <<>>]

\* GenerateFilter: record the filter's offset, then append the policy's
\* filter of the pending keys (nothing when there are none).
GenerateFilter(f) ==
    IF f.keys = <<>>
    THEN [f EXCEPT !.filter_offsets = Append(@, Len(f.result))]
    ELSE [f EXCEPT !.filter_offsets = Append(@, Len(f.result)),
                   !.result = @ \o CreateFilter(f.keys),
                   !.keys = <<>>]

\* StartBlock(block_offset): generate filters until one exists for every
\* kFilterBase range before the block's.
RECURSIVE StartBlock(_, _)
StartBlock(f, block_offset) ==
    IF block_offset \div kFilterBase > Len(f.filter_offsets)
    THEN StartBlock(GenerateFilter(f), block_offset)
    ELSE f

FilterAddKey(f, key) == [f EXCEPT !.keys = Append(@, key)]

\* Finish: the last filter, the offset array, its position, kFilterBaseLg.
FilterFinish(f) ==
    LET g == IF f.keys # <<>> THEN GenerateFilter(f) ELSE f
    IN g.result \o EncodeFixed32Array(g.filter_offsets)
                \o EncodeFixed32(Len(g.result)) \o <<FilterBaseLg>>

(***************************************************************************)
(* FilterBlockReader(contents) followed by KeyMayMatch(block_offset, key):*)
(* the filter of index block_offset >> base_lg spans [start, limit) with   *)
(* both read from the offset array (limit of the last filter is the       *)
(* array's own position).  An empty filter matches nothing; a malformed    *)
(* block or an index past the array matches everything.                   *)
(***************************************************************************)
FilterKeyMayMatch(contents, block_offset, key) ==
    LET n         == Len(contents)
        base_lg   == contents[n]
        last_word == DecodeFixed32(contents, n - 4)
        num       == (n - 5 - last_word) \div 4
        index     == block_offset \div 2^base_lg
        start     == DecodeFixed32(contents, last_word + index * 4 + 1)
        limit     == DecodeFixed32(contents, last_word + index * 4 + 5)
    IN IF n < 5 \/ last_word > n - 5 \/ index >= num THEN TRUE
       ELSE IF start <= limit /\ limit <= last_word
            THEN PolicyKeyMayMatch(key, SubSeq(contents, start + 1, limit))
            ELSE start # limit
===============================================================================
