----------------------------- MODULE BlockBuilder -----------------------------
(***************************************************************************)
(* BlockBuilder (table/block_builder.cc) as operators on a record with    *)
(* the builder's fields: buffer_ (bytes), restarts_ (byte offsets into    *)
(* buffer_), counter_, finished_ and last_key_.  The restart interval is  *)
(* a parameter because the table builder runs its index block with an    *)
(* interval of 1 and its other blocks with options.block_restart_interval.*)
(***************************************************************************)
EXTENDS Integers, Sequences, Coding, Bytewise

\* BlockBuilder::BlockBuilder and BlockBuilder::Reset.
BlockBuilderNew ==
    [buffer |-> <<>>, restarts |-> <<0>>, counter |-> 0,
     finished |-> FALSE, last_key |-> <<>>]

\* BlockBuilder::empty.
BlockEmpty(b) == b.buffer = <<>>

\* BlockBuilder::CurrentSizeEstimate: the buffer, the restart array and
\* its length word.
CurrentSizeEstimate(b) == Len(b.buffer) + Len(b.restarts) * 4 + 4

\* BlockBuilder::Finish: append the restart array and its length.
BlockFinish(b) ==
    [b EXCEPT !.buffer = @ \o EncodeFixed32Array(b.restarts)
                          \o EncodeFixed32(Len(b.restarts)),
              !.finished = TRUE]

(***************************************************************************)
(* BlockBuilder::Add(key, value): share a prefix with the last key while  *)
(* fewer than interval entries follow the last restart; otherwise record  *)
(* a restart at the current buffer size and share nothing.  The entry is *)
(* varint32 shared, varint32 non_shared, varint32 value size, the key's   *)
(* unshared suffix and the value.                                         *)
(***************************************************************************)
BlockAddAtRestartShares(b, key, value, interval) ==
    LET restart    == b.counter >= interval
        shared     == SharedPrefixLength(b.last_key, key)
        non_shared == Len(key) - shared
    IN [b EXCEPT
          !.restarts = IF restart THEN Append(@, Len(b.buffer)) ELSE @,
          !.buffer = @ \o EncodeVarint(shared) \o EncodeVarint(non_shared)
                       \o EncodeVarint(Len(value))
                       \o SubSeq(key, shared + 1, Len(key)) \o value,
          !.last_key = key,
          !.counter = (IF restart THEN 0 ELSE @) + 1]

BlockAddNoCounterReset(b, key, value, interval) ==
    LET restart    == b.counter >= interval
        shared     == IF restart THEN 0 ELSE SharedPrefixLength(b.last_key, key)
        non_shared == Len(key) - shared
    IN [b EXCEPT
          !.restarts = IF restart THEN Append(@, Len(b.buffer)) ELSE @,
          !.buffer = @ \o EncodeVarint(shared) \o EncodeVarint(non_shared)
                       \o EncodeVarint(Len(value))
                       \o SubSeq(key, shared + 1, Len(key)) \o value,
          !.last_key = key,
          !.counter = @ + 1]

BlockAdd(b, key, value, interval) ==
    LET restart    == b.counter >= interval
        shared     == IF restart THEN 0 ELSE SharedPrefixLength(b.last_key, key)
        non_shared == Len(key) - shared
    IN [b EXCEPT
          !.restarts = IF restart THEN Append(@, Len(b.buffer)) ELSE @,
          !.buffer = @ \o EncodeVarint(shared) \o EncodeVarint(non_shared)
                       \o EncodeVarint(Len(value))
                       \o SubSeq(key, shared + 1, Len(key)) \o value,
          !.last_key = key,
          !.counter = (IF restart THEN 0 ELSE @) + 1]
===============================================================================
