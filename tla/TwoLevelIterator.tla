--------------------------- MODULE TwoLevelIterator ---------------------------
(***************************************************************************)
(* The two-level iterator of table/two_level_iterator.cc, as Table::      *)
(* NewIterator builds it: index_iter_ walks the index block, whose i-th   *)
(* entry holds the handle of data block i under a separator key, and      *)
(* block_function_ (Table::BlockReader) turns a handle into data_iter_.   *)
(*                                                                         *)
(* An iterator is used by one thread, so each method is one action.  The  *)
(* inner iterators (Block::Iter, whose .cc is not in the repository) are  *)
(* positions over a block's keys, as spec 4.6 describes them.  A handle   *)
(* is the data block's number.  BlockReader's ReadBlock may fail on any   *)
(* call (an I/O error or a checksum mismatch), in which case it returns   *)
(* NewErrorIterator(s): never Valid, with status s.  A method call is     *)
(* given the set F of blocks whose reads fail during it; no block is read *)
(* twice in one call.                                                      *)
(***************************************************************************)
EXTENDS Integers, Sequences, SequencesExt

CONSTANTS
    Blocks,         \* the data blocks' keys, in order, each block sorted
    Targets,        \* keys a client may Seek to
    ReadFailures,   \* whether BlockReader's ReadBlock may fail
    NULL

N == Len(Blocks)

VARIABLES
    index,          \* the index block: separator key of each data block
    ii,             \* index_iter_: its entry, or 0 / N+1 when not Valid
    data_iter,      \* data_iter_: NULL or [h, pos, ok]
    data_block_handle_,
    status_,
    call            \* history: the method called last, and its target

vars == <<index, ii, data_iter, data_block_handle_, status_, call>>

(***************************************************************************)
(* The index Table::Open reads: the builder keys block i by a separator  *)
(* s with last(i) <= s < first(i+1) (FindShortestSeparator), and the last *)
(* block by FindShortSuccessor(last) >= its last key.                     *)
(***************************************************************************)
Separators ==
    {s \in [1..N -> Targets] :
        \A i \in 1..N :
           /\ s[i] >= Last(Blocks[i])
           /\ i < N => s[i] < Blocks[i + 1][1]}

----------------------------------------------------------------------------
(* Block::Iter over data block h, and the error iterator.                 *)
IValid(i) == i \in 1..N
DValid(d) == d.ok /\ d.pos \in 1..Len(Blocks[d.h])
DStatus(d) == IF d.ok THEN "ok" ELSE "error"

\* The first entry of seq >= t, or one past the end.
SeekIn(seq, t) ==
    IF \E q \in 1..Len(seq) : seq[q] >= t
    THEN CHOOSE q \in 1..Len(seq) : seq[q] >= t /\ \A r \in 1..q - 1 : seq[r] < t
    ELSE Len(seq) + 1

DSeek(d, t) == IF d.ok THEN [d EXCEPT !.pos = SeekIn(Blocks[d.h], t)] ELSE d
DSeekToFirst(d) == IF d.ok THEN [d EXCEPT !.pos = 1] ELSE d
DSeekToLast(d) == IF d.ok THEN [d EXCEPT !.pos = Len(Blocks[d.h])] ELSE d

\* The positioning call how ("seek" to t, "first" or "last") on d.
DPosition(d, how, t) ==
    CASE how = "seek"  -> DSeek(d, t)
      [] how = "first" -> DSeekToFirst(d)
      [] how = "last"  -> DSeekToLast(d)

\* Table::BlockReader(arg, options, handle).
BlockFunction(h, F) == [h |-> h, pos |-> 0, ok |-> h \notin F]

----------------------------------------------------------------------------
(* The private methods, on a record s of the iterator's fields.           *)

\* SaveError: keep the first error.
SaveError(st, x) == IF st = "ok" /\ x # "ok" THEN x ELSE st

\* Mutant: every status overwrites status_.
SetDataIteratorOverwrites(s, it) ==
    [s EXCEPT !.st = IF s.d # NULL THEN DStatus(s.d) ELSE s.st, !.d = it]

SetDataIterator(s, it) ==
    [s EXCEPT !.st = IF s.d # NULL THEN SaveError(s.st, DStatus(s.d)) ELSE s.st,
              !.d = it]

\* Mutant: the current data iterator is kept whatever handle the index has.
InitDataBlockAnyHandle(s, F) ==
    IF ~IValid(s.ii) THEN SetDataIterator(s, NULL)
    ELSE IF s.d # NULL THEN s
    ELSE [SetDataIterator(s, BlockFunction(s.ii, F)) EXCEPT !.dbh = s.ii]

\* InitDataBlock: a new data iterator unless the index still points at the
\* block data_iter_ was made for (the handle compare).
InitDataBlock(s, F) ==
    IF ~IValid(s.ii) THEN SetDataIterator(s, NULL)
    ELSE IF s.d # NULL /\ s.ii = s.dbh THEN s
    ELSE [SetDataIterator(s, BlockFunction(s.ii, F)) EXCEPT !.dbh = s.ii]

\* Position the data iterator, if any, with how.
OnData(s, how, t) == IF s.d # NULL THEN [s EXCEPT !.d = DPosition(s.d, how, t)] ELSE s

\* Step the index by delta, InitDataBlock, position the new data iterator.
StepBlock(s, F, delta, how) ==
    OnData(InitDataBlock([s EXCEPT !.ii = s.ii + delta], F), how, 0)

\* SkipEmptyDataBlocksForward.
RECURSIVE SkipEmptyDataBlocksForward(_, _)
SkipEmptyDataBlocksForward(s, F) ==
    IF s.d # NULL /\ DValid(s.d) THEN s
    ELSE IF ~IValid(s.ii) THEN SetDataIterator(s, NULL)
    ELSE SkipEmptyDataBlocksForward(StepBlock(s, F, 1, "first"), F)

\* SkipEmptyDataBlocksBackward.
RECURSIVE SkipEmptyDataBlocksBackward(_, _)
SkipEmptyDataBlocksBackward(s, F) ==
    IF s.d # NULL /\ DValid(s.d) THEN s
    ELSE IF ~IValid(s.ii) THEN SetDataIterator(s, NULL)
    ELSE SkipEmptyDataBlocksBackward(StepBlock(s, F, -1, "last"), F)

----------------------------------------------------------------------------
Fields == [ii |-> ii, d |-> data_iter, dbh |-> data_block_handle_, st |-> status_]

\* The iterator's fields become those of s, after a call of op.
Become(s, op, t) ==
    /\ call' = [op |-> op, target |-> t]
    /\ ii' = s.ii
    /\ data_iter' = s.d
    /\ data_block_handle_' = s.dbh
    /\ status_' = s.st
    /\ UNCHANGED index

\* The blocks whose reads may fail during one method call.
Failing == IF ReadFailures THEN SUBSET (1..N) ELSE {{}}

Valid == data_iter # NULL /\ DValid(data_iter)

\* status(): the index's (never an error here), the data iterator's, status_.
Status == IF data_iter # NULL /\ ~data_iter.ok THEN "error" ELSE status_

\* The constructor: index_iter_ unpositioned, data_iter_ NULL.
Init ==
    /\ index \in Separators
    /\ ii = 0
    /\ data_iter = NULL
    /\ data_block_handle_ = 0
    /\ status_ = "ok"
    /\ call = [op |-> "none", target |-> 0]

Seek(t, F) ==
    LET s1 == InitDataBlock([Fields EXCEPT !.ii = SeekIn(index, t)], F)
    IN Become(SkipEmptyDataBlocksForward(OnData(s1, "seek", t), F),
           "Seek", t)

SeekToFirst(F) ==
    LET s1 == InitDataBlock([Fields EXCEPT !.ii = 1], F)
    IN Become(SkipEmptyDataBlocksForward(OnData(s1, "first", 0), F),
           "SeekToFirst", 0)

SeekToLast(F) ==
    LET s1 == InitDataBlock([Fields EXCEPT !.ii = N], F)
    IN Become(SkipEmptyDataBlocksBackward(OnData(s1, "last", 0), F),
           "SeekToLast", 0)

Next(F) ==
    /\ Valid
    /\ Become(SkipEmptyDataBlocksForward(
                [Fields EXCEPT !.d.pos = @ + 1], F), "Next", 0)

Prev(F) ==
    /\ Valid
    /\ Become(SkipEmptyDataBlocksBackward(
                [Fields EXCEPT !.d.pos = @ - 1], F), "Prev", 0)

NextStep ==
    \E F \in Failing :
        \/ \E t \in Targets : Seek(t, F)
        \/ SeekToFirst(F) \/ SeekToLast(F) \/ Next(F) \/ Prev(F)

Spec == Init /\ [][NextStep]_vars

----------------------------------------------------------------------------
TypeOK ==
    /\ index \in Separators
    /\ ii \in 0..N + 1
    /\ data_iter \in {NULL} \cup
         [h : 1..N, pos : 0..Max({Len(b) : b \in ToSet(Blocks)}) + 1, ok : BOOLEAN]
    /\ data_block_handle_ \in 0..N
    /\ status_ \in {"ok", "error"}

(***************************************************************************)
(* Between calls, data_iter_ is the iterator of the block index_iter_     *)
(* points at (InitDataBlock's handle cache never serves another block's  *)
(* iterator), and it is Valid whenever it exists: the skip loops leave    *)
(* either a Valid data iterator or none.                                  *)
(***************************************************************************)
DataIterMatchesIndex ==
    data_iter # NULL =>
        /\ data_iter.h = ii
        /\ data_iter.h = data_block_handle_
        /\ DValid(data_iter)

(***************************************************************************)
(* The iterator over the table implements IteratorSpec over the           *)
(* concatenation of its data blocks: Seek, SeekToFirst/Last, Next and     *)
(* Prev land where a sorted iterator would, and pass over entries only    *)
(* when a block could not be read, with status() reporting it from then   *)
(* on (SaveError keeps the first error).                                  *)
(***************************************************************************)
Offset(h) == Len(FlattenSeq(SubSeq(Blocks, 1, h - 1)))

Abs == INSTANCE IteratorSpec WITH
    Keys <- FlattenSeq(Blocks),
    pos  <- IF Valid THEN Offset(data_iter.h) + data_iter.pos ELSE 0,
    err  <- Status # "ok",
    call <- call

AbsSpec == Abs!Spec
===============================================================================
