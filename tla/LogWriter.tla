------------------------------ MODULE LogWriter ------------------------------
(***************************************************************************)
(* log::Writer (db/log_writer.cc).  AddRecord is called under the DB's    *)
(* write mutex, so one call is one action: it fragments the payload into  *)
(* physical records, zero-filling a block trailer too short for a header, *)
(* and appends them to the file, stopping at the first Append or Flush    *)
(* that fails.                                                            *)
(*                                                                         *)
(* `written` is a history variable: for each AddRecord, its payload, the  *)
(* file offset of its first header, the offset just past its last cell,  *)
(* whether it returned OK, whether a file call failed, and (kept by Log)  *)
(* whether all its cells survived the crashes since.                      *)
(* The payload of the r-th record is r repeated, so that the cells of     *)
(* different records differ.                                              *)
(***************************************************************************)
EXTENDS LogFormat

VARIABLES
    file,           \* the cells of the log file (dest_)
    block_offset,   \* Writer::block_offset_
    written         \* history: the records AddRecord was given

writerVars == <<file, block_offset, written>>

(***************************************************************************)
(* The calls AddRecord makes on dest_, in order: for each iteration of    *)
(* its do-while loop, the zero-fill Append of a trailer too short for a   *)
(* header (whose status the code ignores), then EmitPhysicalRecord's      *)
(* Append of the header, Append of the fragment and Flush.  Each call     *)
(* carries the cells it writes and block_offset_ as it is once the        *)
(* iteration that makes it is over (line 143 advances it whatever s is).  *)
(***************************************************************************)
FileOp(kind, cells, bo) == [kind |-> kind, cells |-> cells, bo |-> bo]

\* A writer that moves to the next block without filling the trailer.
RECURSIVE FileOpsNoTrailer(_, _, _)
FileOpsNoTrailer(bo, p, begin) ==
    LET leftover == BlockSize - bo
        bo1      == IF leftover < HeaderSize THEN 0 ELSE bo
        n        == Min({Len(p), BlockSize - bo1 - HeaderSize})
        end      == Len(p) = n
        t        == IF begin /\ end THEN kFullType
                    ELSE IF begin THEN kFirstType
                    ELSE IF end THEN kLastType
                    ELSE kMiddleType
        frag     == SubSeq(p, 1, n)
        bo2      == bo1 + HeaderSize + n
    IN << FileOp("append", <<Mask(Crc(t, frag)), n, t>>, bo2),
          FileOp("append", frag, bo2), FileOp("flush", <<>>, bo2) >>
       \o (IF end THEN <<>>
           ELSE FileOpsNoTrailer(bo2, SubSeq(p, n + 1, Len(p)), FALSE))

RECURSIVE FileOps(_, _, _)
FileOps(bo, p, begin) ==
    LET leftover == BlockSize - bo
        fill     == IF leftover < HeaderSize /\ leftover > 0
                    THEN <<FileOp("fill", [i \in 1..leftover |-> 0], 0)>>
                    ELSE <<>>
        bo1      == IF leftover < HeaderSize THEN 0 ELSE bo
        n        == Min({Len(p), BlockSize - bo1 - HeaderSize})
        end      == Len(p) = n
        t        == IF begin /\ end THEN kFullType
                    ELSE IF begin THEN kFirstType
                    ELSE IF end THEN kLastType
                    ELSE kMiddleType
        frag     == SubSeq(p, 1, n)
        bo2      == bo1 + HeaderSize + n
    IN fill \o << FileOp("append", <<Mask(Crc(t, frag)), n, t>>, bo2),
                  FileOp("append", frag, bo2), FileOp("flush", <<>>, bo2) >>
       \o (IF end THEN <<>>
           ELSE FileOps(bo2, SubSeq(p, n + 1, Len(p)), FALSE))

(***************************************************************************)
(* What a call of AddRecord leaves behind when its f-th file call fails   *)
(* (f = 0: none does) after writing the first w cells it was given.  A    *)
(* failed zero-fill is ignored and the loop goes on; any other failure    *)
(* ends the loop with block_offset_ already advanced past the fragment.   *)
(* `pad` is how many cells precede the first header.                      *)
(***************************************************************************)
Outcome(ops, f, w) ==
    LET stop  == IF f # 0 /\ ops[f].kind # "fill" THEN f ELSE Len(ops)
        wrote == [i \in 1..stop |->
                    IF i = f THEN SubSeq(ops[i].cells, 1, w) ELSE ops[i].cells]
    IN [cells  |-> FlattenSeq(wrote),
        bo     |-> ops[stop].bo,
        ok     |-> stop # f,
        pad    |-> IF ops[1].kind = "fill" THEN Len(wrote[1]) ELSE 0]

WriterInit ==
    /\ file = <<>>
    /\ block_offset = 0
    /\ written = <<>>

\* A reopened writer that assumes it starts at a block boundary.
WriterReopenAtBlockStart(dest_length) ==
    block_offset' = 0

\* Writer(dest, dest_length): a writer appending to a file that has cells.
WriterReopen(dest_length) ==
    block_offset' = dest_length % BlockSize

(***************************************************************************)
(* Writer::AddRecord of a payload of n cells; when mayFail, one of the    *)
(* calls it makes on dest_ may fail, having written a prefix of its cells *)
(* if torn, and nothing otherwise.  The history records whether the call  *)
(* returned OK and whether one of its file calls failed.                  *)
(***************************************************************************)
AddRecord(n, mayFail, torn) ==
    LET r       == Len(written) + 1
        payload == [i \in 1..n |-> r]
    IN
    \E ops \in {FileOps(block_offset, payload, TRUE)} :
    \E f \in IF mayFail THEN 0..Len(ops) ELSE {0} :
    \E w \in IF f = 0 \/ ~torn THEN {0} ELSE 0..Len(ops[f].cells) :
    \E out \in {Outcome(ops, f, w)} :
        /\ file' = file \o out.cells
        /\ block_offset' = out.bo
        /\ written' = Append(written,
                        [payload |-> payload,
                         offset  |-> Len(file) + out.pad,
                         end     |-> Len(file) + Len(out.cells),
                         ok      |-> out.ok,
                         fault   |-> f # 0,
                         kept    |-> TRUE])
===============================================================================
