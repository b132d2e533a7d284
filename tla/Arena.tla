-------------------------------- MODULE Arena --------------------------------
(***************************************************************************)
(* util/arena.{h,cc}: the bump allocator of a MemTable.  The arena's      *)
(* state is a record -- alloc_ptr_, alloc_bytes_remaining_, blocks_ (the  *)
(* size of each block) and memory_usage_ -- and each call is an operator *)
(* from a state to [st |-> the new state, res |-> the pointer returned],  *)
(* so that a caller can chain several calls in one step.                  *)
(*                                                                         *)
(* A pointer is [blk |-> b, off |-> o]: o bytes into block b (blocks      *)
(* counted from 1); NULL, alloc_ptr_'s initial value, is block 0, offset *)
(* 0.  new char[] returns memory aligned for every fundamental type, so  *)
(* an address's low bits are its offset's.                                *)
(***************************************************************************)
EXTENDS Naturals, Sequences, Bitwise

CONSTANTS
    kBlockSize,     \* 4096 in the code
    PointerSize     \* sizeof(void*) = sizeof(char*)

\* AllocateAligned: align = max(sizeof(void*), 8), a power of two.
align == IF PointerSize > 8 THEN PointerSize ELSE 8

NullPtr == [blk |-> 0, off |-> 0]

\* Arena(): memory_usage_ 0, no block; the first allocation takes one.
ArenaInit == [ptr |-> NullPtr, remaining |-> 0, blocks |-> <<>>, memory_usage |-> 0]

\* AllocateNewBlock(block_bytes): new char[block_bytes], pushed on blocks_,
\* memory_usage_ grown by the block and the pointer that records it.
AllocateNewBlock(a, bytes) ==
    [a EXCEPT !.blocks = Append(@, bytes),
              !.memory_usage = @ + bytes + PointerSize]

\* Mutant: the large-object path also makes the new block current, as if
\* it were kBlockSize long.
AllocateFallbackLargeCurrent(a, bytes) ==
    LET b == Len(a.blocks) + 1
    IN IF bytes > kBlockSize \div 4
       THEN [st  |-> [AllocateNewBlock(a, bytes) EXCEPT
                        !.ptr = [blk |-> b, off |-> bytes],
                        !.remaining = kBlockSize - bytes],
             res |-> [blk |-> b, off |-> 0]]
       ELSE [st  |-> [AllocateNewBlock(a, kBlockSize) EXCEPT
                        !.ptr = [blk |-> b, off |-> bytes],
                        !.remaining = kBlockSize - bytes],
             res |-> [blk |-> b, off |-> 0]]

(***************************************************************************)
(* AllocateFallback(bytes): an object over a quarter block gets a block   *)
(* of its own and the current block stays current; otherwise the rest of *)
(* the current block is given up and a fresh kBlockSize block becomes    *)
(* current.                                                                *)
(***************************************************************************)
AllocateFallback(a, bytes) ==
    LET b == Len(a.blocks) + 1
    IN IF bytes > kBlockSize \div 4
       THEN [st  |-> AllocateNewBlock(a, bytes),
             res |-> [blk |-> b, off |-> 0]]
       ELSE [st  |-> [AllocateNewBlock(a, kBlockSize) EXCEPT
                        !.ptr = [blk |-> b, off |-> bytes],
                        !.remaining = kBlockSize - bytes],
             res |-> [blk |-> b, off |-> 0]]

\* Allocate(bytes), bytes > 0: bump alloc_ptr_ if the current block has room.
Allocate(a, bytes) ==
    IF bytes <= a.remaining
    THEN [st  |-> [a EXCEPT !.ptr.off = @ + bytes, !.remaining = @ - bytes],
          res |-> a.ptr]
    ELSE AllocateFallback(a, bytes)

\* Mutant: the slop is the misalignment itself rather than its complement.
AllocateAlignedSlopIsMod(a, bytes) ==
    LET mod    == a.ptr.off & (align - 1)
        needed == bytes + mod
    IN IF needed <= a.remaining
       THEN [st  |-> [a EXCEPT !.ptr.off = @ + needed, !.remaining = @ - needed],
             res |-> [a.ptr EXCEPT !.off = @ + mod]]
       ELSE AllocateFallback(a, bytes)

(***************************************************************************)
(* AllocateAligned(bytes): skip slop bytes to the next multiple of align  *)
(* if the rest fits in the current block; else AllocateFallback(bytes),   *)
(* whose result starts a block.                                           *)
(***************************************************************************)
AllocateAligned(a, bytes) ==
    LET current_mod == a.ptr.off & (align - 1)
        slop        == IF current_mod = 0 THEN 0 ELSE align - current_mod
        needed      == bytes + slop
    IN IF needed <= a.remaining
       THEN [st  |-> [a EXCEPT !.ptr.off = @ + needed, !.remaining = @ - needed],
             res |-> [a.ptr EXCEPT !.off = @ + slop]]
       ELSE AllocateFallback(a, bytes)

\* MemoryUsage(): memory_usage_.
MemoryUsage(a) == a.memory_usage
===============================================================================
