------------------------------ MODULE MemTable ------------------------------
(***************************************************************************)
(* MemTable (db/memtable.cc, db/dbformat.cc) over the concurrent SkipList:*)
(* MemTable::Add inserts an entry while MemTable::Get runs on other       *)
(* threads without a lock.                                                *)
(*                                                                         *)
(* An entry is the skiplist key Add encodes: the user key, the 8-byte tag *)
(* (sequence << 8) | type, and the value.  The skiplist orders entries    *)
(* with MemTable::KeyComparator, i.e. InternalKeyComparator::Compare on   *)
(* the internal key (user key, then tag descending); user keys are        *)
(* integers ordered as BytewiseComparator orders them.  The DB assigns    *)
(* sequence numbers in order (last_sequence + 1) and publishes a          *)
(* sequence to readers only after its Add has returned, so a Get asks at  *)
(* a snapshot no later than the newest completed Add.                     *)
(*                                                                         *)
(* The MemTable's Arena is composed in: the constructor's SkipList takes  *)
(* the head node (kMaxHeight levels) from it, and each Add takes the     *)
(* encoded entry with Allocate and the node with AllocateAligned.        *)
(***************************************************************************)
EXTENDS Integers, Sequences, SequencesExt, FiniteSets, Coding

CONSTANTS
    UserKeys,       \* user keys, integers ordered bytewise
    Values,         \* values Put may store
    MaxSequence,    \* bound on sequence numbers (Adds)
    MaxHeight, Readers, HeadNode, Nil, Garbage, NoAnswer,
    KeyBytes,       \* [UserKeys -> Nat]: key.size()
    ValueBytes,     \* [Values -> Nat]: value.size()
    ArenaBlockSize, \* the Arena's kBlockSize
    PointerSize     \* sizeof(void*)

\* ValueType of dbformat.h.
kTypeDeletion     == 0
kTypeValue        == 1
kValueTypeForSeek == kTypeValue

\* PackSequenceAndType: the 8-byte tag.
PackSequenceAndType(s, t) == s * 256 + t
TagSequence(tag) == tag \div 256
TagType(tag)     == tag % 256

\* The skiplist entries Add may build: a deletion stores an empty value.
Entries ==
    {e \in [ukey : UserKeys,
            tag  : {PackSequenceAndType(s, t) : s \in 1..MaxSequence,
                                                t \in {kTypeDeletion, kTypeValue}},
            value : Values \cup {""}] :
       (TagType(e.tag) = kTypeDeletion) <=> (e.value = "")}

\* A LookupKey(user_key, s): the internal key (user_key, s, kValueTypeForSeek).
LookupKey(k, s) == [ukey |-> k, tag |-> PackSequenceAndType(s, kValueTypeForSeek), value |-> ""]

\* InternalKeyComparator::Compare with the user comparator ordering user keys.
InternalCompareSeqAscending(a, b) ==
    IF a.ukey # b.ukey THEN (IF a.ukey < b.ukey THEN -1 ELSE 1)
    ELSE IF a.tag < b.tag THEN -1 ELSE IF a.tag > b.tag THEN 1 ELSE 0
InternalCompare(a, b) ==
    IF a.ukey # b.ukey THEN (IF a.ukey < b.ukey THEN -1 ELSE 1)
    ELSE IF a.tag > b.tag THEN -1 ELSE IF a.tag < b.tag THEN 1 ELSE 0

VARIABLES
    next, max_height, wpc, wkey, wheight, wprev, wlevel, inserted,
    rpc, rop, rkey, rx, rlevel, rres, rseen, rdone, rload,
    sequence,       \* the last sequence number handed to Add
    gkey,           \* user key of each reader's Get
    gsnap,          \* snapshot sequence of each reader's Get
    arena,          \* the Arena's state (module Arena)
    allocs          \* every block of memory the arena handed out, in order

SL == INSTANCE SkipList WITH Keys <- Entries, Compare <- InternalCompare
AR == INSTANCE Arena WITH kBlockSize <- ArenaBlockSize

\* SkipList::NewNode(key, height): sizeof(Node) (the key and next_[1]) and
\* height - 1 more AtomicPointers.
NodeBytes(h) == 2 * PointerSize + PointerSize * (h - 1)

\* Add's encoded_len: varint internal key size, user key, 8-byte tag,
\* varint value size, value.
EncodedLength(k, v) ==
    LET internal_key_size == KeyBytes[k] + 8
        val_size == IF v = "" THEN 0 ELSE ValueBytes[v]
    IN VarintLength(internal_key_size) + internal_key_size
       + VarintLength(val_size) + val_size

Allocation(p, len, aligned) ==
    [blk |-> p.blk, off |-> p.off, len |-> len, aligned |-> aligned]

\* Add's two allocations, the entry's then the node's.
AddAllocates(k, v, h) ==
    LET e == AR!Allocate(arena, EncodedLength(k, v))
        x == AR!AllocateAligned(e.st, NodeBytes(h))
    IN /\ arena' = x.st
       /\ allocs' = allocs \o <<Allocation(e.res, EncodedLength(k, v), FALSE),
                                Allocation(x.res, NodeBytes(h), TRUE)>>

slVars  == <<next, max_height, wpc, wkey, wheight, wprev, wlevel, inserted,
             rpc, rop, rkey, rx, rlevel, rres, rseen, rdone, rload>>
memVars == <<sequence, gkey, gsnap, arena, allocs>>
vars    == <<slVars, memVars>>

\* The newest sequence whose Add has returned.
Completed == LET S == {TagSequence(e.tag) : e \in inserted}
             IN IF S = {} THEN 0 ELSE CHOOSE s \in S : \A t \in S : t <= s

Init ==
    /\ SL!Init
    /\ sequence = 0
    /\ gkey = [r \in Readers |-> CHOOSE k \in UserKeys : TRUE]
    /\ gsnap = [r \in Readers |-> 0]
    /\ LET hd == AR!AllocateAligned(AR!ArenaInit, NodeBytes(MaxHeight))
       IN /\ arena = hd.st
          /\ allocs = <<Allocation(hd.res, NodeBytes(MaxHeight), TRUE)>>

AddReusesSequence(k, t, v, h) ==
    /\ sequence < MaxSequence
    /\ sequence' = sequence + 1
    /\ SL!InsertBegin([ukey |-> k, tag |-> PackSequenceAndType(sequence, t),
                       value |-> v], h)
    /\ AddAllocates(k, v, h)
    /\ UNCHANGED <<gkey, gsnap>>

\* MemTable::Add(s, type, key, value): encode the entry, table_.Insert(buf)
\* (its first step; the rest are the SkipList writer's steps).
Add(k, t, v, h) ==
    /\ sequence < MaxSequence
    /\ sequence' = sequence + 1
    /\ SL!InsertBegin([ukey |-> k, tag |-> PackSequenceAndType(sequence + 1, t),
                       value |-> v], h)
    /\ AddAllocates(k, v, h)
    /\ UNCHANGED <<gkey, gsnap>>

InsertStep ==
    /\ SL!RaiseMaxHeight \/ SL!SetOwnNext \/ SL!Publish
    /\ UNCHANGED memVars

\* MemTable::Get(LookupKey(k, s)): iter.Seek(memkey) ...
GetBegin(r, k, s) ==
    /\ s \in 0..Completed
    /\ SL!SeekBegin(r, LookupKey(k, s))
    /\ gkey' = [gkey EXCEPT ![r] = k]
    /\ gsnap' = [gsnap EXCEPT ![r] = s]
    /\ UNCHANGED <<sequence, arena, allocs>>

GetStep(r) == SL!SeekStep(r) /\ UNCHANGED memVars

\* ... then the checks on the entry found: the value, NotFound for a
\* deletion, or false (not in this table) when the user key differs.
GetResult(n, k) ==
    IF n # Nil /\ n.ukey = k
    THEN CASE TagType(n.tag) = kTypeValue    -> n.value
           [] TagType(n.tag) = kTypeDeletion -> "deleted"
    ELSE "absent"

Next ==
    \/ \E k \in UserKeys, h \in 1..MaxHeight :
          \/ \E v \in Values : Add(k, kTypeValue, v, h)
          \/ Add(k, kTypeDeletion, "", h)
    \/ InsertStep
    \/ \E r \in Readers :
          \/ \E k \in UserKeys, s \in 0..MaxSequence : GetBegin(r, k, s)
          \/ GetStep(r)

Spec == Init /\ [][Next]_vars /\ \A r \in Readers : WF_vars(GetStep(r))

-----------------------------------------------------------------------------
TypeOK ==
    /\ SL!TypeOK
    /\ sequence \in 0..MaxSequence
    /\ gkey \in [Readers -> UserKeys]
    /\ gsnap \in [Readers -> 0..MaxSequence]

(***************************************************************************)
(* Refinement.  The history is the entries linked at level 0 of the       *)
(* skiplist (an Add takes effect at its level-0 SetNext), in sequence     *)
(* order; a reader's answer is its Get's result once Seek has returned.   *)
(***************************************************************************)
RECURSIVE Level0From(_)
Level0From(n) == IF next[n][0] \in Entries THEN {next[n][0]} \cup Level0From(next[n][0])
                 ELSE {}

AbsHistory ==
    LET S == SetToSortSeq(Level0From(HeadNode), LAMBDA a, b : a.tag < b.tag)
    IN [i \in 1..Len(S) |->
          [key |-> S[i].ukey,
           type |-> IF TagType(S[i].tag) = kTypeValue THEN "value" ELSE "deletion",
           value |-> S[i].value]]

AbsAnswer ==
    [r \in Readers |->
       IF rpc[r] = "idle" /\ rop[r] = "seek"
       THEN [key |-> gkey[r], snap |-> gsnap[r], result |-> GetResult(rres[r], gkey[r])]
       ELSE NoAnswer]

Abs == INSTANCE KVStore WITH history <- AbsHistory, answer <- AbsAnswer

(***************************************************************************)
(* MemTable::Add and MemTable::Get implement the versioned map KVStore:   *)
(* every Add is one write at its level-0 link, and every Get, although it *)
(* runs concurrently with later Adds, answers as the newest write of its  *)
(* key at or below its snapshot (deletions included).                     *)
(***************************************************************************)
AbsSpec == Abs!Spec

(***************************************************************************)
(* The arena never hands out memory twice nor past a block's end: every  *)
(* allocation of the head node, of an entry (Allocate) and of a node     *)
(* (AllocateAligned) lies inside the block it points into, and no two    *)
(* overlap -- through the bump path, the fresh current block of a small  *)
(* fallback and the dedicated block of a large one, which must leave the *)
(* current block's alloc_ptr_ where it was.                               *)
(***************************************************************************)
AllocationsDisjoint ==
    /\ \A i \in 1..Len(allocs) :
          /\ allocs[i].blk \in 1..Len(arena.blocks)
          /\ allocs[i].off + allocs[i].len <= arena.blocks[allocs[i].blk]
    /\ \A i, j \in 1..Len(allocs) :
          i < j /\ allocs[i].blk = allocs[j].blk =>
             \/ allocs[i].off + allocs[i].len <= allocs[j].off
             \/ allocs[j].off + allocs[j].len <= allocs[i].off

(***************************************************************************)
(* AllocateAligned's assert: every skiplist node starts at a multiple of  *)
(* align, although the entries Allocate places between nodes have odd    *)
(* lengths and leave alloc_ptr_ misaligned.  The atomic next_ pointers of *)
(* a node rely on it.                                                     *)
(***************************************************************************)
NodesAligned ==
    \A i \in 1..Len(allocs) : allocs[i].aligned => allocs[i].off % AR!align = 0
=============================================================================
