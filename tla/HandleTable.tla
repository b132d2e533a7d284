------------------------------ MODULE HandleTable ------------------------------
(***************************************************************************)
(* util/cache.cc's HandleTable: the chained hash table of one LRUCache    *)
(* shard, list_[0..length_-1] of singly linked chains through next_hash, *)
(* a handle's slot being hash & (length_ - 1).  Insert replaces a handle *)
(* of the same key in place or appends at the chain's end, and grows the *)
(* table when elems_ exceeds length_; Resize rehashes every chain,       *)
(* pushing each handle on the front of its new chain.  The shard's mutex *)
(* makes each call atomic.                                                 *)
(*                                                                         *)
(* A chain is a sequence of handles, head first.  hkey is a handle's key *)
(* (key(), and hash = HashOf[key] as LRUCache computes it); a handle      *)
(* that leaves the table is forgotten here, since only the cache uses it *)
(* after that.                                                             *)
(***************************************************************************)
EXTENDS Naturals, Sequences, Bitwise

Seqs == INSTANCE SequencesExt

CONSTANTS
    Keys,
    Handles,    \* LRUHandle allocations
    HashOf,     \* [Keys -> Nat]: the 32-bit hash of a key (small values here)
    NULL

ASSUME HashOf \in [Keys -> Nat]

VARIABLES
    length,     \* length_
    elems,      \* elems_
    list,       \* list_: [0..length_-1 -> Seq(Handles)]
    hkey,       \* [Handles -> Keys \cup {NULL}]: key of a handle in the table
    result      \* the value the last call returned

vars == <<length, elems, list, hkey, result>>

\* The slot of a hash: hash & (length_ - 1).
Slot(hash, len) == hash & (len - 1)

(***************************************************************************)
(* FindPointer(key, hash): walk the key's chain while the handle's hash   *)
(* or key differs.  The index of the match, or Len + 1 for the NULL      *)
(* next_hash at the chain's end.                                           *)
(***************************************************************************)
FindPointer(k) ==
    LET c == list[Slot(HashOf[k], length)]
        i == Seqs!SelectInSeq(c, LAMBDA h : HashOf[hkey[h]] = HashOf[k] /\ hkey[h] = k)
    IN IF i = 0 THEN Len(c) + 1 ELSE i

\* The handle *FindPointer points at: Lookup's answer.
Found(k) ==
    LET c == list[Slot(HashOf[k], length)]
    IN IF FindPointer(k) <= Len(c) THEN c[FindPointer(k)] ELSE NULL

\* Resize: new_length = 4, doubled while below elems_.
RECURSIVE NewLength(_, _)
NewLength(len, n) == IF len < n THEN NewLength(2 * len, n) ELSE len

\* Mutant: handles are rehashed with the old length_'s mask.
RehashOldSlot(lst, oldLen, newLen, hk) ==
    LET push(acc, h) ==
            [acc EXCEPT ![Slot(HashOf[hk[h]], oldLen)] = <<h>> \o @]
    IN Seqs!FoldLeft(push, [b \in 0..newLen - 1 |-> <<>>],
                Seqs!FlattenSeq([i \in 1..oldLen |-> lst[i - 1]]))

(***************************************************************************)
(* Resize's loop: old slots in order, each chain from its head, every     *)
(* handle pushed on the front of its slot in new_list.                    *)
(***************************************************************************)
Rehash(lst, oldLen, newLen, hk) ==
    LET push(acc, h) ==
            [acc EXCEPT ![Slot(HashOf[hk[h]], newLen)] = <<h>> \o @]
    IN Seqs!FoldLeft(push, [b \in 0..newLen - 1 |-> <<>>],
                Seqs!FlattenSeq([i \in 1..oldLen |-> lst[i - 1]]))

\* HandleTable(): length_ = 0, elems_ = 0, then Resize().
Init ==
    /\ length = NewLength(4, 0)
    /\ elems = 0
    /\ list = [b \in 0..NewLength(4, 0) - 1 |-> <<>>]
    /\ hkey = [h \in Handles |-> NULL]
    /\ result = NULL

Lookup(k) ==
    /\ result' = Found(k)
    /\ UNCHANGED <<length, elems, list, hkey>>

\* Mutant: h->next_hash is left NULL, cutting off the old handle's successors.
InsertDropsTail(h, k) ==
    LET s    == Slot(HashOf[k], length)
        i    == FindPointer(k)
        old  == Found(k)
        lst1 == [list EXCEPT ![s] = SubSeq(@, 1, i - 1) \o <<h>>]
        n    == IF old = NULL THEN elems + 1 ELSE elems
        grow == old = NULL /\ n > length
        hk   == [hkey EXCEPT ![h] = k]
    IN
    /\ hkey[h] = NULL
    /\ result' = old
    /\ elems' = n
    /\ hkey' = IF old = NULL THEN hk ELSE [hk EXCEPT ![old] = NULL]
    /\ length' = IF grow THEN NewLength(4, n) ELSE length
    /\ list' = IF grow THEN Rehash(lst1, length, NewLength(4, n), hk) ELSE lst1

(***************************************************************************)
(* Insert(h): *ptr = h with h->next_hash = old->next_hash, so h takes the *)
(* old handle's place (or the chain's end); a new key counts in elems_    *)
(* and may trigger Resize.  Returns old.                                  *)
(***************************************************************************)
Insert(h, k) ==
    LET s    == Slot(HashOf[k], length)
        i    == FindPointer(k)
        old  == Found(k)
        lst1 == [list EXCEPT ![s] = SubSeq(@, 1, i - 1) \o <<h>>
                                       \o SubSeq(@, i + 1, Len(@))]
        n    == IF old = NULL THEN elems + 1 ELSE elems
        grow == old = NULL /\ n > length
        hk   == [hkey EXCEPT ![h] = k]
    IN
    /\ hkey[h] = NULL
    /\ result' = old
    /\ elems' = n
    /\ hkey' = IF old = NULL THEN hk ELSE [hk EXCEPT ![old] = NULL]
    /\ length' = IF grow THEN NewLength(4, n) ELSE length
    /\ list' = IF grow THEN Rehash(lst1, length, NewLength(4, n), hk) ELSE lst1

\* Remove(key, hash): *ptr = result->next_hash, elems_ decremented.
Remove(k) ==
    LET s == Slot(HashOf[k], length)
        old == Found(k)
    IN
    /\ result' = old
    /\ IF old = NULL
       THEN UNCHANGED <<elems, list, hkey>>
       ELSE /\ list' = [list EXCEPT ![s] = Seqs!RemoveAt(@, FindPointer(k))]
            /\ elems' = elems - 1
            /\ hkey' = [hkey EXCEPT ![old] = NULL]
    /\ UNCHANGED length

Next ==
    \E k \in Keys :
        \/ Lookup(k)
        \/ Remove(k)
        \/ \E h \in Handles : Insert(h, k)

Spec == Init /\ [][Next]_vars

-------------------------------------------------------------------------------
Chained == Seqs!FlattenSeq([i \in 1..length |-> list[i - 1]])

TypeOK ==
    /\ length \in Nat \ {0}
    /\ elems \in Nat
    /\ list \in [0..length - 1 -> Seq(Handles)]
    /\ hkey \in [Handles -> Keys \cup {NULL}]
    /\ result \in Handles \cup {NULL}

(***************************************************************************)
(* The chains stay a hash table through every Insert, Remove and Resize: *)
(* each handle sits in the slot of its hash under the current length_,   *)
(* once; a key has at most one handle; elems_ counts the handles, as     *)
(* Resize's assert(elems_ == count) demands; and the average chain is no *)
(* longer than 1 (the comment at Insert's Resize).                        *)
(***************************************************************************)
ChainsHashed ==
    /\ \A b \in 0..length - 1 :
          \A i \in 1..Len(list[b]) : Slot(HashOf[hkey[list[b][i]]], length) = b
    /\ \A i, j \in 1..Len(Chained) :
          i # j => hkey[Chained[i]] # hkey[Chained[j]]
    /\ elems = Len(Chained)
    /\ elems <= length

\* The key -> handle map the chains represent.
AbsTable == [k \in Keys |->
                IF \E i \in 1..Len(Chained) : hkey[Chained[i]] = k
                THEN Chained[CHOOSE i \in 1..Len(Chained) : hkey[Chained[i]] = k]
                ELSE NULL]

KM == INSTANCE KeyMap WITH table <- AbsTable

(***************************************************************************)
(* HandleTable implements KeyMap: every Lookup, Insert and Remove returns *)
(* what a plain map would and changes it as a map would -- through       *)
(* chains shared by keys of one slot, hashes equal for different keys,   *)
(* and the Resize that rebuilds every chain in reverse order.             *)
(***************************************************************************)
AbsSpec == KM!Spec
===============================================================================
