------------------------------ MODULE SkipList ------------------------------
(***************************************************************************)
(* SkipList<Key, Comparator> (db/skiplist.h): one writer inserting while  *)
(* readers search and scan without any lock.                              *)
(*                                                                         *)
(* Every load and store of a next_ pointer or of max_height_ is a step of *)
(* its own, in program order.  The writer's stores of the new node's own  *)
(* pointers (NoBarrier_SetNext) precede its Release_Store into the        *)
(* predecessor (SetNext), and readers load with Acquire_Load (Next), so a *)
(* reader that loads a pointer to the new node also sees the node's own   *)
(* pointers stored before it: the steps interleave sequentially.          *)
(* max_height_ is stored and loaded without barriers; a reader may see    *)
(* the new height before any upper-level pointer of head_ changes, which *)
(* the interleaving covers.                                               *)
(*                                                                         *)
(* Nodes are named by their keys, ordered by the Comparator parameter;  *)
(* a node is allocated by the Insert of its key.  Writers are serialised *)
(* externally (MemTable::Add runs under the DB mutex), so there is one    *)
(* writer.  RandomHeight draws from a seeded generator; the model lets   *)
(* the writer choose any height in 1..MaxHeight.                          *)
(***************************************************************************)
EXTENDS Integers, Sequences, SequencesExt, FiniteSets

CONSTANTS
    Keys,           \* keys that may be inserted
    Compare(_, _),  \* the Comparator: negative, zero or positive
    MaxHeight,      \* kMaxHeight (12 in the code)
    Readers,        \* threads reading the list concurrently with the writer
    HeadNode,       \* head_
    Nil,            \* NULL
    Garbage         \* a next_ slot not yet stored since NewNode

ASSUME MaxHeight \in Nat \ {0}
ASSUME {HeadNode, Nil, Garbage} \cap Keys = {}

Nodes   == {HeadNode} \cup Keys
Levels  == 0..(MaxHeight - 1)

VARIABLES
    next,         \* next[n][l]: node n's next_[l]
    max_height,   \* max_height_
    wpc,          \* writer: "idle", "raise", "own" or "pub"
    wkey,         \* key being inserted
    wheight,      \* its height
    wprev,        \* prev[] of Insert
    wlevel,       \* i of the linking loop
    inserted,     \* keys whose Insert has returned
    rpc,          \* reader: "idle", "seek", "scan", "last" or "prev"
    rop,          \* reader: the last operation begun
    rkey,         \* target of Seek / FindGreaterOrEqual, key of FindLessThan
    rx,           \* x of the search loops, node_ of the scanning Iterator
    rlevel,       \* level of the search loops
    rres,         \* node_ after the last Seek, SeekToLast or Prev
    rseen,        \* keys a scan has visited, in order
    rdone,        \* keys inserted when the reader's operation began
    rload         \* the last next_ value the reader loaded

writerVars == <<wpc, wkey, wheight, wprev, wlevel, inserted>>
readerVars == <<rpc, rop, rkey, rx, rlevel, rres, rseen, rdone, rload>>
vars == <<next, max_height, writerVars, readerVars>>

\* SkipList::SkipList: head_ of kMaxHeight levels, all NULL; max_height_ 1.
Init ==
    /\ next = [n \in Nodes |-> [l \in Levels |-> IF n = HeadNode THEN Nil ELSE Garbage]]
    /\ max_height = 1
    /\ wpc = "idle" /\ wkey = HeadNode /\ wheight = 1
    /\ wprev = [l \in Levels |-> HeadNode] /\ wlevel = 0
    /\ inserted = {}
    /\ rpc = [r \in Readers |-> "idle"]
    /\ rop = [r \in Readers |-> "none"]
    /\ rkey = [r \in Readers |-> HeadNode]
    /\ rx = [r \in Readers |-> HeadNode]
    /\ rlevel = [r \in Readers |-> 0]
    /\ rres = [r \in Readers |-> Nil]
    /\ rseen = [r \in Readers |-> <<>>]
    /\ rdone = [r \in Readers |-> {}]
    /\ rload = [r \in Readers |-> Nil]

\* KeyIsAfterNode: n is not NULL and n's key is before `key`.
KeyIsAfterNodeOrEqual(key, n) == n \notin {Nil, Garbage} /\ Compare(n, key) <= 0
KeyIsAfterNode(key, n) == n \notin {Nil, Garbage} /\ Compare(n, key) < 0

(***************************************************************************)
(* FindGreaterOrEqual(key, prev) run by the writer, which no one else    *)
(* modifies the list against: the first node at or after key, and the    *)
(* last node before key at each level from `level` down.                  *)
(***************************************************************************)
RECURSIVE FindGreaterOrEqual(_, _, _, _)
FindGreaterOrEqual(key, x, level, prev) ==
    LET nx == next[x][level]
    IN IF KeyIsAfterNode(key, nx)
       THEN FindGreaterOrEqual(key, nx, level, prev)
       ELSE LET p == [prev EXCEPT ![level] = x]
            IN IF level = 0 THEN [node |-> nx, prev |-> p]
               ELSE FindGreaterOrEqual(key, x, level - 1, p)

-----------------------------------------------------------------------------
(* The writer: SkipList::Insert.                                           *)

\* Insert(k) up to NewNode: find the predecessors, draw the height, point
\* the levels above max_height_ at head_.
InsertBegin(k, h) ==
    LET f == FindGreaterOrEqual(k, HeadNode, max_height - 1, [l \in Levels |-> HeadNode])
    IN
    /\ wpc = "idle"
    /\ k \notin inserted
    /\ wkey' = k
    /\ wheight' = h
    /\ wprev' = [l \in Levels |-> IF l < max_height THEN f.prev[l] ELSE HeadNode]
    /\ wlevel' = 0
    /\ wpc' = IF h > max_height THEN "raise" ELSE "own"
    /\ UNCHANGED <<next, max_height, inserted, readerVars>>

RaiseMaxHeightOffByOne ==
    /\ wpc = "raise"
    /\ max_height' = wheight + 1
    /\ wpc' = "own"
    /\ UNCHANGED <<next, wkey, wheight, wprev, wlevel, inserted, readerVars>>

\* max_height_.NoBarrier_Store(height).
RaiseMaxHeight ==
    /\ wpc = "raise"
    /\ max_height' = wheight
    /\ wpc' = "own"
    /\ UNCHANGED <<next, wkey, wheight, wprev, wlevel, inserted, readerVars>>

SetOwnNextLevel0Only ==
    /\ wpc = "own"
    /\ next' = IF wlevel = 0
               THEN [next EXCEPT ![wkey][wlevel] = next[wprev[wlevel]][wlevel]]
               ELSE next
    /\ wpc' = "pub"
    /\ UNCHANGED <<max_height, wkey, wheight, wprev, wlevel, inserted, readerVars>>

\* x->NoBarrier_SetNext(i, prev[i]->NoBarrier_Next(i)).
SetOwnNext ==
    /\ wpc = "own"
    /\ next' = [next EXCEPT ![wkey][wlevel] = next[wprev[wlevel]][wlevel]]
    /\ wpc' = "pub"
    /\ UNCHANGED <<max_height, wkey, wheight, wprev, wlevel, inserted, readerVars>>

PublishFromLevel1 ==
    /\ wpc = "pub"
    /\ next' = IF wlevel = 0 THEN next
               ELSE [next EXCEPT ![wprev[wlevel]][wlevel] = wkey]
    /\ IF wlevel + 1 < wheight
       THEN wlevel' = wlevel + 1 /\ wpc' = "own" /\ UNCHANGED inserted
       ELSE wpc' = "idle" /\ inserted' = inserted \cup {wkey} /\ UNCHANGED wlevel
    /\ UNCHANGED <<max_height, wkey, wheight, wprev, readerVars>>

\* prev[i]->SetNext(i, x), then the next iteration or the return.
Publish ==
    /\ wpc = "pub"
    /\ next' = [next EXCEPT ![wprev[wlevel]][wlevel] = wkey]
    /\ IF wlevel + 1 < wheight
       THEN wlevel' = wlevel + 1 /\ wpc' = "own" /\ UNCHANGED inserted
       ELSE wpc' = "idle" /\ inserted' = inserted \cup {wkey} /\ UNCHANGED wlevel
    /\ UNCHANGED <<max_height, wkey, wheight, wprev, readerVars>>

-----------------------------------------------------------------------------
(* Readers: Iterator::Seek (FindGreaterOrEqual with prev = NULL), and a   *)
(* scan by SeekToFirst then Next until !Valid().                          *)

\* Seek(k): x = head_, level = GetMaxHeight() - 1.
SeekBegin(r, k) ==
    /\ rpc[r] = "idle"
    /\ rpc' = [rpc EXCEPT ![r] = "seek"]
    /\ rop' = [rop EXCEPT ![r] = "seek"]
    /\ rkey' = [rkey EXCEPT ![r] = k]
    /\ rx' = [rx EXCEPT ![r] = HeadNode]
    /\ rlevel' = [rlevel EXCEPT ![r] = max_height - 1]
    /\ rdone' = [rdone EXCEPT ![r] = inserted]
    /\ UNCHANGED <<next, max_height, writerVars, rres, rseen, rload>>

SeekStepNoDescend(r) ==
    LET nx == next[rx[r]][rlevel[r]]
    IN
    /\ rpc[r] = "seek"
    /\ IF KeyIsAfterNode(rkey[r], nx)
       THEN rx' = [rx EXCEPT ![r] = nx] /\ UNCHANGED <<rpc, rres>>
       ELSE IF rlevel[r] = 0
       THEN /\ rres' = [rres EXCEPT ![r] = nx]
            /\ rpc' = [rpc EXCEPT ![r] = "idle"]
            /\ UNCHANGED rx
       ELSE UNCHANGED <<rx, rres, rpc>>
    /\ rload' = [rload EXCEPT ![r] = nx]
    /\ UNCHANGED <<next, max_height, writerVars, rop, rkey, rlevel, rseen, rdone>>

\* One iteration of FindGreaterOrEqual's loop: one Next(level) load.
SeekStep(r) ==
    LET nx == next[rx[r]][rlevel[r]]
    IN
    /\ rpc[r] = "seek"
    /\ IF KeyIsAfterNode(rkey[r], nx)
       THEN rx' = [rx EXCEPT ![r] = nx] /\ UNCHANGED <<rpc, rres, rlevel>>
       ELSE IF rlevel[r] = 0
       THEN /\ rres' = [rres EXCEPT ![r] = nx]
            /\ rpc' = [rpc EXCEPT ![r] = "idle"]
            /\ UNCHANGED <<rx, rlevel>>
       ELSE rlevel' = [rlevel EXCEPT ![r] = @ - 1] /\ UNCHANGED <<rx, rres, rpc>>
    /\ rload' = [rload EXCEPT ![r] = nx]
    /\ UNCHANGED <<next, max_height, writerVars, rop, rkey, rseen, rdone>>

\* A scan starts at head_ (SeekToFirst loads head_->Next(0) next).
ScanBegin(r) ==
    /\ rpc[r] = "idle"
    /\ rpc' = [rpc EXCEPT ![r] = "scan"]
    /\ rop' = [rop EXCEPT ![r] = "scan"]
    /\ rx' = [rx EXCEPT ![r] = HeadNode]
    /\ rseen' = [rseen EXCEPT ![r] = <<>>]
    /\ rdone' = [rdone EXCEPT ![r] = inserted]
    /\ UNCHANGED <<next, max_height, writerVars, rkey, rlevel, rres, rload>>

\* SeekToFirst / Next: node_ = node_->Next(0); the scan ends at NULL.
ScanStep(r) ==
    LET nx == next[rx[r]][0]
    IN
    /\ rpc[r] = "scan"
    /\ IF nx = Nil
       THEN rpc' = [rpc EXCEPT ![r] = "idle"] /\ UNCHANGED <<rx, rseen>>
       ELSE /\ rx' = [rx EXCEPT ![r] = nx]
            /\ rseen' = [rseen EXCEPT ![r] = Append(@, nx)]
            /\ UNCHANGED rpc
    /\ rload' = [rload EXCEPT ![r] = nx]
    /\ UNCHANGED <<next, max_height, writerVars, rop, rkey, rlevel, rres, rdone>>

\* SeekToLast: FindLast from x = head_, level = GetMaxHeight() - 1.
LastBegin(r) ==
    /\ rpc[r] = "idle"
    /\ rpc' = [rpc EXCEPT ![r] = "last"]
    /\ rop' = [rop EXCEPT ![r] = "last"]
    /\ rx' = [rx EXCEPT ![r] = HeadNode]
    /\ rlevel' = [rlevel EXCEPT ![r] = max_height - 1]
    /\ rdone' = [rdone EXCEPT ![r] = inserted]
    /\ UNCHANGED <<next, max_height, writerVars, rkey, rres, rseen, rload>>

\* Prev on a Valid iterator: FindLessThan(node_->key) from the top level.
PrevBegin(r) ==
    /\ rpc[r] = "idle"
    /\ rop[r] \in {"seek", "last", "prev"}
    /\ rres[r] \in Keys
    /\ rpc' = [rpc EXCEPT ![r] = "prev"]
    /\ rop' = [rop EXCEPT ![r] = "prev"]
    /\ rkey' = [rkey EXCEPT ![r] = rres[r]]
    /\ rx' = [rx EXCEPT ![r] = HeadNode]
    /\ rlevel' = [rlevel EXCEPT ![r] = max_height - 1]
    /\ rdone' = [rdone EXCEPT ![r] = inserted]
    /\ UNCHANGED <<next, max_height, writerVars, rres, rseen, rload>>

\* Mutant: Prev and SeekToLast keep head_ as node_.
NotHeadKept(x) == x

\* Iterator::Prev / SeekToLast: a search ending on head_ leaves node_ NULL.
NotHead(x) == IF x = HeadNode THEN Nil ELSE x

(***************************************************************************)
(* One iteration of FindLast ("last": move on while next is not NULL) or  *)
(* of FindLessThan ("prev": while next is before key): one Next(level)    *)
(* load; at level 0 the loop returns x itself.                            *)
(***************************************************************************)
BackStep(r) ==
    LET nx   == next[rx[r]][rlevel[r]]
        move == IF rpc[r] = "last" THEN nx # Nil ELSE KeyIsAfterNode(rkey[r], nx)
    IN
    /\ rpc[r] \in {"last", "prev"}
    /\ IF move
       THEN rx' = [rx EXCEPT ![r] = nx] /\ UNCHANGED <<rpc, rres, rlevel>>
       ELSE IF rlevel[r] = 0
       THEN /\ rres' = [rres EXCEPT ![r] = NotHead(rx[r])]
            /\ rpc' = [rpc EXCEPT ![r] = "idle"]
            /\ UNCHANGED <<rx, rlevel>>
       ELSE rlevel' = [rlevel EXCEPT ![r] = @ - 1] /\ UNCHANGED <<rx, rres, rpc>>
    /\ rload' = [rload EXCEPT ![r] = nx]
    /\ UNCHANGED <<next, max_height, writerVars, rop, rkey, rseen, rdone>>

-----------------------------------------------------------------------------
Next ==
    \/ \E k \in Keys, h \in 1..MaxHeight : InsertBegin(k, h)
    \/ RaiseMaxHeight \/ SetOwnNext \/ Publish
    \/ \E r \in Readers :
         \/ \E k \in Keys : SeekBegin(r, k)
         \/ SeekStep(r) \/ ScanBegin(r) \/ ScanStep(r)
         \/ LastBegin(r) \/ PrevBegin(r) \/ BackStep(r)

\* Readers never block: each keeps running its loop.
Spec == Init /\ [][Next]_vars
        /\ \A r \in Readers : WF_vars(SeekStep(r)) /\ WF_vars(ScanStep(r))
                                /\ WF_vars(BackStep(r))

-----------------------------------------------------------------------------
TypeOK ==
    /\ next \in [Nodes -> [Levels -> Nodes \cup {Nil, Garbage}]]
    /\ max_height \in 1..MaxHeight
    /\ wpc \in {"idle", "raise", "own", "pub"}
    /\ wprev \in [Levels -> Nodes]
    /\ inserted \subseteq Keys
    /\ rpc \in [Readers -> {"idle", "seek", "scan", "last", "prev"}]
    /\ rlevel \in [Readers -> Levels]

(***************************************************************************)
(* Publication order (Insert's NoBarrier_SetNext before SetNext): no      *)
(* reader ever loads a next_ slot of a node that has not been stored yet. *)
(***************************************************************************)
NoUnsetPointerRead == \A r \in Readers : rload[r] # Garbage

(***************************************************************************)
(* Iterator::Seek concurrent with Inserts: the node it returns is at or   *)
(* after the target and is not after any key whose Insert returned before *)
(* the Seek began (FindGreaterOrEqual never skips a published node).      *)
(***************************************************************************)
SeekFindsInserted ==
    \A r \in Readers :
       (rpc[r] = "idle" /\ rop[r] = "seek") =>
          /\ rres[r] = Nil \/ Compare(rres[r], rkey[r]) >= 0
          /\ \A k \in rdone[r] :
                Compare(k, rkey[r]) >= 0 => rres[r] # Nil /\ Compare(rres[r], k) <= 0

(***************************************************************************)
(* A scan concurrent with Inserts visits keys in strictly increasing      *)
(* order, and a finished scan has visited every key whose Insert returned *)
(* before the scan began.                                                 *)
(***************************************************************************)
ScanSeesSnapshot ==
    \A r \in Readers :
       /\ \A i \in 1..Len(rseen[r]) - 1 : Compare(rseen[r][i], rseen[r][i + 1]) < 0
       /\ (rpc[r] = "idle" /\ rop[r] = "scan") => rdone[r] \subseteq ToSet(rseen[r])

(***************************************************************************)
(* SeekToLast and Prev concurrent with Inserts: node_ ends on a key (not  *)
(* on head_) or NULL; after Prev it is before the key Prev started from;  *)
(* and it is not before any key whose Insert returned before the call     *)
(* began and which the call should reach (every such key for SeekToLast, *)
(* those before the start key for Prev).                                  *)
(***************************************************************************)
BackwardFindsInserted ==
    \A r \in Readers :
       (rpc[r] = "idle" /\ rop[r] \in {"last", "prev"}) =>
          /\ rres[r] \in Keys \cup {Nil}
          /\ rop[r] = "prev" /\ rres[r] # Nil => Compare(rres[r], rkey[r]) < 0
          /\ \A k \in rdone[r] :
                (rop[r] = "last" \/ Compare(k, rkey[r]) < 0) =>
                    rres[r] # Nil /\ Compare(rres[r], k) >= 0

\* Lock-free reads: every Seek and every scan a reader begins finishes.
ReadersFinish ==
    \A r \in Readers : (rpc[r] # "idle") ~> (rpc[r] = "idle")
=============================================================================
