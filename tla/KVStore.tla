------------------------------ MODULE KVStore ------------------------------
(***************************************************************************)
(* What a MemTable promises (db/memtable.h, spec 4.4): an append-only     *)
(* history of writes, the i-th with sequence number i, and Get(key, s)    *)
(* that answers from the newest write of key with sequence <= s: its      *)
(* value, "deleted" for a deletion, or "absent" when the table has no     *)
(* write of key at or below s.  A reader's answer is recorded with the    *)
(* key and snapshot it was asked for.                                     *)
(***************************************************************************)
EXTENDS Naturals, Sequences, FiniteSets

CONSTANTS UserKeys, Values, MaxSequence, Readers, NoAnswer

VARIABLES history, answer

Lookup(k, s) ==
    LET I == {i \in 1..s : history[i].key = k}
        newest == CHOOSE i \in I : \A j \in I : j <= i
    IN IF I = {} THEN "absent"
       ELSE IF history[newest].type = "value" THEN history[newest].value
       ELSE "deleted"

Init == history = <<>> /\ answer = [r \in Readers |-> NoAnswer]

Write(k, t, v) ==
    /\ Len(history) < MaxSequence
    /\ history' = Append(history, [key |-> k, type |-> t, value |-> v])
    /\ UNCHANGED answer

\* A reader starts a new Get; its previous answer is dropped.
Ask(r) ==
    /\ answer[r] # NoAnswer
    /\ answer' = [answer EXCEPT ![r] = NoAnswer]
    /\ UNCHANGED history

Get(r, k, s) ==
    /\ answer[r] = NoAnswer
    /\ s \in 0..Len(history)
    /\ answer' = [answer EXCEPT ![r] = [key |-> k, snap |-> s, result |-> Lookup(k, s)]]
    /\ UNCHANGED history

Next ==
    \/ \E k \in UserKeys, v \in Values : Write(k, "value", v)
    \/ \E k \in UserKeys : Write(k, "deletion", "")
    \/ \E r \in Readers : Ask(r) \/ \E k \in UserKeys, s \in 0..MaxSequence : Get(r, k, s)

Spec == Init /\ [][Next]_<<history, answer>>
=============================================================================
