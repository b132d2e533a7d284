----------------------------- MODULE IteratorSpec -----------------------------
(***************************************************************************)
(* What an Iterator over a sorted sequence of keys promises its client    *)
(* (spec 4.8: seek, seek_first, seek_last, next, prev, valid, status):    *)
(* Seek(t) lands on the first key >= t, Next and Prev move by one entry,  *)
(* and none of them passes over an entry silently.  An iterator whose     *)
(* source failed (a block that could not be read) may land further on,    *)
(* or on no entry at all, but only with status() reporting the error,     *)
(* and once reported an error stays reported.                             *)
(***************************************************************************)
EXTENDS Integers, Sequences

CONSTANTS
    Keys,       \* the entries' keys, in iteration order
    Targets     \* keys a client may Seek to

VARIABLES
    pos,        \* 1..Len(Keys) when Valid(), 0 when not
    err,        \* whether status() reports an error
    call        \* the method called last, and its target

vars == <<pos, err, call>>

\* The first entry >= t, or 0 when there is none.
FirstAtOrAfter(t) ==
    IF \E q \in 1..Len(Keys) : Keys[q] >= t
    THEN CHOOSE q \in 1..Len(Keys) : Keys[q] >= t /\ \A r \in 1..q - 1 : Keys[r] < t
    ELSE 0

\* The iterator lands on p, or, reporting an error, on an entry past p in
\* the direction of travel (the set beyond) or on none.
Land(p, beyond) ==
    \/ pos' = p /\ err' \in {err, TRUE}
    \/ err' = TRUE /\ pos' \in beyond \cup {0}

After(p) == IF p = 0 THEN {} ELSE p + 1..Len(Keys)
Before(p) == IF p = 0 THEN {} ELSE 1..p - 1

Init == pos = 0 /\ err = FALSE /\ call = [op |-> "none", target |-> 0]

Called(op, t) == call' = [op |-> op, target |-> t]

Seek(t) == Called("Seek", t) /\ Land(FirstAtOrAfter(t), After(FirstAtOrAfter(t)))

SeekToFirst == Called("SeekToFirst", 0) /\ LET p == IF Keys = <<>> THEN 0 ELSE 1 IN Land(p, After(p))

SeekToLast == Called("SeekToLast", 0) /\ Land(Len(Keys), Before(Len(Keys)))

Next == pos # 0 /\ Called("Next", 0) /\ LET p == IF pos = Len(Keys) THEN 0 ELSE pos + 1
                   IN Land(p, After(p))

Prev == pos # 0 /\ Called("Prev", 0) /\ Land(pos - 1, Before(pos - 1))

NextStep ==
    \/ \E t \in Targets : Seek(t)
    \/ SeekToFirst \/ SeekToLast \/ Next \/ Prev

Spec == Init /\ [][NextStep]_vars
===============================================================================
