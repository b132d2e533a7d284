-------------------------------- MODULE KeyMap --------------------------------
(***************************************************************************)
(* What util/cache.cc's HandleTable promises LRUCache, stated abstractly: *)
(* a map from keys to handles.  Lookup answers the key's handle, Insert   *)
(* answers the handle it replaces, Remove the handle it takes out (NULL   *)
(* when there is none).  `result` is the call's return value.             *)
(***************************************************************************)
CONSTANTS Keys, Handles, NULL

VARIABLES table, result

Init ==
    /\ table = [k \in Keys |-> NULL]
    /\ result = NULL

Lookup(k) ==
    /\ result' = table[k]
    /\ UNCHANGED table

Insert(h, k) ==
    /\ result' = table[k]
    /\ table' = [table EXCEPT ![k] = h]

Remove(k) ==
    /\ result' = table[k]
    /\ table' = [table EXCEPT ![k] = NULL]

Next ==
    \E k \in Keys :
        \/ Lookup(k)
        \/ Remove(k)
        \/ \E h \in Handles : Insert(h, k)

Spec == Init /\ [][Next]_<<table, result>>
===============================================================================
