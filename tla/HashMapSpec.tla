---------------------------- MODULE HashMapSpec ----------------------------
(***************************************************************************)
(* What the address tables promise: each maps address pairs to records,    *)
(* one entry at a time is added or removed, and a table may be emptied.    *)
(***************************************************************************)
EXTENDS HashMap

CONSTANTS Tables, Pairs, Records

VARIABLE maps

Add(t, k, r) ==
    /\ ~ hash_find(maps[t], k)
    /\ maps' = [maps EXCEPT ![t] = hash_insert(@, k, r)]

Remove(t, k) ==
    /\ hash_find(maps[t], k)
    /\ maps' = [maps EXCEPT ![t] = hash_delete(@, k)]

Empty(t) == maps' = [maps EXCEPT ![t] = hash_delete_all_free(@)]

MapSpec ==
    /\ maps = [t \in Tables |-> hash_initialise(Pairs)]
    /\ [][\E t \in Tables :
             \/ \E k \in Pairs, r \in Records : Add(t, k, r)
             \/ \E k \in Pairs : Remove(t, k)
             \/ Empty(t)]_maps
=============================================================================
