------------------------------- MODULE HashMap -------------------------------
(***************************************************************************)
(* The chained hash table of src/src/data/map/hash.c, seen through its     *)
(* keys.  A table is a function that gives, for each key, the records of   *)
(* the nodes that carry this key, in chain order: hash_insert prepends a   *)
(* node whether or not the key is already there, hash_find returns the     *)
(* first node, hash_delete unlinks the first node.  Nodes of other keys    *)
(* that share the bucket do not influence any of these results.            *)
(***************************************************************************)
LOCAL INSTANCE Sequences

hash_initialise(Keys) == [k \in Keys |-> <<>>]

hash_find(table, key) == table[key] # <<>>

hash_record(table, key) == Head(table[key])

hash_insert(table, key, rec) == [table EXCEPT ![key] = <<rec>> \o @]

hash_delete(table, key) ==
    IF hash_find(table, key) THEN [table EXCEPT ![key] = Tail(@)] ELSE table

hash_delete_all_free(table) == [k \in DOMAIN table |-> <<>>]

(* The keys hash_next_item visits. *)
Keys(table) == {k \in DOMAIN table : hash_find(table, k)}
=============================================================================
