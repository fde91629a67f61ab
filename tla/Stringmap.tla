------------------------------ MODULE Stringmap ------------------------------
(***************************************************************************)
(* The unbalanced binary tree of src/src/data/map/stringmap.c.  A tree is  *)
(* [root, node]: the key at the root, or NoKey in an empty tree, and the   *)
(* nodes by their keys, each with its data and the keys of its children.   *)
(* Before(k, l) says that strcmp(k, l) < 0.                                *)
(***************************************************************************)
EXTENDS Integers

CONSTANTS NoKey, Before(_, _)

stringmap_new == [root |-> NoKey, node |-> [k \in {} |-> 0]]

Leaf(data) == [data |-> data, lesser |-> NoKey, greater |-> NoKey]

(* The side of a node on which a key belongs. *)
Side(k, at) == IF Before(k, at) THEN "lesser" ELSE "greater"

(* The node at which the search for a key ends: its own, or the one under   *)
(* which it would be.                                                       *)
RECURSIVE Descend(_, _, _)
Descend(map, k, at) ==
    IF k = at \/ map.node[at][Side(k, at)] = NoKey THEN at
    ELSE Descend(map, k, map.node[at][Side(k, at)])

stringmap_find(map, k) == map.root # NoKey /\ Descend(map, k, map.root) = k

Data(map, k) == map.node[k].data

(* stringmap_insert(): an existing item is left alone. *)
stringmap_insert(map, k, data) ==
    IF map.root = NoKey THEN [root |-> k, node |-> [x \in {k} |-> Leaf(data)]]
    ELSE IF stringmap_find(map, k) THEN map
    ELSE LET at == Descend(map, k, map.root)
         IN  [map EXCEPT !.node =
                 [x \in DOMAIN map.node \cup {k} |->
                     IF x = k THEN Leaf(data)
                     ELSE IF x = at THEN [map.node[x] EXCEPT ![Side(k, at)] = k]
                     ELSE map.node[x]]]
=============================================================================
