------------------------------ MODULE AddrHash ------------------------------
(***************************************************************************)
(* The address tables of src/src/data/map/addr_hash.c down to their nodes: *)
(* bucket chains through the nodes' next pointers, and the pool of nodes,  *)
(* whose free list goes through the same pointers and serves both tables.  *)
(*                                                                         *)
(* Two threads use them as iftop.c and ui.c do.  The packet thread looks a *)
(* flow up in history and inserts it.  The main thread, in tick(), inserts *)
(* lines in screen_hash and empties it, and in history_rotate() walks over *)
(* history with hash_next_item() and deletes nodes on the way.             *)
(***************************************************************************)
EXTENDS Integers, Sequences, FiniteSets

CONSTANTS
    Pairs,             \* address pairs
    Records,
    Size,              \* number of buckets
    Hash,              \* pair -> bucket
    POOL_BLOCK_SIZE,
    MaxBlocks,         \* bound on the blocks allocated
    Concurrent,        \* whether a thread may begin while the other is in an insertion
    NULL

ASSUME AddrHashAssumption ==
    /\ Size \in Nat \ {0} /\ Hash \in [Pairs -> 0 .. Size - 1]
    /\ POOL_BLOCK_SIZE \in Nat \ {0, 1} /\ MaxBlocks \in Nat
    /\ Concurrent \in BOOLEAN

Tables == {"history", "screen_hash"}

Threads == {"main", "packet"}

Buckets == 0 .. Size - 1

Nodes == 1 .. POOL_BLOCK_SIZE * MaxBlocks

VARIABLES
    table,             \* table -> bucket -> first node
    node,              \* node -> next, key, record, bucket
    free_list,
    blocks,            \* number of blocks allocated
    pending,           \* thread -> the insertion it has begun, with the node it took
    cursor,            \* the node history_rotate() is at, or NULL
    walk               \* the nodes it has still to visit of those it started with

vars == <<table, node, free_list, blocks, pending, cursor, walk>>

(* Nothing but the link of a free node is ever read. *)
Freed(next) == [next |-> next, key |-> NULL, record |-> NULL, bucket |-> 0]

Init ==
    /\ table = [t \in Tables |-> [b \in Buckets |-> NULL]]
    /\ node = [n \in Nodes |-> Freed(NULL)]
    /\ free_list = NULL
    /\ blocks = 0
    /\ pending = [th \in Threads |-> NULL]
    /\ cursor = NULL
    /\ walk = {}

-----------------------------------------------------------------------------
(* Chains *)

(* The nodes met from a pointer on; NULL repeats once the end is reached. *)
From(p) ==
    LET step[i \in 1 .. Cardinality(Nodes) + 1] ==
            IF i = 1 THEN p ELSE IF step[i - 1] = NULL THEN NULL ELSE node[step[i - 1]].next
    IN  step

Cyclic(p) == From(p)[Cardinality(Nodes) + 1] # NULL

Chain(p) == SelectSeq(From(p), LAMBDA n : n # NULL)

Members(p) == LET f == From(p) IN {f[i] : i \in DOMAIN f} \ {NULL}

TableNodes(t) == UNION {Members(table[t][b]) : b \in Buckets}

addr_hash_find(t, k) ==
    LET hits == SelectSeq(Chain(table[t][Hash[k]]), LAMBDA n : node[n].key = k)
    IN  IF hits = <<>> THEN <<>> ELSE <<node[Head(hits)].record>>

(* hash_next_item() *)
hash_next_item(t, n) ==
    LET from == IF n = NULL THEN 0 ELSE node[n].bucket + 1
        full == {b \in from .. Size - 1 : table[t][b] # NULL}
    IN  IF n # NULL /\ node[n].next # NULL THEN node[n].next
        ELSE IF full = {} THEN NULL
        ELSE table[t][CHOOSE b \in full : \A c \in full : b <= c]

-----------------------------------------------------------------------------
(* addr_hash_insert(): pool_alloc() reads the free list and writes it back. *)

(* No lock guards the pool or the tables: Concurrent = TRUE is the code.     *)
(* FALSE leaves out the schedules in which a thread runs while the other is  *)
(* between the steps of an insertion, and keeps those in which the packet    *)
(* thread inserts between two steps of the main thread's walk.               *)
Alone(th) == Concurrent \/ \A u \in Threads \ {th} : pending[u] = NULL

(* A thread inserts what it has not found. *)
MayInsert(th, t, k) ==
    /\ Alone(th)
    /\ pending[th] = NULL
    /\ addr_hash_find(t, k) = <<>>
    /\ th = "packet" => t = "history"
    /\ th = "main" => t = "screen_hash" /\ cursor = NULL

Insertion(t, k, r, n, owned) ==
    [table |-> t, key |-> k, record |-> r, node |-> n, owned |-> owned]

(* pool_alloc(): the head of the free list is read ... *)
PoolTake(th, t, k, r) ==
    /\ MayInsert(th, t, k)
    /\ free_list # NULL
    /\ pending' = [pending EXCEPT ![th] = Insertion(t, k, r, free_list, FALSE)]
    /\ UNCHANGED <<table, node, free_list, blocks, cursor, walk>>

(* ... and the list moved on. *)
PoolTaken(th) ==
    /\ pending[th] # NULL /\ ~ pending[th].owned
    /\ Alone(th)
    /\ free_list' = node[pending[th].node].next
    /\ pending' = [pending EXCEPT ![th].owned = TRUE]
    /\ UNCHANGED <<table, node, blocks, cursor, walk>>

(* A new block: its first item is handed out, the others are the free list. *)
PoolGrow(th, t, k, r) ==
    LET first == blocks * POOL_BLOCK_SIZE + 1
        last == first + POOL_BLOCK_SIZE - 1
    IN  /\ MayInsert(th, t, k)
        /\ free_list = NULL /\ blocks < MaxBlocks
        /\ blocks' = blocks + 1
        /\ node' = [n \in Nodes |-> IF n \in first + 1 .. last - 1
                                    THEN [node[n] EXCEPT !.next = n + 1] ELSE node[n]]
        /\ free_list' = first + 1
        /\ pending' = [pending EXCEPT ![th] = Insertion(t, k, r, first, TRUE)]
        /\ UNCHANGED <<table, cursor, walk>>

InsertAs(th, next, bucket) ==
    LET p == pending[th]
    IN  /\ p # NULL /\ p.owned
        /\ Alone(th)
        /\ node' = [node EXCEPT ![p.node] = [next |-> next, key |-> p.key,
                                             record |-> p.record, bucket |-> bucket]]
        /\ table' = [table EXCEPT ![p.table][Hash[p.key]] = p.node]
        /\ pending' = [pending EXCEPT ![th] = NULL]
        /\ UNCHANGED <<free_list, blocks, cursor, walk>>

First(th) == table[pending[th].table][Hash[pending[th].key]]

(* The node goes to the front of its bucket's chain. *)
Insert(th) == pending[th] # NULL /\ InsertAs(th, First(th), Hash[pending[th].key])

-----------------------------------------------------------------------------
(* history_rotate(): the walk over history *)

RotateStart ==
    /\ Alone("main")
    /\ pending["main"] = NULL /\ cursor = NULL
    /\ cursor' = hash_next_item("history", NULL)
    /\ walk' = TableNodes("history")
    /\ UNCHANGED <<table, node, free_list, blocks, pending>>

RotateKeep ==
    /\ Alone("main") /\ cursor # NULL
    /\ cursor' = hash_next_item("history", cursor)
    /\ walk' = walk \ {cursor}
    /\ UNCHANGED <<table, node, free_list, blocks, pending>>

MutantUnlink(t, n) ==
    LET b == node[n].bucket
        before == {p \in Members(table[t][b]) : node[p].next = n}
    IN  /\ IF before = {}
           THEN /\ table' = [table EXCEPT ![t][b] = node[n].next]
                /\ node' = [node EXCEPT ![n] = Freed(NULL)]
           ELSE /\ node' = [m \in Nodes |-> CASE m = n -> Freed(NULL)
                                              [] m \in before -> [node[m] EXCEPT !.next = node[n].next]
                                              [] OTHER -> node[m]]
                /\ UNCHANGED table
        /\ UNCHANGED free_list

MutantUnlinkFirst(t, n) ==
    /\ table' = [table EXCEPT ![t][node[n].bucket] = node[n].next]
    /\ node' = [node EXCEPT ![n] = Freed(free_list)]
    /\ free_list' = n

(* addr_hash_delete_node(), with pool_free(). *)
Unlink(t, n) ==
    LET b == node[n].bucket
        before == {p \in Members(table[t][b]) : node[p].next = n}
        freed == Freed(free_list)
    IN  /\ IF before = {}
           THEN /\ table' = [table EXCEPT ![t][b] = node[n].next]
                /\ node' = [node EXCEPT ![n] = freed]
           ELSE /\ node' = [m \in Nodes |-> CASE m = n -> freed
                                              [] m \in before -> [node[m] EXCEPT !.next = node[n].next]
                                              [] OTHER -> node[m]]
                /\ UNCHANGED table
        /\ free_list' = n

MutantRotateDelete ==
    /\ Alone("main") /\ cursor # NULL
    /\ Unlink("history", cursor)
    /\ cursor' = IF free_list # NULL THEN free_list ELSE hash_next_item("history", cursor)
    /\ walk' = walk \ {cursor}
    /\ UNCHANGED <<blocks, pending>>

(* The next node is looked up before the node is deleted. *)
RotateDelete ==
    /\ Alone("main") /\ cursor # NULL
    /\ Unlink("history", cursor)
    /\ cursor' = hash_next_item("history", cursor)
    /\ walk' = walk \ {cursor}
    /\ UNCHANGED <<blocks, pending>>

(* addr_hash_delete_all_free(screen_hash): the nodes are freed one by one,  *)
(* bucket by bucket, each on top of the free list.                          *)
DeleteAll ==
    LET all == [i \in 1 .. Size |-> Chain(table["screen_hash"][i - 1])]
        order[i \in 0 .. Size] == IF i = 0 THEN <<>> ELSE order[i - 1] \o all[i]
        freed == order[Size]
    IN  /\ Alone("main")
        /\ pending["main"] = NULL /\ cursor = NULL
        /\ freed # <<>>
        /\ node' = [n \in Nodes |->
                       IF \E i \in DOMAIN freed : freed[i] = n
                       THEN LET i == CHOOSE j \in DOMAIN freed : freed[j] = n
                            IN  Freed(IF i = 1 THEN free_list ELSE freed[i - 1])
                       ELSE node[n]]
        /\ free_list' = freed[Len(freed)]
        /\ table' = [table EXCEPT !["screen_hash"] = [b \in Buckets |-> NULL]]
        /\ UNCHANGED <<blocks, pending, cursor, walk>>

Next ==
    \/ \E th \in Threads, t \in Tables, k \in Pairs, r \in Records :
          PoolTake(th, t, k, r) \/ PoolGrow(th, t, k, r)
    \/ \E th \in Threads : PoolTaken(th) \/ Insert(th)
    \/ RotateStart
    \/ RotateKeep
    \/ RotateDelete
    \/ DeleteAll

Spec == Init /\ [][Next]_vars

-----------------------------------------------------------------------------
(* Properties *)

(* Pointers are nodes or NULL, and no chain is cyclic. *)
TypeOK ==
    /\ free_list \in Nodes \cup {NULL}
    /\ \A n \in Nodes : node[n].next \in Nodes \cup {NULL} /\ node[n].bucket \in Buckets
    /\ cursor \in Nodes \cup {NULL}
    /\ ~ Cyclic(free_list)
    /\ \A t \in Tables, b \in Buckets : ~ Cyclic(table[t][b])

(* The node that a thread has taken from the pool and not yet linked. *)
Held(th) == IF pending[th] # NULL /\ pending[th].owned THEN pending[th].node ELSE NULL

Places(n) ==
    (IF n \in Members(free_list) THEN {<<"free", 0>>} ELSE {})
        \cup {<<th, 0>> : th \in {u \in Threads : Held(u) = n}}
        \cup {<<t, b>> \in Tables \X Buckets : n \in Members(table[t][b])}

(* The pool recycles nodes (README.md:359: "The pool allocator is a custom  *)
(* slab that recycles fixed-size nodes"): every node of an allocated block  *)
(* is in exactly one place, on the free list, on one chain of one table, or *)
(* in the hands of one thread; none is lost and none handed out twice.  It  *)
(* holds of insertions that do not overlap, with the packet thread's at any *)
(* point of the walk of history_rotate().  pool_alloc() reads the free list *)
(* and writes it back without a lock, and when the two threads overlap in   *)
(* it the property fails (Concurrent = TRUE).                               *)
EveryNodeInOnePlace ==
    TypeOK /\ \A n \in 1 .. blocks * POOL_BLOCK_SIZE : Cardinality(Places(n)) = 1

(* What each table holds, whatever bucket it is in. *)
Contents ==
    [t \in Tables |-> [k \in Pairs |->
        LET found == {n \in TableNodes(t) : node[n].key = k}
        IN  IF found = {} THEN <<>> ELSE <<node[CHOOSE n \in found : TRUE].record>>]]

Map == INSTANCE HashMapSpec WITH maps <- Contents

(* The tables are maps: each operation adds, removes or clears exactly the  *)
(* entries it is asked to, in its own table, although they share a pool, as *)
(* long as insertions do not overlap (see EveryNodeInOnePlace).             *)
TablesAreMaps == Map!MapSpec

(* The nodes history_rotate() comes to from n on. *)
Ahead(n) ==
    LET step[i \in 1 .. Cardinality(Nodes) + 1] ==
            IF i = 1 THEN n
            ELSE IF step[i - 1] = NULL THEN NULL ELSE hash_next_item("history", step[i - 1])
    IN  {step[i] : i \in DOMAIN step} \ {NULL}

(* history_rotate() reaches every node that was in the table when it began, *)
(* whatever it deletes on the way and the packet thread inserts meanwhile,  *)
(* each insertion as a whole (see EveryNodeInOnePlace).                     *)
RotationMissesNone == walk \subseteq Ahead(cursor)
=============================================================================
