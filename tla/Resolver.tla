------------------------------ MODULE Resolver ------------------------------
(***************************************************************************)
(* The name resolver of src/src/util/resolver.c: the packet thread and the *)
(* user-interface thread call resolve(), which answers from the cache      *)
(* ns_hash and puts an unknown address on a ring buffer; worker threads    *)
(* take addresses off the ring, look them up without holding the mutex,    *)
(* and store the name.                                                     *)
(*                                                                         *)
(* Every access to the shared state happens under resolver_queue_mutex, so *)
(* one critical section is one action.  The lookup runs between two        *)
(* critical sections of a worker, and the signal follows the critical      *)
(* section of resolve().  resolve() does nothing unless dnsresolution is   *)
(* 1; the calls modelled are those made while it is.                       *)
(***************************************************************************)
EXTENDS Integers, FiniteSets, Sequences, HashMap

CONSTANTS
    Addr,                   \* addresses (struct addr_storage)
    LocalAddr,              \* the IPv6 link-local and site-local ones
    NoAddr,                 \* content of a ring slot never written
    Workers,                \* resolver threads; the code starts two
    Clients,                \* threads that call resolve()
    RESOLVE_QUEUE_LENGTH,   \* 20 in the code
    NS_HASH_MAX_ENTRIES     \* 16384 in the code

ASSUME ResolverAssumption ==
    /\ LocalAddr \subseteq Addr
    /\ NoAddr \notin Addr
    /\ IsFiniteSet(Addr)
    /\ IsFiniteSet(Workers) /\ Workers # {}
    /\ RESOLVE_QUEUE_LENGTH \in Nat \ {0}
    /\ NS_HASH_MAX_ENTRIES \in Nat \ {0}

VARIABLES
    ns_hash,                \* address -> what the cache shows for it
    ns_hash_n_entries,
    resolve_queue,          \* ring buffer, filled at head, emptied at tail
    head,
    tail,
    worker,                 \* where each resolver_worker thread stands
    addr,                   \* the address a worker is looking up
    added                   \* resolve() still has to signal

vars == <<ns_hash, ns_hash_n_entries, resolve_queue, head, tail, worker, addr, added>>

Slots == 0 .. RESOLVE_QUEUE_LENGTH - 1

(* What an entry of the cache holds: the printed address or a host name. *)
Hostname == {"numeric", "name"}

(* The tables ns_hash can be, and how many nodes one has for an address. *)
Tables == [Addr -> Seq(Hostname)]

Nodes(table, a) == Len(table[a])

WorkerState == {"starting", "waiting", "woken", "resolving"}

NextSlot(i) == (i + 1) % RESOLVE_QUEUE_LENGTH

-----------------------------------------------------------------------------

(* resolver_initialise(): the workers are created, none has run yet. *)
Init ==
    /\ ns_hash = hash_initialise(Addr)
    /\ ns_hash_n_entries = 0
    /\ resolve_queue = [i \in Slots |-> NoAddr]
    /\ head = 0
    /\ tail = 0
    /\ worker = [w \in Workers |-> "starting"]
    /\ addr = [w \in Workers |-> NoAddr]
    /\ added = [c \in Clients |-> FALSE]

-----------------------------------------------------------------------------
(* resolve() *)

QueueFull == NextSlot(head) = tail

(* The condition under which ns_hash_evict_if_full() empties the cache. *)
CacheFull == ns_hash_n_entries >= NS_HASH_MAX_ENTRIES

StaysNumerical(a) == a \in LocalAddr

(* The tail of resolve(): put the address on the ring unless it is full or *)
(* the address is one that has no name.                                    *)
Enqueue(c, a) ==
    IF QueueFull \/ StaysNumerical(a)
    THEN UNCHANGED <<resolve_queue, head, added>>
    ELSE /\ resolve_queue' = [resolve_queue EXCEPT ![head] = a]
         /\ head' = NextSlot(head)
         /\ added' = [added EXCEPT ![c] = TRUE]

(* A call that finds the address in the cache changes nothing. *)
ResolveFound(c, a) ==
    /\ ~ added[c]
    /\ hash_find(ns_hash, a)
    /\ UNCHANGED vars

MutantResolveMiss(c, a) ==
    /\ ~ added[c]
    /\ LET full == CacheFull
           kept == IF full THEN hash_delete_all_free(ns_hash) ELSE ns_hash
       IN  /\ ns_hash' = hash_insert(kept, a, "numeric")
           /\ ns_hash_n_entries' = (IF full THEN 0 ELSE ns_hash_n_entries) + 1
    /\ Enqueue(c, a)
    /\ UNCHANGED <<tail, worker, addr>>

(* A call that does not: make room if the cache is full, insert the printed *)
(* address, and queue the address for the workers.                          *)
ResolveMiss(c, a) ==
    /\ ~ added[c]
    /\ ~ hash_find(ns_hash, a)
    /\ LET full == CacheFull
           kept == IF full THEN hash_delete_all_free(ns_hash) ELSE ns_hash
       IN  /\ ns_hash' = hash_insert(kept, a, "numeric")
           /\ ns_hash_n_entries' = (IF full THEN 0 ELSE ns_hash_n_entries) + 1
    /\ Enqueue(c, a)
    /\ UNCHANGED <<tail, worker, addr>>

(* pthread_cond_signal(), after the mutex has been released: it wakes one   *)
(* waiting worker, and is lost when none waits.                             *)
Signal(c) ==
    /\ added[c]
    /\ added' = [added EXCEPT ![c] = FALSE]
    /\ \/ \E w \in Workers : /\ worker[w] = "waiting"
                             /\ worker' = [worker EXCEPT ![w] = "woken"]
       \/ /\ \A w \in Workers : worker[w] # "waiting"
          /\ UNCHANGED worker
    /\ UNCHANGED <<ns_hash, ns_hash_n_entries, resolve_queue, head, tail, addr>>

-----------------------------------------------------------------------------
(* resolver_worker() *)

(* The thread takes the mutex and waits, without looking at the queue. *)
WorkerStart(w) ==
    /\ worker[w] = "starting"
    /\ worker' = [worker EXCEPT ![w] = "waiting"]
    /\ UNCHANGED <<ns_hash, ns_hash_n_entries, resolve_queue, head, tail, addr, added>>

(* pthread_cond_wait() may return without a signal. *)
SpuriousWakeup(w) ==
    /\ worker[w] = "waiting"
    /\ worker' = [worker EXCEPT ![w] = "woken"]
    /\ UNCHANGED <<ns_hash, ns_hash_n_entries, resolve_queue, head, tail, addr, added>>

MutantTakeOrWait(w) ==
    IF head = tail \/ worker[w] = "resolving"
    THEN /\ worker' = [worker EXCEPT ![w] = "waiting"]
         /\ addr' = [addr EXCEPT ![w] = NoAddr]
         /\ UNCHANGED tail
    ELSE /\ worker' = [worker EXCEPT ![w] = "resolving"]
         /\ addr' = [addr EXCEPT ![w] = resolve_queue[tail]]
         /\ tail' = NextSlot(tail)

(* The test of the inner loop: take the next address, or wait again. *)
TakeOrWait(w) ==
    IF head = tail
    THEN /\ worker' = [worker EXCEPT ![w] = "waiting"]
         /\ addr' = [addr EXCEPT ![w] = NoAddr]
         /\ UNCHANGED tail
    ELSE /\ worker' = [worker EXCEPT ![w] = "resolving"]
         /\ addr' = [addr EXCEPT ![w] = resolve_queue[tail]]
         /\ tail' = NextSlot(tail)

WorkerWake(w) ==
    /\ worker[w] = "woken"
    /\ TakeOrWait(w)
    /\ UNCHANGED <<ns_hash, ns_hash_n_entries, resolve_queue, head, added>>

(* do_resolve() gave no name: the entry, if it is still there, keeps the    *)
(* printed address.                                                         *)
WorkerFails(w) ==
    /\ worker[w] = "resolving"
    /\ TakeOrWait(w)
    /\ UNCHANGED <<ns_hash, ns_hash_n_entries, resolve_queue, head, added>>

MutantStore(a) ==
    /\ ns_hash' = hash_insert(hash_delete(ns_hash, a), a, "name")
    /\ ns_hash_n_entries' = ns_hash_n_entries + 1

(* Replace the entry, or add one if the cache was emptied meanwhile. *)
Store(a) ==
    IF hash_find(ns_hash, a)
    THEN /\ ns_hash' = hash_insert(hash_delete(ns_hash, a), a, "name")
         /\ UNCHANGED ns_hash_n_entries
    ELSE /\ ns_hash' = hash_insert(ns_hash, a, "name")
         /\ ns_hash_n_entries' = ns_hash_n_entries + 1

WorkerStores(w) ==
    /\ worker[w] = "resolving"
    /\ Store(addr[w])
    /\ TakeOrWait(w)
    /\ UNCHANGED <<resolve_queue, head, added>>

WorkerStep(w) ==
    WorkerStart(w) \/ WorkerWake(w) \/ WorkerFails(w) \/ WorkerStores(w)

-----------------------------------------------------------------------------

Next ==
    \/ \E c \in Clients, a \in Addr : ResolveFound(c, a) \/ ResolveMiss(c, a)
    \/ \E c \in Clients : Signal(c)
    \/ \E w \in Workers : WorkerStep(w) \/ SpuriousWakeup(w)

Spec == Init /\ [][Next]_vars

(* A thread that holds or can take the mutex runs, a lookup returns, and a  *)
(* call that has queued an address reaches its signal.  Nothing forces a    *)
(* client to call resolve(), nor a spurious wakeup to happen.               *)
Fairness ==
    /\ \A c \in Clients : WF_vars(Signal(c))
    /\ \A w \in Workers : WF_vars(WorkerStep(w))

FairSpec == Spec /\ Fairness

-----------------------------------------------------------------------------
(* Properties *)

TypeOK ==
    /\ ns_hash \in Tables
    /\ ns_hash_n_entries \in Nat
    /\ resolve_queue \in [Slots -> Addr \cup {NoAddr}]
    /\ head \in Slots
    /\ tail \in Slots
    /\ worker \in [Workers -> WorkerState]
    /\ addr \in [Workers -> Addr \cup {NoAddr}]
    /\ added \in [Clients -> BOOLEAN]

Cached == {a \in Addr : hash_find(ns_hash, a)}

(* The ring slots between tail and head. *)
LiveSlots ==
    {i \in Slots : IF tail <= head THEN tail <= i /\ i < head
                   ELSE tail <= i \/ i < head}

Queued == {resolve_queue[i] : i \in LiveSlots}

InFlight == {addr[w] : w \in {v \in Workers : worker[v] = "resolving"}}

Pending == Queued \cup InFlight

(* The counter the eviction policy relies on is the number of entries, and  *)
(* no address has two: neither resolve() nor a worker that comes back after *)
(* an eviction inserts an address twice (resolver.c:447-453, 494-503).      *)
CountExact ==
    /\ ns_hash_n_entries = Cardinality(Cached)
    /\ \A a \in Addr : Nodes(ns_hash, a) <= 1

(* How far the cache can outgrow NS_HASH_MAX_ENTRIES.  A worker adds an     *)
(* entry without making room (resolver.c:451), but only for an address that *)
(* was pending when the cache was last emptied.                             *)
CacheBound ==
    ns_hash_n_entries <= NS_HASH_MAX_ENTRIES + (RESOLVE_QUEUE_LENGTH - 1) + Cardinality(Workers)

(* What makes CacheBound inductive: entries and pending addresses together  *)
(* stay within the same bound, so a worker that stores a name only moves an *)
(* address from one side to the other.                                      *)
OutgrowthBound ==
    Cardinality(Cached \cup Pending)
        <= NS_HASH_MAX_ENTRIES + (RESOLVE_QUEUE_LENGTH - 1) + Cardinality(Workers)

(* Link-local and site-local addresses are never looked up and never shown  *)
(* by name (resolver.c:507-509).                                            *)
LocalNumeric ==
    /\ Pending \cap LocalAddr = {}
    /\ \A a \in Cached \cap LocalAddr : hash_record(ns_hash, a) = "numeric"

(* A slot of the ring between tail and head holds an address: the full test *)
(* keeps the producer from running over the consumer (resolver.c:505).      *)
RingSound == NoAddr \notin Pending

(* The inductive invariant behind CountExact, CacheBound and LocalNumeric. *)
IInv == TypeOK /\ CountExact /\ RingSound /\ OutgrowthBound /\ LocalNumeric

(* Every worker has reached its first wait. *)
AllStarted == \A w \in Workers : worker[w] # "starting"

(* While an address is queued some worker is awake or a signal is on its way. *)
Attended ==
    head # tail =>
        \/ \E w \in Workers : worker[w] \in {"woken", "resolving"}
        \/ \E c \in Clients : added[c]

(* Once every worker has reached its first wait and the queue is attended   *)
(* to, it stays so, although a worker that waits does not test the queue    *)
(* first (resolver.c:421-424).  Before that a signal can be lost.           *)
NoLostWakeup == [][AllStarted /\ Attended => Attended']_vars

(* A name, once in the cache, is not replaced by the printed address; it    *)
(* can only go when a full cache is emptied (ns_hash.c:59-66).              *)
NamesKept ==
    [][\A a \in Addr :
          /\ hash_find(ns_hash, a)
          /\ hash_record(ns_hash, a) = "name"
          /\ ~ (hash_find(ns_hash, a)' /\ hash_record(ns_hash, a)' = "name")
          => CacheFull /\ Cardinality(Cached') = 1]_vars

(* From then on an address at the tail of the queue is eventually taken by  *)
(* a worker.                                                                *)
QueueDrains ==
    \A t \in Slots : (tail = t /\ head # t /\ AllStarted /\ Attended) ~> (tail # t)
=============================================================================
