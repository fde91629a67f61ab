--------------------------- MODULE ResolverProofs ---------------------------
(* Proofs about Resolver for every number of addresses, workers and clients *)
(* and every length of the ring and limit of the cache.                     *)
EXTENDS Resolver, FiniteSetTheorems, SequenceTheorems, TLAPS

(* The successor of a slot of the ring. *)
LEMMA NextSlotValue ==
    ASSUME NEW i \in Slots
    PROVE  /\ NextSlot(i) \in Slots
           /\ NextSlot(i) = IF i = RESOLVE_QUEUE_LENGTH - 1 THEN 0 ELSE i + 1
  BY ResolverAssumption, SMTT(30) DEF NextSlot, Slots

(* Inserting adds a node for the address and leaves the others alone. *)
LEMMA InsertFacts ==
    ASSUME NEW t \in Tables, NEW a \in Addr, NEW h \in Hostname
    PROVE  /\ hash_insert(t, a, h) \in Tables
           /\ hash_find(hash_insert(t, a, h), a)
           /\ hash_record(hash_insert(t, a, h), a) = h
           /\ ~ hash_find(t, a) => Nodes(hash_insert(t, a, h), a) = 1
           /\ \A b \in Addr \ {a} : hash_insert(t, a, h)[b] = t[b]
  <1>1. /\ <<h>> \o t[a] \in Seq(Hostname)
        /\ Len(<<h>> \o t[a]) = 1 + Len(t[a])
        /\ (<<h>> \o t[a])[1] = h
    BY DEF Tables
  <1>2. <<h>> \o t[a] # <<>>
    BY <1>1
  <1>3. hash_insert(t, a, h) = [t EXCEPT ![a] = <<h>> \o t[a]]
    BY DEF hash_insert
  <1>4. Head(<<h>> \o t[a]) = h
    BY <1>1, <1>2
  <1> QED
    BY <1>1, <1>2, <1>3, <1>4 DEF hash_find, hash_record, Nodes, Tables

(* Deleting removes the only node of an address and leaves the others alone. *)
LEMMA DeleteFacts ==
    ASSUME NEW t \in Tables, NEW a \in Addr, Nodes(t, a) <= 1
    PROVE  /\ hash_delete(t, a) \in Tables
           /\ ~ hash_find(hash_delete(t, a), a)
           /\ \A b \in Addr \ {a} : hash_delete(t, a)[b] = t[b]
  <1>1. CASE hash_find(t, a)
    <2>0. t[a] \in Seq(Hostname) /\ t[a] # <<>>
      BY <1>1 DEF hash_find, Tables
    <2>1. Len(t[a]) = 1
      <3> DEFINE n == Len(t[a])
      <3>1. n \in Nat \ {0} /\ n <= 1
        BY <2>0, EmptySeq DEF Nodes
      <3> HIDE DEF n
      <3>2. n = 1
        BY <3>1
      <3> QED
        BY <3>2 DEF n
    <2>2. Tail(t[a]) \in Seq(Hostname) /\ Len(Tail(t[a])) = 0
      BY <2>0, <2>1, HeadTailProperties
    <2>3. Tail(t[a]) = <<>>
      BY <2>2, EmptySeq
    <2> QED
      BY <1>1, <2>2, <2>3 DEF hash_delete, hash_find, Tables
  <1>2. CASE ~ hash_find(t, a)
    BY <1>2 DEF hash_delete
  <1> QED
    BY <1>1, <1>2

(* Entries that are equal look alike. *)
LEMMA SameEntry ==
    ASSUME NEW t, NEW u, NEW b, t[b] = u[b]
    PROVE  /\ hash_find(t, b) = hash_find(u, b)
           /\ hash_record(t, b) = hash_record(u, b)
           /\ Nodes(t, b) = Nodes(u, b)
  BY DEF hash_find, hash_record, Nodes

(* An emptied table has no node. *)
LEMMA EmptyFacts ==
    /\ hash_initialise(Addr) \in Tables
    /\ \A b \in Addr : ~ hash_find(hash_initialise(Addr), b) /\ Nodes(hash_initialise(Addr), b) = 0
    /\ \A t \in Tables : hash_delete_all_free(t) = hash_initialise(Addr)
  BY EmptySeq DEF hash_initialise, hash_delete_all_free, hash_find, Tables, Nodes

-----------------------------------------------------------------------------
(* What each step does to the set of pending addresses. *)

(* The slots between tail and head lie on the ring and leave out head. *)
LEMMA LiveSlotsFacts ==
    ASSUME TypeOK
    PROVE  /\ LiveSlots \subseteq Slots \ {head}
           /\ head # tail => tail \in LiveSlots
           /\ IsFiniteSet(LiveSlots)
           /\ Cardinality(LiveSlots) <= RESOLVE_QUEUE_LENGTH - 1
  <1>1. LiveSlots \subseteq Slots \ {head} /\ (head # tail => tail \in LiveSlots)
    BY ResolverAssumption DEF TypeOK, LiveSlots, Slots
  <1>2. IsFiniteSet(Slots) /\ Cardinality(Slots) = RESOLVE_QUEUE_LENGTH
    BY ResolverAssumption, FS_Interval DEF Slots
  <1>3. IsFiniteSet(Slots \ {head}) /\ Cardinality(Slots \ {head}) = RESOLVE_QUEUE_LENGTH - 1
    BY <1>2, FS_RemoveElement DEF TypeOK
  <1> QED
    BY <1>1, <1>3, FS_Subset

(* No more addresses are pending than there are usable slots and workers. *)
LEMMA PendingSmall ==
    ASSUME TypeOK
    PROVE  /\ IsFiniteSet(Pending)
           /\ Cardinality(Pending) \in Nat
           /\ Cardinality(Pending) <= (RESOLVE_QUEUE_LENGTH - 1) + Cardinality(Workers)
  <1>1. IsFiniteSet(Queued) /\ Cardinality(Queued) <= Cardinality(LiveSlots)
    <2> DEFINE f == [i \in LiveSlots |-> resolve_queue[i]]
    <2>1. f \in Surjection(LiveSlots, Queued)
      BY DEF Surjection, Queued
    <2> HIDE DEF f
    <2> QED
      BY <2>1, LiveSlotsFacts, FS_Surjection
  <1>2. IsFiniteSet(InFlight) /\ Cardinality(InFlight) <= Cardinality(Workers)
    <2> DEFINE Busy == {v \in Workers : worker[v] = "resolving"}
               g == [w \in Busy |-> addr[w]]
    <2>1. g \in Surjection(Busy, InFlight)
      BY DEF Surjection, InFlight
    <2>2. IsFiniteSet(Busy) /\ Cardinality(Busy) <= Cardinality(Workers)
      BY FS_Subset, ResolverAssumption
    <2>3. Cardinality(Busy) \in Nat /\ Cardinality(Workers) \in Nat
      BY <2>2, ResolverAssumption, FS_CardinalityType
    <2> HIDE DEF g, Busy
    <2>4. IsFiniteSet(InFlight) /\ Cardinality(InFlight) <= Cardinality(Busy)
      BY <2>1, <2>2, FS_Surjection
    <2>5. Cardinality(InFlight) \in Nat
      BY <2>4, FS_CardinalityType
    <2> QED
      BY <2>2, <2>3, <2>4, <2>5
  <1>3. /\ Cardinality(Queued) \in Nat /\ Cardinality(InFlight) \in Nat
        /\ Cardinality(LiveSlots) \in Nat /\ Cardinality(Workers) \in Nat
    BY <1>1, <1>2, LiveSlotsFacts, FS_CardinalityType, ResolverAssumption
  <1>4. /\ IsFiniteSet(Pending)
        /\ Cardinality(Pending) = Cardinality(Queued) + Cardinality(InFlight) - Cardinality(Queued \cap InFlight)
    BY <1>1, <1>2, FS_Union DEF Pending
  <1>5. Cardinality(Queued \cap InFlight) \in Nat /\ Cardinality(Pending) \in Nat
    BY <1>1, <1>4, FS_Intersection, FS_CardinalityType
  <1> QED
    BY <1>1, <1>2, <1>3, <1>4, <1>5, LiveSlotsFacts, ResolverAssumption

(* A resolve() that misses leaves at most the new address more pending, and *)
(* none if the address is local.                                            *)
LEMMA ResolveMissPending ==
    ASSUME TypeOK, NEW c \in Clients, NEW a \in Addr, ResolveMiss(c, a)
    PROVE  /\ Pending' \subseteq Pending \cup {a}
           /\ a \in LocalAddr => Pending' \subseteq Pending
  <1>1. InFlight' = InFlight
    BY DEF ResolveMiss, InFlight
  <1>2. CASE QueueFull \/ StaysNumerical(a)
    <2>1. Queued' = Queued
      BY <1>2 DEF ResolveMiss, Enqueue, Queued, LiveSlots
    <2> QED
      BY <1>1, <2>1 DEF Pending
  <1>3. CASE ~ (QueueFull \/ StaysNumerical(a))
    <2>1. /\ resolve_queue' = [resolve_queue EXCEPT ![head] = a]
          /\ head' = NextSlot(head) /\ NextSlot(head) # tail /\ tail' = tail
          /\ a \notin LocalAddr
      BY <1>3 DEF ResolveMiss, Enqueue, QueueFull, StaysNumerical
    <2>2. LiveSlots' = LiveSlots \cup {head}
      <3> DEFINE h == head'
      <3>1. h = IF head = RESOLVE_QUEUE_LENGTH - 1 THEN 0 ELSE head + 1
        BY <2>1, NextSlotValue DEF TypeOK
      <3>2. LiveSlots' = {i \in Slots : IF tail <= h THEN tail <= i /\ i < h
                                        ELSE tail <= i \/ i < h}
        BY <2>1 DEF LiveSlots
      <3>3. h # tail /\ head \in Slots /\ tail \in Slots
        BY <2>1 DEF TypeOK
      <3> HIDE DEF h
      <3> QED
        BY <3>1, <3>2, <3>3, ResolverAssumption DEF LiveSlots, Slots
    <2>3. \A i \in LiveSlots : resolve_queue'[i] = resolve_queue[i]
      BY <2>1, LiveSlotsFacts DEF TypeOK
    <2>4. resolve_queue'[head] = a
      BY <2>1 DEF TypeOK
    <2>5. Queued' = Queued \cup {a}
      BY <2>2, <2>3, <2>4 DEF Queued
    <2> QED
      BY <1>1, <2>1, <2>5 DEF Pending
  <1> QED
    BY <1>2, <1>3

(* Taking the address at the tail, or waiting, makes no new address pending. *)
LEMMA TakeOrWaitPending ==
    ASSUME TypeOK, NEW w \in Workers, TakeOrWait(w), UNCHANGED <<resolve_queue, head>>
    PROVE  Pending' \subseteq Pending
  <1>1. CASE head = tail
    <2>1. Queued' = Queued
      BY <1>1 DEF TakeOrWait, Queued, LiveSlots
    <2>2. InFlight' \subseteq InFlight
      BY <1>1 DEF TakeOrWait, InFlight, TypeOK
    <2> QED
      BY <2>1, <2>2 DEF Pending
  <1>2. CASE head # tail
    <2>1. tail' = NextSlot(tail)
      BY <1>2 DEF TakeOrWait
    <2>2. LiveSlots' \subseteq LiveSlots
      <3> DEFINE t == tail'
      <3>1. t = IF tail = RESOLVE_QUEUE_LENGTH - 1 THEN 0 ELSE tail + 1
        BY <2>1, NextSlotValue DEF TypeOK
      <3>2. LiveSlots' = {i \in Slots : IF t <= head THEN t <= i /\ i < head
                                        ELSE t <= i \/ i < head}
        BY DEF LiveSlots
      <3>3. head \in Slots /\ tail \in Slots
        BY DEF TypeOK
      <3> HIDE DEF t
      <3> QED
        BY <1>2, <3>1, <3>2, <3>3, ResolverAssumption DEF LiveSlots, Slots
    <2>3. Queued' \subseteq Queued
      BY <2>2 DEF Queued
    <2>4. resolve_queue[tail] \in Queued
      BY <1>2, LiveSlotsFacts DEF Queued
    <2>5. InFlight' \subseteq InFlight \cup {resolve_queue[tail]}
      BY <1>2 DEF TakeOrWait, InFlight, TypeOK
    <2> QED
      BY <2>3, <2>4, <2>5 DEF Pending
  <1> QED
    BY <1>1, <1>2
-----------------------------------------------------------------------------
(* Type correctness *)

(* The ring, the workers and what they hold keep their types when a worker  *)
(* takes an address or waits.                                               *)
LEMMA TakeOrWaitType ==
    ASSUME TypeOK, NEW w \in Workers, TakeOrWait(w)
    PROVE  /\ tail' \in Slots
           /\ worker' \in [Workers -> WorkerState]
           /\ addr' \in [Workers -> Addr \cup {NoAddr}]
  BY NextSlotValue DEF TypeOK, TakeOrWait, WorkerState

(* Storing a name: the address has one entry, the others stay. *)
LEMMA StoreFacts ==
    ASSUME TypeOK, CountExact, NEW a \in Addr, Store(a)
    PROVE  /\ ns_hash' \in Tables
           /\ ns_hash_n_entries' = IF a \in Cached THEN ns_hash_n_entries
                                   ELSE ns_hash_n_entries + 1
           /\ Cached' = Cached \cup {a}
           /\ \A b \in Addr : Nodes(ns_hash, b)' <= 1
           /\ \A b \in Addr \ {a} : hash_record(ns_hash, b)' = hash_record(ns_hash, b)
  <1>0. "name" \in Hostname
    BY DEF Hostname
  <1> DEFINE t == hash_delete(ns_hash, a)
             u == IF hash_find(ns_hash, a) THEN t ELSE ns_hash
  <1>1. /\ t \in Tables /\ ~ hash_find(t, a)
        /\ \A b \in Addr \ {a} : t[b] = ns_hash[b]
    BY DeleteFacts DEF TypeOK, CountExact
  <1>2. /\ u \in Tables /\ ~ hash_find(u, a)
        /\ \A b \in Addr \ {a} : u[b] = ns_hash[b]
    BY <1>1 DEF TypeOK
  <1>3. /\ ns_hash' = hash_insert(u, a, "name")
        /\ ns_hash_n_entries' = IF a \in Cached THEN ns_hash_n_entries ELSE ns_hash_n_entries + 1
    BY DEF Store, Cached
  <1> HIDE DEF t, u
  <1>4. /\ ns_hash' \in Tables /\ hash_find(ns_hash, a)' /\ Nodes(ns_hash, a)' = 1
        /\ \A b \in Addr \ {a} : ns_hash'[b] = ns_hash[b]
    BY <1>0, <1>2, <1>3, InsertFacts
  <1>5. \A b \in Addr \ {a} : /\ hash_find(ns_hash, b)' = hash_find(ns_hash, b)
                              /\ hash_record(ns_hash, b)' = hash_record(ns_hash, b)
                              /\ Nodes(ns_hash, b)' = Nodes(ns_hash, b)
    BY <1>4, SameEntry
  <1>6. Cached' = Cached \cup {a}
    BY <1>4, <1>5 DEF Cached
  <1>7. \A b \in Addr : Nodes(ns_hash, b)' <= 1
    BY <1>4, <1>5 DEF CountExact
  <1> QED
    BY <1>3, <1>4, <1>5, <1>6, <1>7

(* A resolve() that misses: one entry more, or one entry alone after the    *)
(* cache has been emptied.                                                  *)
LEMMA ResolveMissFacts ==
    ASSUME TypeOK, CountExact, NEW c \in Clients, NEW a \in Addr, ResolveMiss(c, a)
    PROVE  /\ ns_hash' \in Tables
           /\ a \notin Cached
           /\ Cached' = IF CacheFull THEN {a} ELSE Cached \cup {a}
           /\ ns_hash_n_entries' = IF CacheFull THEN 1 ELSE ns_hash_n_entries + 1
           /\ \A b \in Addr : Nodes(ns_hash, b)' <= 1
           /\ hash_record(ns_hash, a)' = "numeric"
           /\ \A b \in Cached' \ {a} : hash_record(ns_hash, b)' = hash_record(ns_hash, b)
  <1>0. "numeric" \in Hostname
    BY DEF Hostname
  <1> DEFINE u == IF CacheFull THEN hash_delete_all_free(ns_hash) ELSE ns_hash
  <1>1. /\ u \in Tables
        /\ CacheFull => u = hash_initialise(Addr)
        /\ ~ CacheFull => u = ns_hash
    BY EmptyFacts DEF TypeOK
  <1>2. /\ ns_hash' = hash_insert(u, a, "numeric")
        /\ ns_hash_n_entries' = (IF CacheFull THEN 0 ELSE ns_hash_n_entries) + 1
        /\ ~ hash_find(ns_hash, a)
    BY DEF ResolveMiss
  <1> HIDE DEF u
  <1>3. ~ hash_find(u, a)
    BY <1>1, <1>2, EmptyFacts
  <1>4. /\ ns_hash' \in Tables /\ hash_find(ns_hash, a)' /\ Nodes(ns_hash, a)' = 1
        /\ hash_record(ns_hash, a)' = "numeric"
        /\ \A b \in Addr \ {a} : ns_hash'[b] = u[b]
    BY <1>0, <1>1, <1>2, <1>3, InsertFacts
  <1>5. \A b \in Addr \ {a} : /\ hash_find(ns_hash, b)' = hash_find(u, b)
                              /\ hash_record(ns_hash, b)' = hash_record(u, b)
                              /\ Nodes(ns_hash, b)' = Nodes(u, b)
    BY <1>4, SameEntry
  <1>6. Cached' = IF CacheFull THEN {a} ELSE Cached \cup {a}
    BY <1>1, <1>4, <1>5, EmptyFacts DEF Cached
  <1>7. \A b \in Addr : Nodes(ns_hash, b)' <= 1
    BY <1>1, <1>4, <1>5, EmptyFacts DEF CountExact
  <1>8. a \notin Cached
    BY <1>2 DEF Cached
  <1>9. \A b \in Cached' \ {a} : hash_record(ns_hash, b)' = hash_record(ns_hash, b)
    BY <1>1, <1>5, <1>6 DEF Cached
  <1>10. ns_hash_n_entries' = IF CacheFull THEN 1 ELSE ns_hash_n_entries + 1
    BY <1>2
  <1> QED
    BY <1>4, <1>6, <1>7, <1>8, <1>9, <1>10
-----------------------------------------------------------------------------
(* The inductive invariant *)

(* Every set met in these proofs is finite. *)
LEMMA Finiteness ==
    /\ IsFiniteSet(Cached) /\ Cardinality(Cached) \in Nat
    /\ Cardinality(Workers) \in Nat
  <1>1. IsFiniteSet(Cached)
    BY ResolverAssumption, FS_Subset DEF Cached
  <1> QED
    BY <1>1, ResolverAssumption, FS_CardinalityType

(* A step that neither caches nor queues anything new keeps OutgrowthBound. *)
LEMMA OutgrowthShrinks ==
    ASSUME TypeOK, OutgrowthBound, Cached' \cup Pending' \subseteq Cached \cup Pending
    PROVE  OutgrowthBound'
  <1>1. IsFiniteSet(Cached \cup Pending)
    BY Finiteness, PendingSmall, FS_Union
  <1>2. /\ IsFiniteSet(Cached' \cup Pending')
        /\ Cardinality(Cached' \cup Pending') <= Cardinality(Cached \cup Pending)
    BY <1>1, FS_Subset
  <1>3. Cardinality(Cached' \cup Pending') \in Nat /\ Cardinality(Cached \cup Pending) \in Nat
    BY <1>1, <1>2, FS_CardinalityType
  <1> QED
    BY <1>2, <1>3, Finiteness, ResolverAssumption DEF OutgrowthBound

(* A resolve() that misses keeps the invariant: the new address is cached   *)
(* once and counted, and queued only if it is not local and the ring has    *)
(* room.                                                                    *)
LEMMA ResolveMissIInv ==
    ASSUME IInv, NEW c \in Clients, NEW a \in Addr, ResolveMiss(c, a)
    PROVE  IInv'
  <1> USE DEF IInv
  <1>1. TypeOK'
    <2>1. ns_hash' \in Tables /\ ns_hash_n_entries' \in Nat
      BY ResolveMissFacts DEF TypeOK
    <2>2. /\ resolve_queue' \in [Slots -> Addr \cup {NoAddr}]
          /\ head' \in Slots
          /\ added' \in [Clients -> BOOLEAN]
      BY NextSlotValue DEF TypeOK, ResolveMiss, Enqueue
    <2>3. UNCHANGED <<tail, worker, addr>>
      BY DEF ResolveMiss
    <2> QED
      BY <2>1, <2>2, <2>3 DEF TypeOK
  <1>2. CountExact'
    <2>1. Cardinality({a}) = 1 /\ Cardinality(Cached \cup {a}) = Cardinality(Cached) + 1
      BY Finiteness, FS_Singleton, FS_AddElement, ResolveMissFacts
    <2> QED
      BY <2>1, ResolveMissFacts DEF CountExact
  <1>3. RingSound'
    BY ResolveMissPending, ResolverAssumption DEF RingSound
  <1>4. OutgrowthBound'
    <2> DEFINE S == IF CacheFull THEN {a} ELSE Cached \cup {a}
    <2>1. IsFiniteSet(S) /\ Cardinality(S) \in Nat /\ Cardinality(S) <= NS_HASH_MAX_ENTRIES
      <3>1. CASE CacheFull
        <4>1. IsFiniteSet({a}) /\ Cardinality({a}) = 1
          BY FS_Singleton
        <4> QED
          BY <3>1, <4>1, ResolverAssumption
      <3>2. CASE ~ CacheFull
        <4>1. Cardinality(Cached) < NS_HASH_MAX_ENTRIES
          BY <3>2, Finiteness, ResolverAssumption DEF CacheFull, CountExact
        <4>2. IsFiniteSet(Cached \cup {a}) /\ Cardinality(Cached \cup {a}) = Cardinality(Cached) + 1
          BY Finiteness, FS_AddElement, ResolveMissFacts
        <4> QED
          BY <3>2, <4>1, <4>2, Finiteness, ResolverAssumption
      <3> QED
        BY <3>1, <3>2
    <2>2. Cached' \cup Pending' \subseteq S \cup Pending
      BY ResolveMissFacts, ResolveMissPending
    <2> HIDE DEF S
    <2>3. /\ IsFiniteSet(S \cup Pending)
          /\ Cardinality(S \cup Pending) = Cardinality(S) + Cardinality(Pending) - Cardinality(S \cap Pending)
      BY <2>1, PendingSmall, FS_Union
    <2>4. Cardinality(S \cap Pending) \in Nat
      BY <2>1, FS_Intersection, FS_CardinalityType
    <2>5. /\ IsFiniteSet(Cached' \cup Pending')
          /\ Cardinality(Cached' \cup Pending') <= Cardinality(S \cup Pending)
      BY <2>2, <2>3, FS_Subset
    <2>6. Cardinality(Cached' \cup Pending') \in Nat /\ Cardinality(S \cup Pending) \in Nat
      BY <2>3, <2>5, FS_CardinalityType
    <2> QED
      BY <2>1, <2>3, <2>4, <2>5, <2>6, PendingSmall, Finiteness, ResolverAssumption DEF OutgrowthBound
  <1>5. LocalNumeric'
    <2>1. Pending' \cap LocalAddr = {}
      BY ResolveMissPending DEF LocalNumeric
    <2>2. \A b \in Cached' \cap LocalAddr : hash_record(ns_hash, b)' = "numeric"
      BY ResolveMissFacts DEF LocalNumeric
    <2> QED
      BY <2>1, <2>2 DEF LocalNumeric
  <1> QED
    BY <1>1, <1>2, <1>3, <1>4, <1>5

(* A worker that takes an address or waits, without storing anything. *)
LEMMA TakeOrWaitIInv ==
    ASSUME IInv, NEW w \in Workers, TakeOrWait(w),
           UNCHANGED <<ns_hash, ns_hash_n_entries, resolve_queue, head, added>>
    PROVE  IInv'
  <1> USE DEF IInv
  <1>1. TypeOK'
    BY TakeOrWaitType DEF TypeOK
  <1>2. Cached' = Cached
    BY DEF Cached
  <1>3. Pending' \subseteq Pending
    BY TakeOrWaitPending
  <1>4. CountExact'
    BY <1>2 DEF CountExact
  <1>5. RingSound' /\ OutgrowthBound'
    BY <1>2, <1>3, OutgrowthShrinks DEF RingSound
  <1>6. LocalNumeric'
    BY <1>2, <1>3 DEF LocalNumeric
  <1> QED
    BY <1>1, <1>4, <1>5, <1>6

(* A worker that stores its answer keeps the invariant, whether the address *)
(* is still cached or was evicted while the lookup was running.             *)
LEMMA WorkerStoresIInv ==
    ASSUME IInv, NEW w \in Workers, WorkerStores(w)
    PROVE  IInv'
  <1> USE DEF IInv
  <1>0. Store(addr[w]) /\ TakeOrWait(w) /\ UNCHANGED <<resolve_queue, head, added>>
    BY DEF WorkerStores
  <1>1. addr[w] \in Pending
    BY DEF WorkerStores, Pending, InFlight
  <1>2. addr[w] \in Addr /\ addr[w] \notin LocalAddr
    BY <1>1 DEF RingSound, TypeOK, LocalNumeric
  <1>3. /\ ns_hash' \in Tables
        /\ ns_hash_n_entries' = IF addr[w] \in Cached THEN ns_hash_n_entries ELSE ns_hash_n_entries + 1
        /\ Cached' = Cached \cup {addr[w]}
        /\ \A b \in Addr : Nodes(ns_hash, b)' <= 1
        /\ \A b \in Addr \ {addr[w]} : hash_record(ns_hash, b)' = hash_record(ns_hash, b)
    BY <1>0, <1>2, StoreFacts
  <1>4. Pending' \subseteq Pending
    BY <1>0, TakeOrWaitPending
  <1>5. TypeOK'
    BY <1>0, <1>3, TakeOrWaitType DEF TypeOK
  <1>6. CountExact'
    <2>1. Cardinality(Cached \cup {addr[w]}) =
              IF addr[w] \in Cached THEN Cardinality(Cached) ELSE Cardinality(Cached) + 1
      BY Finiteness, FS_AddElement
    <2> QED
      BY <1>3, <2>1 DEF CountExact
  <1>7. RingSound' /\ OutgrowthBound'
    BY <1>1, <1>3, <1>4, OutgrowthShrinks DEF RingSound
  <1>8. LocalNumeric'
    <2>1. Pending' \cap LocalAddr = {}
      BY <1>4 DEF LocalNumeric
    <2>2. \A b \in Cached' \cap LocalAddr : hash_record(ns_hash, b)' = "numeric"
      BY <1>2, <1>3 DEF LocalNumeric, Cached
    <2> QED
      BY <2>1, <2>2 DEF LocalNumeric
  <1> QED
    BY <1>5, <1>6, <1>7, <1>8

(* The initial state satisfies the invariant: nothing is cached or pending. *)
LEMMA InitIInv ==
    ASSUME Init
    PROVE  IInv
  <1>1. TypeOK
    BY EmptyFacts, ResolverAssumption DEF Init, TypeOK, Slots, WorkerState
  <1>2. Cached = {} /\ \A a \in Addr : Nodes(ns_hash, a) <= 1
    BY EmptyFacts DEF Init, Cached
  <1>3. Pending = {}
    <2>1. LiveSlots = {}
      BY DEF Init, LiveSlots, Slots
    <2>2. InFlight = {}
      BY DEF Init, InFlight
    <2> QED
      BY <2>1, <2>2 DEF Pending, Queued
  <1>4. CountExact
    BY <1>2, FS_EmptySet DEF Init, CountExact
  <1>5. OutgrowthBound
    <2>1. Cardinality(Cached \cup Pending) = 0
      BY <1>2, <1>3, FS_EmptySet
    <2> QED
      BY <2>1, Finiteness, ResolverAssumption DEF OutgrowthBound
  <1> QED
    BY <1>1, <1>2, <1>3, <1>4, <1>5 DEF IInv, RingSound, LocalNumeric

(* Every step of the resolver keeps the invariant, one case per action. *)
LEMMA NextIInv ==
    ASSUME IInv, [Next]_vars
    PROVE  IInv'
  <1>1. ASSUME NEW c \in Clients, NEW a \in Addr, ResolveMiss(c, a)
        PROVE  IInv'
    BY <1>1, ResolveMissIInv
  <1>2. ASSUME NEW w \in Workers, WorkerWake(w) \/ WorkerFails(w)
        PROVE  IInv'
    BY <1>2, TakeOrWaitIInv DEF WorkerWake, WorkerFails
  <1>3. ASSUME NEW w \in Workers, WorkerStores(w)
        PROVE  IInv'
    BY <1>3, WorkerStoresIInv
  <1>4. ASSUME UNCHANGED <<ns_hash, ns_hash_n_entries, resolve_queue, head, tail, addr>>,
               worker' \in [Workers -> WorkerState], added' \in [Clients -> BOOLEAN],
               \A w \in Workers : worker'[w] = "resolving" => worker[w] = "resolving"
        PROVE  IInv'
    <2> USE <1>4 DEF IInv
    <2>1. Pending' \subseteq Pending /\ Cached' = Cached
      BY DEF Pending, Queued, LiveSlots, InFlight, Cached
    <2>2. TypeOK'
      BY DEF TypeOK
    <2>3. RingSound' /\ OutgrowthBound' /\ CountExact'
      BY <2>1, OutgrowthShrinks DEF RingSound, CountExact
    <2>4. LocalNumeric'
      BY <2>1 DEF LocalNumeric
    <2> QED
      BY <2>2, <2>3, <2>4
  <1>5. ASSUME NEW c \in Clients, Signal(c)
        PROVE  IInv'
    BY <1>4, <1>5 DEF Signal, IInv, TypeOK, WorkerState
  <1>6. ASSUME NEW w \in Workers, WorkerStart(w) \/ SpuriousWakeup(w)
        PROVE  IInv'
    BY <1>4, <1>6 DEF WorkerStart, SpuriousWakeup, IInv, TypeOK, WorkerState
  <1>7. ASSUME UNCHANGED vars
        PROVE  IInv'
    BY <1>4, <1>7 DEF vars, IInv, TypeOK
  <1> QED
    BY <1>1, <1>2, <1>3, <1>5, <1>6, <1>7 DEF Next, WorkerStep, ResolveFound

(* The invariant implies the bound on the number of entries: the entries    *)
(* are among the entries and pending addresses.                             *)
LEMMA IInvCacheBound ==
    ASSUME IInv
    PROVE  CacheBound
  <1>1. IsFiniteSet(Cached \cup Pending)
    BY Finiteness, PendingSmall, FS_Union DEF IInv
  <1>2. Cardinality(Cached) <= Cardinality(Cached \cup Pending) /\ Cardinality(Cached \cup Pending) \in Nat
    BY <1>1, FS_Subset, FS_CardinalityType
  <1> QED
    BY <1>2, Finiteness, ResolverAssumption DEF IInv, CountExact, OutgrowthBound, CacheBound

-----------------------------------------------------------------------------
(* Theorems *)

(* The invariant that the other theorems follow from, for any interleaving  *)
(* of resolve(), evictions and late answers (resolver.c:408-527).           *)
THEOREM InvariantHolds == Spec => []IInv
  BY InitIInv, NextIInv, PTL DEF Spec

(* resolver.c keeps its ring indices, its counter and its cache in range. *)
THEOREM TypeCorrect == Spec => []TypeOK
  <1>1. IInv => TypeOK
    BY DEF IInv
  <1> QED
    BY <1>1, InitIInv, NextIInv, PTL DEF Spec

(* ns_hash_n_entries is the number of cached addresses, each cached once,   *)
(* whatever the interleaving of resolve(), evictions and late answers.      *)
THEOREM CounterCorrect == Spec => []CountExact
  <1>1. IInv => CountExact
    BY DEF IInv
  <1> QED
    BY <1>1, InitIInv, NextIInv, PTL DEF Spec

(* The cache never exceeds its limit by more than the addresses that can be *)
(* pending when it is emptied.                                              *)
THEOREM CacheBounded == Spec => []CacheBound
  BY InitIInv, NextIInv, IInvCacheBound, PTL DEF Spec

(* Link-local and site-local addresses stay numerical (resolver.c:507-509). *)
THEOREM LocalStaysNumerical == Spec => []LocalNumeric
  <1>1. IInv => LocalNumeric
    BY DEF IInv
  <1> QED
    BY <1>1, InitIInv, NextIInv, PTL DEF Spec

(* The ring never hands a worker a slot that was not filled. *)
THEOREM RingCorrect == Spec => []RingSound
  <1>1. IInv => RingSound
    BY DEF IInv
  <1> QED
    BY <1>1, InitIInv, NextIInv, PTL DEF Spec

(* Once every worker has reached its wait, no step leaves a queued address  *)
(* without an awake worker or a signal on its way (resolver.c:421-424,      *)
(* 524-526).                                                                *)
THEOREM NoWakeupLost == Spec => NoLostWakeup
  <1>1. ASSUME TypeOK, AllStarted, Attended, [Next]_vars
        PROVE  Attended'
    <2> USE <1>1
    <2>1. ASSUME NEW c \in Clients, NEW a \in Addr, ResolveMiss(c, a)
          PROVE  Attended'
      BY <2>1 DEF ResolveMiss, Enqueue, AllStarted, Attended, TypeOK
    <2>2. ASSUME NEW w \in Workers, WorkerWake(w)
          PROVE  Attended'
      BY <2>2 DEF WorkerWake, TakeOrWait, AllStarted, Attended, TypeOK, WorkerState
    <2>3. ASSUME NEW w \in Workers, WorkerFails(w)
          PROVE  Attended'
      BY <2>3 DEF WorkerFails, TakeOrWait, AllStarted, Attended, TypeOK, WorkerState
    <2>4. ASSUME NEW w \in Workers, WorkerStores(w)
          PROVE  Attended'
      BY <2>4 DEF WorkerStores, TakeOrWait, AllStarted, Attended, TypeOK, WorkerState
    <2>5. ASSUME NEW c \in Clients, Signal(c)
          PROVE  Attended'
      BY <2>5, ResolverAssumption DEF Signal, AllStarted, Attended, TypeOK, WorkerState
    <2>6. ASSUME NEW w \in Workers, SpuriousWakeup(w)
          PROVE  Attended'
      BY <2>6 DEF SpuriousWakeup, AllStarted, Attended, TypeOK
    <2>7. ASSUME NEW w \in Workers, WorkerStart(w)
          PROVE  Attended'
      BY <2>7 DEF WorkerStart, AllStarted
    <2>8. ASSUME UNCHANGED vars
          PROVE  Attended'
      BY <2>8 DEF vars, AllStarted, Attended
    <2> QED
      BY <2>1, <2>2, <2>3, <2>4, <2>5, <2>6, <2>7, <2>8 DEF Next, WorkerStep, ResolveFound
  <1> QED
    BY <1>1, TypeCorrect, PTL DEF Spec, NoLostWakeup
=============================================================================
