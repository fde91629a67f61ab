---------------------------- MODULE ProcinfoProofs ----------------------------
(* Proofs about Procinfo for any number of heap blocks, any sockets and any  *)
(* flows.                                                                    *)
EXTENDS Procinfo, TLAPS

Requests == [flow : Flows, end : {"src", "dst"}]

(* What a thread may be doing: only main() ends, only the packet thread is   *)
(* cancelled, and it refreshes on Ethernet alone.                            *)
InTick == {"ticking", "building", "swapped", "analysing"}

Ending == {"cancelled", "destroying", "done"}

HeapTypes ==
    /\ live_table \in Table \cup {NULL} /\ staging_table \in Table \cup {NULL}
    /\ allocated \in SUBSET Table
    /\ entries \in [Table -> Seq(Sockets)]
    /\ tick_mutex \in Threads \cup {NULL}
    /\ old \in [Threads -> Table \cup {NULL}]
    /\ double_free \in BOOLEAN

LookupTypes ==
    /\ request \in [Threads -> Requests \cup {NoAnswer}]
    /\ reader \in [Threads -> Table \cup {NULL}]

Places ==
    /\ pc \in [Threads -> InTick \cup Ending \cup {"idle", "dead"}]
    /\ pc["main"] # "dead" /\ pc["packet"] \notin Ending
    /\ pc["packet"] = "dead" => pc["main"] \in Ending
    /\ ~ ethernet => pc["packet"] \in {"idle", "dead"}
    /\ \A th \in Threads : pc[th] \in InTick => tick_mutex = th

(* A thread searches nothing while it refreshes, and under the mutex it      *)
(* searches the live table.                                                  *)
LookupsInOrder ==
    \A th \in Threads :
        /\ request[th] = NoAnswer => reader[th] = NULL
        /\ pc[th] \in {"ticking", "building", "swapped"} => request[th] = NoAnswer
        /\ ~ Unjoined /\ pc[th] = "analysing" => reader[th] \in {NULL, live_table}

(* Which blocks can be held where.  These hold to the very end, whatever the *)
(* cancelled thread does.                                                    *)
NothingLost ==
    /\ allocated \subseteq {live_table, staging_table, old["main"], old["packet"]}
    /\ \A th \in Threads : old[th] # NULL => pc[th] \in {"swapped", "destroying"}
    /\ staging_table # NULL =>
          \/ \E th \in Threads : pc[th] \in {"building", "swapped"}
          \/ pc["packet"] = "dead" /\ ethernet
    /\ \A th \in Threads : pc[th] = "swapped" => staging_table \in {NULL, live_table, old["main"]}
    /\ ~ ethernet /\ pc["main"] \in {"destroying", "done"} => live_table = NULL

(* Until the tables are destroyed, what is held is allocated, and the table  *)
(* being built, the live one and the old one are three blocks.               *)
AllAllocated ==
    /\ {live_table, staging_table, old["main"], old["packet"]} \subseteq allocated \cup {NULL}
    /\ \A th \in Threads :
          /\ pc[th] = "building" => staging_table # NULL /\ staging_table # live_table
          /\ pc[th] = "swapped" => live_table # NULL /\ old[th] # live_table
    /\ ~ double_free

IInv ==
    /\ HeapTypes /\ LookupTypes /\ Places /\ LookupsInOrder /\ NothingLost
    /\ ~ Unjoined => AllAllocated

-----------------------------------------------------------------------------
(* The strengthened invariant says what is wanted of the heap.               *)
LEMMA Enough == IInv => HeapIsSound
  <1> SUFFICES ASSUME IInv PROVE HeapIsSound
    OBVIOUS
  <1>1. TypeOK
    <2>1. ASSUME NEW t \in Table PROVE Range(entries[t]) \subseteq Sockets
      <3>1. entries[t] \in Seq(Sockets)
        BY DEF IInv, HeapTypes
      <3> QED
        BY <3>1 DEF Range
    <2> QED
      BY <2>1 DEF IInv, HeapTypes, LookupTypes, TypeOK
  <1>2. pc["main"] = "done" /\ ~ ethernet => allocated = {}
    BY ProcinfoAssumption DEF IInv, HeapTypes, Places, NothingLost, Threads
  <1>3. ~ Unjoined => \A th \in Threads :
           pc[th] = "analysing" /\ reader[th] # NULL => reader[th] \in allocated
    BY DEF IInv, LookupsInOrder, AllAllocated
  <1>4. allocated \subseteq {live_table, staging_table} \cup {old[th] : th \in Threads}
    BY DEF IInv, NothingLost, Threads
  <1>5. double_free => Unjoined
    BY DEF IInv, AllAllocated
  <1> QED
    BY <1>1, <1>2, <1>3, <1>4, <1>5 DEF HeapIsSound

(* Before the first tick nothing is held.                                    *)
LEMMA InitInv == Init => IInv
  <1> SUFFICES ASSUME Init PROVE IInv
    OBVIOUS
  <1>1. HeapTypes
    <2>1. entries \in [Table -> Seq(Sockets)]
      BY DEF Init
    <2> QED
      BY <2>1 DEF Init, HeapTypes, Threads
  <1>4. LookupTypes
    BY DEF Init, LookupTypes
  <1>2. Places
    BY DEF Init, Places, InTick, Ending, Threads
  <1>3. LookupsInOrder /\ NothingLost /\ AllAllocated
    BY DEF Init, LookupsInOrder, NothingLost, AllAllocated, Threads
  <1> QED
    BY <1>1, <1>2, <1>3, <1>4 DEF IInv

(* The mutex lets one thread in.                                             *)
LEMMA TickStartKeeps ==
    ASSUME IInv, UNCHANGED ethernet, NEW th \in Threads, TickStart(th)
    PROVE  IInv'
  <1> USE DEF IInv, TickStart, Goto, tableVars, lookupVars
  <1>1. HeapTypes'
    BY DEF HeapTypes, Threads
  <1>2. LookupTypes'
    BY DEF LookupTypes, Requests
  <1>3. Places'
    BY ProcinfoAssumption DEF Places, InTick, Ending, Threads
  <1>4. LookupsInOrder'
    BY ProcinfoAssumption DEF LookupsInOrder, LookupTypes, Requests, Places, InTick, Threads, Unjoined, Ending
  <1>5. NothingLost'
    BY ProcinfoAssumption DEF NothingLost, HeapTypes, Places, InTick, Ending, Threads
  <1>6. ~ Unjoined' => AllAllocated'
    BY ProcinfoAssumption DEF AllAllocated, NothingLost, HeapTypes, Places, InTick, Ending, Threads, Unjoined
  <1> QED
    BY <1>1, <1>2, <1>3, <1>4, <1>5, <1>6

(* A refresh takes a block that is not allocated, so not one that is held.   *)
LEMMA RefreshStartKeeps ==
    ASSUME IInv, UNCHANGED ethernet, NEW th \in Threads, RefreshStart(th)
    PROVE  IInv'
  <1> USE DEF IInv, RefreshStart, Goto, tableVars, lookupVars
  <1>1. HeapTypes'
    BY DEF HeapTypes, Threads
  <1>2. LookupTypes'
    BY DEF LookupTypes, Requests
  <1>3. Places'
    BY ProcinfoAssumption DEF Places, InTick, Ending, Threads
  <1>4. LookupsInOrder'
    BY ProcinfoAssumption DEF LookupsInOrder, LookupTypes, Requests, Places, InTick, Threads, Unjoined, Ending
  <1>5. NothingLost'
    BY ProcinfoAssumption DEF NothingLost, HeapTypes, Places, InTick, Ending, Threads
  <1>6. ~ Unjoined' => AllAllocated'
    BY ProcinfoAssumption DEF AllAllocated, NothingLost, HeapTypes, Places, InTick, Ending, Threads, Unjoined
  <1> QED
    BY <1>1, <1>2, <1>3, <1>4, <1>5, <1>6

(* A tick without a refresh leaves the tables alone.                         *)
LEMMA NoRefreshKeeps ==
    ASSUME IInv, UNCHANGED ethernet, NEW th \in Threads, NoRefresh(th)
    PROVE  IInv'
  <1> USE DEF IInv, NoRefresh, Goto, tableVars, lookupVars
  <1>1. HeapTypes'
    BY DEF HeapTypes, Threads
  <1>2. LookupTypes'
    BY DEF LookupTypes, Requests
  <1>3. Places'
    BY ProcinfoAssumption DEF Places, InTick, Ending, Threads
  <1>4. LookupsInOrder'
    BY ProcinfoAssumption DEF LookupsInOrder, LookupTypes, Requests, Places, InTick, Threads, Unjoined, Ending
  <1>5. NothingLost'
    BY ProcinfoAssumption DEF NothingLost, HeapTypes, Places, InTick, Ending, Threads
  <1>6. ~ Unjoined' => AllAllocated'
    BY ProcinfoAssumption DEF AllAllocated, NothingLost, HeapTypes, Places, InTick, Ending, Threads, Unjoined
  <1> QED
    BY <1>1, <1>2, <1>3, <1>4, <1>5, <1>6

(* Entries go to the table being built.                                      *)
LEMMA table_addKeeps ==
    ASSUME IInv, UNCHANGED ethernet, NEW th \in Threads, table_add(th)
    PROVE  IInv'
  <1> USE DEF IInv, table_add, Goto, tableVars, lookupVars
  <1>1. HeapTypes'
    BY DEF HeapTypes, Threads
  <1>2. LookupTypes'
    BY DEF LookupTypes, Requests
  <1>3. Places'
    BY ProcinfoAssumption DEF Places, InTick, Ending, Threads
  <1>4. LookupsInOrder'
    BY ProcinfoAssumption DEF LookupsInOrder, LookupTypes, Requests, Places, InTick, Threads, Unjoined, Ending
  <1>5. NothingLost'
    BY ProcinfoAssumption DEF NothingLost, HeapTypes, Places, InTick, Ending, Threads
  <1>6. ~ Unjoined' => AllAllocated'
    BY ProcinfoAssumption DEF AllAllocated, NothingLost, HeapTypes, Places, InTick, Ending, Threads, Unjoined
  <1> QED
    BY <1>1, <1>2, <1>3, <1>4, <1>5, <1>6

(* The three blocks change places; none is lost.                             *)
LEMMA table_publishKeeps ==
    ASSUME IInv, UNCHANGED ethernet, NEW th \in Threads, table_publish(th)
    PROVE  IInv'
  <1> USE DEF IInv, table_publish, Goto, tableVars, lookupVars
  <1>1. HeapTypes'
    BY DEF HeapTypes, Threads
  <1>2. LookupTypes'
    BY DEF LookupTypes, Requests
  <1>3. Places'
    BY ProcinfoAssumption DEF Places, InTick, Ending, Threads
  <1>4. LookupsInOrder'
    BY ProcinfoAssumption DEF LookupsInOrder, LookupTypes, Requests, Places, InTick, Threads, Unjoined, Ending
  <1>5. NothingLost'
    BY ProcinfoAssumption DEF NothingLost, HeapTypes, Places, InTick, Ending, Threads
  <1>6. ~ Unjoined' => AllAllocated'
    BY ProcinfoAssumption DEF AllAllocated, NothingLost, HeapTypes, Places, InTick, Ending, Threads, Unjoined
  <1> QED
    BY <1>1, <1>2, <1>3, <1>4, <1>5, <1>6

(* The old table is no longer live when it is freed.                         *)
LEMMA FreeOldKeeps ==
    ASSUME IInv, UNCHANGED ethernet, NEW th \in Threads, FreeOld(th)
    PROVE  IInv'
  <1> USE DEF IInv, FreeOld, Goto, table_free, tableVars, lookupVars
  <1>1. HeapTypes'
    BY DEF HeapTypes, Threads
  <1>2. LookupTypes'
    BY DEF LookupTypes, Requests
  <1>3. Places'
    BY ProcinfoAssumption DEF Places, InTick, Ending, Threads
  <1>4. LookupsInOrder'
    BY ProcinfoAssumption DEF LookupsInOrder, LookupTypes, Requests, Places, InTick, Threads, Unjoined, Ending
  <1>5. NothingLost'
    BY ProcinfoAssumption DEF NothingLost, HeapTypes, Places, InTick, Ending, Threads
  <1>6. ~ Unjoined' => AllAllocated'
    BY ProcinfoAssumption DEF AllAllocated, NothingLost, HeapTypes, Places, InTick, Ending, Threads, Unjoined
  <1> QED
    BY <1>1, <1>2, <1>3, <1>4, <1>5, <1>6

(* A thread leaves the mutex without a lookup in progress.                   *)
LEMMA TickEndKeeps ==
    ASSUME IInv, UNCHANGED ethernet, NEW th \in Threads, TickEnd(th)
    PROVE  IInv'
  <1> USE DEF IInv, TickEnd, Goto, tableVars, lookupVars
  <1>1. HeapTypes'
    BY DEF HeapTypes, Threads
  <1>2. LookupTypes'
    BY DEF LookupTypes, Requests
  <1>3. Places'
    BY ProcinfoAssumption DEF Places, InTick, Ending, Threads
  <1>4. LookupsInOrder'
    BY ProcinfoAssumption DEF LookupsInOrder, LookupTypes, Requests, Places, InTick, Threads, Unjoined, Ending
  <1>5. NothingLost'
    BY ProcinfoAssumption DEF NothingLost, HeapTypes, Places, InTick, Ending, Threads
  <1>6. ~ Unjoined' => AllAllocated'
    BY ProcinfoAssumption DEF AllAllocated, NothingLost, HeapTypes, Places, InTick, Ending, Threads, Unjoined
  <1> QED
    BY <1>1, <1>2, <1>3, <1>4, <1>5, <1>6

(* A lookup loads the live table.                                            *)
LEMMA LookupStartKeeps ==
    ASSUME IInv, UNCHANGED ethernet, NEW th \in Threads, LookupStart(th)
    PROVE  IInv'
  <1> USE DEF IInv, LookupStart, Lookup, MayLookUp, tableVars, lookupVars
  <1>1. HeapTypes'
    BY DEF HeapTypes, Threads
  <1>2. LookupTypes'
    BY DEF LookupTypes, HeapTypes, Requests
  <1>3. Places'
    BY ProcinfoAssumption DEF Places, InTick, Ending, Threads
  <1>4. LookupsInOrder'
    BY ProcinfoAssumption DEF LookupsInOrder, LookupTypes, Requests, Places, InTick, Threads, Unjoined, Ending
  <1>5. NothingLost'
    BY ProcinfoAssumption DEF NothingLost, HeapTypes, Places, InTick, Ending, Threads
  <1>6. ~ Unjoined' => AllAllocated'
    BY ProcinfoAssumption DEF AllAllocated, NothingLost, HeapTypes, Places, InTick, Ending, Threads, Unjoined
  <1> QED
    BY <1>1, <1>2, <1>3, <1>4, <1>5, <1>6

(* The second lookup loads it again.                                         *)
LEMMA LookupScanKeeps ==
    ASSUME IInv, UNCHANGED ethernet, NEW th \in Threads, LookupScan(th)
    PROVE  IInv'
  <1> USE DEF IInv, LookupScan, Lookup, MayLookUp, tableVars, lookupVars
  <1>1. HeapTypes'
    BY DEF HeapTypes, Threads
  <1>2. LookupTypes'
    <2>1. request[th] \in Requests
      BY DEF LookupTypes
    <2>2. request[th].flow \in Flows
      BY <2>1 DEF Requests
    <2>3. [flow |-> request[th].flow, end |-> "dst"] \in Requests
      BY <2>2 DEF Requests
    <2>4. \/ request' = [request EXCEPT ![th] = [flow |-> request[th].flow, end |-> "dst"]]
          \/ request' = [request EXCEPT ![th] = NoAnswer]
      OBVIOUS
    <2>5. \/ reader' = [reader EXCEPT ![th] = live_table]
          \/ reader' = [reader EXCEPT ![th] = NULL]
      OBVIOUS
    <2> QED
      BY <2>3, <2>4, <2>5 DEF LookupTypes, HeapTypes
  <1>3. Places'
    BY ProcinfoAssumption DEF Places, InTick, Ending, Threads
  <1>4. LookupsInOrder'
    BY ProcinfoAssumption DEF LookupsInOrder, LookupTypes, Requests, Places, InTick, Threads, Unjoined, Ending
  <1>5. NothingLost'
    BY ProcinfoAssumption DEF NothingLost, HeapTypes, Places, InTick, Ending, Threads
  <1>6. ~ Unjoined' => AllAllocated'
    BY ProcinfoAssumption DEF AllAllocated, NothingLost, HeapTypes, Places, InTick, Ending, Threads, Unjoined
  <1> QED
    BY <1>1, <1>2, <1>3, <1>4, <1>5, <1>6

(* The end begins between two ticks.                                         *)
LEMMA QuitKeeps ==
    ASSUME IInv, UNCHANGED ethernet, Quit
    PROVE  IInv'
  <1> USE DEF IInv, Quit, Goto, tableVars, lookupVars
  <1>1. HeapTypes'
    BY DEF HeapTypes, Threads
  <1>2. LookupTypes'
    BY DEF LookupTypes, Requests
  <1>3. Places'
    BY ProcinfoAssumption DEF Places, InTick, Ending, Threads
  <1>4. LookupsInOrder'
    BY ProcinfoAssumption DEF LookupsInOrder, LookupTypes, Requests, Places, InTick, Threads, Unjoined, Ending
  <1>5. NothingLost'
    BY ProcinfoAssumption DEF NothingLost, HeapTypes, Places, InTick, Ending, Threads
  <1>6. ~ Unjoined' => AllAllocated'
    BY ProcinfoAssumption DEF AllAllocated, NothingLost, HeapTypes, Places, InTick, Ending, Threads, Unjoined
  <1> QED
    BY <1>1, <1>2, <1>3, <1>4, <1>5, <1>6

(* Without Ethernet nobody else can have a table then.                       *)
LEMMA DestroySwapKeeps ==
    ASSUME IInv, UNCHANGED ethernet, DestroySwap
    PROVE  IInv'
  <1> USE DEF IInv, DestroySwap, Goto, tableVars, lookupVars
  <1>1. HeapTypes'
    BY DEF HeapTypes, Threads
  <1>2. LookupTypes'
    BY DEF LookupTypes, Requests
  <1>3. Places'
    BY ProcinfoAssumption DEF Places, InTick, Ending, Threads
  <1>4. LookupsInOrder'
    BY ProcinfoAssumption DEF LookupsInOrder, LookupTypes, Requests, Places, InTick, Threads, Unjoined, Ending
  <1>5. NothingLost'
    BY ProcinfoAssumption DEF NothingLost, HeapTypes, Places, InTick, Ending, Threads
  <1>6. ~ Unjoined' => AllAllocated'
    BY ProcinfoAssumption DEF AllAllocated, NothingLost, HeapTypes, Places, InTick, Ending, Threads, Unjoined
  <1> QED
    BY <1>1, <1>2, <1>3, <1>4, <1>5, <1>6

(* Everything main() can see is freed.                                       *)
LEMMA DestroyFreeKeeps ==
    ASSUME IInv, UNCHANGED ethernet, DestroyFree
    PROVE  IInv'
  <1> USE DEF IInv, DestroyFree, Goto, table_free, tableVars, lookupVars
  <1>1. HeapTypes'
    BY DEF HeapTypes, Threads
  <1>2. LookupTypes'
    BY DEF LookupTypes, Requests
  <1>3. Places'
    BY ProcinfoAssumption DEF Places, InTick, Ending, Threads
  <1>4. LookupsInOrder'
    BY ProcinfoAssumption DEF LookupsInOrder, LookupTypes, Requests, Places, InTick, Threads, Unjoined, Ending
  <1>5. NothingLost'
    BY ProcinfoAssumption DEF NothingLost, HeapTypes, Places, InTick, Ending, Threads
  <1>6. ~ Unjoined' => AllAllocated'
    BY ProcinfoAssumption DEF AllAllocated, NothingLost, HeapTypes, Places, InTick, Ending, Threads, Unjoined
  <1> QED
    BY <1>1, <1>2, <1>3, <1>4, <1>5, <1>6

(* A refresh that was cut short leaves its table behind.                     *)
LEMMA PacketCancelledKeeps ==
    ASSUME IInv, UNCHANGED ethernet, PacketCancelled
    PROVE  IInv'
  <1> USE DEF IInv, PacketCancelled, Goto, tableVars, lookupVars
  <1>1. HeapTypes'
    BY DEF HeapTypes, Threads
  <1>2. LookupTypes'
    BY DEF LookupTypes, Requests
  <1>3. Places'
    BY ProcinfoAssumption DEF Places, InTick, Ending, Threads
  <1>4. LookupsInOrder'
    BY ProcinfoAssumption DEF LookupsInOrder, LookupTypes, Requests, Places, InTick, Threads, Unjoined, Ending
  <1>5. NothingLost'
    BY ProcinfoAssumption DEF NothingLost, HeapTypes, Places, InTick, Ending, Threads
  <1>6. ~ Unjoined' => AllAllocated'
    BY ProcinfoAssumption DEF AllAllocated, NothingLost, HeapTypes, Places, InTick, Ending, Threads, Unjoined
  <1> QED
    BY <1>1, <1>2, <1>3, <1>4, <1>5, <1>6

(* The invariant is inductive.                                               *)
LEMMA NextKeeps == IInv /\ [Next]_vars => IInv'
  <1> SUFFICES ASSUME IInv, [Next]_vars PROVE IInv'
    OBVIOUS
  <1>1. CASE UNCHANGED vars
    BY <1>1 DEF IInv, HeapTypes, LookupTypes, Places, LookupsInOrder, NothingLost, AllAllocated,
                Unjoined, vars
  <1>2. ASSUME NEW th \in Threads, UNCHANGED ethernet,
               \/ TickStart(th) \/ RefreshStart(th) \/ NoRefresh(th) \/ table_add(th)
               \/ table_publish(th) \/ FreeOld(th) \/ TickEnd(th)
               \/ LookupStart(th) \/ LookupScan(th)
        PROVE  IInv'
    BY <1>2, TickStartKeeps, RefreshStartKeeps, NoRefreshKeeps, table_addKeeps, table_publishKeeps,
       FreeOldKeeps, TickEndKeeps, LookupStartKeeps, LookupScanKeeps
  <1>3. ASSUME Quit \/ DestroySwap \/ DestroyFree \/ PacketCancelled, UNCHANGED ethernet
        PROVE  IInv'
    BY <1>3, QuitKeeps, DestroySwapKeeps, DestroyFreeKeeps, PacketCancelledKeeps
  <1> QED
    BY <1>1, <1>2, <1>3 DEF Next, Step

-----------------------------------------------------------------------------
(* Two threads refresh and search the table and main() destroys it, with any *)
(* number of blocks: the inductive invariant.                                *)
THEOREM InvariantHolds == Spec => []IInv
  BY InitInv, NextKeeps, PTL DEF Spec

(* No block is lost or freed twice, and no lookup under the mutex reads a    *)
(* freed one (procinfo.c:116-144, 407-439).                                  *)
THEOREM HeapCorrect == Spec => []HeapIsSound
  BY InvariantHolds, Enough, PTL

(* The live table is never written (procinfo.c:43, 129-134).                 *)
THEOREM FrozenWhenLive == Spec => PublishedIsFrozen
  <1> DEFINE Frozen == ~ Unjoined /\ live_table # NULL /\ live_table' = live_table =>
                          entries'[live_table] = entries[live_table]
  <1>1. IInv /\ [Next]_vars => [Frozen]_vars
    <2> SUFFICES ASSUME IInv, Step, ~ Unjoined, live_table # NULL, entries' # entries
                 PROVE  entries'[live_table] = entries[live_table]
      BY DEF Next
    <2>1. live_table \in allocated /\ live_table \in Table /\ entries \in [Table -> Seq(Sockets)]
      BY DEF IInv, HeapTypes, AllAllocated
    <2>2. PICK th \in Threads : RefreshStart(th) \/ table_add(th)
      BY DEF Step, TickStart, NoRefresh, table_publish, FreeOld, TickEnd, LookupStart, LookupScan,
             Quit, DestroySwap, DestroyFree, PacketCancelled, tableVars
    <2>3. CASE RefreshStart(th)
      BY <2>1, <2>3 DEF RefreshStart
    <2>4. CASE table_add(th)
      BY <2>1, <2>4 DEF table_add, IInv, AllAllocated
    <2> QED
      BY <2>2, <2>3, <2>4
  <1> QED
    BY <1>1, InvariantHolds, PTL DEF Spec, PublishedIsFrozen
===============================================================================
