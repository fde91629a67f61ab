------------------------------ MODULE Procinfo ------------------------------
(***************************************************************************)
(* The socket-to-process table of src/src/util/procinfo.c.  A refresh,     *)
(* which runs inside tick() and so under tick_mutex, builds a new table    *)
(* and exchanges it with the live one; lookups are made by analyse_data(), *)
(* under the same mutex, and by the packet thread, under none.  At the end *)
(* main() cancels the packet thread, does not wait for it, and destroys    *)
(* the tables.                                                             *)
(*                                                                         *)
(* The packet thread calls tick() only for Ethernet frames.  Failing       *)
(* allocations are left out.                                               *)
(***************************************************************************)
EXTENDS Integers, Sequences, Functions

CONSTANTS
    Table,          \* heap blocks for sock_table_t
    NULL,
    Sockets,        \* what the kernel can report, one record per socket
    AnyAddr,        \* the wildcard address
    Flows,          \* address pairs and their protocols, near end first
    NoAnswer

ASSUME ProcinfoAssumption ==
    /\ NULL \notin Table \cup {"main", "packet"}
    /\ NoAnswer \notin [flow : Flows, end : {"src", "dst"}]

VARIABLES
    ethernet,       \* the link layer, chosen when the interface is opened
    live_table,
    staging_table,
    allocated,      \* the blocks calloc() gave and free() has not taken back
    entries,        \* table -> its sockets, in order
    tick_mutex,     \* the thread that holds it, or NULL
    pc,
    old,            \* the table a thread is about to free
    request,        \* the lookup a thread is in
    reader,         \* the table that lookup has loaded
    answer,         \* the last process found
    double_free     \* free() was given a block that is not allocated

vars == <<ethernet, live_table, staging_table, allocated, entries, tick_mutex, pc, old, request,
          reader, answer, double_free>>

tableVars == <<live_table, staging_table, allocated, entries, double_free>>

lookupVars == <<request, reader, answer>>

Threads == {"main", "packet"}

Init ==
    /\ ethernet \in BOOLEAN
    /\ live_table = NULL
    /\ staging_table = NULL
    /\ allocated = {}
    /\ entries = [t \in Table |-> <<>>]
    /\ tick_mutex = NULL
    /\ pc = [th \in Threads |-> "idle"]
    /\ old = [th \in Threads |-> NULL]
    /\ request = [th \in Threads |-> NoAnswer]
    /\ reader = [th \in Threads |-> NULL]
    /\ answer = NoAnswer
    /\ double_free = FALSE

Goto(th, l) == pc' = [pc EXCEPT ![th] = l]

-----------------------------------------------------------------------------
(* The tables *)

(* A socket's port, protocol and address against one end of a flow.  A      *)
(* socket bound to an IPv4-mapped IPv6 address is recorded with family 6    *)
(* and that IPv4 address.                                                   *)
Matches(e, af, end, protocol) ==
    /\ e.port = end.port /\ e.protocol = protocol
    /\ \/ e.af = af /\ ~ e.mapped /\ e.addr \in {end.addr, AnyAddr}
       \/ af = 4 /\ e.af = 6 /\ e.mapped /\ e.addr = end.addr

(* The first entry that matches, in table order. *)
table_find(t, af, end, protocol) ==
    LET hits == {i \in DOMAIN entries[t] : Matches(entries[t][i], af, end, protocol)}
    IN  IF t = NULL \/ hits = {} THEN NoAnswer
        ELSE entries[t][CHOOSE i \in hits : \A j \in hits : i <= j].pid

(* table_free(t), then table_free(u); free() ignores NULL. *)
table_free(t, u) ==
    /\ allocated' = allocated \ {t, u}
    /\ double_free' = (\/ double_free
                       \/ ~ ({t, u} \subseteq allocated \cup {NULL})
                       \/ t = u /\ t # NULL)

-----------------------------------------------------------------------------
(* tick(): perhaps a refresh, then analyse_data() *)

TickStart(th) ==
    /\ pc[th] = "idle"
    /\ request[th] = NoAnswer
    /\ th = "packet" => ethernet
    /\ tick_mutex = NULL
    /\ tick_mutex' = th
    /\ Goto(th, "ticking")
    /\ UNCHANGED <<tableVars, old, lookupVars>>

RefreshStart(th) ==
    /\ pc[th] = "ticking"
    /\ \E t \in Table \ allocated :
          /\ staging_table' = t
          /\ allocated' = allocated \cup {t}
          /\ entries' = [entries EXCEPT ![t] = <<>>]
    /\ Goto(th, "building")
    /\ UNCHANGED <<live_table, tick_mutex, old, lookupVars, double_free>>

NoRefresh(th) ==
    /\ pc[th] = "ticking"
    /\ Goto(th, "analysing")
    /\ UNCHANGED <<tableVars, tick_mutex, old, lookupVars>>

(* A socket found while walking the processes.  Which ones are found, and   *)
(* in which order, is up to the kernel.  Once procinfo_destroy() has freed  *)
(* the table being built, adding to it is undefined; it is left out.        *)
table_add(th) ==
    /\ pc[th] = "building"
    /\ staging_table \in allocated
    /\ \E s \in Sockets \ Range(entries[staging_table]) :
          entries' = [entries EXCEPT ![staging_table] = Append(@, s)]
    /\ UNCHANGED <<live_table, staging_table, allocated, tick_mutex, pc, old, lookupVars, double_free>>

MutantPublishFirst(th) ==
    /\ pc[th] = "building"
    /\ old' = [old EXCEPT ![th] = IF live_table = staging_table THEN NULL ELSE live_table]
    /\ live_table' = staging_table
    /\ Goto(th, IF live_table = staging_table THEN "swapped" ELSE "building")
    /\ UNCHANGED <<staging_table, allocated, entries, tick_mutex, lookupVars, double_free>>

(* table_publish(): the exchange; what was live is still to be freed. *)
table_publish(th) ==
    /\ pc[th] = "building"
    /\ old' = [old EXCEPT ![th] = live_table]
    /\ live_table' = staging_table
    /\ Goto(th, "swapped")
    /\ UNCHANGED <<staging_table, allocated, entries, tick_mutex, lookupVars, double_free>>

MutantStagingKept(th) ==
    /\ pc[th] = "swapped"
    /\ table_free(old[th], NULL)
    /\ old' = [old EXCEPT ![th] = NULL]
    /\ Goto(th, "analysing")
    /\ UNCHANGED <<live_table, staging_table, entries, tick_mutex, lookupVars>>

(* The rest of it: staging_table = NULL, and the old table is freed. *)
FreeOld(th) ==
    /\ pc[th] = "swapped"
    /\ staging_table' = NULL
    /\ table_free(old[th], NULL)
    /\ old' = [old EXCEPT ![th] = NULL]
    /\ Goto(th, "analysing")
    /\ UNCHANGED <<live_table, entries, tick_mutex, lookupVars>>

TickEnd(th) ==
    /\ pc[th] = "analysing"
    /\ request[th] = NoAnswer
    /\ tick_mutex' = NULL
    /\ Goto(th, "idle")
    /\ UNCHANGED <<tableVars, old, lookupVars>>

-----------------------------------------------------------------------------
(* procinfo_lookup(), for the source of a flow and, failing that, for the   *)
(* destination.                                                             *)

MayLookUp(th) == pc[th] = "analysing" \/ (th = "packet" /\ pc[th] = "idle")

Lookup(th, f, end) ==
    /\ request' = [request EXCEPT ![th] = [flow |-> f, end |-> end]]
    /\ reader' = [reader EXCEPT ![th] = live_table]

LookupStart(th) ==
    /\ MayLookUp(th)
    /\ request[th] = NoAnswer
    /\ \E f \in Flows : Lookup(th, f, "src")
    /\ UNCHANGED <<tableVars, tick_mutex, pc, old, answer>>

LookupScan(th) ==
    /\ request[th] # NoAnswer
    /\ LET f == request[th].flow
           end == request[th].end
           pid == IF reader[th] = NULL THEN NoAnswer
                  ELSE table_find(reader[th], f.af, f[end], f.protocol)
       IN  IF pid = NoAnswer /\ end = "src"
           THEN Lookup(th, f, "dst") /\ UNCHANGED answer
           ELSE /\ request' = [request EXCEPT ![th] = NoAnswer]
                /\ reader' = [reader EXCEPT ![th] = NULL]
                /\ answer' = IF pid = NoAnswer THEN NoAnswer ELSE [flow |-> f, pid |-> pid]
    /\ UNCHANGED <<tableVars, tick_mutex, pc, old>>

-----------------------------------------------------------------------------
(* The end of main(): pthread_cancel(), then procinfo_destroy(). *)

Quit ==
    /\ pc["main"] = "idle"
    /\ Goto("main", "cancelled")
    /\ UNCHANGED <<tableVars, tick_mutex, old, lookupVars>>

DestroySwap ==
    /\ pc["main"] = "cancelled"
    /\ old' = [old EXCEPT !["main"] = live_table]
    /\ live_table' = NULL
    /\ Goto("main", "destroying")
    /\ UNCHANGED <<staging_table, allocated, entries, tick_mutex, lookupVars, double_free>>

DestroyFree ==
    /\ pc["main"] = "destroying"
    /\ table_free(old["main"], staging_table)
    /\ old' = [old EXCEPT !["main"] = NULL]
    /\ staging_table' = NULL
    /\ Goto("main", "done")
    /\ UNCHANGED <<live_table, entries, tick_mutex, lookupVars>>

(* The cancelled thread ends at a cancellation point: between two packets,  *)
(* or at one of the file operations of a refresh.                           *)
PacketCancelled ==
    /\ pc["main"] \in {"cancelled", "destroying", "done"}
    /\ pc["packet"] \in {"idle", "building"}
    /\ request["packet"] = NoAnswer
    /\ Goto("packet", "dead")
    /\ UNCHANGED <<tableVars, tick_mutex, old, lookupVars>>

-----------------------------------------------------------------------------

Step ==
    \/ \E th \in Threads :
          \/ TickStart(th) \/ RefreshStart(th) \/ NoRefresh(th) \/ table_add(th)
          \/ table_publish(th) \/ FreeOld(th) \/ TickEnd(th)
          \/ LookupStart(th) \/ LookupScan(th)
    \/ Quit \/ DestroySwap \/ DestroyFree \/ PacketCancelled

Next == Step /\ UNCHANGED ethernet

Spec == Init /\ [][Next]_vars

-----------------------------------------------------------------------------
(* Properties *)

TypeOK ==
    /\ live_table \in Table \cup {NULL}
    /\ staging_table \in Table \cup {NULL}
    /\ allocated \subseteq Table
    /\ \A t \in Table : Range(entries[t]) \subseteq Sockets
    /\ tick_mutex \in Threads \cup {NULL}
    /\ old \in [Threads -> Table \cup {NULL}]
    /\ reader \in [Threads -> Table \cup {NULL}]
    /\ double_free \in BOOLEAN

(* main() destroys the tables while the packet thread, cancelled but not    *)
(* joined (iftop.c:866-869), may still be refreshing.                       *)
Unjoined == ethernet /\ pc["main"] \in {"destroying", "done"}

(* Every allocated block is the live table, the one being built, or the one *)
(* about to be freed, however refreshes by two threads follow each other    *)
(* ("multiple refreshes do not leak", test_procinfo.c:182), and none is     *)
(* freed twice: what is published is no longer staging when another refresh *)
(* or procinfo_destroy() begins (procinfo.c:129-134, 435-439), unless the   *)
(* packet thread is in table_publish() at the end.  Nothing is left once    *)
(* procinfo_destroy() has returned ("Free all internal state.",             *)
(* procinfo.h:32), on Ethernet up to what the cancelled packet thread still *)
(* has.  And the mutex makes the lookups of analyse_data() safe where the   *)
(* packet thread's are not: until the tables are destroyed, no refresh, by  *)
(* either thread, frees what they search (iftop.c:184-220).                 *)
HeapIsSound ==
    /\ TypeOK
    /\ pc["main"] = "done" /\ ~ ethernet => allocated = {}
    /\ ~ Unjoined => \A th \in Threads :
          pc[th] = "analysing" /\ reader[th] # NULL => reader[th] \in allocated
    /\ allocated \subseteq {live_table, staging_table} \cup {old[th] : th \in Threads}
    /\ double_free => Unjoined

(* A lookup never finds a table that is still being filled: nothing is      *)
(* added to a table while it is the live one (procinfo.c:43, 129-134).      *)
PublishedIsFrozen ==
    [][~ Unjoined /\ live_table # NULL /\ live_table' = live_table =>
          entries'[live_table] = entries[live_table]]_vars

(* "Thread safety: [...] procinfo_lookup() may be called from the packet    *)
(* capture thread" (procinfo.c:8-11): a table being searched is not freed.  *)
LookupReadsAllocated == \A th \in Threads : reader[th] # NULL => reader[th] \in allocated

=============================================================================
