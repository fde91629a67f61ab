------------------------------- MODULE History -------------------------------
(***************************************************************************)
(* The traffic history of src/src/entry/iftop.c: one record per flow, each *)
(* with two ring buffers of HISTORY_LENGTH slots, the same for the totals, *)
(* and one position history_pos that all of them share.                    *)
(*                                                                         *)
(* The recording end of handle_ip_packet() and history_rotate() are one    *)
(* action each here. handle_ip_packet() takes no lock, so a packet may be  *)
(* counted while the other thread rotates: that is outside this module.    *)
(***************************************************************************)
EXTENDS Integers, FiniteSets, FiniteSetsExt

CONSTANTS
    Flow,              \* the address pairs (addr_pair)
    NoHistory,         \* what addr_hash_find gives for a pair not in the table
    HISTORY_LENGTH,    \* 40 in the code
    PacketLengths,     \* packet lengths in bytes
    MaxBytes           \* bound on the bytes captured in all

VARIABLES
    history,           \* flow -> its record, or NoHistory
    history_totals,
    history_pos,
    history_len

vars == <<history, history_totals, history_pos, history_len>>

Slots == 0 .. HISTORY_LENGTH - 1

Sides == {"sent", "recv"}

(* history_type without the cached process: slot[side] stands for the       *)
(* arrays sent and recv, total[side] for total_sent and total_recv.         *)
history_type ==
    [slot : [Sides -> [Slots -> Nat]], total : [Sides -> Nat], last_write : Slots]

ASSUME HistoryAssumption ==
    /\ HISTORY_LENGTH \in Nat \ {0}
    /\ PacketLengths \subseteq Nat
    /\ MaxBytes \in Nat
    /\ NoHistory \notin history_type

(* A record from the pool, cleared. *)
history_create ==
    [slot |-> [s \in Sides |-> [i \in Slots |-> 0]], total |-> [s \in Sides |-> 0], last_write |-> 0]

Init ==
    /\ history = [f \in Flow |-> NoHistory]
    /\ history_totals = history_create
    /\ history_pos = 0
    /\ history_len = 1

Listed(f) == history[f] # NoHistory

-----------------------------------------------------------------------------
(* The end of handle_ip_packet() *)

(* n bytes counted on one side of a record. *)
Added(rec, side, n) ==
    [slot |-> [rec.slot EXCEPT ![side][history_pos] = @ + n],
     total |-> [rec.total EXCEPT ![side] = @ + n],
     last_write |-> rec.last_write]

(* The flow's record, created if need be. *)
RecordOf(f) == IF Listed(f) THEN history[f] ELSE history_create

MutantCounted(f, side, n) ==
    [Added(RecordOf(f), side, n) EXCEPT !.last_write = IF side = "sent" THEN history_pos ELSE @]

(* The same with the packet in it. *)
Counted(f, side, n) == [Added(RecordOf(f), side, n) EXCEPT !.last_write = history_pos]

(* side: whether the packet's source is the source of the flow (sent) or    *)
(* not (recv).  totalSide: sent when the direction is outgoing.  A packet   *)
(* is outgoing only when its pair was not flipped, so then it is sent.      *)
RecordPacket(f, side, totalSide, n) ==
    /\ totalSide = "sent" => side = "sent"
    /\ history_totals.total["sent"] + history_totals.total["recv"] + n <= MaxBytes
    /\ history' = [history EXCEPT ![f] = Counted(f, side, n)]
    /\ history_totals' = Added(history_totals, totalSide, n)
    /\ UNCHANGED <<history_pos, history_len>>

-----------------------------------------------------------------------------
(* history_rotate() *)

NextPos == (history_pos + 1) % HISTORY_LENGTH

MutantExpired(rec) == rec.last_write = (NextPos + 1) % HISTORY_LENGTH

(* The slot about to be reused is the one of the flow's last packet. *)
Expired(rec) == rec.last_write = NextPos

MutantCleared(rec) == [rec EXCEPT !.slot["sent"][NextPos] = 0]

Cleared(rec) ==
    [slot |-> [s \in Sides |-> [rec.slot[s] EXCEPT ![NextPos] = 0]],
     total |-> rec.total,
     last_write |-> rec.last_write]

(* What the loop does with the record of a flow. *)
Rotated(f) ==
    IF ~ Listed(f) \/ Expired(history[f]) THEN NoHistory ELSE Cleared(history[f])

NextLen == IF history_len < HISTORY_LENGTH THEN history_len + 1 ELSE history_len

history_rotate ==
    /\ history_pos' = NextPos
    /\ history' = [f \in Flow |-> Rotated(f)]
    /\ history_totals' = Cleared(history_totals)
    /\ history_len' = NextLen

-----------------------------------------------------------------------------

Next ==
    \/ \E f \in Flow, side \in Sides, totalSide \in Sides, n \in PacketLengths :
          RecordPacket(f, side, totalSide, n)
    \/ history_rotate

Spec == Init /\ [][Next]_vars

-----------------------------------------------------------------------------
(* Properties *)

TypeOK ==
    /\ history \in [Flow -> history_type \cup {NoHistory}]
    /\ history_totals \in history_type
    /\ history_pos \in Slots
    /\ history_len \in 1 .. HISTORY_LENGTH

(* The slot that was current k rotations ago, and the reverse. *)
SlotOf(k) == IF k <= history_pos THEN history_pos - k ELSE history_pos - k + HISTORY_LENGTH

AgeOf(i) == SlotOf(i)

(* A record holds nothing younger than its last write.  This is what makes  *)
(* it right to drop a whole record, all 2 * HISTORY_LENGTH slots of it, on  *)
(* looking at last_write alone (iftop.c:157-159).                           *)
NothingAfterLastWrite ==
    \A f \in Flow, s \in Sides, i \in Slots :
        Listed(f) /\ AgeOf(i) < AgeOf(history[f].last_write) => history[f].slot[s][i] = 0

(* Slots the capture has not reached yet are empty, so that an average over *)
(* history_len slots loses nothing (iftop.c:170-172, ui.c:735-748).         *)
NothingBeforeStart ==
    \A s \in Sides, i \in Slots : AgeOf(i) >= history_len =>
        /\ history_totals.slot[s][i] = 0
        /\ \A f \in Flow : Listed(f) => history[f].slot[s][i] = 0

IInv == TypeOK /\ NothingAfterLastWrite /\ NothingBeforeStart

Bytes(rec, i) == rec.slot["sent"][i] + rec.slot["recv"][i]

(* In every slot the totals are the sum over the flows: dropping a flow     *)
(* never takes bytes out of the window that the totals still show           *)
(* (iftop.c:157-168).  Sides are summed since the totals may disagree with  *)
(* a flow about the side of a packet.                                       *)
SlotsAddUp ==
    \A i \in Slots :
        Bytes(history_totals, i) = MapThenSumSet(LAMBDA f : Bytes(history[f], i),
                                                 {f \in Flow : Listed(f)})

-----------------------------------------------------------------------------
(* The ring buffers implement a sliding window. *)

FlowWindow(f) ==
    [s \in Sides |-> [k \in Slots |-> IF Listed(f) THEN history[f].slot[s][SlotOf(k)] ELSE 0]]

TotalWindow == [s \in Sides |-> [k \in Slots |-> history_totals.slot[s][SlotOf(k)]]]

FlowTotal(f) == IF Listed(f) THEN history[f].total ELSE [s \in Sides |-> 0]

FlowIdle(f) == IF Listed(f) THEN AgeOf(history[f].last_write) ELSE HISTORY_LENGTH

Window == INSTANCE SlidingWindow WITH
    window <- [f \in Flow |-> FlowWindow(f)],
    idle <- [f \in Flow |-> FlowIdle(f)],
    cumulative <- [f \in Flow |-> FlowTotal(f)],
    total_window <- TotalWindow,
    total_cumulative <- history_totals.total,
    covered <- history_len

(* A flow's record shows, for every age, exactly the bytes captured that    *)
(* many slots ago; it disappears in the HISTORY_LENGTH-th slot without a    *)
(* packet and not before; the totals never lose a slot early (iftop.c:148-  *)
(* 173, 483-504; man/iftop.8:169-171 "over the preceding 2, 10 and 40       *)
(* second intervals").                                                      *)
ImplementsWindow == Window!WindowSpec
=============================================================================
