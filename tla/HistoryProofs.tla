---------------------------- MODULE HistoryProofs ----------------------------
(***************************************************************************)
(* Proofs about module History, for any set of flows, any window length    *)
(* and any set of packet lengths: the inductive invariant IInv, and that   *)
(* the ring buffers implement the sliding window.                          *)
(***************************************************************************)
EXTENDS History, TLAPS

(* The position after a rotation, without the modulus. *)
LEMMA NextPosValue ==
    ASSUME history_pos \in Slots
    PROVE  /\ NextPos \in Slots
           /\ NextPos = IF history_pos = HISTORY_LENGTH - 1 THEN 0 ELSE history_pos + 1
<1>1. ASSUME history_pos = HISTORY_LENGTH - 1
      PROVE  NextPos = 0
  BY <1>1, HistoryAssumption, SMTT(30) DEF NextPos, Slots
<1>2. ASSUME history_pos # HISTORY_LENGTH - 1
      PROVE  NextPos = history_pos + 1
  BY <1>2, HistoryAssumption, SMTT(30) DEF NextPos, Slots
<1> QED
  BY <1>1, <1>2, HistoryAssumption DEF Slots

(* Slots and ages are in one-to-one correspondence. *)
LEMMA SlotOfFacts ==
    ASSUME history_pos \in Slots, NEW k \in Slots
    PROVE  /\ SlotOf(k) \in Slots
           /\ SlotOf(SlotOf(k)) = k
           /\ SlotOf(k) = history_pos <=> k = 0
           /\ SlotOf(history_pos) = 0
  BY HistoryAssumption DEF SlotOf, Slots

(* A rotation makes every slot one older, but the oldest becomes the        *)
(* current one.                                                             *)
LEMMA RotationAges ==
    ASSUME history_pos \in Slots, history_pos' = NextPos, NEW i \in Slots
    PROVE  /\ AgeOf(i)' = IF i = NextPos THEN 0 ELSE AgeOf(i) + 1
           /\ AgeOf(NextPos) = HISTORY_LENGTH - 1
           /\ (i # NextPos => AgeOf(i) < HISTORY_LENGTH - 1)
  BY NextPosValue, HistoryAssumption DEF AgeOf, SlotOf, Slots

(* The same read by age: what was at age a before a rotation is at a + 1. *)
LEMMA RotationSlots ==
    ASSUME history_pos \in Slots, history_pos' = NextPos, NEW k \in Slots
    PROVE  /\ k = 0 => SlotOf(k)' = NextPos
           /\ k # 0 => /\ SlotOf(k)' = SlotOf(k - 1)
                       /\ SlotOf(k - 1) # NextPos
                       /\ k - 1 \in Slots
  BY NextPosValue, HistoryAssumption DEF SlotOf, Slots

-----------------------------------------------------------------------------
(* What the operations on records do. *)

(* A new record is empty. *)
LEMMA CreateFacts ==
    /\ history_create \in history_type
    /\ history_create.last_write = 0
    /\ \A s \in Sides : history_create.total[s] = 0
    /\ \A s \in Sides, i \in Slots : history_create.slot[s][i] = 0
  BY HistoryAssumption DEF history_create, history_type, Slots

(* Counting a packet changes the current slot and the total of one side. *)
LEMMA AddedFacts ==
    ASSUME NEW rec \in history_type, NEW side \in Sides, NEW n \in Nat, history_pos \in Slots
    PROVE  /\ Added(rec, side, n) \in history_type
           /\ Added(rec, side, n).last_write = rec.last_write
           /\ Added(rec, side, n).total = [rec.total EXCEPT ![side] = @ + n]
           /\ \A s \in Sides, i \in Slots :
                 Added(rec, side, n).slot[s][i]
                    = IF s = side /\ i = history_pos THEN rec.slot[s][i] + n ELSE rec.slot[s][i]
<1> DEFINE row == [rec.slot[side] EXCEPT ![history_pos] = @ + n]
<1> DEFINE rows == [rec.slot EXCEPT ![side] = row]
<1> DEFINE sums == [rec.total EXCEPT ![side] = @ + n]
<1>1. /\ rec.slot \in [Sides -> [Slots -> Nat]]
      /\ rec.total \in [Sides -> Nat]
      /\ rec.last_write \in Slots
      /\ rec = [slot |-> rec.slot, total |-> rec.total, last_write |-> rec.last_write]
  BY DEF history_type
<1>2. row \in [Slots -> Nat] /\ \A i \in Slots :
         row[i] = IF i = history_pos THEN rec.slot[side][i] + n ELSE rec.slot[side][i]
  BY <1>1
<1>3. Added(rec, side, n) = [slot |-> rows, total |-> sums, last_write |-> rec.last_write]
  BY DEF Added
<1> HIDE DEF row
<1>4. rows \in [Sides -> [Slots -> Nat]] /\ \A s \in Sides :
         rows[s] = IF s = side THEN row ELSE rec.slot[s]
  BY <1>1, <1>2
<1>5. sums \in [Sides -> Nat]
  BY <1>1
<1> HIDE DEF rows, sums
<1>6. /\ Added(rec, side, n).slot = rows
      /\ Added(rec, side, n).total = sums
      /\ Added(rec, side, n).last_write = rec.last_write
      /\ Added(rec, side, n) \in history_type
  BY <1>1, <1>3, <1>4, <1>5 DEF history_type
<1> QED
  BY <1>2, <1>4, <1>6 DEF sums

(* Clearing a record empties the slot that becomes current. *)
LEMMA ClearedFacts ==
    ASSUME NEW rec \in history_type, history_pos \in Slots
    PROVE  /\ Cleared(rec) \in history_type
           /\ Cleared(rec).last_write = rec.last_write
           /\ Cleared(rec).total = rec.total
           /\ \A s \in Sides, i \in Slots :
                 Cleared(rec).slot[s][i] = IF i = NextPos THEN 0 ELSE rec.slot[s][i]
<1>1. NextPos \in Slots
  BY NextPosValue
<1> DEFINE row(s) == [rec.slot[s] EXCEPT ![NextPos] = 0]
<1> DEFINE rows == [s \in Sides |-> row(s)]
<1>3. /\ rec.slot \in [Sides -> [Slots -> Nat]]
      /\ rec.total \in [Sides -> Nat]
      /\ rec.last_write \in Slots
      /\ rec = [slot |-> rec.slot, total |-> rec.total, last_write |-> rec.last_write]
  BY DEF history_type
<1>4. \A s \in Sides : /\ row(s) \in [Slots -> Nat]
                       /\ \A i \in Slots : row(s)[i] = IF i = NextPos THEN 0 ELSE rec.slot[s][i]
  BY <1>1, <1>3
<1>6. Cleared(rec) = [slot |-> rows, total |-> rec.total, last_write |-> rec.last_write]
  BY DEF Cleared
<1> HIDE DEF row
<1>7. rows \in [Sides -> [Slots -> Nat]] /\ \A s \in Sides : rows[s] = row(s)
  BY <1>4
<1> HIDE DEF rows
<1>8. /\ Cleared(rec).slot = rows
      /\ Cleared(rec).total = rec.total
      /\ Cleared(rec).last_write = rec.last_write
      /\ Cleared(rec) \in history_type
  BY <1>3, <1>6, <1>7 DEF history_type
<1> QED
  BY <1>4, <1>7, <1>8

(* The totals after a packet. *)
LEMMA TotalsFacts ==
    ASSUME TypeOK, NEW side \in Sides, NEW n \in Nat
    PROVE  /\ Added(history_totals, side, n) \in history_type
           /\ Added(history_totals, side, n).total = [history_totals.total EXCEPT ![side] = @ + n]
           /\ \A s \in Sides, i \in Slots :
                 Added(history_totals, side, n).slot[s][i]
                    = IF s = side /\ i = history_pos
                      THEN history_totals.slot[s][i] + n ELSE history_totals.slot[s][i]
<1>1. history_pos \in Slots
  BY DEF TypeOK
<1>2. history_totals \in history_type
  BY DEF TypeOK
<1> QED
  BY <1>1, <1>2, AddedFacts

(* The record of a flow after a packet. *)
LEMMA CountedFacts ==
    ASSUME TypeOK, NEW f \in Flow, NEW side \in Sides, NEW n \in Nat
    PROVE  /\ RecordOf(f) \in history_type
           /\ Counted(f, side, n) \in history_type
           /\ Counted(f, side, n).last_write = history_pos
           /\ Counted(f, side, n).total = [RecordOf(f).total EXCEPT ![side] = @ + n]
           /\ \A s \in Sides, i \in Slots :
                 Counted(f, side, n).slot[s][i]
                    = IF s = side /\ i = history_pos
                      THEN RecordOf(f).slot[s][i] + n ELSE RecordOf(f).slot[s][i]
<1> DEFINE old == RecordOf(f)
<1> DEFINE add == Added(old, side, n)
<1>1. old \in history_type
  BY CreateFacts DEF TypeOK, Listed, RecordOf
<1>2. history_pos \in Slots
  BY DEF TypeOK
<1> HIDE DEF old
<1>3. /\ add \in history_type
      /\ add.total = [old.total EXCEPT ![side] = @ + n]
      /\ \A s \in Sides, i \in Slots :
            add.slot[s][i]
               = IF s = side /\ i = history_pos THEN old.slot[s][i] + n ELSE old.slot[s][i]
  BY <1>1, <1>2, AddedFacts
<1>4. Counted(f, side, n) = [add EXCEPT !.last_write = history_pos]
  BY DEF Counted, old
<1> HIDE DEF add
<1>5. /\ Counted(f, side, n) \in history_type
      /\ Counted(f, side, n).last_write = history_pos
      /\ Counted(f, side, n).total = add.total
      /\ Counted(f, side, n).slot = add.slot
  BY <1>2, <1>3, <1>4 DEF history_type
<1> QED
  BY <1>1, <1>3, <1>5 DEF old

-----------------------------------------------------------------------------
(* The inductive invariant. *)

(* A packet keeps the invariant: it only adds to the current slot, whose    *)
(* age is 0, and makes that slot the last one written.                      *)
LEMMA RecordPacketIInv ==
    ASSUME IInv, NEW f \in Flow, NEW side \in Sides, NEW totalSide \in Sides,
           NEW n \in Nat, RecordPacket(f, side, totalSide, n)
    PROVE  IInv'
<1> DEFINE new == Counted(f, side, n)
<1> DEFINE old == RecordOf(f)
<1> DEFINE tot == Added(history_totals, totalSide, n)
<1>1. TypeOK
  BY DEF IInv
<1>a. history_pos \in Slots
  BY <1>1 DEF TypeOK
<1>b. history_totals \in history_type
  BY <1>1 DEF TypeOK
<1>2. /\ new \in history_type
      /\ new.last_write = history_pos
      /\ \A s \in Sides, i \in Slots :
            new.slot[s][i] = IF s = side /\ i = history_pos THEN old.slot[s][i] + n ELSE old.slot[s][i]
  <2>1. /\ RecordOf(f) \in history_type
        /\ Counted(f, side, n) \in history_type
        /\ Counted(f, side, n).last_write = history_pos
        /\ Counted(f, side, n).total = [RecordOf(f).total EXCEPT ![side] = @ + n]
        /\ \A s \in Sides, i \in Slots :
              Counted(f, side, n).slot[s][i]
                 = IF s = side /\ i = history_pos
                   THEN RecordOf(f).slot[s][i] + n ELSE RecordOf(f).slot[s][i]
    BY <1>1, CountedFacts
  <2> QED
    BY <2>1
<1>3. /\ tot \in history_type
      /\ \A s \in Sides, i \in Slots :
            tot.slot[s][i]
               = IF s = totalSide /\ i = history_pos
                 THEN history_totals.slot[s][i] + n ELSE history_totals.slot[s][i]
  BY <1>1, TotalsFacts
<1>4. /\ history' = [history EXCEPT ![f] = new]
      /\ history_totals' = tot
      /\ history_pos' = history_pos
      /\ history_len' = history_len
  BY DEF RecordPacket
<1> HIDE DEF new, tot
<1>5. TypeOK'
  BY <1>1, <1>a, <1>2, <1>3, <1>4 DEF TypeOK
<1>6. /\ \A i \in Slots : AgeOf(i)' = AgeOf(i) /\ AgeOf(i) \in Slots
      /\ AgeOf(history_pos) = 0
      /\ \A i \in Slots : AgeOf(i) = 0 <=> i = history_pos
      /\ history_len >= 1
  BY <1>1, <1>a, <1>4, SlotOfFacts DEF AgeOf, SlotOf, TypeOK
<1>7. ~ Listed(f) => \A s \in Sides, i \in Slots : old.slot[s][i] = 0
  BY CreateFacts DEF RecordOf
<1>8. \A g \in Flow : /\ g # f => history'[g] = history[g]
                      /\ history'[f] = new
                      /\ Listed(g)' <=> (g = f \/ Listed(g))
  BY <1>1, <1>2, <1>4, HistoryAssumption DEF TypeOK, Listed
<1>9. NothingAfterLastWrite'
  <2> SUFFICES ASSUME NEW g \in Flow, NEW s \in Sides, NEW i \in Slots,
                      Listed(g)', AgeOf(i)' < AgeOf(history[g].last_write)'
               PROVE  history'[g].slot[s][i] = 0
    BY DEF NothingAfterLastWrite
  <2>1. CASE g = f
    BY <2>1, <1>2, <1>4, <1>6, <1>8 DEF AgeOf, SlotOf, Slots
  <2>2. CASE g # f
    <3>1. history[g].last_write \in Slots /\ Listed(g) /\ history'[g] = history[g]
      BY <2>2, <1>1, <1>8 DEF TypeOK, Listed, history_type
    <3>2. AgeOf(i) < AgeOf(history[g].last_write)
      BY <3>1, <1>6, <1>4 DEF AgeOf, SlotOf
    <3> QED
      BY <3>1, <3>2 DEF IInv, NothingAfterLastWrite
  <2> QED
    BY <2>1, <2>2
<1>10. NothingBeforeStart'
  <2> SUFFICES ASSUME NEW s \in Sides, NEW i \in Slots, AgeOf(i)' >= history_len'
               PROVE  /\ history_totals'.slot[s][i] = 0
                      /\ \A g \in Flow : Listed(g)' => history'[g].slot[s][i] = 0
    BY DEF NothingBeforeStart
  <2>1. AgeOf(i) >= history_len /\ i # history_pos
    BY <1>1, <1>a, <1>4, <1>6 DEF TypeOK, Slots
  <2>2. /\ history_totals.slot[s][i] = 0
        /\ \A g \in Flow : Listed(g) => history[g].slot[s][i] = 0
    BY <2>1 DEF IInv, NothingBeforeStart
  <2>3. old.slot[s][i] = 0
    BY <2>2, <1>7 DEF RecordOf
  <2> HIDE DEF old
  <2> QED
    BY <2>1, <2>2, <2>3, <1>2, <1>3, <1>4, <1>8
<1> QED
  BY <1>5, <1>9, <1>10 DEF IInv

(* A rotation keeps it: the slot that becomes current is emptied in every   *)
(* record that stays.                                                       *)
LEMMA RotateIInv ==
    ASSUME IInv, history_rotate
    PROVE  IInv'
<1>1. /\ TypeOK
      /\ history_pos \in Slots
      /\ history_pos' = NextPos
      /\ NextPos \in Slots
      /\ history_totals \in history_type
      /\ history_totals' = Cleared(history_totals)
      /\ history_len' = NextLen
  BY NextPosValue DEF IInv, TypeOK, history_rotate
<1>2. \A f \in Flow :
         /\ Listed(f)' <=> Listed(f) /\ ~ Expired(history[f])
         /\ Listed(f)' => /\ history[f] \in history_type
                          /\ history'[f] = Cleared(history[f])
                          /\ history'[f] \in history_type
         /\ history'[f] \in history_type \cup {NoHistory}
  <2> TAKE f \in Flow
  <2>1. history'[f] = Rotated(f)
    BY DEF history_rotate
  <2>2. Listed(f) => history[f] \in history_type /\ Cleared(history[f]) \in history_type
    BY <1>1, ClearedFacts DEF TypeOK, Listed
  <2> QED
    BY <2>1, <2>2, HistoryAssumption DEF Rotated, Listed
<1>3. TypeOK'
  <2>1. history' \in [Flow -> history_type \cup {NoHistory}]
    BY <1>2 DEF history_rotate
  <2>2. history_totals' \in history_type
    BY <1>1, ClearedFacts
  <2>3. history_len' \in 1 .. HISTORY_LENGTH
    BY <1>1, HistoryAssumption DEF TypeOK, NextLen
  <2> QED
    BY <1>1, <2>1, <2>2, <2>3 DEF TypeOK
<1>4. \A i \in Slots : /\ AgeOf(i)' = IF i = NextPos THEN 0 ELSE AgeOf(i) + 1
                       /\ AgeOf(i) \in Slots
                       /\ i # NextPos => AgeOf(i) < HISTORY_LENGTH - 1
  BY <1>1, RotationAges, SlotOfFacts DEF AgeOf
<1>5. NothingAfterLastWrite'
  <2> SUFFICES ASSUME NEW f \in Flow, NEW s \in Sides, NEW i \in Slots,
                      Listed(f)', AgeOf(i)' < AgeOf(history[f].last_write)'
               PROVE  history'[f].slot[s][i] = 0
    BY DEF NothingAfterLastWrite
  <2>1. /\ Listed(f)
        /\ history[f] \in history_type
        /\ history'[f].last_write = history[f].last_write
        /\ history[f].last_write \in Slots
        /\ history[f].last_write # NextPos
        /\ history'[f].slot[s][i] = IF i = NextPos THEN 0 ELSE history[f].slot[s][i]
    BY <1>1, <1>2, ClearedFacts DEF Expired, history_type
  <2>2. AgeOf(history[f].last_write)' = AgeOf(history[f].last_write) + 1
    BY <2>1, <1>4 DEF AgeOf, SlotOf
  <2>3. CASE i # NextPos
    <3>1. AgeOf(i) < AgeOf(history[f].last_write)
      BY <2>1, <2>2, <2>3, <1>4 DEF Slots
    <3> QED
      BY <3>1, <2>1, <2>3 DEF IInv, NothingAfterLastWrite
  <2> QED
    BY <2>1, <2>3
<1>6. NothingBeforeStart'
  <2> SUFFICES ASSUME NEW s \in Sides, NEW i \in Slots, AgeOf(i)' >= history_len'
               PROVE  /\ history_totals'.slot[s][i] = 0
                      /\ \A f \in Flow : Listed(f)' => history'[f].slot[s][i] = 0
    BY DEF NothingBeforeStart
  <2>1. i # NextPos /\ AgeOf(i) >= history_len
    BY <1>1, <1>3, <1>4, HistoryAssumption DEF TypeOK, NextLen, Slots
  <2>2. /\ history_totals.slot[s][i] = 0
        /\ \A f \in Flow : Listed(f) => history[f].slot[s][i] = 0
    BY <2>1 DEF IInv, NothingBeforeStart
  <2> QED
    BY <2>1, <2>2, <1>1, <1>2, ClearedFacts
<1> QED
  BY <1>3, <1>5, <1>6 DEF IInv

(* The start and every step of the specification. *)
LEMMA InitIInv == Init => IInv
<1> SUFFICES ASSUME Init PROVE IInv
  OBVIOUS
<1>1. TypeOK
  BY CreateFacts, HistoryAssumption DEF Init, TypeOK, Slots
<1>2. NothingAfterLastWrite /\ NothingBeforeStart
  BY CreateFacts DEF Init, NothingAfterLastWrite, NothingBeforeStart, Listed
<1> QED
  BY <1>1, <1>2 DEF IInv

(* Every step keeps the invariant, one case per action. *)
LEMMA NextIInv == IInv /\ [Next]_vars => IInv'
<1> SUFFICES ASSUME IInv, [Next]_vars PROVE IInv'
  OBVIOUS
<1>1. CASE UNCHANGED vars
  BY <1>1 DEF vars, IInv, TypeOK, NothingAfterLastWrite, NothingBeforeStart, Listed, AgeOf, SlotOf
<1>2. CASE Next
  BY <1>2, RecordPacketIInv, RotateIInv, HistoryAssumption DEF Next
<1> QED
  BY <1>1, <1>2

(* Type correctness, and the two invariants that make the history readable  *)
(* The invariant that the other theorems follow from, for any packets and   *)
(* rotations (iftop.c:143-173, 449-504).                                    *)
THEOREM InvariantHolds == Spec => []IInv
  BY InitIInv, NextIInv, PTL DEF Spec

(* from last_write and history_len, hold in every reachable state.          *)
THEOREM TypeCorrect == Spec => []TypeOK
<1>1. IInv => TypeOK
  BY DEF IInv
<1> QED
  BY <1>1, InitIInv, NextIInv, PTL DEF Spec

(* iftop.c:157-159: when last_write says a record is due, the record holds  *)
(* nothing else.                                                            *)
THEOREM DropsNothing == Spec => []NothingAfterLastWrite
<1>1. IInv => NothingAfterLastWrite
  BY DEF IInv
<1> QED
  BY <1>1, InitIInv, NextIInv, PTL DEF Spec

(* iftop.c:170-172: history_len covers everything captured. *)
THEOREM LengthCovers == Spec => []NothingBeforeStart
<1>1. IInv => NothingBeforeStart
  BY DEF IInv
<1> QED
  BY <1>1, InitIInv, NextIInv, PTL DEF Spec

-----------------------------------------------------------------------------
(* The ring buffers implement the sliding window. *)

(* The two modules use the same index sets. *)
LEMMA SameSets == Window!Ages = Slots /\ Window!Sides = Sides
  BY DEF Window!Ages, Slots, Window!Sides, Sides

(* The empty history is the empty window. *)
LEMMA InitWindow == Init => Window!Start
<1> SUFFICES ASSUME Init PROVE Window!Start
  OBVIOUS
<1>1. \A f \in Flow : ~ Listed(f)
  BY DEF Init, Listed
<1>2. \A f \in Flow : /\ FlowWindow(f) = Window!NoBytes
                      /\ FlowIdle(f) = HISTORY_LENGTH
                      /\ FlowTotal(f) = Window!NoTotal
  BY <1>1, SameSets DEF FlowWindow, FlowIdle, FlowTotal, Window!NoBytes, Window!NoTotal
<1>3. \A k \in Slots : SlotOf(k) \in Slots
  BY HistoryAssumption DEF Init, SlotOf, Slots
<1>4. TotalWindow = Window!NoBytes
  BY <1>3, SameSets, CreateFacts DEF Init, TotalWindow, Window!NoBytes
<1>5. history_totals.total = Window!NoTotal
  BY SameSets DEF Init, history_create, Window!NoTotal
<1> QED
  BY <1>2, <1>4, <1>5 DEF Init, Window!Start

(* What adding n bytes at age 0 does to a window. *)
LEMMA AddAtZero ==
    ASSUME NEW w, w = [s \in Sides |-> [k \in Slots |-> w[s][k]]],
           NEW side \in Sides, NEW n \in Nat
    PROVE  [w EXCEPT ![side][0] = @ + n]
              = [s \in Sides |-> [k \in Slots |-> IF s = side /\ k = 0 THEN w[s][k] + n ELSE w[s][k]]]
<1> DEFINE W(s, k) == w[s][k]
<1> DEFINE row(s) == [k \in Slots |-> W(s, k)]
<1>1. w = [s \in Sides |-> row(s)]
  OBVIOUS
<1>2. 0 \in Slots
  BY HistoryAssumption DEF Slots
<1>3. [row(side) EXCEPT ![0] = @ + n] = [k \in Slots |-> IF k = 0 THEN W(side, k) + n ELSE W(side, k)]
  BY <1>2
<1>4. w[side] = row(side)
  BY <1>1
<1>5. [w EXCEPT ![side][0] = @ + n] = [w EXCEPT ![side] = [row(side) EXCEPT ![0] = @ + n]]
  BY <1>4
<1> DEFINE newrow == [k \in Slots |-> IF k = 0 THEN W(side, k) + n ELSE W(side, k)]
<1>6. [w EXCEPT ![side] = newrow] = [s \in Sides |-> IF s = side THEN newrow ELSE row(s)]
  <2> HIDE DEF newrow, row
  <2> QED
    BY <1>1
<1>7. \A s \in Sides : (IF s = side THEN newrow ELSE row(s))
         = [k \in Slots |-> IF s = side /\ k = 0 THEN W(s, k) + n ELSE W(s, k)]
  OBVIOUS
<1> QED
  BY <1>3, <1>5, <1>6, <1>7

(* A packet is counted at age 0. *)
LEMMA PacketIsCapture ==
    ASSUME IInv, NEW f \in Flow, NEW side \in Sides, NEW totalSide \in Sides,
           NEW n \in Nat, RecordPacket(f, side, totalSide, n)
    PROVE  Window!Capture(f, side, totalSide, n)
<1> DEFINE new == Counted(f, side, n)
<1> DEFINE old == RecordOf(f)
<1> DEFINE tot == Added(history_totals, totalSide, n)
<1>1. TypeOK
  BY DEF IInv
<1>2. history_pos \in Slots
  BY <1>1 DEF TypeOK
<1>3. /\ history' = [history EXCEPT ![f] = new]
      /\ history_totals' = tot
      /\ history_pos' = history_pos
      /\ history_len' = history_len
  BY DEF RecordPacket
<1>4. /\ RecordOf(f) \in history_type
      /\ Counted(f, side, n) \in history_type
      /\ Counted(f, side, n).last_write = history_pos
      /\ Counted(f, side, n).total = [RecordOf(f).total EXCEPT ![side] = @ + n]
      /\ \A s \in Sides, i \in Slots :
            Counted(f, side, n).slot[s][i]
               = IF s = side /\ i = history_pos
                 THEN RecordOf(f).slot[s][i] + n ELSE RecordOf(f).slot[s][i]
  BY <1>1, CountedFacts
<1>5. /\ tot.total = [history_totals.total EXCEPT ![totalSide] = @ + n]
      /\ \A s \in Sides, i \in Slots :
            tot.slot[s][i] = IF s = totalSide /\ i = history_pos
                             THEN history_totals.slot[s][i] + n ELSE history_totals.slot[s][i]
  BY <1>1, TotalsFacts
<1> HIDE DEF new, tot
<1>6. \A k \in Slots : /\ SlotOf(k)' = SlotOf(k)
                       /\ SlotOf(k) \in Slots
                       /\ SlotOf(k) = history_pos <=> k = 0
                       /\ 0 \in Slots
                       /\ SlotOf(history_pos) = 0
  BY <1>2, <1>3, SlotOfFacts, HistoryAssumption DEF SlotOf, Slots
<1>7. \A g \in Flow : /\ g # f => history'[g] = history[g] /\ (Listed(g)' <=> Listed(g))
                      /\ history'[f] = new
                      /\ Listed(f)'
  BY <1>1, <1>3, <1>4, HistoryAssumption DEF TypeOK, Listed, new
<1>8. FlowWindow(f)' = [FlowWindow(f) EXCEPT ![side][0] = @ + n]
  <2> DEFINE fw == FlowWindow(f)
  <2>1. \A k \in Slots, s \in Sides : fw[s][k] = old.slot[s][SlotOf(k)]
    BY <1>6, CreateFacts DEF FlowWindow, RecordOf
  <2>2. \A k \in Slots, s \in Sides :
           new.slot[s][SlotOf(k)] = IF s = side /\ k = 0 THEN fw[s][k] + n ELSE fw[s][k]
    BY <2>1, <1>4, <1>6 DEF new
  <2>3. FlowWindow(f)' = [s \in Sides |-> [k \in Slots |-> new.slot[s][SlotOf(k)]]]
    BY <1>6, <1>7 DEF FlowWindow
  <2>4. fw = [s \in Sides |-> [k \in Slots |-> fw[s][k]]]
    BY DEF FlowWindow
  <2> HIDE DEF fw
  <2>5. [fw EXCEPT ![side][0] = @ + n]
           = [s \in Sides |-> [k \in Slots |-> IF s = side /\ k = 0 THEN fw[s][k] + n ELSE fw[s][k]]]
    BY <2>4, AddAtZero
  <2>6. FlowWindow(f)' = [fw EXCEPT ![side][0] = @ + n]
    <3>1. \A s \in Sides :
             [k \in Slots |-> new.slot[s][SlotOf(k)]]
                = [k \in Slots |-> IF s = side /\ k = 0 THEN fw[s][k] + n ELSE fw[s][k]]
      BY <2>2
    <3> QED
      BY <2>3, <2>5, <3>1
  <2> QED
    BY <2>6 DEF fw
<1>9. \A g \in Flow : g # f => /\ FlowWindow(g)' = FlowWindow(g)
                               /\ FlowIdle(g)' = FlowIdle(g)
                               /\ FlowTotal(g)' = FlowTotal(g)
  BY <1>3, <1>6, <1>7 DEF FlowWindow, FlowIdle, FlowTotal, AgeOf, SlotOf
<1>10. FlowIdle(f)' = 0
  BY <1>2, <1>3, <1>4, <1>6, <1>7 DEF FlowIdle, AgeOf, SlotOf, new
<1>11. FlowTotal(f)' = [FlowTotal(f) EXCEPT ![side] = @ + n]
  BY <1>4, <1>7 DEF FlowTotal, RecordOf, history_create, new
<1>12. TotalWindow' = [TotalWindow EXCEPT ![totalSide][0] = @ + n]
  <2> DEFINE tw == TotalWindow
  <2>1. \A k \in Slots, s \in Sides : tw[s][k] = history_totals.slot[s][SlotOf(k)]
    BY DEF TotalWindow
  <2>2. \A k \in Slots, s \in Sides :
           tot.slot[s][SlotOf(k)] = IF s = totalSide /\ k = 0 THEN tw[s][k] + n ELSE tw[s][k]
    BY <2>1, <1>5, <1>6
  <2>3. TotalWindow' = [s \in Sides |-> [k \in Slots |-> tot.slot[s][SlotOf(k)]]]
    BY <1>3, <1>6 DEF TotalWindow
  <2>4. tw = [s \in Sides |-> [k \in Slots |-> tw[s][k]]]
    BY DEF TotalWindow
  <2> HIDE DEF tw
  <2>5. [tw EXCEPT ![totalSide][0] = @ + n]
           = [s \in Sides |-> [k \in Slots |-> IF s = totalSide /\ k = 0 THEN tw[s][k] + n ELSE tw[s][k]]]
    BY <2>4, AddAtZero
  <2>6. TotalWindow' = [tw EXCEPT ![totalSide][0] = @ + n]
    <3>1. TotalWindow' = [s \in Sides |-> [k \in Slots |-> IF s = totalSide /\ k = 0 THEN tw[s][k] + n ELSE tw[s][k]]]
      BY <2>2, <2>3
    <3> QED
      BY <3>1, <2>5
  <2> QED
    BY <2>6 DEF tw
<1>13. /\ totalSide = "sent" => side = "sent"
       /\ history_totals.total["sent"] + history_totals.total["recv"] + n <= MaxBytes
  BY DEF RecordPacket
<1>14. history_totals.total' = [history_totals.total EXCEPT ![totalSide] = @ + n]
  BY <1>3, <1>5
<1> DEFINE win == [g \in Flow |-> FlowWindow(g)]
<1> DEFINE idl == [g \in Flow |-> FlowIdle(g)]
<1> DEFINE cum == [g \in Flow |-> FlowTotal(g)]
<1>15. win' = [win EXCEPT ![f][side][0] = @ + n]
  <2>1. win' = [g \in Flow |-> FlowWindow(g)']
    OBVIOUS
  <2>2. win[f] = FlowWindow(f)
    OBVIOUS
  <2> QED
    BY <2>1, <2>2, <1>8, <1>9
<1>16. idl' = [idl EXCEPT ![f] = 0]
  BY <1>9, <1>10
<1>17. cum' = [cum EXCEPT ![f][side] = @ + n]
  <2>1. cum' = [g \in Flow |-> FlowTotal(g)']
    OBVIOUS
  <2>2. cum[f] = FlowTotal(f)
    OBVIOUS
  <2> QED
    BY <2>1, <2>2, <1>9, <1>11
<1> QED
  BY <1>3, <1>12, <1>13, <1>14, <1>15, <1>16, <1>17 DEF Window!Capture

(* A rotation makes everything one slot older. *)
LEMMA RotateIsNewSlot ==
    ASSUME IInv, history_rotate
    PROVE  Window!NewSlot
<1>1. /\ TypeOK
      /\ history_pos' = NextPos
      /\ history_totals \in history_type
      /\ history_totals' = Cleared(history_totals)
      /\ history_len' = NextLen
  BY DEF IInv, TypeOK, history_rotate
<1>2. history_pos \in Slots
  BY <1>1 DEF TypeOK
<1>3. \A k \in Slots : /\ k = 0 => SlotOf(k)' = NextPos
                       /\ k # 0 => /\ SlotOf(k)' = SlotOf(k - 1)
                                   /\ SlotOf(k - 1) # NextPos
                                   /\ k - 1 \in Slots
                                   /\ SlotOf(k - 1) \in Slots
                       /\ SlotOf(k)' \in Slots
  BY <1>1, <1>2, RotationSlots, SlotOfFacts, NextPosValue
<1>4. \A i \in Slots : /\ AgeOf(i)' = IF i = NextPos THEN 0 ELSE AgeOf(i) + 1
                       /\ AgeOf(NextPos) = HISTORY_LENGTH - 1
                       /\ i # NextPos => AgeOf(i) < HISTORY_LENGTH - 1
                       /\ AgeOf(i) \in Slots
  BY <1>1, <1>2, RotationAges, SlotOfFacts DEF AgeOf
<1>5. ASSUME NEW f \in Flow
      PROVE  history'[f] = Rotated(f) /\ (Listed(f) => history[f] \in history_type)
  BY <1>1 DEF history_rotate, TypeOK, Listed
<1>6. ASSUME NEW f \in Flow, ~ Listed(f)
      PROVE  /\ FlowWindow(f)' = Window!Older(FlowWindow(f))
             /\ FlowIdle(f) = HISTORY_LENGTH
             /\ FlowIdle(f)' = HISTORY_LENGTH
             /\ FlowTotal(f)' = Window!NoTotal
  <2>1. ~ Listed(f)'
    BY <1>5, <1>6 DEF Rotated, Listed
  <2>2. \A k \in Slots : k # 0 => k - 1 \in Slots
    BY <1>3
  <2> QED
    BY <1>6, <2>1, <2>2, SameSets
    DEF FlowWindow, FlowIdle, FlowTotal, Window!Older, Window!NoTotal
<1>7. ASSUME NEW f \in Flow, Listed(f), Expired(history[f])
      PROVE  /\ FlowWindow(f)' = Window!Older(FlowWindow(f))
             /\ FlowIdle(f) = HISTORY_LENGTH - 1
             /\ FlowIdle(f)' = HISTORY_LENGTH
             /\ FlowTotal(f)' = Window!NoTotal
  <2>1. ~ Listed(f)'
    BY <1>5, <1>7 DEF Rotated, Listed
  <2>2. FlowIdle(f) = HISTORY_LENGTH - 1
    BY <1>4, <1>7, <1>5, NextPosValue, <1>2 DEF FlowIdle, Expired
  <2>3. \A s \in Sides, k \in Slots : k # 0 => FlowWindow(f)[s][k - 1] = 0
    <3> SUFFICES ASSUME NEW s \in Sides, NEW k \in Slots, k # 0
                 PROVE  history[f].slot[s][SlotOf(k - 1)] = 0
      BY <1>3, <1>7 DEF FlowWindow
    <3>1. AgeOf(SlotOf(k - 1)) < AgeOf(history[f].last_write)
      BY <1>3, <1>4, <1>7, <1>2, NextPosValue DEF Expired
    <3> QED
      BY <3>1, <1>3, <1>7 DEF IInv, NothingAfterLastWrite
  <2>4. FlowWindow(f)' = Window!Older(FlowWindow(f))
    BY <2>1, <2>3, SameSets DEF FlowWindow, Window!Older
  <2> QED
    BY <2>1, <2>2, <2>4, SameSets DEF FlowIdle, FlowTotal, Window!NoTotal
<1>8. ASSUME NEW f \in Flow, Listed(f), ~ Expired(history[f])
      PROVE  /\ FlowWindow(f)' = Window!Older(FlowWindow(f))
             /\ FlowIdle(f) < HISTORY_LENGTH - 1
             /\ FlowIdle(f)' = FlowIdle(f) + 1
             /\ FlowTotal(f)' = FlowTotal(f)
  <2> DEFINE r == history[f]
  <2>1. r \in history_type
    BY <1>5, <1>8
  <2>2. /\ Cleared(r) \in history_type
        /\ Cleared(r).last_write = r.last_write
        /\ Cleared(r).total = r.total
        /\ \A s \in Sides, i \in Slots :
              Cleared(r).slot[s][i] = IF i = NextPos THEN 0 ELSE r.slot[s][i]
    BY <1>2, <2>1, ClearedFacts
  <2>3. history'[f] = Cleared(r) /\ Listed(f)'
    BY <1>5, <1>8, <2>2, HistoryAssumption DEF Rotated, Listed
  <2>4. r.last_write \in Slots /\ r.last_write # NextPos
    BY <1>8, <2>1 DEF history_type, Expired
  <2>5. PICK lw \in Slots : lw = r.last_write /\ lw = history'[f].last_write
    BY <2>2, <2>3, <2>4
  <2>6. FlowIdle(f) = AgeOf(lw) /\ FlowIdle(f)' = AgeOf(lw)'
    BY <1>8, <2>3, <2>5 DEF FlowIdle, AgeOf, SlotOf
  <2>7. FlowIdle(f) < HISTORY_LENGTH - 1 /\ FlowIdle(f)' = FlowIdle(f) + 1
    BY <2>4, <2>5, <2>6, <1>4
  <2>8. \A s \in Sides, k \in Slots :
           history'[f].slot[s][SlotOf(k)'] = IF k = 0 THEN 0 ELSE FlowWindow(f)[s][k - 1]
    BY <1>3, <1>8, <2>2, <2>3 DEF FlowWindow
  <2>9. FlowWindow(f)' = Window!Older(FlowWindow(f))
    <3>1. FlowWindow(f)' = [s \in Sides |-> [k \in Slots |-> history'[f].slot[s][SlotOf(k)']]]
      BY <2>3 DEF FlowWindow
    <3> QED
      BY <3>1, <2>8, SameSets DEF Window!Older
  <2>10. FlowTotal(f)' = FlowTotal(f)
    BY <1>8, <2>2, <2>3 DEF FlowTotal
  <2> QED
    BY <2>7, <2>9, <2>10
<1>9. TotalWindow' = Window!Older(TotalWindow)
  <2>1. \A s \in Sides, i \in Slots :
           Cleared(history_totals).slot[s][i] = IF i = NextPos THEN 0 ELSE history_totals.slot[s][i]
    BY <1>1, <1>2, ClearedFacts
  <2>2. \A s \in Sides, k \in Slots :
           history_totals'.slot[s][SlotOf(k)'] = IF k = 0 THEN 0 ELSE TotalWindow[s][k - 1]
    BY <1>1, <1>3, <2>1 DEF TotalWindow
  <2>3. TotalWindow' = [s \in Sides |-> [k \in Slots |-> history_totals'.slot[s][SlotOf(k)']]]
    BY DEF TotalWindow
  <2> QED
    BY <2>2, <2>3, SameSets DEF Window!Older
<1>10. history_totals.total' = history_totals.total
  BY <1>1, <1>2, ClearedFacts
<1>11. \A f \in Flow :
          /\ FlowWindow(f)' = Window!Older(FlowWindow(f))
          /\ FlowIdle(f)' = IF FlowIdle(f) = HISTORY_LENGTH THEN FlowIdle(f) ELSE FlowIdle(f) + 1
          /\ FlowTotal(f)' = IF FlowIdle(f) < HISTORY_LENGTH - 1 THEN FlowTotal(f) ELSE Window!NoTotal
  BY <1>6, <1>7, <1>8, HistoryAssumption
<1>12. [f \in Flow |-> FlowWindow(f)]' = [f \in Flow |-> Window!Older(FlowWindow(f))]
  BY <1>11
<1> QED
  BY <1>1, <1>9, <1>10, <1>11, <1>12 DEF Window!NewSlot, NextLen

(* Every step of the history is a step of the sliding window, or none. *)
LEMMA NextWindow == IInv /\ [Next]_vars => [Window!Move]_(Window!windowVars)
<1> SUFFICES ASSUME IInv, [Next]_vars PROVE [Window!Move]_(Window!windowVars)
  OBVIOUS
<1>1. CASE UNCHANGED vars
  BY <1>1
  DEF vars, Window!windowVars, FlowWindow, FlowIdle, FlowTotal, TotalWindow, Listed, AgeOf, SlotOf
<1>2. ASSUME NEW f \in Flow, NEW side \in Sides, NEW totalSide \in Sides,
             NEW n \in PacketLengths, RecordPacket(f, side, totalSide, n)
      PROVE  Window!Move
  <2>1. n \in Nat
    BY HistoryAssumption
  <2> QED
    BY <1>2, <2>1, PacketIsCapture, SameSets DEF Window!Move
<1>3. CASE history_rotate
  BY <1>3, RotateIsNewSlot DEF Window!Move
<1> QED
  BY <1>1, <1>2, <1>3 DEF Next

(* Read from the position backwards, the ring buffers show exactly the      *)
(* bytes of the last HISTORY_LENGTH slots, for every flow and in total, and *)
(* a flow is dropped exactly when it has been silent that long.             *)
THEOREM Refinement == Spec => ImplementsWindow
  BY InitIInv, NextIInv, InitWindow, NextWindow, PTL
  DEF Spec, ImplementsWindow, Window!WindowSpec
=============================================================================
