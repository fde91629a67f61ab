---------------------------- MODULE SlidingWindow ----------------------------
(***************************************************************************)
(* What the traffic history promises, without ring buffers: for each flow  *)
(* and for the totals, the bytes counted in the current time slot (age 0)  *)
(* and in each of the HISTORY_LENGTH - 1 slots before it.  A flow that has *)
(* carried no packet for HISTORY_LENGTH slots is forgotten, and starts     *)
(* again from zero if it comes back.                                       *)
(***************************************************************************)
EXTENDS Integers

CONSTANTS
    Flow,              \* the address pairs
    HISTORY_LENGTH,    \* slots in the window
    PacketLengths,     \* packet lengths in bytes
    MaxBytes           \* bound on the bytes captured in all

VARIABLES
    window,            \* flow -> side -> age -> bytes
    idle,              \* flow -> age of its last packet
    cumulative,        \* flow -> side -> bytes since the flow appeared
    total_window,      \* side -> age -> bytes
    total_cumulative,  \* side -> bytes since the start
    covered            \* slots of the window that the capture has reached

windowVars == <<window, idle, cumulative, total_window, total_cumulative, covered>>

Ages == 0 .. HISTORY_LENGTH - 1

Sides == {"sent", "recv"}

NoBytes == [s \in Sides |-> [k \in Ages |-> 0]]

NoTotal == [s \in Sides |-> 0]

Start ==
    /\ window = [f \in Flow |-> NoBytes]
    /\ idle = [f \in Flow |-> HISTORY_LENGTH]
    /\ cumulative = [f \in Flow |-> NoTotal]
    /\ total_window = NoBytes
    /\ total_cumulative = NoTotal
    /\ covered = 1

(* A packet of n bytes on one side of a flow.  The totals may put it on the *)
(* other side, but never count as sent what the flow counts as received.    *)
Capture(f, side, totalSide, n) ==
    /\ totalSide = "sent" => side = "sent"
    /\ total_cumulative["sent"] + total_cumulative["recv"] + n <= MaxBytes
    /\ window' = [window EXCEPT ![f][side][0] = @ + n]
    /\ idle' = [idle EXCEPT ![f] = 0]
    /\ cumulative' = [cumulative EXCEPT ![f][side] = @ + n]
    /\ total_window' = [total_window EXCEPT ![totalSide][0] = @ + n]
    /\ total_cumulative' = [total_cumulative EXCEPT ![totalSide] = @ + n]
    /\ UNCHANGED covered

Older(w) == [s \in Sides |-> [k \in Ages |-> IF k = 0 THEN 0 ELSE w[s][k - 1]]]

(* A new time slot begins: everything is one slot older. *)
NewSlot ==
    /\ window' = [f \in Flow |-> Older(window[f])]
    /\ total_window' = Older(total_window)
    /\ idle' = [f \in Flow |-> IF idle[f] = HISTORY_LENGTH THEN idle[f] ELSE idle[f] + 1]
    /\ cumulative' = [f \in Flow |-> IF idle[f] < HISTORY_LENGTH - 1 THEN cumulative[f] ELSE NoTotal]
    /\ covered' = IF covered < HISTORY_LENGTH THEN covered + 1 ELSE covered
    /\ UNCHANGED total_cumulative

Move ==
    \/ \E f \in Flow, side \in Sides, totalSide \in Sides, n \in PacketLengths :
          Capture(f, side, totalSide, n)
    \/ NewSlot

WindowSpec == Start /\ [][Move]_windowVars
=============================================================================
