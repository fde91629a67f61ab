------------------------------ MODULE BarScale ------------------------------
(* The scale of the bar chart (ui.c).  Unless -m fixes it, the scale starts  *)
(* at 64 kbit/s and grows with the traffic: the first bar that does not fit  *)
(* moves it to where that bar fits, and each repaint with a bar that does    *)
(* not fit moves it one entry up.  Both happen from inside the drawing of    *)
(* the bars, those of the marks on the scale itself included.  Rates are in  *)
(* kbit/s; the lengths of the bars are left out.                             *)
EXTENDS Integers, Sequences, SequencesExt, FiniteSetsExt

CONSTANTS Rates,         \* rates of the lines on the screen
          MaxBandwidths, \* values of options.max_bandwidth, 0 for none
          MaxBars        \* bound on the bars of one repaint

VARIABLES max_bandwidth, \* options.max_bandwidth
          rateidx, wantbiggerrate, rateidx_init,
          todo,          \* rates whose bars this repaint has still to draw
          painting,
          last,          \* the rate of the bar drawn last in this repaint
          peak           \* the highest rate of a line so far

vars == <<max_bandwidth, rateidx, wantbiggerrate, rateidx_init, todo, painting, last, peak>>

scale == <<64, 128, 256, 1000, 10000, 100000, 1000000>>

InTable(i) == i \in 0 .. Len(scale) - 1

Init == /\ max_bandwidth \in MaxBandwidths
        /\ rateidx = 0
        /\ wantbiggerrate = FALSE
        /\ rateidx_init = 0
        /\ todo = << >>
        /\ painting = FALSE
        /\ last = 0
        /\ peak = 0

get_bar_interval(max) == IF max > 100000 THEN 100 ELSE 10

(* The marks of draw_bar_scale(): five on a linear scale, powers of the      *)
(* interval on a logarithmic one (those below 1 kbit/s are left out).        *)
Marks(max, log_scale) ==
  IF ~ log_scale THEN [i \in 1 .. 5 |-> (max * i) \div 5]
  ELSE SelectSeq(IF get_bar_interval(max) = 100 THEN <<1, 100, 10000, 1000000>>
                                                ELSE <<1, 10, 100, 1000, 10000, 100000>>,
                 LAMBDA rate : rate <= max)

get_max_bandwidth == IF max_bandwidth > 0 THEN max_bandwidth ELSE scale[rateidx + 1]

(* ui_print() starts: the marks come first, then the bars of the lines.      *)
Begin == /\ ~ painting /\ InTable(rateidx)
         /\ painting' = TRUE
         /\ \E showbars, log_scale \in BOOLEAN, n \in 0 .. MaxBars :
              \E rows \in [1 .. n -> Rates] :
                 IF showbars
                 THEN /\ todo' = Marks(get_max_bandwidth, log_scale) \o rows
                      /\ peak' = Max({peak} \cup Range(rows))
                 ELSE todo' = << >> /\ peak' = peak
         /\ last' = 0
         /\ UNCHANGED <<max_bandwidth, rateidx, wantbiggerrate, rateidx_init>>

(* while (rate > scale[rateidx_init++].max) {}: the entry behind the first   *)
(* one the rate fits, and for a rate above the last entry one that is at     *)
(* least two past the table.                                                 *)
FirstFit(rate) ==
  IF \E i \in 0 .. Len(scale) - 1 : rate <= scale[i + 1]
  THEN 1 + CHOOSE i \in 0 .. Len(scale) - 1 :
             rate <= scale[i + 1] /\ \A j \in 0 .. i - 1 : rate > scale[j + 1]
  ELSE Len(scale) + 1

(* get_bar_length_eighths()                                                  *)
DrawBar ==
  /\ todo # << >> /\ InTable(rateidx)
  /\ LET rate == Head(todo) IN
     /\ IF rate > 0 /\ rate > scale[rateidx + 1]
        THEN /\ wantbiggerrate' = TRUE
             /\ IF rateidx_init = 0
                THEN rateidx_init' = FirstFit(rate) /\ rateidx' = rateidx_init'
                ELSE UNCHANGED <<rateidx_init, rateidx>>
        ELSE UNCHANGED <<wantbiggerrate, rateidx_init, rateidx>>
     /\ last' = rate
  /\ todo' = Tail(todo)
  /\ UNCHANGED <<max_bandwidth, painting, peak>>

MutantEnd == /\ painting /\ todo = << >>
             /\ painting' = FALSE
             /\ IF wantbiggerrate /\ max_bandwidth = 0
                THEN rateidx' = rateidx + 1 /\ wantbiggerrate' = wantbiggerrate
                ELSE UNCHANGED <<rateidx, wantbiggerrate>>
             /\ UNCHANGED <<max_bandwidth, rateidx_init, todo, last, peak>>

MutantEndLazy == /\ painting /\ todo = << >>
                 /\ painting' = FALSE
                 /\ wantbiggerrate' = FALSE
                 /\ UNCHANGED <<max_bandwidth, rateidx, rateidx_init, todo, last, peak>>

(* The end of ui_print().                                                    *)
End == /\ painting /\ todo = << >>
       /\ painting' = FALSE
       /\ IF wantbiggerrate /\ max_bandwidth = 0
          THEN rateidx' = rateidx + 1 /\ wantbiggerrate' = FALSE
          ELSE UNCHANGED <<rateidx, wantbiggerrate>>
       /\ UNCHANGED <<max_bandwidth, rateidx_init, todo, last, peak>>

(* The index has left the table: what is read there can be anything, and the *)
(* model goes no further.                                                    *)
Undefined == ~ InTable(rateidx) /\ UNCHANGED vars

Next == Begin \/ DrawBar \/ End \/ Undefined

Spec == Init /\ [][Next]_vars

(* The display is repainted for as long as the program runs.                 *)
FairSpec == Spec /\ WF_vars(Next)

-----------------------------------------------------------------------------
(* The entry of the table a rate needs.                                      *)
Needed(rate) == FirstFit(rate) - 1

(* While no line is faster than 10 Mbit/s and -m, if given, is no more than  *)
(* 100 Mbit/s, the index is one of the table, and without -m never more than *)
(* two entries above what the fastest line so far needs, however repaints    *)
(* and rates follow each other.  Beyond that it does leave the table: a      *)
(* first rate above 10 Mbit/s makes it the last entry (ui.c:660-661), and    *)
(* the end of the same repaint one more (ui.c:1442), which nothing compares  *)
(* with the end of the table.                                                *)
ScaleFollowsRates ==
  peak <= 10000 /\ max_bandwidth <= 100000 =>
     InTable(rateidx) /\ (max_bandwidth = 0 => rateidx <= Needed(peak) + 2)

(* Without -m, a rate that is drawn again and again has a bar that fits from *)
(* some repaint on, as long as the index has not left the table.             *)
EveryRateFits ==
  \A r \in Rates : []<>(last = r /\ max_bandwidth = 0) => <>[](Needed(r) <= rateidx)
=============================================================================
