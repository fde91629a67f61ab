------------------------------- MODULE Screen -------------------------------
(***************************************************************************)
(* From the traffic history to the list of lines on the screen:            *)
(* analyse_data(), make_screen_list() and calculate_totals() of            *)
(* src/src/ui/ui.c, with src/src/data/sorted_list.c.                       *)
(*                                                                         *)
(* The history is the sliding window that module History is shown to       *)
(* implement; hist_idx[i] of the code is the slot of age i.  Rates are     *)
(* kept as sums of bytes: the division by history_length() is the same for *)
(* all lines of a column.                                                  *)
(*                                                                         *)
(* analyse_data() runs in tick(), under tick_mutex, in the main thread or, *)
(* on Ethernet, in the packet thread.  While one of them is in it the      *)
(* other goes on: the packet thread records packets, the main thread       *)
(* changes options.  The steps are those between which this can matter:    *)
(* clearing, summing up, collecting the lines, each insertion of the sort  *)
(* (which reads options.sort and options.linedisplay in every comparison), *)
(* and the end.                                                            *)
(***************************************************************************)
EXTENDS SlidingWindow, Sequences, FiniteSets, FiniteSetsExt, SequencesExt

CONSTANTS
    Star,              \* the address of an aggregated host
    Rank,              \* order of the host names, as strcmp() sees them
    history_divs,      \* 2, 10 and 40 slots in the code, as a function on 0 .. 2
    Sessions,          \* link layers, traffic, and keys the user presses
    NoThread

Divs == 0 .. 2

ASSUME ScreenAssumption ==
    /\ history_divs \in [Divs -> 1 .. HISTORY_LENGTH]
    /\ history_divs[0] <= history_divs[1] /\ history_divs[1] <= HISTORY_LENGTH
    /\ \A x \in Sessions :
          x.ethernet \in BOOLEAN /\ x.flows \subseteq Flow /\ x.sides \subseteq Sides
    /\ \A h \in DOMAIN Rank : Rank[h] > 0

VARIABLES
    session,
    options,
    screen_hash,       \* addr_pair -> line
    screen_list,       \* the lines in order, by their pairs
    totals,            \* side -> division -> bytes
    peak,              \* "sent", "recv" and "total": peaksent, peakrecv, peaktotal
    analyser,          \* the thread inside analyse_data(), or NoThread
    phase,             \* how far it is
    cleared,           \* whether it cleared the list
    items,             \* the lines that are still to be sorted
    sorted,            \* those that are
    steady,            \* the options that are the same since they were collected
    display            \* the order drawn last

sortVars == <<items, sorted, steady>>

screenVars == <<screen_hash, screen_list, totals, peak, analyser, phase, cleared, sortVars, display>>

vars == <<session, windowVars, options, screenVars>>

Init ==
    /\ session \in Sessions
    /\ Start
    /\ options = [aggregate_src |-> FALSE, aggregate_dest |-> FALSE, showports |-> "off",
                  freezeorder |-> FALSE, paused |-> FALSE, sort |-> "div2", linedisplay |-> 0]
    /\ screen_hash = [k \in {} |-> 0]
    /\ screen_list = <<>>
    /\ totals = [s \in Sides |-> [d \in Divs |-> 0]]
    /\ peak = [p \in Sides \cup {"total"} |-> 0]
    /\ analyser = NoThread
    /\ phase = "idle"
    /\ cleared = FALSE
    /\ items = {} /\ sorted = <<>> /\ steady = {}
    /\ display = <<>>

-----------------------------------------------------------------------------
(* Lines *)

ShowsSrcPort(o) == o.showports \in {"on", "src"}

ShowsDstPort(o) == o.showports \in {"on", "dest"}

(* The pair under which a flow is displayed. *)
Aggregated(o, f) ==
    [src |-> IF o.aggregate_src THEN Star ELSE f.src,
     dst |-> IF o.aggregate_dest THEN Star ELSE f.dst,
     src_port |-> IF ShowsSrcPort(o) THEN f.src_port ELSE 0,
     dst_port |-> IF ShowsDstPort(o) THEN f.dst_port ELSE 0,
     protocol |-> IF o.showports = "off" THEN 0 ELSE f.protocol]

Active == {f \in Flow : idle[f] < HISTORY_LENGTH}

(* The slots that count for a division; the last one covers the window. *)
InDivision(d) == 0 .. (IF d = 2 THEN HISTORY_LENGTH ELSE history_divs[d]) - 1

DivisionSum(w, s, d) == MapThenSumSet(LAMBDA k : w[s][k], InDivision(d))

(* The name is cached_hostname by its rank, 0 for an empty one. *)
EmptyLine ==
    [sum |-> [s \in Sides |-> [d \in Divs |-> 0]], total |-> [s \in Sides |-> 0], name |-> 0]

AddLines(x, y) ==
    [sum |-> [s \in Sides |-> [d \in Divs |-> x.sum[s][d] + y.sum[s][d]]],
     total |-> [s \in Sides |-> x.total[s] + y.total[s]],
     name |-> x.name]

(* The traffic of some flows as one line. *)
LineOf(fs) ==
    [sum |-> [s \in Sides |-> [d \in Divs |->
                 MapThenSumSet(LAMBDA f : DivisionSum(window[f], s, d), fs)]],
     total |-> [s \in Sides |-> MapThenSumSet(LAMBDA f : cumulative[f][s], fs)],
     name |-> 0]

-----------------------------------------------------------------------------
(* The order of the lines *)

Both(line, d) == line.sum["sent"][d] + line.sum["recv"][d]

Columns(from) == [i \in 1 .. 3 - from |-> from + i - 1]

(* What screen_line_bandwidth_compare() looks at, most significant first. *)
SortKey(o, line, from) ==
    LET cols == Columns(from)
        own(s) == [i \in DOMAIN cols |-> line.sum[s][cols[i]]]
        both == [i \in DOMAIN cols |-> Both(line, cols[i])]
    IN  CASE o.linedisplay = 2 -> own("recv") \o both
          [] o.linedisplay = 3 -> own("sent") \o both
          [] OTHER -> both

MutantBandwidthCompare(o, x, y, from) ==
    LET a == SortKey(o, x, from)
        b == SortKey(o, y, from)
    IN  a = b \/ \E i \in DOMAIN a : a[i] < b[i]

(* screen_line_bandwidth_compare(): x belongs below y.  Equal lines compare *)
(* as 1 either way round.                                                   *)
screen_line_bandwidth_compare(o, x, y, from) ==
    LET a == SortKey(o, x, from)
        b == SortKey(o, y, from)
    IN  a = b \/ \E i \in DOMAIN a : a[i] < b[i] /\ \A j \in 1 .. i - 1 : a[j] = b[j]

screen_line_host_compare(o, x, y) ==
    IF x.name = y.name THEN screen_line_bandwidth_compare(o, x, y, 2) ELSE x.name > y.name

screen_line_compare(o, x, y) ==
    CASE o.sort = "div1" -> screen_line_bandwidth_compare(o, x, y, 0)
      [] o.sort = "div2" -> screen_line_bandwidth_compare(o, x, y, 1)
      [] o.sort = "div3" -> screen_line_bandwidth_compare(o, x, y, 2)
      [] OTHER -> screen_line_host_compare(o, x, y)

-----------------------------------------------------------------------------
(* analyse_data() *)

(* screen_hash_clear(): the names stay. *)
Zeroed == [k \in DOMAIN screen_hash |-> [EmptyLine EXCEPT !.name = screen_hash[k].name]]

MutantHashNotCleared ==
    IF options.freezeorder
    THEN /\ screen_hash' = Zeroed
         /\ UNCHANGED <<screen_list, peak>>
    ELSE /\ screen_hash' = screen_hash
         /\ screen_list' = <<>>
         /\ peak' = [p \in DOMAIN peak |-> 0]

MutantListNotCleared ==
    IF options.freezeorder
    THEN /\ screen_hash' = Zeroed
         /\ UNCHANGED <<screen_list, peak>>
    ELSE /\ screen_hash' = [k \in {} |-> 0]
         /\ screen_list' = screen_list
         /\ peak' = [p \in DOMAIN peak |-> 0]

MutantPeakNotReset ==
    IF options.freezeorder
    THEN /\ screen_hash' = Zeroed
         /\ UNCHANGED <<screen_list, peak>>
    ELSE /\ screen_hash' = [k \in {} |-> 0]
         /\ screen_list' = <<>>
         /\ peak' = peak

(* If the order is frozen the lines are set to zero, else they and the list *)
(* are freed and the peaks start again.                                     *)
ClearLines ==
    IF options.freezeorder
    THEN /\ screen_hash' = Zeroed
         /\ UNCHANGED <<screen_list, peak>>
    ELSE /\ screen_hash' = [k \in {} |-> 0]
         /\ screen_list' = <<>>
         /\ peak' = [p \in DOMAIN peak |-> 0]

AnalyseClear(th) ==
    /\ analyser = NoThread
    /\ th = "packet" => session.ethernet
    /\ ~ options.paused
    /\ ClearLines
    /\ analyser' = th
    /\ phase' = "cleared"
    /\ cleared' = ~ options.freezeorder
    /\ UNCHANGED <<windowVars, options, totals, sortVars, display>>

Shown(k) == IF k \in DOMAIN screen_hash THEN screen_hash[k] ELSE EmptyLine

(* The lines after the loop over the history, with the options as they are  *)
(* when it begins.                                                          *)
Rows(o) ==
    [k \in DOMAIN screen_hash \cup {Aggregated(o, f) : f \in Active} |->
        AddLines(Shown(k), LineOf({f \in Active : Aggregated(o, f) = k}))]

AnalyseRows ==
    /\ phase = "cleared"
    /\ phase' = "rows"
    /\ screen_hash' = Rows(options)
    /\ UNCHANGED <<windowVars, options, screen_list, totals, peak, analyser, cleared, sortVars, display>>

HostOf(o, k) == IF o.sort = "src" THEN k.src ELSE k.dst

(* The host names are looked up if they are needed for sorting. *)
Named(o) ==
    IF o.sort \in {"src", "dest"}
    THEN [k \in DOMAIN screen_hash |-> [screen_hash[k] EXCEPT !.name = Rank[HostOf(o, k)]]]
    ELSE screen_hash

(* The options that decide on the list and its order. *)
Listing == {"freezeorder", "sort", "linedisplay"}

MutantMakeScreenList ==
    /\ phase = "rows"
    /\ screen_hash' = Named(options) /\ items' = DOMAIN screen_hash /\ phase' = "sorting"
    /\ steady' = Listing
    /\ UNCHANGED <<windowVars, options, screen_list, totals, peak, analyser, cleared, sorted, display>>

(* make_screen_list(): the lines are collected, unless the order is frozen  *)
(* now, ...                                                                 *)
make_screen_list ==
    /\ phase = "rows"
    /\ IF options.freezeorder
       THEN screen_hash' = screen_hash /\ items' = {} /\ phase' = "frozen"
       ELSE screen_hash' = Named(options) /\ items' = DOMAIN screen_hash /\ phase' = "sorting"
    /\ steady' = Listing
    /\ UNCHANGED <<windowVars, options, screen_list, totals, peak, analyser, cleared, sorted, display>>

(* ... and sorted by qsort(), as the comparisons say that it makes then: an *)
(* item goes before the first one it compares as -1 with.                   *)
SortItem ==
    /\ phase = "sorting"
    /\ \E k \in items :
          LET after(i) == screen_line_compare(options, screen_hash[k], screen_hash[sorted[i]])
              place == Min({i \in DOMAIN sorted : ~ after(i)} \cup {Len(sorted) + 1})
          IN  sorted' = InsertAt(sorted, place, k) /\ items' = items \ {k}
    /\ UNCHANGED <<windowVars, options, screen_hash, screen_list, totals, peak, analyser, phase, cleared,
                   steady, display>>

SlotTotal(p, k) ==
    IF p = "total" THEN total_window["sent"][k] + total_window["recv"][k] ELSE total_window[p][k]

PeakNow(p) == Max({SlotTotal(p, k) : k \in Ages})

(* calculate_totals() *)
calculate_totals ==
    /\ peak' = [p \in DOMAIN peak |-> Max({peak[p], PeakNow(p)})]
    /\ totals' = [s \in Sides |-> [d \in Divs |-> DivisionSum(total_window, s, d)]]

(* sorted_list_insert_batch(): the nodes are chained to the root in their   *)
(* order; with no items the list is left as it is.                          *)
sorted_list_insert_batch == screen_list' = IF sorted = <<>> THEN screen_list ELSE sorted

(* The list, the totals, and ui_print(). *)
AnalyseEnd ==
    /\ phase \in {"frozen", "sorting"} /\ items = {}
    /\ sorted_list_insert_batch
    /\ calculate_totals
    /\ display' = screen_list'
    /\ phase' = "idle"
    /\ analyser' = NoThread
    /\ cleared' = FALSE /\ sorted' = <<>> /\ steady' = {}
    /\ UNCHANGED <<windowVars, options, screen_hash, items>>

(* A paused display is drawn again without being analysed. *)
Repaint ==
    /\ analyser = NoThread
    /\ options.paused
    /\ display' = screen_list
    /\ UNCHANGED <<windowVars, options, screen_hash, screen_list, totals, peak, analyser, phase, cleared, sortVars>>

-----------------------------------------------------------------------------
(* ui_loop(): the keys that change what is listed. *)

SrcPorts(p) == CASE p = "off" -> "src" [] p = "dest" -> "on" [] p = "on" -> "dest" [] p = "src" -> "off"

DestPorts(p) == CASE p = "off" -> "dest" [] p = "src" -> "on" [] p = "on" -> "src" [] p = "dest" -> "off"

Pressed(o, key) ==
    CASE key = "s" -> [o EXCEPT !.aggregate_src = ~ @]
      [] key = "d" -> [o EXCEPT !.aggregate_dest = ~ @]
      [] key = "S" -> [o EXCEPT !.showports = SrcPorts(@)]
      [] key = "D" -> [o EXCEPT !.showports = DestPorts(@)]
      [] key = "p" -> [o EXCEPT !.showports = IF @ = "off" THEN "on" ELSE "off"]
      [] key = "P" -> [o EXCEPT !.paused = ~ @]
      [] key = "o" -> [o EXCEPT !.freezeorder = ~ @]
      [] key = "1" -> [o EXCEPT !.sort = "div1"]
      [] key = "2" -> [o EXCEPT !.sort = "div2"]
      [] key = "3" -> [o EXCEPT !.sort = "div3"]
      [] key = "<" -> [o EXCEPT !.sort = "src"]
      [] key = ">" -> [o EXCEPT !.sort = "dest"]
      [] key = "t" -> [o EXCEPT !.linedisplay = (@ + 1) % 4]

KeyPress ==
    /\ analyser # "main"
    /\ \E key \in session.keys : options' = Pressed(options, key)
    /\ steady' = {x \in steady : options'[x] = options[x]}
    /\ UNCHANGED <<windowVars, screen_hash, screen_list, totals, peak, analyser, phase, cleared, items,
                   sorted, display>>

-----------------------------------------------------------------------------
(* The history: packets by the packet thread, rotation inside tick(). *)

Packet ==
    /\ analyser # "packet"
    /\ \E f \in session.flows, side, totalSide \in session.sides, n \in PacketLengths :
          /\ total_cumulative["sent"] + total_cumulative["recv"] + n <= session.bytes
          /\ Capture(f, side, totalSide, n)
    /\ UNCHANGED <<options, screenVars>>

Rotate ==
    /\ analyser = NoThread
    /\ NewSlot
    /\ UNCHANGED <<options, screenVars>>

Step ==
    \/ \E th \in {"main", "packet"} : AnalyseClear(th)
    \/ AnalyseRows \/ make_screen_list \/ SortItem \/ AnalyseEnd \/ Repaint \/ KeyPress \/ Packet \/ Rotate

Next == Step /\ UNCHANGED session

Spec == Init /\ [][Next]_vars

-----------------------------------------------------------------------------
(* Properties *)

LinesSum(d) == MapThenSumSet(LAMBDA k : Both(screen_hash[k], d), DOMAIN screen_hash)

(* What analyse_data() leaves when no packet is captured meanwhile: the     *)
(* lines of a division add up to the totals, frozen or not ("Traffic        *)
(* between hosts not currently visible will not be shown, but is still      *)
(* included in totals", man/iftop.8:231).                                   *)
LinesAddUp ==
    [][analyser = "packet" /\ analyser' = NoThread =>
          \A d \in Divs : LinesSum(d)' = totals'["sent"][d] + totals'["recv"][d]]_vars

(* Every line of the list is in the table that owns it, at every step of    *)
(* the analysis and whenever the order is frozen or unfrozen: the list      *)
(* never points at a freed line (ui.c:1066-1071, 1014-1033).                *)
ListedLinesExist == ToSet(screen_list) \subseteq DOMAIN screen_hash

(* The rate that a line shows in a column, and whether k may stand above l. *)
ShownRate(o, line, d) ==
    CASE o.linedisplay = 2 -> line.sum["recv"][d]
      [] o.linedisplay = 3 -> line.sum["sent"][d]
      [] OTHER -> Both(line, d)

MayPrecede(o, k, l) ==
    CASE o.sort = "src" -> Rank[k.src] <= Rank[l.src]
      [] o.sort = "dest" -> Rank[k.dst] <= Rank[l.dst]
      [] OTHER -> LET d == CASE o.sort = "div1" -> 0 [] o.sort = "div2" -> 1 [] o.sort = "div3" -> 2
                  IN  ShownRate(o, screen_hash[k], d) >= ShownRate(o, screen_hash[l], d)

Analysed == phase \in {"frozen", "sorting"} /\ phase' = "idle"

(* An analysis that does not find the order frozen when it makes the list   *)
(* leaves every line in it once, also when the order was frozen or the sort *)
(* changed on the way; and if the sort and the display mode are the same    *)
(* from the collection of the lines on, in the order of the manual: "Sort   *)
(* by the 1st, 2nd, or 3rd column" as it is shown (man/iftop.8:222), or by  *)
(* the source or destination name.  When the main thread changes the sort   *)
(* under the packet thread's qsort(), whose comparisons read it anew and    *)
(* use names that were not looked up (ui.c:574, 1017), any order is drawn.  *)
ListIsInOrder ==
    [][Analysed /\ phase = "sorting" =>
          /\ ToSet(screen_list') = DOMAIN screen_hash
          /\ IsInjective(screen_list')
          /\ {"sort", "linedisplay"} \subseteq steady =>
                \A i, j \in DOMAIN screen_list' :
                   i < j => MayPrecede(options, screen_list'[i], screen_list'[j])]_vars

(* "Freeze current display order" (man/iftop.8:231): the lines drawn while  *)
(* the order is frozen stay the same.  There are two exceptions, both when  *)
(* the main thread freezes the order in the middle of an analysis of the    *)
(* packet thread, which looks at the option twice (ui.c:1066, 983): before  *)
(* the second look the list is gone until the order is unfrozen, and after  *)
(* it the list in the making is drawn once.                                 *)
FrozenOrderStays ==
    [][options.freezeorder /\ options'.freezeorder =>
          \/ display' = display
          \/ phase = "frozen" /\ cleared /\ display' = <<>>
          \/ phase = "sorting" /\ "freezeorder" \notin steady]_vars

(* The peaks that an analysis leaves which has cleared the list are the     *)
(* greatest slots of the window: none is left over from before, none is     *)
(* missed (ui.c:918-940).                                                   *)
PeakIsWindowMax ==
    [][Analysed /\ cleared => \A p \in DOMAIN peak : peak'[p] = PeakNow(p)]_vars

(* "peak traffic over the last 40s" (man/iftop.8:189): the same of every    *)
(* analysis.  While the order is frozen the peaks are not reset.            *)
PeaksAreOfTheWindow ==
    [][Analysed => \A p \in DOMAIN peak : peak'[p] = PeakNow(p)]_vars
=============================================================================
