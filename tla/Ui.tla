--------------------------------- MODULE Ui ---------------------------------
(* The keys of ui_loop() that change what ui_print() lays out, the two       *)
(* filters the user can edit, and ui_print() itself, line by line.  On an    *)
(* Ethernet link the packet thread repaints the screen from tick() as well,  *)
(* and several keys call ui_print() without tick_mutex, so two repaints and  *)
(* a change of the options can overlap.  Sorting, ageing and the rates are   *)
(* in Screen and Tick, the prompt in Edline.                                 *)
EXTENDS Integers, Sequences, SequencesExt, FiniteSetsExt

CONSTANTS Sessions,      \* the sessions considered: records of
                         \*   painters   {"main"}, or {"main", "packet"} on Ethernet
                         \*   lines      the number of lines on screen_list
                         \*   maxOffset  bound on options.screen_offset
          LINES,         \* height of the terminal
          Regexps,       \* screen filters that compile, with the lines they match
          Filters,       \* net filters that compile
          NULL

VARIABLES session,       \* the one of Sessions that is run
          showports, showhelp, showbars, linedisplay, screen_offset, \* options
          filtercode, kernel,        \* options.filtercode; the filter libpcap applies
          screenfilter, preg,        \* options.screenfilter; the compiled expression
          dontshowdisplay,
          pc,            \* "key", a prompt, or "install" or "compile" after one
          todo,          \* calls the handler of the last key has still to make
          tick_mutex,    \* the painter that holds it, or NULL
          paint          \* what each ui_print() in progress has laid out so far

options == <<showports, showhelp, showbars, linedisplay, screen_offset>>
filters == <<filtercode, kernel, screenfilter, preg>>
vars == <<session, options, filters, dontshowdisplay, pc, todo, tick_mutex, paint>>

Painters == session.painters

Lines == session.lines

Idle == [on |-> FALSE, y |-> 0, next |-> 1, at |-> "line", rows |-> << >>]

Init == /\ session \in Sessions
        /\ showports \in {"off", "src", "dest", "on"}
        /\ showhelp = FALSE
        /\ showbars \in BOOLEAN
        /\ linedisplay \in 0 .. 3
        /\ screen_offset = 0
        /\ filtercode \in Filters \union {NULL} /\ kernel = filtercode
        /\ screenfilter = NULL /\ preg = NULL
        /\ dontshowdisplay = FALSE
        /\ pc = "key" /\ todo = << >>
        /\ tick_mutex = NULL
        /\ paint = [p \in Painters |-> Idle]

-----------------------------------------------------------------------------
(* ui_print()                                                                *)

TWO_LINE == 0

(* draw_bar_scale() takes two rows of the screen, or one without the bars.   *)
ScaleRows == IF showbars THEN 2 ELSE 1

(* The lines skipped by scrolling; scrolled past the end, or with the help   *)
(* on the screen, there is nothing to lay out.                               *)
Start == [Idle EXCEPT !.on = TRUE, !.y = ScaleRows,
                      !.next = IF showhelp THEN Lines + 1 ELSE screen_offset + 1]

Fits(p) == paint[p].y < LINES - 5 /\ paint[p].next <= Lines

Height == IF linedisplay = TWO_LINE THEN 2 ELSE 1

(* The hosts of a line are drawn: linedisplay tells how many rows it takes.  *)
Drawn(p) ==
  [paint[p] EXCEPT !.at = "totals",
                   !.rows = Append(@, [y |-> paint[p].y, height |-> Height,
                                       line |-> paint[p].next])]

MutantSkipped(p) == [paint[p] EXCEPT !.at = "line", !.next = @ + 1, !.y = @ + Height]

Skipped(p) == [paint[p] EXCEPT !.at = "line", !.next = @ + 1]

(* screen_filter_match() sees whether there is a filter ...                  *)
Look(p) == /\ paint[p].on /\ paint[p].at = "line" /\ Fits(p)
           /\ paint' = [paint EXCEPT ![p] = IF screenfilter = NULL THEN Drawn(p)
                                            ELSE [@ EXCEPT !.at = "match"]]
           /\ UNCHANGED <<options, filters, dontshowdisplay, pc, todo, tick_mutex>>

(* ... and then runs it.  An expression that has been freed meanwhile may    *)
(* answer anything.                                                          *)
Match(p) == /\ paint[p].at = "match"
            /\ \E yes \in IF preg = NULL THEN BOOLEAN ELSE {paint[p].next \in preg} :
                 paint' = [paint EXCEPT ![p] = IF yes THEN Drawn(p) ELSE Skipped(p)]
            /\ UNCHANGED <<options, filters, dontshowdisplay, pc, todo, tick_mutex>>

(* Its rates go by linedisplay once more, and so does where the next line is *)
(* put; the other thread may change it in between.                           *)
DrawTotals(p) ==
  /\ paint[p].at = "totals"
  /\ paint' = [paint EXCEPT ![p].at = "advance",
                            ![p].rows[Len(paint[p].rows)].height = Max({@, Height})]
  /\ UNCHANGED <<options, filters, dontshowdisplay, pc, todo, tick_mutex>>

Advance(p) ==
  /\ paint[p].at = "advance"
  /\ paint' = [paint EXCEPT ![p].at = "line", ![p].y = @ + Height, ![p].next = @ + 1]
  /\ UNCHANGED <<options, filters, dontshowdisplay, pc, todo, tick_mutex>>

Laid(p) == paint[p].on /\ paint[p].at = "line" /\ ~ Fits(p)

(* The totals are drawn, and ui_print() and the tick() around it return.     *)
Finish(p) == /\ Laid(p)
             /\ paint' = [paint EXCEPT ![p] = Idle]
             /\ tick_mutex' = IF tick_mutex = p THEN NULL ELSE tick_mutex
             /\ todo' = IF p = "main" THEN Tail(todo) ELSE todo
             /\ UNCHANGED <<options, filters, dontshowdisplay, pc>>

(* tick() of the packet thread, when it repaints.                            *)
PacketTick == /\ "packet" \in Painters
              /\ tick_mutex = NULL /\ ~ dontshowdisplay
              /\ tick_mutex' = "packet"
              /\ paint' = [paint EXCEPT !["packet"] = Start]
              /\ UNCHANGED <<options, filters, dontshowdisplay, pc, todo>>

-----------------------------------------------------------------------------
(* The calls the main thread makes after a key.                              *)

Call(c) == todo # << >> /\ Head(todo) = c /\ ~ paint["main"].on

(* tick(1), from showhelp() or by itself: it repaints under the mutex,       *)
(* unless the display is off.  The tick(0) that ends the loop repaints when  *)
(* it is time to.                                                            *)
MainTick == /\ tick_mutex = NULL
            /\ \E due \in BOOLEAN :
               /\ Call("tick") \/ Call("tick0")
               /\ Call("tick") => due
               /\ IF dontshowdisplay \/ ~ due
                  THEN todo' = Tail(todo) /\ UNCHANGED <<tick_mutex, paint>>
                  ELSE /\ tick_mutex' = "main"
                       /\ paint' = [paint EXCEPT !["main"] = Start]
                       /\ todo' = todo
            /\ UNCHANGED <<options, filters, dontshowdisplay, pc>>

(* The keys that call ui_print() do so without the mutex.                    *)
MainPrint == /\ Call("ui_print")
             /\ IF dontshowdisplay
                THEN todo' = Tail(todo) /\ paint' = paint
                ELSE paint' = [paint EXCEPT !["main"] = Start] /\ todo' = todo
             /\ UNCHANGED <<options, filters, dontshowdisplay, pc, tick_mutex>>

(* dontshowdisplay = 0                                                       *)
MainShow == /\ Call("show")
            /\ dontshowdisplay' = FALSE
            /\ todo' = Tail(todo)
            /\ UNCHANGED <<options, filters, pc, tick_mutex, paint>>

-----------------------------------------------------------------------------
(* The keys.                                                                 *)

AtKey == pc = "key" /\ todo = << >>

Pressed(calls) == /\ AtKey
                  /\ todo' = Append(calls, "tick0")
                  /\ UNCHANGED <<filters, dontshowdisplay, pc, tick_mutex, paint>>

(* Keys whose settings do not change the layout, and the time-out of         *)
(* getch(), by the repaints they cause.                                      *)
KeyOther == /\ \E calls \in {<< >>, <<"tick">>, <<"tick", "tick">>, <<"tick", "ui_print">>} :
                 Pressed(calls)
            /\ UNCHANGED options

KeyHelp == /\ Pressed(<<"tick">>)
           /\ showhelp' = ~ showhelp
           /\ UNCHANGED <<showports, showbars, linedisplay, screen_offset>>

KeyBars == /\ Pressed(<<"tick", "tick">>)
           /\ showbars' = ~ showbars
           /\ UNCHANGED <<showports, showhelp, linedisplay, screen_offset>>

KeyLines == /\ Pressed(<<"tick", "ui_print">>)
            /\ linedisplay' = (linedisplay + 1) % 4
            /\ UNCHANGED <<showports, showhelp, showbars, screen_offset>>

KeyDown == /\ screen_offset < session.maxOffset
           /\ Pressed(<<"ui_print">>)
           /\ screen_offset' = screen_offset + 1
           /\ UNCHANGED <<showports, showhelp, showbars, linedisplay>>

KeyUp == /\ screen_offset > 0
         /\ Pressed(<<"ui_print">>)
         /\ screen_offset' = screen_offset - 1
         /\ UNCHANGED <<showports, showhelp, showbars, linedisplay>>

Ports(new) == /\ Pressed(<<"tick">>)
              /\ showports' = new
              /\ UNCHANGED <<showhelp, showbars, linedisplay, screen_offset>>

KeyS == Ports(CASE showports = "off" -> "src" [] showports = "dest" -> "on"
                [] showports = "on" -> "dest" [] OTHER -> "off")

KeyD == Ports(CASE showports = "off" -> "dest" [] showports = "src" -> "on"
                [] showports = "on" -> "src" [] OTHER -> "off")

KeyP == Ports(IF showports = "off" THEN "on" ELSE "off")

Prompts == {"net", "screen", "command"}

MutantKeyPrompt == /\ AtKey
                   /\ pc' \in Prompts
                   /\ UNCHANGED <<options, filters, dontshowdisplay, todo, tick_mutex, paint>>

(* f, l and ! turn the display off and open the prompt.                      *)
KeyPrompt == /\ AtKey
             /\ dontshowdisplay' = TRUE
             /\ pc' \in Prompts
             /\ UNCHANGED <<options, filters, todo, tick_mutex, paint>>

Closed(calls) == /\ pc' = "key"
                 /\ todo' = calls \o <<"show", "ui_print", "tick0">>
                 /\ UNCHANGED <<options, dontshowdisplay, tick_mutex, paint>>

Cancel == /\ pc \in {"net", "screen"}
          /\ Closed(<< >>)
          /\ UNCHANGED filters

(* The command has run, or there was none; nothing is repainted.             *)
CommandOver == /\ pc = "command"
               /\ pc' = "key"
               /\ todo' = <<"show", "tick0">>
               /\ UNCHANGED <<options, filters, dontshowdisplay, tick_mutex, paint>>

(* set_filter_code() succeeds: libpcap applies the new filter.  A blank text *)
(* means no filter.                                                          *)
NetFilterSet == /\ pc = "net"
                /\ kernel' \in Filters \union {NULL}
                /\ pc' = "install"
                /\ UNCHANGED <<options, filtercode, screenfilter, preg, dontshowdisplay, todo,
                               tick_mutex, paint>>

(* The options remember the text.                                            *)
NetFilterInstalled == /\ pc = "install"
                      /\ filtercode' = kernel
                      /\ Closed(<<"tick">>)
                      /\ UNCHANGED <<kernel, screenfilter, preg>>

(* set_filter_code() fails, in pcap_compile() or in pcap_setfilter(): the    *)
(* old filter stays in place.                                                *)
NetFilterFails == /\ pc = "net"
                  /\ Closed(<<"tick">>)
                  /\ UNCHANGED filters

(* screen_filter_set() drops the old expression first ...                    *)
ScreenFilterFree == /\ pc = "screen"
                    /\ screenfilter' = NULL
                    /\ preg' = NULL
                    /\ pc' = "compile"
                    /\ UNCHANGED <<options, filtercode, kernel, dontshowdisplay, todo,
                                   tick_mutex, paint>>

(* ... and then compiles the new one, or reports that it is invalid.         *)
ScreenFilterCompile ==
  /\ pc = "compile"
  /\ \/ /\ \E s \in Regexps : preg' = s /\ screenfilter' = s
        /\ Closed(<< >>)
     \/ /\ UNCHANGED <<preg, screenfilter>>
        /\ Closed(<<"tick">>)
  /\ UNCHANGED <<filtercode, kernel>>

Step == \/ \E p \in Painters : Look(p) \/ Match(p) \/ DrawTotals(p) \/ Advance(p) \/ Finish(p)
        \/ PacketTick \/ MainTick \/ MainPrint \/ MainShow
        \/ KeyOther \/ KeyHelp \/ KeyBars \/ KeyLines \/ KeyDown \/ KeyUp \/ KeyS \/ KeyD \/ KeyP
        \/ KeyPrompt \/ Cancel \/ CommandOver
        \/ NetFilterSet \/ NetFilterInstalled \/ NetFilterFails
        \/ ScreenFilterFree \/ ScreenFilterCompile

Next == Step /\ UNCHANGED session

Spec == Init /\ [][Next]_vars

-----------------------------------------------------------------------------
(* While a prompt is open no repaint starts that would overwrite it; however *)
(* it is left, the display is on again when the next key is read; and what f *)
(* offers for editing is the filter libpcap applies, since a filter that     *)
(* does not compile changes neither (ui.c:1680-1700, 1726-1754).             *)
PromptsEndWell ==
  [][/\ \A p \in Painters : pc \in Prompts /\ ~ paint[p].on => ~ paint'[p].on
     /\ AtKey' => ~ dontshowdisplay' /\ filtercode' = kernel']_vars

(* The lines a repaint should show: those past the scroll offset that the    *)
(* filter matches, from the scale down while there is room.                  *)
Shown ==
  LET wanted == SetToSortSeq({i \in 1 .. Lines : /\ i > screen_offset /\ ~ showhelp
                                                 /\ screenfilter # NULL => i \in screenfilter},
                             LAMBDA a, b : a < b)
      fit == Cardinality({r \in ScaleRows .. LINES - 6 : (r - ScaleRows) % Height = 0})
  IN  [i \in 1 .. Min({Len(wanted), fit}) |->
         [y |-> ScaleRows + (i - 1) * Height, height |-> Height, line |-> wanted[i]]]

(* No line is drawn over the rule above the totals, on row LINES - 4, even   *)
(* when the number of rows per line changes in the middle of a repaint; and  *)
(* when only the main thread paints, a finished repaint shows exactly the    *)
(* lines it should.                                                          *)
LayoutIsRight ==
  /\ \A p \in Painters : \A i \in DOMAIN paint[p].rows :
        paint[p].rows[i].y + paint[p].rows[i].height <= LINES - 4
  /\ Painters = {"main"} /\ Laid("main") => paint["main"].rows = Shown
=============================================================================
