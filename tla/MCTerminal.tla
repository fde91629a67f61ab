----------------------------- MODULE MCTerminal -----------------------------
(* What the user types and sees and when: the prompt, the keys and the       *)
(* layout of the screen, the scale of its bars, the clock that repaints it,  *)
(* and, without a screen, the export.  A behaviour is one of one part.       *)
EXTENDS Edline

(* A terminal on which three characters of the text fit, texts of up to five *)
(* characters, letters and blanks.                                           *)
MCInitials == {NULL, << >>, <<"a">>, <<"a", " ", "b">>}

(* A terminal of ten rows: with the bars on, two lines of two rows fit, or   *)
(* three of one.                                                             *)
MCSessions ==
  {[painters |-> {"main", "packet"}, lines |-> 3, maxOffset |-> 1],
   [painters |-> {"main"}, lines |-> 4, maxOffset |-> 5]}

MCRegexps == {{1, 3, 4}, {2}}

(* Rates on both sides of the entries of the scale, and some for which the   *)
(* scale may not last.                                                       *)
MCRates == {0, 100, 256, 900, 10000, 20000, 2000000}

(* A second of three units, a display of two.                                *)
MCDivs == [d \in 0 .. 2 |-> IF d = 0 THEN 2 ELSE 3]

Setting(export, duration, processes, ethernet, prompts) ==
  [export_mode |-> export, export_duration |-> duration, show_processes |-> processes,
   ethernet |-> ethernet, prompts |-> prompts]

(* The interactive program on Ethernet, and elsewhere with a user who opens  *)
(* prompts, and exports.                                                     *)
MCSettings ==
  {Setting(FALSE, 0, FALSE, TRUE, FALSE), Setting(FALSE, 0, FALSE, FALSE, TRUE),
   Setting(TRUE, 2, TRUE, FALSE, FALSE), Setting(TRUE, 1, FALSE, TRUE, FALSE)}

(* Names with the characters JSON escapes, and one with a comma.             *)
MCInterfaces == {<<"e">>, <<"\"", "\\">>}

MCPlainNames == {<< >>, <<"a">>, <<"a", "\\">>, <<"\"", "b">>}

MCCommaNames == {<<"a", ",", "b">>}

CONSTANTS Parts,                              \* the parts that are run
          Sessions, LINES, Regexps, Filters,  \* Ui
          Rates, MaxBandwidths, MaxBars,      \* BarScale
          Interfaces, ProcessNames, MaxFlows, MaxSnapshots,  \* Export
          Second, RESOLUTION, DISPLAY_RESOLUTION, PROCINFO_RESOLUTION, HELP_TIME, HISTORY_LENGTH,
          history_divs, Settings, Late, MaxClock             \* Tick

VARIABLES part,
          session, showports, showhelp, showbars, linedisplay, screen_offset, filtercode, kernel,
          screenfilter, preg, dontshowdisplay, pc, todo, tick_mutex, paint,
          max_bandwidth, rateidx, wantbiggerrate, rateidx_init, bars, painting, last, peak,
          export_mode, show_processes, interface, csv_header_printed, snapshots, output,
          options, clock, begun, last_timestamp, last_display, last_procinfo, slot_elapsed, slots,
          help, drawn, errands, turn, foad, ticked, gap

uiVars == <<session, showports, showhelp, showbars, linedisplay, screen_offset, filtercode, kernel,
            screenfilter, preg, dontshowdisplay, pc, todo, tick_mutex, paint>>
barVars == <<max_bandwidth, rateidx, wantbiggerrate, rateidx_init, bars, painting, last, peak>>
exportVars == <<export_mode, show_processes, interface, csv_header_printed, snapshots, output>>
tickVars == <<options, clock, begun, last_timestamp, last_display, last_procinfo, slot_elapsed,
              slots, help, drawn, errands, turn, foad, ticked, gap>>
allVars == <<part, vars, uiVars, barVars, exportVars, tickVars>>

U == INSTANCE Ui
B == INSTANCE BarScale WITH todo <- bars
E == INSTANCE Export
T == INSTANCE Tick WITH todo <- errands

ASSUME T!TickAssumption

(* The parts that are not run stay in one of their initial states.           *)
MCInit ==
  /\ part \in Parts
  /\ Init /\ (part # "prompt" => str = << >> /\ slen = 256)
  /\ U!Init /\ (part # "screen" => /\ session = CHOOSE s \in Sessions : TRUE
                                   /\ showports = "off" /\ showbars /\ linedisplay = 0
                                   /\ filtercode = NULL)
  /\ B!Init /\ (part # "scale" => max_bandwidth = 0)
  /\ E!Init /\ (part # "export" => /\ export_mode = "json" /\ show_processes
                                   /\ interface = CHOOSE i \in Interfaces : TRUE)
  /\ T!Init /\ (part # "clock" => clock = 0 /\ options = Setting(FALSE, 0, FALSE, TRUE, FALSE))

Prompted == part = "prompt" /\ Next /\ UNCHANGED <<part, uiVars, barVars, exportVars, tickVars>>
Displayed == part = "screen" /\ U!Next /\ UNCHANGED <<part, vars, barVars, exportVars, tickVars>>
Scaled == part = "scale" /\ B!Next /\ UNCHANGED <<part, vars, uiVars, exportVars, tickVars>>
Exported == part = "export" /\ E!Next /\ UNCHANGED <<part, vars, uiVars, barVars, tickVars>>
Timed == part = "clock" /\ T!Next /\ UNCHANGED <<part, vars, uiVars, barVars, exportVars>>

MainTimed == part = "clock" /\ T!Main /\ UNCHANGED <<part, options, vars, uiVars, barVars, exportVars>>
TimePasses == part = "clock" /\ T!Pass /\ UNCHANGED <<part, options, vars, uiVars, barVars, exportVars>>

Over == /\ \/ part = "export" /\ Len(snapshots) = MaxSnapshots
           \/ part = "clock" /\ (clock = MaxClock \/ errands = <<"done">>)
        /\ UNCHANGED allVars

MCNext == Prompted \/ Displayed \/ Scaled \/ Exported \/ Timed \/ Over

(* The display is repainted for as long as the program runs, the main thread *)
(* is scheduled, and time goes on.                                           *)
MCSpec ==
  /\ MCInit /\ [][MCNext]_allVars
  /\ WF_allVars(Scaled \/ MainTimed) /\ WF_allVars(TimePasses)

(* See Ui, BarScale, Export and Tick.                                        *)
LayoutIsRight == U!LayoutIsRight
PromptsEndWell == U!PromptsEndWell
ScaleFollowsRates == B!ScaleFollowsRates
EveryRateFits == B!EveryRateFits
ExportReadsBack == E!ExportReadsBack
CsvReadsBack == E!CsvReadsBack
RatesNearlyRight == T!RatesNearlyRight
HelpIsReadable == T!HelpIsReadable
ExportTakesItsTime == T!ExportTakesItsTime
ExportEnds == T!ExportEnds
=============================================================================
