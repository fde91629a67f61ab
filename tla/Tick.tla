-------------------------------- MODULE Tick --------------------------------
(***************************************************************************)
(* When things happen: tick() of src/src/entry/iftop.c, the two main loops *)
(* that call it, export_loop() of src/src/ui/export.c and ui_loop() of     *)
(* src/src/ui/ui.c with the prompts it can wait in, and the help message   *)
(* that ui_tick() takes away.                                              *)
(*                                                                         *)
(* Time is counted in units of which RESOLUTION, DISPLAY_RESOLUTION and    *)
(* Second are multiples; time(NULL) is the clock rounded down to seconds.  *)
(* What a rotation, an analysis and a repaint do is in modules History,    *)
(* Screen and Procinfo; here a rotation begins a slot.                     *)
(***************************************************************************)
EXTENDS Integers, Sequences, SequencesExt

CONSTANTS
    Second,
    RESOLUTION,            \* length of a history slot
    DISPLAY_RESOLUTION,    \* least time between repaints; also the sleep of export_loop()
    PROCINFO_RESOLUTION,
    HELP_TIME,             \* seconds
    HISTORY_LENGTH,
    history_divs,          \* division -> slots
    Settings,              \* options and link layers the program is started with
    Late,                  \* the loop comes round at least this often but for prompts
    MaxClock               \* bound on the clock

TickAssumption ==
    /\ {Second, RESOLUTION, DISPLAY_RESOLUTION, PROCINFO_RESOLUTION, HISTORY_LENGTH, Late} \subseteq Nat \ {0}
    /\ DISPLAY_RESOLUTION <= Late
    /\ history_divs \in [0 .. 2 -> 2 .. HISTORY_LENGTH]
    /\ HELP_TIME \in Nat
    /\ Settings \subseteq [export_mode : BOOLEAN, export_duration : Nat,   \* seconds; 0 for no limit
                           show_processes : BOOLEAN, ethernet : BOOLEAN, prompts : BOOLEAN]

VARIABLES
    options,
    clock,
    begun,             \* when the main loop was entered
    last_timestamp,
    last_display,
    last_procinfo,
    slot_elapsed,
    slots,             \* when the slots in the history began, newest first
    help,              \* showhelphint, helptimer, persistenthelp, and when it was shown
    drawn,             \* the last thing put out
    todo,              \* what the main thread does before it looks at foad again
    turn,              \* when its loop last came round
    foad,
    ticked, gap        \* when tick() was called last, and the longest time between two calls

vars == <<options, clock, begun, last_timestamp, last_display, last_procinfo, slot_elapsed, slots,
          help, drawn, todo, turn, foad, ticked, gap>>

timing == <<last_timestamp, last_display, last_procinfo, slot_elapsed, slots, ticked, gap>>

time == clock \div Second

history_len == Len(slots)

(* The program starts at any moment of a second. *)
Init ==
    /\ options \in Settings
    /\ clock \in 0 .. Second - 1
    /\ begun = clock
    /\ last_timestamp = clock
    /\ last_display = clock
    /\ last_procinfo = clock
    /\ slot_elapsed = 0
    /\ slots = <<clock>>
    /\ help = [shown |-> ~ options.export_mode, timer |-> time, persistent |-> FALSE, since |-> clock]
    /\ drawn = "nothing"
    /\ todo = IF options.export_mode THEN <<>> ELSE <<"print">>
    /\ turn = clock
    /\ foad = FALSE
    /\ ticked = clock /\ gap = 0

Running == todo # <<"done">>

(* In a prompt or a shell command, with dontshowdisplay set.                *)
InPrompt == todo = <<"prompt">>

(* ui_print()                                                               *)
ui_print == drawn' = IF InPrompt THEN drawn ELSE "screen"

-----------------------------------------------------------------------------
(* tick() *)

Clamp(t) == IF t < 0 THEN 0 ELSE IF t > RESOLUTION THEN RESOLUTION ELSE t

Rotate ==
    /\ IF clock - last_timestamp >= RESOLUTION
       THEN /\ slots' = SubSeq(<<clock>> \o slots, 1, IF history_len < HISTORY_LENGTH
                                                      THEN history_len + 1 ELSE HISTORY_LENGTH)
            /\ last_timestamp' = clock
       ELSE UNCHANGED <<slots, last_timestamp>>
    /\ slot_elapsed' = Clamp(clock - last_timestamp')

RefreshProcinfo ==
    last_procinfo' = IF options.show_processes /\ clock - last_procinfo >= PROCINFO_RESOLUTION
                     THEN clock ELSE last_procinfo

MutantUiTick(print) ==
    \/ print /\ ui_print /\ UNCHANGED help
    \/ /\ ~ print
       /\ IF help.shown /\ time - help.timer >= HELP_TIME /\ ~ help.persistent
          THEN ui_print /\ help' = [help EXCEPT !.shown = FALSE]
          ELSE UNCHANGED <<drawn, help>>

ui_tick(print) ==
    \/ print /\ ui_print /\ UNCHANGED help
    \/ /\ ~ print
       /\ IF help.shown /\ time - help.timer > HELP_TIME /\ ~ help.persistent
          THEN ui_print /\ help' = [help EXCEPT !.shown = FALSE]
          ELSE UNCHANGED <<drawn, help>>

Display(print) ==
    IF slots' # slots \/ clock - last_display >= DISPLAY_RESOLUTION
    THEN /\ IF options.export_mode THEN drawn' = "snapshot" ELSE ui_print
         /\ last_display' = clock
         /\ UNCHANGED help
    ELSE UNCHANGED last_display /\ ui_tick(print)

tick(print) ==
    /\ Rotate
    /\ RefreshProcinfo
    /\ Display(print)
    /\ ticked' = clock
    /\ gap' = IF clock - ticked > gap THEN clock - ticked ELSE gap

(* handle_eth_packet() *)
PacketTick ==
    /\ options.ethernet /\ Running
    /\ tick(FALSE)
    /\ UNCHANGED <<clock, begun, todo, turn, foad>>

-----------------------------------------------------------------------------
(* The main thread *)

NextTurn == todo' = Tail(todo) /\ turn' = IF Len(todo) = 1 THEN clock ELSE turn

MainTick ==
    /\ todo # <<>> /\ Head(todo) \in {"print", "tick"}
    /\ tick(Head(todo) = "print")
    /\ NextTurn
    /\ UNCHANGED <<clock, begun, foad>>

(* The help message stays, after 'P' or 'o'. *)
PersistHelp ==
    /\ todo # <<>> /\ Head(todo) = "persist"
    /\ help' = [help EXCEPT !.persistent = TRUE]
    /\ NextTurn
    /\ UNCHANGED <<clock, begun, timing, drawn, foad>>

LoopEnds ==
    /\ todo = <<>>
    /\ foad
    /\ todo' = <<"done">>
    /\ UNCHANGED <<clock, begun, timing, help, drawn, turn, foad>>

(* getch() gives up after a tenth of a second, or returns a key. *)
NoKey ==
    /\ todo = <<>> /\ ~ foad /\ ~ options.export_mode
    /\ todo' = <<"tick">>
    /\ UNCHANGED <<clock, begun, timing, help, drawn, turn, foad>>

Quit ==
    /\ todo = <<>> /\ ~ foad /\ ~ options.export_mode
    /\ foad' = TRUE
    /\ todo' = <<"tick">>
    /\ UNCHANGED <<clock, begun, timing, help, drawn, turn>>

showhelp == help' = [shown |-> TRUE, timer |-> time, persistent |-> FALSE, since |-> clock]

(* f, l and !: nothing of the loop happens until the user is done, and then *)
(* there may be a message, or a repaint.                                    *)
PromptKey ==
    /\ todo = <<>> /\ ~ foad /\ options.prompts
    /\ todo' = <<"prompt">>
    /\ UNCHANGED <<clock, begun, timing, help, drawn, turn, foad>>

PromptEnd(message) ==
    /\ InPrompt
    /\ IF message THEN showhelp ELSE UNCHANGED help
    /\ todo' = IF message THEN <<"print", "tick">> ELSE <<"tick">>
    /\ drawn' \in IF message THEN {drawn} ELSE {drawn, "screen"}
    /\ turn' = clock
    /\ UNCHANGED <<clock, begun, timing, foad>>

(* Most keys show a message; some print again, some make it stay. *)
HelpKey(then) ==
    /\ todo = <<>> /\ ~ foad /\ ~ options.export_mode
    /\ showhelp
    /\ todo' = <<"print">> \o then \o <<"tick">>
    /\ UNCHANGED <<clock, begun, timing, drawn, turn, foad>>

MutantDuration ==
    /\ todo = <<>> /\ ~ foad /\ options.export_mode
    /\ options.export_duration > 0 /\ time - begun \div Second >= options.export_duration - 1
    /\ todo' = <<"done">>
    /\ UNCHANGED <<clock, begun, timing, help, drawn, turn, foad>>

MutantDurationMissed ==
    /\ todo = <<>> /\ ~ foad /\ options.export_mode
    /\ options.export_duration > 0 /\ time - begun \div Second = options.export_duration
    /\ todo' = <<"done">>
    /\ UNCHANGED <<clock, begun, timing, help, drawn, turn, foad>>

(* export_loop() *)
ExportDurationOver ==
    /\ todo = <<>> /\ ~ foad /\ options.export_mode
    /\ options.export_duration > 0 /\ time - begun \div Second >= options.export_duration
    /\ todo' = <<"done">>
    /\ UNCHANGED <<clock, begun, timing, help, drawn, turn, foad>>

ExportSleep ==
    /\ todo = <<>> /\ ~ foad /\ options.export_mode
    /\ options.export_duration > 0 => time - begun \div Second < options.export_duration
    /\ clock + DISPLAY_RESOLUTION <= MaxClock
    /\ todo' = <<"sleep">>
    /\ turn' = clock
    /\ UNCHANGED <<clock, begun, timing, help, drawn, foad>>

ExportWake ==
    /\ todo = <<"sleep">>
    /\ clock - turn >= DISPLAY_RESOLUTION
    /\ todo' = <<"print">>
    /\ UNCHANGED <<clock, begun, timing, help, drawn, turn, foad>>

-----------------------------------------------------------------------------

Interrupt ==
    /\ ~ foad
    /\ foad' = TRUE
    /\ UNCHANGED <<clock, begun, timing, help, drawn, todo, turn>>

Pass ==
    /\ Running
    /\ clock < MaxClock
    /\ InPrompt \/ clock + 1 - turn <= Late
    /\ clock' = clock + 1
    /\ UNCHANGED <<begun, timing, help, drawn, todo, turn, foad>>

Main ==
    \/ MainTick
    \/ PersistHelp
    \/ LoopEnds
    \/ NoKey
    \/ ExportDurationOver
    \/ ExportSleep
    \/ ExportWake

Step ==
    \/ PacketTick
    \/ Main
    \/ Quit
    \/ PromptKey
    \/ \E message \in BOOLEAN : PromptEnd(message)
    \/ \E then \in {<<>>, <<"print">>, <<"persist">>} : HelpKey(then)
    \/ Interrupt
    \/ Pass

Next == Step /\ UNCHANGED options

Spec == Init /\ [][Next]_vars

(* The main thread is scheduled and time goes on. *)
FairSpec == Spec /\ WF_vars(Main /\ UNCHANGED options) /\ WF_vars(Pass /\ UNCHANGED options)

-----------------------------------------------------------------------------
(* Properties *)

full_slots(d) == IF history_len < history_divs[d] THEN history_len ELSE history_divs[d]

MutantHistoryLength(d) == full_slots(d) * RESOLUTION

(* history_length(): what the bytes of a column are divided by. *)
history_length(d) ==
    IF full_slots(d) <= 1
    THEN IF slot_elapsed > 0 THEN slot_elapsed ELSE RESOLUTION
    ELSE (full_slots(d) - 1) * RESOLUTION + slot_elapsed

(* The time the slots of a column really cover. *)
Span(d) == clock - slots[full_slots(d)]

(* When a display is made, each column is divided by the time its slots     *)
(* cover, or by less: each slot but the newest may have lasted longer than  *)
(* RESOLUTION, by less than the longest time between two calls of tick().   *)
(* So the rates that analyse_data() and history_length() give are never too *)
(* low, and too high by no more than (RESOLUTION + gap) / RESOLUTION; what  *)
(* the gap is depends on the main loop and, without an Ethernet link, on    *)
(* how long the user stays in a prompt, where nothing ticks (ui.c:1683).    *)
RatesNearlyRight ==
    last_display = clock /\ (history_len > 1 \/ slot_elapsed > 0) =>
        \A d \in 0 .. 2 :
            /\ history_length(d) <= Span(d)
            /\ full_slots(d) = 1 => Span(d) = history_length(d)
            /\ full_slots(d) > 1 => Span(d) - history_length(d) < (full_slots(d) - 1) * gap

(* A help message is taken away only after HELP_TIME seconds in full, and   *)
(* only if it was not made to stay.                                         *)
HelpIsReadable ==
    [][help.shown /\ ~ help'.shown =>
          clock - help.since > HELP_TIME * Second /\ ~ help.persistent]_vars

(* Left alone, an export takes more than export_duration - 1 seconds and no *)
(* longer than a sleep and a tick beyond export_duration.                   *)
ExportTakesItsTime ==
    options.export_mode /\ options.export_duration > 0 /\ ~ foad =>
        /\ ~ Running => clock - begun > (options.export_duration - 1) * Second
        /\ Running => clock - begun <= options.export_duration * Second + 2 * Late

(* An export with a duration ends. *)
ExportEnds == (options.export_mode /\ options.export_duration > 0) ~> ~ Running
=============================================================================
