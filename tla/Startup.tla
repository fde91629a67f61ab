------------------------------ MODULE Startup ------------------------------
(***************************************************************************)
(* main(): the settings are made, the addresses of the interface found,    *)
(* capturing and the display set up; then the main thread runs the loop of *)
(* the display or of the export until it is told to end, and everything is *)
(* taken down again.  Of the loops the model keeps what interrupts them:   *)
(* tick() under its mutex, prompts and shell commands, SIGINT, SIGQUIT,    *)
(* which runs getColors() and a second ui_loop() in the handler, and       *)
(* signals nobody handles.                                                 *)
(***************************************************************************)
EXTENDS Options, Colors, IfAddrs

CONSTANT Files         \* what may be in ~/.iftopcolors

VARIABLES
    stage,             \* where main() is
    addrs,             \* the addresses found
    terminal,          \* "normal", or "curses" between initscr() and endwin()
    thread,            \* the capturing thread: "none", "running" or "cancelled"
    file,              \* ~/.iftopcolors
    colors,            \* the colour arrays
    loop,              \* where the main thread is in its loop, or "none"
    interrupted,       \* where SIGQUIT found it, or "no"
    foad,              \* the program is to end
    dlstage, waiting, driver, pending, stream, got_hw_addr

D == INSTANCE Dlpi

screen == <<terminal, colors>>
dlvars == <<dlstage, waiting, driver, pending, stream, got_hw_addr>>
mainVars == <<vars, stage, addrs, screen, thread, file, loop, interrupted, foad, dlvars>>

(* An input that only has settings ends with them; one that goes on has the *)
(* build and the machine in the further fields dlpi, getifaddrs, ifas,      *)
(* export and has_colors, the lines the user writes to ~/.iftopcolors in    *)
(* fileLines, and in ends whether the program is told to end.               *)
MainInit ==
    /\ Init
    /\ D!Init
    /\ stage = "options"
    /\ addrs = Found(FALSE, NoAddr, NoAddr)
    /\ terminal = "normal" /\ thread = "none"
    /\ file = <<>> /\ colors = InitialColors
    /\ loop = "none" /\ interrupted = "no" /\ foad = FALSE

SettingsMade ==
    /\ stage = "options" /\ phase = "made" /\ input.goesOn
    /\ stage' = "addresses"
    /\ UNCHANGED <<vars, addrs, screen, thread, file, loop, interrupted, foad, dlvars>>

-----------------------------------------------------------------------------
(* packet_init() *)

(* -1 ends the program: no socket or, with DLPI, too long a device name. *)
GetAddrsFails ==
    /\ stage = "addresses" /\ (input.dlpi => dlstage = "open")
    /\ stage' = "exited"
    /\ UNCHANGED <<vars, addrs, screen, thread, file, loop, interrupted, foad, dlvars>>

get_addrs_ioctl ==
    /\ stage = "addresses" /\ ~ input.dlpi
    /\ \E hw \in BOOLEAN :
          addrs' = IF input.getifaddrs
                   THEN get_addrs_ifaddrs(options["interface"], hw, input.ifas)
                   ELSE get_addrs_siocgifaddr(options["interface"], hw, input.ifas)
    /\ stage' = "capture"
    /\ UNCHANGED <<vars, screen, thread, file, loop, interrupted, foad, dlvars>>

get_addrs_dlpi ==
    /\ stage = "addresses" /\ input.dlpi
    /\ D!Next
    /\ stage' = IF dlstage' = "exited" THEN "exited" ELSE stage
    /\ UNCHANGED <<vars, addrs, screen, thread, file, loop, interrupted, foad>>

(* What get_addrs_dlpi() returns: the IP address comes from an ioctl(). *)
GotAddrs ==
    /\ stage = "addresses" /\ dlstage = "closed"
    /\ addrs' = get_addrs_siocgifaddr(options["interface"], got_hw_addr, input.ifas)
    /\ stage' = "capture"
    /\ UNCHANGED <<vars, screen, thread, file, loop, interrupted, foad, dlvars>>

(* The device cannot be opened, its link type is unknown, or the filter is  *)
(* refused.                                                                 *)
CaptureFails ==
    /\ stage = "capture"
    /\ stage' = "exited"
    /\ UNCHANGED <<vars, addrs, screen, thread, file, loop, interrupted, foad, dlvars>>

PacketInit ==
    /\ stage = "capture"
    /\ stage' = "display"
    /\ UNCHANGED <<vars, addrs, screen, thread, file, loop, interrupted, foad, dlvars>>

-----------------------------------------------------------------------------
(* The display *)

ui_curses_init ==
    /\ terminal' = "curses"
    /\ \E junk \in {"bold", "junk"} :
          colors' = IF input.has_colors THEN getColors(colors, file, junk) ELSE colors

export_init ==
    /\ stage = "display" /\ input.export
    /\ stage' = "thread"
    /\ UNCHANGED <<vars, addrs, screen, thread, file, loop, interrupted, foad, dlvars>>

ui_init ==
    /\ stage = "display" /\ ~ input.export
    /\ ui_curses_init
    /\ stage' = "thread"
    /\ UNCHANGED <<vars, addrs, thread, file, loop, interrupted, foad, dlvars>>

MutantThreadFails ==
    /\ stage = "thread" /\ loop = "none"
    /\ stage' = "exited"
    /\ UNCHANGED <<vars, addrs, screen, thread, file, loop, interrupted, foad, dlvars>>

ThreadFails ==
    /\ stage = "thread" /\ loop = "none"
    /\ terminal' = "normal"
    /\ stage' = "exited"
    /\ UNCHANGED <<vars, addrs, colors, thread, file, loop, interrupted, foad, dlvars>>

ThreadCreated ==
    /\ stage = "thread" /\ loop = "none"
    /\ thread' = "running"
    /\ stage' = "loop" /\ loop' = "test"
    /\ UNCHANGED <<vars, addrs, screen, file, interrupted, foad, dlvars>>

-----------------------------------------------------------------------------
(* The loop.  Each turn tests foad, waits for a key, does what it says and  *)
(* calls tick(), under a mutex that is not recursive.                       *)

UserWaits == {"prompt", "command", "shell", "anykey"}

Stay == UNCHANGED <<vars, stage, addrs, thread, file, interrupted, foad, dlvars>>

TestFoad ==
    /\ loop = "test" /\ ~ foad
    /\ loop' = IF input.export THEN "lock" ELSE "keys"
    /\ Stay /\ UNCHANGED screen

(* getch() gives up after a while, so that the other keys stand for none.   *)
Getch ==
    /\ loop = "keys"
    /\ loop' = "lock"
    /\ Stay /\ UNCHANGED screen

QuitKey ==
    /\ loop = "keys" /\ input.ends
    /\ foad' = TRUE
    /\ loop' = "lock"
    /\ UNCHANGED <<vars, stage, addrs, screen, thread, file, interrupted, dlvars>>

(* f or l, or !, and edline(), which does not look at foad.                 *)
PromptKey ==
    /\ loop = "keys"
    /\ loop' \in {"prompt", "command"}
    /\ Stay /\ UNCHANGED screen

PromptEnd ==
    /\ loop \in {"prompt", "command"}
    /\ loop' = "lock"
    /\ Stay /\ UNCHANGED screen

ShellStart ==
    /\ loop = "command"
    /\ loop' = "shell"
    /\ terminal' = "normal"
    /\ Stay /\ UNCHANGED colors

(* After a command that failed, "Press any key....".                        *)
ShellEnd ==
    /\ loop = "shell"
    /\ ui_curses_init
    /\ loop' \in {"anykey", "lock"}
    /\ Stay

AnyKey ==
    /\ loop = "anykey"
    /\ loop' = "lock"
    /\ Stay /\ UNCHANGED screen

(* The mutex, which the other thread gives back; the main thread has it all *)
(* the time when SIGQUIT interrupted it in tick().                          *)
TickStart ==
    /\ loop = "lock" /\ interrupted # "tick"
    /\ loop' = "tick"
    /\ Stay /\ UNCHANGED screen

TickEnd ==
    /\ loop = "tick"
    /\ loop' = "test"
    /\ Stay /\ UNCHANGED screen

(* The finish() handler of SIGINT; system() ignores SIGINT and SIGQUIT.     *)
finish ==
    /\ stage \in {"addresses", "capture", "display", "thread", "loop"} /\ loop # "shell"
    /\ input.ends
    /\ foad' = TRUE
    /\ UNCHANGED <<vars, stage, addrs, screen, thread, file, loop, interrupted, dlvars>>

(* SIGQUIT has this handler once curses has colours, and is blocked while   *)
(* it runs.                                                                 *)
eraseAndLoop ==
    /\ stage \in {"thread", "loop", "finish"} /\ ~ input.export /\ input.has_colors
    /\ loop # "shell" /\ interrupted = "no"
    /\ \E junk \in {"bold", "junk"} : colors' = getColors(colors, file, junk)
    /\ interrupted' = loop
    /\ loop' = "test"
    /\ UNCHANGED <<vars, stage, addrs, terminal, thread, file, foad, dlvars>>

HandlerEnd ==
    /\ loop = "test" /\ foad /\ interrupted # "no"
    /\ loop' = interrupted
    /\ interrupted' = "no"
    /\ UNCHANGED <<vars, stage, addrs, screen, thread, file, foad, dlvars>>

(* A signal without a handler: SIGTERM, and SIGQUIT when there is none.     *)
Killed ==
    /\ stage \notin {"options", "exited", "killed"} /\ input.ends
    /\ stage' = "killed" /\ loop' = "none"
    /\ UNCHANGED <<vars, addrs, screen, thread, file, interrupted, foad, dlvars>>

(* The user edits the file, a line at a time.                               *)
EditFile ==
    /\ stage \in {"display", "loop"} /\ input.has_colors
    /\ file' \in Files \cap ({<<>>} \cup {file \o l : l \in input.fileLines})
    /\ UNCHANGED <<vars, stage, addrs, screen, thread, loop, interrupted, foad, dlvars>>

MutantLoopEnd ==
    /\ loop = "test" /\ interrupted = "no"
    /\ input.export
    /\ thread' = "cancelled"
    /\ stage' = "finish" /\ loop' = "none"
    /\ UNCHANGED <<vars, addrs, screen, file, interrupted, foad, dlvars>>

(* Told to end, or the duration of the export is over. *)
LoopEnd ==
    /\ loop = "test" /\ interrupted = "no"
    /\ foad \/ input.export
    /\ thread' = "cancelled"
    /\ stage' = "finish" /\ loop' = "none"
    /\ UNCHANGED <<vars, addrs, screen, file, interrupted, foad, dlvars>>

ui_finish ==
    /\ stage = "finish" /\ loop = "none"
    /\ terminal' = "normal"
    /\ stage' = "exited"
    /\ UNCHANGED <<vars, addrs, colors, thread, file, loop, interrupted, foad, dlvars>>

-----------------------------------------------------------------------------
Settings == Next /\ UNCHANGED <<stage, addrs, screen, thread, file, loop, interrupted, foad, dlvars>>

PacketSteps == GetAddrsFails \/ get_addrs_ioctl \/ get_addrs_dlpi \/ GotAddrs \/ CaptureFails \/ PacketInit

StartSteps == export_init \/ ui_init \/ ThreadFails \/ ThreadCreated

LoopSteps == TestFoad \/ Getch \/ TickStart \/ TickEnd \/ LoopEnd \/ ui_finish

UserSteps ==
    QuitKey \/ PromptKey \/ PromptEnd \/ ShellStart \/ ShellEnd \/ AnyKey \/ EditFile

Signals == finish \/ eraseAndLoop \/ Killed

MainNext ==
    \/ Settings \/ SettingsMade \/ PacketSteps \/ StartSteps
    \/ LoopSteps \/ HandlerEnd \/ UserSteps \/ Signals

(* The main thread goes on by itself, between two signals if need be.       *)
MainSpec ==
    /\ MainInit /\ [][MainNext]_mainVars
    /\ WF_mainVars(HandlerEnd) /\ SF_mainVars(LoopSteps)

-----------------------------------------------------------------------------
(* Properties *)

Entries(family) ==
    IF input.ifas = GetifaddrsFails THEN <<>>
    ELSE SelectSeq(input.ifas, LAMBDA e : /\ e.interface = options["interface"]
                                          /\ e.family = family /\ e.addr # NoAddr)

(* The addresses packets are matched with are the interface's own, whatever *)
(* the list of all interfaces' addresses and its order: the first IPv4      *)
(* address, and an IPv6 address that is neither link nor site local if      *)
(* there is one, "Was able to get the IP address" (addrs_ioctl.c:41).  The  *)
(* build with getifaddrs() reads a second IPv4 address as if it were IPv6   *)
(* (addrs_ioctl.c:138), so that interfaces with more than one are left out. *)
AddressesAreTheInterfaces ==
    stage \notin {"options", "addresses", "exited", "killed"} /\ Len(Entries("inet")) <= 1 =>
        LET useful == SelectSeq(Entries("inet6"), LAMBDA e : ~ e.local)
        IN  /\ addrs.ip = IF Entries("inet") = <<>> THEN NoAddr ELSE Entries("inet")[1].addr
            /\ IF useful = <<>> \/ input.dlpi \/ ~ input.getifaddrs THEN addrs.ip6 = NoAddr
               ELSE \E i \in DOMAIN useful : addrs.ip6 = useful[i].addr

(* A request is put to the network driver only when it has carried out the  *)
(* one before: "All of these functions exit() out on failure"               *)
(* (addrs_dlpi.c:125).                                                      *)
DriverInStep == D!InStep

(* A line of the file is blank, a comment, or an element with a colour and  *)
(* a boldness.                                                              *)
LineStarts == {i \in DOMAIN file : i = 1 \/ file[i - 1] = NewLine}

LineAt(i) == SubSeq(file, i, LineEnd(file, i) - 2)

Sets(i) == Len(LineAt(i)) = 3 /\ LineAt(i)[1] \in Elements

WellFormedFile ==
    /\ file # <<>> /\ file[Len(file)] = NewLine
    /\ \A i \in LineStarts : 
          \/ LineAt(i) = <<>> \/ Sets(i)
          \/ LineAt(i)[1] \in Comments /\ Len(LineAt(i)) <= Longest + 1

FileSays(e) ==
    LET its == {i \in LineStarts : Sets(i) /\ LineAt(i)[1] = e}
        last == LineAt(CHOOSE i \in its : \A j \in its : j <= i)
    IN  IF its = {} THEN colors[e]
        ELSE [color |-> convertColorToInt(last[2], colors[e].color), bold |-> last[3] = "bold"]

ColoursRead ==
    /\ input.has_colors
    /\ \/ terminal = "normal" /\ terminal' = "curses"
       \/ interrupted = "no" /\ interrupted' # "no"

(* "Each line sets one element to a color and boldness" (man/iftop.8:363):  *)
(* whenever the file is read, at the start, after a shell command and on    *)
(* SIGQUIT, the elements it has lines for get what the last one of them     *)
(* says and the others keep theirs; comments and blank lines do not count.  *)
(* The number of turns is counted in line ends and a word that is not known *)
(* takes a turn for itself (ui.c:272), and a comment of more than 254       *)
(* characters is read on as if it were none (ui.c:280), so this is about    *)
(* files in which every line is well formed, short and has its end.         *)
ColoursAreTheFiles ==
    [][ColoursRead /\ WellFormedFile => colors' = [e \in Elements |-> FileSays(e)]]_mainVars

(* Whenever the program ends itself, the terminal is given back first, and  *)
(* while the loop runs it is the display's but for shell commands           *)
(* (iftop.c:873-879).  A signal nobody handles ends it with curses on:      *)
(* SIGTERM, and SIGQUIT on a terminal without colours, for which            *)
(* ui_curses_init() installs no handler (ui.c:478-495).                     *)
TerminalIsRestored ==
    /\ stage = "exited" => terminal = "normal"
    /\ loop # "none" /\ ~ input.export => (terminal = "curses" <=> loop # "shell")

(* Told to end, by q or SIGINT, the program does, with the thread           *)
(* cancelled (iftop.c:879), or it stands still in one of the places that do *)
(* not look at foad: a prompt (edline.c:36-134), a shell command and "Press *)
(* any key...." (ui.c:1748) until the user ends them, and for ever the      *)
(* handler of a SIGQUIT that interrupted tick(), which waits for the mutex  *)
(* its own thread holds (ui.c:1797).                                        *)
ToldToEndEnds ==
    [](foad /\ stage = "loop" =>
          <>(\/ stage = "exited" /\ thread = "cancelled"
             \/ stage = "killed"
             \/ []({loop, interrupted} \cap UserWaits # {} \/ interrupted = "tick")))
=============================================================================
