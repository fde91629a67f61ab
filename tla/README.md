# Verification of iftop

A TLA+ development for iftop, the colour fork: what each part of the program
promises, models of the code that TLC checks on small instances, and theorems
that TLAPS proves for every instance. Paths are relative to the directory that
holds `src/` and `tla/`, so the program's sources are `src/src/...`, its tests
`src/test/...` and its manual `src/man/iftop.8`.

    tlc -workers 2 -config Screen.cfg MCScreen         # one run
    tlapm ResolverProofs.tla                          # one module of proofs

`PROJECT.json` lists the components, the runs with their properties, the source
lines each definition stands for, the mutants (one plausible bug in the code
per property, which the property catches), the findings, the hazards and the
theorems.

## 1. The system

iftop captures packets from an interface and shows which pairs of hosts use how
much bandwidth. Three kinds of threads run in it:

* the **packet thread** (`pcap_loop`, started in `main()`, `entry/iftop.c`). For
  every frame it runs a link-layer handler and `handle_ip_packet()`. On
  Ethernet, `handle_eth_packet()` calls `tick(0)` as well: there, and only
  there, the packet thread also rotates the history, analyses and draws. The
  models in which this matters choose the link layer in their initial state;
* the **main thread**, in `ui_loop()` (curses) or `export_loop()` (JSON/CSV).
  It reads keys and calls `tick()`;
* the **resolver workers**, each in `resolver_worker()`.

The data go through these parts:

    Startup (Options, Colors, IfAddrs, Dlpi)
       |
    frame --> Packet --> History --> Screen --> Ui (BarScale, Edline) / Export
                            ^           |
                          Tick          +--> Resolver (DoResolve), Procinfo
                                             (ProcScan), ServTable
                            AddrHash, HashMap below

`tick_mutex` covers the body of `tick()` and nothing else: the packet thread
records packets without it, and the main thread handles keys, and repaints after
some of them, without it. `resolver_queue_mutex` covers the resolver. Apart from
locks inside single lookup functions there is no other, and most hazards in
`PROJECT.json` come from what these two leave out.

| Part | Source (`src/src/`) | Modules | How far |
|---|---|---|---|
| Name resolver | `util/resolver.c`, `data/map/ns_hash.c` | `Resolver`, `DoResolve`, `ResolverProofs`, `DoResolveProofs` | modelled, proved |
| Hash table | `data/map/hash.c` | `HashMap` | modelled |
| Traffic history | `entry/iftop.c` | `History`, `SlidingWindow`, `HistoryProofs` | modelled as atomic steps, proved |
| Packet classification | `entry/iftop.c` | `Packet`, `PacketProofs` | partly (no frames without IP, no loopback), proved |
| Process attribution | `util/procinfo.c` | `Procinfo`, `ProcScan`, `ProcinfoProofs` | modelled; the table's life proved |
| Screen list | `ui/ui.c` | `Screen` (composed with `SlidingWindow`) | modelled |
| Clock, main loops | `entry/iftop.c`, `ui/ui.c`, `ui/export.c` | `Tick` | modelled |
| Export format | `ui/export.c` | `Export` | modelled |
| Address tables, node pool | `data/map/addr_hash.c` | `AddrHash`, `HashMapSpec` | modelled |
| Service names | `data/map/serv_hash.c` | `ServTable`, `ServTableProofs` | partly: all but the destructor, which only tests call; proved |
| Options, configuration | `config/` | `Options`, `Stringmap` | modelled |
| Interface addresses | `util/addrs_ioctl.c` | `IfAddrs` | modelled |
| DLPI | `util/addrs_dlpi.c`, `util/dlcommon.c` | `Dlpi` | partly: the exchange that the program uses |
| Colours | `ui/ui.c` | `Colors` | modelled |
| Program start and end | `entry/iftop.c` | `Startup` | partly: libpcap succeeds or ends the program |
| Line editor | `util/edline.c` | `LineEditor`, `Edline`, `EdlineProofs` | modelled, proved |
| Bar chart | `ui/ui.c` | `BarScale` | partly: the choice of the scale |
| User interface | `ui/ui.c`, `util/screenfilter.c` | `Ui` | partly: keys, prompts, layout |
| Sorted list | `data/sorted_list.c` | `Screen` | partly: batch insertion |
| Vector, helpers, tests | | none | not modelled |

## 2. The modules

Names are those of the source wherever TLA+ allows it. What TLC needs besides is
in the `MC` modules: the values of constants in `MCScreen` and `MCStartup`, and in
`MCTraffic`, `MCTables`, `MCTerminal` and `MCProcinfo` also the choice (`part`,
`session`) of which of several modules, put together without interaction, a
behaviour is one of.

**Resolver** keeps the cache `ns_hash` with its counter, the ring
(`resolve_queue`, `head`, `tail`), and for each worker where it stands and the
address it holds. A critical section is one action, since everything in it runs
under the mutex: `ResolveFound` and `ResolveMiss` are `resolve()` (with eviction
and queueing), `Signal` is the `pthread_cond_signal()` made after the unlock,
`WorkerStep` is a worker up to its next wait or its next lookup. The lookup runs
without the mutex, so a worker holds its address from one action to another
while the cache changes. Spurious wakeups are allowed. The library functions that
find a name give one or none. **DoResolve** is that lookup, in every way
`configure` can build it: `getnameinfo()`, `gethostbyaddr_r()` with its growing
buffer, `gethostbyaddr()` under a mutex, libresolv, ares with a channel for each
thread, a forked process for each thread, none. `HashMap` has `hash.c` as operators on a function
from keys to the chain of values under the key.

**History** has one record per flow with two rings of `HISTORY_LENGTH` slots,
the totals, `history_pos` and `history_len`. `RecordPacket` is the end of
`handle_ip_packet()`, `Rotate` is `history_rotate()`. **SlidingWindow** is what
this promises: bytes by age, a packet counted at age 0, everything one older at
every rotation, a flow forgotten when its window is empty. The mapping reads the
ring backwards from `history_pos`.

**Packet** is the classification of a frame as one function of the frame and the
options: direction from hardware addresses, net filters, interface addresses and
the link-local rule, the arrangement of the pair, and the two sides (flow and
totals) the bytes go to. Addresses are numbers, as only equality, order and
membership of a network matter. The model receives a frame and then possibly its
answer, because the properties that matter are about conversations.

**Procinfo** has the blocks `calloc()` has given, `live_table`,
`staging_table`, and two threads that refresh, look up and finally destroy, in
the steps in which another thread can come between: build, exchange, free, load
the pointer, scan. The table the kernel shows is any part of `Sockets`, and a
lookup looks for an address, a port and a protocol, as `table_find()` does.
**ProcScan** is one refresh in detail, on Linux (socket lists first, then the file
descriptors of every process) and on macOS (size, allocation, list), while
processes open and close sockets, start, change their names and end. Between
finding a socket and reading the name of its process the process may end, and the
entry is then called `pid:<number>`. Three ghost variables (`was`, `stood`, `names`) record what was true at some time of the
refresh and what throughout.

**Screen** extends the sliding window with the options, the table and the list
of lines, totals and peaks. `analyse_data()` takes the steps between which the
main thread can change an option or a packet can be counted: `AnalyseClear`,
`AnalyseRows`, `make_screen_list` (which collects the lines and, if the sort needs
them, their names), a `SortItem` for each line, and `AnalyseEnd`. The comparison
is that of the code, with 1 for equal lines, and reads the options each time;
`qsort()` is an insertion sort that takes the items in any order, and so gives
every order a sort can with these comparisons. Rates are sums of bytes, before they
are divided by `history_length()`; the divisor is in `Tick`.

**Tick** has the clock, the timers of `tick()`, the help message and what the
main thread still has to do in this turn of its loop. One unit of time is a
fraction of a second; `Pass` lets time go by, but not past the moment at which a
waiting thread must have run (`Late`), except in a prompt, where the main thread
stays as long as the user likes. The ghost `gap` is the longest time that really
went by between two calls of `tick()`.

**AddrHash** has nodes with `next` pointers, two tables with chains, and the
free list both share. `pool_alloc()` is two steps. No lock keeps two threads from
being in it at once, which is `Concurrent = TRUE`; `FALSE` leaves these schedules
out, so that what the tables do otherwise can be checked.
`history_rotate()`'s walk is a sequence of steps with insertions in between. **HashMapSpec** is what the tables promise.
**ServTable** has the arrays of TCP and UDP names and the hash table behind them;
the ghost `latest` is what the last call said of a port.

**Options** reads the command line, then the file, then makes the settings.
All three meet in one **Stringmap**, an unbalanced tree, whose insertion
does not overwrite: this is what makes the command line win. Addresses of a
network and masks are sets of bit positions.

**Startup** is `main()`. It extends `Options`, whose steps come first, and two
modules of pure functions: **IfAddrs**, the search for the addresses of the
interface in both builds of `get_addrs_ioctl()`, and **Colors**, `getColors()`,
which reads `~/.iftopcolors` word by word and keeps in `fscanf()`'s buffers what
the word before left there. **Dlpi**, an instance, is the exchange of messages with
the network driver that a DLPI build makes: attach, bind, the question for the
hardware address, with frames that arrive in between, refusals and the time
limit. Then come the display, the capturing thread and the loop. `loop` says where
the main thread is in a turn of it (the test of `foad`, `getch()`, a prompt, a shell
command, "Press any key....", waiting for `tick_mutex`, inside `tick()`), and
`interrupted` where SIGQUIT found it, whose handler reads the colours and enters
`ui_loop()` again. SIGINT sets `foad`, and a signal without a handler ends the
program as it is. An input without `goesOn` ends when its settings are made, so that
many settings need not be multiplied by all that follows.

**Export** has the text of the snapshots, as a sequence of tokens in which only
the characters of names are single characters, with `json_escape_string()`, the
CSV header and the two layouts with and without processes.

**Edline** has the text, buffer size and cursor of `edline()`, with one action
per key; **LineEditor** is the abstract editor it implements: a text before and
after the cursor.

**BarScale** has the index into the table of scales and the flag that makes it
grow, through the bars of a repaint; when the index has left the table the model
goes no further. **Ui** has the keys that change the layout,
the three prompts and the two filters, and `ui_print()` line by line on up to two
threads, with its three readings of `linedisplay` for each line as steps of their
own.

Several modules choose, in their initial state, the kind of run the program is
in: `ethernet` in `Procinfo`, `session` in `Screen` and `Ui`, `options` in
`Tick`, `input` in `Options` and `Startup`, `backend` in `DoResolve`, `platform`
in `ProcScan`. One run of TLC then has them all, and properties
that only hold of some say of which.

## 3. The runs

| Run | Distinct states | Shows |
|---|---|---|
| `Resolver.cfg` | 470,037 | From start-up, two callers and two workers. `IInv`: `ns_hash_n_entries` is the number of entries and no address has two, the ring holds queued addresses only, local addresses stay numerical, the cache outgrows its limit by no more than the addresses on their way. `NamesKept`: a name is never replaced by the printed address. Once the workers have started, no wakeup is lost although the wait is not in a loop that tests the ring (`NoLostWakeup`), and every queued address is taken (`QueueDrains`). |
| `Traffic.cfg` | 358,965 | Classification: outgoing packets are counted as sent by flow and totals alike and the near end is the source (`DirectionIsRight`); a packet and its answer are one flow (`ConversationIsOneFlow`). History, with each packet and each rotation in one step: a record holds nothing younger than `last_write`, so dropping it loses nothing, and slots older than `history_len` are empty (`IInv`); totals are the sums of the flows slot by slot (`SlotsAddUp`); the rings implement the sliding window (`ImplementsWindow`). |
| `Procinfo.cfg` | 2,656,253 | No table is leaked or freed twice, the destructor frees all but what the packet thread, which is not joined, still holds, and lookups under `tick_mutex` read allocated tables (`HeapIsSound`; states in which the cancelled packet thread runs on after the tables are destroyed are excluded); a published table is not changed (`PublishedIsFrozen`). Every entry of a refresh was true at some time of it, with the process's name or its number, and a socket held throughout is found, unless memory, permissions or a growing macOS list prevent it (`ScanIsFaithful`). |
| `Screen.cfg` | 2,714,095 | However flows are aggregated, the lines that an analysis of the packet thread leaves add up to the totals (`LinesAddUp`; while the main thread analyses packets may come in between); the list has every line once, in the order asked for if neither the sort nor `linedisplay` changes under `qsort()` (`ListIsInOrder`), and refers to no freed line (`ListedLinesExist`); a frozen order stays, with two exceptions that are stated (`FrozenOrderStays`); the peaks after an analysis that has cleared the list are the maxima of the window (`PeakIsWindowMax`). |
| `Tables.cfg` | 37,461 | Flows, with insertions that do not overlap: the tables are maps (`TablesAreMaps`), each node is in one chain, in the pool or in a thread's hand (`EveryNodeInOnePlace`), a walk that deletes visits every record (`RotationMissesNone`). Lookups, in every build: a thread gets the name of its own address or none, there is one key, no process is left behind (`LookupsKeepApart`), and every call returns (`EveryLookupEnds`). Services: a port has the name last given to it (`LookupIsLatest`). |
| `Startup.cfg` | 329,938 | Command line before file before default, for every order of options and lines, and net filters with prefixes at the boundaries (`SettingsAreTheAskedOnes`); the addresses found are the interface's own, whatever the order of the list (`AddressesAreTheInterfaces`); the driver is never asked out of turn (`DriverInStep`); the colours are those of the file whenever it is read (`ColoursAreTheFiles`); the terminal is restored whenever the program ends itself, and is the display's while the loop runs but for shell commands (`TerminalIsRestored`); told to end, the program does, or stands still in a place that does not look at `foad`: a prompt, a shell command, "Press any key....", or a SIGQUIT handler that interrupted `tick()` (`ToldToEndEnds`). |
| `Terminal.cfg` | 491,974 | Prompt: the buffer holds the text and its NUL, the cursor is on the line if there is room (`TextFits`), keys do to the text what `LineEditor` says (`EditsTheLine`). Display: no line over the totals, and with one painter the rows are those that scrolling, filter and height ask for (`LayoutIsRight`); no repaint starts in a prompt, the display comes back after it, and the filter offered for editing is the one in force (`PromptsEndWell`). Scale: while no line is faster than 10 Mbit/s and `-m` is at most 100 Mbit/s its index is one of the table, and without `-m` at most two entries above what the fastest line needs (`ScaleFollowsRates`); without `-m` a rate drawn again and again fits in the end (`EveryRateFits`). Export: JSON parses back to the names that went in, with quotes and backslashes, and CSV rows have the header's fields (`ExportReadsBack`). Clock: the divisor of a rate is never more than the time its slots cover, and less by under the longest gap between two ticks for each slot but the newest, prompts included (`RatesNearlyRight`); a help message is taken away only after its seconds are over in full (`HelpIsReadable`); an export ends (`ExportEnds`), after more than its duration less one second and no later than a sleep and a tick beyond it (`ExportTakesItsTime`). |
| `ProcinfoLookup.cfg` | | Ends in a counterexample: `procinfo.c:8-11` says that a lookup may run in the packet thread while the table is replaced, but the old table is freed at once and the lookup may still be reading it (`LookupReadsAllocated`). |
| `ExportComma.cfg` | | Ends in a counterexample: a process name with a comma in it gives a CSV row one field more than the header, where README.md:173 says "the same fields" (`CsvReadsBack`). |
| `DoResolveForking.cfg` | | Ends in a counterexample: the forked process reads 24 bytes where 16 are written, and ends on the first request, where the comment at `resolver.c:386` says "Now have a worker to which we can write requests." (`WorkerTakesRequests`). |
| `ScreenPeaks.cfg` | | Ends in a counterexample: the peaks are not reset while the order is frozen, and a peak stays after its slot has left the window, where man/iftop.8:189 says "peak traffic over the last 40s" (`PeaksAreOfTheWindow`). |
| `PoolRace.cfg` | | Ends in a counterexample: the packet thread and the main thread read the head of the free list one after the other before either has moved it on, and both get the same node of the pool that "recycles fixed-size nodes" (README.md:359) (`EveryNodeInOnePlace` with `Concurrent = TRUE`). |

`CHECK_DEADLOCK FALSE` is given for `Startup`, `Procinfo` and `ProcinfoLookup` (the
end of the program). In `MCTerminal` the end of an export and of the bounded clock is a step
that changes nothing (`Over`).

## 4. Bounds

Every bound is a constant of the module, given in the `.cfg`.

* *Resolver*: a ring of 3 slots (usable: 2), a cache of 2, two workers, two
  callers, three ordinary addresses and a local one. The ring fills and wraps
  around, and the cache is emptied while a worker holds an address. Four
  addresses are fewer than `CacheBound` allows: the run shows that the counter
  does not drift past it, and that it holds whatever the number of addresses is
  what `ResolverProofs` proves.
* *History*: three slots, two flows, four bytes in all. A slot is reused,
  a flow is dropped and comes back, and a packet falls on either side of a
  rotation.
* *Packet*: three hosts (one link-local), four hardware addresses, two networks,
  two ports; all options, but for the network of a filter that is off and the
  address of an interface that has none, which no branch reads. Every branch needs
  at most two hosts to be told apart.
* *Procinfo*: three tables, since at most a live table, one being built and one
  being read exist at once; two sockets and a flow that matches both ends.
* *ProcScan*: two processes, two sockets in different lists, three names, and three
  changes of the machine during the refresh: enough for a process to end, its number to
  be used again and the new one to open a socket. Inodes are not used again.
* *Screen*: three flows of which two share a source, two a destination and all a
  port, so that they fall into one line or more depending on the aggregation; three
  slots; two or three bytes; five sessions, each with the keys that matter together.
  Three lines are what a comparison that is not transitive, or one that changes
  in the middle, needs to go wrong.
* *Tick*: a second of three units and a clock of up to 10 units, enough for the window
  of three slots to fill and turn over, for a prompt in which slots are missed and
  for an export of one or two seconds to end; outside prompts the loop comes round
  every `Late` units. `history_divs` starts at 2 as in the code.
* *AddrHash*: three pairs of which two share a bucket, blocks of two nodes and
  two blocks: a chain of two, an exhausted block, a recycled node. In `Tables.cfg`
  one thread at a time is in an insertion (`Concurrent = FALSE`), in
  `PoolRace.cfg` both may be.
* *DoResolve*: two threads and three addresses: IPv4 with an answer that fits at
  once, IPv4 with one for which the buffer grows twice, and IPv6 with one that is
  too long for `MaxBuffer`.
* *ServTable*: arrays of two ports; the first port, the last, and one behind the
  arrays; TCP, UDP and a third protocol; four insertions.
* *Startup*: up to two arguments and two lines, from sets in which the same
  directive occurs with several values, well-formed or not; lists of up to three
  addresses of two interfaces, of every family, with entries that have none, and
  `getifaddrs()` failing; colour files of up to two lines out of nine, with comments
  shorter and longer than what one `fgets()` takes, blank lines, unknown colours,
  missing words and a missing line end. Each machine varies one of these groups, as
  the groups do not influence each other; the one whose user writes all these files
  is not told to end.
* *Edline*: texts of up to five characters with blanks, three of which fit.
* *BarScale*: rates on both sides of the entries of the table, among them two
  above 10 Mbit/s, with which the index leaves the table (see section 7).
* *Export*: two snapshots of up to two flows; names that are empty, plain, end in
  a backslash or begin with a quote.
* *Ui*: ten rows, three or four lines, two screen filters, scrolling past the end.

## 5. Fairness

Five specifications state fairness; the other runs use none.

* `Resolver!Fairness`: weak fairness of `Signal(c)`, as a call that has queued an
  address runs on to its signal, and of `WorkerStep(w)`, as a thread that is
  awake gets the mutex and a lookup returns in the end (the resolver libraries
  time out). A worker that waits for a signal is not enabled, and callers are
  never forced to call. `QueueDrains` speaks of a queue that is attended
  to after all workers have started; a signal sent before that can be lost.
* `Tick!FairSpec`: the main thread is scheduled and time goes on. Nobody has to
  press a key or interrupt.
* `DoResolve!FairSpec` (and `MCTables!MCSpec`): weak fairness of the steps of a
  thread in a lookup, of its process and of the name service, which answers or
  times out; strong fairness of taking a mutex, as a thread that waits for one
  gets it in the end although others take it in between.
* `Startup!MainSpec`: strong fairness of the steps the main thread takes by itself
  (`LoopSteps`: the test of `foad`, `getch()` giving up, the mutex, `tick()`
  returning, the end), as signals may interrupt it again and again but it runs on
  between them; weak fairness of the return of the handler. Nobody has to press a
  key, send a signal, or end a prompt or a shell command.
* `BarScale!FairSpec`: the display is repainted for as long as the program runs,
  as `tick()` does. `MCTerminal!MCSpec` has this and the fairness of `Tick`.

## 6. What is proved

TLAPS checks the following for every value of the constants that satisfies the
module's assumption; TLC evaluates these assumptions on the instances above.

**ResolverProofs**, from `ResolverAssumption` (finitely many addresses and
workers, at least one worker, a ring and a cache of at least one slot):

* `InvariantHolds`: `Spec => []IInv`, and from it
  `CounterCorrect`, `LocalStaysNumerical`, `RingCorrect`, `TypeCorrect` and
  `CacheBounded`: `Spec => []...` for `CountExact`, `LocalNumeric`, `RingSound`,
  `TypeOK` and `CacheBound`.
* `NoWakeupLost`: `Spec => NoLostWakeup`, an action property: a step that starts
  with all workers started and the queue attended to ends with it attended to.

`CacheBound` is not inductive: a worker that stores a name adds an entry, and
nothing in the cache says that there is room. The invariant `IInv` therefore has
`OutgrowthBound`: entries *and pending addresses together* stay within the
bound, so a worker only moves an address from the second group to the first.
That a fresh `resolve()` keeps it needs two facts: the number of pending
addresses is at most the usable slots plus the workers (`PendingSmall`), and
below the limit no eviction is needed. `RingSound` is part of `IInv` because an
address taken from an unfilled slot would be stored. `CountExact` needs that the
worker deletes what it replaces, and counts only what it adds (`StoreFacts`).

**HistoryProofs**, from `HistoryAssumption` (at least one slot; flows and packet
lengths are arbitrary):

* `InvariantHolds`: `Spec => []IInv`, and from it `DropsNothing` and
  `LengthCovers`: nothing is younger than `last_write`, and
  nothing lies before `history_len`. They are inductive together with `TypeOK`
  (`IInv`); the argument is how ages change when `history_pos` moves
  (`RotationAges`, `RotationSlots`).
* `Refinement`: `Spec => ImplementsWindow`. The start is the empty window
  (`InitWindow`), a packet is counted at age 0 (`PacketIsCapture`) and a rotation
  is a new slot (`RotateIsNewSlot`). The last step needs `DropsNothing`: a record
  may be dropped only because an expired `last_write` means that its whole window
  is empty.

**PacketProofs**, from `PacketAssumption` (hosts and ports are numbers, networks
sets of hosts, this machine's hardware address is not the broadcast address):

* `DirectionCorrect`: `Spec => []DirectionIsRight`, and `OneFlow`:
  `Spec => ConversationIsOneFlow`. The invariant `IInv` only ties the outcome to
  the frame and the options; the argument is about the classification itself:
  what becomes of a packet and of its answer under each rule, by cases on the rule
  that decides. The rules are tried in the same order for both, and each gives
  the answer the opposite direction.

**ProcinfoProofs**, from `ProcinfoAssumption` (NULL is no block and no thread, no
answer is no lookup); blocks, sockets and flows are arbitrary:

* `HeapCorrect`: `Spec => []HeapIsSound`, and `FrozenWhenLive`:
  `Spec => PublishedIsFrozen`. `HeapIsSound` says nothing of what a thread is about
  to free, so `IInv` adds where every allocated block is (live, being built, in the
  hand of a thread between exchange and free) and that these are different
  blocks, that a thread inside `tick()` holds `tick_mutex`, and that until the
  cancelled packet thread runs on after the tables are destroyed every pointer
  leads to an allocated block (`AllAllocated`). That the live table is never
  written then follows, because what is written is the one being built.

**EdlineProofs**, from `EdlineAssumption` (the texts are over the characters, and
the width and the length of the prompt are numbers); the characters, the texts and
the width are arbitrary:

* `TextAlwaysFits`: `Spec => []TextFits`, from `Len(str) + 1 <= slen`. The part about
  the buffer holds on every terminal; the parts about the cursor and about the
  character before it have the room they need as a condition of the property
  (`room`), which `edline()` does not test.
* `Refinement`: `Spec => EditsTheLine`. Each key is shown to cut and join the two
  parts of the text as `LineEditor` does. ^W is the hard one: the loop of the code
  walks back over blanks and then over a word, while the abstract key only says
  that something goes, that no word is cut in two on its left and that at most one
  word goes. That the walk stops, and at the first place it is told to
  (`WalkStops`), is shown by the well-foundedness of the order of the numbers.

**DoResolveProofs**, if NULL is no thread: `ThreadsKeptApart`:
`Spec => []LookupsKeepApart`, for every build and any number of threads. `IInv`
adds that a thread between locking and unlocking is the holder of the mutex, that
the static result of `gethostbyaddr()` is the holder's own by the time it is
copied, and that the key exists when `gotkey` says so.

**ServTableProofs**, from no assumption: `LookupCorrect`:
`Spec => []LookupIsLatest`. `IInv` adds where each service is kept: those with a
slot in their array, the others in the table with at most one entry each.

The run `Tables.cfg` checks the properties of these last two modules in the
instances `L` and `S` that `MCTables` makes of them.

The rest is model-checked only. Liveness under fairness, what recursive
definitions compute for every input, and modules with RECURSIVE operators are
out of the prover's reach: `QueueDrains`, `EveryLookupEnds`, `ExportEnds`,
`ToldToEndEnds` and `EveryRateFits`, the sums in `SlotsAddUp` and `LinesAddUp`, the
chains of `AddrHash`, the tree under `Options` and `Startup`, and the reading back
of `Export` stay with TLC.

## 7. What is not modelled

* A packet counted *while* the other thread rotates: `handle_ip_packet()` takes
  no lock and reads `history_pos` several times. `History` takes both as atomic;
  its theorems hold of runs in which no packet overlaps a rotation by the main
  thread (rotations by the packet thread itself never overlap a packet).
* The free list of history records, which has the same weakness as the node pool.
* Repaints that keys make without `tick_mutex` while the list is rebuilt, and the
  SIGQUIT handler, which enters `ui_loop()` again. `Ui` has two painters but a
  fixed list of lines.
* SIGQUIT inside `tick()` is in `Startup`: as in the code, the handler then waits
  for ever for a mutex that its own thread holds, and `ToldToEndEnds` allows for it.
  Signals without a handler (SIGTERM, and SIGQUIT without colours) are too; they
  leave curses on, and `TerminalIsRestored` is about the ends the program makes
  itself.
* Wall clocks that are set back: the clock of `Tick` never is.
* Failing allocations, outside `ProcScan`; what libpcap does; how the handlers of
  the link types find the IP packet behind their headers (the direction they give
  it is in `Packet`); the text of the screen and the widths
  of its columns; the lengths and the smoothing of the bars, which is arithmetic
  in floating point.
* Names with control characters or invalid UTF-8 in an export, numbers as text.
* Words of `~/.iftopcolors` longer than the buffers they are read into. A comment
  longer than its buffer is in the model (`Longest`, counted in words), and read on
  as if it were none; files in which a line is not well formed are in the model, but the property is not
  about them.
* Replies that ares cannot parse; the requests of `dlcommon.c` nobody calls,
  and its printing; `serv_table_destroy()`; `set_max_bandwidth()` and
  `set_net_filter()`, which nobody calls; `vector.c`, which only tests use.

Where the code and what is written about it differ, and the models say so in
the condition of a property or leave the case out:

* `resolver.c:421`: a signal sent before the first worker waits is lost; the
  address waits for the next one (man/iftop.8:35).
* `resolver.c:505`: an address that meets a full ring is cached and never queued,
  although the comment at line 495 says "already resolved, or on the queue".
* `resolver.c:451`: late answers are inserted without making room, so the cache
  can pass `NS_HASH_MAX_ENTRIES` (README.md:464).
* `iftop.c:366`: an undecided IPv6 packet is filed under the zero pair, not
  dropped as the comment says.
* `iftop.c:866`: the cancelled packet thread is not joined before the process
  tables are destroyed.
* `ui.c:983` and `ui.c:1066`: `freezeorder` is read twice and can change between.
* `ui.c:574`: the sort is read in every comparison and can change in the middle of
  one `qsort()`, which may then compare host names that were not looked up; the list
  is complete but in any order (man/iftop.8:222).
* `ui.c:1683`: while a prompt or a shell command is open and the link is not
  Ethernet, nothing ticks: packets of that time fall into one slot, which counts as
  `RESOLUTION` seconds afterwards, so that rates can be far too high.
* `edline.c:123`: on a terminal narrower than the prompt the window starts past
  the cursor and may start past the text.
* `iftop.c:208`: in export mode a tick soon after one of the packet thread draws
  the screen (README.md:156).
* `export.c:191`: durations are differences of whole seconds.
* `options.c:535`, `options.c:590`: a prefix of more than 32 bits turns the filter
  on with the default mask; IPv6 prefixes of up to 8 bits leave part of it in
  place (man/iftop.8:139, 142).
* `cfgfile.c:24`, `options.c:170`: `screen-filter` is not among the directives
  accepted (man/iftop.8:358); `show_processes` is on without `-Z`
  (man/iftop.8:158).
* `procinfo.c:133`, `export.c:161`, `resolver.c:387`, `ui.c:919`, `addr_hash.c:31`: the
  five counterexamples of section 3.
* `addrs_ioctl.c:138`: with `getifaddrs()`, a second IPv4 address of the interface
  is read as an IPv6 address; `AddressesAreTheInterfaces` is about interfaces with
  at most one.
* `ui.c:272`: the words of the colour file are read as many times as the file has
  line ends, and an unknown word takes a turn for itself, so lines at the end
  may not be read.
* `ui.c:661`: a first rate above 10 Mbit/s takes the scale's index to its last entry
  and the end of the repaint past the table; with a limit above 100 Mbit/s the
  marks of the scale themselves can.

## 8. Plan

1. `Capture`: `handle_ip_packet()` step by step against `history_rotate()`, with
   the record pool; which of the properties of `History` survive the overlap.
2. The list of lines under a repaint without `tick_mutex` (`Screen` composed with
   `Ui`), and a clock that is set back.
3. `Program`: capture, tick, analysis and repaint in one composition, with the
   abstract specifications in place of the detailed ones.
4. Remaining parts: formatting of sizes and host names, the bar lengths, the
   splitting of configuration lines, the headers of the link types.
5. Proofs: the timers of `Tick` (`RatesNearlyRight`); `PromptsEndWell` of `Ui`;
   `DriverInStep` and `TerminalIsRestored` of `Startup`, which first needs the tree
   without RECURSIVE operators.
