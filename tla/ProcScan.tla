------------------------------ MODULE ProcScan ------------------------------
(***************************************************************************)
(* How procinfo_refresh() finds out which process owns which socket, while *)
(* processes open and close sockets, start, change their names and end.    *)
(* Linux reads the lists of sockets first, the inodes in them, and then    *)
(* walks the file descriptors of all processes.  macOS asks for the size   *)
(* of each list, allocates it, and asks for the list.                      *)
(* A socket stands for its inode, or its file descriptor, and its end.     *)
(***************************************************************************)
EXTENDS Naturals, Sequences, FiniteSets

CONSTANTS
    Pids, Sockets,
    NetFile,           \* the list a socket is in: one of NetFiles
    Names,
    MaxChanges,        \* bound on what happens on the machine during a refresh
    NULL

NetFiles == <<"tcp", "tcp6", "udp", "udp6">>

VARIABLES
    platform,
    running,           \* the processes
    held,              \* pairs of a process and a socket
    comm,              \* names of the processes
    changes,
    step,              \* where the refresh is
    files,             \* lists of sockets not read yet
    inode_table,
    size,              \* what macOS said of the size of a list
    todo,              \* processes still to visit
    pid,               \* the process that is being visited
    fds,               \* its file descriptors still to look at
    pname,             \* its name, once it has been read
    link,              \* the socket found while the name is being read
    table,             \* pairs with a name: the staging table
    failed,            \* memory ran out, something may not be read, or a list grew
                       \* after its size was known
    was, stood, names  \* pairs there at some time and all the time of the refresh,
                       \* and the names the processes had

machine == <<running, held, comm, changes>>
ghosts == <<was, stood, names>>
scan == <<step, files, inode_table, size, todo, pid, fds, pname, link, table, failed>>
scanVars == <<platform, machine, scan, ghosts>>

Init ==
    /\ platform \in {"linux", "macos"}
    /\ running \in {Pids, Pids \ {CHOOSE p \in Pids : TRUE}}
    /\ held \in SUBSET (running \X Sockets)
    /\ \A s \in Sockets : Cardinality({h \in held : h[2] = s}) <= 1
    /\ comm \in [Pids -> Names] /\ \A p, q \in Pids : comm[p] = comm[q] => p = q
    /\ changes = 0
    /\ step = "start" /\ files = NetFiles /\ inode_table = {} /\ size = 0
    /\ todo = {} /\ pid = NULL /\ fds = {} /\ pname = NULL /\ link = NULL /\ table = {} /\ failed = FALSE
    /\ was = held /\ stood = held /\ names = [p \in Pids |-> {comm[p]}]

-----------------------------------------------------------------------------
(* The machine.  Directories show what is there all the time they are read, *)
(* and may show the rest.  Socket inodes are not used again.                *)

Changed == step # "done" /\ changes < MaxChanges /\ changes' = changes + 1

SocketOpened == \E p \in running, s \in Sockets :
    /\ Changed /\ \A h \in was : h[2] # s
    /\ held' = held \cup {<<p, s>>} /\ was' = was \cup {<<p, s>>}
    /\ fds' \in IF platform = "linux" /\ step \in {"fds", "name"} /\ p = pid THEN {fds, fds \cup {s}} ELSE {fds}
    /\ UNCHANGED <<platform, running, comm, step, files, inode_table, size, todo, pid, pname, link, table,
                   failed, stood, names>>

SocketClosed == \E h \in held :
    /\ Changed
    /\ held' = held \ {h} /\ stood' = stood \ {h}
    /\ UNCHANGED <<platform, running, comm, scan, was, names>>

ProcessStarted == \E p \in Pids \ running :
    /\ Changed
    /\ running' = running \cup {p}
    /\ todo' \in IF platform = "linux" /\ step \in {"procs", "fds", "name"} THEN {todo, todo \cup {p}} ELSE {todo}
    /\ UNCHANGED <<platform, held, comm, step, files, inode_table, size, pid, fds, pname, link, table,
                   failed, ghosts>>

ProcessEnded == \E p \in running :
    /\ Changed
    /\ running' = running \ {p}
    /\ held' = {h \in held : h[1] # p} /\ stood' = {h \in stood : h[1] # p}
    /\ UNCHANGED <<platform, comm, scan, was, names>>

NameChanged == \E p \in running, n \in Names \ {comm[q] : q \in Pids} :
    /\ Changed
    /\ comm' = [comm EXCEPT ![p] = n] /\ names' = [names EXCEPT ![p] = @ \cup {n}]
    /\ UNCHANGED <<platform, running, held, scan, was, stood>>

-----------------------------------------------------------------------------
(* No memory for a table: the live one stays.                               *)
TableCreateFails ==
    /\ step = "start"
    /\ step' = "done" /\ failed' = TRUE
    /\ UNCHANGED <<files, inode_table, size, todo, pid, fds, pname, table>>

(* table_add(): when the table cannot grow, what it held is lost.           *)
table_add(s, name) ==
    \/ table' = table \cup {<<pid, s, name>>} /\ failed' = failed
    \/ table' = {} /\ failed' = TRUE

Held(p) == {s \in Sockets : <<p, s>> \in held}

Listed(f) == {s \in Sockets : NetFile[s] = f /\ \E h \in held : h[2] = s}

(* parse_proc_net() of the next list; one that cannot be opened is skipped, *)
(* and when the table cannot grow only what comes after that is left.       *)
parse_proc_net ==
    /\ platform = "linux" /\ step \in {"start", "net"} /\ files # <<>>
    /\ \/ inode_table' = inode_table \cup Listed(Head(files)) /\ failed' = failed
       \/ inode_table' = inode_table /\ failed' = TRUE
       \/ inode_table' \in SUBSET Listed(Head(files)) /\ failed' = TRUE
    /\ files' = Tail(files)
    /\ step' = "net"
    /\ UNCHANGED <<size, todo, pid, fds, pname, table>>

(* opendir("/proc"); without sockets there is nothing to look for.          *)
OpenProc ==
    /\ step = "net" /\ files = <<>>
    /\ IF inode_table = {} THEN step' = "done" /\ todo' = {} /\ failed' = failed
       ELSE \/ step' = "procs" /\ todo' = running /\ failed' = failed
            \/ step' = "done" /\ todo' = {} /\ failed' = TRUE
    /\ UNCHANGED <<files, inode_table, size, pid, fds, pname, table>>

MutantOpenFds ==
    /\ platform = "linux" /\ step = "procs"
    /\ \E p \in todo :
          /\ todo' = todo \ {p}
          /\ \/ p \in running /\ pid' = p /\ fds' = Held(p) /\ step' = "fds" /\ failed' = failed
             \/ UNCHANGED <<pid, fds, step>> /\ failed' = (failed \/ p \in running)
    /\ UNCHANGED <<files, inode_table, size, pname, table>>

(* The next process; one that has ended or may not be read is passed over.  *)
OpenFds ==
    /\ platform = "linux" /\ step = "procs"
    /\ \E p \in todo :
          /\ todo' = todo \ {p}
          /\ \/ p \in running /\ pid' = p /\ fds' = Held(p) /\ step' = "fds" /\ failed' = failed
             \/ UNCHANGED <<pid, fds, step>> /\ failed' = (failed \/ p \in running)
    /\ pname' = NULL
    /\ UNCHANGED <<files, inode_table, size, table>>

(* readlink() of the next descriptor, if it is still there.  The name of    *)
(* the process is read when its first socket is found.                      *)
ReadLink ==
    /\ platform = "linux" /\ step = "fds"
    /\ \E s \in fds :
          IF <<pid, s>> \notin held \/ s \notin inode_table
          THEN fds' = fds \ {s} /\ UNCHANGED <<step, table, failed, link>>
          ELSE IF pname = NULL
          THEN step' = "name" /\ link' = s /\ UNCHANGED <<fds, table, failed>>
          ELSE fds' = fds \ {s} /\ table_add(s, pname) /\ UNCHANGED <<step, link>>
    /\ UNCHANGED <<files, inode_table, size, todo, pid, pname>>

(* get_proc_name() and the entry: the process may have ended since, or its  *)
(* comm not be readable.                                                    *)
get_proc_name ==
    /\ step = "name"
    /\ pname' \in {"pid"} \cup {comm[p] : p \in running \cap {pid}}
    /\ table_add(link, pname')
    /\ step' = "fds" /\ fds' = fds \ {link} /\ link' = NULL
    /\ UNCHANGED <<files, inode_table, size, todo, pid>>

ProcessDone ==
    /\ step = "fds" /\ fds = {}
    /\ step' = "procs"
    /\ UNCHANGED <<files, inode_table, size, todo, pid, fds, pname, table, failed>>

(* table_publish()                                                          *)
Publish ==
    /\ step = "procs" /\ todo = {}
    /\ step' = "done"
    /\ UNCHANGED <<files, inode_table, size, todo, pid, fds, pname, table, failed>>

-----------------------------------------------------------------------------
(* macOS *)

(* Of what a list would hold, as much as there is room for.                 *)
Truncated(S, room) ==
    {T \in SUBSET S : Cardinality(T) = IF Cardinality(S) < room THEN Cardinality(S) ELSE room}

proc_listallpids ==
    /\ platform = "macos" /\ step = "start"
    /\ \/ step' = "sized" /\ failed' = failed
       \/ step' = "done" /\ failed' = TRUE
    /\ size' = Cardinality(running)
    /\ UNCHANGED <<files, inode_table, todo, pid, fds, pname, table>>

ListPids ==
    /\ step = "sized"
    /\ todo' \in Truncated(running, size)
    /\ failed' = (failed \/ Cardinality(running) > size)
    /\ step' = "procs"
    /\ UNCHANGED <<files, inode_table, size, pid, fds, pname, table>>

(* PROC_PIDLISTFDS for the size, which malloc() may not give.               *)
proc_pidinfo ==
    /\ platform = "macos" /\ step = "procs"
    /\ \E p \in todo :
          /\ todo' = todo \ {p}
          /\ pid' = p /\ size' = Cardinality(Held(p))
          /\ \/ step' = "listing" /\ failed' = failed
             \/ step' = "procs" /\ failed' = TRUE
    /\ UNCHANGED <<files, inode_table, fds, pname, table>>

(* The list; without a socket in it the process is done.                    *)
ListFds ==
    /\ step = "listing"
    /\ fds' \in Truncated(Held(pid), size)
    /\ failed' = (failed \/ Cardinality(Held(pid)) > size)
    /\ step' = IF fds' = {} THEN "procs" ELSE "naming"
    /\ UNCHANGED <<files, inode_table, size, todo, pid, pname, table>>

proc_name ==
    /\ step = "naming"
    /\ pname' \in {"pid"} \cup {comm[p] : p \in running \cap {pid}}
    /\ step' = "fds"
    /\ UNCHANGED <<files, inode_table, size, todo, pid, fds, table, failed>>

proc_pidfdinfo ==
    /\ platform = "macos" /\ step = "fds"
    /\ \E s \in fds :
          /\ fds' = fds \ {s}
          /\ IF <<pid, s>> \in held THEN table_add(s, pname)
             ELSE UNCHANGED <<table, failed>>
    /\ UNCHANGED <<step, files, inode_table, size, todo, pid, pname>>

-----------------------------------------------------------------------------
Refresh ==
    /\ \/ ReadLink \/ get_proc_name
       \/ /\ \/ TableCreateFails \/ parse_proc_net \/ OpenProc \/ OpenFds \/ ProcessDone \/ Publish
             \/ proc_listallpids \/ ListPids \/ proc_pidinfo \/ ListFds \/ proc_name \/ proc_pidfdinfo
          /\ UNCHANGED link
    /\ UNCHANGED <<platform, machine, ghosts>>

Next ==
    \/ Refresh
    \/ SocketOpened \/ SocketClosed \/ ProcessStarted \/ ProcessEnded \/ NameChanged

-----------------------------------------------------------------------------
(* Properties *)

(* The table tells no lies: each entry is a socket the process held at some *)
(* time of the refresh, with a name it had then ("pid" stands for           *)
(* "pid:<number>"), although lists, descriptors and name are read one after *)
(* another while the machine goes on (procinfo.c:379-405).  And a socket    *)
(* that a process has held all the time of the refresh is in the table that *)
(* is published, whatever others open, close, start and end ("Rebuild the   *)
(* internal socket-to-pid lookup table", procinfo.h:22), unless memory ran  *)
(* out, files may not be read or, on macOS, a list grew between the two     *)
(* calls for it (procinfo.c:146-153).                                       *)
ScanIsFaithful ==
    /\ \A e \in table : <<e[1], e[2]>> \in was /\ e[3] \in names[e[1]] \cup {"pid"}
    /\ step = "done" /\ ~ failed =>
          \A h \in stood : \E n \in names[h[1]] \cup {"pid"} : <<h[1], h[2], n>> \in table
=============================================================================
