----------------------------- MODULE MCProcinfo -----------------------------
(* A client of a remote web server, and a web server of this machine.  The  *)
(* client's socket is one bound to an IPv4-mapped IPv6 address; the server  *)
(* listens on TCP, and the client also sends datagrams to port 80.          *)
EXTENDS Procinfo

MCSockets ==
    {[af |-> 6, protocol |-> "tcp", mapped |-> TRUE, addr |-> "here", port |-> 5000, pid |-> "client"],
     [af |-> 4, protocol |-> "tcp", mapped |-> FALSE, addr |-> "any", port |-> 80, pid |-> "server"]}

MCFlows ==
    {[af |-> 4, protocol |-> pr,
      src |-> [addr |-> "here", port |-> 5000], dst |-> [addr |-> "there", port |-> 80]] :
        pr \in {"tcp", "udp"}}

MCAny == "any"

(* The refresh itself, as a session of its own. *)
CONSTANTS Pids, Inodes, Names, MaxChanges

VARIABLES
    session, platform, running, held, comm, changes, step, files, inode_table, size, todo, pid,
    fds, pname, link, table, failed, was, stood, names

MCNetFile == [s \in Inodes |-> IF s = CHOOSE t \in Inodes : TRUE THEN "tcp6" ELSE "udp"]

S == INSTANCE ProcScan WITH Sockets <- Inodes, NetFile <- MCNetFile

refreshVars ==
    <<platform, running, held, comm, changes, step, files, inode_table, size, todo, pid, fds, pname,
      link, table, failed, was, stood, names>>

MCInit == /\ session \in {"threads", "refresh"}
          /\ IF session = "threads"
             THEN Init /\ S!Init /\ platform = "linux" /\ held = {}
                  /\ running = Pids /\ comm = CHOOSE f \in [Pids -> Names] : \A p, q \in Pids : f[p] = f[q] => p = q
             ELSE Init /\ ethernet /\ S!Init

MCNext == \/ session = "threads" /\ Next /\ UNCHANGED refreshVars /\ UNCHANGED session
          \/ session = "refresh" /\ S!Next /\ UNCHANGED vars /\ UNCHANGED session

MCSpec == MCInit /\ [][MCNext]_<<vars, refreshVars, session>>

(* See ProcScan. *)
ScanIsFaithful == S!ScanIsFaithful
=============================================================================
