------------------------------ MODULE DoResolve ------------------------------
(***************************************************************************)
(* do_resolve() of resolver.c, which the resolver threads call at the same *)
(* time, in each of the ways it can be built: with getnameinfo(), with     *)
(* gethostbyaddr_r(), with gethostbyaddr() under a mutex, with libresolv,  *)
(* with ares and a channel for each thread, and with a forked process for  *)
(* each thread.                                                            *)
(* The name service knows the names of some addresses, and may fail.       *)
(***************************************************************************)
EXTENDS Integers

CONSTANTS
    Threads,
    Backends,          \* the builds
    Family,            \* address -> 4 or 6
    Need,              \* address -> size of the buffer its answer takes
    MaxBuffer,         \* as large as realloc() makes a buffer
    NULL

Addrs == DOMAIN Family

(* What the socket to a forked process is written, a struct in6_addr, and   *)
(* what the process reads, a struct addr_storage.                           *)
Written == 16
WorkerReads == 24

VARIABLES
    backend,
    pc, addr,          \* where each thread is, and the address it resolves
    result,            \* what do_resolve() returned last: an address whose name it is, or NULL
    mutex,             \* the holder of the build's static mutex, or NULL
    hostent,           \* gethostbyaddr()'s static result
    gotkey, keys,      \* pthread_key_create() has been called, and how often
    specific,          \* a thread has a channel or a process of its own
    buffer,            \* size of a thread's buffer
    comm,              \* C.result of the ares callback: 0, 1 or -1
    child              \* the process: "none", "reading", "asked", "replied" or "exited"

vars == <<backend, pc, addr, result, mutex, hostent, gotkey, keys, specific, buffer, comm, child>>

Init ==
    /\ backend \in Backends
    /\ pc = [t \in Threads |-> "idle"]
    /\ addr = [t \in Threads |-> NULL] /\ result = [t \in Threads |-> NULL]
    /\ mutex = NULL /\ hostent = NULL /\ gotkey = FALSE /\ keys = 0
    /\ specific = [t \in Threads |-> FALSE]
    /\ buffer = [t \in Threads |-> 0]
    /\ comm = [t \in Threads |-> 0]
    /\ child = [t \in Threads |-> "none"]

Goto(t, l) == pc' = [pc EXCEPT ![t] = l]

Return(t, r) == /\ result' = [result EXCEPT ![t] = r]
                /\ Goto(t, "done")

(* What the name service says.                                              *)
Answers(a) == {a, NULL}

Call(t) == /\ pc[t] = "idle"
           /\ \E a \in Addrs : addr' = [addr EXCEPT ![t] = a]
           /\ Goto(t, "called")
           /\ UNCHANGED <<backend, result, mutex, hostent, gotkey, keys, specific, buffer, comm, child>>

Returned(t) == /\ pc[t] = "done"
               /\ Goto(t, "idle")
               /\ UNCHANGED <<backend, addr, result, mutex, hostent, gotkey, keys, specific, buffer,
                              comm, child>>

-----------------------------------------------------------------------------
getnameinfo(t) ==
    /\ backend = "getnameinfo" /\ pc[t] = "called"
    /\ \E r \in Answers(addr[t]) : Return(t, r)
    /\ UNCHANGED <<backend, addr, mutex, hostent, gotkey, keys, specific, buffer, comm, child>>

(* Only IPv4; the last name of the answer is the one that is returned.  The *)
(* library is taken to be safe in threads, which the source does not trust  *)
(* it to be.                                                                *)
libresolv(t) ==
    /\ backend = "libresolv" /\ pc[t] = "called"
    /\ \E r \in IF Family[addr[t]] = 4 THEN Answers(addr[t]) ELSE {NULL} : Return(t, r)
    /\ UNCHANGED <<backend, addr, mutex, hostent, gotkey, keys, specific, buffer, comm, child>>

NoMethod(t) ==
    /\ backend = "none" /\ pc[t] = "called"
    /\ Return(t, NULL)
    /\ UNCHANGED <<backend, addr, mutex, hostent, gotkey, keys, specific, buffer, comm, child>>

-----------------------------------------------------------------------------
(* gethostbyaddr_r(): ERANGE while the buffer is too small.                 *)

AllocBuffer(t) ==
    /\ backend = "gethostbyaddr_r" /\ pc[t] = "called"
    /\ buffer' = [buffer EXCEPT ![t] = 1]
    /\ Goto(t, "asking")
    /\ UNCHANGED <<backend, addr, result, mutex, hostent, gotkey, keys, specific, comm, child>>

MutantEnlarge(t) ==
    /\ backend = "gethostbyaddr_r" /\ pc[t] = "asking" /\ Need[addr[t]] > buffer[t]
    /\ IF 2 * buffer[t] > MaxBuffer
       THEN Return(t, NULL) /\ buffer' = [buffer EXCEPT ![t] = 0]
       ELSE UNCHANGED <<buffer, result, pc>>
    /\ UNCHANGED <<backend, addr, mutex, hostent, gotkey, keys, specific, comm, child>>

Enlarge(t) ==
    /\ backend = "gethostbyaddr_r" /\ pc[t] = "asking" /\ Need[addr[t]] > buffer[t]
    /\ IF 2 * buffer[t] > MaxBuffer
       THEN Return(t, NULL) /\ buffer' = [buffer EXCEPT ![t] = 0]
       ELSE buffer' = [buffer EXCEPT ![t] = 2 * @] /\ UNCHANGED <<result, pc>>
    /\ UNCHANGED <<backend, addr, mutex, hostent, gotkey, keys, specific, comm, child>>

(* Where the function returns a pointer, res is not initialised, and a name *)
(* that was found may be taken for a failure.                               *)
gethostbyaddr_r(t) ==
    /\ backend = "gethostbyaddr_r" /\ pc[t] = "asking" /\ Need[addr[t]] <= buffer[t]
    /\ \E r \in Answers(addr[t]) : Return(t, r)
    /\ buffer' = [buffer EXCEPT ![t] = 0]
    /\ UNCHANGED <<backend, addr, mutex, hostent, gotkey, keys, specific, comm, child>>

-----------------------------------------------------------------------------
(* gethostbyaddr(): its result is static.                                   *)

MutantLockHostent(t) ==
    /\ backend = "gethostbyaddr" /\ pc[t] = "called"
    /\ mutex' = t
    /\ Goto(t, "locked")
    /\ UNCHANGED <<backend, addr, result, hostent, gotkey, keys, specific, buffer, comm, child>>

LockHostent(t) ==
    /\ backend = "gethostbyaddr" /\ pc[t] = "called" /\ mutex = NULL
    /\ mutex' = t
    /\ Goto(t, "locked")
    /\ UNCHANGED <<backend, addr, result, hostent, gotkey, keys, specific, buffer, comm, child>>

gethostbyaddr(t) ==
    /\ backend = "gethostbyaddr" /\ pc[t] = "locked"
    /\ hostent' \in Answers(addr[t])
    /\ Goto(t, "copying")
    /\ UNCHANGED <<backend, addr, result, mutex, gotkey, keys, specific, buffer, comm, child>>

CopyName(t) ==
    /\ backend = "gethostbyaddr" /\ pc[t] = "copying"
    /\ Return(t, hostent)
    /\ mutex' = NULL
    /\ UNCHANGED <<backend, addr, hostent, gotkey, keys, specific, buffer, comm, child>>

-----------------------------------------------------------------------------
(* The key under which a thread finds its channel or its process.           *)

(* ares only does IPv4.                                                     *)
NotIPv4(t) ==
    /\ backend = "ares" /\ pc[t] = "called" /\ Family[addr[t]] # 4
    /\ Return(t, NULL)
    /\ UNCHANGED <<backend, addr, mutex, hostent, gotkey, keys, specific, buffer, comm, child>>

LockKey(t) ==
    /\ pc[t] = "called" /\ mutex = NULL
    /\ backend = "forking" \/ (backend = "ares" /\ Family[addr[t]] = 4)
    /\ mutex' = t
    /\ Goto(t, IF gotkey THEN "gotkey" ELSE "nokey")
    /\ UNCHANGED <<backend, addr, result, hostent, gotkey, keys, specific, buffer, comm, child>>

(* A thread's value under a new key is NULL.                                *)
pthread_key_create(t) ==
    /\ pc[t] = "nokey"
    /\ keys' = keys + 1 /\ gotkey' = TRUE
    /\ specific' = [u \in Threads |-> FALSE]
    /\ Goto(t, "gotkey")
    /\ UNCHANGED <<backend, addr, result, mutex, hostent, buffer, comm, child>>

UnlockKey(t) ==
    /\ pc[t] = "gotkey"
    /\ mutex' = NULL
    /\ Goto(t, "specific")
    /\ UNCHANGED <<backend, addr, result, hostent, gotkey, keys, specific, buffer, comm, child>>

-----------------------------------------------------------------------------
(* ares *)

AresInit(t) ==
    /\ backend = "ares" /\ pc[t] = "specific" /\ ~ specific[t]
    /\ \/ specific' = [specific EXCEPT ![t] = TRUE] /\ UNCHANGED <<pc, result>>
       \/ specific' = specific /\ Return(t, NULL)
    /\ UNCHANGED <<backend, addr, mutex, hostent, gotkey, keys, buffer, comm, child>>

AresQuery(t) ==
    /\ backend = "ares" /\ pc[t] = "specific" /\ specific[t]
    /\ comm' = [comm EXCEPT ![t] = 0]
    /\ Goto(t, "processing")
    /\ UNCHANGED <<backend, addr, result, mutex, hostent, gotkey, keys, specific, buffer, child>>

(* do_resolve_ares_callback(), from ares_process(), on success and failure. *)
(* A successful reply is one that ares can parse.                           *)
AresCallback(t) ==
    /\ backend = "ares" /\ pc[t] = "processing" /\ comm[t] = 0
    /\ \E status \in {1, -1} : comm' = [comm EXCEPT ![t] = status]
    /\ UNCHANGED <<backend, pc, addr, result, mutex, hostent, gotkey, keys, specific, buffer, child>>

AresDone(t) ==
    /\ backend = "ares" /\ pc[t] = "processing" /\ comm[t] # 0
    /\ Return(t, IF comm[t] = 1 THEN addr[t] ELSE NULL)
    /\ UNCHANGED <<backend, addr, mutex, hostent, gotkey, keys, specific, buffer, comm, child>>

-----------------------------------------------------------------------------
(* The forking resolver *)

(* socketpair() and fork(), either of which may fail.                       *)
ForkWorker(t) ==
    /\ backend = "forking" /\ pc[t] = "specific" /\ ~ specific[t]
    /\ \/ /\ specific' = [specific EXCEPT ![t] = TRUE]
          /\ child' = [child EXCEPT ![t] = "reading"]
          /\ UNCHANGED <<pc, result>>
       \/ UNCHANGED <<specific, child>> /\ Return(t, NULL)
    /\ UNCHANGED <<backend, addr, mutex, hostent, gotkey, keys, buffer, comm>>

(* "Just kill the child and get on with it": each failed exchange kills one *)
(* process and waits for one, and the next lookup forks another.  wait()    *)
(* may reap the process of another thread, which then reaps this one.       *)
KillWorker(t) ==
    /\ specific' = [specific EXCEPT ![t] = FALSE]
    /\ child' = [child EXCEPT ![t] = "none"]
    /\ Return(t, NULL)

WriteRequest(t) ==
    /\ backend = "forking" /\ pc[t] = "specific" /\ specific[t]
    /\ \/ /\ child' = [child EXCEPT ![t] = "asked"]
          /\ Goto(t, "reading")
          /\ UNCHANGED <<specific, result>>
       \/ KillWorker(t)
    /\ UNCHANGED <<backend, addr, mutex, hostent, gotkey, keys, buffer, comm>>

(* A request of another size ends the process.                              *)
forking_resolver_worker(t) ==
    /\ child[t] = "asked"
    /\ child' = [child EXCEPT ![t] = IF Written = WorkerReads THEN "replied" ELSE "exited"]
    /\ UNCHANGED <<backend, pc, addr, result, mutex, hostent, gotkey, keys, specific, buffer, comm>>

(* The reply, or the end of the socket.  A process that another thread has  *)
(* forked meanwhile may keep the socket open a little longer, until it has  *)
(* had its own request.                                                     *)
ReadReply(t) ==
    /\ backend = "forking" /\ pc[t] = "reading" /\ child[t] \in {"replied", "exited"}
    /\ IF child[t] = "exited" THEN KillWorker(t)
       ELSE /\ child' = [child EXCEPT ![t] = "reading"]
            /\ \E r \in Answers(addr[t]) : Return(t, r)
            /\ UNCHANGED specific
    /\ UNCHANGED <<backend, addr, mutex, hostent, gotkey, keys, buffer, comm>>

-----------------------------------------------------------------------------
Resolve(t) ==
    \/ getnameinfo(t) \/ libresolv(t) \/ NoMethod(t)
    \/ AllocBuffer(t) \/ Enlarge(t) \/ gethostbyaddr_r(t)
    \/ LockHostent(t) \/ gethostbyaddr(t) \/ CopyName(t)
    \/ NotIPv4(t) \/ LockKey(t) \/ pthread_key_create(t) \/ UnlockKey(t)
    \/ AresInit(t) \/ AresQuery(t) \/ AresCallback(t) \/ AresDone(t)
    \/ ForkWorker(t) \/ WriteRequest(t) \/ forking_resolver_worker(t) \/ ReadReply(t)

Next == \E t \in Threads : Call(t) \/ Resolve(t) \/ Returned(t)

Spec == Init /\ [][Next]_vars

(* Threads and processes are scheduled, and mutexes are given to those who  *)
(* wait for them.                                                           *)
FairSpec == /\ Spec
            /\ \A t \in Threads : WF_vars(Resolve(t)) /\ SF_vars(LockHostent(t)) /\ SF_vars(LockKey(t))

-----------------------------------------------------------------------------
(* Properties *)

(* Threads that look up at the same time do not get in each other's way.  A *)
(* thread is given the name of the address it asked for and never that of   *)
(* another thread's ("Since this is nonreentrant, we have to wrap it in a   *)
(* mutex", resolver.c:144).  There is one key, so that no thread loses the  *)
(* channel or the process it has, and a thread that has none has no process *)
(* left running or unreaped ("Just kill the child and get on with it",      *)
(* resolver.c:389).                                                         *)
LookupsKeepApart ==
    /\ keys <= 1
    /\ \A t \in Threads :
          /\ pc[t] = "done" => result[t] \in {addr[t], NULL}
          /\ ~ specific[t] => child[t] = "none"

(* Every lookup ends, so that a resolver thread gets back to the queue: the *)
(* buffer grows until the answer fits, the callback of a failed query ends  *)
(* the loop that waits for it, and the end of a forked process is noticed.  *)
EveryLookupEnds == \A t \in Threads : (pc[t] = "called") ~> (pc[t] = "done")

(* "Now have a worker to which we can write requests." (resolver.c:386):    *)
(* the process does not end on a request.                                   *)
WorkerTakesRequests == \A t \in Threads : child[t] # "exited"
=============================================================================
