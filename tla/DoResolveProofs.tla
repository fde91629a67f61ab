--------------------------- MODULE DoResolveProofs ---------------------------
(* Proofs about DoResolve for every number of threads and addresses, every   *)
(* build, and whatever the sizes of buffers and answers.                     *)
EXTENDS DoResolve, TLAPS

(* Where a thread holds the static mutex of its build.                       *)
Critical == {"locked", "copying", "nokey", "gotkey"}

(* Where a thread knows that there is a key.                                 *)
WithKey == {"gotkey", "specific", "processing", "reading"}

Places == {"idle", "called", "asking", "done"} \cup Critical \cup WithKey

LookupTypeOK ==
    /\ pc \in [Threads -> Places]
    /\ addr \in [Threads -> Addrs \cup {NULL}]
    /\ result \in [Threads -> Addrs \cup {NULL}]
    /\ gotkey \in BOOLEAN
    /\ specific \in [Threads -> BOOLEAN]
    /\ child \in [Threads -> {"none", "reading", "asked", "replied", "exited"}]

(* The mutex keeps the threads apart where they use what is static.          *)
MutexHeld == \A t \in Threads : pc[t] \in Critical => mutex = t

(* What gethostbyaddr() left for the thread that is about to copy it.        *)
HostentIsMine == \A t \in Threads : pc[t] = "copying" => hostent \in {addr[t], NULL}

(* The key is made once, and nobody has anything under it before.            *)
OneKey ==
    /\ keys = IF gotkey THEN 1 ELSE 0
    /\ \A t \in Threads : /\ pc[t] \in WithKey => gotkey
                          /\ pc[t] = "nokey" => ~ gotkey
                          /\ specific[t] => gotkey

Returns == \A t \in Threads : pc[t] = "done" => result[t] \in {addr[t], NULL}

NoneLeft == \A t \in Threads : ~ specific[t] => child[t] = "none"

IInv == LookupTypeOK /\ MutexHeld /\ HostentIsMine /\ OneKey /\ Returns /\ NoneLeft

-----------------------------------------------------------------------------
(* The invariant is stronger than the property.                              *)
LEMMA Enough == IInv => LookupsKeepApart
  BY DEF IInv, OneKey, Returns, NoneLeft, LookupsKeepApart

(* It holds before the first call.                                           *)
LEMMA InitInv == Init => IInv
  BY DEF Init, IInv, LookupTypeOK, MutexHeld, HostentIsMine, OneKey, Returns, NoneLeft,
         Places, Critical, WithKey

(* A thread that returns the name of its own address, or none, and touches   *)
(* nothing that is shared.                                                   *)
LEMMA ReturnKeeps ==
    ASSUME IInv, NEW t \in Threads, pc[t] \notin Critical,
           NEW r \in {addr[t], NULL}, Return(t, r),
           UNCHANGED <<addr, mutex, hostent, gotkey, keys, specific, child>>
    PROVE  IInv'
  BY DEF IInv, LookupTypeOK, MutexHeld, HostentIsMine, OneKey, Returns, NoneLeft,
         Places, Critical, WithKey, Return, Goto

(* A thread that gives its process up.                                       *)
LEMMA KillKeeps ==
    ASSUME IInv, NEW t \in Threads, pc[t] \notin Critical, KillWorker(t),
           UNCHANGED <<addr, mutex, hostent, gotkey, keys>>
    PROVE  IInv'
  BY DEF IInv, LookupTypeOK, MutexHeld, HostentIsMine, OneKey, Returns, NoneLeft,
         Places, Critical, WithKey, KillWorker, Return, Goto

(* A thread outside the critical sections that writes a request to its       *)
(* process.                                                                  *)
LEMMA RequestKeeps ==
    ASSUME IInv, NEW t \in Threads, WriteRequest(t)
    PROVE  IInv'
  <1>1. pc[t] \notin Critical /\ pc[t] = "specific" /\ specific[t]
    BY DEF WriteRequest, Critical
  <1>2. CASE KillWorker(t)
    BY <1>1, <1>2, KillKeeps DEF WriteRequest
  <1>3. CASE ~ KillWorker(t)
    <2>1. /\ child' = [child EXCEPT ![t] = "asked"] /\ Goto(t, "reading")
          /\ UNCHANGED <<specific, result, addr, mutex, hostent, gotkey, keys>>
      BY <1>3 DEF WriteRequest
    <2> QED
      BY <1>1, <2>1 DEF IInv, LookupTypeOK, MutexHeld, HostentIsMine, OneKey, Returns, NoneLeft,
                        Places, Critical, WithKey, Goto
  <1> QED
    BY <1>2, <1>3

(* A thread that reads the reply, or finds that its process has ended.       *)
LEMMA ReplyKeeps ==
    ASSUME IInv, NEW t \in Threads, ReadReply(t)
    PROVE  IInv'
  <1>1. pc[t] \notin Critical /\ child[t] \in {"replied", "exited"}
    BY DEF ReadReply, Critical
  <1>2. CASE child[t] = "exited"
    BY <1>1, <1>2, KillKeeps DEF ReadReply
  <1>3. CASE child[t] # "exited"
    <2>1. PICK r \in {addr[t], NULL} : Return(t, r)
      BY <1>3 DEF ReadReply, Answers
    <2>2. /\ child' = [child EXCEPT ![t] = "reading"]
          /\ UNCHANGED <<specific, addr, mutex, hostent, gotkey, keys>>
      BY <1>3 DEF ReadReply
    <2>3. specific[t]
      BY <1>1 DEF IInv, LookupTypeOK, NoneLeft
    <2> QED
      BY <1>1, <2>1, <2>2, <2>3
      DEF IInv, LookupTypeOK, MutexHeld, HostentIsMine, OneKey, Returns, NoneLeft,
          Places, Critical, WithKey, Return, Goto
  <1> QED
    BY <1>2, <1>3

(* Every step of a thread, or of the process it has forked, keeps it.        *)
LEMMA StepKeeps ==
    ASSUME IInv, NULL \notin Threads, NEW t \in Threads,
           Call(t) \/ Resolve(t) \/ Returned(t)
    PROVE  IInv'
  <1>1. CASE getnameinfo(t)
    BY <1>1, ReturnKeeps DEF getnameinfo, Answers, Critical
  <1>2. CASE libresolv(t)
    BY <1>2, ReturnKeeps DEF libresolv, Answers, Critical
  <1>3. CASE gethostbyaddr_r(t)
    BY <1>3, ReturnKeeps DEF gethostbyaddr_r, Answers, Critical
  <1>4. CASE NotIPv4(t)
    BY <1>4, ReturnKeeps DEF NotIPv4, Critical
  <1>5. CASE NoMethod(t)
    BY <1>5, ReturnKeeps DEF NoMethod, Critical
  <1>6. CASE AresDone(t)
    BY <1>6, ReturnKeeps DEF AresDone, Critical
  <1>7. CASE WriteRequest(t)
    BY <1>7, RequestKeeps
  <1>8. CASE ReadReply(t)
    BY <1>8, ReplyKeeps
  <1> USE DEF IInv, LookupTypeOK, MutexHeld, HostentIsMine, OneKey, Returns, NoneLeft,
              Places, Critical, WithKey, Goto
  <1>9. CASE Call(t)
    BY <1>9 DEF Call
  <1>10. CASE Returned(t)
    BY <1>10 DEF Returned
  <1>11. CASE AllocBuffer(t)
    BY <1>11 DEF AllocBuffer
  <1>12. CASE Enlarge(t)
    BY <1>12 DEF Enlarge, Return
  <1>13. CASE LockHostent(t)
    BY <1>13 DEF LockHostent
  <1>14. CASE gethostbyaddr(t)
    BY <1>14 DEF gethostbyaddr, Answers
  <1>15. CASE CopyName(t)
    BY <1>15 DEF CopyName, Return
  <1>16. CASE LockKey(t)
    BY <1>16 DEF LockKey
  <1>17. CASE pthread_key_create(t)
    BY <1>17 DEF pthread_key_create
  <1>18. CASE UnlockKey(t)
    BY <1>18 DEF UnlockKey
  <1>19. CASE AresInit(t)
    BY <1>19 DEF AresInit, Return
  <1>20. CASE AresQuery(t)
    BY <1>20 DEF AresQuery
  <1>21. CASE AresCallback(t)
    BY <1>21 DEF AresCallback
  <1>22. CASE ForkWorker(t)
    BY <1>22 DEF ForkWorker, Return
  <1>23. CASE forking_resolver_worker(t)
    BY <1>23 DEF forking_resolver_worker
  <1> QED
    BY <1>1, <1>2, <1>3, <1>4, <1>5, <1>6, <1>7, <1>8, <1>9, <1>10, <1>11, <1>12,
       <1>13, <1>14, <1>15, <1>16, <1>17, <1>18, <1>19, <1>20, <1>21, <1>22, <1>23
    DEF Resolve

-----------------------------------------------------------------------------
(* The invariant holds of every behaviour: what the mutex guards is used by  *)
(* its holder only, and the key is made once.                                *)
THEOREM InvariantHolds ==
    ASSUME NULL \notin Threads
    PROVE  Spec => []IInv
  <1>1. IInv /\ [Next]_vars => IInv'
    <2> SUFFICES ASSUME IInv, [Next]_vars PROVE IInv'
      OBVIOUS
    <2>1. CASE Next
      BY <2>1, StepKeeps DEF Next
    <2>2. CASE UNCHANGED vars
      BY <2>2 DEF vars, IInv, LookupTypeOK, MutexHeld, HostentIsMine, OneKey, Returns, NoneLeft
    <2> QED
      BY <2>1, <2>2
  <1> QED
    BY InitInv, <1>1, PTL DEF Spec

(* Lookups of any number of threads do not get in each other's way, in any   *)
(* build: do_resolve() returns the name of the address it was given or none, *)
(* there is one key, and a thread without a process has left none behind.    *)
(* NULL is what the mutex has for a holder when it is free.                  *)
THEOREM ThreadsKeptApart ==
    ASSUME NULL \notin Threads
    PROVE  Spec => []LookupsKeepApart
  BY InvariantHolds, Enough, PTL
=============================================================================
