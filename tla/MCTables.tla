------------------------------ MODULE MCTables ------------------------------
(* The tables of flows, the table of services, and the lookups of host names *)
(* that fill the name cache.  A behaviour is one of one part.                *)
EXTENDS AddrHash

(* Three pairs, two of them in one bucket.                                   *)
MCPairs == {"a", "b", "c"}

MCHash == [k \in MCPairs |-> IF k = "c" THEN 1 ELSE 0]

(* Two IPv4 addresses, one of them with a long answer, and an IPv6 address   *)
(* with an answer that is too long.                                          *)
MCFamily == [a \in {"a", "b", "c"} |-> IF a = "c" THEN 6 ELSE 4]

MCNeed == [a \in {"a", "b", "c"} |-> CASE a = "a" -> 1 [] a = "b" -> 4 [] a = "c" -> 9]

CONSTANTS Parts,                                        \* the parts that are run
          Workers, Backends, Family, Need, MaxBuffer,   \* DoResolve
          Ports, Protocols, Names, SERV_NUM_PORTS, MaxCount   \* ServTable

(* The first and the last port of the arrays, and one behind them.           *)
MCPorts == {0, SERV_NUM_PORTS - 1, SERV_NUM_PORTS}

VARIABLES part,
          backend, pc, addr, result, mutex, hostent, gotkey, keys, specific, buffer, comm, child,
          tcp, udp, other, count, latest

lookupVars == <<backend, pc, addr, result, mutex, hostent, gotkey, keys, specific, buffer, comm, child>>
serviceVars == <<tcp, udp, other, count, latest>>
allVars == <<part, vars, lookupVars, serviceVars>>

L == INSTANCE DoResolve WITH Threads <- Workers
S == INSTANCE ServTable

MCInit ==
  /\ part \in Parts
  /\ Init /\ S!Init
  /\ L!Init /\ (part # "lookups" => backend = CHOOSE b \in Backends : TRUE)

Hashed == part = "flows" /\ Next /\ UNCHANGED <<part, lookupVars, serviceVars>>
LookedUp == part = "lookups" /\ L!Next /\ UNCHANGED <<part, vars, serviceVars>>
Served == part = "services" /\ S!Next /\ UNCHANGED <<part, vars, lookupVars>>

MCNext == Hashed \/ LookedUp \/ Served

Others == UNCHANGED <<part, vars, serviceVars>>

(* The fairness of DoResolve.                                                *)
MCSpec ==
  /\ MCInit /\ [][MCNext]_allVars
  /\ \A t \in Workers : /\ WF_allVars(part = "lookups" /\ L!Resolve(t) /\ Others)
                        /\ SF_allVars(part = "lookups" /\ L!LockHostent(t) /\ Others)
                        /\ SF_allVars(part = "lookups" /\ L!LockKey(t) /\ Others)

(* See DoResolve and ServTable.                                              *)
LookupsKeepApart == L!LookupsKeepApart
EveryLookupEnds == L!EveryLookupEnds
WorkerTakesRequests == L!WorkerTakesRequests
LookupIsLatest == S!LookupIsLatest
=============================================================================
