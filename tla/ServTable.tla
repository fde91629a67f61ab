------------------------------ MODULE ServTable ------------------------------
(* serv_hash.c: service names by port and protocol.  TCP and UDP have an      *)
(* array of names indexed by the port; everything else, a port outside the    *)
(* array included, goes to a chained hash table.                              *)
EXTENDS Integers, FiniteSets, HashMap

CONSTANTS Ports, Protocols, Names,
          SERV_NUM_PORTS,   \* 65536 in the code
          MaxCount,         \* bound on the insertions
          NULL

(* The keys the callers use; a port need not lie in the arrays.               *)
Service == Ports \X Protocols

VARIABLES tcp, udp,   \* the arrays: port -> name
          other,      \* the fallback table
          count,
          latest      \* what the last insertion or deletion said of a service

vars == <<tcp, udp, other, count, latest>>

Slots == 0 .. SERV_NUM_PORTS - 1

Init == /\ tcp = [p \in Slots |-> NULL]
        /\ udp = [p \in Slots |-> NULL]
        /\ other = hash_initialise(Service)
        /\ count = 0
        /\ latest = [s \in Service |-> NULL]

(* serv_slot(): is there an array with a place for this service?              *)
HasSlot(port, protocol) == port \in Slots /\ protocol \in {6, 17}

SetSlot(port, protocol, name) ==
  /\ tcp' = IF protocol = 6 THEN [tcp EXCEPT ![port] = name] ELSE tcp
  /\ udp' = IF protocol = 17 THEN [udp EXCEPT ![port] = name] ELSE udp
  /\ other' = other

Slot(port, protocol) == IF protocol = 6 THEN tcp[port] ELSE udp[port]

MutantReplace(key, name) == hash_insert(other, key, name)

(* The old entry is deleted before the new one goes in.                       *)
Replace(key, name) == hash_insert(hash_delete(other, key), key, name)

serv_table_insert(port, protocol, name) ==
  /\ count < MaxCount
  /\ IF HasSlot(port, protocol)
     THEN SetSlot(port, protocol, name)
     ELSE other' = Replace(<<port, protocol>>, name) /\ UNCHANGED <<tcp, udp>>
  /\ count' = count + 1
  /\ latest' = [latest EXCEPT ![<<port, protocol>>] = name]

serv_table_lookup(port, protocol) ==
  IF HasSlot(port, protocol) THEN Slot(port, protocol)
  ELSE IF hash_find(other, <<port, protocol>>) THEN hash_record(other, <<port, protocol>>)
  ELSE NULL

serv_table_delete(port, protocol) ==
  /\ serv_table_lookup(port, protocol) # NULL
  /\ IF HasSlot(port, protocol)
     THEN SetSlot(port, protocol, NULL)
     ELSE other' = hash_delete(other, <<port, protocol>>) /\ UNCHANGED <<tcp, udp>>
  /\ count' = count - 1
  /\ latest' = [latest EXCEPT ![<<port, protocol>>] = NULL]

Next == \E port \in Ports, protocol \in Protocols :
          \/ \E name \in Names : serv_table_insert(port, protocol, name)
          \/ serv_table_delete(port, protocol)

Spec == Init /\ [][Next]_vars

------------------------------------------------------------------------------
(* A port is looked up where it was stored, at the ends of the arrays too:    *)
(* every lookup gives the name inserted last, or nothing once it is deleted.  *)
LookupIsLatest == \A s \in Service : serv_table_lookup(s[1], s[2]) = latest[s]
==============================================================================
