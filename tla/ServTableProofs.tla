--------------------------- MODULE ServTableProofs ---------------------------
(* Proofs about ServTable for every set of ports, protocols and names and     *)
(* every size of the arrays.                                                  *)
EXTENDS ServTable, SequenceTheorems, TLAPS

Values == Names \cup {NULL}

ServTypeOK ==
    /\ tcp \in [Slots -> Values] /\ udp \in [Slots -> Values]
    /\ other \in [Service -> Seq(Values)]
    /\ latest \in [Service -> Values]

(* Where a service is kept: in its array, or as the only node of its key.     *)
KeptInPlace ==
    \A port \in Ports, protocol \in Protocols :
       IF HasSlot(port, protocol)
       THEN Slot(port, protocol) = latest[<<port, protocol>>]
       ELSE \/ other[<<port, protocol>>] = <<>> /\ latest[<<port, protocol>>] = NULL
            \/ other[<<port, protocol>>] = <<latest[<<port, protocol>>]>>

IInv == ServTypeOK /\ KeptInPlace

-----------------------------------------------------------------------------
(* A list of one entry.                                                       *)
LEMMA OneEntry ==
    ASSUME NEW S, NEW e \in S
    PROVE  /\ <<e>> \in Seq(S) /\ <<e>> # <<>>
           /\ Head(<<e>>) = e
           /\ Tail(<<e>>) = <<>>
           /\ <<e>> \o <<>> = <<e>>
  OBVIOUS

(* A service is found where it is kept.                                       *)
LEMMA Enough == IInv => LookupIsLatest
  <1> SUFFICES ASSUME IInv, NEW port \in Ports, NEW protocol \in Protocols
               PROVE  serv_table_lookup(port, protocol) = latest[<<port, protocol>>]
    BY DEF LookupIsLatest, Service
  <1>1. latest[<<port, protocol>>] \in Values
    BY DEF IInv, ServTypeOK, Service
  <1> QED
    BY <1>1, OneEntry DEF IInv, KeptInPlace, serv_table_lookup, hash_find, hash_record

(* The tables are created empty.                                              *)
LEMMA InitInv == Init => IInv
  BY DEF Init, IInv, ServTypeOK, KeptInPlace, Values, Service, Slots, HasSlot, Slot, hash_initialise

(* Inserting replaces the node of the key, if there is one.                   *)
LEMMA Replaced ==
    ASSUME IInv, NEW port \in Ports, NEW protocol \in Protocols, ~ HasSlot(port, protocol),
           NEW name \in Names
    PROVE  Replace(<<port, protocol>>, name) = [other EXCEPT ![<<port, protocol>>] = <<name>>]
  <1> DEFINE key == <<port, protocol>>
  <1>1. /\ key \in Service /\ other \in [Service -> Seq(Values)]
        /\ latest[key] \in Values /\ name \in Values
    BY DEF IInv, ServTypeOK, Service, Values
  <1>2. other[key] = <<>> \/ other[key] = <<latest[key]>>
    BY DEF IInv, KeptInPlace
  <1> HIDE DEF key
  <1>3. hash_delete(other, key) = [other EXCEPT ![key] = <<>>]
    BY <1>1, <1>2, OneEntry DEF hash_delete, hash_find
  <1> QED
    BY <1>1, <1>3, OneEntry DEF Replace, hash_insert, key

(* Deleting removes the node of a key.                                        *)
LEMMA Deleted ==
    ASSUME IInv, NEW port \in Ports, NEW protocol \in Protocols, ~ HasSlot(port, protocol)
    PROVE  hash_delete(other, <<port, protocol>>) = [other EXCEPT ![<<port, protocol>>] = <<>>]
  <1> DEFINE key == <<port, protocol>>
  <1>1. key \in Service /\ other \in [Service -> Seq(Values)] /\ latest[key] \in Values
    BY DEF IInv, ServTypeOK, Service
  <1>2. other[key] = <<>> \/ other[key] = <<latest[key]>>
    BY DEF IInv, KeptInPlace
  <1> HIDE DEF key
  <1>3. hash_delete(other, key) = [other EXCEPT ![key] = <<>>]
    BY <1>1, <1>2, OneEntry DEF hash_delete, hash_find
  <1> QED
    BY <1>3 DEF key

(* Storing a value, or NULL, in the slot of a service.                        *)
LEMMA SlotKeeps ==
    ASSUME IInv, NEW port \in Ports, NEW protocol \in Protocols, HasSlot(port, protocol),
           NEW v \in Values, SetSlot(port, protocol, v),
           latest' = [latest EXCEPT ![<<port, protocol>>] = v]
    PROVE  IInv'
  <1>1. ServTypeOK'
    BY DEF IInv, ServTypeOK, SetSlot, HasSlot, Service
  <1>2. KeptInPlace'
    BY DEF IInv, ServTypeOK, KeptInPlace, SetSlot, HasSlot, Slot, Service
  <1> QED
    BY <1>1, <1>2 DEF IInv

(* Storing a value in the table behind the arrays, or emptying its place.     *)
LEMMA OtherKeeps ==
    ASSUME IInv, NEW port \in Ports, NEW protocol \in Protocols, ~ HasSlot(port, protocol),
           NEW v \in Values, NEW s \in {<<>>, <<v>>}, s = <<>> => v = NULL,
           other' = [other EXCEPT ![<<port, protocol>>] = s], UNCHANGED <<tcp, udp>>,
           latest' = [latest EXCEPT ![<<port, protocol>>] = v]
    PROVE  IInv'
  <1>0. s \in Seq(Values)
    <2>1. <<v>> \in Seq(Values)
      BY OneEntry
    <2>2. <<>> \in Seq(Values)
      OBVIOUS
    <2> QED
      BY <2>1, <2>2
  <1>1. ServTypeOK'
    BY <1>0 DEF IInv, ServTypeOK, Service
  <1>2. KeptInPlace'
    <2> SUFFICES ASSUME NEW p \in Ports, NEW q \in Protocols
                 PROVE  (IF HasSlot(p, q)
                         THEN Slot(p, q) = latest[<<p, q>>]
                         ELSE \/ other[<<p, q>>] = <<>> /\ latest[<<p, q>>] = NULL
                              \/ other[<<p, q>>] = <<latest[<<p, q>>]>>)'
      BY DEF KeptInPlace
    <2>0. <<p, q>> \in Service /\ <<port, protocol>> \in Service
      BY DEF Service
    <2>1. CASE p = port /\ q = protocol
      <3>1. other'[<<p, q>>] = s /\ latest'[<<p, q>>] = v /\ ~ HasSlot(p, q)
        BY <2>0, <2>1 DEF IInv, ServTypeOK
      <3> QED
        BY <3>1 DEF HasSlot
    <2>2. CASE ~ (p = port /\ q = protocol)
      <3>1. other'[<<p, q>>] = other[<<p, q>>] /\ latest'[<<p, q>>] = latest[<<p, q>>]
        BY <2>0, <2>2 DEF IInv, ServTypeOK
      <3> QED
        BY <3>1 DEF IInv, KeptInPlace, HasSlot, Slot
    <2> QED
      BY <2>1, <2>2
  <1> QED
    BY <1>1, <1>2 DEF IInv

-----------------------------------------------------------------------------
(* Every service is kept in its place, whatever is inserted and deleted.      *)
THEOREM InvariantHolds == Spec => []IInv
  <1>1. IInv /\ [Next]_vars => IInv'
    <2> SUFFICES ASSUME IInv, [Next]_vars PROVE IInv'
      OBVIOUS
    <2>1. ASSUME NEW port \in Ports, NEW protocol \in Protocols, NEW name \in Names,
                 serv_table_insert(port, protocol, name)
          PROVE  IInv'
      <3>1. name \in Values
        BY DEF Values
      <3>2. CASE HasSlot(port, protocol)
        BY <2>1, <3>1, <3>2, SlotKeeps DEF serv_table_insert
      <3>3. CASE ~ HasSlot(port, protocol)
        <4>1. other' = [other EXCEPT ![<<port, protocol>>] = <<name>>]
          <5>1. other' = Replace(<<port, protocol>>, name)
            BY <2>1, <3>3 DEF serv_table_insert
          <5>2. Replace(<<port, protocol>>, name) = [other EXCEPT ![<<port, protocol>>] = <<name>>]
            BY <3>3, Replaced
          <5> QED
            BY <5>1, <5>2
        <4>2. <<name>> \in {<<>>, <<name>>} /\ (<<name>> = <<>> => name = NULL)
          BY <3>1, OneEntry
        <4>3. latest' = [latest EXCEPT ![<<port, protocol>>] = name] /\ UNCHANGED <<tcp, udp>>
          BY <2>1, <3>3 DEF serv_table_insert
        <4> QED
          BY <3>1, <3>3, <4>1, <4>2, <4>3, OtherKeeps
      <3> QED
        BY <3>2, <3>3
    <2>2. ASSUME NEW port \in Ports, NEW protocol \in Protocols,
                 serv_table_delete(port, protocol)
          PROVE  IInv'
      <3>1. NULL \in Values
        BY DEF Values
      <3>2. CASE HasSlot(port, protocol)
        BY <2>2, <3>1, <3>2, SlotKeeps DEF serv_table_delete
      <3>3. CASE ~ HasSlot(port, protocol)
        <4>1. other' = [other EXCEPT ![<<port, protocol>>] = <<>>]
          BY <2>2, <3>3, Deleted DEF serv_table_delete
        <4> QED
          BY <2>2, <3>1, <3>3, <4>1, OtherKeeps DEF serv_table_delete
      <3> QED
        BY <3>2, <3>3
    <2>3. CASE UNCHANGED vars
      BY <2>3 DEF vars, IInv, ServTypeOK, KeptInPlace, Slot
    <2> QED
      BY <2>1, <2>2, <2>3 DEF Next
  <1> QED
    BY InitInv, <1>1, PTL DEF Spec

(* serv_table_lookup() gives the name inserted last for a port and protocol,  *)
(* or nothing after it has been deleted, whether it lies in an array or not.  *)
THEOREM LookupCorrect == Spec => []LookupIsLatest
  BY InvariantHolds, Enough, PTL
=============================================================================
