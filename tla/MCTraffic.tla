----------------------------- MODULE MCTraffic -----------------------------
(* What is done with a packet: it is classified (Packet), and its bytes are  *)
(* recorded while the history rotates (History).  A behaviour is one of one  *)
(* part.                                                                     *)
EXTENDS History, Packet

(* Three addresses, of which one is link-local, and two networks.            *)
MCHost == 1 .. 3

MCLinkLocal == {3}

MCNets == {{1}, {2, 3}}

MCPort == {1, 2}

MCProtocols == {"tcp", "icmp"}

VARIABLE part

(* Without a filter no branch reads its network, and without an address of   *)
(* the interface none reads it: these need not be told apart.                *)
Relevant(o) ==
    /\ ~ o.netfilter => o.net = CHOOSE n \in Nets : TRUE
    /\ ~ o.have_ip_addr => o.if_ip_addr = CHOOSE h \in Host : TRUE

(* The part that is not run stays in one of its initial states.              *)
MCInit ==
    /\ part \in {"classify", "record"}
    /\ Init
    /\ IF part = "classify" THEN PacketInit /\ Relevant(options)
       ELSE options = (CHOOSE o \in Configs : TRUE) /\ frame = NoFrame /\ outcome = Drop

MCNext ==
    \/ part = "record" /\ Next /\ UNCHANGED <<part, packetVars>>
    \/ part = "classify" /\ PacketNext /\ UNCHANGED <<part, vars>>

MCSpec == MCInit /\ [][MCNext]_<<part, vars, packetVars>>
=============================================================================
