-------------------------------- MODULE Packet --------------------------------
(***************************************************************************)
(* How a captured frame becomes a flow and a direction: the link-layer     *)
(* handlers of src/src/entry/iftop.c, which guess the direction from the   *)
(* hardware addresses, and the first half of handle_ip_packet(), which     *)
(* settles it, arranges the address pair with the near end as source, or   *)
(* drops the packet.                                                       *)
(*                                                                         *)
(* The options of one run of the program are a record; frames are records  *)
(* of the fields the handlers look at.  Frames that carry no IP packet are *)
(* left out, since the handlers do nothing with them.                      *)
(***************************************************************************)
EXTENDS Integers, FiniteSets

CONSTANTS
    Host,           \* IP addresses, as numbers (s_addr)
    LinkLocal,      \* the IPv6 link-local ones
    Nets,           \* the networks given with -F and -G
    Port,
    Protocols,      \* some of "tcp", "udp", "icmp"
    Mac,            \* hardware addresses
    MyMac,          \* if_hw_addr, when the interface has one
    BroadcastMac,
    ZeroMac,        \* if_hw_addr, when it has none
    NoFrame

Versions == {4, 6}

(* The fields the link-layer handlers look at.  A station does not send to  *)
(* itself (the loopback device, where both addresses are zero, is left out).*)
LinkHeaders ==
    {h \in [link : {"eth", "tokenring"}, shost : Mac \ {BroadcastMac}, dhost : Mac, pkttype : {"none"}] :
        h.shost # h.dhost}
        \cup [link : {"cooked"}, shost : {ZeroMac}, dhost : {ZeroMac},
              pkttype : {"host", "outgoing", "otherhost"}]
        \cup [link : {"raw"}, shost : {ZeroMac}, dhost : {ZeroMac}, pkttype : {"none"}]

IpHeaders ==
    [ver : Versions, src : Host, dst : Host, sport : Port, dport : Port, proto : Protocols]

Frames == [hw : LinkHeaders, ip : IpHeaders]

ASSUME PacketAssumption ==
    /\ Host \subseteq Nat \ {0}
    /\ LinkLocal \subseteq Host
    /\ Nets \subseteq SUBSET Host
    /\ Port \subseteq Nat
    /\ Protocols \subseteq {"tcp", "udp", "icmp"}
    /\ {MyMac, BroadcastMac} \subseteq Mac
    /\ MyMac # BroadcastMac
    /\ ZeroMac \notin Mac
    /\ NoFrame \notin Frames

(* The options and the interface addresses that apply to the family of the  *)
(* packet: netfilter stands for netfilter and netfilter6, net for the       *)
(* addresses that match it, if_ip_addr for if_ip_addr and if_ip6_addr.      *)
Configs ==
    [netfilter : BOOLEAN, net : Nets, have_ip_addr : BOOLEAN, if_ip_addr : Host,
     have_hw_addr : BOOLEAN, promiscuous_but_choosy : BOOLEAN, link_local : BOOLEAN]

VARIABLES
    options,        \* fixed at start
    frame,          \* the last frame, or NoFrame
    outcome         \* what became of it

packetVars == <<options, frame, outcome>>

-----------------------------------------------------------------------------
(* The link-layer handlers: 1 outgoing, 0 incoming, -1 not known. *)

if_hw_addr(o) == IF o.have_hw_addr THEN MyMac ELSE ZeroMac

handle_eth_packet(o, h) ==
    IF o.have_hw_addr /\ h.shost = if_hw_addr(o) THEN 1
    ELSE IF o.have_hw_addr /\ h.dhost = if_hw_addr(o) THEN 0
    ELSE IF h.dhost = BroadcastMac THEN 0
    ELSE -1

handle_tokenring_packet(o, h) ==
    IF h.shost = if_hw_addr(o) THEN 1
    ELSE IF h.dhost \in {if_hw_addr(o), BroadcastMac} THEN 0
    ELSE -1

handle_cooked_packet(h) ==
    CASE h.pkttype = "host" -> 0
      [] h.pkttype = "outgoing" -> 1
      [] OTHER -> -1

(* Raw IP, BSD loopback, PPP, radiotap and pflog frames carry no direction. *)
hw_dir(o, h) ==
    CASE h.link = "eth" -> handle_eth_packet(o, h)
      [] h.link = "tokenring" -> handle_tokenring_packet(o, h)
      [] h.link = "cooked" -> handle_cooked_packet(h)
      [] h.link = "raw" -> -1

-----------------------------------------------------------------------------
(* handle_ip_packet() *)

HasPorts(p) == p.proto \in {"tcp", "udp"}

MutantAssignAddrPair(p, flip) ==
    LET sport == IF HasPorts(p) THEN p.sport ELSE 0
        dport == IF HasPorts(p) THEN p.dport ELSE 0
    IN  IF flip
        THEN [ver |-> p.ver, src |-> p.dst, src_port |-> sport, dst |-> p.src, dst_port |-> dport]
        ELSE [ver |-> p.ver, src |-> p.src, src_port |-> sport, dst |-> p.dst, dst_port |-> dport]

assign_addr_pair(p, flip) ==
    LET sport == IF HasPorts(p) THEN p.sport ELSE 0
        dport == IF HasPorts(p) THEN p.dport ELSE 0
    IN  IF flip
        THEN [ver |-> p.ver, src |-> p.dst, src_port |-> dport, dst |-> p.src, dst_port |-> sport]
        ELSE [ver |-> p.ver, src |-> p.src, src_port |-> sport, dst |-> p.dst, dst_port |-> dport]

(* The pair as memset() leaves it, when no branch assigns it. *)
ZeroPair == [ver |-> 0, src |-> 0, src_port |-> 0, dst |-> 0, dst_port |-> 0]

(* A verdict: what handle_ip_packet() decides before it records anything. *)
Drop == [kept |-> FALSE]

Keep(pair, direction) == [kept |-> TRUE, ap |-> pair, direction |-> direction]

Outgoing(p) == Keep(assign_addr_pair(p, FALSE), 1)

Incoming(p) == Keep(assign_addr_pair(p, TRUE), 0)

(* Neither the hardware nor the IP addresses tell: source and destination   *)
(* by numerical order for IPv4, no pair at all for IPv6.                    *)
BetweenOthers(p) ==
    CASE p.ver = 4 /\ p.src < p.dst -> Keep(assign_addr_pair(p, TRUE), 0)
      [] p.ver = 4 /\ p.src >= p.dst -> Keep(assign_addr_pair(p, FALSE), 0)
      [] p.ver = 6 -> Keep(ZeroPair, 0)

MutantWithoutNetFilter(o, dir, p) ==
    IF dir = 1 THEN Keep(assign_addr_pair(p, TRUE), 1)
    ELSE IF dir = 0 THEN Incoming(p)
    ELSE IF o.have_ip_addr /\ p.src = o.if_ip_addr THEN Outgoing(p)
    ELSE IF o.have_ip_addr /\ p.dst = o.if_ip_addr THEN Incoming(p)
    ELSE IF o.promiscuous_but_choosy THEN Drop
    ELSE BetweenOthers(p)

WithoutNetFilter(o, dir, p) ==
    IF dir = 1 THEN Outgoing(p)
    ELSE IF dir = 0 THEN Incoming(p)
    ELSE IF o.have_ip_addr /\ p.src = o.if_ip_addr THEN Outgoing(p)
    ELSE IF o.have_ip_addr /\ p.dst = o.if_ip_addr THEN Incoming(p)
    ELSE IF o.promiscuous_but_choosy THEN Drop
    ELSE BetweenOthers(p)

WithNetFilter(o, p) ==
    CASE p.src \in o.net /\ p.dst \notin o.net -> Outgoing(p)
      [] p.dst \in o.net /\ p.src \notin o.net -> Incoming(p)
      [] OTHER -> Drop

LinkLocalDropped(o, p) ==
    p.ver = 6 /\ ~ o.link_local /\ (p.src \in LinkLocal \/ p.dst \in LinkLocal)

(* The link-local test comes last, and drops packets already assigned. *)
Verdict(o, dir, p) ==
    IF LinkLocalDropped(o, p) THEN Drop
    ELSE IF o.netfilter THEN WithNetFilter(o, p)
    ELSE WithoutNetFilter(o, dir, p)

(* The side of the flow's record that the bytes go to. *)
Side(p, ap) == IF p.src = ap.src THEN "sent" ELSE "recv"

handle_ip_packet(o, dir, p) ==
    LET v == Verdict(o, dir, p)
    IN  IF ~ v.kept THEN Drop
        ELSE [kept |-> TRUE, ap |-> v.ap, protocol |-> p.proto,
              direction |-> v.direction, side |-> Side(p, v.ap)]

Outcome(o, f) == handle_ip_packet(o, hw_dir(o, f.hw), f.ip)

-----------------------------------------------------------------------------
(* A frame is captured, then perhaps answers, back and forth, until another *)
(* conversation takes their place.                                          *)

PacketInit ==
    /\ options \in Configs
    /\ frame = NoFrame
    /\ outcome = Drop

Receive(f) ==
    /\ frame' = f
    /\ outcome' = Outcome(options, f)
    /\ UNCHANGED options

Answer(f) ==
    [hw |-> [f.hw EXCEPT !.shost = f.hw.dhost, !.dhost = f.hw.shost,
                         !.pkttype = CASE @ = "host" -> "outgoing"
                                       [] @ = "outgoing" -> "host"
                                       [] OTHER -> @],
     ip |-> [f.ip EXCEPT !.src = f.ip.dst, !.dst = f.ip.src,
                         !.sport = f.ip.dport, !.dport = f.ip.sport]]

Silence ==
    /\ frame' = NoFrame
    /\ outcome' = Drop
    /\ UNCHANGED options

PacketNext ==
    \/ frame # NoFrame /\ Silence
    \/ frame = NoFrame /\ \E f \in Frames : Receive(f)
    \/ frame # NoFrame /\ frame.hw.dhost # BroadcastMac /\ Receive(Answer(frame))

PacketSpec == PacketInit /\ [][PacketNext]_packetVars

-----------------------------------------------------------------------------
(* Properties *)

(* No branch assigns the pair: an IPv6 packet between other machines. *)
Unassigned == outcome.kept /\ outcome.ap = ZeroPair

(* A packet the totals count as sent is counted as sent by its flow too:    *)
(* direction is 1 only where the pair is not flipped (iftop.c:318-419), so  *)
(* the comparison of source addresses (iftop.c:485-486) cannot come out the *)
(* other way.  With a net filter the near end of every flow is inside the   *)
(* network and the far end outside; without one, and with the hardware      *)
(* silent, the near end is the interface's own address if that takes part   *)
(* (iftop.c:331-350, 369-419).                                              *)
DirectionIsRight ==
    (frame # NoFrame /\ outcome.kept) =>
        /\ outcome.direction = 1 => outcome.side = "sent"
        /\ options.netfilter => outcome.ap.src \in options.net /\ outcome.ap.dst \notin options.net
        /\ (/\ ~ options.netfilter /\ options.have_ip_addr
            /\ hw_dir(options, frame.hw) = -1
            /\ options.if_ip_addr \in {frame.ip.src, frame.ip.dst})
           => outcome.ap.src = options.if_ip_addr

(* Both directions of a conversation are one flow, whatever the options and *)
(* however the direction was found (iftop.c:241-297, 318-419): the answer   *)
(* to a captured packet is kept if the packet was, under the same pair and  *)
(* on the other side.                                                       *)
ConversationIsOneFlow ==
    [][ (frame # NoFrame /\ frame' # NoFrame /\ frame.ip.src # frame.ip.dst /\ ~ Unassigned) =>
           /\ outcome'.kept = outcome.kept
           /\ outcome.kept => /\ outcome'.ap = outcome.ap
                              /\ outcome'.protocol = outcome.protocol
                              /\ outcome'.side # outcome.side ]_packetVars
=============================================================================
