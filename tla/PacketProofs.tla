----------------------------- MODULE PacketProofs -----------------------------
(* Proofs about Packet for every set of hosts, networks, ports and hardware  *)
(* addresses.                                                                *)
EXTENDS Packet, TLAPS

(* What became of a frame is what its options make of it.                    *)
IInv ==
    /\ options \in Configs
    /\ frame \in Frames \cup {NoFrame}
    /\ frame # NoFrame => outcome = Outcome(options, frame)

-----------------------------------------------------------------------------
(* Frames and their answers *)

(* The header of an answer at the link layer.                                *)
AnswerHw(h) ==
    [h EXCEPT !.shost = h.dhost, !.dhost = h.shost,
              !.pkttype = CASE @ = "host" -> "outgoing"
                            [] @ = "outgoing" -> "host"
                            [] OTHER -> @]

(* The IP header of an answer.                                               *)
AnswerIp(p) == [p EXCEPT !.src = p.dst, !.dst = p.src, !.sport = p.dport, !.dport = p.sport]

(* An answer is a frame, made of its two headers.                            *)
LEMMA AnswerParts ==
    ASSUME NEW f \in Frames
    PROVE  /\ f.hw \in LinkHeaders /\ f.ip \in IpHeaders
           /\ Answer(f) = [hw |-> AnswerHw(f.hw), ip |-> AnswerIp(f.ip)]
  BY DEF Frames, Answer, AnswerHw, AnswerIp

(* The fields of a link-layer header and of its answer.                      *)
LEMMA AnswerHwFields ==
    ASSUME NEW h \in LinkHeaders, h.dhost # BroadcastMac
    PROVE  /\ AnswerHw(h) \in LinkHeaders
           /\ AnswerHw(h).link = h.link
           /\ AnswerHw(h).shost = h.dhost /\ AnswerHw(h).dhost = h.shost
           /\ h.pkttype = "host" => AnswerHw(h).pkttype = "outgoing"
           /\ h.pkttype = "outgoing" => AnswerHw(h).pkttype = "host"
           /\ h.pkttype \notin {"host", "outgoing"} => AnswerHw(h).pkttype = h.pkttype
  <1>1. CASE h.link \in {"eth", "tokenring"}
    BY <1>1, PacketAssumption DEF LinkHeaders, AnswerHw
  <1>2. CASE h.link = "cooked"
    BY <1>2 DEF LinkHeaders, AnswerHw
  <1>3. CASE h.link = "raw"
    BY <1>3 DEF LinkHeaders, AnswerHw
  <1> QED
    BY <1>1, <1>2, <1>3 DEF LinkHeaders

(* The handlers see the answer the other way round.                          *)
LEMMA DirectionTurns ==
    ASSUME NEW o \in Configs, NEW h \in LinkHeaders, h.dhost # BroadcastMac
    PROVE  hw_dir(o, AnswerHw(h)) = IF hw_dir(o, h) = 1 THEN 0
                                    ELSE IF hw_dir(o, h) = 0 THEN 1 ELSE -1
  <1> DEFINE a == AnswerHw(h)
  <1>1. /\ a.link = h.link /\ a.shost = h.dhost /\ a.dhost = h.shost
        /\ h.pkttype = "host" => a.pkttype = "outgoing"
        /\ h.pkttype = "outgoing" => a.pkttype = "host"
        /\ h.pkttype \notin {"host", "outgoing"} => a.pkttype = h.pkttype
    BY AnswerHwFields
  <1> HIDE DEF a
  <1>2. CASE h.link = "eth"
    <2>1. h.shost # h.dhost /\ h.shost # BroadcastMac
      BY <1>2 DEF LinkHeaders
    <2> QED
      BY <1>1, <1>2, <2>1 DEF hw_dir, handle_eth_packet, a
  <1>3. CASE h.link = "tokenring"
    <2>1. h.shost # h.dhost /\ h.shost # BroadcastMac
      BY <1>3 DEF LinkHeaders
    <2> QED
      BY <1>1, <1>3, <2>1 DEF hw_dir, handle_tokenring_packet, a
  <1>4. CASE h.link = "cooked"
    BY <1>1, <1>4 DEF hw_dir, handle_cooked_packet, a
  <1>5. CASE h.link = "raw"
    BY <1>1, <1>5 DEF hw_dir, a
  <1> QED
    BY <1>2, <1>3, <1>4, <1>5 DEF LinkHeaders

-----------------------------------------------------------------------------
(* The IP headers *)

(* The addresses of an answer, and the pair it is filed under: that of the   *)
(* packet, flipped.                                                          *)
LEMMA AnswerIpFields ==
    ASSUME NEW p \in IpHeaders
    PROVE  /\ AnswerIp(p) \in IpHeaders
           /\ AnswerIp(p).ver = p.ver /\ AnswerIp(p).proto = p.proto
           /\ AnswerIp(p).src = p.dst /\ AnswerIp(p).dst = p.src
           /\ assign_addr_pair(AnswerIp(p), TRUE) = assign_addr_pair(p, FALSE)
           /\ assign_addr_pair(AnswerIp(p), FALSE) = assign_addr_pair(p, TRUE)
  BY DEF IpHeaders, AnswerIp, assign_addr_pair, HasPorts

(* The ends of a pair.                                                       *)
LEMMA PairEnds ==
    ASSUME NEW p \in IpHeaders
    PROVE  /\ assign_addr_pair(p, FALSE).src = p.src /\ assign_addr_pair(p, FALSE).dst = p.dst
           /\ assign_addr_pair(p, TRUE).src = p.dst /\ assign_addr_pair(p, TRUE).dst = p.src
  BY DEF assign_addr_pair

(* A packet between other machines.                                          *)
LEMMA BetweenOthersForms ==
    ASSUME NEW p \in IpHeaders
    PROVE  /\ p.src \in Nat /\ p.dst \in Nat /\ p.ver \in {4, 6}
           /\ p.ver = 4 /\ p.src < p.dst => BetweenOthers(p) = Incoming(p)
           /\ p.ver = 4 /\ ~ (p.src < p.dst) => BetweenOthers(p) = Keep(assign_addr_pair(p, FALSE), 0)
           /\ p.ver = 6 => BetweenOthers(p) = Keep(ZeroPair, 0)
  <1>1. p.src \in Nat /\ p.dst \in Nat /\ p.ver \in {4, 6}
    BY PacketAssumption DEF IpHeaders, Versions
  <1>2. ASSUME p.ver = 4, p.src < p.dst
        PROVE  BetweenOthers(p) = Incoming(p)
    <2>1. ~ (p.src >= p.dst) /\ p.ver # 6
      BY <1>1, <1>2
    <2> QED
      BY <1>2, <2>1 DEF BetweenOthers, Incoming
  <1>3. ASSUME p.ver = 4, ~ (p.src < p.dst)
        PROVE  BetweenOthers(p) = Keep(assign_addr_pair(p, FALSE), 0)
    <2>1. p.src >= p.dst /\ p.ver # 6
      BY <1>1, <1>3
    <2> QED
      BY <1>3, <2>1 DEF BetweenOthers
  <1>4. ASSUME p.ver = 6
        PROVE  BetweenOthers(p) = Keep(ZeroPair, 0)
    BY <1>4 DEF BetweenOthers
  <1> QED
    BY <1>1, <1>2, <1>3, <1>4

(* A verdict that keeps a packet has the packet's pair one way or the other, *)
(* unless it has none, and it is outgoing only if the pair is not flipped.   *)
LEMMA VerdictForms ==
    ASSUME NEW o \in Configs, NEW dir \in {-1, 0, 1}, NEW p \in IpHeaders
    PROVE  \/ Verdict(o, dir, p) = Drop
           \/ Verdict(o, dir, p) = Outgoing(p)
           \/ Verdict(o, dir, p) = Incoming(p)
           \/ Verdict(o, dir, p) = Keep(assign_addr_pair(p, FALSE), 0)
           \/ Verdict(o, dir, p) = Keep(ZeroPair, 0)
  <1>1. \/ BetweenOthers(p) = Incoming(p)
        \/ BetweenOthers(p) = Keep(assign_addr_pair(p, FALSE), 0)
        \/ BetweenOthers(p) = Keep(ZeroPair, 0)
    BY BetweenOthersForms
  <1> QED
    BY <1>1 DEF Verdict, WithNetFilter, WithoutNetFilter

(* The answer to a packet is kept if the packet is, under the same pair.     *)
LEMMA VerdictTurns ==
    ASSUME NEW o \in Configs, NEW dir \in {-1, 0, 1}, NEW back, NEW p \in IpHeaders,
           p.src # p.dst,
           back = IF dir = 1 THEN 0 ELSE IF dir = 0 THEN 1 ELSE -1,
           Verdict(o, dir, p) # Keep(ZeroPair, 0)
    PROVE  /\ Verdict(o, back, AnswerIp(p)).kept = Verdict(o, dir, p).kept
           /\ Verdict(o, dir, p).kept =>
                 Verdict(o, back, AnswerIp(p)).ap = Verdict(o, dir, p).ap
  <1> DEFINE q == AnswerIp(p)
             out == assign_addr_pair(p, FALSE)
             in == assign_addr_pair(p, TRUE)
  <1>1. /\ q \in IpHeaders /\ q.ver = p.ver /\ q.src = p.dst /\ q.dst = p.src
        /\ Outgoing(q) = Keep(in, 1) /\ Incoming(q) = Keep(out, 0)
        /\ Outgoing(p) = Keep(out, 1) /\ Incoming(p) = Keep(in, 0)
        /\ assign_addr_pair(q, FALSE) = in
    BY AnswerIpFields DEF Outgoing, Incoming
  <1>2. /\ Drop.kept = FALSE
        /\ Keep(out, 0).kept = TRUE /\ Keep(out, 1).kept = TRUE
        /\ Keep(in, 0).kept = TRUE /\ Keep(in, 1).kept = TRUE
        /\ Keep(out, 0).ap = Keep(out, 1).ap /\ Keep(in, 0).ap = Keep(in, 1).ap
    BY DEF Drop, Keep
  <1> HIDE DEF q, out, in
  <1> SUFFICES /\ Verdict(o, back, q).kept = Verdict(o, dir, p).kept
               /\ Verdict(o, dir, p).kept => Verdict(o, back, q).ap = Verdict(o, dir, p).ap
    BY DEF q
  <1>3. CASE LinkLocalDropped(o, p)
    BY <1>1, <1>3 DEF Verdict, LinkLocalDropped
  <1>4. CASE ~ LinkLocalDropped(o, p) /\ o.netfilter
    <2>1. Verdict(o, dir, p) = WithNetFilter(o, p) /\ Verdict(o, back, q) = WithNetFilter(o, q)
      BY <1>1, <1>4 DEF Verdict, LinkLocalDropped
    <2>2. \/ WithNetFilter(o, p) = Drop /\ WithNetFilter(o, q) = Drop
          \/ WithNetFilter(o, p) = Keep(out, 1) /\ WithNetFilter(o, q) = Keep(out, 0)
          \/ WithNetFilter(o, p) = Keep(in, 0) /\ WithNetFilter(o, q) = Keep(in, 1)
      BY <1>1 DEF WithNetFilter
    <2> QED
      BY <1>2, <2>1, <2>2
  <1>5. CASE ~ LinkLocalDropped(o, p) /\ ~ o.netfilter
    <2>1. /\ Verdict(o, dir, p) = WithoutNetFilter(o, dir, p)
          /\ Verdict(o, back, q) = WithoutNetFilter(o, back, q)
      BY <1>1, <1>5 DEF Verdict, LinkLocalDropped
    <2>2. /\ p.src \in Nat /\ p.dst \in Nat /\ p.ver \in {4, 6}
          /\ p.ver = 6 => BetweenOthers(p) = Keep(ZeroPair, 0)
          /\ p.ver = 4 /\ p.src < p.dst =>
                BetweenOthers(p) = Keep(in, 0) /\ BetweenOthers(q) = Keep(in, 0)
          /\ p.ver = 4 /\ p.dst < p.src =>
                BetweenOthers(p) = Keep(out, 0) /\ BetweenOthers(q) = Keep(out, 0)
      <3>1. p.src \in Nat /\ p.dst \in Nat /\ p.ver \in {4, 6}
        BY BetweenOthersForms
      <3>2. p.src < p.dst => ~ (p.dst < p.src)
        BY <3>1
      <3>3. p.dst < p.src => ~ (p.src < p.dst)
        BY <3>1
      <3> QED
        BY <1>1, <3>1, <3>2, <3>3, BetweenOthersForms DEF out
    <2>3. p.src < p.dst \/ p.dst < p.src
      BY <2>2
    <2>4. CASE dir \in {0, 1} \/ (o.have_ip_addr /\ o.if_ip_addr \in {p.src, p.dst})
      <3>1. \/ /\ WithoutNetFilter(o, dir, p) = Keep(out, 1)
               /\ WithoutNetFilter(o, back, q) = Keep(out, 0)
            \/ /\ WithoutNetFilter(o, dir, p) = Keep(in, 0)
               /\ WithoutNetFilter(o, back, q) = Keep(in, 1)
        <4>1. CASE dir = 1
          BY <1>1, <4>1 DEF WithoutNetFilter
        <4>2. CASE dir = 0
          BY <1>1, <4>2 DEF WithoutNetFilter
        <4>3. CASE dir = -1
          BY <1>1, <2>4, <4>3 DEF WithoutNetFilter
        <4> QED
          BY <4>1, <4>2, <4>3
      <3> QED
        BY <1>2, <2>1, <3>1
    <2>5. CASE dir = -1 /\ ~ (o.have_ip_addr /\ o.if_ip_addr \in {p.src, p.dst})
      <3>1. CASE o.promiscuous_but_choosy
        BY <1>1, <1>2, <2>1, <2>5, <3>1 DEF WithoutNetFilter
      <3>2. CASE ~ o.promiscuous_but_choosy
        <4>1. /\ WithoutNetFilter(o, dir, p) = BetweenOthers(p)
              /\ WithoutNetFilter(o, back, q) = BetweenOthers(q)
          BY <1>1, <2>5, <3>2 DEF WithoutNetFilter
        <4>2. p.ver = 4
          BY <2>1, <2>2, <4>1
        <4> QED
          BY <1>2, <2>1, <2>2, <2>3, <4>1, <4>2
      <3> QED
        BY <3>1, <3>2
    <2> QED
      BY <2>4, <2>5
  <1> QED
    BY <1>3, <1>4, <1>5

-----------------------------------------------------------------------------
(* Outcomes *)

(* The handlers know three directions.                                       *)
LEMMA ThreeDirections ==
    ASSUME NEW o \in Configs, NEW h \in LinkHeaders
    PROVE  hw_dir(o, h) \in {-1, 0, 1}
  <1>1. h.link \in {"eth", "tokenring", "cooked", "raw"}
    BY DEF LinkHeaders
  <1> QED
    BY <1>1 DEF hw_dir, handle_eth_packet, handle_tokenring_packet, handle_cooked_packet

(* What an outcome takes over from the verdict.                              *)
LEMMA OutcomeFields ==
    ASSUME NEW o \in Configs, NEW f \in Frames
    PROVE  LET v == Verdict(o, hw_dir(o, f.hw), f.ip)
           IN  /\ v.kept \in BOOLEAN
               /\ Outcome(o, f).kept = v.kept
               /\ v.kept => /\ Outcome(o, f).ap = v.ap
                            /\ Outcome(o, f).direction = v.direction
                            /\ Outcome(o, f).protocol = f.ip.proto
                            /\ Outcome(o, f).side = Side(f.ip, v.ap)
  <1> DEFINE v == Verdict(o, hw_dir(o, f.hw), f.ip)
  <1>1. v.kept \in BOOLEAN
    <2>1. Drop.kept \in BOOLEAN /\ \A ap, d : Keep(ap, d).kept \in BOOLEAN
      BY DEF Drop, Keep
    <2> QED
      BY <2>1, VerdictForms, ThreeDirections, AnswerParts DEF Outgoing, Incoming
  <1> HIDE DEF v
  <1>2. Outcome(o, f) = IF ~ v.kept THEN Drop
                        ELSE [kept |-> TRUE, ap |-> v.ap, protocol |-> f.ip.proto,
                              direction |-> v.direction, side |-> Side(f.ip, v.ap)]
    BY DEF Outcome, handle_ip_packet, v
  <1>3. CASE v.kept
    BY <1>1, <1>2, <1>3 DEF v
  <1>4. CASE ~ v.kept
    <2>1. v.kept = FALSE /\ Outcome(o, f) = Drop
      BY <1>1, <1>2, <1>4
    <2>2. Drop.kept = FALSE
      BY DEF Drop
    <2> QED
      BY <1>1, <1>4, <2>1, <2>2 DEF v
  <1> QED
    BY <1>3, <1>4

(* An outgoing packet is sent by its flow, and the near end of a flow is     *)
(* inside the network, or the interface's own.                               *)
LEMMA OutcomeDirection ==
    ASSUME NEW o \in Configs, NEW f \in Frames, Outcome(o, f).kept
    PROVE  /\ Outcome(o, f).direction = 1 => Outcome(o, f).side = "sent"
           /\ o.netfilter => Outcome(o, f).ap.src \in o.net /\ Outcome(o, f).ap.dst \notin o.net
           /\ (/\ ~ o.netfilter /\ o.have_ip_addr
               /\ hw_dir(o, f.hw) = -1
               /\ o.if_ip_addr \in {f.ip.src, f.ip.dst})
              => Outcome(o, f).ap.src = o.if_ip_addr
  <1> DEFINE p == f.ip
             dir == hw_dir(o, f.hw)
             v == Verdict(o, dir, p)
             unturned == Keep(assign_addr_pair(p, FALSE), 0)
  <1>1. p \in IpHeaders /\ dir \in {-1, 0, 1}
    BY AnswerParts, ThreeDirections
  <1>2. /\ v.kept /\ Outcome(o, f).ap = v.ap /\ Outcome(o, f).direction = v.direction
        /\ Outcome(o, f).side = Side(p, v.ap)
    BY OutcomeFields
  <1>3. v # Drop
    BY <1>2 DEF Drop
  <1>4. /\ Outgoing(p).ap.src = p.src /\ Outgoing(p).ap.dst = p.dst
        /\ Incoming(p).ap.src = p.dst /\ Incoming(p).ap.dst = p.src
        /\ Incoming(p).direction = 0
    BY <1>1, PairEnds DEF Outgoing, Incoming, Keep
  <1>5. /\ unturned.direction = 0
        /\ Keep(ZeroPair, 0).direction = 0
    BY DEF Keep
  <1> HIDE DEF p, dir, v, unturned
  <1>6. v.direction = 1 => v = Outgoing(p)
    <2>1. \/ v = Outgoing(p) \/ v = Incoming(p)
          \/ v = unturned \/ v = Keep(ZeroPair, 0)
      BY <1>1, <1>3, VerdictForms DEF v, unturned
    <2>2. CASE v = Incoming(p)
      BY <1>4, <2>2
    <2>3. CASE v = unturned
      BY <1>5, <2>3
    <2>4. CASE v = Keep(ZeroPair, 0)
      BY <1>5, <2>4
    <2> QED
      BY <2>1, <2>2, <2>3, <2>4
  <1>7. v.direction = 1 => Side(p, v.ap) = "sent"
    BY <1>4, <1>6 DEF Side
  <1>8. o.netfilter => v.ap.src \in o.net /\ v.ap.dst \notin o.net
    BY <1>3, <1>4 DEF v, Verdict, WithNetFilter
  <1>9. ASSUME ~ o.netfilter, o.have_ip_addr, dir = -1, o.if_ip_addr \in {p.src, p.dst}
        PROVE  v.ap.src = o.if_ip_addr
    <2>1. v = WithoutNetFilter(o, -1, p)
      BY <1>3, <1>9 DEF v, Verdict
    <2>2. v = IF p.src = o.if_ip_addr THEN Outgoing(p) ELSE Incoming(p)
      BY <1>9, <2>1 DEF WithoutNetFilter
    <2> QED
      BY <1>4, <1>9, <2>2
  <1> QED
    BY <1>2, <1>7, <1>8, <1>9 DEF p, dir

(* The answer to a frame is a frame, unless everybody was addressed.         *)
LEMMA AnswerIsFrame ==
    ASSUME NEW f \in Frames, f.hw.dhost # BroadcastMac
    PROVE  /\ Answer(f).hw = AnswerHw(f.hw) /\ Answer(f).ip = AnswerIp(f.ip)
           /\ Answer(f) \in Frames
  <1>1. AnswerHw(f.hw) \in LinkHeaders /\ AnswerIp(f.ip) \in IpHeaders
    BY AnswerParts, AnswerHwFields, AnswerIpFields
  <1>2. Answer(f) = [hw |-> AnswerHw(f.hw), ip |-> AnswerIp(f.ip)]
    BY AnswerParts
  <1> QED
    BY <1>1, <1>2 DEF Frames

(* The answer to a packet joins its flow, on the other side.                 *)
LEMMA AnswerJoins ==
    ASSUME NEW o \in Configs, NEW f \in Frames, f.hw.dhost # BroadcastMac,
           f.ip.src # f.ip.dst,
           ~ (Outcome(o, f).kept /\ Outcome(o, f).ap = ZeroPair)
    PROVE  /\ Answer(f) \in Frames
           /\ Outcome(o, Answer(f)).kept = Outcome(o, f).kept
           /\ Outcome(o, f).kept =>
                 /\ Outcome(o, Answer(f)).ap = Outcome(o, f).ap
                 /\ Outcome(o, Answer(f)).protocol = Outcome(o, f).protocol
                 /\ Outcome(o, Answer(f)).side # Outcome(o, f).side
  <1> DEFINE p == f.ip
             dir == hw_dir(o, f.hw)
             q == AnswerIp(p)
             back == hw_dir(o, AnswerHw(f.hw))
             v == Verdict(o, dir, p)
             w == Verdict(o, back, q)
  <1>1. /\ f.hw \in LinkHeaders /\ p \in IpHeaders /\ dir \in {-1, 0, 1}
        /\ Answer(f).hw = AnswerHw(f.hw) /\ Answer(f).ip = q
        /\ Answer(f) \in Frames
    BY AnswerParts, ThreeDirections, AnswerIsFrame
  <1>2. back = IF dir = 1 THEN 0 ELSE IF dir = 0 THEN 1 ELSE -1
    BY <1>1, DirectionTurns
  <1>3. v # Keep(ZeroPair, 0)
    <2>1. Keep(ZeroPair, 0).kept = TRUE /\ Keep(ZeroPair, 0).ap = ZeroPair
      BY DEF Keep
    <2> QED
      BY <2>1, OutcomeFields
  <1>4. w.kept = v.kept /\ (v.kept => w.ap = v.ap)
    BY <1>1, <1>2, <1>3, VerdictTurns
  <1>5. /\ Outcome(o, f).kept = v.kept
        /\ v.kept => /\ Outcome(o, f).ap = v.ap /\ Outcome(o, f).protocol = p.proto
                     /\ Outcome(o, f).side = Side(p, v.ap)
    BY OutcomeFields
  <1>6. /\ Outcome(o, Answer(f)).kept = w.kept
        /\ w.kept => /\ Outcome(o, Answer(f)).ap = w.ap
                     /\ Outcome(o, Answer(f)).protocol = q.proto
                     /\ Outcome(o, Answer(f)).side = Side(q, w.ap)
    BY <1>1, OutcomeFields
  <1>7. q.proto = p.proto /\ q.src = p.dst
    BY <1>1, AnswerIpFields
  <1>8. v.kept => v.ap.src \in {p.src, p.dst}
    <2>1. \/ v = Drop
          \/ v = Keep(assign_addr_pair(p, FALSE), 1) \/ v = Keep(assign_addr_pair(p, TRUE), 0)
          \/ v = Keep(assign_addr_pair(p, FALSE), 0)
      BY <1>1, <1>3, VerdictForms DEF Outgoing, Incoming
    <2>2. /\ ~ Drop.kept
          /\ Keep(assign_addr_pair(p, FALSE), 1).ap.src = p.src
          /\ Keep(assign_addr_pair(p, TRUE), 0).ap.src = p.dst
          /\ Keep(assign_addr_pair(p, FALSE), 0).ap.src = p.src
      BY <1>1, PairEnds DEF Drop, Keep
    <2> HIDE DEF v, p
    <2> QED
      BY <2>1, <2>2
  <1> HIDE DEF p, dir, q, back, v, w
  <1>9. ASSUME v.kept
        PROVE  Side(q, w.ap) # Side(p, v.ap)
    BY <1>4, <1>7, <1>8, <1>9 DEF Side, p
  <1> QED
    BY <1>1, <1>4, <1>5, <1>6, <1>7, <1>9

-----------------------------------------------------------------------------
(* Frames and outcomes belong together, from the first frame on.             *)
THEOREM InvariantHolds == PacketSpec => []IInv
  <1>1. PacketInit => IInv
    BY DEF PacketInit, IInv
  <1>2. IInv /\ [PacketNext]_packetVars => IInv'
    <2> SUFFICES ASSUME IInv, [PacketNext]_packetVars PROVE IInv'
      OBVIOUS
    <2>1. CASE Silence
      BY <2>1 DEF IInv, Silence
    <2>2. ASSUME NEW f \in Frames, Receive(f)
          PROVE  IInv'
      BY <2>2 DEF IInv, Receive
    <2>3. CASE frame # NoFrame /\ frame.hw.dhost # BroadcastMac /\ Receive(Answer(frame))
      <3>1. frame \in Frames
        BY <2>3 DEF IInv
      <3>2. Answer(frame) \in Frames
        BY <2>3, <3>1, AnswerIsFrame
      <3> QED
        BY <2>2, <2>3, <3>2
    <2>4. CASE UNCHANGED packetVars
      BY <2>4 DEF IInv, packetVars
    <2> QED
      BY <2>1, <2>2, <2>3, <2>4 DEF PacketNext
  <1> QED
    BY <1>1, <1>2, PTL DEF PacketSpec

(* For any hosts, networks and interface addresses: what the totals count as *)
(* sent the flow counts as sent, and the near end of a flow is the source.   *)
THEOREM DirectionCorrect == PacketSpec => []DirectionIsRight
  <1>1. IInv => DirectionIsRight
    BY OutcomeDirection DEF IInv, DirectionIsRight
  <1> QED
    BY <1>1, InvariantHolds, PTL

(* For any hosts, networks and options: a packet and its answer are one flow.*)
THEOREM OneFlow == PacketSpec => ConversationIsOneFlow
  <1> DEFINE Joined ==
        (frame # NoFrame /\ frame' # NoFrame /\ frame.ip.src # frame.ip.dst /\ ~ Unassigned) =>
           /\ outcome'.kept = outcome.kept
           /\ outcome.kept => /\ outcome'.ap = outcome.ap
                              /\ outcome'.protocol = outcome.protocol
                              /\ outcome'.side # outcome.side
  <1>1. IInv /\ [PacketNext]_packetVars => [Joined]_packetVars
    <2> SUFFICES ASSUME IInv, PacketNext, frame # NoFrame, frame' # NoFrame,
                        frame.ip.src # frame.ip.dst, ~ Unassigned
                 PROVE  /\ outcome'.kept = outcome.kept
                        /\ outcome.kept => /\ outcome'.ap = outcome.ap
                                           /\ outcome'.protocol = outcome.protocol
                                           /\ outcome'.side # outcome.side
      OBVIOUS
    <2>1. frame \in Frames /\ options \in Configs /\ outcome = Outcome(options, frame)
      BY DEF IInv
    <2>2. frame.hw.dhost # BroadcastMac /\ outcome' = Outcome(options, Answer(frame))
      BY DEF PacketNext, Silence, Receive
    <2> QED
      BY <2>1, <2>2, AnswerJoins DEF Unassigned
  <1> QED
    BY <1>1, InvariantHolds, PTL DEF PacketSpec, ConversationIsOneFlow
===============================================================================
