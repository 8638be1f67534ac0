--------------------------- MODULE NetLoopProofs ---------------------------
(***************************************************************************)
(* Theorems about the whole program, for every set of frames on the line,  *)
(* every length of the headers and of the buffer, any number of frames     *)
(* waiting and any number of flushes.  IInv is the inductive invariant.    *)
(***************************************************************************)
EXTENDS NetLoop, NatLemmas, TLAPS

Boot == {"timer_set", "eth_init", "net_init", "udp_bind"}

Loop == {"net_periodic", "net_decode", "eth_send", "timer_periodic"}

\* The buffer holds the first bytes of a frame, a byte being its frame's
\* headers and its place.
BufferInv ==
    \E h \in Headers, n \in 0 .. BUFFER - 1 : packet = [k \in 1 .. n |-> <<h, k>>]

\* The loop begins when the host has its addresses and the echo its port.
Ready ==
    /\ pc \in Boot => bound = {}
    /\ pc = "udp_bind" => host = Us
    /\ pc \notin Boot => host = Us /\ bound = {7}

ArpAnswer(h) ==
    [id  |-> [type |-> "arp", opcode |-> "reply", dest |-> h.src, src |-> HostMAC,
              ip_src |-> HostIP, ip_dest |-> h.ip_src],
     len |-> ARP_HEADER]

\* What is to be sent answers the frame in the buffer.
AnswerInv ==
    pc = "eth_send" =>
        /\ Decodable
        /\ \/ /\ Header.type = "arp" /\ Len(packet) >= ARP_HEADER
              /\ answer = ArpAnswer(Header)
           \/ answer = IpDecode(Header, Len(packet)) /\ answer.len # 0

IInv ==
    /\ pc \in Boot \cup Loop
    /\ queue \in Seq(Frames)
    /\ BufferInv
    /\ Ready
    /\ AnswerInv
    /\ PrintedWasReceived
----------------------------------------------------------------------------
LEMMA HeadersAreNaturals ==
    /\ MAC_HEADER \in Nat /\ IP_HEADER \in Nat /\ ARP_HEADER \in Nat /\ UDP_HEADER \in Nat
    /\ TCP_HEADER \in Nat /\ ICMP_HEADER \in Nat /\ BUFFER \in Nat /\ WORD \in Nat
    /\ 0 < MAC_HEADER /\ MAC_HEADER < IP_HEADER
    /\ IP_HEADER < ARP_HEADER /\ IP_HEADER < UDP_HEADER
    /\ UDP_HEADER <= TCP_HEADER /\ TCP_HEADER <= ICMP_HEADER /\ UDP_HEADER < ICMP_HEADER
    /\ ICMP_HEADER < BUFFER /\ BUFFER < WORD
  BY HeaderAssumption DEF HeaderAssumption

\* What the handlers read: a length that is that of the buffer's contents, and,
\* when it is not zero, the headers of a frame.
LEMMA BufferContents ==
    ASSUME BufferInv
    PROVE  /\ Len(packet) \in 0 .. BUFFER - 1
           /\ Len(packet) > 0 => Header \in Headers
  <1>1. PICK h \in Headers, n \in 0 .. BUFFER - 1 : packet = [k \in 1 .. n |-> <<h, k>>]
    BY DEF BufferInv
  <1>2. n \in Nat /\ packet \in Seq({<<h, k>> : k \in 1 .. n})
    BY <1>1, HeadersAreNaturals
  <1>3. Len(packet) = n
    BY <1>1, <1>2
  <1>4. n > 0 => packet[1] = <<h, 1>>
    BY <1>1, <1>2
  <1> QED
    BY <1>1, <1>3, <1>4, HeadersAreNaturals DEF Header

\* Every answer of IP is an echo reply or a datagram from port 7, built from a
\* request of that protocol whose headers were all received.
LEMMA IpAnswers ==
    ASSUME host = Us, bound = {7},
           NEW h \in Headers, NEW length \in Nat,
           NEW a, a = IpDecode(h, length), a.len # 0
    PROVE  /\ h.type = "ip" /\ a.id.type = "ip"
           /\ a.id.src = Us /\ a.id.dest = h.src
           /\ a.id.protocol = h.protocol
           /\ a.id.ip_length = h.ip_length
           /\ \/ /\ h.protocol = "icmp" /\ length >= ICMP_HEADER
                 /\ a.id.icmp = "reply" /\ a.len = ICMP_HEADER
              \/ /\ h.protocol = "udp" /\ length >= UDP_HEADER
                 /\ h.dest_port = 7 /\ a.id.src_port = 7 /\ a.id.dest_port = h.src_port
                 /\ a.id.udp_length = h.udp_length
                 /\ h.udp_length \in 0 .. WORD - 1
                 /\ a.len = (IP_HEADER + h.udp_length) % WORD
  <1>1. length >= IP_HEADER /\ h.type = "ip" /\ h.protocol \in {"icmp", "udp"}
    <2>1. NoAnswer.len = 0
      BY DEF NoAnswer
    <2> QED
      BY <2>1, HeadersAreNaturals DEF IpDecode
  <1>2. CASE h.protocol = "icmp"
    <2>1. IpDecode(h, length) = IcmpDecode(h, length)
      BY <1>1, <1>2, HeadersAreNaturals DEF IpDecode
    <2>2. length >= ICMP_HEADER
      BY <2>1 DEF IcmpDecode, NoAnswer
    <2>3. h \in [type : {"ip"}, protocol : {"icmp"}, src : Neighbours, dest : Addressees,
                 ip_length : Nat, icmp : {"request", "reply", "other"}]
      BY <1>1, <1>2 DEF Headers
    <2> DEFINE b == [Readdressed(h) EXCEPT !.icmp = "reply"]
    <2>4. IpDecode(h, length) = [id |-> b, len |-> ICMP_HEADER]
      BY <2>1 DEF IcmpDecode, NoAnswer
    <2>5. /\ b.type = h.type /\ b.protocol = h.protocol /\ b.ip_length = h.ip_length
          /\ b.dest = h.src /\ b.src = Us /\ b.icmp = "reply"
      BY <2>3 DEF Readdressed, ToSender, FromHost
    <2> HIDE DEF b
    <2>6. a.id = b /\ a.len = ICMP_HEADER
      BY <2>4
    <2> QED
      BY <1>1, <1>2, <2>2, <2>5, <2>6
  <1>3. CASE h.protocol = "udp"
    <2>1. IpDecode(h, length) = UdpDecode(h, length)
      BY <1>1, <1>3, HeadersAreNaturals DEF IpDecode
    <2>2. Dispatched(h, length) /\ UdpDecode(h, length) = EchoUdp(h)
      BY <2>1 DEF UdpDecode, NoAnswer
    <2>3. h \in [type : {"ip"}, protocol : {"udp"}, src : Neighbours, dest : Addressees,
                 ip_length : Nat, src_port : Nat, dest_port : Nat, udp_length : 0 .. WORD - 1,
                 checksum : {"none", "right", "wrong"}]
      BY <1>1, <1>3 DEF Headers
    <2>4. h.dest_port = 7 /\ length >= UDP_HEADER
      BY <2>2 DEF Dispatched
    <2>5. UDP_HEADER + h.udp_length - (UDP_HEADER - IP_HEADER) = IP_HEADER + h.udp_length
      BY <2>3, HeadersAreNaturals
    <2> DEFINE b == Readdressed(SwapPorts(h))
    <2>6. IpDecode(h, length) = [id |-> b, len |-> (IP_HEADER + h.udp_length) % WORD]
      BY <2>1, <2>2, <2>5 DEF EchoUdp
    <2>7. /\ b.type = h.type /\ b.protocol = h.protocol /\ b.ip_length = h.ip_length
          /\ b.dest = h.src /\ b.src = Us /\ b.src_port = 7 /\ b.dest_port = h.src_port
          /\ b.udp_length = h.udp_length
      BY <2>3 DEF Readdressed, ToSender, FromHost, SwapPorts
    <2> HIDE DEF b
    <2>8. a.id = b /\ a.len = (IP_HEADER + h.udp_length) % WORD
      BY <2>6
    <2> QED
      BY <1>1, <1>3, <2>3, <2>4, <2>7, <2>8
  <1> QED
    BY <1>1, <1>2, <1>3

\* A reply of ARP as net_decode leaves it in the buffer.
LEMMA ArpAnswers ==
    ASSUME NEW h, ARP!ArpDecodeRequest(h.ip_src, h.src)
    PROVE  ArpFrame(reply') = ArpAnswer(h)
  <1>1. reply' = [kind |-> "reply", eth_dest |-> h.src, mac_src |-> HostMAC, ip_src |-> HostIP,
                  mac_dest |-> h.src, ip_dest |-> h.ip_src]
    BY DEF ARP!ArpDecodeRequest, ARP!Answer
  <1>2. reply' # ARP!NoFrame
    <2>1. reply'.kind = "reply" /\ ARP!NoFrame.kind = "none"
      BY <1>1 DEF ARP!NoFrame
    <2> QED
      BY <2>1
  <1> QED
    BY <1>1, <1>2 DEF ArpFrame, ArpAnswer

\* What is printed of an answer was received with its request: each of the
\* headers an answer has, its request had too.
LEMMA AnswerHeadersReceived ==
    ASSUME IInv, pc = "eth_send",
           NEW x \in Printed(answer.id, answer.len)
    PROVE  HeaderLength[x] <= Len(packet)
  <1>1. /\ Len(packet) \in Nat /\ Len(packet) >= MAC_HEADER
        /\ Header \in Headers
    BY BufferContents, HeadersAreNaturals DEF IInv, AnswerInv, Decodable
  <1>2. x \in Layers(answer.id)
    BY DEF Printed
  <1>3. CASE Header.type = "arp" /\ Len(packet) >= ARP_HEADER /\ answer = ArpAnswer(Header)
    <2>1. answer.id.type = "arp"
      BY <1>3 DEF ArpAnswer
    <2>2. x \in {"mac", "arp"}
      BY <1>2, <2>1 DEF Layers
    <2> QED
      BY <1>1, <1>3, <2>2 DEF HeaderLength
  <1>4. CASE answer = IpDecode(Header, Len(packet)) /\ answer.len # 0
    <2>1. /\ answer.id.type = "ip"
          /\ \/ answer.id.protocol = "icmp" /\ Len(packet) >= ICMP_HEADER
             \/ answer.id.protocol = "udp" /\ Len(packet) >= UDP_HEADER
      BY <1>1, <1>4, IpAnswers DEF IInv, Ready, Boot
    <2>2. \/ x \in {"mac", "ip", "icmp"} /\ Len(packet) >= ICMP_HEADER
          \/ x \in {"mac", "ip", "udp"} /\ Len(packet) >= UDP_HEADER
      BY <1>2, <2>1 DEF Layers
    <2> QED
      BY <1>1, <2>2, HeadersAreNaturals DEF HeaderLength
  <1> QED
    BY <1>3, <1>4 DEF IInv, AnswerInv
----------------------------------------------------------------------------
LEMMA InitEstablishes == Init => IInv
  <1> SUFFICES ASSUME Init PROVE IInv
    OBVIOUS
  <1>1. pc = "timer_set" /\ queue = << >> /\ packet = << >> /\ printed = {} /\ bound = {}
    BY DEF Init, EthRx!Init
  <1>2. BufferInv
    <2>1. [type |-> "other"] \in Headers
      BY DEF Headers
    <2> DEFINE h == [type |-> "other"]
    <2> HIDE DEF h
    <2>2. packet = [k \in 1 .. 0 |-> <<h, k>>]
      BY <1>1
    <2>3. h \in Headers /\ 0 \in 0 .. BUFFER - 1
      BY <2>1, HeadersAreNaturals DEF h
    <2> QED
      BY <2>2, <2>3 DEF BufferInv
  <1> QED
    BY <1>1, <1>2 DEF IInv, Boot, Ready, AnswerInv, PrintedWasReceived

\* The steps of main before its loop.
LEMMA BootPreserves ==
    IInv /\ (TimerSet \/ EthInit \/ NetInit \/ UdpBind) => IInv'
  <1> SUFFICES ASSUME IInv, TimerSet \/ EthInit \/ NetInit \/ UdpBind
               PROVE  IInv'
    OBVIOUS
  <1>1. UNCHANGED <<queue, packet, printed, answer>>
    BY DEF TimerSet, EthInit, NetInit, UdpBind
  <1>2. pc' \in {"eth_init", "net_init", "udp_bind", "net_periodic"}
    BY DEF TimerSet, EthInit, NetInit, UdpBind, ToNetInit
  <1>3. Ready'
    BY DEF IInv, Ready, Boot, TimerSet, EthInit, NetInit, UdpBind, ToNetInit, Us
  <1> QED
    BY <1>1, <1>2, <1>3
    DEF IInv, Boot, Loop, BufferInv, AnswerInv, PrintedWasReceived

\* A frame is read into the buffer, and its headers are printed.
LEMMA ReceivePacketPreserves == IInv /\ ReceivePacket => IInv'
  <1> SUFFICES ASSUME IInv, ReceivePacket PROVE IInv'
    OBVIOUS
  <1>1. queue # << >> /\ queue' = Tail(queue) /\ packet' = EthRx!DataOf(Head(queue))
    BY DEF ReceivePacket, EthRx!HandOver
  <1>2. queue' \in Seq(Frames) /\ Head(queue) \in Frames
    BY <1>1 DEF IInv
  <1>3. Head(queue) \in [id : Headers, len : Nat, ok : BOOLEAN]
    BY <1>2, FrameAssumption
  <1>4. BufferInv'
    <2> DEFINE f == Head(queue)
               n == IF f.ok THEN EthRx!Shorter(f.len, BUFFER - 1) ELSE 0
    <2>1. n \in 0 .. BUFFER - 1
      BY <1>3, HeadersAreNaturals DEF EthRx!Shorter
    <2>2. packet' = [k \in 1 .. n |-> <<f.id, k>>]
      <3>1. CASE f.ok
        BY <1>1, <3>1 DEF EthRx!DataOf
      <3>2. CASE ~ f.ok
        <4>1. packet' = << >> /\ n = 0
          BY <1>1, <3>2 DEF EthRx!DataOf
        <4> QED
          BY <4>1
      <3> QED
        BY <3>1, <3>2
    <2>3. f.id \in Headers
      BY <1>3
    <2> QED
      BY <2>1, <2>2, <2>3 DEF BufferInv
  <1>5. PrintedWasReceived'
    BY DEF ReceivePacket, Printed, PrintedWasReceived
  <1>6. pc = "net_periodic" /\ pc' = "net_decode" /\ UNCHANGED <<host, bound>>
    BY DEF ReceivePacket
  <1> QED
    BY <1>2, <1>4, <1>5, <1>6 DEF IInv, Boot, Loop, Ready, AnswerInv

LEMMA DecodeIpPreserves == IInv /\ DecodeIp => IInv'
  <1> SUFFICES ASSUME IInv, DecodeIp PROVE IInv'
    OBVIOUS
  <1>1. /\ pc = "net_decode" /\ pc' = ToSend(answer')
        /\ UNCHANGED <<queue, packet, printed, host, bound>>
        /\ answer' = IF Decodable THEN IpDecode(Header, Len(packet)) ELSE NoAnswer
    BY DEF DecodeIp
  <1>2. AnswerInv'
    <2> SUFFICES ASSUME pc' = "eth_send" PROVE AnswerInv'
      BY DEF AnswerInv
    <2>1. answer'.len # 0
      BY <1>1 DEF ToSend
    <2>2. Decodable /\ answer' = IpDecode(Header, Len(packet))
      BY <1>1, <2>1 DEF NoAnswer
    <2>3. Header' = Header /\ Decodable' /\ host' = host /\ bound' = bound /\ Len(packet)' = Len(packet)
      BY <1>1, <2>2 DEF Header, Decodable
    <2>4. IpDecode(Header, Len(packet))' = IpDecode(Header, Len(packet))
      BY <2>3 DEF IpDecode, IcmpDecode, UdpDecode, Dispatched, EchoUdp, Readdressed, FromHost,
                  ToSender, SwapPorts, NoAnswer
    <2> QED
      BY <2>1, <2>2, <2>3, <2>4 DEF AnswerInv
  <1>3. pc' \in {"net_periodic", "eth_send"}
    BY <1>1 DEF ToSend
  <1> QED
    BY <1>1, <1>2, <1>3 DEF IInv, Boot, Loop, Ready, BufferInv, PrintedWasReceived

LEMMA DecodeArpPreserves == IInv /\ DecodeArp => IInv'
  <1> SUFFICES ASSUME IInv, DecodeArp PROVE IInv'
    OBVIOUS
  <1>1. /\ pc = "net_decode" /\ Decodable /\ Header.type = "arp"
        /\ answer' = ArpFrame(reply') /\ pc' = ToSend(answer')
        /\ UNCHANGED <<queue, packet, printed, host, bound>>
    BY DEF DecodeArp
  <1>2. AnswerInv'
    <2> SUFFICES ASSUME pc' = "eth_send" PROVE AnswerInv'
      BY DEF AnswerInv
    <2>1. answer'.len # 0
      BY <1>1 DEF ToSend
    <2>2. reply' # ARP!NoFrame
      BY <1>1, <2>1 DEF ArpFrame, NoAnswer
    <2>3. ForUs(Header) /\ ARP!ArpDecodeRequest(Header.ip_src, Header.src)
      BY <2>2 DEF DecodeArp, ARP!ArpDecodeReply, ARP!ArpDecodeIgnored
    <2>4. Len(packet) >= ARP_HEADER /\ answer' = ArpAnswer(Header)
      BY <1>1, <2>3, ArpAnswers DEF ForUs
    <2>5. Header' = Header /\ Decodable' /\ Len(packet)' = Len(packet)
      BY <1>1 DEF Header, Decodable
    <2> QED
      BY <1>1, <2>4, <2>5 DEF AnswerInv, ArpAnswer
  <1>3. pc' \in {"net_periodic", "eth_send"}
    BY <1>1 DEF ToSend
  <1> QED
    BY <1>1, <1>2, <1>3 DEF IInv, Boot, Loop, Ready, BufferInv, PrintedWasReceived

LEMMA SendPacketPreserves == IInv /\ SendPacket => IInv'
  <1> SUFFICES ASSUME IInv, SendPacket PROVE IInv'
    OBVIOUS
  <1>1. /\ pc = "eth_send" /\ pc' = "net_periodic"
        /\ printed' = Printed(answer.id, answer.len)
        /\ UNCHANGED <<queue, packet, host, bound>>
    BY DEF SendPacket
  <1>2. PrintedWasReceived'
    BY <1>1, AnswerHeadersReceived DEF PrintedWasReceived, HeaderLength
  <1> QED
    BY <1>1, <1>2 DEF IInv, Boot, Loop, Ready, BufferInv, AnswerInv

\* The steps that leave the buffer, the host and what is printed alone: the
\* end of net_periodic, the timers, a frame that arrives and a stutter.
LEMMA OtherStepsPreserve ==
    ASSUME IInv,
           UNCHANGED <<packet, printed, host, bound>>,
           \/ NetDone
           \/ TimerPeriodic
           \/ \E frame \in Frames : Receive(frame)
           \/ \E callback \in Timers : Expire(callback)
           \/ UNCHANGED vars
    PROVE  IInv'
  <1>1. queue' \in Seq(Frames)
    BY DEF IInv, NetDone, TimerPeriodic, Receive, EthRx!Receive, Expire, vars
  <1>2. \/ pc \notin Boot /\ pc' \in {"net_periodic", "timer_periodic"}
        \/ UNCHANGED <<pc, answer>>
    BY DEF NetDone, TimerPeriodic, Receive, Expire, vars, Boot
  <1>3. AnswerInv'
    <2> SUFFICES ASSUME pc' = "eth_send" PROVE AnswerInv'
      BY DEF AnswerInv
    <2>1. UNCHANGED <<pc, answer, packet, host, bound>>
      BY <1>2
    <2> QED
      BY <2>1 DEF IInv, AnswerInv, Decodable, Header, ArpAnswer, IpDecode, IcmpDecode, UdpDecode,
                  Dispatched, EchoUdp, Readdressed, FromHost, ToSender, SwapPorts, NoAnswer
  <1> QED
    BY <1>1, <1>2, <1>3 DEF IInv, Boot, Loop, Ready, BufferInv, PrintedWasReceived, HeaderLength

LEMMA StepPreserves == IInv /\ [Next]_vars => IInv'
  <1> SUFFICES ASSUME IInv, [Next]_vars PROVE IInv'
    OBVIOUS
  <1>1. CASE TimerSet \/ EthInit \/ NetInit \/ UdpBind
    BY <1>1, BootPreserves
  <1>2. CASE ReceivePacket
    BY <1>2, ReceivePacketPreserves
  <1>3. CASE DecodeIp
    BY <1>3, DecodeIpPreserves
  <1>4. CASE DecodeArp
    BY <1>4, DecodeArpPreserves
  <1>5. CASE SendPacket
    BY <1>5, SendPacketPreserves
  <1>6. CASE \/ NetDone
             \/ TimerPeriodic
             \/ \E frame \in Frames : Receive(frame)
             \/ \E callback \in Timers : Expire(callback)
             \/ UNCHANGED vars
    <2>1. UNCHANGED <<packet, printed, host, bound>>
      BY <1>6 DEF NetDone, TimerPeriodic, Receive, EthRx!Receive, Expire, vars
    <2> QED
      BY <1>6, <2>1, OtherStepsPreserve
  <1> QED
    BY <1>1, <1>2, <1>3, <1>4, <1>5, <1>6 DEF Next, Program

\* The inductive invariant holds in every state.
THEOREM Invariance == Spec => []IInv
  BY InitEstablishes, StepPreserves, PTL DEF Spec
----------------------------------------------------------------------------
\* What is to be sent is an ARP reply to the request in the buffer, or an echo
\* of the ICMP or UDP packet in it.
LEMMA AnswerKinds ==
    ASSUME IInv, Sending
    PROVE  /\ Len(packet) \in 0 .. BUFFER - 1
           /\ \/ /\ Header.type = "arp" /\ Len(packet) >= ARP_HEADER
                 /\ answer = ArpAnswer(Header)
              \/ /\ host = Us /\ bound = {7}
                 /\ Header \in Headers
                 /\ answer = IpDecode(Header, Len(packet)) /\ answer.len # 0
  <1>1. /\ Len(packet) \in 0 .. BUFFER - 1
        /\ Len(packet) > 0 => Header \in Headers
    BY BufferContents DEF IInv
  <1>2. Decodable /\ host = Us /\ bound = {7}
    BY DEF IInv, AnswerInv, Ready, Boot, Sending
  <1>3. Header \in Headers
    BY <1>1, <1>2, HeadersAreNaturals DEF Decodable
  <1> QED
    BY <1>1, <1>2, <1>3 DEF IInv, AnswerInv, Sending

\* Every answer goes to who asked, from the addresses and ports it was sent to,
\* though frames arrive before the host has its addresses.
THEOREM RequestersAnswered == Spec => []AnswersRequester
  <1>1. IInv => AnswersRequester
    <2> SUFFICES ASSUME IInv, Sending PROVE AnswersRequester
      BY DEF AnswersRequester
    <2>1. CASE Header.type = "arp" /\ answer = ArpAnswer(Header)
      <3>1. /\ answer.id.type = "arp" /\ answer.id.dest = Header.src
            /\ answer.id.ip_dest = Header.ip_src
            /\ answer.id.src = HostMAC /\ answer.id.ip_src = HostIP
        BY <2>1 DEF ArpAnswer
      <3> QED
        BY <2>1, <3>1 DEF AnswersRequester, Target, Requester, Author
    <2>2. CASE /\ host = Us /\ bound = {7} /\ Header \in Headers
               /\ answer = IpDecode(Header, Len(packet)) /\ answer.len # 0
      <3>0. Len(packet) \in Nat
        BY AnswerKinds, HeadersAreNaturals
      <3>1. /\ Header.type = "ip" /\ answer.id.type = "ip"
            /\ answer.id.src = Us /\ answer.id.dest = Header.src
            /\ answer.id.protocol = "udp" =>
                  /\ Header.dest_port = 7 /\ answer.id.src_port = 7
                  /\ answer.id.dest_port = Header.src_port
        BY <2>2, <3>0, IpAnswers
      <3> QED
        BY <3>1 DEF AnswersRequester, Target, Requester, Author, Us
    <2> QED
      BY <2>1, <2>2, AnswerKinds
  <1> QED
    BY <1>1, Invariance, PTL

\* An answer to a whole request is whole, and no longer than the request: the
\* 16-bit sum of lengths wraps for no request that fits the buffer.
THEOREM AnswersAreWhole == Spec => []AnswersWhole
  <1>1. IInv => AnswersWhole
    <2> SUFFICES ASSUME IInv, Sending, Whole(Header, Len(packet)),
                        Header.type = "ip" /\ Header.protocol = "icmp" =>
                            Header.ip_length + MAC_HEADER <= ICMP_HEADER
                 PROVE  Whole(answer.id, answer.len) /\ answer.len <= Len(packet)
      BY DEF AnswersWhole
    <2>0. Len(packet) \in 0 .. BUFFER - 1
      BY AnswerKinds
    <2>1. CASE /\ Header.type = "arp" /\ Len(packet) >= ARP_HEADER
               /\ answer = ArpAnswer(Header)
      <3>1. answer.id.type = "arp" /\ answer.len = ARP_HEADER
        BY <2>1 DEF ArpAnswer
      <3> QED
        BY <2>0, <2>1, <3>1, HeadersAreNaturals DEF Whole
    <2>2. CASE /\ host = Us /\ bound = {7} /\ Header \in Headers
               /\ answer = IpDecode(Header, Len(packet)) /\ answer.len # 0
      <3>1. /\ Header.type = "ip" /\ answer.id.type = "ip"
            /\ answer.id.protocol = Header.protocol
            /\ answer.id.ip_length = Header.ip_length
            /\ \/ /\ Header.protocol = "icmp" /\ Len(packet) >= ICMP_HEADER
                  /\ answer.len = ICMP_HEADER
               \/ /\ Header.protocol = "udp"
                  /\ answer.id.udp_length = Header.udp_length
                  /\ Header.udp_length \in 0 .. WORD - 1
                  /\ answer.len = (IP_HEADER + Header.udp_length) % WORD
        BY <2>0, <2>2, IpAnswers, HeadersAreNaturals
      <3>2. Header.ip_length \in Nat
        BY <2>2, <3>1 DEF Headers
      <3>3. CASE Header.protocol = "icmp"
        BY <2>0, <3>1, <3>2, <3>3, HeadersAreNaturals DEF Whole
      <3>4. CASE Header.protocol = "udp"
        <4>1. /\ IP_HEADER + Header.udp_length = Header.ip_length + MAC_HEADER
              /\ Header.ip_length + MAC_HEADER <= Len(packet)
          BY <2>0, <3>1, <3>2, <3>4, HeadersAreNaturals DEF Whole
        <4>2. answer.len = Header.ip_length + MAC_HEADER
          <5> DEFINE n == Header.ip_length + MAC_HEADER
          <5>1. n \in 0 .. WORD - 1 /\ WORD \in Nat \ {0}
            BY <2>0, <3>2, <4>1, HeadersAreNaturals
          <5>2. answer.len = n % WORD
            BY <3>1, <3>4, <4>1
          <5> HIDE DEF n
          <5>3. answer.len = n
            BY <5>1, <5>2, ModSmall
          <5> QED
            BY <5>3 DEF n
        <4> QED
          BY <2>0, <3>1, <3>2, <3>4, <4>1, <4>2, HeadersAreNaturals DEF Whole
      <3> QED
        BY <3>1, <3>3, <3>4
    <2> QED
      BY <2>1, <2>2, AnswerKinds
  <1> QED
    BY <1>1, Invariance, PTL

\* No answer makes a host of this kind answer, except a datagram that somebody
\* sent from its port 7.
THEOREM AnswersEndThere == Spec => []AnswersEnd
  <1>1. IInv => AnswersEnd
    <2> SUFFICES ASSUME IInv, Sending PROVE AnswersEnd
      BY DEF AnswersEnd
    <2>1. CASE answer = ArpAnswer(Header)
      <3>1. answer.id.type = "arp" /\ answer.id.opcode = "reply"
        BY <2>1 DEF ArpAnswer
      <3> QED
        BY <3>1 DEF AnswersEnd
    <2>2. CASE /\ host = Us /\ bound = {7} /\ Header \in Headers
               /\ answer = IpDecode(Header, Len(packet)) /\ answer.len # 0
      <3>0. Len(packet) \in Nat
        BY AnswerKinds, HeadersAreNaturals
      <3>1. \/ answer.id.protocol = "icmp" /\ answer.id.icmp = "reply"
            \/ answer.id.protocol = "udp" /\ answer.id.dest_port = Header.src_port
        BY <2>2, <3>0, IpAnswers
      <3>2. NoAnswer.len = 0
        BY DEF NoAnswer
      <3>3. CASE answer.id.protocol = "icmp" /\ answer.id.icmp = "reply"
        BY <3>2, <3>3 DEF AnswersEnd, IpDecode, IcmpDecode
      <3>4. CASE answer.id.protocol = "udp" /\ answer.id.dest_port = Header.src_port
        BY <2>2, <3>2, <3>4 DEF AnswersEnd, IpDecode, UdpDecode, Dispatched
      <3> QED
        BY <3>1, <3>3, <3>4
    <2> QED
      BY <2>1, <2>2, AnswerKinds
  <1> QED
    BY <1>1, Invariance, PTL

\* Nothing is printed that was not received with the frame in the buffer.
THEOREM ReceivedIsPrinted == Spec => []PrintedWasReceived
  <1>1. IInv => PrintedWasReceived
    BY DEF IInv
  <1> QED
    BY <1>1, Invariance, PTL
----------------------------------------------------------------------------
\* The headers of an ARP frame in the buffer name a neighbour.
LEMMA ArpSenders ==
    ASSUME BufferInv, Decodable, Header.type = "arp"
    PROVE  Header.ip_src \in NeighbourIPs /\ Header.src \in NeighbourMACs
  <1>1. Header \in Headers
    BY BufferContents, HeadersAreNaturals DEF Decodable
  <1> QED
    BY <1>1 DEF Headers

LEMMA ArpStepsImplement == IInv /\ [Next]_vars => [ARP!Next]_(ARP!vars)
  <1> SUFFICES ASSUME IInv, [Next]_vars, ~ UNCHANGED ARP!vars PROVE ARP!Next
    OBVIOUS
  <1>1. ~ UNCHANGED arp
    BY DEF arp, ARP!vars
  <1>2. DecodeArp \/ TimerPeriodic
    BY <1>1 DEF Next, Program, TimerSet, EthInit, NetInit, UdpBind, ReceivePacket, NetDone,
                DecodeIp, SendPacket, Receive, Expire, vars
  <1>3. CASE DecodeArp
    <2>1. Header.ip_src \in NeighbourIPs /\ Header.src \in NeighbourMACs
      BY <1>3, ArpSenders DEF DecodeArp, IInv
    <2>2. \/ ARP!ArpDecodeRequest(Header.ip_src, Header.src)
          \/ ARP!ArpDecodeReply(Header.ip_src, Header.src)
          \/ ARP!ArpDecodeIgnored
      BY <1>3 DEF DecodeArp
    <2>3. ARP!ArpDecode
      BY <2>1, <2>2 DEF ARP!ArpDecode
    <2> QED
      BY <2>3 DEF ARP!Next
  <1>4. CASE TimerPeriodic
    BY <1>1, <1>4 DEF TimerPeriodic, ARP!Next
  <1> QED
    BY <1>2, <1>3, <1>4

\* The program drives the ARP component only in the ways Arp describes: with
\* the two addresses of a neighbour's frame that was received whole, and with
\* a flush when its timer is due.
THEOREM ArpImplemented == Spec => ARP!Spec
  <1>1. Init => ARP!Init
    BY DEF Init
  <1> QED
    BY <1>1, Invariance, ArpStepsImplement, PTL DEF Spec, ARP!Spec
----------------------------------------------------------------------------
\* The theorems about Arp, for the addresses and the sizes of the program.
Laws == INSTANCE ArpProofs WITH
    IPs <- (NeighbourIPs \ {ZeroIP}) \cup {HostIP, RouterIP, BroadcastIP}, EMPTY <- ZeroIP,
    HOST_IP <- HostIP, ROUTER_IP <- RouterIP, BROADCAST_IP <- BroadcastIP,
    LocalIPs <- {HostIP, RouterIP},
    MACs <- NeighbourMACs \cup {HostMAC, BroadcastMAC, ZeroMAC}, HOST_MAC <- HostMAC,
    BROADCAST_MAC <- BroadcastMAC, ZERO_MAC <- ZeroMAC, NoMac <- NoMAC,
    SenderIPs <- NeighbourIPs, SenderMACs <- NeighbourMACs

LEMMA LawsApply == Laws!AddressAssumption /\ Laws!SizeAssumption
  BY ArpAssumption DEF ArpAssumption, Laws!AddressAssumption, Laws!SizeAssumption

\* ARP and Laws are instances of the same definitions.
LEMMA LawsOfArp == ARP!Spec => Laws!Spec
  <1>1. ARP!Init => Laws!Init
    BY DEF ARP!Init, ARP!Index, ARP!NoFrame, Laws!Init, Laws!Index, Laws!NoFrame
  <1>2. ASSUME NEW ip, NEW mac PROVE ARP!Register(ip, mac) = Laws!Register(ip, mac)
    <2>1. ARP!EntryFor(arp_table, arp_time, ip) = Laws!EntryFor(arp_table, arp_time, ip)
      BY Zenon DEF ARP!EntryFor, ARP!Matches, ARP!FreeEntries, ARP!Victim, ARP!Unused, ARP!Age,
                   ARP!Index, ARP!Min, Laws!EntryFor, Laws!Matches, Laws!FreeEntries,
                   Laws!Victim, Laws!Unused, Laws!Age, Laws!Index, Laws!Min
    <2> QED
      BY <2>1 DEF ARP!Register, ARP!ArpUpdate, Laws!Register, Laws!ArpUpdate
  <1>3. ARP!ArpDecode => Laws!ArpDecode
    BY <1>2 DEF ARP!ArpDecode, ARP!ArpDecodeRequest, ARP!ArpDecodeReply, ARP!ArpDecodeIgnored,
                ARP!Answer, ARP!NoFrame, Laws!ArpDecode, Laws!ArpDecodeRequest,
                Laws!ArpDecodeReply, Laws!ArpDecodeIgnored, Laws!Answer, Laws!NoFrame
  <1>4. ARP!ArpFlush => Laws!ArpFlush
    BY DEF ARP!ArpFlush, ARP!Tick8, ARP!Expired, ARP!Unused, ARP!Age, ARP!Index, ARP!NoFrame,
           Laws!ArpFlush, Laws!Tick8, Laws!Expired, Laws!Unused, Laws!Age, Laws!Index, Laws!NoFrame
  <1>5. ASSUME NEW dest PROVE ARP!ArpEncode(dest) => Laws!ArpEncode(dest)
    BY DEF ARP!ArpEncode, ARP!Resolve, ARP!Lookup, ARP!NextHop, ARP!ArpRequestFor, ARP!Index,
           ARP!Min, Laws!ArpEncode, Laws!Resolve, Laws!Lookup, Laws!NextHop,
           Laws!ArpRequestFor, Laws!Index, Laws!Min
  <1>6. [ARP!Next]_(ARP!vars) => [Laws!Next]_(Laws!vars)
    BY <1>3, <1>4, <1>5 DEF ARP!Next, ARP!vars, Laws!Next, Laws!vars
  <1> QED
    BY <1>1, <1>6, PTL DEF ARP!Spec, Laws!Spec

\* In the whole program too, no neighbour has two entries, each entry in use
\* holds what its neighbour announced last, an ARP reply goes to a neighbour
\* that is registered, entries with a deadline before the wrap of arp_time go
\* in time, none goes early, and the oldest of a full table is given up.
THEOREM ArpLawsHold ==
    Spec => /\ [](/\ Laws!UniqueNeighbour /\ Laws!FreshestMapping
                  /\ Laws!RequesterRegistered /\ Laws!TimelyExpiry)
            /\ Laws!NoEarlyExpiry /\ Laws!EvictsOldest
  <1>1. Spec => Laws!Spec
    BY ArpImplemented, LawsOfArp
  <1>2. Laws!Spec => []Laws!UniqueNeighbour
    BY LawsApply, Laws!NeighboursUnique
  <1>3. Laws!Spec => []Laws!FreshestMapping
    BY LawsApply, Laws!MappingsFresh
  <1>4. Laws!Spec => []Laws!RequesterRegistered
    BY LawsApply, Laws!RequestersRegistered
  <1>5. Laws!Spec => []Laws!TimelyExpiry
    BY LawsApply, Laws!ExpiryTimely
  <1>6. Laws!Spec => Laws!NoEarlyExpiry
    BY LawsApply, Laws!ExpiryNotEarly
  <1>7. Laws!Spec => Laws!EvictsOldest
    BY LawsApply, Laws!EvictionOfOldest
  <1> QED
    BY <1>1, <1>2, <1>3, <1>4, <1>5, <1>6, <1>7, PTL
=============================================================================
