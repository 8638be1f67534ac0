------------------------------ MODULE NetLoop ------------------------------
(***************************************************************************)
(* The program: main initialises the components and then, for ever, lets   *)
(* net_periodic handle all received frames and timer_periodic run the      *)
(* timers that are due.  The frames come from a controller that keeps the  *)
(* promise of FrameQueue, ARP frames are handled by the component of Arp,  *)
(* and ICMP and UDP frames here.                                           *)
(*                                                                         *)
(* A frame is [id, len, ok], id being its headers and len its bytes; ok is *)
(* the receive status.  The lengths of the headers are parameters, since   *)
(* only their order counts.  The UDP port table has a module of its own:   *)
(* here every port but 7 is unbound.  TCP answers nothing.                 *)
(***************************************************************************)
EXTENDS Integers, Sequences

CONSTANTS MAC_HEADER, IP_HEADER, ARP_HEADER, UDP_HEADER, TCP_HEADER, ICMP_HEADER,
          BUFFER,            \* sizeof(net_packet_buffer)
          WORD,              \* values of uint16_t
          Frames,            \* frames on the line
          HostMAC, HostIP,   \* mac_address and ip_address of main.c
          RouterIP,          \* default_router of main.c
          BroadcastMAC, BroadcastIP,
          ZeroMAC, ZeroIP,   \* what .bss memory holds
          NoMAC,             \* history of Arp: nothing announced
          Neighbours,        \* addresses of other hosts: [mac, ip]
          ARP_TABLE_SIZE, ARP_ENTRY_MAX_AGE,
          TIME_MOD,          \* values of arp_time
          Timers,            \* timer callbacks: "arp_flush", "display_status"
          MaxQueue,          \* bound: frames waiting in the controller
          MaxUptime          \* bound: flushes of the ARP table

ASSUME HeaderAssumption ==
    /\ {MAC_HEADER, IP_HEADER, ARP_HEADER, UDP_HEADER, TCP_HEADER, ICMP_HEADER,
        BUFFER, WORD} \subseteq Nat
    /\ 0 < MAC_HEADER /\ MAC_HEADER < IP_HEADER
    /\ IP_HEADER < ARP_HEADER /\ IP_HEADER < UDP_HEADER
    /\ UDP_HEADER <= TCP_HEADER /\ TCP_HEADER <= ICMP_HEADER /\ UDP_HEADER < ICMP_HEADER
    /\ ICMP_HEADER < BUFFER /\ BUFFER < WORD

VARIABLES pc,
          queue, packet,     \* of FrameQueue; packet is net_packet_buffer
          answer,            \* the answer to be sent, of length 0 if there is none
          printed,           \* the headers that net_debug printed last
          host,              \* mac_host_addr and ip_host_addr
          bound,             \* UDP ports with a callback
          started, due,      \* timers that run, and those that have expired
          arp_table, arp_time, reply, uptime, stamp, announced

arp == <<arp_table, arp_time, reply, uptime, stamp, announced>>

Us == [mac |-> HostMAC, ip |-> HostIP]

NeighbourIPs == {n.ip : n \in Neighbours}
NeighbourMACs == {n.mac : n \in Neighbours}

Addressees == Neighbours \cup {Us, [mac |-> BroadcastMAC, ip |-> BroadcastIP]}

\* The headers of a frame, by the fields that net_decode and its callees look at.
Headers ==
    [type : {"arp"}, opcode : {"request", "reply", "other"}, src : NeighbourMACs,
     ip_src : NeighbourIPs, ip_dest : NeighbourIPs \cup {HostIP, RouterIP, BroadcastIP, ZeroIP}]
      \cup [type : {"ip"}, protocol : {"icmp"}, src : Neighbours, dest : Addressees,
            ip_length : Nat, icmp : {"request", "reply", "other"}]
      \cup [type : {"ip"}, protocol : {"udp"}, src : Neighbours, dest : Addressees,
            ip_length : Nat, src_port : Nat, dest_port : Nat, udp_length : 0 .. WORD - 1,
            checksum : {"none", "right", "wrong"}]
      \cup [type : {"ip"}, protocol : {"tcp", "other"}, src : Neighbours, dest : Addressees,
            ip_length : Nat]
      \cup [type : {"other"}]

\* The length of a frame, and whether it was received well, is the controller's
\* to say, not the headers'.
ASSUME FrameAssumption == Frames \subseteq [id : Headers, len : Nat, ok : BOOLEAN]

\* What Arp asks of the addresses main.c gives, and of the table's sizes.
ASSUME ArpAssumption ==
    /\ ZeroIP \notin {HostIP, RouterIP, BroadcastIP} /\ RouterIP # BroadcastIP
    /\ NoMAC \notin NeighbourMACs \cup {HostMAC, BroadcastMAC, ZeroMAC}
    /\ {ARP_TABLE_SIZE, ARP_ENTRY_MAX_AGE} \subseteq Nat \ {0}
    /\ TIME_MOD \in Nat /\ ARP_ENTRY_MAX_AGE < TIME_MOD
    /\ MaxUptime \in Nat

vars == <<pc, queue, packet, answer, printed, host, bound, started, due, arp>>
----------------------------------------------------------------------------
EthRx == INSTANCE FrameQueue WITH MaxData <- BUFFER - 1

ARP == INSTANCE Arp WITH
    IPs <- (NeighbourIPs \ {ZeroIP}) \cup {HostIP, RouterIP, BroadcastIP}, EMPTY <- ZeroIP,
    HOST_IP <- HostIP, ROUTER_IP <- RouterIP, BROADCAST_IP <- BroadcastIP,
    LocalIPs <- {HostIP, RouterIP},
    MACs <- NeighbourMACs \cup {HostMAC, BroadcastMAC, ZeroMAC}, HOST_MAC <- HostMAC,
    BROADCAST_MAC <- BroadcastMAC, ZERO_MAC <- ZeroMAC, NoMac <- NoMAC,
    SenderIPs <- NeighbourIPs, SenderMACs <- NeighbourMACs

NoAnswer == [id |-> << >>, len |-> 0]

Init ==
    /\ pc = "timer_set"
    /\ EthRx!Init
    /\ answer = NoAnswer /\ printed = {}
    /\ host = [mac |-> ZeroMAC, ip |-> ZeroIP]
    /\ bound = {} /\ started = {} /\ due = {}
    /\ ARP!Init
----------------------------------------------------------------------------
\* main, up to its loop.  The controller receives from eth_init on.
TimerSet ==
    /\ pc = "timer_set"
    /\ started' = Timers \ {"arp_flush"}
    /\ pc' = "eth_init"
    /\ UNCHANGED <<queue, packet, answer, printed, host, bound, due, arp>>

\* Fault: the loop begins before net_init has run.
ToLoop == "net_periodic"
ToNetInit == "net_init"

EthInit ==
    /\ pc = "eth_init"
    /\ pc' = ToNetInit
    /\ UNCHANGED <<queue, packet, answer, printed, host, bound, started, due, arp>>

NetInit ==
    /\ pc = "net_init"
    /\ host' = [mac |-> HostMAC, ip |-> HostIP]
    /\ started' = started \cup {"arp_flush"}
    /\ pc' = "udp_bind"
    /\ UNCHANGED <<queue, packet, answer, printed, bound, due, arp>>

UdpBind ==
    /\ pc = "udp_bind"
    /\ bound' = bound \cup {7}
    /\ pc' = "net_periodic"
    /\ UNCHANGED <<queue, packet, answer, printed, host, started, due, arp>>

HeaderLength == [mac |-> MAC_HEADER, arp |-> ARP_HEADER, ip |-> IP_HEADER,
                 icmp |-> ICMP_HEADER, udp |-> UDP_HEADER, tcp |-> TCP_HEADER]

Layers(h) ==
    {"mac"} \cup ({h.type} \cap {"arp", "ip"})
      \cup IF h.type = "ip" THEN {h.protocol} \cap {"icmp", "udp", "tcp"} ELSE {}

\* Fault: only the length of the Ethernet header is tested.
PrintedUntested(h, length) == IF length < MAC_HEADER THEN {} ELSE Layers(h)

\* net_debug: the headers that length leaves room for.
Printed(h, length) == {x \in Layers(h) : HeaderLength[x] <= length}

\* net_periodic: the next frame is read into the buffer, and printed.
ReceivePacket ==
    /\ pc = "net_periodic"
    /\ EthRx!HandOver
    /\ printed' = IF Len(packet') < MAC_HEADER THEN {} ELSE Printed(packet'[1][1], Len(packet'))
    /\ pc' = "net_decode"
    /\ UNCHANGED <<answer, host, bound, started, due, arp>>

\* Fault: the loop is left before the buffer is empty, or never.
NeverPending == FALSE
AlwaysPending == TRUE
Pending == queue # << >>

NetDone ==
    /\ pc = "net_periodic" /\ ~ Pending
    /\ pc' = "timer_periodic"
    /\ UNCHANGED <<queue, packet, answer, printed, host, bound, started, due, arp>>

\* An answer is built over its request, each copy seeing what those before left.
ToSender(h) == [h EXCEPT !.dest = h.src]
FromHost(h) == [h EXCEPT !.src = host]

\* Fault: the source is overwritten before it has been copied.
ReaddressedLate(h) == ToSender(FromHost(h))
Readdressed(h) == FromHost(ToSender(h))

\* Fault: the message type is not looked at.
IcmpAnyType(h, length) == IF length < ICMP_HEADER THEN NoAnswer
    ELSE [id |-> [Readdressed(h) EXCEPT !.icmp = "reply"], len |-> ICMP_HEADER]

\* icmp_decode, icmp_echo_reply
IcmpDecode(h, length) ==
    IF length >= ICMP_HEADER /\ h.icmp = "request"
    THEN [id |-> [Readdressed(h) EXCEPT !.icmp = "reply"], len |-> ICMP_HEADER]
    ELSE NoAnswer

\* The checksum was cleared by udp_decode.
SwapPorts(h) == [h EXCEPT !.dest_port = h.src_port, !.src_port = 7, !.checksum = "none"]

\* Fault: the UDP header is counted twice.
EchoUdpLonger(h) ==
    [id  |-> Readdressed(SwapPorts(h)),
     len |-> (UDP_HEADER + h.udp_length) % WORD]

\* echo_udp.  The length is that of the header, in 16 bits.
EchoUdp(h) ==
    [id  |-> Readdressed(SwapPorts(h)),
     len |-> (UDP_HEADER + h.udp_length - (UDP_HEADER - IP_HEADER)) % WORD]

Dispatched(h, length) == length >= UDP_HEADER /\ h.dest_port \in bound

UdpDecode(h, length) ==
    IF Dispatched(h, length) /\ h.checksum # "wrong" THEN EchoUdp(h) ELSE NoAnswer

\* udp_checksum does not return when a checksum is to be verified over 2^16 - 1
\* bytes (LengthsReturn of Checksum).
Hangs(h, length) ==
    /\ length >= IP_HEADER /\ h.type = "ip" /\ h.protocol = "udp"
    /\ Dispatched(h, length) /\ h.checksum # "none" /\ h.udp_length = WORD - 1

\* net_decode, of all but ARP.  Destination addresses are not looked at, nor
\* is the checksum of the IP header.
IpDecode(h, length) ==
    IF length < IP_HEADER \/ h.type # "ip" THEN NoAnswer
    ELSE IF h.protocol = "icmp" THEN IcmpDecode(h, length)
    ELSE IF h.protocol = "udp" THEN UdpDecode(h, length)
    ELSE NoAnswer

\* The headers in the buffer, when there are at least those of Ethernet.
Header == packet[1][1]
Decodable == Len(packet) >= MAC_HEADER

ToSend(a) == IF a.len = 0 THEN "net_periodic" ELSE "eth_send"

DecodeIp ==
    /\ pc = "net_decode"
    /\ Decodable => Header.type # "arp" /\ ~ Hangs(Header, Len(packet))
    /\ answer' = IF Decodable THEN IpDecode(Header, Len(packet)) ELSE NoAnswer
    /\ pc' = ToSend(answer')
    /\ UNCHANGED <<queue, packet, printed, host, bound, started, due, arp>>

ForUs(h) == Len(packet) >= ARP_HEADER /\ h.ip_dest = host.ip

\* The ARP reply as a frame on the line.
ArpFrame(r) ==
    IF r = ARP!NoFrame THEN NoAnswer
    ELSE [id  |-> [type |-> "arp", opcode |-> r.kind, dest |-> r.eth_dest, src |-> r.mac_src,
                   ip_src |-> r.ip_src, ip_dest |-> r.ip_dest],
          len |-> ARP_HEADER]

DecodeArp ==
    /\ pc = "net_decode" /\ Decodable /\ Header.type = "arp"
    /\ IF ForUs(Header) /\ Header.opcode = "request"
       THEN ARP!ArpDecodeRequest(Header.ip_src, Header.src)
       ELSE IF ForUs(Header) /\ Header.opcode = "reply"
       THEN ARP!ArpDecodeReply(Header.ip_src, Header.src)
       ELSE ARP!ArpDecodeIgnored
    /\ answer' = ArpFrame(reply')
    /\ pc' = ToSend(answer')
    /\ UNCHANGED <<queue, packet, printed, host, bound, started, due>>

SendPacket ==
    /\ pc = "eth_send"
    /\ printed' = Printed(answer.id, answer.len)
    /\ answer' = NoAnswer
    /\ pc' = "net_periodic"
    /\ UNCHANGED <<queue, packet, host, bound, started, due, arp>>

\* timer_periodic: all callbacks that are due.
TimerPeriodic ==
    /\ pc = "timer_periodic"
    /\ IF "arp_flush" \in due THEN ARP!ArpFlush ELSE UNCHANGED arp
    /\ due' = {}
    /\ pc' = "net_periodic"
    /\ UNCHANGED <<queue, packet, answer, printed, host, bound, started>>

Program ==
    \/ TimerSet \/ EthInit \/ NetInit \/ UdpBind
    \/ ReceivePacket \/ NetDone
    \/ DecodeIp \/ DecodeArp \/ SendPacket
    \/ TimerPeriodic

\* The line, from eth_init on, and the clock.
Receive(frame) ==
    /\ pc \notin {"timer_set", "eth_init"} /\ Len(queue) < MaxQueue
    /\ EthRx!Receive(frame)
    /\ UNCHANGED <<pc, answer, printed, host, bound, started, due, arp>>

Expire(callback) ==
    /\ callback \in started \ due
    /\ callback = "arp_flush" => uptime < MaxUptime
    /\ due' = due \cup {callback}
    /\ UNCHANGED <<pc, queue, packet, answer, printed, host, bound, started, arp>>

Next ==
    \/ Program
    \/ \E frame \in Frames : Receive(frame)
    \/ \E callback \in Timers : Expire(callback)

\* The processor goes on; frames may stop, and timers too.
Spec == Init /\ [][Next]_vars /\ WF_vars(Program)
----------------------------------------------------------------------------
Sending == pc = "eth_send"

Requester(h) == IF h.type = "arp" THEN [mac |-> h.src, ip |-> h.ip_src] ELSE h.src

Target(a) == IF a.type = "arp" THEN [mac |-> a.dest, ip |-> a.ip_dest] ELSE a.dest

Author(a) == IF a.type = "arp" THEN [mac |-> a.src, ip |-> a.ip_src] ELSE a.src

\* An answer goes to who asked, though it is built over the request, and from
\* this host's own addresses, which are set when the first frame is decoded
\* though frames arrive before; a datagram goes back to the port it came from,
\* from the port it was sent to (main.c:152, net.c:47, icmp.c:112, echo.c:32).
AnswersRequester ==
    Sending =>
        LET a == answer.id
        IN  /\ Target(a) = Requester(Header)
            /\ Author(a) = [mac |-> HostMAC, ip |-> HostIP]
            /\ a.type = "ip" /\ a.protocol = "udp" =>
                  a.dest_port = Header.src_port /\ a.src_port = Header.dest_port

\* A frame holds what its IP and UDP headers declare.
Whole(h, length) ==
    h.type = "ip" =>
        /\ h.ip_length + MAC_HEADER <= length
        /\ h.protocol = "udp" => h.udp_length = h.ip_length - (IP_HEADER - MAC_HEADER)

\* An answer is as whole as the request, whatever padding and truncation did
\* to it, and never longer than it, so that nothing is sent that was not
\* received; but an echo request of more than 56 bytes is cut to them
\* (echo.c:44, icmp.c:131).
AnswersWhole ==
    Sending /\ Whole(Header, Len(packet)) /\ (Header.type = "ip" /\ Header.protocol = "icmp" =>
                                                 Header.ip_length + MAC_HEADER <= ICMP_HEADER) =>
        Whole(answer.id, answer.len) /\ answer.len <= Len(packet)

\* No answer is answered, so that two such hosts never keep each other busy,
\* unless somebody sent a datagram from one's port 7 to the other's
\* (echo.c:32).
AnswersEnd ==
    Sending =>
        \/ answer.id.type = "arp" /\ answer.id.opcode # "request"
        \/ IpDecode(answer.id, answer.len).len = 0
        \/ answer.id.protocol = "udp" /\ Header.src_port = 7

\* What is printed of a frame, or of the answer to it, was received with it:
\* none of it is left over from an earlier frame in the buffer, though the
\* length of an answer is not that of its request (net.c:104, net.c:114).
PrintedWasReceived == \A x \in printed : HeaderLength[x] <= Len(packet)

Hung == pc = "net_decode" /\ Decodable /\ Hangs(Header, Len(packet))

\* As long as no checksum hangs the program, every frame is handled.
FramesHandled == [](~ Hung) => ((queue # << >>) ~> (pc = "net_decode"))

\* And a timer that is due runs, when at last there are no more frames.  While
\* they keep coming as fast as they are handled, it does not (net.c:95).
TimersRun ==
    [](~ Hung) /\ <>[](queue = << >>) => \A callback \in Timers : callback \in due ~> callback \notin due
=============================================================================
