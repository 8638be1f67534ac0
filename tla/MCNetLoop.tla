----------------------------- MODULE MCNetLoop -----------------------------
(***************************************************************************)
(* NetLoop with headers of one byte more than the one before, a buffer of  *)
(* six bytes, of which a frame gets five, and 16-bit lengths of four bits. *)
(***************************************************************************)
EXTENDS NetLoop, TLC

CONSTANTS neighbour_mac, neighbour_ip

MCNeighbours == {[mac |-> neighbour_mac, ip |-> neighbour_ip]}

Peer == [mac |-> neighbour_mac, ip |-> neighbour_ip]

Line(header, length) == [id |-> header, len |-> length, ok |-> TRUE]

ArpHeader(opcode, dest) ==
    [type |-> "arp", opcode |-> opcode, src |-> Peer.mac, ip_src |-> Peer.ip, ip_dest |-> dest]

Ip(protocol, length) == [type |-> "ip", protocol |-> protocol, src |-> Peer, dest |-> Us, ip_length |-> length]

Icmp(type, length) == Ip("icmp", length) @@ [icmp |-> type]

Udp(from, to, length, checksum) ==
    Ip("udp", length + 1) @@ [src_port |-> from, dest_port |-> to, udp_length |-> length, checksum |-> checksum]

\* What each handler tells apart: opcodes, targets, types, ports, checksums,
\* headers that are cut short, pings that are longer than the answer, and
\* datagrams whose length is true, is more than what was received, is zero,
\* wraps in the sum, and hangs the checksum.
MCFrames ==
    { Line(ArpHeader("request", HostIP), 3), Line(ArpHeader("reply", HostIP), 3),
      Line(ArpHeader("request", RouterIP), 3), Line(ArpHeader("request", HostIP), 2),
      Line(Icmp("request", 3), 4), Line(Icmp("request", 5), 6), Line(Icmp("reply", 3), 4),
      Line(Udp(9, 7, 2, "right"), 5), Line(Udp(7, 7, 1, "none"), 3),
      Line(Udp(9, 7, 2, "wrong"), 4), Line(Udp(9, 7, 6, "none"), 8), Line(Udp(9, 7, 0, "right"), 3),
      Line(Udp(9, 7, 14, "right"), 4), Line(Udp(9, 7, 15, "right"), 4), Line(Udp(9, 80, 1, "none"), 3),
      Line(Ip("tcp", 3), 4), Line(Ip("tcp", 2), 3), Line([type |-> "other"], 2), [Line(Icmp("request", 3), 4) EXCEPT !.ok = FALSE] }
============================================================================
