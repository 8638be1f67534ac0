-------------------------------- MODULE Arp --------------------------------
(***************************************************************************)
(* The address resolution component (net/arp.c): the table that maps IP    *)
(* addresses to Ethernet addresses, its 8-bit clock arp_time, the handler  *)
(* of received ARP packets, the periodic flush and the resolution of the   *)
(* destination of an outgoing IP packet.  Each of the three runs to        *)
(* completion in the main loop, so each is one action.                     *)
(*                                                                         *)
(* arp_table, arp_time and reply are the program's; uptime, stamp and      *)
(* announced are history: they record what the program cannot see, the     *)
(* true count of flushes, the true time an entry was last written and the  *)
(* Ethernet address each neighbour announced last.                         *)
(***************************************************************************)
EXTENDS Integers, FiniteSetsExt

CONSTANTS IPs,            \* IP addresses, without 0.0.0.0
          EMPTY,          \* 0.0.0.0, which also marks an unused table entry
          HOST_IP,        \* ip_host_addr
          ROUTER_IP,      \* ip_default_router
          BROADCAST_IP,   \* ip_broadcast_addr
          LocalIPs,       \* the addresses ip_mask_compare finds on our network
          MACs,           \* Ethernet addresses
          HOST_MAC,       \* mac_host_addr
          BROADCAST_MAC,  \* mac_broadcast_addr, FF:FF:FF:FF:FF:FF
          ZERO_MAC,       \* 00:00:00:00:00:00, what .bss memory holds
          NoMac,          \* history: this neighbour has announced nothing
          SenderIPs,      \* sender addresses of received packets, maybe EMPTY
          SenderMACs,
          ARP_TABLE_SIZE,
          ARP_ENTRY_MAX_AGE,
          TIME_MOD,       \* 2^8: the width of arp_time and entry->time
          MaxUptime       \* bound: the number of flushes that are explored

ASSUME AddressAssumption ==
    /\ EMPTY \notin IPs
    /\ {HOST_IP, ROUTER_IP, BROADCAST_IP} \subseteq IPs
    /\ LocalIPs \subseteq IPs
    /\ ROUTER_IP # BROADCAST_IP
    /\ {HOST_MAC, BROADCAST_MAC, ZERO_MAC} \subseteq MACs
    /\ NoMac \notin MACs
    /\ SenderIPs \subseteq IPs \cup {EMPTY}
    /\ SenderMACs \subseteq MACs

ASSUME SizeAssumption ==
    /\ ARP_TABLE_SIZE \in Nat \ {0}
    /\ ARP_ENTRY_MAX_AGE \in Nat \ {0}
    /\ TIME_MOD \in Nat
    /\ ARP_ENTRY_MAX_AGE < TIME_MOD
    /\ MaxUptime \in Nat

VARIABLES arp_table, arp_time, reply, uptime, stamp, announced

vars == <<arp_table, arp_time, reply, uptime, stamp, announced>>
----------------------------------------------------------------------------
Index == 0 .. ARP_TABLE_SIZE - 1

Times == 0 .. TIME_MOD - 1

Entry == [ip : IPs \cup {EMPTY}, mac : MACs, time : Times]

\* What a handler leaves in the packet buffer to be sent, length 0 being
\* "none".  An "ip" frame is the caller's packet with its Ethernet header set.
Frame ==
    [kind : {"none"}]
      \cup [kind : {"request", "reply"}, eth_dest : MACs, mac_src : MACs,
            ip_src : IPs, mac_dest : MACs, ip_dest : IPs \cup {EMPTY}]
      \cup [kind : {"ip"}, eth_dest : MACs, ip_dest : IPs]

NoFrame == [kind |-> "none"]

\* ip_addr_is_empty(entry->ip_addr)
Unused(table, i) == table[i].ip = EMPTY

Matches(table, ip) == {i \in Index : ~ Unused(table, i) /\ table[i].ip = ip}

FreeEntries(table) == {i \in Index : Unused(table, i)}

\* arp_time - entry->time: both operands are promoted to int before the
\* subtraction, so after arp_time has wrapped the difference is negative.
Age(table, now, i) == now - table[i].time

\* Fault: a full table always gives up entry 0.
VictimFirst(table, now) == 0

\* The entry a full table gives up.  The scan starts from age 0 at entry 0
\* and takes an entry only when it is strictly older than the best so far.
Victim(table, now) ==
    LET Aged   == {i \in Index : Age(table, now, i) > 0}
        Oldest == {i \in Aged : \A j \in Aged : Age(table, now, j) <= Age(table, now, i)}
    IN  IF Aged = {} THEN 0 ELSE Min(Oldest)

\* Fault: a free entry is taken before a match is looked for.
EntryForFreeFirst(table, now, ip) ==
    IF FreeEntries(table) # {} THEN Min(FreeEntries(table))
    ELSE IF Matches(table, ip) # {} THEN Min(Matches(table, ip))
    ELSE Victim(table, now)

EntryFor(table, now, ip) ==
    IF Matches(table, ip) # {} THEN Min(Matches(table, ip))
    ELSE IF FreeEntries(table) # {} THEN Min(FreeEntries(table))
    ELSE Victim(table, now)

\* Fault: a match is refreshed without its mac_addr, or without its time.
ArpUpdateKeepMac(table, now, ip, mac) ==
    [table EXCEPT ![EntryFor(table, now, ip)] =
        [ip |-> ip, mac |-> IF @.ip = ip THEN @.mac ELSE mac, time |-> now]]

ArpUpdateKeepTime(table, now, ip, mac) ==
    [table EXCEPT ![EntryFor(table, now, ip)] =
        [ip |-> ip, mac |-> mac, time |-> IF @.ip = ip THEN @.time ELSE now]]

ArpUpdate(table, now, ip, mac) ==
    [table EXCEPT ![EntryFor(table, now, ip)] = [ip |-> ip, mac |-> mac, time |-> now]]

\* The call arp_update(ip, mac), with the history of the entry it writes.
Register(ip, mac) ==
    /\ arp_table' = ArpUpdate(arp_table, arp_time, ip, mac)
    /\ stamp' = [stamp EXCEPT ![EntryFor(arp_table, arp_time, ip)] = uptime]
    /\ announced' = IF ip = EMPTY THEN announced ELSE [announced EXCEPT ![ip] = mac]

\* Fault: the clock is one bit wider than the type it is stored in.
Tick9(t) == t + 1

\* The uint8_t increment.
Tick8(t) == IF t = TIME_MOD - 1 THEN 0 ELSE t + 1
----------------------------------------------------------------------------
Init ==
    /\ arp_table = [i \in Index |-> [ip |-> EMPTY, mac |-> ZERO_MAC, time |-> 0]]
    /\ arp_time = 0
    /\ reply = NoFrame
    /\ uptime = 0
    /\ stamp = [i \in Index |-> 0]
    /\ announced = [ip \in IPs |-> NoMac]

\* Fault: mac_src_addr is overwritten before it has been copied.
AnswerSwapped(ip, mac) ==
    [kind |-> "reply", eth_dest |-> mac, mac_src |-> HOST_MAC, ip_src |-> HOST_IP,
     mac_dest |-> HOST_MAC, ip_dest |-> ip]

\* The reply is built in place over the request it answers.
Answer(ip, mac) ==
    [kind |-> "reply", eth_dest |-> mac, mac_src |-> HOST_MAC, ip_src |-> HOST_IP,
     mac_dest |-> mac, ip_dest |-> ip]

\* arp_decode: a request for our address.
ArpDecodeRequest(ip, mac) ==
    /\ Register(ip, mac)
    /\ reply' = Answer(ip, mac)
    /\ UNCHANGED <<arp_time, uptime>>

\* arp_decode: a reply to our address.
ArpDecodeReply(ip, mac) ==
    /\ Register(ip, mac)
    /\ reply' = NoFrame
    /\ UNCHANGED <<arp_time, uptime>>

\* arp_decode: a truncated packet, another opcode or another target address.
ArpDecodeIgnored ==
    /\ reply' = NoFrame
    /\ UNCHANGED <<arp_table, arp_time, uptime, stamp, announced>>

ArpDecode ==
    \/ \E ip \in SenderIPs, mac \in SenderMACs : ArpDecodeRequest(ip, mac)
    \/ \E ip \in SenderIPs, mac \in SenderMACs : ArpDecodeReply(ip, mac)
    \/ ArpDecodeIgnored

\* Fault: an off-by-one in the comparison with the maximum age.
ExpiredLate(table, now, i) ==
    ~ Unused(table, i) /\ Age(table, now, i) > ARP_ENTRY_MAX_AGE

Expired(table, now, i) ==
    ~ Unused(table, i) /\ Age(table, now, i) >= ARP_ENTRY_MAX_AGE

ArpFlush ==
    /\ uptime < MaxUptime
    /\ uptime' = uptime + 1
    /\ arp_time' = Tick8(arp_time)
    /\ arp_table' = [i \in Index |->
                        IF Expired(arp_table, arp_time', i)
                        THEN [arp_table[i] EXCEPT !.ip = EMPTY] ELSE arp_table[i]]
    /\ reply' = NoFrame
    /\ UNCHANGED <<stamp, announced>>

\* Fault: the default router is never considered.
NextHopDirect(dest) == dest

NextHop(dest) == IF dest \in LocalIPs THEN dest ELSE ROUTER_IP

\* The lookup of arp_encode compares addresses only, not whether the entry
\* is in use.
Lookup(table, ip) == {i \in Index : table[i].ip = ip}

ArpRequestFor(ip) ==
    [kind |-> "request", eth_dest |-> BROADCAST_MAC, mac_src |-> HOST_MAC,
     ip_src |-> HOST_IP, mac_dest |-> ZERO_MAC, ip_dest |-> ip]

\* queue_packet is a stub that returns false, and its result is ignored: on a
\* miss the caller's packet is overwritten by the request.
Resolve(dest) ==
    LET found == Lookup(arp_table, NextHop(dest))
    IN  IF dest = BROADCAST_IP
        THEN [kind |-> "ip", eth_dest |-> BROADCAST_MAC, ip_dest |-> dest]
        ELSE IF found = {} THEN ArpRequestFor(NextHop(dest))
        ELSE [kind |-> "ip", eth_dest |-> arp_table[Min(found)].mac, ip_dest |-> dest]

ArpEncode(dest) ==
    /\ reply' = Resolve(dest)
    /\ UNCHANGED <<arp_table, arp_time, uptime, stamp, announced>>

Next ==
    \/ ArpDecode
    \/ ArpFlush
    \/ \E dest \in IPs : ArpEncode(dest)

Spec == Init /\ [][Next]_vars
----------------------------------------------------------------------------
InUse == {i \in Index : ~ Unused(arp_table, i)}

\* The entry was written since arp_time last wrapped.
ThisEpoch(i) == uptime - stamp[i] <= arp_time

\* The state has the program's types; the 8-bit clock stays 8 bits wide.
TypeOK ==
    /\ arp_table \in [Index -> Entry]
    /\ arp_time \in Times
    /\ reply \in Frame
    /\ uptime \in 0 .. MaxUptime
    /\ stamp \in [Index -> 0 .. MaxUptime]
    /\ announced \in [IPs -> MACs \cup {NoMac}]

\* No neighbour has two entries: arp_update and arp_encode stop at the first
\* match, so a second entry would be refreshed by nobody and used by somebody.
UniqueNeighbour ==
    \A i, j \in InUse : arp_table[i].ip = arp_table[j].ip => i = j

\* An entry in use holds the address its neighbour announced last, whatever
\* evictions, expiries and re-insertions came between.
FreshestMapping ==
    \A i \in InUse : arp_table[i].mac = announced[arp_table[i].ip]

\* An IP packet leaves for the Ethernet address announced last by its own
\* destination, or by the router when the destination is on another network.
ResolvedFrameCurrent ==
    reply.kind = "ip" /\ reply.ip_dest # BROADCAST_IP =>
        reply.eth_dest = IF reply.ip_dest \in LocalIPs THEN announced[reply.ip_dest]
                                                       ELSE announced[ROUTER_IP]

\* A neighbour we have answered can be answered to: when the reply leaves, the
\* table holds the pair the reply is addressed to ("First, we register the one
\* who made the request in our ARP table").  A probe has no address to register.
RequesterRegistered ==
    reply.kind = "reply" /\ reply.ip_dest # EMPTY =>
        /\ reply.eth_dest = reply.mac_dest
        /\ \E i \in InUse : /\ arp_table[i].ip = reply.ip_dest
                            /\ arp_table[i].mac = reply.mac_dest

\* An entry written early enough for its deadline to fall before the wrap of
\* arp_time never outlives ARP_ENTRY_MAX_AGE flushes.
TimelyExpiry ==
    \A i \in InUse :
        arp_table[i].time + ARP_ENTRY_MAX_AGE < TIME_MOD
            => uptime - stamp[i] < ARP_ENTRY_MAX_AGE

\* arp_flush removes no entry before its age, counted in flushes, is
\* ARP_ENTRY_MAX_AGE: a wrapped clock delays an expiry and never hastens it.
NoEarlyExpiry ==
    [][\A i \in InUse :
          uptime' # uptime /\ arp_table'[i].ip = EMPTY
              => uptime' - stamp[i] >= ARP_ENTRY_MAX_AGE]_vars

\* arp_update gives up an entry of another neighbour only when the table is
\* full, and, when all entries were written since the last wrap, the oldest.
EvictsOldest ==
    [][\A i \in InUse :
          uptime' = uptime /\ arp_table'[i].ip # arp_table[i].ip
              => /\ InUse = Index
                 /\ (\A j \in Index : ThisEpoch(j)) => \A j \in Index : stamp[i] <= stamp[j]]_vars
----------------------------------------------------------------------------
\* What a comment of the code promises of every entry and the 8-bit clock
\* takes back.

\* "Remove address when outdated" (arp.c:141).
OutdatedRemoved ==
    \A i \in InUse : uptime - stamp[i] < ARP_ENTRY_MAX_AGE
============================================================================
