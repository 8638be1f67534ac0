----------------------------- MODULE ArpProofs -----------------------------
(***************************************************************************)
(* Theorems about the address resolution component, for every set of       *)
(* addresses, every table size, every maximum age and every width of the   *)
(* clock.  IInv is the inductive invariant they follow from.               *)
(***************************************************************************)
EXTENDS Arp, NatLemmas, TLAPS

\* The flush count at which arp_time was last zero.
Epoch == uptime - arp_time

\* How the 8-bit times relate to the true ones.  An entry is never stamped
\* later than now, its time never lies before its true time in the current
\* epoch, and is exact when it was written in this epoch; so is the time of an
\* entry whose deadline comes before the wrap, which does not survive the wrap.
ClockInv ==
    /\ arp_time <= uptime
    /\ \A i \in InUse :
          LET t == arp_table[i].time
          IN  /\ stamp[i] <= uptime
              /\ stamp[i] - t <= Epoch
              /\ stamp[i] >= Epoch => stamp[i] - t = Epoch
              /\ t + ARP_ENTRY_MAX_AGE < TIME_MOD => stamp[i] - t = Epoch

IInv ==
    /\ TypeOK
    /\ UniqueNeighbour
    /\ FreshestMapping
    /\ ClockInv
    /\ TimelyExpiry
----------------------------------------------------------------------------
\* The victim of a full table is an entry, and none is older by the clock.
LEMMA VictimIsOldest ==
    ASSUME NEW table \in [Index -> Entry], NEW now \in Times
    PROVE  /\ Victim(table, now) \in Index
           /\ \A j \in Index :
                 \/ Age(table, now, j) <= Age(table, now, Victim(table, now))
                 \/ Age(table, now, j) <= 0
  <1> DEFINE Aged   == {i \in Index : Age(table, now, i) > 0}
             Oldest == {i \in Aged : \A j \in Aged : Age(table, now, j) <= Age(table, now, i)}
             Written == {table[i].time : i \in Aged}
  <1>0. /\ 0 \in Index
        /\ \A i \in Index : /\ i \in Nat
                            /\ table[i].time \in Nat
                            /\ Age(table, now, i) = now - table[i].time
        /\ now \in Nat
    BY SizeAssumption DEF Index, Times, Entry, Age
  <1>1. CASE Aged = {}
    <2>1. Victim(table, now) = 0
      BY <1>1 DEF Victim
    <2>2. \A j \in Index : ~ (Age(table, now, j) > 0)
      BY <1>1
    <2> QED
      BY <1>0, <2>1, <2>2
  <1>2. CASE Aged # {}
    <2>1. Written \subseteq Nat /\ Written # {}
      BY <1>0, <1>2
    <2>2. PICK i \in Aged : \A j \in Aged : table[i].time <= table[j].time
      <3>1. Min(Written) \in Written /\ \A t \in Written : Min(Written) <= t
        BY <2>1, MinOfNaturals
      <3> QED
        BY <3>1
    <2>3. i \in Oldest
      BY <1>0, <2>2
    <2>4. Min(Oldest) \in Oldest
      <3>1. Oldest \subseteq Nat
        BY <1>0
      <3> QED
        BY <2>3, <3>1, MinOfNaturals
    <2>5. Victim(table, now) = Min(Oldest)
      BY <1>2 DEF Victim
    <2>6. \A j \in Index : j \in Aged \/ Age(table, now, j) <= 0
      BY <1>0
    <2> QED
      BY <2>4, <2>5, <2>6
  <1> QED
    BY <1>1, <1>2

\* arp_update writes the entry of the address if it has one, else an unused
\* entry if there is one, else the victim.
LEMMA EntryForWhere ==
    ASSUME NEW table \in [Index -> Entry], NEW now \in Times, NEW ip
    PROVE  LET e == EntryFor(table, now, ip)
           IN  /\ e \in Index
               /\ \/ e \in Matches(table, ip)
                  \/ Matches(table, ip) = {} /\ e \in FreeEntries(table)
                  \/ /\ Matches(table, ip) = {}
                     /\ FreeEntries(table) = {}
                     /\ e = Victim(table, now)
  <1>1. Matches(table, ip) \subseteq Nat /\ Matches(table, ip) \subseteq Index
    BY SizeAssumption DEF Matches, Index
  <1>2. FreeEntries(table) \subseteq Nat /\ FreeEntries(table) \subseteq Index
    BY SizeAssumption DEF FreeEntries, Index
  <1>3. Matches(table, ip) # {} => Min(Matches(table, ip)) \in Matches(table, ip)
    BY <1>1, MinOfNaturals
  <1>4. FreeEntries(table) # {} => Min(FreeEntries(table)) \in FreeEntries(table)
    BY <1>2, MinOfNaturals
  <1>5. Victim(table, now) \in Index
    BY VictimIsOldest
  <1> QED
    BY <1>1, <1>2, <1>3, <1>4, <1>5 DEF EntryFor
----------------------------------------------------------------------------
LEMMA InitEstablishes == Init => IInv
  <1> SUFFICES ASSUME Init PROVE IInv
    OBVIOUS
  <1>1. InUse = {}
    BY DEF Init, InUse, Unused, Index
  <1>2. TypeOK
    BY AddressAssumption, SizeAssumption
    DEF Init, TypeOK, Entry, Times, Frame, NoFrame, Index
  <1> QED
    BY <1>1, <1>2 DEF Init, IInv, UniqueNeighbour, FreshestMapping, ClockInv, TimelyExpiry

\* A call of arp_update keeps every part of the invariant but the type of the
\* frame, which the handler around it produces.
LEMMA RegisterPreserves ==
    ASSUME IInv, NEW ip \in SenderIPs, NEW mac \in SenderMACs, Register(ip, mac),
           UNCHANGED <<arp_time, uptime>>, reply' \in Frame
    PROVE  IInv'
  <1> DEFINE e == EntryFor(arp_table, arp_time, ip)
  <1>0. /\ ip \in IPs \cup {EMPTY}
        /\ mac \in MACs
        /\ arp_table \in [Index -> Entry]
        /\ arp_time \in Times
        /\ uptime \in 0 .. MaxUptime
        /\ stamp \in [Index -> 0 .. MaxUptime]
    BY AddressAssumption DEF IInv, TypeOK
  <1>1. /\ e \in Index
        /\ \/ e \in Matches(arp_table, ip)
           \/ Matches(arp_table, ip) = {}
    BY <1>0, EntryForWhere
  <1>2. arp_table' = [arp_table EXCEPT ![e] = [ip |-> ip, mac |-> mac, time |-> arp_time]]
    BY DEF Register, ArpUpdate
  <1>3. stamp' = [stamp EXCEPT ![e] = uptime]
    BY DEF Register
  <1>4. /\ \A i \in Index \ {e} : arp_table'[i] = arp_table[i] /\ stamp'[i] = stamp[i]
        /\ arp_table'[e] = [ip |-> ip, mac |-> mac, time |-> arp_time]
        /\ stamp'[e] = uptime
    BY <1>0, <1>1, <1>2, <1>3
  <1>5. InUse' \subseteq InUse \cup {e}
    BY <1>4 DEF InUse, Unused
  <1>6. e \in InUse' => ip # EMPTY
    BY <1>4 DEF InUse, Unused
  <1>7. \A i \in InUse' \ {e} : i \in InUse /\ i \in Index /\ arp_table[i].ip # ip
    BY <1>1, <1>4, <1>5 DEF InUse, Unused, Matches, IInv, UniqueNeighbour
  <1>8. TypeOK'
    <2>1. arp_table' \in [Index -> Entry]
      BY <1>0, <1>1, <1>2 DEF Entry
    <2>2. stamp' \in [Index -> 0 .. MaxUptime]
      BY <1>0, <1>3
    <2>3. announced' \in [IPs -> MACs \cup {NoMac}]
      BY <1>0 DEF Register, IInv, TypeOK
    <2> QED
      BY <1>0, <2>1, <2>2, <2>3 DEF TypeOK
  <1>9. UniqueNeighbour'
    BY <1>4, <1>5, <1>7 DEF UniqueNeighbour, IInv
  <1>10. FreshestMapping'
    <2> SUFFICES ASSUME NEW i \in InUse'
                 PROVE  arp_table'[i].mac = announced'[arp_table'[i].ip]
      BY DEF FreshestMapping
    <2>1. CASE i = e
      BY <1>0, <1>4, <1>6, <2>1 DEF Register, IInv, TypeOK
    <2>2. CASE i # e
      <3>1. i \in InUse /\ arp_table[i].ip # ip /\ arp_table'[i] = arp_table[i]
        BY <1>4, <1>7, <2>2
      <3>2. arp_table[i].mac = announced[arp_table[i].ip]
        BY <3>1 DEF IInv, FreshestMapping
      <3>3. arp_table[i].ip \in IPs
        BY <1>0, <3>1 DEF InUse, Unused, Entry
      <3> QED
        BY <3>1, <3>2, <3>3 DEF Register, IInv, TypeOK
    <2> QED
      BY <2>1, <2>2
  <1>11. ClockInv' /\ TimelyExpiry'
    <2>1. arp_time' <= uptime'
      BY DEF IInv, ClockInv
    <2> SUFFICES ASSUME NEW i \in InUse'
                 PROVE  LET t == arp_table'[i].time
                        IN  /\ stamp'[i] <= uptime'
                            /\ stamp'[i] - t <= Epoch'
                            /\ stamp'[i] >= Epoch' => stamp'[i] - t = Epoch'
                            /\ t + ARP_ENTRY_MAX_AGE < TIME_MOD => stamp'[i] - t = Epoch'
                            /\ t + ARP_ENTRY_MAX_AGE < TIME_MOD
                                  => uptime' - stamp'[i] < ARP_ENTRY_MAX_AGE
      BY <2>1 DEF ClockInv, TimelyExpiry
    <2>2. Epoch' = Epoch
      BY DEF Epoch
    <2>3. CASE i = e
      BY <1>0, <1>4, <2>2, <2>3, SizeAssumption DEF Epoch, Times
    <2>4. CASE i # e
      <3>1. i \in InUse /\ arp_table'[i] = arp_table[i] /\ stamp'[i] = stamp[i]
        BY <1>4, <1>7, <2>4
      <3> QED
        BY <2>2, <3>1 DEF IInv, ClockInv, TimelyExpiry
    <2> QED
      BY <2>3, <2>4
  <1> QED
    BY <1>8, <1>9, <1>10, <1>11 DEF IInv

\* A flush, which may wrap the clock.
LEMMA FlushPreserves ==
    ASSUME IInv, ArpFlush
    PROVE  IInv'
  <1>0. /\ arp_table \in [Index -> Entry]
        /\ arp_time \in Times /\ arp_time' \in Times
        /\ uptime \in 0 .. MaxUptime /\ uptime' = uptime + 1
        /\ stamp \in [Index -> 0 .. MaxUptime] /\ stamp' = stamp
        /\ announced' = announced
    BY SizeAssumption DEF IInv, TypeOK, ArpFlush, Tick8, Times
  <1>1. \A i \in Index :
           arp_table'[i] = IF Expired(arp_table, arp_time', i)
                           THEN [arp_table[i] EXCEPT !.ip = EMPTY] ELSE arp_table[i]
    BY DEF ArpFlush
  <1>2. \A i \in InUse' : /\ i \in InUse /\ i \in Index
                          /\ arp_table'[i] = arp_table[i]
                          /\ ~ (Age(arp_table, arp_time', i) >= ARP_ENTRY_MAX_AGE)
    <2> TAKE i \in InUse'
    <2>1. i \in Index /\ arp_table'[i].ip # EMPTY
      BY DEF InUse, Unused
    <2>2. ~ Expired(arp_table, arp_time', i)
      BY <1>0, <1>1, <2>1 DEF Entry
    <2> QED
      BY <1>1, <2>1, <2>2 DEF InUse, Unused, Expired
  <1>3. TypeOK'
    <2>1. arp_table' \in [Index -> Entry]
      BY <1>0 DEF ArpFlush, Entry
    <2>2. reply' \in Frame
      BY DEF ArpFlush, NoFrame, Frame
    <2>3. uptime' \in 0 .. MaxUptime
      BY <1>0, SizeAssumption DEF ArpFlush
    <2> QED
      BY <1>0, <2>1, <2>2, <2>3 DEF TypeOK, IInv
  <1>4. UniqueNeighbour' /\ FreshestMapping'
    BY <1>0, <1>2 DEF UniqueNeighbour, FreshestMapping, IInv
  <1>5. ClockInv' /\ TimelyExpiry'
    <2>1. CASE arp_time # TIME_MOD - 1
      <3>1. arp_time' = arp_time + 1 /\ Epoch' = Epoch
        BY <1>0, <2>1 DEF ArpFlush, Tick8, Epoch, Times
      <3>2. ClockInv'
        BY <1>0, <1>2, <3>1, SizeAssumption DEF ClockInv, IInv, Times, Entry
      <3>3. TimelyExpiry'
        <4> SUFFICES ASSUME NEW i \in InUse',
                            arp_table'[i].time + ARP_ENTRY_MAX_AGE < TIME_MOD
                     PROVE  uptime' - stamp'[i] < ARP_ENTRY_MAX_AGE
          BY DEF TimelyExpiry
        <4>1. stamp[i] - arp_table[i].time = Epoch
          BY <1>2 DEF IInv, ClockInv
        <4>2. arp_time' - arp_table[i].time < ARP_ENTRY_MAX_AGE
          BY <1>0, <1>2, SizeAssumption DEF Age, Times, Entry
        <4>3. /\ arp_table[i].time \in Int /\ stamp[i] \in Int
              /\ arp_time \in Int /\ uptime \in Int
          BY <1>0, <1>2 DEF Times, Entry
        <4> QED
          BY <1>0, <3>1, <4>1, <4>2, <4>3, SizeAssumption DEF Epoch
      <3> QED
        BY <3>2, <3>3
    <2>2. CASE arp_time = TIME_MOD - 1
      <3>1. arp_time' = 0 /\ Epoch' = uptime + 1
        BY <1>0, <2>2 DEF ArpFlush, Tick8, Epoch, Times
      <3>2. \A i \in InUse' :
               LET t == arp_table'[i].time
               IN  /\ stamp[i] <= uptime
                   /\ stamp[i] - t <= Epoch
                   /\ stamp[i] \in Int /\ t \in Nat
                   /\ ~ (t + ARP_ENTRY_MAX_AGE < TIME_MOD)
        <4> TAKE i \in InUse'
        <4>1. i \in InUse /\ arp_table'[i] = arp_table[i]
          BY <1>2
        <4>2. arp_table[i].time \in Nat /\ stamp[i] \in Int
          BY <1>0, <1>2 DEF Times, Entry
        <4>3. stamp[i] <= uptime /\ stamp[i] - arp_table[i].time <= Epoch
          BY <4>1 DEF IInv, ClockInv
        <4>4. arp_table[i].time + ARP_ENTRY_MAX_AGE < TIME_MOD =>
                 /\ stamp[i] - arp_table[i].time = Epoch
                 /\ uptime - stamp[i] < ARP_ENTRY_MAX_AGE
          BY <4>1 DEF IInv, ClockInv, TimelyExpiry
        <4>5. ~ (arp_table[i].time + ARP_ENTRY_MAX_AGE < TIME_MOD)
          BY <1>0, <2>2, <4>2, <4>4, SizeAssumption DEF Epoch
        <4> QED
          BY <4>1, <4>2, <4>3, <4>5
      <3>3. Epoch <= uptime
        BY <1>0 DEF Epoch, Times
      <3>4. Epoch \in Int /\ uptime \in Int
        BY <1>0 DEF Epoch, Times
      <3>5. ClockInv'
        BY <1>0, <3>1, <3>2, <3>3, <3>4 DEF ClockInv
      <3>6. TimelyExpiry'
        BY <3>2 DEF TimelyExpiry
      <3> QED
        BY <3>5, <3>6
    <2> QED
      BY <2>1, <2>2
  <1> QED
    BY <1>3, <1>4, <1>5 DEF IInv

LEMMA AnswerIsFrame ==
    ASSUME NEW ip \in SenderIPs, NEW mac \in SenderMACs
    PROVE  Answer(ip, mac) \in Frame /\ Answer(ip, mac).kind = "reply"
  BY AddressAssumption DEF Answer, Frame

LEMMA ResolveIsFrame ==
    ASSUME IInv, NEW dest \in IPs
    PROVE  /\ Resolve(dest) \in Frame
           /\ Resolve(dest).kind \in {"ip", "request"}
           /\ Resolve(dest).kind = "ip" =>
                /\ Resolve(dest).ip_dest = dest
                /\ dest # BROADCAST_IP =>
                      Resolve(dest).eth_dest = announced[NextHop(dest)]
  <1> DEFINE found == Lookup(arp_table, NextHop(dest))
  <1>1. NextHop(dest) \in IPs /\ NextHop(dest) # EMPTY
    BY AddressAssumption DEF NextHop
  <1>2. CASE dest = BROADCAST_IP
    BY <1>2, AddressAssumption DEF Resolve, Frame
  <1>3. CASE dest # BROADCAST_IP /\ found = {}
    BY <1>1, <1>3, AddressAssumption DEF Resolve, ArpRequestFor, Frame
  <1>4. CASE dest # BROADCAST_IP /\ found # {}
    <2>1. found \subseteq Nat
      BY SizeAssumption DEF Lookup, Index
    <2>2. Min(found) \in found
      BY <1>4, <2>1, MinOfNaturals
    <2>3. /\ Min(found) \in InUse
          /\ Min(found) \in Index
          /\ arp_table[Min(found)].ip = NextHop(dest)
      BY <1>1, <2>2 DEF Lookup, InUse, Unused
    <2>4. arp_table[Min(found)].mac = announced[NextHop(dest)]
      BY <2>3 DEF IInv, FreshestMapping
    <2>5. arp_table[Min(found)].mac \in MACs
      BY <2>3 DEF IInv, TypeOK, Entry
    <2>6. Resolve(dest) = [kind |-> "ip", eth_dest |-> arp_table[Min(found)].mac,
                           ip_dest |-> dest]
      BY <1>4 DEF Resolve
    <2> QED
      BY <2>4, <2>5, <2>6 DEF Frame
  <1> QED
    BY <1>2, <1>3, <1>4

\* After a call of arp_update for an address, the table holds its pair.
LEMMA RegisterRegisters ==
    ASSUME IInv, NEW ip \in SenderIPs, NEW mac \in SenderMACs, Register(ip, mac),
           ip # EMPTY
    PROVE  \E i \in InUse' : arp_table'[i].ip = ip /\ arp_table'[i].mac = mac
  <1> DEFINE e == EntryFor(arp_table, arp_time, ip)
  <1>1. arp_table \in [Index -> Entry] /\ arp_time \in Times
    BY DEF IInv, TypeOK
  <1>2. e \in Index
    BY <1>1, EntryForWhere
  <1>3. arp_table'[e] = [ip |-> ip, mac |-> mac, time |-> arp_time]
    BY <1>1, <1>2 DEF Register, ArpUpdate
  <1>4. e \in InUse'
    BY <1>2, <1>3 DEF InUse, Unused
  <1> QED
    BY <1>3, <1>4
----------------------------------------------------------------------------
\* The frame properties speak of the frame of the last handler, so they are
\* proved together with the invariant.
FrameInv == ResolvedFrameCurrent /\ RequesterRegistered

LEMMA StepPreserves ==
    ASSUME IInv, FrameInv, [Next]_vars
    PROVE  IInv' /\ FrameInv'
  <1>1. ASSUME NEW ip \in SenderIPs, NEW mac \in SenderMACs, ArpDecodeRequest(ip, mac)
        PROVE  IInv' /\ FrameInv'
    <2>1. reply' = Answer(ip, mac)
      BY <1>1 DEF ArpDecodeRequest
    <2>2. IInv'
      BY <1>1, <2>1, AnswerIsFrame, RegisterPreserves DEF ArpDecodeRequest
    <2>3. ip # EMPTY =>
             \E i \in InUse' : arp_table'[i].ip = ip /\ arp_table'[i].mac = mac
      BY <1>1, RegisterRegisters DEF ArpDecodeRequest
    <2>4. FrameInv'
      BY <2>1, <2>3 DEF FrameInv, ResolvedFrameCurrent, RequesterRegistered, Answer
    <2> QED
      BY <2>2, <2>4
  <1>2. ASSUME NEW ip \in SenderIPs, NEW mac \in SenderMACs, ArpDecodeReply(ip, mac)
        PROVE  IInv' /\ FrameInv'
    <2>1. reply' = NoFrame /\ NoFrame \in Frame
      BY <1>2 DEF ArpDecodeReply, NoFrame, Frame
    <2>2. IInv'
      BY <1>2, <2>1, RegisterPreserves DEF ArpDecodeReply
    <2>3. FrameInv'
      BY <2>1 DEF FrameInv, ResolvedFrameCurrent, RequesterRegistered, NoFrame
    <2> QED
      BY <2>2, <2>3
  <1>3. CASE ArpDecodeIgnored
    <2>1. reply' = NoFrame /\ NoFrame \in Frame
      BY <1>3 DEF ArpDecodeIgnored, NoFrame, Frame
    <2>2. UNCHANGED <<arp_table, arp_time, uptime, stamp, announced>>
      BY <1>3 DEF ArpDecodeIgnored
    <2>3. IInv'
      BY <2>1, <2>2
      DEF IInv, TypeOK, UniqueNeighbour, FreshestMapping, ClockInv, TimelyExpiry,
          InUse, Unused, Epoch
    <2>4. FrameInv'
      BY <2>1 DEF FrameInv, ResolvedFrameCurrent, RequesterRegistered, NoFrame
    <2> QED
      BY <2>3, <2>4
  <1>4. CASE ArpFlush
    <2>1. reply' = NoFrame
      BY <1>4 DEF ArpFlush
    <2>2. FrameInv'
      BY <2>1 DEF FrameInv, ResolvedFrameCurrent, RequesterRegistered, NoFrame
    <2> QED
      BY <1>4, <2>2, FlushPreserves
  <1>5. ASSUME NEW dest \in IPs, ArpEncode(dest)
        PROVE  IInv' /\ FrameInv'
    <2>1. reply' = Resolve(dest)
      BY <1>5 DEF ArpEncode
    <2>2. UNCHANGED <<arp_table, arp_time, uptime, stamp, announced>>
      BY <1>5 DEF ArpEncode
    <2>3. reply' \in Frame
      BY <2>1, ResolveIsFrame
    <2>4. IInv'
      BY <2>2, <2>3
      DEF IInv, TypeOK, UniqueNeighbour, FreshestMapping, ClockInv, TimelyExpiry,
          InUse, Unused, Epoch
    <2>5. FrameInv'
      BY <2>1, <2>2, ResolveIsFrame
      DEF FrameInv, ResolvedFrameCurrent, RequesterRegistered, NextHop
    <2> QED
      BY <2>4, <2>5
  <1>6. CASE UNCHANGED vars
    BY <1>6 DEF vars, IInv, FrameInv, TypeOK, UniqueNeighbour, FreshestMapping, ClockInv,
                TimelyExpiry, ResolvedFrameCurrent, RequesterRegistered, InUse, Unused, Epoch
  <1> QED
    BY <1>1, <1>2, <1>3, <1>4, <1>5, <1>6 DEF Next, ArpDecode

\* The invariant holds throughout every execution.
THEOREM Invariance == Spec => [](IInv /\ FrameInv)
  <1>1. Init => IInv /\ FrameInv
    BY InitEstablishes
    DEF Init, FrameInv, ResolvedFrameCurrent, RequesterRegistered, NoFrame
  <1>2. (IInv /\ FrameInv) /\ [Next]_vars => (IInv /\ FrameInv)'
    BY StepPreserves
  <1> QED
    BY <1>1, <1>2, PTL DEF Spec
----------------------------------------------------------------------------
\* The program's variables keep their types, the clock its eight bits.
THEOREM TypeCorrect == Spec => []TypeOK
  BY Invariance, PTL DEF IInv

\* arp_update never gives a neighbour a second entry.
THEOREM NeighboursUnique == Spec => []UniqueNeighbour
  BY Invariance, PTL DEF IInv

\* An entry in use holds the address announced last.
THEOREM MappingsFresh == Spec => []FreshestMapping
  BY Invariance, PTL DEF IInv

\* arp_encode addresses an IP packet to its next hop's latest address.
THEOREM FramesCurrent == Spec => []ResolvedFrameCurrent
  BY Invariance, PTL DEF FrameInv

\* arp_decode answers a request only after it has registered the requester.
THEOREM RequestersRegistered == Spec => []RequesterRegistered
  BY Invariance, PTL DEF FrameInv

\* arp_flush removes an entry in time when its deadline precedes the wrap.
THEOREM ExpiryTimely == Spec => []TimelyExpiry
  BY Invariance, PTL DEF IInv

\* arp_flush removes no entry early, whenever arp_time wraps.
THEOREM ExpiryNotEarly == Spec => NoEarlyExpiry
  <1>1. IInv /\ [Next]_vars =>
           [\A i \in InUse :
               uptime' # uptime /\ arp_table'[i].ip = EMPTY
                   => uptime' - stamp[i] >= ARP_ENTRY_MAX_AGE]_vars
    <2> SUFFICES ASSUME IInv, Next, uptime' # uptime,
                        NEW i \in InUse, arp_table'[i].ip = EMPTY
                 PROVE  uptime' - stamp[i] >= ARP_ENTRY_MAX_AGE
      BY DEF vars
    <2>1. ArpFlush
      BY DEF Next, ArpDecode, ArpDecodeRequest, ArpDecodeReply, ArpDecodeIgnored, ArpEncode
    <2>2. i \in Index /\ arp_table[i].ip # EMPTY
      BY DEF InUse, Unused
    <2>3. Expired(arp_table, arp_time', i)
      BY <2>1, <2>2 DEF ArpFlush
    <2>4. arp_time' - arp_table[i].time >= ARP_ENTRY_MAX_AGE
      BY <2>3 DEF Expired, Age
    <2>5. /\ arp_time \in Times /\ arp_time' \in Times /\ uptime \in Nat
          /\ uptime' = uptime + 1
          /\ arp_table[i].time \in Nat /\ stamp[i] \in Nat
      <3>1. /\ arp_table[i] \in Entry /\ stamp[i] \in 0 .. MaxUptime
            /\ arp_time \in Times /\ uptime \in 0 .. MaxUptime
        BY <2>2 DEF IInv, TypeOK
      <3>2. arp_table[i].time \in Nat
        BY <3>1, SizeAssumption DEF Entry, Times
      <3>3. arp_time' = Tick8(arp_time) /\ uptime' = uptime + 1
        BY <2>1 DEF ArpFlush
      <3>4. arp_time' \in Times
        BY <3>1, <3>3, SizeAssumption DEF Tick8, Times
      <3> QED
        BY <3>1, <3>2, <3>3, <3>4, SizeAssumption
    <2>6. arp_time' <= arp_time + 1
      BY <2>1, <2>5, SizeAssumption DEF ArpFlush, Tick8, Times
    <2>7. stamp[i] - arp_table[i].time <= uptime - arp_time
      BY DEF IInv, ClockInv, Epoch
    <2> QED
      BY <2>4, <2>5, <2>6, <2>7, SizeAssumption DEF Times
  <1> QED
    BY <1>1, Invariance, PTL DEF Spec, NoEarlyExpiry

\* arp_update gives up the oldest entry, and only of a full table, as long as
\* no entry in use predates the wrap.
THEOREM EvictionOfOldest == Spec => EvictsOldest
  <1>1. IInv /\ [Next]_vars =>
           [\A i \in InUse :
               uptime' = uptime /\ arp_table'[i].ip # arp_table[i].ip
                   => /\ InUse = Index
                      /\ (\A j \in Index : ThisEpoch(j)) =>
                            \A j \in Index : stamp[i] <= stamp[j]]_vars
    <2> SUFFICES ASSUME IInv, Next, uptime' = uptime,
                        NEW i \in InUse, arp_table'[i].ip # arp_table[i].ip
                 PROVE  /\ InUse = Index
                        /\ (\A j \in Index : ThisEpoch(j)) =>
                              \A j \in Index : stamp[i] <= stamp[j]
      BY DEF vars
    <2>1. PICK ip \in SenderIPs, mac \in SenderMACs : Register(ip, mac)
      <3>1. ~ ArpFlush
        BY SizeAssumption DEF ArpFlush, IInv, TypeOK
      <3> QED
        BY <3>1 DEF Next, ArpDecode, ArpDecodeRequest, ArpDecodeReply, ArpDecodeIgnored,
                    ArpEncode
    <2>2. arp_table \in [Index -> Entry] /\ arp_time \in Times
      BY DEF IInv, TypeOK
    <2>3. i = EntryFor(arp_table, arp_time, ip) /\ i \in Index /\ arp_table[i].ip # ip
      BY <2>1, <2>2 DEF Register, ArpUpdate, InUse, Unused, Entry
    <2>4. FreeEntries(arp_table) = {} /\ i = Victim(arp_table, arp_time)
      BY <2>2, <2>3, EntryForWhere DEF Matches, FreeEntries, InUse, Unused
    <2>5. InUse = Index
      BY <2>4 DEF InUse, FreeEntries
    <2>6. ASSUME \A j \in Index : ThisEpoch(j), NEW j \in Index
          PROVE  stamp[i] <= stamp[j]
      <3>1. \A k \in Index : /\ stamp[k] \in Nat /\ arp_table[k].time \in Nat
                             /\ stamp[k] <= uptime
                             /\ stamp[k] - arp_table[k].time = uptime - arp_time
        <4> TAKE k \in Index
        <4>1. /\ stamp[k] \in Nat /\ arp_table[k].time \in Nat
              /\ uptime \in Nat /\ arp_time \in Nat
          BY SizeAssumption DEF IInv, TypeOK, Entry, Times
        <4>2. uptime - stamp[k] <= arp_time
          BY <2>6 DEF ThisEpoch
        <4>3. k \in InUse
          BY <2>5
        <4> QED
          BY <4>1, <4>2, <4>3 DEF IInv, ClockInv, Epoch
      <3>2. \/ Age(arp_table, arp_time, j) <= Age(arp_table, arp_time, i)
            \/ Age(arp_table, arp_time, j) <= 0
        BY <2>2, <2>4, VictimIsOldest
      <3>3. uptime \in Nat /\ arp_time \in Nat
        BY SizeAssumption DEF IInv, TypeOK, Times
      <3> QED
        BY <2>3, <3>1, <3>2, <3>3 DEF Age
    <2> QED
      BY <2>5, <2>6
  <1> QED
    BY <1>1, Invariance, PTL DEF Spec, EvictsOldest
============================================================================
