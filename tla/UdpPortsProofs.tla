--------------------------- MODULE UdpPortsProofs ---------------------------
(***************************************************************************)
(* Theorems about the UDP port table, for every number of slots, set of    *)
(* ports, heap, and register contents that a NULL slot reads.              *)
(***************************************************************************)
EXTENDS UdpPorts, NatLemmas, FiniteSetTheorems, SequenceTheorems, TLAPS

Heap == [Addr -> [live : BOOLEAN, port : Ports, callback : Callbacks]]

\* Until something is unbound the slots are the bindings in force, in order,
\* and then NULL: the n-th binding is what slot n - 1 points to.
SlotsAreBindings ==
    /\ bound \in Seq(Binding)
    /\ Len(bound) <= UDP_MAX_BINDINGS
    /\ \A id \in Slots : id < Len(bound) =>
          /\ udp_bindings[id] = bound[id + 1].at
          /\ heap[bound[id + 1].at] = [live     |-> TRUE,
                                       port     |-> bound[id + 1].port,
                                       callback |-> bound[id + 1].callback]
    /\ \A id \in Slots : Len(bound) <= id => udp_bindings[id] = NULL

IInv ==
    /\ udp_bindings \in [Slots -> Addr \cup {NULL}]
    /\ heap \in Heap
    /\ unbinds \in BOOLEAN
    /\ UsedSlotsFirst
    /\ ~ unbinds => SlotsAreBindings
    /\ DeliveredToFirstBinder
    /\ RefusedOnlyWhenFull
----------------------------------------------------------------------------
LEMMA SlotsAreNaturals ==
    Slots \subseteq Nat /\ UDP_MAX_BINDINGS \in Nat /\ \A id \in Slots : id < UDP_MAX_BINDINGS
  BY UdpAssumption DEF Slots

\* A search for a bound port ends at the slot of its first binding, and
\* nowhere else: NULL slots come after it.
LEMMA SearchFindsFirst ==
    ASSUME IInv, SlotsAreBindings,
           NEW port \in BoundPorts,
           NEW id \in SearchFor(port)
    PROVE  /\ id \in Slots
           /\ FirstOf(port) \in DOMAIN bound
           /\ id + 1 = FirstOf(port)
           /\ bound[FirstOf(port)].port = port
  <1> DEFINE Hits == {n \in DOMAIN bound : bound[n].port = port}
             f    == FirstOf(port)
  <1>1. DOMAIN bound = 1 .. Len(bound) /\ Len(bound) \in Nat /\ Len(bound) <= UDP_MAX_BINDINGS
    BY DEF SlotsAreBindings
  <1>2. Hits # {} /\ Hits \subseteq Nat
    BY <1>1 DEF BoundPorts
  <1>3. f \in Hits /\ \A n \in Hits : f <= n
    BY <1>2, MinOfNaturals DEF FirstOf
  <1>4. f - 1 \in Slots /\ f \in 1 .. Len(bound)
    BY <1>1, <1>3, UdpAssumption DEF Slots
  <1>5. ~ MayDiffer(f - 1, port)
    <2>1. /\ udp_bindings[f - 1] = bound[f].at
          /\ heap[bound[f].at] = [live |-> TRUE, port |-> bound[f].port,
                                  callback |-> bound[f].callback]
      BY <1>4 DEF SlotsAreBindings
    <2>2. bound[f] \in Binding
      BY <1>4 DEF SlotsAreBindings
    <2> QED
      BY <1>3, <2>1, <2>2, UdpAssumption DEF MayDiffer, Dangling, Binding
  <1>6. id \in 0 .. UDP_MAX_BINDINGS /\ \A j \in 0 .. id - 1 : MayDiffer(j, port)
    BY DEF SearchFor
  <1>7. id <= f - 1
    BY <1>4, <1>5, <1>6, UdpAssumption DEF Slots
  <1>8. ~ (id < f - 1)
    <2> SUFFICES ASSUME id < f - 1
                 PROVE  FALSE
      OBVIOUS
    <2>1. id \in Slots /\ id + 1 \in 1 .. Len(bound) /\ id + 1 < f
      BY <1>4, <1>6, UdpAssumption DEF Slots
    <2>2. MayRead(id, port)
      BY <2>1, SlotsAreNaturals DEF SearchFor
    <2>3. /\ udp_bindings[id] = bound[id + 1].at
          /\ heap[bound[id + 1].at] = [live |-> TRUE, port |-> bound[id + 1].port,
                                       callback |-> bound[id + 1].callback]
      BY <2>1 DEF SlotsAreBindings, Slots
    <2>4. bound[id + 1] \in Binding
      BY <2>1 DEF SlotsAreBindings
    <2>5. bound[id + 1].port = port
      BY <2>2, <2>3, <2>4, UdpAssumption DEF MayRead, Dangling, Binding
    <2> QED
      BY <1>1, <1>3, <1>4, <2>1, <2>5
  <1> QED
    BY <1>1, <1>3, <1>4, <1>6, <1>7, <1>8 DEF Slots

LEMMA InitEstablishes == Init => IInv
  <1> SUFFICES ASSUME Init PROVE IInv
    OBVIOUS
  <1>1. bound = << >> /\ Len(bound) = 0 /\ bound \in Seq(Binding)
    BY DEF Init
  <1>2. \A id \in Slots : udp_bindings[id] = NULL /\ ~ (id < 0)
    BY SlotsAreNaturals DEF Init
  <1>3. SlotsAreBindings
    BY <1>1, <1>2, UdpAssumption DEF SlotsAreBindings
  <1>4. udp_bindings \in [Slots -> Addr \cup {NULL}] /\ unbinds \in BOOLEAN
    BY DEF Init
  <1>7. heap \in Heap
    <2>1. PICK p \in Ports, c \in Callbacks :
             heap = [a \in Addr |-> [live |-> FALSE, port |-> p, callback |-> c]]
      BY DEF Init
    <2> QED
      BY <2>1 DEF Heap
  <1>5. last = [call |-> "boot"] /\ last.call = "boot"
    BY DEF Init
  <1>6. UsedSlotsFirst /\ DeliveredToFirstBinder /\ RefusedOnlyWhenFull
    BY <1>2, <1>5 DEF UsedSlotsFirst, DeliveredToFirstBinder, RefusedOnlyWhenFull
  <1> QED
    BY <1>3, <1>4, <1>6, <1>7 DEF IInv

\* udp_bind keeps the slots filled in order, and gives the new binding an
\* object that no other binding has.
LEMMA BindPreserves ==
    ASSUME IInv, NEW port \in Ports, NEW callback \in Callbacks, UdpBind(port, callback)
    PROVE  IInv'
  <1>1. CASE /\ FirstNull = {}
             /\ last' = [call |-> "bind", full |-> TRUE, result |-> FALSE]
             /\ UNCHANGED <<udp_bindings, heap, bound, unbinds>>
    <2>1. ~ unbinds => Len(bound) = UDP_MAX_BINDINGS
      <3> SUFFICES ASSUME ~ unbinds PROVE Len(bound) = UDP_MAX_BINDINGS
        OBVIOUS
      <3>1. Len(bound) \in Nat /\ Len(bound) <= UDP_MAX_BINDINGS
        BY DEF IInv, SlotsAreBindings
      <3>2. ~ (Len(bound) < UDP_MAX_BINDINGS)
        <4> SUFFICES ASSUME Len(bound) < UDP_MAX_BINDINGS PROVE FALSE
          OBVIOUS
        <4>1. Len(bound) \in Slots
          BY <3>1, UdpAssumption DEF Slots
        <4>2. udp_bindings[Len(bound)] = NULL
          BY <3>1, <4>1 DEF IInv, SlotsAreBindings
        <4> QED
          BY <1>1, <4>1, <4>2 DEF FirstNull
      <3> QED
        BY <3>1, <3>2, UdpAssumption
    <2>2. last'.call = "bind"
      BY <1>1
    <2>3. DeliveredToFirstBinder' /\ RefusedOnlyWhenFull'
      BY <1>1, <2>1, <2>2 DEF DeliveredToFirstBinder, RefusedOnlyWhenFull
    <2> QED
      BY <1>1, <2>3 DEF IInv, UsedSlotsFirst, SlotsAreBindings, Slots
  <1>2. ASSUME FirstNull # {},
               NEW a \in Free,
               udp_bindings' = Store(a),
               heap' = [heap EXCEPT ![a] = [live |-> TRUE, port |-> port, callback |-> callback]],
               bound' = Append(bound, [port |-> port, callback |-> callback, at |-> a]),
               last' = [call |-> "bind", full |-> FALSE, result |-> TRUE],
               UNCHANGED unbinds
        PROVE  IInv'
    <2> DEFINE s == Min(FirstNull)
    <2>1. s \in FirstNull /\ \A id \in FirstNull : s <= id
      BY <1>2, SlotsAreNaturals, MinOfNaturals DEF FirstNull
    <2>2. s \in Slots /\ s \in Nat /\ udp_bindings[s] = NULL
      BY <2>1, SlotsAreNaturals DEF FirstNull
    <2>3. a \in Addr /\ ~ heap[a].live /\ a # NULL
      BY <1>2, UdpAssumption DEF Free
    <2>4. udp_bindings' = [udp_bindings EXCEPT ![s] = a]
      BY <1>2 DEF Store
    <2> HIDE DEF s
    <2>5. udp_bindings' \in [Slots -> Addr \cup {NULL}] /\ heap' \in Heap /\ unbinds' \in BOOLEAN
      BY <1>2, <2>2, <2>3, <2>4 DEF IInv, Heap
    <2>6. UsedSlotsFirst'
      <3> SUFFICES ASSUME NEW id \in Slots, udp_bindings'[id] = NULL, NEW j \in Slots, j > id
                   PROVE  udp_bindings'[j] = NULL
        BY DEF UsedSlotsFirst, Slots
      <3>1. id # s /\ udp_bindings[id] = NULL
        BY <2>2, <2>3, <2>4 DEF IInv
      <3>2. s <= id /\ id \in Nat /\ j \in Nat
        BY <2>1, <3>1, SlotsAreNaturals DEF FirstNull
      <3>3. j # s
        BY <2>2, <3>1, <3>2
      <3>4. udp_bindings[j] = NULL
        BY <3>1 DEF IInv, UsedSlotsFirst
      <3> QED
        BY <2>4, <3>3, <3>4 DEF IInv
    <2>7. ASSUME ~ unbinds PROVE SlotsAreBindings'
      <3> DEFINE n == Len(bound)
                 b == [port |-> port, callback |-> callback, at |-> a]
      <3>0. SlotsAreBindings
        BY <2>7 DEF IInv
      <3>1. /\ bound \in Seq(Binding) /\ n \in Nat /\ n <= UDP_MAX_BINDINGS
            /\ b \in Binding
            /\ \A id \in Slots : id < n => bound[id + 1] \in Binding
        <4>1. bound \in Seq(Binding) /\ n \in Nat /\ n <= UDP_MAX_BINDINGS
          BY <3>0 DEF SlotsAreBindings
        <4>2. b \in Binding
          BY <2>3 DEF Binding
        <4>3. \A id \in Slots : id < n => id + 1 \in 1 .. n
          BY <4>1, SlotsAreNaturals
        <4> QED
          BY <4>1, <4>2, <4>3
      <3>2. /\ \A id \in Slots : id < n =>
                  /\ udp_bindings[id] = bound[id + 1].at
                  /\ heap[bound[id + 1].at] = [live     |-> TRUE,
                                               port     |-> bound[id + 1].port,
                                               callback |-> bound[id + 1].callback]
            /\ \A id \in Slots : n <= id => udp_bindings[id] = NULL
        BY <3>0 DEF SlotsAreBindings
      <3>3. ~ (s < n)
        <4> SUFFICES ASSUME s < n PROVE FALSE
          OBVIOUS
        <4>1. bound[s + 1].at \in Addr
          BY <2>2, <3>1 DEF Binding
        <4> QED
          BY <2>2, <3>2, <4>1, UdpAssumption
      <3>4. n \in Slots
        BY <2>2, <3>1, <3>3, SlotsAreNaturals, UdpAssumption DEF Slots
      <3>5. s = n
        BY <2>1, <2>2, <3>1, <3>2, <3>3, <3>4 DEF FirstNull
      <3>6. /\ bound' = Append(bound, b) /\ bound' \in Seq(Binding)
            /\ Len(bound') = n + 1
            /\ bound'[n + 1] = b
            /\ \A k \in 1 .. n : bound'[k] = bound[k]
        BY <1>2, <3>1
      <3>7. n + 1 <= UDP_MAX_BINDINGS
        BY <3>1, <3>4, SlotsAreNaturals
      <3>8. ASSUME NEW id \in Slots
            PROVE  /\ id < n + 1 =>
                         /\ udp_bindings'[id] = bound'[id + 1].at
                         /\ heap'[bound'[id + 1].at] = [live     |-> TRUE,
                                                        port     |-> bound'[id + 1].port,
                                                        callback |-> bound'[id + 1].callback]
                   /\ n + 1 <= id => udp_bindings'[id] = NULL
        <4>1. CASE id = n
          <5>1. udp_bindings'[id] = a /\ bound'[id + 1] = b
            BY <2>4, <3>5, <3>6, <4>1 DEF IInv
          <5>2. heap'[a] = [live |-> TRUE, port |-> port, callback |-> callback]
            BY <1>2, <2>3 DEF IInv, Heap
          <5> QED
            BY <3>1, <4>1, <5>1, <5>2
        <4>2. CASE id < n
          <5>1. id + 1 \in 1 .. n /\ id # n /\ bound'[id + 1] = bound[id + 1]
            BY <3>1, <3>6, <4>2, SlotsAreNaturals
          <5>2. udp_bindings'[id] = udp_bindings[id]
            BY <2>4, <3>5, <5>1 DEF IInv
          <5>3. bound[id + 1] \in Binding /\ bound[id + 1].at \in Addr
            BY <3>1, <4>2 DEF Binding
          <5>4. heap[bound[id + 1].at].live
            <6>1. heap[bound[id + 1].at] = [live     |-> TRUE,
                                            port     |-> bound[id + 1].port,
                                            callback |-> bound[id + 1].callback]
              BY <3>2, <4>2
            <6> QED
              BY <6>1
          <5>5. heap'[bound[id + 1].at] = heap[bound[id + 1].at]
            BY <1>2, <2>3, <5>3, <5>4 DEF IInv, Heap
          <5> QED
            BY <3>1, <3>2, <4>2, <5>1, <5>2, <5>5, SlotsAreNaturals
        <4>3. CASE n < id
          BY <2>4, <3>1, <3>2, <3>5, <4>3, SlotsAreNaturals DEF IInv
        <4> QED
          BY <3>1, <4>1, <4>2, <4>3, SlotsAreNaturals
      <3> HIDE DEF n, b
      <3> QED
        BY <3>6, <3>7, <3>8 DEF SlotsAreBindings, Slots
    <2>8. last'.call = "bind" /\ ~ last'.full
      BY <1>2
    <2>9. DeliveredToFirstBinder' /\ RefusedOnlyWhenFull'
      BY <2>8 DEF DeliveredToFirstBinder, RefusedOnlyWhenFull
    <2> QED
      BY <1>2, <2>5, <2>6, <2>7, <2>9 DEF IInv
  <1> QED
    BY <1>1, <1>2 DEF UdpBind

\* A refused udp_bind leaves everything but its own result as it is.
LEMMA BindFailsPreserves == IInv /\ UdpBindFails => IInv'
  <1> SUFFICES ASSUME IInv, UdpBindFails PROVE IInv'
    OBVIOUS
  <1>1. last'.call = "bind" /\ ~ last'.full
    BY DEF UdpBindFails
  <1>2. DeliveredToFirstBinder' /\ RefusedOnlyWhenFull'
    BY <1>1 DEF DeliveredToFirstBinder, RefusedOnlyWhenFull
  <1> QED
    BY <1>2 DEF IInv, UdpBindFails, UsedSlotsFirst, SlotsAreBindings, Slots

\* udp_unbind leaves the slots alone, so their order survives it.
LEMMA UnbindPreserves ==
    ASSUME IInv, NEW port \in Ports, UdpUnbind(port)
    PROVE  IInv'
  <1>1. udp_bindings' = udp_bindings /\ unbinds' = TRUE
    BY DEF UdpUnbind
  <1>2. heap' \in Heap
    <2>1. PICK id \in SearchFor(port) :
             \/ heap' = heap
             \/ Sound(id) /\ heap' = [heap EXCEPT ![udp_bindings[id]].live = FALSE]
      BY DEF UdpUnbind
    <2> QED
      BY <2>1 DEF IInv, Heap
  <1>3. UsedSlotsFirst'
    BY <1>1 DEF IInv, UsedSlotsFirst, Slots
  <1> QED
    BY <1>1, <1>2, <1>3 DEF IInv, DeliveredToFirstBinder, RefusedOnlyWhenFull

\* A datagram for a bound port is handed to the callback of its first binding.
LEMMA DecodePreserves ==
    ASSUME IInv, NEW port \in Ports, NEW checksum \in Checksums, UdpDecode(port, checksum)
    PROVE  IInv'
  <1>1. UNCHANGED <<udp_bindings, heap, bound, unbinds>>
    BY DEF UdpDecode
  <1>2. PICK id \in SearchFor(port) :
           IF id = UDP_MAX_BINDINGS \/ ~ Accepted(checksum)
           THEN last' = [call |-> "decode", port |-> port, checksum |-> checksum, result |-> "none"]
           ELSE IF Sound(id)
           THEN last' = [call |-> "decode", port |-> port, checksum |-> checksum,
                         result |-> heap[udp_bindings[id]].callback]
           ELSE last' = [call |-> "wild", port |-> port]
    BY DEF UdpDecode
  <1>3. last'.port = port /\ last'.call \in {"decode", "wild"}
    BY <1>2
  <1>4. RefusedOnlyWhenFull'
    BY <1>3 DEF RefusedOnlyWhenFull
  <1>5. ASSUME ~ unbinds, port \in BoundPorts
        PROVE  /\ last'.call = "decode"
               /\ last'.result = IF last'.checksum = "wrong" THEN "none"
                                 ELSE bound[FirstOf(port)].callback
    <2> DEFINE b == bound[FirstOf(port)]
    <2>1. SlotsAreBindings
      BY <1>5 DEF IInv
    <2>2. id \in Slots /\ FirstOf(port) \in DOMAIN bound /\ id + 1 = FirstOf(port)
      BY <1>5, <2>1, SearchFindsFirst
    <2>3. id < Len(bound) /\ b \in Binding
      BY <2>1, <2>2, SlotsAreNaturals DEF SlotsAreBindings
    <2>4. udp_bindings[id] = b.at /\ heap[b.at] = [live |-> TRUE, port |-> b.port, callback |-> b.callback]
      BY <2>1, <2>2, <2>3 DEF SlotsAreBindings
    <2>5. Sound(id) /\ heap[udp_bindings[id]].callback = b.callback
      BY <2>3, <2>4, UdpAssumption DEF Sound, Dangling, Binding
    <2>6. id # UDP_MAX_BINDINGS
      BY <2>2, SlotsAreNaturals
    <2>7. CASE checksum = "wrong"
      BY <1>2, <2>7 DEF Accepted
    <2>8. CASE checksum # "wrong"
      <3>1. last' = [call |-> "decode", port |-> port, checksum |-> checksum,
                     result |-> b.callback]
        BY <1>2, <2>5, <2>6, <2>8 DEF Accepted
      <3> QED
        BY <2>8, <3>1
    <2> QED
      BY <2>7, <2>8
  <1>6. DeliveredToFirstBinder'
    BY <1>1, <1>3, <1>5 DEF DeliveredToFirstBinder, BoundPorts, FirstOf
  <1> QED
    BY <1>1, <1>4, <1>6 DEF IInv, UsedSlotsFirst, SlotsAreBindings, Slots

\* The inductive invariant holds in every state.
THEOREM Invariance == Spec => []IInv
  <1>1. ASSUME IInv, [Next]_vars PROVE IInv'
    <2>1. CASE \E port \in Ports, callback \in Callbacks : UdpBind(port, callback)
      BY <1>1, <2>1, BindPreserves
    <2>2. CASE UdpBindFails
      BY <1>1, <2>2, BindFailsPreserves
    <2>3. CASE \E port \in Ports : UdpUnbind(port)
      BY <1>1, <2>3, UnbindPreserves
    <2>4. CASE \E port \in Ports, checksum \in Checksums : UdpDecode(port, checksum)
      BY <1>1, <2>4, DecodePreserves
    <2>5. CASE UNCHANGED vars
      BY <1>1, <2>5 DEF IInv, vars, UsedSlotsFirst, SlotsAreBindings, Slots,
         DeliveredToFirstBinder, RefusedOnlyWhenFull, BoundPorts, FirstOf
    <2> QED
      BY <1>1, <2>1, <2>2, <2>3, <2>4, <2>5 DEF Next
  <1> QED
    BY <1>1, InitEstablishes, PTL DEF Spec

\* As long as nothing is unbound, a datagram for a bound port reaches the
\* callback that bound the port first, whatever ports the NULL slots seem to
\* hold (udp.c:101-128).
THEOREM FirstBinderServed == Spec => []DeliveredToFirstBinder
  <1>1. IInv => DeliveredToFirstBinder
    BY DEF IInv
  <1> QED
    BY <1>1, Invariance, PTL

\* The slots in use come before the free ones, with udp_unbind too
\* (udp.c:143, udp.c:182).
THEOREM SlotsFilledInOrder == Spec => []UsedSlotsFirst
  <1>1. IInv => UsedSlotsFirst
    BY DEF IInv
  <1> QED
    BY <1>1, Invariance, PTL

\* As long as nothing is unbound, no slot is wasted: a port is refused for want
\* of one only when UDP_MAX_BINDINGS bindings are in force (udp.c:147).
THEOREM NoSlotWasted == Spec => []RefusedOnlyWhenFull
  <1>1. IInv => RefusedOnlyWhenFull
    BY DEF IInv
  <1> QED
    BY <1>1, Invariance, PTL
----------------------------------------------------------------------------
\* The bindings in force, with udp_unbind too: that there are at most as many
\* as slots follows from the rest, for each has a slot of its own.
LEMMA OneSlotEach ==
    ASSUME NEW b \in Seq(Binding), NEW slots \in [Slots -> Addr \cup {NULL}],
           \A n \in DOMAIN b : \E id \in Slots : slots[id] = b[n].at,
           \A n, m \in DOMAIN b : b[m].at = b[n].at => m = n
    PROVE  Len(b) <= UDP_MAX_BINDINGS
  <1> DEFINE f == [n \in 1 .. Len(b) |-> CHOOSE id \in Slots : slots[id] = b[n].at]
  <1>1. DOMAIN b = 1 .. Len(b) /\ Len(b) \in Nat
    OBVIOUS
  <1>2. \A n \in 1 .. Len(b) : f[n] \in Slots /\ slots[f[n]] = b[n].at
    BY <1>1
  <1>3. \A n, m \in 1 .. Len(b) : f[n] = f[m] => n = m
    BY <1>1, <1>2
  <1>4. f \in [1 .. Len(b) -> Slots]
    BY <1>2
  <1>5. /\ IsFiniteSet(Slots) /\ Cardinality(Slots) = UDP_MAX_BINDINGS
        /\ IsFiniteSet(1 .. Len(b)) /\ Cardinality(1 .. Len(b)) = Len(b)
    <2>1. \A n \in Nat : IsFiniteSet(1 .. n) /\ Cardinality(1 .. n) = n
      BY FS_Interval
    <2>2. \A n \in Nat \ {0} : IsFiniteSet(0 .. n - 1) /\ Cardinality(0 .. n - 1) = n
      <3> TAKE n \in Nat \ {0}
      <3>1. 0 \in Int /\ n - 1 \in Int /\ ~ (0 > n - 1) /\ (n - 1) - 0 + 1 = n
        OBVIOUS
      <3> QED
        BY <3>1, FS_Interval
    <2> QED
      BY <1>1, <2>1, <2>2, UdpAssumption DEF Slots
  <1> HIDE DEF f
  <1>6. ~ (UDP_MAX_BINDINGS < Len(b))
    <2> SUFFICES ASSUME UDP_MAX_BINDINGS < Len(b) PROVE FALSE
      OBVIOUS
    <2>1. \E x, y \in 1 .. Len(b) : x # y /\ f[x] = f[y]
      BY <1>4, <1>5, FS_PigeonHole
    <2> QED
      BY <1>3, <2>1
  <1> QED
    BY <1>1, <1>6, UdpAssumption

LEMMA BoundAt ==
    ASSUME BindingsKept, NEW n \in DOMAIN bound
    PROVE  bound[n] \in Binding /\ bound[n].at \in Addr /\ heap[bound[n].at].live
  <1>1. bound[n] \in Binding
    BY DEF BindingsKept, TypeOK
  <1>2. heap[bound[n].at] = [live |-> TRUE, port |-> bound[n].port, callback |-> bound[n].callback]
    BY DEF BindingsKept
  <1> QED
    BY <1>1, <1>2 DEF Binding

\* What is left of the bindings when the one at an address goes: those with
\* other addresses, each once.
LEMMA WithoutBinding ==
    ASSUME BindingsKept, NEW a
    PROVE  /\ Without(a) \in Seq(Binding)
           /\ \A n \in DOMAIN Without(a) : \E m \in DOMAIN bound :
                 Without(a)[n] = bound[m] /\ bound[m].at # a
           /\ \A n, m \in DOMAIN Without(a) : Without(a)[m].at = Without(a)[n].at => m = n
  <1> DEFINE ns == {n \in DOMAIN bound : bound[n].at = a}
             l  == Len(bound)
             b  == Without(a)
  <1>1. bound \in Seq(Binding) /\ l \in Nat /\ DOMAIN bound = 1 .. l
    BY DEF BindingsKept, TypeOK
  <1>2. \A n, m \in DOMAIN bound : bound[m].at = bound[n].at => m = n
    BY DEF BindingsKept
  <1>3. CASE ns = {}
    <2>1. b = bound
      BY <1>3 DEF Without
    <2> QED
      BY <1>1, <1>2, <1>3, <2>1
  <1>4. CASE ns # {}
    <2> DEFINE k == Min(ns)
    <2>0. b = RemoveAt(bound, k)
      BY <1>4 DEF Without
    <2>1. k \in ns /\ b = SubSeq(bound, 1, k - 1) \o SubSeq(bound, k + 1, l)
      <3>1. ns \subseteq Nat
        BY <1>1
      <3>2. k \in ns
        BY <1>4, <3>1, MinOfNaturals
      <3> QED
        BY <2>0, <3>2 DEF RemoveAt
    <2> HIDE DEF k, b
    <2>2. k \in 1 .. l /\ bound[k].at = a
      BY <1>1, <2>1
    <2> HIDE DEF ns, l
    <2>3. /\ b \in Seq(Binding) /\ Len(b) = l - 1
          /\ \A n \in 1 .. l - 1 : b[n] = IF n < k THEN bound[n] ELSE bound[n + 1]
      <3> DEFINE front == SubSeq(bound, 1, k - 1)
                 rest  == SubSeq(bound, k + 1, l)
      <3>1. /\ front \in Seq(Binding) /\ Len(front) = k - 1
            /\ \A n \in 1 .. k - 1 : front[n] = bound[n]
        BY <1>1, <2>2 DEF l
      <3>2. /\ rest \in Seq(Binding) /\ Len(rest) = l - k
            /\ \A n \in 1 .. l - k : rest[n] = bound[k + n]
        <4>1. k + 1 \in Int /\ l \in Int /\ k + 1 <= l + 1 /\ k + 1 >= 1
          BY <1>1, <2>2
        <4>2. rest \in Seq(Binding)
          BY <1>1, <4>1 DEF l
        <4>3. Len(rest) = l - k
          BY <1>1, <2>2, <4>1
        <4>4. \A n \in 1 .. l - k : rest[n] = bound[k + n]
          BY <1>1, <2>2, <4>1
        <4> QED
          BY <4>2, <4>3, <4>4
      <3> HIDE DEF front, rest
      <3>3. b = front \o rest
        BY <2>1 DEF front, rest
      <3>4. b \in Seq(Binding) /\ Len(b) = l - 1
        <4>1. b \in Seq(Binding) /\ Len(b) = Len(front) + Len(rest)
          BY <3>1, <3>2, <3>3, ConcatProperties
        <4>2. (k - 1) + (l - k) = l - 1
          BY <1>1, <2>2
        <4> QED
          BY <3>1, <3>2, <4>1, <4>2
      <3>5. ASSUME NEW n \in 1 .. l - 1
            PROVE  b[n] = IF n < k THEN bound[n] ELSE bound[n + 1]
        <4>1. CASE n < k
          BY <1>1, <2>2, <3>1, <3>2, <3>3, <4>1
        <4>2. CASE ~ (n < k)
          <5>1. n - (k - 1) \in 1 .. l - k /\ k + (n - (k - 1)) = n + 1
            BY <1>1, <2>2, <4>2
          <5>2. b[n] = rest[n - (k - 1)]
            BY <1>1, <2>2, <3>1, <3>2, <3>3, <4>2
          <5> QED
            BY <3>2, <4>2, <5>1, <5>2
        <4> QED
          BY <4>1, <4>2
      <3> QED
        BY <3>4, <3>5
    <2> DEFINE old(n) == IF n < k THEN n ELSE n + 1
    <2>4. DOMAIN b = 1 .. l - 1
      BY <2>3
    <2>5. \A n \in 1 .. l - 1 : old(n) \in 1 .. l /\ old(n) # k /\ b[n] = bound[old(n)]
      BY <1>1, <2>2, <2>3
    <2>6. \A n, m \in 1 .. l - 1 : old(n) = old(m) => n = m
      BY <1>1, <2>2
    <2> HIDE DEF old
    <2>7. \A n \in DOMAIN b : \E m \in DOMAIN bound : b[n] = bound[m] /\ bound[m].at # a
      BY <1>1, <1>2, <2>2, <2>4, <2>5
    <2>8. \A n, m \in DOMAIN b : b[m].at = b[n].at => m = n
      BY <1>1, <1>2, <2>4, <2>5, <2>6
    <2> QED
      BY <2>3, <2>7, <2>8 DEF b
  <1> QED
    BY <1>3, <1>4

\* A binding gets an object that no other has, and a slot that pointed nowhere.
LEMMA BindKeeps ==
    ASSUME BindingsKept, NEW port \in Ports, NEW callback \in Callbacks, UdpBind(port, callback)
    PROVE  BindingsKept'
  <1>1. CASE /\ FirstNull = {}
             /\ last' = [call |-> "bind", full |-> TRUE, result |-> FALSE]
             /\ UNCHANGED <<udp_bindings, heap, bound, unbinds>>
    <2>1. last' \in Calls
      BY <1>1 DEF Calls
    <2> QED
      BY <1>1, <2>1 DEF BindingsKept, TypeOK
  <1>2. ASSUME FirstNull # {},
               NEW a \in Free,
               udp_bindings' = Store(a),
               heap' = [heap EXCEPT ![a] = [live |-> TRUE, port |-> port, callback |-> callback]],
               bound' = Append(bound, [port |-> port, callback |-> callback, at |-> a]),
               last' = [call |-> "bind", full |-> FALSE, result |-> TRUE],
               UNCHANGED unbinds
        PROVE  BindingsKept'
    <2> DEFINE s == Min(FirstNull)
               l == Len(bound)
               b == [port |-> port, callback |-> callback, at |-> a]
    <2>1. s \in Slots /\ udp_bindings[s] = NULL
      BY <1>2, SlotsAreNaturals, MinOfNaturals DEF FirstNull
    <2>2. a \in Addr /\ ~ heap[a].live /\ a # NULL
      BY <1>2, UdpAssumption DEF Free
    <2>3. udp_bindings' = [udp_bindings EXCEPT ![s] = a]
      BY <1>2 DEF Store
    <2> HIDE DEF s
    <2>4. udp_bindings \in [Slots -> Addr \cup {NULL}] /\ heap \in Heap
          /\ bound \in Seq(Binding) /\ unbinds \in BOOLEAN
      BY DEF BindingsKept, TypeOK, Heap
    <2>5. /\ udp_bindings' \in [Slots -> Addr \cup {NULL}]
          /\ heap' \in Heap
          /\ last' \in Calls
      BY <1>2, <2>1, <2>2, <2>3, <2>4 DEF Heap, Calls
    <2>6. /\ bound' \in Seq(Binding) /\ DOMAIN bound' = 1 .. l + 1 /\ DOMAIN bound = 1 .. l
          /\ l \in Nat
          /\ bound'[l + 1] = b
          /\ \A n \in 1 .. l : bound'[n] = bound[n]
      <3>1. b \in Binding
        BY <2>2 DEF Binding
      <3> HIDE DEF b
      <3>2. bound' = Append(bound, b)
        BY <1>2 DEF b
      <3> QED
        BY <2>4, <3>1, <3>2
    <2>7. ASSUME NEW n \in 1 .. l
          PROVE  /\ \E id \in Slots : udp_bindings'[id] = bound[n].at
                 /\ heap'[bound[n].at] = [live |-> TRUE, port |-> bound[n].port,
                                          callback |-> bound[n].callback]
                 /\ bound[n].at # a
      <3>1. n \in DOMAIN bound
        BY <2>6
      <3>2. bound[n].at \in Addr /\ bound[n].at # a
        BY <2>2, <3>1, BoundAt
      <3>3. PICK id \in Slots : udp_bindings[id] = bound[n].at
        BY <3>1 DEF BindingsKept
      <3>4. udp_bindings'[id] = bound[n].at
        BY <2>1, <2>3, <2>4, <3>2, <3>3, UdpAssumption
      <3>5. heap'[bound[n].at] = heap[bound[n].at]
        BY <1>2, <2>4, <3>2 DEF Heap
      <3> QED
        BY <3>1, <3>2, <3>4, <3>5 DEF BindingsKept
    <2>8. udp_bindings'[s] = a /\ heap'[a] = [live |-> TRUE, port |-> port, callback |-> callback]
      BY <1>2, <2>1, <2>2, <2>3, <2>4 DEF Heap
    <2>9. ASSUME NEW n \in DOMAIN bound'
          PROVE  /\ \E id \in Slots : udp_bindings'[id] = bound'[n].at
                 /\ heap'[bound'[n].at] = [live |-> TRUE, port |-> bound'[n].port,
                                           callback |-> bound'[n].callback]
      <3>1. CASE n = l + 1
        <4>1. bound'[n].at = a /\ bound'[n].port = port /\ bound'[n].callback = callback
          BY <2>6, <3>1
        <4> QED
          BY <2>1, <2>8, <4>1
      <3>2. CASE n # l + 1
        <4>1. n \in 1 .. l
          BY <2>6, <3>2
        <4> QED
          BY <2>6, <2>7, <4>1
      <3> QED
        BY <3>1, <3>2
    <2>10. ASSUME NEW n \in DOMAIN bound', NEW m \in DOMAIN bound', bound'[m].at = bound'[n].at
           PROVE  m = n
      <3>1. b.at = a
        OBVIOUS
      <3>2. \A i \in DOMAIN bound' : i = l + 1 \/ i \in 1 .. l
        BY <2>6
      <3>3. \A i \in 1 .. l : bound'[i].at # a
        BY <2>6, <2>7
      <3>4. \A i, j \in 1 .. l : bound'[i].at = bound'[j].at => i = j
        BY <2>6 DEF BindingsKept
      <3> QED
        BY <2>6, <2>10, <3>1, <3>2, <3>3, <3>4
    <2>11. Len(bound') <= UDP_MAX_BINDINGS
      <3>1. \A n \in DOMAIN bound' : \E id \in Slots : udp_bindings'[id] = bound'[n].at
        BY <2>9
      <3>2. \A n, m \in DOMAIN bound' : bound'[m].at = bound'[n].at => m = n
        BY <2>10
      <3> HIDE DEF b, l
      <3> QED
        BY <2>5, <2>6, <3>1, <3>2, OneSlotEach
    <2> QED
      BY <1>2, <2>4, <2>5, <2>6, <2>9, <2>10, <2>11 DEF BindingsKept, TypeOK, Heap, Slots, Binding, Calls, Checksums
  <1> QED
    BY <1>1, <1>2 DEF UdpBind

\* The object of the binding that goes is the only one that dies.
LEMMA UnbindKeeps ==
    ASSUME BindingsKept, NEW port \in Ports, UdpUnbind(port)
    PROVE  BindingsKept'
  <1>1. udp_bindings' = udp_bindings /\ unbinds' \in BOOLEAN
    BY DEF UdpUnbind
  <1>2. last' \in Calls
    <2>1. \/ last' = [call |-> "unbind", port |-> port, result |-> FALSE]
          \/ last' = [call |-> "unbind", port |-> port, result |-> TRUE]
          \/ last' = [call |-> "wild", port |-> port]
      BY DEF UdpUnbind
    <2>2. \A found \in BOOLEAN : [call |-> "unbind", port |-> port, result |-> found] \in Calls
      BY DEF Calls
    <2>3. [call |-> "wild", port |-> port] \in Calls
      BY DEF Calls
    <2>4. TRUE \in BOOLEAN /\ FALSE \in BOOLEAN
      OBVIOUS
    <2> QED
      BY <2>1, <2>2, <2>3, <2>4, Zenon
  <1>3. CASE UNCHANGED <<heap, bound>>
    BY <1>1, <1>2, <1>3 DEF BindingsKept, TypeOK
  <1>4. ASSUME NEW id \in Slots, Sound(id),
               heap' = [heap EXCEPT ![udp_bindings[id]].live = FALSE],
               bound' = Without(udp_bindings[id])
        PROVE  BindingsKept'
    <2> DEFINE a == udp_bindings[id]
    <2>1. udp_bindings \in [Slots -> Addr \cup {NULL}] /\ heap \in Heap
      BY DEF BindingsKept, TypeOK, Heap
    <2>2. a \in Addr
      BY <1>4, <2>1 DEF Sound
    <2>3. /\ bound' \in Seq(Binding)
          /\ \A n \in DOMAIN bound' : \E m \in DOMAIN bound : bound'[n] = bound[m] /\ bound[m].at # a
          /\ \A n, m \in DOMAIN bound' : bound'[m].at = bound'[n].at => m = n
      BY <1>4, WithoutBinding
    <2>4. heap' \in Heap /\ \A o \in Addr : o # a => heap'[o] = heap[o]
      BY <1>4, <2>1, <2>2 DEF Heap
    <2> HIDE DEF a
    <2>5. ASSUME NEW n \in DOMAIN bound'
          PROVE  /\ \E j \in Slots : udp_bindings'[j] = bound'[n].at
                 /\ heap'[bound'[n].at] = [live |-> TRUE, port |-> bound'[n].port,
                                           callback |-> bound'[n].callback]
      <3>1. PICK m \in DOMAIN bound : bound'[n] = bound[m] /\ bound[m].at # a
        BY <2>3
      <3>2. bound[m].at \in Addr
        BY BoundAt
      <3>3. heap'[bound[m].at] = heap[bound[m].at]
        BY <2>4, <3>1, <3>2
      <3> QED
        BY <1>1, <3>1, <3>3 DEF BindingsKept
    <2>6. Len(bound') <= UDP_MAX_BINDINGS
      <3>1. \A n \in DOMAIN bound' : \E j \in Slots : udp_bindings'[j] = bound'[n].at
        BY <2>5
      <3>2. udp_bindings' \in [Slots -> Addr \cup {NULL}]
        BY <1>1, <2>1
      <3> QED
        BY <2>3, <3>1, <3>2, OneSlotEach
    <2> QED
      BY <1>1, <1>2, <2>1, <2>3, <2>4, <2>5, <2>6
      DEF BindingsKept, TypeOK, Heap, Slots, Binding, Calls, Checksums
  <1>5. \/ UNCHANGED <<heap, bound>>
        \/ \E id \in Slots :
              /\ Sound(id)
              /\ heap' = [heap EXCEPT ![udp_bindings[id]].live = FALSE]
              /\ bound' = Without(udp_bindings[id])
    BY DEF UdpUnbind
  <1> QED
    BY <1>3, <1>4, <1>5

\* What a call through a sound slot returns is a callback.
LEMMA DecodeKeeps ==
    ASSUME BindingsKept, NEW port \in Ports, NEW checksum \in Checksums, UdpDecode(port, checksum)
    PROVE  BindingsKept'
  <1>1. UNCHANGED <<udp_bindings, heap, bound, unbinds>>
    BY DEF UdpDecode
  <1>2. last' \in Calls
    <2>1. PICK id \in SearchFor(port) :
             IF id = UDP_MAX_BINDINGS \/ ~ Accepted(checksum)
             THEN last' = [call |-> "decode", port |-> port, checksum |-> checksum, result |-> "none"]
             ELSE IF Sound(id)
             THEN last' = [call |-> "decode", port |-> port, checksum |-> checksum,
                           result |-> heap[udp_bindings[id]].callback]
             ELSE last' = [call |-> "wild", port |-> port]
      BY DEF UdpDecode
    <2>2. id # UDP_MAX_BINDINGS => id \in Slots
      BY UdpAssumption DEF SearchFor, Slots
    <2>3. ASSUME id \in Slots, Sound(id) PROVE heap[udp_bindings[id]].callback \in Callbacks
      <3>1. udp_bindings[id] \in Addr
        BY <2>3 DEF BindingsKept, TypeOK, Sound
      <3> QED
        BY <3>1 DEF BindingsKept, TypeOK
    <2> QED
      BY <2>1, <2>2, <2>3 DEF Calls
  <1> QED
    BY <1>1, <1>2 DEF BindingsKept, TypeOK

LEMMA InitKeeps == Init => BindingsKept
  <1> SUFFICES ASSUME Init PROVE BindingsKept
    OBVIOUS
  <1>1. bound = << >> /\ bound \in Seq(Binding) /\ DOMAIN bound = {} /\ Len(bound) = 0
    BY DEF Init
  <1>2. heap \in Heap
    BY InitEstablishes DEF IInv
  <1>3. udp_bindings \in [Slots -> Addr \cup {NULL}] /\ last \in Calls /\ unbinds \in BOOLEAN
    BY DEF Init, Calls
  <1> QED
    BY <1>1, <1>2, <1>3, UdpAssumption DEF BindingsKept, TypeOK, Heap

\* Whatever is bound and unbound, the table keeps its type, and a binding in
\* force has an object of its own, alive and unchanged, and a slot that points to
\* it (udp.c:151, udp.c:182).
THEOREM BindingsAreKept == Spec => []BindingsKept
  <1>1. ASSUME BindingsKept, [Next]_vars PROVE BindingsKept'
    <2>1. CASE \E port \in Ports, callback \in Callbacks : UdpBind(port, callback)
      BY <1>1, <2>1, BindKeeps
    <2>2. CASE UdpBindFails
      <3>1. last' \in Calls
        BY <2>2 DEF UdpBindFails, Calls
      <3> QED
        BY <1>1, <2>2, <3>1 DEF UdpBindFails, BindingsKept, TypeOK
    <2>3. CASE \E port \in Ports : UdpUnbind(port)
      BY <1>1, <2>3, UnbindKeeps
    <2>4. CASE \E port \in Ports, checksum \in Checksums : UdpDecode(port, checksum)
      BY <1>1, <2>4, DecodeKeeps
    <2>5. CASE UNCHANGED vars
      BY <1>1, <2>5 DEF BindingsKept, TypeOK, vars
    <2> QED
      BY <1>1, <2>1, <2>2, <2>3, <2>4, <2>5 DEF Next
  <1> QED
    BY <1>1, InitKeeps, PTL DEF Spec
=============================================================================
