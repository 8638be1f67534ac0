------------------------------ MODULE UdpPorts ------------------------------
(***************************************************************************)
(* The UDP port table (net/udp.c): ten pointers to heap objects that hold  *)
(* a port and the callback that receives its datagrams.                    *)
(*                                                                         *)
(* udp_decode and udp_unbind look through all pointers and read the port   *)
(* of each without asking whether it is NULL.  Address 0 of the AVR is its *)
(* register file, so what a NULL pointer reads is what the registers hold  *)
(* at that moment: any port of NullReads.  What a freed object reads is    *)
(* any port at all.  A search may stop at such a pointer; to call through  *)
(* it, or to free it again, has no defined outcome, and leaves the program *)
(* in the state "wild", in which it takes no more steps.                   *)
(***************************************************************************)
EXTENDS Integers, SequencesExt

CONSTANTS Ports, Callbacks, Addr, NULL,
          UDP_MAX_BINDINGS,
          NullReads      \* the ports that registers r0 and r1 may spell

ASSUME UdpAssumption ==
    /\ UDP_MAX_BINDINGS \in Nat \ {0}
    /\ NULL \notin Addr \cup Callbacks
    /\ NullReads \subseteq Ports

VARIABLES udp_bindings,  \* slot -> address or NULL
          heap,          \* address -> [live, port, callback]
          last,          \* the last call and its result
          bound,         \* history: the bindings in force, in order
          unbinds        \* history: udp_unbind has been called

vars == <<udp_bindings, heap, last, bound, unbinds>>
----------------------------------------------------------------------------
Slots == 0 .. UDP_MAX_BINDINGS - 1

Binding == [port : Ports, callback : Callbacks, at : Addr]

\* The checksum of a received datagram: absent (0), right or wrong.
Checksums == {"none", "right", "wrong"}

Calls == [call : {"boot"}]
           \cup [call : {"bind"}, full : BOOLEAN, result : BOOLEAN]
           \cup [call : {"unbind"}, port : Ports, result : BOOLEAN]
           \cup [call : {"decode"}, port : Ports, checksum : Checksums,
                 result : Callbacks \cup {"none"}]
           \cup [call : {"wild"}, port : Ports]

Free == {a \in Addr : ~ heap[a].live}

Dangling(id) == udp_bindings[id] # NULL /\ ~ heap[udp_bindings[id]].live

\* udp_bindings[id]->port may be, and may be other than, port.
MayRead(id, port) ==
    \/ udp_bindings[id] = NULL /\ port \in NullReads
    \/ Dangling(id)
    \/ udp_bindings[id] # NULL /\ heap[udp_bindings[id]].port = port

MayDiffer(id, port) ==
    \/ udp_bindings[id] = NULL
    \/ Dangling(id)
    \/ heap[udp_bindings[id]].port # port

\* Where the search for a port may end: a slot, or UDP_MAX_BINDINGS.
SearchFor(port) ==
    {id \in 0 .. UDP_MAX_BINDINGS :
        /\ \A j \in 0 .. id - 1 : MayDiffer(j, port)
        /\ id # UDP_MAX_BINDINGS => MayRead(id, port)}

Sound(id) == udp_bindings[id] # NULL /\ ~ Dangling(id)
----------------------------------------------------------------------------
Init ==
    /\ udp_bindings = [id \in Slots |-> NULL]
    /\ \E p \in Ports, c \in Callbacks :
          heap = [a \in Addr |-> [live |-> FALSE, port |-> p, callback |-> c]]
    /\ last = [call |-> "boot"]
    /\ bound = << >>
    /\ unbinds = FALSE

\* Fault: the last slot is never used.
FirstNullShort ==
    {id \in Slots : udp_bindings[id] = NULL /\ id < UDP_MAX_BINDINGS - 1}

\* The slots at which the search of udp_bind could stop.
FirstNull == {id \in Slots : udp_bindings[id] = NULL}

\* Fault: a binding is entered in slot 0, or in the last free slot.
StoreAtZero(a) == [udp_bindings EXCEPT ![0] = a]
StoreAtLast(a) == [udp_bindings EXCEPT ![Max(FirstNull)] = a]

Store(a) == [udp_bindings EXCEPT ![Min(FirstNull)] = a]

UdpBind(port, callback) ==
    /\ last.call # "wild"
    /\ \/ /\ FirstNull = {}
          /\ last' = [call |-> "bind", full |-> TRUE, result |-> FALSE]
          /\ UNCHANGED <<udp_bindings, heap, bound>>
       \/ /\ FirstNull # {}
          /\ \E a \in Free :
                /\ udp_bindings' = Store(a)
                /\ heap' = [heap EXCEPT ![a] = [live |-> TRUE, port |-> port, callback |-> callback]]
                /\ bound' = Append(bound, [port |-> port, callback |-> callback, at |-> a])
          /\ last' = [call |-> "bind", full |-> FALSE, result |-> TRUE]
    /\ UNCHANGED unbinds

\* calloc returns NULL, and so does the slot stay.
UdpBindFails ==
    /\ last.call # "wild" /\ FirstNull # {}
    /\ last' = [call |-> "bind", full |-> FALSE, result |-> FALSE]
    /\ UNCHANGED <<udp_bindings, heap, bound, unbinds>>

\* History: the binding whose object is at a is no longer in force.
Without(a) ==
    LET ns == {n \in DOMAIN bound : bound[n].at = a}
    IN  IF ns = {} THEN bound ELSE RemoveAt(bound, Min(ns))

\* The object is freed; the slot keeps its address.
UdpUnbind(port) ==
    /\ last.call # "wild"
    /\ unbinds' = TRUE
    /\ \E id \in SearchFor(port) :
          \/ /\ id = UDP_MAX_BINDINGS
             /\ last' = [call |-> "unbind", port |-> port, result |-> FALSE]
             /\ UNCHANGED <<heap, bound>>
          \/ /\ id \in Slots /\ udp_bindings[id] = NULL
             /\ last' = [call |-> "unbind", port |-> port, result |-> TRUE]
             /\ UNCHANGED <<heap, bound>>
          \/ /\ id \in Slots /\ Sound(id)
             /\ heap' = [heap EXCEPT ![udp_bindings[id]].live = FALSE]
             /\ last' = [call |-> "unbind", port |-> port, result |-> TRUE]
             /\ bound' = Without(udp_bindings[id])
          \/ /\ id \in Slots /\ Dangling(id)
             /\ last' = [call |-> "wild", port |-> port]
             /\ UNCHANGED <<heap, bound>>
    /\ UNCHANGED udp_bindings

\* Fault: an absent checksum is taken as wrong.
AcceptedStrict(checksum) == checksum = "right"

\* A header checksum of zero is not checked.
Accepted(checksum) == checksum # "wrong"

\* A datagram long enough to hold its header; shorter ones are dropped unread.
UdpDecode(port, checksum) ==
    /\ last.call # "wild"
    /\ \E id \in SearchFor(port) :
          IF id = UDP_MAX_BINDINGS \/ ~ Accepted(checksum)
          THEN last' = [call |-> "decode", port |-> port, checksum |-> checksum, result |-> "none"]
          ELSE IF Sound(id)
          THEN last' = [call |-> "decode", port |-> port, checksum |-> checksum,
                        result |-> heap[udp_bindings[id]].callback]
          ELSE last' = [call |-> "wild", port |-> port]
    /\ UNCHANGED <<udp_bindings, heap, bound, unbinds>>

Next ==
    \/ \E port \in Ports, callback \in Callbacks : UdpBind(port, callback)
    \/ UdpBindFails
    \/ \E port \in Ports : UdpUnbind(port)
    \/ \E port \in Ports, checksum \in Checksums : UdpDecode(port, checksum)

Spec == Init /\ [][Next]_vars
----------------------------------------------------------------------------
\* The first binding in force of a port.
FirstOf(port) == Min({n \in DOMAIN bound : bound[n].port = port})

BoundPorts == {bound[n].port : n \in DOMAIN bound}

\* Slots hold addresses, addresses hold bindings, calls have results.
TypeOK ==
    /\ udp_bindings \in [Slots -> Addr \cup {NULL}]
    /\ heap \in [Addr -> [live : BOOLEAN, port : Ports, callback : Callbacks]]
    /\ last \in Calls
    /\ bound \in Seq(Binding) /\ Len(bound) <= UDP_MAX_BINDINGS
    /\ unbinds \in BOOLEAN

\* As long as nothing is unbound, a datagram for a bound port reaches the
\* callback that bound the port first, unless its checksum is wrong, whatever
\* the pointers that are still NULL read (udp.c:101-128 with udp.c:143).
DeliveredToFirstBinder ==
    ~ unbinds /\ last.call \in {"decode", "wild"} /\ last.port \in BoundPorts =>
        /\ last.call = "decode"
        /\ last.result = IF last.checksum = "wrong" THEN "none"
                         ELSE bound[FirstOf(last.port)].callback

\* With udp_unbind too, the table keeps its type, and a binding in force has an
\* object of its own, alive and unchanged, that some slot points to: no freed or
\* reused memory (udp.c:151, udp.c:182).
BindingsKept ==
    /\ TypeOK
    /\ \A n \in DOMAIN bound :
        /\ \E id \in Slots : udp_bindings[id] = bound[n].at
        /\ heap[bound[n].at] = [live |-> TRUE, port |-> bound[n].port,
                                callback |-> bound[n].callback]
        /\ \A m \in DOMAIN bound : bound[m].at = bound[n].at => m = n

\* The slots in use come first, so that the search for a port that is bound
\* meets no NULL pointer before it (udp.c:143 against udp.c:102).
UsedSlotsFirst ==
    \A id \in Slots : udp_bindings[id] = NULL =>
        \A j \in Slots : j > id => udp_bindings[j] = NULL

\* As long as nothing is unbound, a port is refused for want of a slot only
\* when UDP_MAX_BINDINGS bindings are in force (udp.c:147).
RefusedOnlyWhenFull ==
    ~ unbinds /\ last.call = "bind" /\ last.full => Len(bound) = UDP_MAX_BINDINGS

\* "checks if the port has been bound. If so, the function attached will be
\* called" (udp.h:100): nothing is called for a port that is not bound.
UnboundPortIgnored ==
    last.call = "wild" => last.port \in BoundPorts
============================================================================
