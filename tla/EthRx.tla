------------------------------- MODULE EthRx -------------------------------
(***************************************************************************)
(* Reception (dev/eth.c): the receive ring of the ENC28J60 controller,     *)
(* which the hardware fills at any time, and eth_receive_packet, which     *)
(* empties it one register access at a time.                               *)
(*                                                                         *)
(* Addresses are bytes.  The next-packet pointer, length and status that   *)
(* precede a frame are one byte here instead of six; a frame is a number,  *)
(* and its k-th byte the pair of the number and k.  The hardware starts    *)
(* every frame at an even address, writes only where the read pointer      *)
(* ERXRDPT lets it, and treats ERXWRPT = ERXRDPT as an empty ring; it is   *)
(* external, and modelled from how the driver uses it.  A frame counts as  *)
(* handed over when its last byte is in the caller's buffer.               *)
(***************************************************************************)
EXTENDS Integers, Sequences, FiniteSetsExt

CONSTANTS RX_STOP,     \* ETH_REG_RX_STOP; ETH_REG_RX_START is zero
          Lengths,     \* lengths of frames, without the CRC
          MAX_LENGTH,  \* the caller's max_length, 500 in net_periodic
          Ids,         \* frame numbers 0 .. n - 1, used in turn
          MaxCount     \* bound: EPKTCNT, 255 in the hardware

RingAssumption ==
    /\ RX_STOP \in Nat \ {0}
    /\ Lengths \subseteq 1 .. RX_STOP - 2
    /\ MAX_LENGTH \in Nat \ {0}
    /\ IsFiniteSet(Ids) /\ Ids = 0 .. Cardinality(Ids) - 1
    /\ MaxCount \in Nat /\ MaxCount < Cardinality(Ids)

VARIABLES mem,                 \* the ring
          erxwrpt, erxrdpt,    \* the hardware's write pointer, the read pointer
          epktcnt,             \* frames stored and not yet given back
          number,              \* the number of the next frame to arrive
          pc,                  \* where eth_receive_packet is
          eth_packet_pointer,  \* start of the next frame
          erdpt,               \* start of the frame that is being read
          length,              \* its length, limited
          copied,              \* the caller's buffer so far
          packet,              \* the data of the frame that was copied last
          lost                 \* history: an unread byte was overwritten

hw == <<mem, erxwrpt, epktcnt, number, lost>>
vars == <<mem, erxwrpt, erxrdpt, epktcnt, number, pc, eth_packet_pointer, erdpt, length,
          copied, packet, lost>>
----------------------------------------------------------------------------
Ring == 0 .. RX_STOP

After(address, n) == (address + n) % (RX_STOP + 1)

Distance(from, to) == (to - from) % (RX_STOP + 1)

Even(address) == IF address % 2 = 0 THEN address ELSE After(address, 1)

\* The start of the frame that follows one of the given length.
NextStart(start, len) == Even(After(start, 1 + len))

Vector(id, next, len, ok) == [id |-> id, k |-> 0, next |-> next, len |-> len, ok |-> ok]

Data(id, k) == [id |-> id, k |-> k]

Empty == [id |-> -1, k |-> 0]

\* Bytes the hardware may still fill: one always stays free.
FreeSpace == RX_STOP - Distance(erxrdpt, erxwrpt)

\* Whether the frame at erdpt has not been copied yet, how many frames have
\* not, and where they are: the start of each is in the vector before.
InHand == pc \in {"vector", "copy"}

Waiting == IF pc \in {"idle", "vector", "copy"} THEN epktcnt ELSE epktcnt - 1

Starts ==
    LET start[n \in 0 .. MaxCount] ==
            IF n = 0 THEN IF InHand THEN erdpt ELSE eth_packet_pointer
            ELSE IF n < Waiting THEN mem[start[n - 1]].next ELSE start[n - 1]
    IN  start

Unread ==
    UNION {{After(Starts[n], k) : k \in 0 .. mem[Starts[n]].len} : n \in 0 .. Waiting - 1}
----------------------------------------------------------------------------
Init ==
    /\ mem = [a \in Ring |-> Empty]
    /\ erxwrpt = 0 /\ erxrdpt = 0 /\ epktcnt = 0 /\ number = 0
    /\ pc = "idle"
    /\ eth_packet_pointer = 0 /\ erdpt = 0 /\ length = 0
    /\ copied = << >> /\ packet = << >>
    /\ lost = FALSE

\* The hardware stores a frame.  A frame that does not fit is dropped, and
\* changes nothing.
HwReceive(len, ok) ==
    LET next  == NextStart(erxwrpt, len)
        bytes == {After(erxwrpt, k) : k \in 0 .. len}
    IN  /\ Distance(erxwrpt, next) <= FreeSpace
        /\ 1 + len <= FreeSpace
        /\ epktcnt < MaxCount
        /\ mem' = [a \in Ring |->
                      IF a = erxwrpt THEN Vector(number, next, len, ok)
                      ELSE IF a \in bytes THEN Data(number, Distance(erxwrpt, a))
                      ELSE mem[a]]
        /\ lost' = (lost \/ bytes \cap Unread # {})
        /\ erxwrpt' = next
        /\ epktcnt' = epktcnt + 1
        /\ number' = (number + 1) % Cardinality(Ids)
        /\ UNCHANGED <<erxrdpt, pc, eth_packet_pointer, erdpt, length, copied, packet>>

\* Fault: a single pending frame is left for later.
CheckCountLate ==
    /\ pc = "idle" /\ epktcnt > 1
    /\ pc' = "vector"
    /\ erdpt' = eth_packet_pointer /\ copied' = << >> /\ length' = 0
    /\ UNCHANGED <<hw, erxrdpt, eth_packet_pointer, packet>>

\* eth_get_rx_packet_count() # 0, then ERDPT = eth_packet_pointer.
CheckCount ==
    /\ pc = "idle" /\ epktcnt # 0
    /\ pc' = "vector"
    /\ erdpt' = eth_packet_pointer /\ copied' = << >> /\ length' = 0
    /\ UNCHANGED <<hw, erxrdpt, eth_packet_pointer, packet>>

\* Fault: the limit leaves no room for the terminating zero, one byte more.
LimitTo(len) == IF len > MAX_LENGTH THEN MAX_LENGTH ELSE len
Limit(len)   == IF len > MAX_LENGTH - 1 THEN MAX_LENGTH - 1 ELSE len

\* Fault: the ring is given back before the frame is copied.
ReadVectorFreeing ==
    /\ pc = "vector"
    /\ eth_packet_pointer' = mem[erdpt].next
    /\ erxrdpt' = mem[erdpt].next
    /\ length' = IF mem[erdpt].ok THEN Limit(mem[erdpt].len) ELSE 0
    /\ pc' = "copy"
    /\ UNCHANGED <<hw, erdpt, copied, packet>>

\* Next-packet pointer, length and status are read and the length is limited.
ReadVector ==
    /\ pc = "vector"
    /\ eth_packet_pointer' = mem[erdpt].next
    /\ length' = IF mem[erdpt].ok THEN Limit(mem[erdpt].len) ELSE 0
    /\ pc' = "copy"
    /\ UNCHANGED <<hw, erxrdpt, erdpt, copied, packet>>

\* eth_read_buffer: one byte.
CopyByte ==
    /\ pc = "copy" /\ Len(copied) < length
    /\ LET byte == mem[After(erdpt, Len(copied) + 1)]
       IN  copied' = Append(copied, <<byte.id, byte.k>>)
    /\ UNCHANGED <<hw, erxrdpt, pc, eth_packet_pointer, erdpt, length, packet>>

CopyEnd ==
    /\ pc = "copy" /\ Len(copied) = length
    /\ pc' = "free"
    /\ packet' = copied /\ copied' = << >>
    /\ length' = 0 /\ erdpt' = eth_packet_pointer
    /\ UNCHANGED <<hw, erxrdpt, eth_packet_pointer>>

\* ERXRDPT = eth_packet_pointer.
SetReadPointer ==
    /\ pc = "free"
    /\ erxrdpt' = eth_packet_pointer
    /\ pc' = "errata"
    /\ UNCHANGED <<hw, eth_packet_pointer, erdpt, length, copied, packet>>

\* Fault: no comparison with the ends of the ring, an uint16_t wraps.
BeforePointerUnchecked == (eth_packet_pointer - 1) % 65536

\* eth_packet_pointer - 1, unsigned, or the end of the ring when that is not in it.
BeforePointer == IF eth_packet_pointer = 0 THEN RX_STOP ELSE eth_packet_pointer - 1

\* ERXRDPT again, "See Rev. B4 Silicon Errata point 13".
SetReadPointerErrata ==
    /\ pc = "errata"
    /\ erxrdpt' = BeforePointer
    /\ pc' = "decrement"
    /\ UNCHANGED <<hw, eth_packet_pointer, erdpt, length, copied, packet>>

\* ECON2.PKTDEC, and the return.
PacketDecrement ==
    /\ pc = "decrement"
    /\ epktcnt' = epktcnt - 1
    /\ pc' = "idle"
    /\ UNCHANGED <<mem, erxwrpt, erxrdpt, number, lost, eth_packet_pointer, erdpt, length,
                   copied, packet>>

EthReceivePacket ==
    \/ CheckCount \/ ReadVector \/ CopyByte \/ CopyEnd
    \/ SetReadPointer \/ SetReadPointerErrata \/ PacketDecrement

Next ==
    \/ \E len \in Lengths, ok \in BOOLEAN : HwReceive(len, ok)
    \/ EthReceivePacket

Spec == Init /\ [][Next]_vars

\* The main loop calls eth_receive_packet while packets are counted, and every
\* call runs to its end.
FairSpec == Spec /\ WF_vars(EthReceivePacket)
----------------------------------------------------------------------------
\* Pointers stay in the ring, the count within what the hardware can count.
TypeOK ==
    /\ {erxwrpt, erxrdpt, eth_packet_pointer, erdpt} \subseteq Ring
    /\ epktcnt \in 0 .. MaxCount
    /\ number \in Ids
    /\ pc \in {"idle", "vector", "copy", "free", "errata", "decrement"}
    /\ length \in 0 .. MAX_LENGTH

\* The hardware writes over no frame that the driver has not read: ERXRDPT is
\* moved only past bytes that were copied, and never onto ERXWRPT while frames
\* wait (eth.c:583-596, against frames that arrive between any two accesses).
UnreadKept == ~ lost

\* The data and the zero that eth_read_buffer puts after it fit the caller's
\* buffer (eth.c:568-570 with eth.c:458).
FitsBuffer == Len(copied) + 1 <= MAX_LENGTH

\* The frames in the ring, found by following their next-packet pointers.
FramesStored ==
    [n \in 1 .. Waiting |->
        LET vector == mem[Starts[n - 1]]
        IN  [id |-> vector.id, len |-> vector.len, ok |-> vector.ok]]

Fifo == INSTANCE FrameQueue WITH
    Frames  <- [id : Ids, len : Lengths, ok : BOOLEAN],
    MaxData <- MAX_LENGTH - 1,
    queue   <- FramesStored

\* Reception implements a first-in first-out queue of frames: whatever arrives
\* meanwhile, each call that returns took the oldest frame, whole or cut.
Refinement == Fifo!Spec

\* Every frame that is stored is eventually handed over: the ring empties when
\* no more frames arrive, and a frame waits for no later one.
StoredIsHandedOver ==
    \A id \in Ids :
        (\E n \in DOMAIN FramesStored : FramesStored[n].id = id)
            ~> ~ (\E n \in DOMAIN FramesStored : FramesStored[n].id = id)
============================================================================
