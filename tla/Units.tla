------------------------------- MODULE Units -------------------------------
(***************************************************************************)
(* Components that stand by themselves, in one specification: the clock    *)
(* (by EXTENDS), reception (EthRx), the calendar, the checksums, the       *)
(* statistics, the serial line and the SPI master.  part says which of     *)
(* them a behaviour is about; the others stay in their initial states.     *)
(***************************************************************************)
EXTENDS Clock

CONSTANTS RX_STOP, FrameLengths, MAX_LENGTH, Ids, MaxCount,     \* of EthRx
          Timestamps,                                           \* of Date
          BYTE, LENGTH_MOD, Packets, Addresses,                 \* of Checksum
          COUNT_MOD, KB, MB, Lengths, MaxSince,                 \* of Status
          Characters, CR, LF, NUL, Chunks, Limits, RX_DEPTH, MaxText,   \* of Serial
          ANSWERS                                               \* of Spi

VARIABLES part,
          mem, erxwrpt, erxrdpt, epktcnt, number, r_pc, eth_packet_pointer, erdpt, length,
          copied, packet, lost,
          d_pc, d_timestamp, d_date, d_year, d_datetime,
          c_pc, c_call, c_i, c_sum, c_result,
          n_bytes, n_saved, n_shown, n_since,
          s_enabled, s_todo, s_udr, s_shift, s_text, s_line, s_rx, s_read,
          p_pc, p_SPIF, p_seen, p_transfer, p_SPDR, p_count, p_collision, p_result

reception == <<mem, erxwrpt, erxrdpt, epktcnt, number, r_pc, eth_packet_pointer, erdpt, length,
               copied, packet, lost>>
date      == <<d_pc, d_timestamp, d_date, d_year, d_datetime>>
checksum  == <<c_pc, c_call, c_i, c_sum, c_result>>
status    == <<n_bytes, n_saved, n_shown, n_since>>
serial    == <<s_enabled, s_todo, s_udr, s_shift, s_text, s_line, s_rx, s_read>>
spi       == <<p_pc, p_SPIF, p_seen, p_transfer, p_SPDR, p_count, p_collision, p_result>>
----------------------------------------------------------------------------
R == INSTANCE EthRx WITH Lengths <- FrameLengths, pc <- r_pc

D == INSTANCE Date WITH
        pc <- d_pc, timestamp <- d_timestamp, date <- d_date, year <- d_year,
        datetime <- d_datetime

C == INSTANCE Checksum WITH
        pc <- c_pc, call <- c_call, i <- c_i, sum <- c_sum, result <- c_result

N == INSTANCE Status WITH bytes <- n_bytes, saved <- n_saved, shown <- n_shown, since <- n_since

S == INSTANCE Serial WITH
        enabled <- s_enabled, todo <- s_todo, udr <- s_udr, shift <- s_shift,
        text <- s_text, line <- s_line, rx <- s_rx, read <- s_read

P == INSTANCE Spi WITH
        pc <- p_pc, SPIF <- p_SPIF, seen <- p_seen, transfer <- p_transfer, SPDR <- p_SPDR,
        count <- p_count, collision <- p_collision, result <- p_result

\* A timestamp is a day and a second of it; counters and buffers have sizes.
ASSUME UnitsAssumption ==
    /\ ClockAssumption
    /\ R!RingAssumption
    /\ C!ChecksumAssumption
    /\ Timestamps \subseteq Nat \X Nat
    /\ COUNT_MOD \in Nat \ {0} /\ KB \in Nat \ {0} /\ MB \in Nat \ {0} /\ Lengths \subseteq Nat
    /\ S!SerialAssumption
----------------------------------------------------------------------------
\* The variables of a part are the only ones its steps change.
Resting(q) ==
    CASE q = "eth_rx"   -> UNCHANGED reception
      [] q = "clock"    -> UNCHANGED vars
      [] q = "date"     -> UNCHANGED date
      [] q = "checksum" -> UNCHANGED checksum
      [] q = "status"   -> UNCHANGED status
      [] q = "serial"   -> UNCHANGED serial
      [] q = "spi"      -> UNCHANGED spi

Parts == {"eth_rx", "clock", "date", "checksum", "status", "serial", "spi"}

Only(p, Step) ==
    /\ part = p /\ Step
    /\ part' = p
    /\ \A q \in Parts \ {p} : Resting(q)

UnitsInit ==
    /\ part \in Parts
    /\ Init /\ R!Init /\ D!Init /\ C!Init /\ N!Init /\ S!Init /\ P!Init

UnitsNext ==
    \/ Only("eth_rx", R!Next)
    \/ Only("clock", Next)
    \/ Only("date", D!Next)
    \/ Only("checksum", C!Next)
    \/ Only("status", N!Next)
    \/ Only("serial", S!Next)
    \/ Only("spi", P!Next)

units == <<part, reception, vars, date, checksum, status, serial, spi>>

UnitsSpec ==
    UnitsInit /\ [][UnitsNext]_units /\ WF_reception(R!EthReceivePacket) /\ C!Fairness
----------------------------------------------------------------------------
\* The properties of the components, by name; those of the clock are Clock's.

\* Ring and clock keep their types, and a frame fits the buffer it is read into
\* (eth.c:568).
UnitsTypeOK == TypeOK /\ R!TypeOK /\ R!FitsBuffer

\* The hardware writes over no frame that the driver has not read (eth.c:583).
UnreadKept == R!UnreadKept

\* Reception is a first-in first-out queue of frames (eth.c:537).
Refinement == R!Refinement

\* Every frame that is stored is handed over (net.c:95).
StoredIsHandedOver == R!StoredIsHandedOver

\* The calendar counts every day once, and its fields name the second of the
\* timestamp (date.c:166, date.c:174).
DateTrue == D!NoDayLost /\ D!DateTrue

\* A checksum is that of RFC 1071, but for the padding of odd data, the signs of
\* addresses and a length at the end of 16 bits, whose error is known (udp.c:48,
\* udp.c:58, udp.c:63).
SumTrue == C!SumExact /\ C!ErrorBounded

\* A checksum returns, except over 2^16 - 1 bytes (udp.c:52).
LengthsReturn == C!LengthsReturn

\* Rates survive the wrap of a counter (main.c:87).
RateTrue == N!RateTrue

\* The serial line carries what was printed, and a serial read leaves a string
\* (uart.c:116, uart.c:100).
SerialKept == S!PrintedInOrder /\ S!ReadTerminated

\* An SPI read returns the answer to its own transfer (spi.c:83).
OwnAnswer == P!OwnAnswer
============================================================================
