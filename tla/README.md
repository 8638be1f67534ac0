# NetAVR in TLA+

NetAVR is a small network stack for an 8-bit AVR (ATmega32) with an ENC28J60
Ethernet controller on its SPI bus. This directory specifies the program, checks it on small instances with TLC, and proves the safety
properties of all of it with TLAPS: the ARP table, the whole program around it, the UDP port table,
reception and transmission, the clock, the timers, the calendar and the small units. All
paths below are relative to `src/src/` of the repository.

## 1. The system

`main` initialises everything and then runs one loop for ever: `net_periodic()`,
which empties the controller, decodes each frame in place in one 500-byte buffer
and sends the reply from the same buffer, and `timer_periodic()`, which runs the
callbacks of expired timers. The only interrupt is the millisecond tick of the clock;
the only other actor is the controller, which stores and sends frames by itself.

| Component | State | Operations | Interacts with | What is hard | What makes it correct |
|---|---|---|---|---|---|
| ARP, `net/arp.c` | `arp_table[10]`, `arp_time` (8 bits) | `arp_init`, `arp_update`, `arp_flush` (timer, 10 s), `arp_decode`, `arp_encode` | called by net_decode and the timers, reads IP and MAC settings | ages of an 8-bit clock, eviction, stale entries, replies built in place | one latest mapping per neighbour, timely expiry, oldest is evicted |
| Clock, `lib/clock.c` | `timestamp`, `microtime` | tick interrupt, `clock_set_time`, `clock_time`, `clock_microtime` | read by timers and display | multi-byte accesses against the interrupt | no millisecond lost, reads return the time |
| Timers, `lib/timer.c` | heap list `timer_table`, two locals of a pass | `timer_set/clear/reset/restart/get/periodic` | callbacks call back into the list | re-entrancy, late passes, unsigned differences | list well formed, no freed node used, one firing per interval, no drift |
| UDP ports, `net/udp.c` | `udp_bindings[10]`, heap | `udp_bind`, `udp_unbind`, `udp_decode` | net_decode, echo | NULL slots are read, freed objects stay in slots | first binder gets the datagram |
| Reception, `dev/eth.c` | `eth_packet_pointer`; the ring and registers of the controller | `eth_receive_packet` | controller, net_periodic | frames arrive between register accesses | a FIFO queue that loses nothing it stored |
| Transmission and registers, `dev/eth.c` | `eth_bank_pointer`; TX buffer, ECON1, EIR | `eth_send_packet`, `eth_read/write_byte`, `eth_init` | controller | unbounded wait, resets of the transmit logic, cached bank, packets of any length | what fits is sent as given, and what is lost has a cause |
| Network loop, `net/net.c`, `main.c` | `net_packet_buffer`, host addresses | `main`, `net_init`, `net_periodic`, `net_decode`, `net_debug` | all | starvation of timers, lengths, frames that arrive before `net_init` | who asked is answered, with what was received; every frame is handled, timers run |
| ICMP echo, UDP echo | none | `icmp_decode`, `icmp_echo_reply`, `echo_udp` | net_decode | answers built in place, lengths of headers | the answer mirrors the request and is not itself answered |
| Statistics, `net/net.c`, `main.c` | `net_status`, totals shown last | counting, `display_status` | net_periodic, timers | counters that wrap | rates are what came since |
| Checksums (`udp`, `tcp`, `ip`, `icmp`) | none | four functions | decode functions | 16-bit int conversions, odd lengths, a 16-bit index | RFC 1071; the call returns |
| TCP ports, `net/tcp.c` | `tcp_bindings[10]` | `tcp_bind`, `tcp_unbind`, `tcp_decode` | net_decode | as UDP | a port is bound when there is room (it never is: section 5) |
| IP, MAC, util | addresses set by `net_init` | setters, comparisons, `htons` | all | - | set before the first frame is decoded |
| Packet queue, `net/queue.c` | none | stubs | `arp_encode` | - | not implemented in the code |
| Calendar, `lib/date.c` | none | `time_decode`; two stubs | display | ends of months and years | the date of a timestamp |
| TTY, UART | transmitter, receiver | `tty_write`, `uart_write`, `uart_read`, byte functions | display, `net_debug` | hardware that takes bytes when it likes | the line carries what was printed |
| SPI | SPDR, SPIF | `spi_init`, `spi_write_byte`, `spi_read_byte` | register accesses | a flag left set by the transfer before | a read returns its own answer |
| Sockets, DHCP | - | drafts that are not built | - | - | - |

The Makefile defines `WITH_DEBUG` (lines 64-65), so the program as built prints every
frame with `net_debug` and has no `display_status`. NetLoop models the printing and
lets both timers run, Status the build without `WITH_DEBUG`.

`PROJECT.json` lists the same components with their status, the hazards at their
lines, and for every definition the lines it models.

## 2. The modules

`X.tla` is a component, `MCX.tla` instantiates it for TLC, `XProofs.tla` holds its
theorems. Operators whose comment starts with "Fault" are plausible mistakes in the
definition that follows them. The specifications do not use them; each one, put in
the place of that definition, is found by a property, which shows that the
property can fail.

**Arp.** Each function runs to completion in the main loop, so each is one action:
`ArpDecodeRequest`, `ArpDecodeReply`, `ArpDecodeIgnored` (the three outcomes of
`arp_decode`), `ArpFlush`, `ArpEncode`. `arp_table` and `arp_time` are the program's
variables; `reply` is what a handler leaves in the packet buffer. IP and Ethernet
addresses are model values, 0.0.0.0 is `EMPTY`, and `LocalIPs` is what
`ip_mask_compare` answers. `Age` keeps the C promotion: two `uint8_t` are subtracted as
`int`, so it is negative after a wrap. History: `uptime` counts flushes without
wrapping, `stamp` is the true time of each entry, `announced` the address each
neighbour announced last. `arp_encode` is linked but only called by the socket
draft; it is modelled as the entry point it is, with every destination.

**Clock.** `ClockTick` is the interrupt. `clock_time` and `clock_microtime` are
`BeginRead`, one `ReadByte` per byte, `EndRead`; `clock_set_time` is `BeginSet` (cli),
one `StoreByte` per byte, `StoreMicrotime`, `Sei`. Bytes are digits to the base `BASE`,
and `Weight` is what a unit of each counts.
A read is much shorter than a millisecond, so at most one tick falls into it.

**TimerTable** is what `timer.h` promises: at most one timer per callback, fired when
its interval has elapsed, its start then moving on by one interval. **Timer** is the
code: heap nodes with `prev` and `next`, the head `timer_table`, and the locals
`timer` and `timer_next` of a running pass. `PeriodicVisit` is the loop body up to the
callback, `CallbackCall` a timer call the callback makes, `CallbackAgain` and
`CallbackDone` the code after it. calloc may return any free node, the one freed last
included. An access through a pointer to a freed node ends in `pc = "undefined"`.
`CarefulOps` restricts what callbacks do: with all of an operation's names in it,
a callback does not apply it to the nodes the running pass will access again.
`Refinement` maps the list, as `Timers`, to `TimerTable`.

**UdpPorts.** Slots point to heap objects. A search reads the port of every slot it
passes, so a NULL slot reads the processor registers (`NullReads`) and a slot of a
freed object reads anything; `SearchFor` is the set of slots where a search may stop.
Calling or freeing through such a slot ends in `last.call = "wild"`, after which
nothing is defined; TLC's deadlock check is off for that reason alone. History:
`bound`, the bindings in force in the order they were made, and `unbinds`.

**NetLoop** is the program. `TimerSet`, `EthInit`, `NetInit` and `UdpBind` are `main` up
to its loop; `ReceivePacket`, `DecodeIp`, `DecodeArp`, `SendPacket` and `NetDone` are one
round of `net_periodic` and its end; `TimerPeriodic` a pass over the timers. It composes
`FrameQueue`, for the controller as EthRx implements it, and `Arp`, whose handlers it
calls, with the frame in the buffer as their argument. `packet` is what was received,
`answer` what a handler left in its place. `IcmpDecode` and `EchoUdp` compute that answer
from the headers alone: which addresses and ports it carries and how many bytes are
sent, which for UDP the header says, modulo 2^16. The answer is built over the request,
so `Readdressed` is two copies in the order of the code, the second of which sees what
the first left. Frames have the headers the handlers
look at (`Headers`, which `FrameAssumption` asks of every frame), and the lengths of
headers are constants of which only the order counts (`HeaderAssumption`).
The Ethernet source of an ARP frame equals the sender in its ARP header. Ports other
than 7 answer nothing here; UdpPorts shows what a NULL slot may do. `Hangs` is the
datagram over which the checksum does not return, as `LengthsReturn` of Checksum finds.

**Checksum** is the loop the four functions share, one iteration per action. A byte has
`BYTE` values and `uint16_t`, `int` and `uint32_t` follow from it; `i` wraps at
`LENGTH_MOD`. `Call` adds length and protocol number as the 16-bit `int` arithmetic of
the AVR does, with a wrap before the sum becomes a `uint32_t`. `SignedWord` is the shift of an address octet into the sign of a 16-bit
`int`. `TotalOf`, a sum byte by byte (`SumOf`, a recursive function), and `OnesSum` define
the sum of RFC 1071 without words, widths or folds.

**Date** is `time_decode`, a year and then a month per action, and a calendar that counts
days to compare it with (`DaysBefore` and `DaysBeforeMonth`, without loop or table). **Status** has the byte counters of `net_status` and the
static variables of `display_status`; `since`, history, is what truly came.
**Serial** is `tty.c` and `uart.c` against the data register and the shift register of
the transmitter and the receiver's buffer (`Load`, `Transmitted` and `Received`,
external). **Spi** is `spi.c` against SPDR and SPIF, which the hardware sets when a
transfer ends (`Shifted`, external) and clears at an access of SPDR after a read of SPSR.

**Units** puts those that do not interact into one specification: Clock, which it
extends, and EthRx, Date, Checksum, Status, Serial and Spi by INSTANCE. The
variable `part`, chosen at the start, says which of them a behaviour is about; the
others rest. **MCUnits** gives it timestamps, packets and lengths for TLC.

**FrameQueue** is a FIFO of frames, **EthRx** the ring of the controller and
`eth_receive_packet`, one register access per action: `CheckCount`, `ReadVector`,
`CopyByte`, `CopyEnd`, `SetReadPointer` (eth.c:584), `SetReadPointerErrata`
(eth.c:590), `PacketDecrement`. `HwReceive`, external, may happen between any two.
It follows the controller's rules as the driver relies on them: frames start at even
addresses and are preceded by next-packet pointer, length and status; free space
is counted from write pointer to read pointer; equal pointers mean an empty ring.
`Refinement` maps the frames found by following the next-packet pointers to
`FrameQueue`.

**EthTx** is the rest of `dev/eth.c`. `Program` gives each function as a sequence of
register accesses: those by `eth_read_byte` and `eth_write_byte` (`Banked`) set the bank
first (`ClearBank`, `SelectBank`), those by an opcode take it as it is. One access is one
action, named for what it does to the controller (`WriteRegister`, `CheckTxrts`,
`SetTxrst`, `WriteData`, ...). `bsel`, `rxen`, `tx`, `txerif`, `busy`, `ewrpt`, `etxnd` and
`mem` are the controller's registers and transmit buffer; `HwSent`, `HwFailed` and
`HwPhyDone`, external, may happen between any two accesses. `McuReset` restarts the
microcontroller: its memory is cleared, the controller stays as it is until
`eth_init` has sent the soft reset. A packet may be of any length. `mem` is the memory
from ETH_REG_TX_START on, at whose end the pointers wrap; one that does not fit the
transmit buffer (`Fits`) runs on into the receive ring, or around. History: `given` and
`delivered` count packets, `unsent` are those the controller is to send, `lost` counts those a
failed transmission, TXRST (`cut`) or a restart lost, and `sent` is the last frame on the
wire and its packet.

## 3. The runs

| Run | Shows | Bounds |
|---|---|---|
| `arp_table` | one entry per neighbour, its address the latest (`UniqueNeighbour`, `FreshestMapping`); frames and replies addressed by it (`ResolvedFrameCurrent`, `RequesterRegistered`); expiry neither early nor, before the wrap, late (`NoEarlyExpiry`, `TimelyExpiry`); evictions (`EvictsOldest`) | 2 entries, 4 senders (one with 0.0.0.0, one on another network), 2 Ethernet addresses; clock modulo 5, maximum age 2, 11 flushes |
| `timer_list` | `ListWellFormed` (types included), `NoStaleAccess` for all functions at every point of a pass | 3 callbacks, 3 nodes, 32-bit time modulo 3, torn reads, one timer call per callback run |
| `timer_table` | `OnSchedule`: no timer fires early or more than once per interval, and none drifts; `Refinement` to `TimerTable` | 2 callbacks, 3 nodes, intervals 1 and 2, 3 seconds, two timer calls per callback run |
| `udp_ports` | `BindingsKept`, and, while nothing was unbound, `DeliveredToFirstBinder`, `RefusedOnlyWhenFull`; `UsedSlotsFirst` always | 3 slots, 4 heap objects, 3 ports of which NULL may read one |
| `units`, reception | `UnreadKept`, `UnitsTypeOK` (frames fit the buffer), `Refinement` to `FrameQueue`, `StoredIsHandedOver` | ring of 8 bytes, 1-byte vectors, frames of 1 and 2 bytes, at most 3 stored |
| `units`, clock | `TimeKept`: counters are the set time plus the interrupts since; `TimeReadBounded`: a torn read is ahead by the weight of a byte less one and never behind | bytes of 4 values, 3-byte time, 30 ticks |
| `units`, calendar | `DateTrue`: no day is lost while years and months are counted, and the fields name the second, with Zeller's weekday | 112 timestamps around the ends of months and of ordinary, leap and century years, to 2105 |
| `units`, checksums | `SumTrue`: the result is RFC 1071's, except that the byte after odd data weighs 257 and that a sign or the wrap of length and protocol may cost a carry; `LengthsReturn`: every call returns but that over 2^16 - 1 bytes | bytes of 8 values, 6-bit lengths, of which those from 47 (UDP) and 58 (TCP) on wrap, 4 packets, 2 addresses |
| `units`, statistics | `RateTrue`: rates are the bytes since the last display, also across a wrap | counters modulo 8, up to 9 bytes between displays |
| `units`, serial line | `SerialKept`: no byte lost, repeated or out of order, and a read leaves a string | 3 characters, a receiver of 2 bytes |
| `units`, SPI | `OwnAnswer`: no write into a transfer under way, each read its own answer | answers modulo 5 |
| `net_loop` | `AnswersRequester`, `AnswersWhole`, `AnswersEnd`, `PrintedWasReceived`; `FramesHandled` and `TimersRun` | 19 kinds of frame, one waiting in the controller at a time, one neighbour, 2 flushes |
| `eth_tx` | `RegisterReached`, `ReceivesWhenConfigured` across restarts; `SentAsGiven`; `LossesExplained`: every packet given is accounted for, none is overtaken, and the cause of a loss is its own failure, TXRST after some failure, or a restart; `CallsReturn` | packets of 1, 2 and 5 bytes, a transmit buffer of 3 in a memory of 4, 3 packets given, 1 restart, any number of other calls |
| `arp_outdated` | violated: an entry written late in an epoch of `arp_time` is never flushed | as above |
| `clock_torn` | violated: `clock_time` returns a time that never was | |
| `timer_reentrant` | violated: a callback that sets its own timer makes the pass use a freed node | |
| `udp_unbound` | violated: a datagram for an unbound port is dispatched through a NULL slot | |
| `eth_twice` | violated: with the even `ETH_REG_RX_STOP` of the code, writing the read pointer twice loses unread frames | ring of 9 bytes |

Why the bounds are enough. A table of two entries with three senders is fuller than
ten entries are on most networks: matches, free entries and victims all occur. With
the clock modulo 5 and age 2 a deadline falls before or after the wrap, as with 256
and 120, and 11 flushes wrap it twice. Three timers give a first, a middle and a last
node, and a pass that stands at one while a callback works on another. The ring holds
two to four frames and every frame length occurs at every place of its end. In
`eth_tx` the packets fit the buffer with room, fill it, and exceed all of the memory, in every
order, so that one is being sent, one waits to be, and one was lost before; a restart may
fall between any two accesses of any call. The frames of
`net_loop` tell apart everything the handlers look at: opcodes, targets, types, ports,
checksums, headers cut short, pings longer than the answer, and datagrams whose length
is true, too large, zero, wraps, or hangs the checksum. From one frame to the next only
the ARP table, the timers and the buffer carry over, so one waiting frame is enough.
Four bits for `uint16_t` and headers of 1 to 4 bytes keep the order of the true ones.
With bytes of 8 values sums fold twice and carries, signs, odd lengths and the wrap of
length and protocol all occur.

Fairness. `UnitsSpec` assumes weak fairness of `EthReceivePacket`. The main loop calls `net_periodic` for ever, its inner loop calls
`eth_receive_packet` while frames are counted, and the function waits for nothing
but single SPI transfers. Nothing is assumed of arriving frames. `FairSpec` of EthTx
assumes it of `Driver`, for the same reason, and of the controller: a transmission
ends, sent or failed, and so does an access to the PHY. Without the latter the
loops of eth.c:336, 363 and 505 have no reason to end; restarts are finitely many.
`Run` of Checksum and `Program` of NetLoop are weakly fair because there is one thread,
which only interrupts preempt, and each of their steps is straight code or a loop that
EthTx and Timer show to end. Nothing is assumed of the line or of the clock, so both
properties of NetLoop say under which traffic they hold: `FramesHandled` as long as no
checksum hangs the program, `TimersRun` when the frames stop coming. While they come
as fast as they are handled, no timer runs (net.c:95), which is why the condition stays.
Deadlock is not checked in `net_loop` and `udp_ports`, since a hung checksum and a call
through a NULL slot leave nothing to do.

Two things the runs separate from the code's own choices. `timer_list` and
`timer_table` assume careful callbacks; the only callbacks of the repository,
`arp_flush` and `display_status`, call no timer function and are careful.
`timer_reset` and a restart from within the timer's own callback put a start into the
future, where the unsigned difference of timer.c:162 counts the timer as expired on
every pass; `timer_table` leaves them out for that reason, `timer_list` does not.
`units` uses an odd last address, which the code does not have; with an even one
the state that `eth_twice` shows needs a frame to arrive between two SPI writes.

## 4. The proofs

TLC checks small instances; the theorems below hold for every value of the constants
and every length of run. Each file is checked with `tlapm X.tla`. In each, an
inductive invariant (`IInv` or named for its component) holds at first and is kept by
every action, with one lemma per action; the properties follow from it.

**ArpProofs**, from `AddressAssumption` and `SizeAssumption` of `Arp` (the set of
addresses, the table size, the maximum age, the width of the clock and the number of
flushes are arbitrary). All eight properties of the run `arp_table` are theorems:
`TypeCorrect`, `NeighboursUnique`, `MappingsFresh`, `FramesCurrent`,
`RequestersRegistered`, `ExpiryTimely`, `ExpiryNotEarly`, `EvictionOfOldest`. The
inductive invariant is

    IInv == TypeOK /\ UniqueNeighbour /\ FreshestMapping /\ ClockInv /\ TimelyExpiry

The first parts are needed by each other: an update writes one entry only, so
`FreshestMapping` survives it only if no other entry has the same address, and
`UniqueNeighbour` survives it because an update first looks for a match.
`TimelyExpiry` is not inductive, since it speaks of true ages and `arp_flush`
computes with 8-bit ones. `ClockInv` relates the two: with `Epoch` the flush at which
`arp_time` was last zero, an entry written in this epoch has an exact time, an older
one has a time that does not lie before its true time, and one whose deadline comes
before the wrap has not survived the wrap. The lemmas `VictimIsOldest` and
`EntryForWhere` say what the two searches of `arp_update` return; then there is one
lemma per action and one step per conjunct it can disturb.

**UdpPortsProofs**, from `UdpAssumption` (any number of slots, any ports, any heap, and
any register contents for NULL slots to read): `FirstBinderServed`,
`SlotsFilledInOrder` and `NoSlotWasted`. The inductive part is `SlotsAreBindings`: until
something is unbound, the n-th binding in force is what slot n - 1 points to, and the
slots after the last binding are NULL. So a search for a bound port stops where
its first binding is (`SearchFindsFirst`), because it meets no NULL slot before.
Once a port has been unbound `UsedSlotsFirst` remains, and `BindingsAreKept`: a binding in
force has a live object of its own and a slot that points to it. It is inductive as it
stands, since `udp_bind` takes an object that no binding in force has, `udp_unbind` ends
the binding whose object it frees, and slots are never cleared.

**NetLoopProofs**, from `HeaderAssumption` and `FrameAssumption`: for any frames, header
lengths in the order of the code, any buffer and any number of frames waiting,
`RequestersAnswered`, `AnswersAreWhole`, `AnswersEndThere` and `ReceivedIsPrinted`, the four
safety properties of the run `net_loop`. The invariant says that the buffer holds the
first bytes of one frame (`BufferInv`), that the host has its addresses and the echo its
port before the loop begins (`Ready`: frames stored before `net_init` wait in the
controller), and that what is about to be sent is the ARP reply or the echo of the frame
in the buffer (`AnswerInv`). The arithmetic of `AnswersAreWhole` is that a length which fits
the buffer does not wrap in 16 bits. `ArpImplemented` is `Spec => ARP!Spec`: the steps
that change the table are a decoded frame, whose two addresses are a neighbour's because
the headers in the buffer are those of one frame (`BufferInv` again), and the flush. So, with
`ArpAssumption`, which says of the constants of `NetLoop` what `Arp` assumes of its own,
the theorems of ArpProofs hold in the program (`ArpLawsHold`); `Laws` is their instance,
and `LawsOfArp` unfolds it to the instance of `Arp` that the handlers use. What ArpProofs
says of `arp_encode` is left out, since nothing in the loop calls it.

**EthTxProofs**, from `TxAssumption` (any packets of at least a byte, fitting or not, any
transmit buffer within any memory, any number of restarts): `RegistersReached`,
`ReceptionConfigured`, `FramesSentAsGiven` and `LossesAreExplained`, the four safety properties
of the run `eth_tx`. `BanksAgree` is the crux of the first: the copy
of the bank bits may be trusted except between a restart and the soft reset, and within
`eth_set_bank`, where it is already ahead of ECON1. `ConfiguredSoFar` says which registers
`eth_init` has written at each of its steps, `Filled` that the transmit buffer is written
only while nothing is sent and, if the packet fits, holds it up to the byte copied last, `OnAir`
that what is being sent lies between the pointers. Of a packet that does not fit only the
pointers are known, and that the next one starts from the beginning again.
`LossesAreExplained` has an invariant of its own, `Accounts`: it counts the packets being
given (`Giving`), those with the controller (`OnItsWay`), and what a restart will still cost by
its soft reset (`Restarting`): one packet when it comes and one more then.

**EthRxProofs**, from `RingAssumption` (any last address, any set of lengths that with vector
and padding leave a byte of the ring free, any buffer, any number of frames): `PointersInRing`,
`FramesFit`, `UnreadFramesKept` and `RingImplementsQueue`, the last being the refinement of
`FrameQueue`. The bound on lengths is what `eth_init` makes true with MAMXFL (eth.c:173), 1500 bytes
against a ring of 6655. `UnreadKept` is a history, so all its strength is in the invariant.
`ChainInv` says that there are offsets from the oldest frame at which the waiting frames start
(`IsChain`: each is whole, its vector leads to the next, the last to the write pointer), at even
addresses (`IsEven`), and that from the read pointer past them all is less than once around
(`IsWithin`). Offsets instead of addresses keep the remainders out of the argument: `Around`,
`Steps` and `Span` say once how addresses add up. `StartsAre` and `FramesAre` turn the recursive
search of `FramesStored` into the chain, so that a frame stored is appended to it
(`ReceiveExtends`), and a frame copied leaves it from the front (`CopyEndShifts`).

The crux is `IsWithin`. Between its two writes (eth.c:584, eth.c:590) the read pointer is a byte
ahead of where it will be, and if the write pointer were to arrive on that byte, a full ring
would look empty. It is even and the byte is odd, with one exception: the next packet starts at 0
and the last address of the ring is even, as `ETH_REG_RX_STOP` is. So the theorems have a
condition, `Quiet`: on such a ring no frame is stored between the two writes while the next packet
starts at 0. They say that this one window is all there is to fear, and `eth_twice`, where
a frame arrives in it, that the condition cannot be dropped. `OddRingNeedsNothing`: on a ring
with an odd last address nothing need be assumed.

**UnitsProofs** is about `Units`, from `UnitsAssumption` (a timestamp is a day and a second,
widths are numbers, and the assumptions of Clock, EthRx, Checksum and Serial). That in
`UnitsSpec` each component behaves as its own specification says follows from the composition
alone (the lemma `EachByItself`); it carries the following over, and the theorems of
EthRxProofs, whose instance is `RingLaws`.

- The clock, with `ClockAssumption` (bytes of any width from two values on, counters of any
  number of them, a second that fits its counter): `WidthsKept`, `EveryMillisecondCounts` and
  `TornReadsAreBounded`. `SetSoFar` and `ReadSoFar` describe a variable that is written or read
  byte by byte: the low bytes stored, and the low bytes of the time before an interrupt under
  those of the time after it. The bound of a torn read follows from where the carry of the one
  interrupt went. `TablesAgree` proves the recursive function `Weight` well defined, by
  induction over a set of numbers (`InductionOnNat`).
- The others: `CalendarIsTrue`: for any timestamp, each year and month that `time_decode`
  passes takes as many days from `date` as the calendar counts (`YearLength`, `MonthLength`),
  and the weekday is Zeller's (`Zeller`). `RatesAreTrue`: the distance of two counters is what
  was counted between them, modulo their width (`RateCounts`). `AnswersAreOwn`: a flag left over from an earlier transfer has been
  seen, so that the next access of SPDR clears it.
- `SerialIsKept`, from `SerialAssumption` (chunks of `uart_write` hold no line feed, the
  bounds of reads are numbers). The input: `SerialInv`. The output: what is on the line, in
  the two registers and still to be written carries the characters printed, each at its
  `Place` behind the carriage returns before it; printing appends (`CarriesCharacter`,
  `CarriesChunk`), and bytes that move on change nothing (`BytesMoveOn`).
- `ChecksumsAreTrue`, `[]SumTrue`, for bytes of at least eight values, lengths of any even
  width that a word holds, and any packets and addresses (`ChecksumAssumption`). `SumsAre`
  shows that `SumOf` is a sum and how large it is at most, so that no carry is lost while
  words and padding are added (`WidthsFit`, `SumLeavesRoom`). `SumInv` says how far the sum has come, and
  from there on only that it is `Congruent`: equal to what it should be but for multiples
  of the largest word, which folding takes away, and at most one carry per sign set and one
  where length and protocol wrap (`CarriesAtStake`). That zero
  stays apart from the largest word, which is congruent to it, is the part of it that a wrong
  fold would break.

**TimerProofs**, from `TimerAssumption` (any finite heap, any callbacks and intervals, a
clock of any width that does not wrap within the time considered, any number of calls
by a callback). Its core is `ListInv`: the allocated nodes can be numbered so that the first
is the head and the pointers of each lead to its neighbours (`IsChain`), no two have the
same callback, and free nodes are blank. It needs no recursion: the recursive function
`NodeAt` is shown once to run along such a chain (`NodesInOrder`), and then `timer_get` to
find the node of a callback (`GetFinds`), unlinking to skip a number (`UnlinkKeeps`) and
inserting to shift them (`InsertKeeps`). The theorems, from weak to strong conditions on
what callbacks do:

- `ListStays`, `[]ListWellFormed`: whatever they call, and however torn the clock is read. A
  callback that frees its own timer makes the pass write to a free node, but the list is
  still a list; `timer_reentrant` shows where the pass goes then.
- `CarefulCallbacksAreSafe`, `[]NoStaleAccess`: if they neither set nor clear the running timer
  or the next of the pass. `PassInv` says that the two pointers a pass holds lead to two
  different allocated nodes.
- `SchedulesDoNotDrift`, `[]OnSchedule`, and `ListImplementsTable`, `Spec => Refinement`: under
  `Exact`, which adds what the run `timer_table` assumes, no `timer_reset`, no restart from
  within and no torn read. `SchedInv` says that every start is the first one and a whole
  number of intervals (`Along`), that it is not in the future, and that while a callback
  runs a whole interval has passed since. So additions never wrap, the unsigned
  difference is the elapsed time, and each step is one of the table's or none.
- `StartsPast`: in the table itself, without a bound on time, no timer ever starts in the
  future.

**NatLemmas** holds what the others cite of the natural numbers: least elements, for the
searches, quotients and remainders, and induction over a set of numbers.

Only model-checked:

- Liveness (`StoredIsHandedOver`, `CallsReturn`, `LengthsReturn`, `FramesHandled`,
  `TimersRun`), which is beyond the prover.

## 5. What is not modelled, and why

- What is printed and its wording: `net_debug` is modelled by the headers it shows. Baud
  rate, prescalers, port directions and the values of configuration registers.
- `net/queue.c`, `time_encode`, `time_string`: stubs. `Arp` models the effect of the call to
  `queue_packet`, which is none. The states and sessions of `tcp.h` are declared only.
- The TCP port table. "Binds a port with the specified callback function" and "True if the port
  has been succesfully bound" (tcp.c:120-121) is not what `tcp_bind` does: its search (tcp.c:128)
  runs past the free slots, so that with the empty table it starts with it returns false before it
  stores anything, and its last line returns false as well. A single call shows it, no
  sequence of calls does anything else, and so the table has no state to model.
- `net/socket.c`, `net/dhcp.c`: drafts that the Makefile does not build and that do not
  compile, so that there is no behaviour to be faithful to.
- `ip_mask_compare` bit by bit: Arp takes its answers as given (`LocalIPs`), whatever the
  mask; the mask of main.c:50 has 225 for its third octet, which is not a prefix.
- The word functions of `spi.c`, which nothing calls. (`spi_write_word` sends a zero first,
  as `data << 8` is cut to a byte.)
- In the modelled files: a failing `calloc` in `timer_set` (its result is written
  through untested, so that nothing after it is defined); the contents of frames beyond
  the fields named; in `UdpPorts` and `NetLoop` the value of a checksum, which is right,
  wrong or absent there.
- Several hosts on one network that loses and reorders frames: the program keeps no state
  for a conversation. Retransmission does not exist, resolution by `arp_encode` is not
  called, and what a neighbour's frames do to the table is all in `arp_table`.
- The controller's own errors (a full ring, bad CRC) are frames that never arrive.
- What a register holds of what was written to it. `written` in EthTx says that the access reached
  the register; whether the opcode eth.c:163 uses for MACON3 has its effect on a MAC
  register is the controller's matter. What a packet that does not fit the transmit buffer does to
  frames waiting in the receive ring.

Noted while modelling and kept as the code has it: a slot whose port was unbound is
never used again, since `udp_unbind` (udp.c:182) leaves its address in place, so ten
bindings are all there ever are; a second search for that port may stop at the
freed object. `eth_send_packet` checks no length
(eth.c:501), and `echo_udp` gives it what a UDP header declares; `SentAsGiven` is about packets that
fit the transmit buffer, and the model follows the others through the controller's memory
only so far as to show that they harm no later packet. EIR.TXERIF, by which eth.c:507 knows the
stall of errata point 12, is cleared by nothing but the soft reset, so that after one failed
transmission every later call that has to wait cuts off a frame that is being sent well;
`LossesExplained` counts these (`cut`) and allows them after a failure only. A timer that
`timer_reset` moves into the future runs at once, on every pass (timer.c:106, timer.c:162).
`udp_checksum` over 65535 bytes does not return (udp.c:52). `eth_get_link_status`
combines the PHY status with a logical and (eth.c:271), so any bit of the byte counts
as the link. `tcp_unbind` may return true for a port
that was never bound, by what NULL reads. A
datagram with a right checksum of 0xFFFF that computes to 0 is dropped (udp.c:117). A
datagram whose header declares more than was received is echoed with bytes of earlier
frames or from behind the buffer (echo.c:44). `uart_write` returns 0 for "amount of data
actually written". The rates of `display_status` are per display, not per second, when
the display is late.

## 6. The plan

All components that are built are modelled, but for the tables and stubs of section 5, and of the properties the passing runs check
all are proved but the liveness properties, which the prover cannot do; the other runs show where
the code and what the repository says of it part. The table's theorems are
carried over to the program, and those of the ring to `Units`. What could still be added is
the safety half of a liveness argument: for `FramesHandled` and `CallsReturn`, a measure that
every step of the program lowers, as an invariant and an action property of its own.
