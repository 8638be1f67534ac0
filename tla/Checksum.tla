------------------------------ MODULE Checksum ------------------------------
(***************************************************************************)
(* udp_checksum, tcp_checksum, ip_checksum and icmp_checksum: four copies  *)
(* of one loop over 16-bit words, with 16-bit int, uint16_t and uint32_t   *)
(* arithmetic; the first two add the addresses of the pseudo header.       *)
(*                                                                         *)
(* A byte has BYTE values, and the wider types follow from it; only the    *)
(* uint16_t that counts bytes has a width of its own, LENGTH_MOD, so that  *)
(* short packets reach its end.                                            *)
(***************************************************************************)
EXTENDS Integers

CONSTANTS BYTE,        \* values of a byte: 256
          LENGTH_MOD,  \* values of length and i: 2^16
          Packets,     \* memory from the packet on: functions on 0 .. LENGTH_MOD - 1
          Addresses    \* IP addresses: functions on 0 .. 3

\* A byte is wide enough that a sum of words does not fill a uint32_t, and i
\* reaches its even values.
ChecksumAssumption ==
    /\ BYTE \in Nat /\ BYTE >= 8
    /\ LENGTH_MOD \in Nat \ {0} /\ LENGTH_MOD % 2 = 0 /\ LENGTH_MOD <= BYTE * BYTE
    /\ Packets \subseteq [0 .. LENGTH_MOD - 1 -> 0 .. BYTE - 1]
    /\ Addresses \subseteq [0 .. 3 -> 0 .. BYTE - 1]

VARIABLES pc,          \* "idle", "words", "addresses", "fold", "done"
          call,        \* the arguments
          i, sum,
          result

vars == <<pc, call, i, sum, result>>
----------------------------------------------------------------------------
WORD == BYTE * BYTE     \* values of uint16_t, unsigned int and int

LONG == WORD * WORD     \* values of uint32_t

Protocol == [udp |-> 17, tcp |-> 6, ip |-> 0, icmp |-> 0]

HasPseudoHeader(function) == function \in {"udp", "tcp"}

NoCall == [function |-> "none"]

Init ==
    /\ pc = "idle" /\ call = NoCall
    /\ i = 0 /\ sum = 0 /\ result = 0

\* "The protocol number and the length of the packet", a uint16_t and an int: the
\* addition is one of 16 bits, and is over before the sum becomes a uint32_t.
Call(function, length, packet, src, dest) ==
    /\ call' = [function |-> function, length |-> length, packet |-> packet,
                src |-> src, dest |-> dest]
    /\ sum' = IF HasPseudoHeader(function) THEN (length + Protocol[function]) % WORD ELSE 0
    /\ i' = 0
    /\ pc' = "words"
    /\ UNCHANGED result

\* i < length
More(k, length) == k < length

\* The loop body: i is a uint16_t, so i + 2 wraps.
AddWord ==
    /\ pc = "words" /\ More(i, call.length)
    /\ sum' = (sum + call.packet[i] * BYTE + call.packet[i + 1]) % LONG
    /\ i' = (i + 2) % LENGTH_MOD
    /\ UNCHANGED <<pc, call, result>>

\* "Apply padding when needed": the byte after the data.
AddPadding ==
    /\ pc = "words" /\ ~ More(i, call.length)
    /\ sum' = IF call.length % 2 = 1 THEN (sum + call.packet[call.length] * BYTE) % LONG ELSE sum
    /\ pc' = IF HasPseudoHeader(call.function) THEN "addresses" ELSE "fold"
    /\ UNCHANGED <<call, i, result>>

\* Fault: the low octet is taken as signed too.
SignedWordLow(high, low) ==
    high * BYTE + low - (IF high >= BYTE \div 2 THEN WORD ELSE 0) - (IF low >= BYTE \div 2 THEN BYTE ELSE 0)

\* (octet << 8) + octet as an int: an octet of BYTE / 2 and more is shifted
\* into the sign, and the conversion to uint32_t extends it.
SignedWord(high, low) == high * BYTE + low - (IF high >= BYTE \div 2 THEN WORD ELSE 0)

SignedAddress(a) == SignedWord(a[0], a[1]) + SignedWord(a[2], a[3])

AddAddresses ==
    /\ pc = "addresses"
    /\ sum' = (sum + SignedAddress(call.src) + SignedAddress(call.dest)) % LONG
    /\ pc' = "fold"
    /\ UNCHANGED <<call, i, result>>

\* Fault: the carries are added without being shifted down.
FoldedInPlace(n) == (n % WORD) + WORD * (n \div WORD)
Folded(n) == (n % WORD) + (n \div WORD)

Fold ==
    /\ pc = "fold" /\ sum >= WORD
    /\ sum' = Folded(sum)
    /\ UNCHANGED <<pc, call, i, result>>

Complement ==
    /\ pc = "fold" /\ sum < WORD
    /\ result' = WORD - 1 - sum
    /\ pc' = "done"
    /\ UNCHANGED <<call, i, sum>>

Return ==
    /\ pc = "done"
    /\ pc' = "idle" /\ call' = NoCall
    /\ i' = 0 /\ sum' = 0 /\ result' = 0

Run == AddWord \/ AddPadding \/ AddAddresses \/ Fold \/ Complement \/ Return

\* Bound: the sum of the call that does not return stays the same.
Bounded(length, packet) ==
    length = LENGTH_MOD - 1 => \A k \in DOMAIN packet : packet[k] = 0

Calls ==
    /\ pc = "idle"
    /\ \E function \in DOMAIN Protocol, length \in 0 .. LENGTH_MOD - 1,
          packet \in Packets, src, dest \in Addresses :
             /\ Bounded(length, packet)
             /\ HasPseudoHeader(function) \/ src = dest
             /\ Call(function, length, packet, src, dest)

Next == Calls \/ Run

Spec == Init /\ [][Next]_vars

\* The processor goes on.
Fairness == WF_vars(Run)
----------------------------------------------------------------------------
\* RFC 1071 by definition: the bytes in network order, padded with a zero,
\* with the pseudo header, added in one's complement; zero only if all are.
ByteWeight(k) == IF k % 2 = 0 THEN BYTE ELSE 1

\* What the first n bytes add up to.
SumOf(packet) ==
    LET total[n \in 0 .. LENGTH_MOD] ==
            IF n = 0 THEN 0 ELSE total[n - 1] + packet[n - 1] * ByteWeight(n - 1)
    IN  total

Octets(a) == (a[0] + a[2]) * BYTE + a[1] + a[3]

TotalOf(c) ==
    SumOf(c.packet)[c.length]
      + IF HasPseudoHeader(c.function)
        THEN c.length + Protocol[c.function] + Octets(c.src) + Octets(c.dest) ELSE 0

OnesSum(total) == IF total = 0 THEN 0 ELSE 1 + ((total - 1) % (WORD - 1))

\* The byte after data of odd length is counted, and counted twice; each address
\* word with its sign set may cost a carry out of the uint32_t, and a length to
\* which the protocol number cannot be added in 16 bits costs one: the cases in
\* which the code computes something else.
PaddingIsZero(c) == c.length % 2 = 1 => c.packet[c.length] = 0

Signs(a) == (IF a[0] >= BYTE \div 2 THEN 1 ELSE 0) + (IF a[2] >= BYTE \div 2 THEN 1 ELSE 0)

SignsOf(c) == IF HasPseudoHeader(c.function) THEN Signs(c.src) + Signs(c.dest) ELSE 0

Wraps(c) == IF HasPseudoHeader(c.function) THEN (c.length + Protocol[c.function]) \div WORD ELSE 0

CarriesAtStake(c) == SignsOf(c) + Wraps(c)

\* In all other cases the result is the complement of the one's complement
\* sum, however often the sum must be folded (udp.c:53-76 and its copies).
SumExact ==
    pc = "done" /\ PaddingIsZero(call) /\ CarriesAtStake(call) = 0 =>
        result = WORD - 1 - OnesSum(TotalOf(call))

\* And in these cases the error is known: the byte after odd data weighs
\* BYTE + 1, and of all signs set and of a length that wraps at most one carry
\* each is missing (udp.c:48, udp.c:58, udp.c:63).
Beyond(c) == IF c.length % 2 = 1 THEN c.packet[c.length] * (BYTE + 1) ELSE 0

ErrorBounded ==
    pc = "done" =>
        \E carries \in 0 .. CarriesAtStake(call) :
            (TotalOf(call) + Beyond(call) - carries - (WORD - 1 - result)) % (WORD - 1) = 0

\* Every call returns, but for a length of 2^16 - 1, at which i < length for
\* every i the loop comes to (udp.c:53: i is a uint16_t).
LengthsReturn ==
    (pc = "words" /\ call.length # LENGTH_MOD - 1) ~> pc = "done"
=============================================================================
