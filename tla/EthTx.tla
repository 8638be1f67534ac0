------------------------------- MODULE EthTx -------------------------------
(***************************************************************************)
(* Register access and transmission (dev/eth.c).  The registers of the     *)
(* controller lie in four banks, selected by two bits of ECON1, of which   *)
(* eth_set_bank keeps a copy.  Every function of the driver is a program   *)
(* of register accesses, run one SPI transaction at a time, while the      *)
(* controller sends by itself.  The low and the high byte of a register,   *)
(* and registers of one purpose, are one register here.  Addresses count   *)
(* from ETH_REG_TX_START; those behind the transmit buffer belong to the   *)
(* receive ring.                                                           *)
(*                                                                         *)
(* The controller is external, modelled as the driver relies on it: BFS    *)
(* and BFC set and clear single bits; a transmission that fails clears     *)
(* TXRTS or, errata 12, leaves it set, sets TXERIF, and goes on only after *)
(* TXRST, which clears TXRTS; nothing but a soft reset clears TXERIF.  Its *)
(* memory pointers have room for one address of the memory and wrap.       *)
(***************************************************************************)
EXTENDS Integers, Sequences

CONSTANTS Packets,    \* records [id, length]
          TX_SIZE,    \* bytes of the transmit buffer
          MEM_SIZE,   \* bytes of the controller's memory
          MaxGiven,   \* bound: packets given to eth_send_packet
          MaxResets   \* bound: resets of the microcontroller

ASSUME TxAssumption ==
    /\ TX_SIZE \in Nat \ {0} /\ MEM_SIZE \in Nat /\ TX_SIZE <= MEM_SIZE
    /\ MaxGiven \in Nat /\ MaxResets \in Nat
    /\ \A p \in Packets : p.id \in Nat \ {0} /\ p.length \in Nat \ {0}

VARIABLES call, step,        \* the running function and its place in it
          eth_bank_pointer,  \* the driver's copy of the bank bits
          cleared,           \* within eth_set_bank, between its two opcodes
          packet, copied,    \* the packet to send, and its bytes copied so far
          bsel, rxen,        \* ECON1: bank bits, receive enable
          tx,                \* ECON1.TXRTS is clear ("off") or set
          txerif,            \* EIR.TXERIF
          busy,              \* MISTAT.BUSY
          written,           \* the registers written since the last soft reset
          ewrpt, etxnd, mem, \* write pointer, end pointer, memory
          given,             \* history: packets given to eth_send_packet
          unsent,            \* history: packets the controller is to send
          delivered,         \* history: packets sent
          lost,              \* history: packets lost, by cause
          sent,              \* history: the last frame sent, and its packet
          resets             \* resets of the microcontroller so far

driver     == <<call, step, eth_bank_pointer, cleared, packet, copied>>
controller == <<bsel, rxen, tx, txerif, busy, written, ewrpt, etxnd, mem>>
history    == <<given, unsent, delivered, lost, sent>>
vars       == <<driver, controller, history, resets>>
----------------------------------------------------------------------------
\* Bank bits; the registers of all banks have the address bits of bank 0.
Bank0 == {}
Bank1 == {"BSEL0"}
Bank2 == {"BSEL1"}
Bank3 == {"BSEL0", "BSEL1"}

InAllBanks == {"EIE", "EIR", "ECON1", "ECON2"}

BankOf(reg) ==
    CASE reg \in {"ERXFCON", "EPM", "EPKTCNT"} -> Bank1
      [] reg \in {"MACON1", "MACON2", "MACON3", "MAIPG", "MAMXFL",
                  "MICMD", "MIREGADR", "MIWR", "MIRDH"} -> Bank2
      [] reg \in {"MAADR", "MISTAT", "EREVID", "ECOCON"} -> Bank3
      [] OTHER -> Bank0

\* An access by eth_write_byte or eth_read_byte, which set the bank first, and
\* one by an opcode that takes the bank as it is.
Banked(op, reg) == [op |-> op, reg |-> reg, banked |-> TRUE]
Opcode(op, reg) == [op |-> op, reg |-> reg, banked |-> FALSE]
Write(reg)      == Banked("write", reg)
Read(reg)       == Banked("read", reg)

\* eth_read_phy_h: the PHY is read behind MISTAT.
ReadPhy == <<Write("MIREGADR"), Banked("start", "MICMD"), Banked("wait", "MISTAT"),
             Write("MICMD"), Read("MIRDH")>>

\* Fault: reception is enabled before the controller has its addresses.
EthInitEager ==
    <<Opcode("soft_reset", "ECON1"),
      Write("ERXST"), Write("ERXRDPT"), Write("ERXND"), Write("ETXST"), Write("ETXND"),
      Opcode("enable", "ECON1"),
      Write("ERXFCON"), Write("EPM"),
      Write("MACON1"), Write("MACON2"), Opcode("write", "MACON3"), Write("MAIPG"), Write("MAMXFL"),
      Write("MAADR"),
      Write("MIREGADR"), Banked("start", "MIWR"), Banked("wait", "MISTAT"),
      Banked("none", "ECON1"), Opcode("set", "EIE")>>

\* One bank after the other, then the PHY, by eth_write_phy, then the interrupt
\* and reception.
EthInit ==
    <<Opcode("soft_reset", "ECON1"),
      Write("ERXST"), Write("ERXRDPT"), Write("ERXND"), Write("ETXST"), Write("ETXND"),
      Write("ERXFCON"), Write("EPM"),
      Write("MACON1"), Write("MACON2"), Opcode("write", "MACON3"), Write("MAIPG"), Write("MAMXFL"),
      Write("MAADR"),
      Write("MIREGADR"), Banked("start", "MIWR"), Banked("wait", "MISTAT"),
      Banked("none", "ECON1"), Opcode("set", "EIE"), Opcode("enable", "ECON1")>>

\* The accesses between which eth_send_packet decides are numbered.
CheckTxrtsStep == 1
FillStep == 5

EthSendPacket ==
    <<Opcode("check_txrts", "ECON1"), Banked("check_txerif", "EIR"),
      Opcode("set_txrst", "ECON1"), Opcode("clear_txrst", "ECON1"),
      Write("EWRPT"), Write("ETXND"),
      Opcode("control", "memory"), Opcode("data", "memory"), Opcode("set_txrts", "ECON1")>>

\* The registers eth_receive_packet accesses; EthRx says what it reads.
EthReceivePacket ==
    <<Banked("check_count", "EPKTCNT"), Write("ERDPT"), Write("ERXRDPT"), Opcode("set", "ECON2")>>

Program(c) ==
    CASE c = "eth_init"                -> EthInit
      [] c = "eth_send_packet"         -> EthSendPacket
      [] c = "eth_receive_packet"      -> EthReceivePacket
      [] c = "eth_get_link_status"     -> ReadPhy
      [] c = "eth_get_rx_packet_count" -> <<Read("EPKTCNT")>>
      [] c = "eth_get_revision"        -> <<Read("EREVID")>>
      [] c = "eth_set_clock"           -> <<Write("ECOCON")>>

Idle == "idle"

Calls == {"eth_receive_packet", "eth_get_link_status", "eth_get_rx_packet_count",
          "eth_get_revision", "eth_set_clock"}

Configured ==
    {EthInit[n].reg : n \in {m \in DOMAIN EthInit : EthInit[m].op \in {"write", "start"}}}
----------------------------------------------------------------------------
NoPacket == [id |-> 0, length |-> 0]

Byte(p, k) == [id |-> p.id, k |-> k]

Garbage == [id |-> 0, k |-> 0]

Bytes(p) == [k \in 1 .. p.length |-> Byte(p, k)]

Addresses == 0 .. MEM_SIZE - 1

NextAddress(a) == IF a = MEM_SIZE - 1 THEN 0 ELSE a + 1

\* The packet lies in the transmit buffer, behind the control byte.
Fits(p) == p.length < TX_SIZE

Access == Program(call)[step]

BankMissing == Access.banked /\ BankOf(Access.reg) # eth_bank_pointer

\* The next SPI transaction is the access op itself.
At(op) == call # Idle /\ ~ BankMissing /\ Access.op = op

\* The access reaches the register it names.
Reached == Access.reg \in InAllBanks \/ bsel = BankOf(Access.reg)

GoTo(n) == step' = n /\ UNCHANGED <<call, eth_bank_pointer, cleared, packet, copied>>

Return == call' = Idle /\ step' = 1 /\ UNCHANGED <<eth_bank_pointer, cleared, packet, copied>>

\* On to the next access, or back to the caller after the last one.
Advance == IF step = Len(Program(call)) THEN Return ELSE GoTo(step + 1)

Lose(cause, n) == lost' = [lost EXCEPT ![cause] = @ + n]

Init ==
    /\ call = "eth_init" /\ step = 1
    /\ eth_bank_pointer = Bank0 /\ cleared = FALSE
    /\ packet = NoPacket /\ copied = 0
    /\ bsel = Bank0 /\ rxen = FALSE /\ tx = "off" /\ txerif = FALSE /\ busy = FALSE
    /\ written = {}
    /\ ewrpt = 0 /\ etxnd = 0
    /\ mem = [a \in Addresses |-> Garbage]
    /\ given = 0 /\ unsent = << >> /\ delivered = 0
    /\ lost = [failed |-> 0, cut |-> 0, restart |-> 0]
    /\ sent = [frame |-> << >>, of |-> NoPacket]
    /\ resets = 0
----------------------------------------------------------------------------
\* The main loop calls a function of the driver.
Begin(c) ==
    /\ call = Idle
    /\ call' = c /\ step' = 1
    /\ UNCHANGED <<eth_bank_pointer, cleared, packet, copied, controller, history, resets>>

BeginSend(p) ==
    /\ call = Idle
    /\ given < MaxGiven
    /\ call' = "eth_send_packet" /\ step' = CheckTxrtsStep
    /\ packet' = p /\ copied' = 0
    /\ given' = given + 1
    /\ UNCHANGED <<eth_bank_pointer, cleared, controller, unsent, delivered, lost, sent, resets>>

\* Fault: the bits of the old bank are left set.
ClearBankNot ==
    /\ call # Idle /\ BankMissing /\ ~ cleared
    /\ cleared' = TRUE
    /\ UNCHANGED <<call, step, eth_bank_pointer, packet, copied, controller, history, resets>>

\* eth_set_bank: two opcodes, and only then the copy.
ClearBank ==
    /\ call # Idle /\ BankMissing /\ ~ cleared
    /\ bsel' = {}
    /\ cleared' = TRUE
    /\ UNCHANGED <<call, step, eth_bank_pointer, packet, copied, rxen, tx, txerif, busy,
                   written, ewrpt, etxnd, mem, history, resets>>

SelectBank ==
    /\ call # Idle /\ BankMissing /\ cleared
    /\ bsel' = bsel \cup BankOf(Access.reg)
    /\ eth_bank_pointer' = BankOf(Access.reg)
    /\ cleared' = FALSE
    /\ UNCHANGED <<call, step, packet, copied, rxen, tx, txerif, busy,
                   written, ewrpt, etxnd, mem, history, resets>>

\* The controller forgets its configuration and what it was sending.
SoftReset ==
    /\ At("soft_reset")
    /\ Advance
    /\ bsel' = Bank0 /\ rxen' = FALSE /\ tx' = "off" /\ txerif' = FALSE /\ busy' = FALSE
    /\ written' = {}
    /\ unsent' = << >> /\ Lose("restart", Len(unsent))
    /\ UNCHANGED <<ewrpt, etxnd, mem, given, delivered, sent, resets>>

\* Fault: the control byte is forgotten.
PacketEndShort(length) == (length - 1) % MEM_SIZE

\* The last byte of a packet: the control byte is at ETH_REG_TX_START.
PacketEnd(length) == length % MEM_SIZE

WriteRegister ==
    /\ At("write")
    /\ Advance
    /\ written' = IF Reached THEN written \cup {Access.reg} ELSE written
    /\ ewrpt' = IF Reached /\ Access.reg = "EWRPT" THEN 0 ELSE ewrpt
    /\ etxnd' = IF ~ Reached \/ Access.reg # "ETXND" THEN etxnd
                ELSE IF call = "eth_init" THEN TX_SIZE - 1 ELSE PacketEnd(packet.length)
    /\ UNCHANGED <<bsel, rxen, tx, txerif, busy, mem, history, resets>>

\* An access to the PHY begins.
StartPhy ==
    /\ At("start")
    /\ Advance
    /\ written' = IF Reached THEN written \cup {Access.reg} ELSE written
    /\ busy' = Reached
    /\ UNCHANGED <<bsel, rxen, tx, txerif, ewrpt, etxnd, mem, history, resets>>

\* while(MISTAT.BUSY)
WaitPhy ==
    /\ At("wait")
    /\ ~ busy
    /\ Advance
    /\ UNCHANGED <<controller, history, resets>>

\* Accesses that leave all modelled state alone.
OtherAccess ==
    /\ At("read") \/ At("set") \/ At("none")
    /\ Advance
    /\ UNCHANGED <<controller, history, resets>>

EnableReception ==
    /\ At("enable")
    /\ Advance
    /\ rxen' = TRUE
    /\ UNCHANGED <<bsel, tx, txerif, busy, written, ewrpt, etxnd, mem, history, resets>>

\* Fault: TXRTS is not waited for.
CheckTxrtsNot ==
    /\ At("check_txrts")
    /\ GoTo(FillStep)
    /\ UNCHANGED <<controller, history, resets>>

\* while(ECON1.TXRTS)
CheckTxrts ==
    /\ At("check_txrts")
    /\ GoTo(IF tx = "off" THEN FillStep ELSE step + 1)
    /\ UNCHANGED <<controller, history, resets>>

\* Fault: a failed transmission is not noticed.
CheckTxerifNot ==
    /\ At("check_txerif")
    /\ GoTo(CheckTxrtsStep)
    /\ UNCHANGED <<controller, history, resets>>

CheckTxerif ==
    /\ At("check_txerif")
    /\ GoTo(IF txerif THEN step + 1 ELSE CheckTxrtsStep)
    /\ UNCHANGED <<controller, history, resets>>

\* eth_receive_packet: back to the caller when no packet is counted.
CheckCount ==
    /\ At("check_count")
    /\ Advance \/ Return
    /\ UNCHANGED <<controller, history, resets>>

\* Whatever is being sent is cut off.
SetTxrst ==
    /\ At("set_txrst")
    /\ Advance
    /\ tx' = "off"
    /\ unsent' = << >> /\ Lose("cut", Len(unsent))
    /\ UNCHANGED <<bsel, rxen, txerif, busy, written, ewrpt, etxnd, mem, given, delivered, sent,
                   resets>>

ClearTxrst ==
    /\ At("clear_txrst")
    /\ GoTo(CheckTxrtsStep)
    /\ UNCHANGED <<controller, history, resets>>

WriteControl ==
    /\ At("control")
    /\ Advance
    /\ mem' = [mem EXCEPT ![ewrpt] = Garbage]
    /\ ewrpt' = NextAddress(ewrpt)
    /\ UNCHANGED <<bsel, rxen, tx, txerif, busy, written, etxnd, history, resets>>

\* eth_write_buffer, byte by byte.
WriteData ==
    /\ At("data")
    /\ mem' = [mem EXCEPT ![ewrpt] = Byte(packet, copied + 1)]
    /\ ewrpt' = NextAddress(ewrpt)
    /\ copied' = copied + 1
    /\ step' = IF copied' = packet.length THEN step + 1 ELSE step
    /\ UNCHANGED <<call, eth_bank_pointer, cleared, packet, bsel, rxen, tx, txerif, busy,
                   written, etxnd, history, resets>>

SetTxrts ==
    /\ At("set_txrts")
    /\ Advance
    /\ tx' = "sending"
    /\ unsent' = Append(unsent, packet)
    /\ UNCHANGED <<bsel, rxen, txerif, busy, written, ewrpt, etxnd, mem, given, delivered, lost,
                   sent, resets>>
----------------------------------------------------------------------------
HwSent ==
    /\ tx = "sending"
    /\ tx' = "off"
    /\ sent' = [frame |-> [k \in 1 .. etxnd |-> mem[k]], of |-> Head(unsent)]
    /\ unsent' = Tail(unsent) /\ delivered' = delivered + 1
    /\ UNCHANGED <<driver, bsel, rxen, txerif, busy, written, ewrpt, etxnd, mem, given, lost, resets>>

\* A transmission fails, and may leave the transmit logic stalled.
HwFailed ==
    /\ tx = "sending"
    /\ tx' \in {"off", "stalled"}
    /\ txerif' = TRUE
    /\ unsent' = Tail(unsent) /\ Lose("failed", 1)
    /\ UNCHANGED <<driver, bsel, rxen, busy, written, ewrpt, etxnd, mem, given, delivered, sent,
                   resets>>

HwPhyDone ==
    /\ busy
    /\ busy' = FALSE
    /\ UNCHANGED <<driver, bsel, rxen, tx, txerif, written, ewrpt, etxnd, mem, history, resets>>

\* The microcontroller restarts, at any access, and forgets the packet it was to
\* send; the controller does not.
McuReset ==
    /\ resets < MaxResets
    /\ resets' = resets + 1
    /\ call' = "eth_init" /\ step' = 1
    /\ eth_bank_pointer' = Bank0 /\ cleared' = FALSE
    /\ packet' = NoPacket /\ copied' = 0
    /\ Lose("restart", IF call = "eth_send_packet" THEN 1 ELSE 0)
    /\ UNCHANGED <<controller, given, unsent, delivered, sent>>

Driver ==
    \/ ClearBank \/ SelectBank \/ SoftReset \/ WriteRegister \/ StartPhy \/ WaitPhy
    \/ OtherAccess \/ EnableReception \/ CheckTxrts \/ CheckTxerif \/ CheckCount \/ SetTxrst
    \/ ClearTxrst \/ WriteControl \/ WriteData \/ SetTxrts

Next ==
    \/ Driver
    \/ \E c \in Calls : Begin(c)
    \/ \E p \in Packets : BeginSend(p)
    \/ HwSent \/ HwFailed \/ HwPhyDone
    \/ McuReset

\* The program goes on, and so does the controller: a transmission ends one way
\* or another, and so does an access to the PHY.
Fairness == WF_vars(Driver) /\ WF_vars(HwSent \/ HwFailed) /\ WF_vars(HwPhyDone)

FairSpec == Init /\ [][Next]_vars /\ Fairness
----------------------------------------------------------------------------
\* Both sides have their types, and the pointers stay in the controller's memory.
TypeOK ==
    /\ call \in Calls \cup {Idle, "eth_init", "eth_send_packet"}
    /\ call # Idle => step \in DOMAIN Program(call)
    /\ {eth_bank_pointer, bsel} \subseteq SUBSET Bank3
    /\ packet \in Packets \cup {NoPacket} /\ copied \in 0 .. packet.length
    /\ {cleared, rxen, txerif, busy} \subseteq BOOLEAN
    /\ tx \in {"off", "sending", "stalled"}
    /\ {ewrpt, etxnd} \subseteq Addresses
    /\ mem \in [Addresses -> [id : Nat, k : Nat]]
    /\ given \in 0 .. MaxGiven /\ resets \in 0 .. MaxResets

\* The driver and the controller keep their types, and an access reaches the
\* register it names, opcodes that take the bank as it is
\* included (MACON3, eth.c:163), also when the copy of the bank bits was lost in
\* a reset of the microcontroller and the bits were not (eth.c:98, eth.c:222).
RegisterReached ==
    /\ TypeOK
    /\ call # Idle /\ ~ BankMissing /\ Access.reg \notin {"memory"} => Reached

\* The controller receives only while every register that eth_init writes has
\* been written since the last soft reset, also after a restart in the middle of
\* anything (eth.c:82-194).
ReceivesWhenConfigured == rxen => Configured \subseteq written

\* What goes out is a packet as it was given: no byte of an earlier one, none
\* missing, none overwritten while it was sent, also after a packet that was
\* longer than the transmit buffer.  Of that one nothing is promised:
\* eth_send_packet takes any length (eth.c:501-529).
SentAsGiven == Fits(sent.of) => sent.frame = Bytes(sent.of)

\* Every packet given is sent or still to be sent, unless its own transmission
\* fails, TXRST cuts it off, or a restart loses it, which costs two packets at
\* most: the one being given and the one being sent (eth.c:501-529, eth.c:98).
\* No packet waits behind another, and TXRST comes only after a transmission
\* failed (eth.c:505-509).
LossesExplained ==
    /\ Len(unsent) = IF tx = "sending" THEN 1 ELSE 0
    /\ given = delivered + lost.failed + lost.cut + lost.restart + Len(unsent)
                + (IF call = "eth_send_packet" THEN 1 ELSE 0)
    /\ lost.restart <= 2 * resets
    /\ lost.cut > 0 => lost.failed > 0
    /\ At("set_txrst") => txerif

\* Every function of the driver returns, also when a transmission fails and
\* stalls the transmit logic (eth.c:505, eth.c:336, eth.c:363).
CallsReturn == (call # Idle) ~> (call = Idle)
=============================================================================
