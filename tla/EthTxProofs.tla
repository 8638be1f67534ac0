---------------------------- MODULE EthTxProofs ----------------------------
(***************************************************************************)
(* Theorems about register access and transmission, for every set of       *)
(* packets, size of the transmit buffer and number of restarts.            *)
(***************************************************************************)
EXTENDS EthTx, NatLemmas

\* The copy of the bank bits can be trusted, except before the soft reset and
\* within eth_set_bank; and the access that takes the bank as it is finds its own.
BanksAgree ==
    /\ call = "eth_init" /\ step = 1 => eth_bank_pointer = Bank0 /\ ~ cleared
    /\ ~ cleared => bsel = eth_bank_pointer \/ (call = "eth_init" /\ step = 1)
    /\ cleared => call # Idle /\ BankMissing /\ bsel = {}
    /\ call = "eth_init" /\ step = 11 => eth_bank_pointer = Bank2

\* eth_init has written the registers up to where it is.
ConfiguredSoFar ==
    call = "eth_init" =>
        \A m \in 1 .. step - 1 : EthInit[m].op \in {"write", "start"} => EthInit[m].reg \in written

\* The transmit buffer is filled only while nothing is sent, with the packet up
\* to the byte that was copied last.
Filled ==
    /\ call = "eth_init" /\ step > 1 => tx = "off"
    /\ call = "eth_send_packet" =>
          /\ packet \in Packets
          /\ step \in {3, 4} => txerif
          /\ step < 8 => copied = 0
          /\ step >= FillStep => tx = "off"
          /\ step \in {6, 7} => ewrpt = 0
          /\ step = 8 => copied < packet.length
          /\ step = 9 => copied = packet.length
          /\ Fits(packet) =>
                /\ step >= 7 => etxnd = packet.length
                /\ step = 8 => ewrpt = copied + 1
                /\ step >= 8 => \A k \in 1 .. copied : mem[k] = Byte(packet, k)

\* What is being sent lies in the buffer, between the pointers, if it fits.
OnAir ==
    /\ tx # "sending" => unsent = << >>
    /\ tx = "sending" =>
          \E p \in Packets :
             /\ unsent = <<p>>
             /\ Fits(p) => etxnd = p.length /\ \A k \in 1 .. p.length : mem[k] = Byte(p, k)

IInv ==
    /\ TypeOK
    /\ BanksAgree
    /\ ReceivesWhenConfigured /\ ConfiguredSoFar
    /\ Filled /\ OnAir
    /\ SentAsGiven
----------------------------------------------------------------------------
\* Where in the programs the kinds of accesses are.
LEMMA InitAccesses ==
    /\ Program("eth_init") = EthInit /\ Len(EthInit) = 20 /\ DOMAIN EthInit = 1 .. 20
    /\ \A n \in 1 .. 20 :
          /\ EthInit[n].op = "soft_reset" <=> n = 1
          /\ EthInit[n].op = "start" <=> n = 16
          /\ EthInit[n].op = "enable" <=> n = 20
          /\ EthInit[n].op = "write" <=> n \in 2 .. 15
          /\ EthInit[n].op \in {"soft_reset", "write", "start", "wait", "none", "set", "enable"}
          /\ EthInit[n].reg \notin {"EWRPT", "memory"}
          /\ ~ EthInit[n].banked => EthInit[n].reg \in InAllBanks \/ n = 11
    /\ ~ EthInit[1].banked
    /\ EthInit[10] = Write("MACON2")
    /\ EthInit[11] = Opcode("write", "MACON3")
  <1>1. Program("eth_init") = EthInit
    BY DEF Program
  <1>2. Len(EthInit) = 20 /\ DOMAIN EthInit = 1 .. 20
    BY DEF EthInit
  <1>3. ASSUME NEW n \in 1 .. 20
        PROVE  /\ EthInit[n].op = "soft_reset" <=> n = 1
               /\ EthInit[n].op = "start" <=> n = 16
               /\ EthInit[n].op = "enable" <=> n = 20
               /\ EthInit[n].op = "write" <=> n \in 2 .. 15
               /\ EthInit[n].op \in {"soft_reset", "write", "start", "wait", "none", "set", "enable"}
    BY DEF EthInit, Write, Opcode, Banked
  <1>4. ASSUME NEW n \in 1 .. 20
        PROVE  EthInit[n].reg \notin {"EWRPT", "memory"}
    BY DEF EthInit, Write, Opcode, Banked
  <1>6. ASSUME NEW n \in 1 .. 20
        PROVE  ~ EthInit[n].banked => EthInit[n].reg \in InAllBanks \/ n = 11
    BY DEF EthInit, Write, Opcode, Banked, InAllBanks
  <1>7. ~ EthInit[1].banked
    BY DEF EthInit, Opcode
  <1>8. EthInit[10] = Write("MACON2") /\ EthInit[11] = Opcode("write", "MACON3")
    BY DEF EthInit
  <1> QED
    BY <1>1, <1>2, <1>3, <1>4, <1>6, <1>7, <1>8

LEMMA SendAccesses ==
    /\ Program("eth_send_packet") = EthSendPacket
    /\ Len(EthSendPacket) = 9 /\ DOMAIN EthSendPacket = 1 .. 9
    /\ \A n \in 1 .. 9 :
          /\ EthSendPacket[n].op = "check_txrts" <=> n = 1
          /\ EthSendPacket[n].op = "check_txerif" <=> n = 2
          /\ EthSendPacket[n].op = "set_txrst" <=> n = 3
          /\ EthSendPacket[n].op = "clear_txrst" <=> n = 4
          /\ EthSendPacket[n].op = "write" <=> n \in {5, 6}
          /\ EthSendPacket[n].op = "control" <=> n = 7
          /\ EthSendPacket[n].op = "data" <=> n = 8
          /\ EthSendPacket[n].op = "set_txrts" <=> n = 9
          /\ EthSendPacket[n].op \notin {"soft_reset", "start", "wait", "read", "none", "set", "enable",
                                              "check_count"}
          /\ EthSendPacket[n].reg = "EWRPT" <=> n = 5
          /\ EthSendPacket[n].reg = "ETXND" <=> n = 6
          /\ ~ EthSendPacket[n].banked => EthSendPacket[n].reg \in InAllBanks \cup {"memory"}
  <1>1. Program("eth_send_packet") = EthSendPacket
    BY DEF Program
  <1>2. Len(EthSendPacket) = 9 /\ DOMAIN EthSendPacket = 1 .. 9
    BY DEF EthSendPacket
  <1>3. ASSUME NEW n \in 1 .. 9
        PROVE  /\ EthSendPacket[n].op = "check_txrts" <=> n = 1
               /\ EthSendPacket[n].op = "check_txerif" <=> n = 2
               /\ EthSendPacket[n].op = "set_txrst" <=> n = 3
               /\ EthSendPacket[n].op = "clear_txrst" <=> n = 4
               /\ EthSendPacket[n].op = "write" <=> n \in {5, 6}
               /\ EthSendPacket[n].op = "control" <=> n = 7
               /\ EthSendPacket[n].op = "data" <=> n = 8
               /\ EthSendPacket[n].op = "set_txrts" <=> n = 9
               /\ EthSendPacket[n].op \notin {"soft_reset", "start", "wait", "read", "none", "set",
                                              "enable", "check_count"}
    BY DEF EthSendPacket, Write, Opcode, Banked
  <1>4. ASSUME NEW n \in 1 .. 9
        PROVE  /\ EthSendPacket[n].reg = "EWRPT" <=> n = 5
               /\ EthSendPacket[n].reg = "ETXND" <=> n = 6
    BY DEF EthSendPacket, Write, Opcode, Banked
  <1>6. ASSUME NEW n \in 1 .. 9
        PROVE  ~ EthSendPacket[n].banked => EthSendPacket[n].reg \in InAllBanks \cup {"memory"}
    BY DEF EthSendPacket, Write, Opcode, Banked, InAllBanks
  <1> QED
    BY <1>1, <1>2, <1>3, <1>4, <1>6

\* A program that leaves the transmit pointers and the buffer alone, and uses
\* opcodes only on registers that every bank has.
Plain(program) ==
    /\ Len(program) \in Nat \ {0} /\ DOMAIN program = 1 .. Len(program)
    /\ \A n \in DOMAIN program :
          /\ program[n].op \in {"read", "write", "start", "wait", "set", "check_count"}
          /\ program[n].reg \notin {"EWRPT", "ETXND", "memory"}
          /\ ~ program[n].banked => program[n].reg \in InAllBanks

LEMMA OtherAccesses ==
    ASSUME NEW c \in Calls
    PROVE  Plain(Program(c))
  <1>1. CASE c = "eth_receive_packet"
    <2>1. Program(c) = EthReceivePacket
      BY <1>1 DEF Program
    <2>2. Len(EthReceivePacket) = 4 /\ DOMAIN EthReceivePacket = 1 .. 4
      BY DEF EthReceivePacket
    <2>3. ASSUME NEW n \in 1 .. 4
          PROVE  /\ EthReceivePacket[n].op \in {"read", "write", "start", "wait", "set", "check_count"}
                 /\ EthReceivePacket[n].reg \notin {"EWRPT", "ETXND", "memory"}
                 /\ ~ EthReceivePacket[n].banked => EthReceivePacket[n].reg \in InAllBanks
      BY DEF EthReceivePacket, Read, Write, Opcode, Banked, InAllBanks
    <2> QED
      BY <2>1, <2>2, <2>3 DEF Plain
  <1>2. CASE c = "eth_get_link_status"
    <2>1. Program(c) = ReadPhy
      BY <1>2 DEF Program
    <2>2. Len(ReadPhy) = 5 /\ DOMAIN ReadPhy = 1 .. 5
      BY DEF ReadPhy
    <2>3. ASSUME NEW n \in 1 .. 5
          PROVE  /\ ReadPhy[n].op \in {"read", "write", "start", "wait", "set", "check_count"}
                 /\ ReadPhy[n].reg \notin {"EWRPT", "ETXND", "memory"}
                 /\ ReadPhy[n].banked
      BY DEF ReadPhy, Read, Write, Banked
    <2> QED
      BY <2>1, <2>2, <2>3 DEF Plain
  <1>3. ASSUME NEW a, a = Read("EPKTCNT") \/ a = Read("EREVID") \/ a = Write("ECOCON")
        PROVE  Plain(<<a>>)
    <2>1. /\ a.op \in {"read", "write", "start", "wait", "set", "check_count"}
          /\ a.reg \notin {"EWRPT", "ETXND", "memory"}
          /\ a.banked
      BY <1>3 DEF Read, Write, Banked
    <2>2. Len(<<a>>) = 1 /\ <<a>>[1] = a
      OBVIOUS
    <2>3. <<a>> \in Seq({a})
      OBVIOUS
    <2>4. DOMAIN <<a>> = 1 .. 1
      BY <2>2, <2>3
    <2>5. \A n \in 1 .. 1 : n = 1
      OBVIOUS
    <2> QED
      BY <2>1, <2>2, <2>4, <2>5 DEF Plain
  <1>4. CASE c \in {"eth_get_rx_packet_count", "eth_get_revision", "eth_set_clock"}
    <2>1. \/ Program(c) = <<Read("EPKTCNT")>>
          \/ Program(c) = <<Read("EREVID")>>
          \/ Program(c) = <<Write("ECOCON")>>
      BY <1>4 DEF Program
    <2> QED
      BY <1>3, <2>1
  <1> QED
    BY <1>1, <1>2, <1>4 DEF Calls
LEMMA BankOfBanks ==
    ASSUME NEW reg
    PROVE  BankOf(reg) \in SUBSET Bank3 /\ {} \in SUBSET Bank3
  BY DEF BankOf, Bank0, Bank1, Bank2, Bank3

LEMMA AllCalls ==
    /\ Idle \notin Calls /\ "eth_init" \notin Calls /\ "eth_send_packet" \notin Calls
    /\ Idle # "eth_init" /\ Idle # "eth_send_packet"
  BY DEF Calls, Idle

\* The access of the running function, by function.
LEMMA Running ==
    ASSUME TypeOK, call # Idle
    PROVE  /\ \/ /\ call = "eth_init" /\ step \in 1 .. 20
                 /\ Access = EthInit[step] /\ Len(Program(call)) = 20
              \/ /\ call = "eth_send_packet" /\ step \in 1 .. 9
                 /\ Access = EthSendPacket[step] /\ Len(Program(call)) = 9
              \/ /\ call \in Calls /\ step \in 1 .. Len(Program(call))
                 /\ Len(Program(call)) \in Nat
                 /\ Access.op \in {"read", "write", "start", "wait", "set", "check_count"}
                 /\ Access.reg \notin {"EWRPT", "ETXND", "memory"}
                 /\ ~ Access.banked => Access.reg \in InAllBanks
           /\ step \in Nat \ {0} /\ Len(Program(call)) \in Nat /\ step <= Len(Program(call))
           /\ DOMAIN Program(call) = 1 .. Len(Program(call))
  <1>1. step \in DOMAIN Program(call) /\ call \in Calls \cup {"eth_init", "eth_send_packet"}
    BY DEF TypeOK
  <1>2. CASE call = "eth_init"
    BY <1>1, <1>2, InitAccesses DEF Access
  <1>3. CASE call = "eth_send_packet"
    BY <1>1, <1>3, SendAccesses DEF Access
  <1>4. CASE call \in Calls
    BY <1>1, <1>4, OtherAccesses DEF Access, Plain
  <1> QED
    BY <1>1, <1>2, <1>3, <1>4

\* The copy of the bank bits is right when an access takes place.
LEMMA AccessReached ==
    ASSUME TypeOK, BanksAgree, call # Idle, ~ BankMissing, Access.reg # "memory"
    PROVE  Reached /\ ~ cleared
  <1>1. ~ cleared
    BY DEF BanksAgree
  <1> SUFFICES Reached
    BY <1>1
  <1>2. CASE call = "eth_init" /\ step = 1
    <2>1. Access = EthInit[1]
      BY <1>2, Running, AllCalls
    <2>2. EthInit[1].reg \in InAllBanks
      BY InitAccesses
    <2> QED
      BY <2>1, <2>2 DEF Reached
  <1>3. CASE ~ (call = "eth_init" /\ step = 1)
    <2>1. bsel = eth_bank_pointer
      BY <1>1, <1>3 DEF BanksAgree
    <2>2. CASE Access.banked
      BY <2>1, <2>2 DEF BankMissing, Reached
    <2>3. CASE ~ Access.banked
      <3>1. Access.reg \in InAllBanks \/ (call = "eth_init" /\ step = 11)
        <4>1. CASE call = "eth_init"
          <5>1. Access = EthInit[step] /\ step \in 1 .. 20
            BY <4>1, Running, AllCalls
          <5> QED
            BY <2>3, <4>1, <5>1, InitAccesses
        <4>2. CASE call = "eth_send_packet"
          BY <2>3, <4>2, Running, SendAccesses, AllCalls
        <4>3. CASE call \in Calls
          BY <2>3, <4>3, Running, AllCalls
        <4> QED
          BY <4>1, <4>2, <4>3, Running
      <3>2. CASE call = "eth_init" /\ step = 11
        <4>1. eth_bank_pointer = Bank2 /\ Access.reg = "MACON3"
          BY <3>2, Running, InitAccesses, AllCalls DEF BanksAgree, Opcode
        <4> QED
          BY <2>1, <4>1 DEF Reached, BankOf
      <3> QED
        BY <3>1, <3>2 DEF Reached
    <2> QED
      BY <2>2, <2>3
  <1> QED
    BY <1>1, <1>2, <1>3

\* What the step to the next access does for any access.
LEMMA Advances ==
    ASSUME TypeOK, call # Idle, Advance
    PROVE  /\ call' \in Calls \cup {Idle, "eth_init", "eth_send_packet"}
           /\ call' # Idle => /\ call' = call /\ step' = step + 1
                              /\ step' \in DOMAIN Program(call')
           /\ UNCHANGED <<eth_bank_pointer, cleared, packet, copied>>
  BY Running DEF Advance, Return, GoTo, TypeOK

LEMMA AdvanceBanks ==
    ASSUME TypeOK, BanksAgree, call # Idle, ~ BankMissing, Advance, bsel' = bsel,
           ~ (call = "eth_init" /\ step = 1)
    PROVE  BanksAgree'
  <1>1. ~ cleared /\ bsel = eth_bank_pointer
    BY DEF BanksAgree
  <1>2. ~ (call' = "eth_init" /\ step' = 1)
    BY Advances, Running, AllCalls
  <1>3. ASSUME call' = "eth_init", step' = 11 PROVE eth_bank_pointer = Bank2
    <2>1. call = "eth_init" /\ step = 10
      BY <1>3, Advances, Running, AllCalls
    <2>2. Access.banked /\ Access.reg = "MACON2"
      BY <2>1, Running, InitAccesses, AllCalls DEF Write, Banked
    <2>3. BankOf("MACON2") = Bank2
      BY DEF BankOf
    <2> QED
      BY <2>2, <2>3 DEF BankMissing
  <1> QED
    BY <1>1, <1>2, <1>3, Advances DEF BanksAgree

\* A step of eth_init that writes its register is on the record.
LEMMA AdvanceConfigured ==
    ASSUME TypeOK, ConfiguredSoFar, call # Idle, Advance,
           written \subseteq written',
           call = "eth_init" /\ Access.op \in {"write", "start"} => Access.reg \in written'
    PROVE  ConfiguredSoFar'
  <1> SUFFICES ASSUME call' = "eth_init", NEW m \in 1 .. step' - 1,
                      EthInit[m].op \in {"write", "start"}
               PROVE  EthInit[m].reg \in written'
    BY DEF ConfiguredSoFar
  <1>1. call = "eth_init" /\ step' = step + 1 /\ step \in 1 .. 20
    BY Advances, Running, AllCalls
  <1>2. CASE m = step
    BY <1>1, <1>2, Running, AllCalls
  <1>3. CASE m # step
    BY <1>1, <1>3 DEF ConfiguredSoFar
  <1> QED
    BY <1>2, <1>3
----------------------------------------------------------------------------
LEMMA InitEstablishes == Init => IInv
  <1> SUFFICES ASSUME Init PROVE IInv
    OBVIOUS
  <1>1. TypeOK
    <2>1. mem \in [Addresses -> [id : Nat, k : Nat]]
      BY DEF Init, Garbage
    <2>2. step \in DOMAIN Program(call)
      BY InitAccesses DEF Init
    <2>3. packet \in Packets \cup {NoPacket} /\ copied \in 0 .. packet.length
      BY DEF Init, NoPacket
    <2>4. ewrpt \in 0 .. TX_SIZE /\ etxnd \in Addresses /\ resets \in 0 .. MaxResets
      BY TxAssumption DEF Init, Addresses
    <2> QED
      BY <2>1, <2>2, <2>3, <2>4 DEF Init, TypeOK, Bank0, Bank3
  <1>2. BanksAgree
    BY DEF Init, BanksAgree, Bank0
  <1>3. ReceivesWhenConfigured /\ ConfiguredSoFar
    BY DEF Init, ReceivesWhenConfigured, ConfiguredSoFar
  <1>4. Filled /\ OnAir
    BY DEF Init, Filled, OnAir
  <1>5. SentAsGiven
    <2>1. << >> = [k \in 1 .. 0 |-> Byte(NoPacket, k)]
      OBVIOUS
    <2> QED
      BY <2>1 DEF Init, SentAsGiven, Bytes, NoPacket
  <1> QED
    BY <1>1, <1>2, <1>3, <1>4, <1>5 DEF IInv

\* A call begins at the first access of its program, with the bank copy right.
LEMMA BeginPreserves ==
    ASSUME IInv, NEW c \in Calls, Begin(c)
    PROVE  IInv'
  <1>1. call = Idle /\ call' = c /\ step' = 1 /\ ~ cleared
        /\ UNCHANGED <<eth_bank_pointer, cleared, packet, copied, controller, given, unsent, sent, resets>>
    BY AllCalls DEF Begin, IInv, BanksAgree, history
  <1>2. c \notin {"eth_init", "eth_send_packet", Idle} /\ step' \in DOMAIN Program(c)
    BY <1>1, AllCalls, OtherAccesses DEF Plain
  <1>3. TypeOK'
    BY <1>1, <1>2 DEF IInv, TypeOK, controller, Addresses
  <1>4. BanksAgree'
    BY <1>1, <1>2, AllCalls DEF IInv, BanksAgree, controller
  <1> QED
    BY <1>1, <1>2, <1>3, <1>4 DEF IInv, ReceivesWhenConfigured, ConfiguredSoFar, Filled, OnAir,
       SentAsGiven, controller

LEMMA BeginSendPreserves ==
    ASSUME IInv, NEW p \in Packets, BeginSend(p)
    PROVE  IInv'
  <1>1. call = Idle /\ call' = "eth_send_packet" /\ step' = 1 /\ ~ cleared
        /\ packet' = p /\ copied' = 0
        /\ given < MaxGiven /\ given' = given + 1
        /\ UNCHANGED <<eth_bank_pointer, cleared, controller, unsent, sent, resets>>
    BY AllCalls DEF BeginSend, IInv, BanksAgree, CheckTxrtsStep
  <1>2. TypeOK'
    <2>1. step' \in DOMAIN Program(call') /\ copied' \in 0 .. packet'.length
      BY <1>1, SendAccesses, TxAssumption
    <2>2. given' \in 0 .. MaxGiven
      BY <1>1, TxAssumption DEF IInv, TypeOK
    <2> QED
      BY <1>1, <2>1, <2>2 DEF IInv, TypeOK, controller, Addresses
  <1>3. BanksAgree'
    BY <1>1, AllCalls DEF IInv, BanksAgree, controller
  <1>4. Filled'
    BY <1>1 DEF Filled, FillStep
  <1> QED
    BY <1>1, <1>2, <1>3, <1>4 DEF IInv, ReceivesWhenConfigured, ConfiguredSoFar, OnAir,
       SentAsGiven, controller

\* eth_set_bank never interrupts the access before it, and leaves copy and bits
\* the same.
LEMMA SetBankPreserves ==
    ASSUME IInv, ClearBank \/ SelectBank
    PROVE  IInv'
  <1>1. /\ call # Idle /\ BankMissing
        /\ UNCHANGED <<call, step, packet, copied, rxen, tx, txerif, busy, written, ewrpt, etxnd,
                       mem, given, unsent, sent, resets>>
    BY DEF ClearBank, SelectBank, history
  <1>2. ~ (call = "eth_init" /\ step \in {1, 11})
    <2>1. Access.banked
      BY <1>1 DEF BankMissing
    <2>2. call = "eth_init" => Access = EthInit[step]
      BY <1>1, Running, AllCalls DEF IInv
    <2>3. ~ EthInit[1].banked /\ ~ EthInit[11].banked
      BY InitAccesses DEF Opcode
    <2> QED
      BY <2>1, <2>2, <2>3
  <1>3. Access' = Access
    BY <1>1 DEF Access
  <1>4. CASE ClearBank
    <2>1. bsel' = {} /\ cleared' = TRUE /\ eth_bank_pointer' = eth_bank_pointer
      BY <1>4 DEF ClearBank
    <2>2. TypeOK'
      BY <1>1, <2>1, BankOfBanks DEF IInv, TypeOK, Addresses
    <2>3. BanksAgree'
      BY <1>1, <1>2, <1>3, <2>1 DEF BanksAgree, BankMissing
    <2> QED
      BY <1>1, <2>2, <2>3 DEF IInv, ReceivesWhenConfigured, ConfiguredSoFar, Filled, OnAir, SentAsGiven
  <1>5. CASE SelectBank
    <2>1. cleared' = FALSE /\ eth_bank_pointer' = BankOf(Access.reg) /\ bsel' = BankOf(Access.reg)
      BY <1>5 DEF SelectBank, IInv, BanksAgree
    <2>2. TypeOK'
      BY <1>1, <2>1, BankOfBanks DEF IInv, TypeOK, Addresses
    <2>3. BanksAgree'
      BY <1>1, <1>2, <2>1 DEF BanksAgree
    <2> QED
      BY <1>1, <2>2, <2>3 DEF IInv, ReceivesWhenConfigured, ConfiguredSoFar, Filled, OnAir, SentAsGiven
  <1> QED
    BY <1>4, <1>5

\* The soft reset sets the bank bits to what the copy says already.
LEMMA SoftResetPreserves ==
    ASSUME IInv, SoftReset
    PROVE  IInv'
  <1>1. call # Idle /\ ~ BankMissing /\ Access.op = "soft_reset"
    BY DEF SoftReset, At
  <1>2. call = "eth_init" /\ step = 1
    <2>1. ~ (call \in Calls)
      BY <1>1, Running, AllCalls DEF IInv
    <2>2. ~ (call = "eth_send_packet")
      BY <1>1, Running, SendAccesses, AllCalls DEF IInv
    <2>3. call = "eth_init" /\ step \in 1 .. 20 /\ Access = EthInit[step]
      BY <1>1, <2>1, <2>2, Running DEF IInv
    <2> QED
      BY <1>1, <2>3, InitAccesses
  <1>3. call' = "eth_init" /\ step' = 2 /\ UNCHANGED <<eth_bank_pointer, cleared, packet, copied>>
    <2>1. Len(Program(call)) = 20 /\ step # 20 /\ step + 1 = 2
      BY <1>2, InitAccesses
    <2> QED
      BY <1>2, <2>1 DEF SoftReset, Advance, GoTo
  <1>4. /\ bsel' = Bank0 /\ rxen' = FALSE /\ tx' = "off" /\ txerif' = FALSE /\ busy' = FALSE
        /\ written' = {} /\ unsent' = << >>
        /\ UNCHANGED <<ewrpt, etxnd, mem, given, sent, resets>>
    BY DEF SoftReset
  <1>5. TypeOK'
    <2>1. step' \in DOMAIN Program(call')
      BY <1>3, InitAccesses
    <2> QED
      BY <1>3, <1>4, <2>1, BankOfBanks DEF IInv, TypeOK, Addresses, Bank0
  <1>6. BanksAgree'
    BY <1>2, <1>3, <1>4, AllCalls DEF IInv, BanksAgree
  <1>7. ReceivesWhenConfigured' /\ ConfiguredSoFar'
    <2>1. ConfiguredSoFar'
      <3> SUFFICES ASSUME NEW m \in 1 .. 2 - 1, EthInit[m].op \in {"write", "start"} PROVE FALSE
        BY <1>3 DEF ConfiguredSoFar
      <3>1. m = 1
        OBVIOUS
      <3> QED
        BY <3>1, InitAccesses
    <2> QED
      BY <1>4, <2>1 DEF ReceivesWhenConfigured
  <1>8. Filled' /\ OnAir' /\ SentAsGiven'
    BY <1>3, <1>4 DEF IInv, Filled, OnAir, SentAsGiven
  <1> QED
    BY <1>5, <1>6, <1>7, <1>8 DEF IInv
\* eth_init and eth_send_packet write the pointers each at its place, and only
\* while nothing is sent.
LEMMA WriteRegisterPreserves ==
    ASSUME IInv, WriteRegister
    PROVE  IInv'
  <1>1. call # Idle /\ ~ BankMissing /\ Access.op = "write"
    BY DEF WriteRegister, At
  <1>2. /\ Advance
        /\ UNCHANGED <<bsel, rxen, tx, txerif, busy, mem, given, unsent, sent, resets>>
        /\ written \subseteq written'
    BY DEF WriteRegister, history
  <1>3. ~ (call = "eth_init" /\ step = 1)
    BY <1>1, Running, InitAccesses, AllCalls DEF IInv
  <1>4. /\ call = "eth_init" => step \in 1 .. 20 /\ Access = EthInit[step] /\ step \in 2 .. 15
        /\ call = "eth_send_packet" => step \in {5, 6} /\ Access = EthSendPacket[step]
        /\ call \notin {"eth_init", "eth_send_packet"} => Access.reg \notin {"EWRPT", "ETXND", "memory"}
    <2>1. CASE call = "eth_init"
      <3>1. step \in 1 .. 20 /\ Access = EthInit[step]
        BY <1>1, <2>1, Running, AllCalls DEF IInv
      <3> QED
        BY <1>1, <2>1, <3>1, InitAccesses
    <2>2. CASE call = "eth_send_packet"
      <3>1. step \in 1 .. 9 /\ Access = EthSendPacket[step]
        BY <1>1, <2>2, Running, AllCalls DEF IInv
      <3> QED
        BY <1>1, <2>2, <3>1, SendAccesses
    <2>3. CASE call \in Calls
      BY <1>1, <2>3, Running, AllCalls DEF IInv
    <2> QED
      BY <1>1, <2>1, <2>2, <2>3, Running DEF IInv
  <1>5. Access.reg # "memory"
    <2>1. call = "eth_send_packet" => Access.reg # "memory"
      BY <1>4 DEF EthSendPacket, Write, Banked
    <2> QED
      BY <1>4, <2>1, InitAccesses
  <1>6. Reached /\ written' = written \cup {Access.reg}
    BY <1>1, <1>5, AccessReached DEF IInv, WriteRegister
  <1>7. /\ Access.reg = "EWRPT" <=> call = "eth_send_packet" /\ step = 5
        /\ Access.reg = "ETXND" => call = "eth_init" \/ (call = "eth_send_packet" /\ step = 6)
        /\ call = "eth_send_packet" /\ step = 6 => Access.reg = "ETXND"
    BY <1>4, InitAccesses, SendAccesses
  <1>8. /\ ewrpt' = IF Access.reg = "EWRPT" THEN 0 ELSE ewrpt
        /\ Access.reg # "ETXND" => etxnd' = etxnd
        /\ Access.reg = "ETXND" =>
              etxnd' = IF call = "eth_init" THEN TX_SIZE - 1 ELSE packet.length % MEM_SIZE
    BY <1>6 DEF WriteRegister, PacketEnd
  <1>9. call = "eth_send_packet" => packet \in Packets /\ tx = "off" /\ copied = 0
    BY <1>4 DEF IInv, Filled, FillStep
  <1>10. call = "eth_init" => tx = "off"
    BY <1>4 DEF IInv, Filled
  <1>11. TypeOK'
    <2>1. ewrpt' \in Addresses
      BY <1>8, TxAssumption DEF IInv, TypeOK, Addresses
    <2>2. call = "eth_send_packet" => packet.length % MEM_SIZE \in Addresses
      <3> SUFFICES ASSUME call = "eth_send_packet" PROVE packet.length % MEM_SIZE \in 0 .. MEM_SIZE - 1
        BY DEF Addresses
      <3>1. packet.length \in Int /\ MEM_SIZE \in Nat \ {0}
        BY <1>9, TxAssumption
      <3> QED
        BY <3>1, DivMod
    <2>3. etxnd' \in Addresses
      BY <1>7, <1>8, <2>2, TxAssumption DEF IInv, TypeOK, Addresses
    <2> QED
      BY <1>1, <1>2, <2>1, <2>3, Advances DEF IInv, TypeOK, Addresses
  <1>12. BanksAgree'
    BY <1>1, <1>2, <1>3, AdvanceBanks DEF IInv
  <1>13. ReceivesWhenConfigured' /\ ConfiguredSoFar'
    <2>1. ConfiguredSoFar'
      BY <1>1, <1>2, <1>6, AdvanceConfigured DEF IInv
    <2> QED
      BY <1>2, <2>1 DEF IInv, ReceivesWhenConfigured
  <1>14. Filled'
    <2>1. call' = "eth_init" => tx' = "off"
      BY <1>1, <1>2, <1>10, Advances, AllCalls DEF IInv
    <2>2. ASSUME call' = "eth_send_packet"
          PROVE  /\ packet' \in Packets /\ tx' = "off" /\ copied' = 0
                 /\ step' \in {6, 7}
                 /\ ewrpt' = 0
                 /\ step' = 7 /\ Fits(packet') => etxnd' = packet'.length
      <3>1. call = "eth_send_packet" /\ step' = step + 1 /\ packet' = packet /\ copied' = copied
        BY <1>1, <1>2, <2>2, Advances, AllCalls DEF IInv
      <3>2. step = 6 => ewrpt = 0
        BY <3>1 DEF IInv, Filled
      <3>3. Fits(packet) => packet.length % MEM_SIZE = packet.length
        <4> SUFFICES ASSUME Fits(packet) PROVE packet.length % MEM_SIZE = packet.length
          OBVIOUS
        <4>1. packet.length \in 0 .. MEM_SIZE - 1 /\ MEM_SIZE \in Nat \ {0}
          BY <1>9, <3>1, TxAssumption DEF Fits
        <4> QED
          BY <4>1, ModSmall
      <3> QED
        BY <1>2, <1>4, <1>7, <1>8, <1>9, <3>1, <3>2, <3>3, AllCalls DEF Fits
    <2> QED
      BY <2>1, <2>2 DEF Filled, FillStep
  <1>15. OnAir'
    <2>1. tx = "sending" => etxnd' = etxnd
      BY <1>7, <1>8, <1>9, <1>10
    <2> QED
      BY <1>2, <2>1 DEF IInv, OnAir
  <1> QED
    BY <1>2, <1>11, <1>12, <1>13, <1>14, <1>15 DEF IInv, SentAsGiven

\* Accesses that do not concern transmission: the program advances, and the rest
\* stays as it is or is on the record of eth_init.
LEMMA PassagePreserves ==
    ASSUME IInv, call # Idle, ~ BankMissing, Advance,
           Access.op \in {"start", "wait", "read", "set", "none"},
           written \subseteq written',
           call = "eth_init" /\ Access.op \in {"write", "start"} => Access.reg \in written',
           busy' \in BOOLEAN,
           UNCHANGED <<bsel, rxen, tx, txerif, ewrpt, etxnd, mem, given, unsent, sent, resets>>
    PROVE  IInv'
  <1>1. call # "eth_send_packet" /\ ~ (call = "eth_init" /\ step = 1)
    <2>1. CASE call = "eth_init"
      BY <2>1, Running, InitAccesses, AllCalls DEF IInv
    <2>2. CASE call = "eth_send_packet"
      BY <2>2, Running, SendAccesses, AllCalls DEF IInv
    <2> QED
      BY <2>1, <2>2
  <1>2. TypeOK'
    BY Advances DEF IInv, TypeOK, Addresses
  <1>3. BanksAgree'
    BY <1>1, AdvanceBanks DEF IInv
  <1>4. ConfiguredSoFar' /\ ReceivesWhenConfigured'
    BY AdvanceConfigured DEF IInv, ReceivesWhenConfigured
  <1>5. Filled'
    <2>1. call' # "eth_send_packet"
      BY <1>1, Advances, AllCalls DEF IInv
    <2>2. call' = "eth_init" => call = "eth_init" /\ step > 1
      BY <1>1, Advances, Running, AllCalls DEF IInv
    <2> QED
      BY <2>1, <2>2 DEF IInv, Filled
  <1> QED
    BY <1>2, <1>3, <1>4, <1>5 DEF IInv, OnAir, SentAsGiven

LEMMA StartPhyPreserves == IInv /\ StartPhy => IInv'
  <1> SUFFICES ASSUME IInv, StartPhy PROVE IInv'
    OBVIOUS
  <1>1. call # Idle /\ ~ BankMissing /\ Access.op = "start" /\ Advance
        /\ UNCHANGED <<bsel, rxen, tx, txerif, ewrpt, etxnd, mem, given, unsent, sent, resets>>
    BY DEF StartPhy, At, history
  <1>2. Access.reg # "memory"
    <2>1. call # "eth_send_packet"
      BY <1>1, Running, SendAccesses, AllCalls DEF IInv
    <2>2. CASE call = "eth_init"
      <3>1. step \in 1 .. 20 /\ Access = EthInit[step]
        BY <1>1, <2>2, Running, AllCalls DEF IInv
      <3> QED
        BY <3>1, InitAccesses
    <2>3. CASE call \in Calls
      BY <1>1, <2>3, Running, AllCalls DEF IInv
    <2> QED
      BY <1>1, <2>1, <2>2, <2>3, Running DEF IInv
  <1>3. Reached /\ busy' \in BOOLEAN /\ written' = written \cup {Access.reg}
    <2>1. Reached
      BY <1>1, <1>2, AccessReached DEF IInv
    <2> QED
      BY <2>1, Zenon DEF StartPhy, Reached
  <1> QED
    BY <1>1, <1>3, PassagePreserves

LEMMA OtherAccessPreserves == IInv /\ (WaitPhy \/ OtherAccess) => IInv'
  <1> SUFFICES ASSUME IInv, WaitPhy \/ OtherAccess PROVE IInv'
    OBVIOUS
  <1>1. call # Idle /\ ~ BankMissing /\ Access.op \in {"wait", "read", "set", "none"} /\ Advance
        /\ UNCHANGED <<controller, given, unsent, sent, resets>>
    BY DEF WaitPhy, OtherAccess, At, history
  <1>2. busy' \in BOOLEAN /\ written \subseteq written'
    BY <1>1 DEF IInv, TypeOK, controller
  <1> QED
    BY <1>1, <1>2, PassagePreserves DEF controller

\* eth_receive_packet goes on or returns.
LEMMA CheckCountPreserves == IInv /\ CheckCount => IInv'
  <1> SUFFICES ASSUME IInv, CheckCount PROVE IInv'
    OBVIOUS
  <1>1. /\ call # Idle /\ ~ BankMissing /\ Access.op = "check_count" /\ (Advance \/ Return)
        /\ UNCHANGED <<controller, given, unsent, sent, resets>>
    BY DEF CheckCount, At, history
  <1>2. call \notin {"eth_init", "eth_send_packet"}
    <2>1. CASE call = "eth_init"
      BY <1>1, <2>1, Running, InitAccesses, AllCalls DEF IInv
    <2>2. CASE call = "eth_send_packet"
      BY <1>1, <2>2, Running, SendAccesses, AllCalls DEF IInv
    <2> QED
      BY <2>1, <2>2
  <1>3. call' \in {call, Idle} /\ UNCHANGED <<eth_bank_pointer, cleared, packet, copied>>
    BY <1>1 DEF Advance, Return, GoTo
  <1>4. TypeOK'
    <2>1. call' # Idle => step' \in DOMAIN Program(call')
      BY <1>1, Advances DEF IInv, Return
    <2> QED
      BY <1>1, <1>3, <2>1 DEF IInv, TypeOK, controller, Addresses
  <1>5. BanksAgree'
    BY <1>1, <1>2, <1>3, AllCalls DEF IInv, BanksAgree, controller
  <1>6. call' \notin {"eth_init", "eth_send_packet"}
    BY <1>2, <1>3, AllCalls
  <1> QED
    BY <1>1, <1>4, <1>5, <1>6
    DEF IInv, ReceivesWhenConfigured, ConfiguredSoFar, Filled, OnAir, SentAsGiven, controller

\* Reception begins at the end of eth_init, when everything is written.
LEMMA EnableReceptionPreserves == IInv /\ EnableReception => IInv'
  <1> SUFFICES ASSUME IInv, EnableReception PROVE IInv'
    OBVIOUS
  <1>1. call # Idle /\ ~ BankMissing /\ Access.op = "enable" /\ Advance /\ rxen' = TRUE
        /\ UNCHANGED <<bsel, tx, txerif, busy, written, ewrpt, etxnd, mem, given, unsent, sent, resets>>
    BY DEF EnableReception, At, history
  <1>2. call = "eth_init" /\ step = 20 /\ Len(Program(call)) = 20
    <2>1. call \notin Calls
      BY <1>1, Running, AllCalls DEF IInv
    <2>2. call # "eth_send_packet"
      BY <1>1, Running, SendAccesses, AllCalls DEF IInv
    <2>3. call = "eth_init" /\ step \in 1 .. 20 /\ Access = EthInit[step]
          /\ Len(Program(call)) = 20
      BY <1>1, <2>1, <2>2, Running DEF IInv
    <2> QED
      BY <1>1, <2>3, InitAccesses
  <1>3. call' = Idle /\ step' = 1
    BY <1>1, <1>2 DEF Advance, Return
  <1>4. Configured \subseteq written
    <2> SUFFICES ASSUME NEW m \in DOMAIN EthInit, EthInit[m].op \in {"write", "start"}
                 PROVE  EthInit[m].reg \in written
      BY DEF Configured
    <2>1. m \in 1 .. step - 1
      BY <1>2, InitAccesses
    <2> QED
      BY <1>2, <2>1 DEF IInv, ConfiguredSoFar
  <1>5. TypeOK'
    BY <1>1, Advances DEF IInv, TypeOK, Addresses
  <1>6. BanksAgree'
    BY <1>1, <1>2, AdvanceBanks DEF IInv
  <1> QED
    BY <1>1, <1>3, <1>4, <1>5, <1>6, AllCalls
    DEF IInv, ReceivesWhenConfigured, ConfiguredSoFar, Filled, OnAir, SentAsGiven
\* Where eth_send_packet is when it does what only it does.
LEMMA Sending ==
    ASSUME IInv, call # Idle, ~ BankMissing,
           Access.op \notin {"soft_reset", "write", "start", "wait", "read", "none", "set", "enable",
                           "check_count"}
    PROVE  /\ call = "eth_send_packet" /\ step \in 1 .. 9 /\ Access = EthSendPacket[step]
           /\ Len(Program(call)) = 9
           /\ packet \in Packets /\ packet.id \in Nat /\ packet.length \in Nat \ {0}
           /\ ~ cleared /\ bsel = eth_bank_pointer
  <1>1. call \notin Calls
    BY Running, AllCalls DEF IInv
  <1>2. call # "eth_init"
    <2> SUFFICES ASSUME call = "eth_init" PROVE FALSE
      OBVIOUS
    <2>1. step \in 1 .. 20 /\ Access = EthInit[step]
      BY Running, AllCalls DEF IInv
    <2> QED
      BY <2>1, InitAccesses
  <1>3. call = "eth_send_packet" /\ step \in 1 .. 9 /\ Access = EthSendPacket[step]
        /\ Len(Program(call)) = 9
    BY <1>1, <1>2, Running DEF IInv
  <1> QED
    BY <1>3, TxAssumption DEF IInv, Filled, BanksAgree

\* Within eth_send_packet the bank, its copy and the configuration stay.
LEMMA SendingKeeps ==
    ASSUME IInv, call = "eth_send_packet", ~ cleared, call' \in {"eth_send_packet", Idle},
           UNCHANGED <<eth_bank_pointer, cleared, bsel, rxen, written>>
    PROVE  BanksAgree' /\ ReceivesWhenConfigured' /\ ConfiguredSoFar'
  BY AllCalls DEF IInv, BanksAgree, ReceivesWhenConfigured, ConfiguredSoFar

\* The decisions of eth_send_packet: it goes on to fill the buffer only when
\* nothing is being sent, and resets the transmit logic only after a failure.
LEMMA DecisionPreserves ==
    ASSUME IInv, CheckTxrts \/ CheckTxerif \/ ClearTxrst
    PROVE  IInv'
  <1>1. /\ call # Idle /\ ~ BankMissing
        /\ Access.op \in {"check_txrts", "check_txerif", "clear_txrst"}
        /\ UNCHANGED <<call, eth_bank_pointer, cleared, packet, copied>>
        /\ UNCHANGED <<controller, given, unsent, sent, resets>>
    BY DEF CheckTxrts, CheckTxerif, ClearTxrst, At, GoTo, history
  <1>2. call = "eth_send_packet" /\ step \in {1, 2, 4} /\ ~ cleared
    BY <1>1, Sending, SendAccesses
  <1>3. /\ step' \in {1, 2, 3, 5}
        /\ step' = 5 => tx = "off"
        /\ step' = 3 => txerif
    <2>1. CASE CheckTxrts
      <3>1. step = 1
        BY <1>1, <1>2, <2>1, Sending, SendAccesses DEF CheckTxrts, At
      <3> QED
        BY <2>1, <3>1 DEF CheckTxrts, GoTo, FillStep
    <2>2. CASE CheckTxerif
      <3>1. step = 2
        BY <1>1, <1>2, <2>2, Sending, SendAccesses DEF CheckTxerif, At
      <3> QED
        BY <2>2, <3>1 DEF CheckTxerif, GoTo, CheckTxrtsStep
    <2>3. CASE ClearTxrst
      BY <2>3 DEF ClearTxrst, GoTo, CheckTxrtsStep
    <2> QED
      BY <2>1, <2>2, <2>3
  <1>4. TypeOK'
    <2>1. step' \in DOMAIN Program(call')
      BY <1>1, <1>2, <1>3, SendAccesses
    <2> QED
      BY <1>1, <2>1 DEF IInv, TypeOK, controller, Addresses
  <1>5. BanksAgree' /\ ReceivesWhenConfigured' /\ ConfiguredSoFar'
    BY <1>1, <1>2, SendingKeeps DEF controller
  <1>6. Filled'
    <2>1. packet \in Packets /\ copied = 0
      BY <1>2 DEF IInv, Filled
    <2> QED
      BY <1>1, <1>2, <1>3, <2>1 DEF Filled, FillStep, controller
  <1> QED
    BY <1>1, <1>4, <1>5, <1>6 DEF IInv, OnAir, SentAsGiven, controller

LEMMA SetTxrstPreserves == IInv /\ SetTxrst => IInv'
  <1> SUFFICES ASSUME IInv, SetTxrst PROVE IInv'
    OBVIOUS
  <1>1. /\ call # Idle /\ ~ BankMissing /\ Access.op = "set_txrst" /\ Advance
        /\ tx' = "off" /\ unsent' = << >>
        /\ UNCHANGED <<bsel, rxen, txerif, busy, written, ewrpt, etxnd, mem, given, sent, resets>>
    BY DEF SetTxrst, At
  <1>2. call = "eth_send_packet" /\ step = 3 /\ ~ cleared /\ txerif /\ copied = 0
        /\ packet \in Packets /\ Len(Program(call)) = 9
    <2>1. call = "eth_send_packet" /\ step = 3 /\ Len(Program(call)) = 9
      BY <1>1, Sending, SendAccesses
    <2> QED
      BY <1>1, <2>1, Sending DEF IInv, Filled
  <1>3. call' = call /\ step' = 4 /\ UNCHANGED <<eth_bank_pointer, cleared, packet, copied>>
    <2>1. step # Len(Program(call)) /\ step + 1 = 4
      BY <1>2
    <2> QED
      BY <1>1, <1>2, <2>1 DEF Advance, GoTo
  <1>4. TypeOK'
    BY <1>1, <1>3, Advances DEF IInv, TypeOK, Addresses
  <1>5. BanksAgree' /\ ReceivesWhenConfigured' /\ ConfiguredSoFar'
    BY <1>1, <1>2, <1>3, SendingKeeps
  <1>6. Filled' /\ OnAir'
    BY <1>1, <1>2, <1>3 DEF Filled, FillStep, OnAir
  <1> QED
    BY <1>1, <1>4, <1>5, <1>6 DEF IInv, SentAsGiven

\* The control byte goes to the start of the buffer.
LEMMA WriteControlPreserves == IInv /\ WriteControl => IInv'
  <1> SUFFICES ASSUME IInv, WriteControl PROVE IInv'
    OBVIOUS
  <1>1. /\ call # Idle /\ ~ BankMissing /\ Access.op = "control" /\ Advance
        /\ mem' = [mem EXCEPT ![ewrpt] = Garbage]
        /\ ewrpt' = NextAddress(ewrpt)
        /\ UNCHANGED <<bsel, rxen, tx, txerif, busy, written, etxnd, given, unsent, sent, resets>>
    BY DEF WriteControl, At, history
  <1>2. call = "eth_send_packet" /\ step = 7 /\ ~ cleared /\ Len(Program(call)) = 9
        /\ packet \in Packets /\ packet.length \in Nat \ {0}
    BY <1>1, Sending, SendAccesses
  <1>3. tx = "off" /\ copied = 0 /\ ewrpt = 0 /\ (Fits(packet) => etxnd = packet.length)
    BY <1>2 DEF IInv, Filled, FillStep
  <1>4. call' = call /\ step' = 8 /\ UNCHANGED <<eth_bank_pointer, cleared, packet, copied>>
    <2>1. step # Len(Program(call)) /\ step + 1 = 8
      BY <1>2
    <2> QED
      BY <1>1, <2>1 DEF Advance, GoTo
  <1>5. TypeOK'
    <2>1. mem \in [Addresses -> [id : Nat, k : Nat]] /\ Garbage \in [id : Nat, k : Nat]
      BY DEF IInv, TypeOK, Garbage
    <2>2. mem' \in [Addresses -> [id : Nat, k : Nat]]
      BY <1>1, <2>1
    <2>3. ewrpt' \in Addresses
      BY <1>1, <1>3, TxAssumption DEF Addresses, NextAddress
    <2> QED
      BY <1>1, <1>4, <2>2, <2>3, Advances DEF IInv, TypeOK, Addresses
  <1>6. BanksAgree' /\ ReceivesWhenConfigured' /\ ConfiguredSoFar'
    BY <1>1, <1>2, <1>4, SendingKeeps
  <1>7. Filled' /\ OnAir'
    <2>1. Fits(packet) => ewrpt' = 1
      BY <1>1, <1>2, <1>3, TxAssumption DEF Fits, NextAddress
    <2> QED
      BY <1>1, <1>2, <1>3, <1>4, <2>1 DEF Filled, FillStep, IInv, OnAir, Fits
  <1> QED
    BY <1>1, <1>5, <1>6, <1>7 DEF IInv, SentAsGiven

\* The k-th byte of the packet goes to address k.
LEMMA WriteDataPreserves == IInv /\ WriteData => IInv'
  <1> SUFFICES ASSUME IInv, WriteData PROVE IInv'
    OBVIOUS
  <1> DEFINE n == copied + 1
  <1>1. /\ call # Idle /\ ~ BankMissing /\ Access.op = "data"
        /\ mem' = [mem EXCEPT ![ewrpt] = Byte(packet, n)]
        /\ ewrpt' = NextAddress(ewrpt) /\ copied' = n
        /\ step' = IF copied' = packet.length THEN step + 1 ELSE step
        /\ UNCHANGED <<call, eth_bank_pointer, cleared, packet, bsel, rxen, tx, txerif, busy,
                       written, etxnd, given, unsent, sent, resets>>
    BY DEF WriteData, At, history
  <1>2. call = "eth_send_packet" /\ step = 8 /\ ~ cleared
        /\ packet \in Packets /\ packet.id \in Nat /\ packet.length \in Nat \ {0}
    BY <1>1, Sending, SendAccesses
  <1>3. tx = "off" /\ copied < packet.length /\ copied \in Nat /\ ewrpt \in Addresses
    BY <1>2 DEF IInv, Filled, FillStep, TypeOK
  <1>4. n \in 1 .. packet.length /\ n \in Nat /\ packet.length \in Nat
    BY <1>2, <1>3
  <1>5. mem \in [Addresses -> [id : Nat, k : Nat]] /\ Byte(packet, n) \in [id : Nat, k : Nat]
    BY <1>2, <1>4 DEF IInv, TypeOK, Byte
  <1>6. mem' \in [Addresses -> [id : Nat, k : Nat]]
    BY <1>1, <1>5
  <1>7. step' \in {8, 9} /\ (step' = 8 => n < packet.length) /\ (step' = 9 => n = packet.length)
    BY <1>1, <1>2, <1>4
  <1>8. TypeOK'
    <2>1. step' \in DOMAIN Program(call')
      BY <1>1, <1>2, <1>7, SendAccesses
    <2>2. ewrpt' \in Addresses /\ copied' \in 0 .. packet'.length
      BY <1>1, <1>2, <1>3, <1>4, TxAssumption DEF NextAddress, Addresses
    <2> QED
      BY <1>1, <1>6, <2>1, <2>2 DEF IInv, TypeOK, Addresses
  <1>9. BanksAgree' /\ ReceivesWhenConfigured' /\ ConfiguredSoFar'
    BY <1>1, <1>2, SendingKeeps
  <1>10. ASSUME Fits(packet)
         PROVE  /\ etxnd = packet.length
                /\ step' = 8 => ewrpt' = n + 1
                /\ \A k \in 1 .. n : mem'[k] = Byte(packet, k)
    <2>1. /\ etxnd = packet.length /\ ewrpt = n
          /\ \A k \in 1 .. copied : mem[k] = Byte(packet, k)
      BY <1>2, <1>10 DEF IInv, Filled
    <2>2. packet.length < MEM_SIZE /\ MEM_SIZE \in Nat
      BY <1>4, <1>10, TxAssumption DEF Fits
    <2>3. n \in Addresses
      BY <1>4, <2>2 DEF Addresses
    <2>4. step' = 8 => ewrpt' = n + 1
      BY <1>1, <1>4, <1>7, <2>1, <2>2 DEF NextAddress
    <2>5. mem'[n] = Byte(packet, n)
      BY <1>1, <1>5, <2>1, <2>3
    <2>6. ASSUME NEW k \in 1 .. copied PROVE mem'[k] = Byte(packet, k)
      <3>1. k # n /\ k \in Addresses
        BY <1>3, <1>4, <2>2 DEF Addresses
      <3>2. mem'[k] = mem[k]
        BY <1>1, <1>5, <2>1, <3>1
      <3> QED
        BY <2>1, <3>2
    <2>7. \A k \in 1 .. n : k = n \/ k \in 1 .. copied
      BY <1>3
    <2> HIDE DEF n
    <2> QED
      BY <2>1, <2>4, <2>5, <2>6, <2>7
  <1> HIDE DEF n
  <1>11. Filled'
    BY <1>1, <1>2, <1>3, <1>7, <1>10 DEF Filled, FillStep, Fits
  <1> QED
    BY <1>1, <1>3, <1>8, <1>9, <1>11 DEF IInv, OnAir, SentAsGiven

\* The transmission begins with the whole packet between the pointers.
LEMMA SetTxrtsPreserves == IInv /\ SetTxrts => IInv'
  <1> SUFFICES ASSUME IInv, SetTxrts PROVE IInv'
    OBVIOUS
  <1>1. /\ call # Idle /\ ~ BankMissing /\ Access.op = "set_txrts" /\ Advance
        /\ tx' = "sending" /\ unsent' = Append(unsent, packet)
        /\ UNCHANGED <<bsel, rxen, txerif, busy, written, ewrpt, etxnd, mem, given, sent, resets>>
    BY DEF SetTxrts, At
  <1>2. call = "eth_send_packet" /\ step = 9 /\ ~ cleared /\ Len(Program(call)) = 9
        /\ packet \in Packets
    BY <1>1, Sending, SendAccesses
  <1>3. call' = Idle /\ UNCHANGED <<eth_bank_pointer, cleared, packet, copied>>
    BY <1>1, <1>2 DEF Advance, Return
  <1>4. TypeOK'
    BY <1>1, <1>3, Advances DEF IInv, TypeOK, Addresses
  <1>5. BanksAgree' /\ ReceivesWhenConfigured' /\ ConfiguredSoFar'
    BY <1>1, <1>2, <1>3, SendingKeeps
  <1>6. Filled'
    BY <1>3, AllCalls DEF Filled
  <1>7. OnAir'
    <2>1. /\ tx = "off" /\ copied = packet.length
          /\ Fits(packet) =>
                etxnd = packet.length /\ \A k \in 1 .. packet.length : mem[k] = Byte(packet, k)
      BY <1>2 DEF IInv, Filled, FillStep
    <2>2. unsent' = <<packet>>
      BY <1>1, <2>1 DEF IInv, OnAir
    <2> QED
      BY <1>1, <1>2, <2>1, <2>2 DEF OnAir
  <1> QED
    BY <1>1, <1>4, <1>5, <1>6, <1>7 DEF IInv, SentAsGiven

\* What the controller sends is what lies in its buffer.
LEMMA HardwarePreserves ==
    ASSUME IInv, HwSent \/ HwFailed \/ HwPhyDone
    PROVE  IInv'
  <1>1. UNCHANGED <<driver, bsel, rxen, written, ewrpt, etxnd, mem, given, resets>>
    BY DEF HwSent, HwFailed, HwPhyDone, history
  <1>2. CASE HwPhyDone
    <2>1. UNCHANGED <<tx, txerif, unsent, sent>> /\ busy' = FALSE
      BY <1>2 DEF HwPhyDone, history
    <2>2. TypeOK'
      BY <1>1, <2>1 DEF IInv, TypeOK, driver, Addresses
    <2>3. BanksAgree' /\ ReceivesWhenConfigured' /\ ConfiguredSoFar'
      BY <1>1 DEF IInv, BanksAgree, BankMissing, Access, ReceivesWhenConfigured, ConfiguredSoFar, driver
    <2>4. Filled' /\ OnAir' /\ SentAsGiven'
      BY <1>1, <2>1 DEF IInv, Filled, OnAir, SentAsGiven, driver
    <2> QED
      BY <2>2, <2>3, <2>4 DEF IInv
  <1>3. CASE HwSent \/ HwFailed
    <2>1. tx = "sending" /\ tx' \in {"off", "stalled"} /\ unsent' = Tail(unsent)
          /\ (txerif => txerif') /\ txerif' \in BOOLEAN /\ busy' = busy
      <3>1. txerif \in BOOLEAN
        BY DEF IInv, TypeOK
      <3>2. CASE HwSent
        BY <3>1, <3>2, Zenon DEF HwSent
      <3>3. CASE HwFailed
        BY <3>1, <3>3, Zenon DEF HwFailed
      <3> QED
        BY <1>3, <3>2, <3>3
    <2>0. OnAir
      BY DEF IInv
    <2>2. PICK p \in Packets :
             /\ unsent = <<p>>
             /\ Fits(p) => etxnd = p.length /\ \A k \in 1 .. p.length : mem[k] = Byte(p, k)
      BY <2>0, <2>1 DEF OnAir
    <2>3. unsent' = << >> /\ Head(unsent) = p
      BY <2>1, <2>2
    <2>4. SentAsGiven'
      <3>1. CASE HwSent
        <4>1. sent' = [frame |-> [k \in 1 .. etxnd |-> mem[k]], of |-> p]
          BY <2>3, <3>1 DEF HwSent
        <4>2. Fits(p) => [k \in 1 .. etxnd |-> mem[k]] = Bytes(p)
          BY <2>2 DEF Bytes
        <4> QED
          BY <4>1, <4>2 DEF SentAsGiven, Bytes
      <3>2. CASE HwFailed
        BY <3>2 DEF HwFailed, IInv, SentAsGiven
      <3> QED
        BY <1>3, <3>1, <3>2
    <2>5. TypeOK'
      BY <1>1, <2>1 DEF IInv, TypeOK, driver, Addresses
    <2>6. BanksAgree' /\ ReceivesWhenConfigured' /\ ConfiguredSoFar'
      BY <1>1 DEF IInv, BanksAgree, BankMissing, Access, ReceivesWhenConfigured, ConfiguredSoFar, driver
    <2>7. Filled' /\ OnAir'
      BY <1>1, <2>1, <2>3 DEF IInv, Filled, OnAir, FillStep, driver
    <2> QED
      BY <2>4, <2>5, <2>6, <2>7 DEF IInv
  <1> QED
    BY <1>2, <1>3

\* The microcontroller forgets; what the controller is sending stays as it is.
LEMMA McuResetPreserves == IInv /\ McuReset => IInv'
  <1> SUFFICES ASSUME IInv, McuReset PROVE IInv'
    OBVIOUS
  <1>1. /\ call' = "eth_init" /\ step' = 1 /\ eth_bank_pointer' = Bank0 /\ cleared' = FALSE
        /\ packet' = NoPacket /\ copied' = 0 /\ resets' = resets + 1 /\ resets < MaxResets
        /\ UNCHANGED <<controller, given, unsent, sent>>
    BY DEF McuReset
  <1>2. TypeOK'
    <2>1. step' \in DOMAIN Program(call') /\ copied' \in 0 .. packet'.length
      BY <1>1, InitAccesses DEF NoPacket
    <2>2. resets' \in 0 .. MaxResets
      BY <1>1, TxAssumption DEF IInv, TypeOK
    <2> QED
      BY <1>1, <2>1, <2>2, BankOfBanks DEF IInv, TypeOK, controller, Addresses, Bank0
  <1>3. BanksAgree'
    BY <1>1 DEF BanksAgree
  <1>4. Filled' /\ ConfiguredSoFar'
    BY <1>1 DEF Filled, ConfiguredSoFar
  <1> QED
    BY <1>1, <1>2, <1>3, <1>4 DEF IInv, ReceivesWhenConfigured, OnAir, SentAsGiven, controller
----------------------------------------------------------------------------
\* The inductive invariant holds in every state, fairness or not.
THEOREM Invariance == FairSpec => []IInv
  <1>1. ASSUME IInv, [Next]_vars PROVE IInv'
    <2>1. CASE Driver
      BY <1>1, <2>1, SetBankPreserves, SoftResetPreserves, WriteRegisterPreserves, StartPhyPreserves,
         OtherAccessPreserves, CheckCountPreserves, EnableReceptionPreserves, DecisionPreserves, SetTxrstPreserves,
         WriteControlPreserves, WriteDataPreserves, SetTxrtsPreserves DEF Driver
    <2>2. CASE \E c \in Calls : Begin(c)
      BY <1>1, <2>2, BeginPreserves
    <2>3. CASE \E p \in Packets : BeginSend(p)
      BY <1>1, <2>3, BeginSendPreserves
    <2>4. CASE HwSent \/ HwFailed \/ HwPhyDone
      BY <1>1, <2>4, HardwarePreserves
    <2>5. CASE McuReset
      BY <1>1, <2>5, McuResetPreserves
    <2>6. CASE UNCHANGED vars
      BY <1>1, <2>6 DEF IInv, TypeOK, BanksAgree, BankMissing, Access, ReceivesWhenConfigured,
         ConfiguredSoFar, Filled, OnAir, SentAsGiven, vars, driver, controller, history, Addresses
    <2> QED
      BY <1>1, <2>1, <2>2, <2>3, <2>4, <2>5, <2>6 DEF Next
  <1> QED
    BY <1>1, InitEstablishes, PTL DEF FairSpec

\* Every access reaches the register it names, for the opcode that takes the bank
\* as it is too, and after a reset of the microcontroller (eth.c:98, eth.c:222).
THEOREM RegistersReached == FairSpec => []RegisterReached
  <1>1. IInv => RegisterReached
    BY AccessReached DEF IInv, RegisterReached
  <1> QED
    BY <1>1, Invariance, PTL

\* The controller receives only with every register eth_init writes in place
\* (eth.c:82-194).
THEOREM ReceptionConfigured == FairSpec => []ReceivesWhenConfigured
  <1>1. IInv => ReceivesWhenConfigured
    BY DEF IInv
  <1> QED
    BY <1>1, Invariance, PTL

\* What goes out is a packet as it was given, for every packet that fits the
\* transmit buffer, whatever lengths of others come between, longer than the
\* buffer or than the memory included (eth.c:501-529).
THEOREM FramesSentAsGiven == FairSpec => []SentAsGiven
  <1>1. IInv => SentAsGiven
    BY DEF IInv
  <1> QED
    BY <1>1, Invariance, PTL
----------------------------------------------------------------------------
\* The packets at stake: the one that is being given, the one that is being sent,
\* and that one again while a restart is about to lose it.
Giving == IF call = "eth_send_packet" THEN 1 ELSE 0

OnItsWay == IF tx = "sending" THEN 1 ELSE 0

Restarting == IF call = "eth_init" /\ step = 1 THEN OnItsWay ELSE 0

\* The account of the packets, with what keeps it balanced.
Accounts ==
    /\ given \in Nat /\ delivered \in Nat
    /\ lost \in [failed : Nat, cut : Nat, restart : Nat]
    /\ given = delivered + lost.failed + lost.cut + lost.restart + OnItsWay + Giving
    /\ lost.restart + Restarting <= 2 * resets
    /\ lost.cut > 0 => lost.failed > 0
    /\ txerif => lost.failed > 0

LEMMA UnsentLength == IInv => Len(unsent) = OnItsWay
  <1> SUFFICES ASSUME IInv PROVE Len(unsent) = OnItsWay
    OBVIOUS
  <1>1. CASE tx = "sending"
    BY <1>1 DEF IInv, OnAir, OnItsWay
  <1>2. CASE tx # "sending"
    BY <1>2 DEF IInv, OnAir, OnItsWay
  <1> QED
    BY <1>1, <1>2

\* A step that neither gives nor sends nor loses a packet.
LEMMA AccountsStay ==
    ASSUME Accounts, UNCHANGED <<history, tx, resets>>, txerif' => txerif,
           call' = "eth_send_packet" <=> call = "eth_send_packet",
           call' = "eth_init" /\ step' = 1 => call = "eth_init" /\ step = 1,
           resets \in Nat
    PROVE  Accounts'
  <1>1. OnItsWay' = OnItsWay /\ Giving' = Giving /\ OnItsWay \in Nat
    BY DEF OnItsWay, Giving
  <1>2. Restarting' <= Restarting /\ Restarting' \in Nat /\ Restarting \in Nat
    BY <1>1 DEF Restarting
  <1> QED
    BY <1>1, <1>2 DEF Accounts, history

\* eth_send_packet is not left but by its last access, and eth_init not begun
\* but by a restart.
LEMMA AdvanceStays ==
    ASSUME IInv, call # Idle, Advance, Access.op # "set_txrts"
    PROVE  /\ call' = "eth_send_packet" <=> call = "eth_send_packet"
           /\ ~ (call' = "eth_init" /\ step' = 1)
  <1>1. call = "eth_send_packet" => step \in 1 .. 8 /\ Len(Program(call)) = 9
    BY Running, SendAccesses, AllCalls DEF IInv
  <1>2. call = "eth_send_packet" => call' = call
    <2> SUFFICES ASSUME call = "eth_send_packet" PROVE call' = call
      OBVIOUS
    <2>1. step \in 1 .. 8 /\ Len(Program(call)) = 9
      BY <1>1
    <2>2. step # 9
      BY <2>1
    <2>3. step # Len(Program(call))
      BY <2>1, <2>2
    <2> QED
      BY <2>3 DEF Advance, GoTo
  <1>3. call' \in {call, Idle} /\ (call' # Idle => step' = step + 1)
    BY Advances DEF IInv
  <1>4. step \in Nat \ {0}
    BY Running DEF IInv
  <1> QED
    BY <1>2, <1>3, <1>4, AllCalls

LEMMA DriverKeepsAccounts ==
    ASSUME IInv, Accounts, Driver
    PROVE  Accounts'
  <1>0. resets \in Nat
    BY TxAssumption DEF IInv, TypeOK
  <1>1. CASE ClearBank \/ SelectBank
    <2>1. UNCHANGED <<call, step, history, tx, txerif, resets>>
      BY <1>1 DEF ClearBank, SelectBank
    <2> QED
      BY <1>0, <2>1, AccountsStay
  <1>2. CASE WriteRegister \/ StartPhy \/ WaitPhy \/ OtherAccess \/ EnableReception \/ WriteControl
    <2>1. /\ call # Idle /\ Advance /\ Access.op # "set_txrts"
          /\ UNCHANGED <<history, tx, txerif, resets>>
      BY <1>2 DEF WriteRegister, StartPhy, WaitPhy, OtherAccess, EnableReception, WriteControl, At,
         controller
    <2> QED
      BY <1>0, <2>1, AdvanceStays, AccountsStay
  <1>3. CASE CheckTxrts \/ CheckTxerif \/ ClearTxrst \/ WriteData
    <2>1. /\ call # Idle /\ ~ BankMissing
          /\ Access.op \in {"check_txrts", "check_txerif", "clear_txrst", "data"}
          /\ UNCHANGED <<call, history, tx, txerif, resets>>
      BY <1>3 DEF CheckTxrts, CheckTxerif, ClearTxrst, WriteData, At, GoTo, controller
    <2>2. call = "eth_send_packet"
      BY <2>1, Sending
    <2> QED
      BY <1>0, <2>1, <2>2, AccountsStay
  <1>4. CASE CheckCount
    <2>1. /\ call # Idle /\ Access.op = "check_count" /\ (Advance \/ Return)
          /\ UNCHANGED <<history, tx, txerif, resets>>
      BY <1>4 DEF CheckCount, At, controller
    <2>2. call # "eth_send_packet"
      BY <2>1, Running, SendAccesses, AllCalls DEF IInv
    <2>3. CASE Advance
      BY <1>0, <2>1, <2>3, AdvanceStays, AccountsStay
    <2>4. CASE Return
      BY <1>0, <2>1, <2>2, <2>4, AllCalls, AccountsStay DEF Return
    <2> QED
      BY <2>1, <2>3, <2>4
  <1>5. CASE SoftReset
    <2>1. call # Idle /\ ~ BankMissing /\ Access.op = "soft_reset" /\ Advance
          /\ tx' = "off" /\ txerif' = FALSE /\ UNCHANGED <<given, delivered, resets>>
          /\ lost' = [lost EXCEPT !["restart"] = @ + Len(unsent)]
      BY <1>5 DEF SoftReset, At, Lose
    <2>2. call = "eth_init" /\ step = 1 /\ call' = "eth_init" /\ step' = 2
      <3>1. call \notin Calls \cup {"eth_send_packet"}
        BY <2>1, Running, SendAccesses, AllCalls DEF IInv
      <3>2. call = "eth_init" /\ step = 1 /\ Len(Program(call)) = 20
        BY <2>1, <3>1, Running, InitAccesses DEF IInv
      <3> QED
        <4>1. step # Len(Program(call)) /\ step + 1 = 2
          BY <3>2
        <4> QED
          BY <2>1, <3>2, <4>1 DEF Advance, GoTo
    <2>3. Restarting = OnItsWay /\ Restarting' = 0 /\ OnItsWay' = 0 /\ Giving = 0 /\ Giving' = 0
          /\ OnItsWay \in Nat
      BY <2>1, <2>2 DEF Restarting, OnItsWay, Giving
    <2>4. lost' \in [failed : Nat, cut : Nat, restart : Nat] /\ lost'.failed = lost.failed
          /\ lost'.cut = lost.cut /\ lost'.restart = lost.restart + OnItsWay
      <3>1. Len(unsent) = OnItsWay
        BY UnsentLength
      <3>2. lost' = [lost EXCEPT !["restart"] = @ + OnItsWay] /\ OnItsWay \in Nat
        BY <2>1, <2>3, <3>1
      <3> QED
        BY <3>2 DEF Accounts
    <2> QED
      BY <1>0, <2>1, <2>3, <2>4 DEF Accounts
  <1>6. CASE SetTxrst
    <2>1. call # Idle /\ ~ BankMissing /\ Access.op = "set_txrst" /\ Advance
          /\ tx' = "off" /\ UNCHANGED <<given, delivered, resets, txerif>>
          /\ lost' = [lost EXCEPT !["cut"] = @ + Len(unsent)]
      BY <1>6 DEF SetTxrst, At, Lose
    <2>2. call = "eth_send_packet" /\ txerif /\ call' = "eth_send_packet"
      <3>1. call = "eth_send_packet" /\ step = 3
        BY <2>1, Sending, SendAccesses
      <3> QED
        BY <2>1, <3>1, AdvanceStays DEF IInv, Filled
    <2>3. Restarting = 0 /\ Restarting' = 0 /\ OnItsWay' = 0 /\ Giving = 1 /\ Giving' = 1
          /\ OnItsWay \in Nat
      BY <2>1, <2>2 DEF Restarting, OnItsWay, Giving
    <2>4. lost' \in [failed : Nat, cut : Nat, restart : Nat] /\ lost'.failed = lost.failed
          /\ lost'.cut = lost.cut + OnItsWay /\ lost'.restart = lost.restart
      <3>1. Len(unsent) = OnItsWay
        BY UnsentLength
      <3>2. lost' = [lost EXCEPT !["cut"] = @ + OnItsWay] /\ OnItsWay \in Nat
        BY <2>1, <2>3, <3>1
      <3> QED
        BY <3>2 DEF Accounts
    <2> QED
      BY <1>0, <2>1, <2>2, <2>3, <2>4 DEF Accounts
  <1>7. CASE SetTxrts
    <2>1. call # Idle /\ ~ BankMissing /\ Access.op = "set_txrts" /\ Advance
          /\ tx' = "sending" /\ UNCHANGED <<given, delivered, lost, resets, txerif>>
      BY <1>7 DEF SetTxrts, At
    <2>2. call = "eth_send_packet" /\ step = 9 /\ call' = Idle /\ tx = "off"
      <3>1. call = "eth_send_packet" /\ step = 9 /\ Len(Program(call)) = 9
        BY <2>1, Sending, SendAccesses
      <3> QED
        BY <2>1, <3>1 DEF Advance, Return, IInv, Filled, FillStep
    <2>3. Restarting = 0 /\ Restarting' = 0 /\ OnItsWay = 0 /\ OnItsWay' = 1 /\ Giving = 1 /\ Giving' = 0
      BY <2>1, <2>2, AllCalls DEF Restarting, OnItsWay, Giving
    <2> QED
      BY <1>0, <2>1, <2>3 DEF Accounts
  <1> QED
    BY <1>1, <1>2, <1>3, <1>4, <1>5, <1>6, <1>7 DEF Driver

LEMMA NextKeepsAccounts ==
    ASSUME IInv, Accounts, [Next]_vars
    PROVE  Accounts'
  <1>0. resets \in Nat
    BY TxAssumption DEF IInv, TypeOK
  <1>1. CASE Driver
    BY <1>1, DriverKeepsAccounts
  <1>2. ASSUME NEW c \in Calls, Begin(c) PROVE Accounts'
    <2>1. call = Idle /\ call' = c /\ UNCHANGED <<history, tx, txerif, resets>>
      BY <1>2 DEF Begin, controller
    <2> QED
      BY <1>0, <2>1, AllCalls, AccountsStay
  <1>3. ASSUME NEW p \in Packets, BeginSend(p) PROVE Accounts'
    <2>1. call = Idle /\ call' = "eth_send_packet" /\ given' = given + 1
          /\ UNCHANGED <<delivered, lost, tx, txerif, resets>>
      BY <1>3 DEF BeginSend, controller
    <2>2. Restarting = 0 /\ Restarting' = 0 /\ OnItsWay' = OnItsWay /\ Giving = 0 /\ Giving' = 1
          /\ OnItsWay \in Nat
      BY <2>1, AllCalls DEF Restarting, OnItsWay, Giving
    <2> QED
      BY <1>0, <2>1, <2>2 DEF Accounts
  <1>4. CASE HwSent \/ HwFailed
    <2>1. tx = "sending" /\ tx' # "sending" /\ UNCHANGED <<call, step, given, resets>>
      BY <1>4 DEF HwSent, HwFailed, driver
    <2>2. OnItsWay = 1 /\ OnItsWay' = 0 /\ Giving' = Giving /\ Giving \in Nat
          /\ Restarting' <= Restarting /\ Restarting \in Nat /\ Restarting' \in Nat
      BY <2>1 DEF OnItsWay, Giving, Restarting
    <2>3. CASE HwSent
      <3>1. delivered' = delivered + 1 /\ UNCHANGED <<lost, txerif>>
        BY <2>3 DEF HwSent
      <3> QED
        BY <1>0, <2>1, <2>2, <3>1 DEF Accounts
    <2>4. CASE HwFailed
      <3>1. lost' = [lost EXCEPT !["failed"] = @ + 1] /\ UNCHANGED delivered
        BY <2>4 DEF HwFailed, Lose
      <3>2. lost' \in [failed : Nat, cut : Nat, restart : Nat] /\ lost'.failed = lost.failed + 1
            /\ lost'.cut = lost.cut /\ lost'.restart = lost.restart
        BY <3>1 DEF Accounts
      <3> QED
        BY <1>0, <2>1, <2>2, <3>1, <3>2 DEF Accounts
    <2> QED
      BY <1>4, <2>3, <2>4
  <1>5. CASE HwPhyDone \/ UNCHANGED vars
    <2>1. UNCHANGED <<call, step, history, tx, txerif, resets>>
      BY <1>5 DEF HwPhyDone, vars, driver, controller
    <2> QED
      BY <1>0, <2>1, AccountsStay
  <1>6. CASE McuReset
    <2>1. call' = "eth_init" /\ step' = 1 /\ resets' = resets + 1
          /\ UNCHANGED <<given, delivered, tx, txerif>>
          /\ lost' = [lost EXCEPT !["restart"] = @ + Giving]
      BY <1>6 DEF McuReset, Lose, Giving, controller
    <2>2. Restarting' = OnItsWay /\ OnItsWay' = OnItsWay /\ Giving' = 0 /\ Giving \in 0 .. 1
          /\ OnItsWay \in 0 .. 1 /\ Restarting \in Nat
      BY <2>1 DEF Restarting, OnItsWay, Giving
    <2>3. lost' \in [failed : Nat, cut : Nat, restart : Nat] /\ lost'.failed = lost.failed
          /\ lost'.cut = lost.cut /\ lost'.restart = lost.restart + Giving
      BY <2>1, <2>2 DEF Accounts
    <2> QED
      BY <1>0, <2>1, <2>2, <2>3 DEF Accounts
  <1> QED
    BY <1>1, <1>2, <1>3, <1>4, <1>5, <1>6 DEF Next

\* Every packet given is sent or to be sent, or was lost by its own failure, by
\* TXRST after a failure, or by a restart, two at most for each, for any number of
\* packets, failures and restarts (eth.c:501-529, eth.c:98).
THEOREM LossesAreExplained == FairSpec => []LossesExplained
  <1>1. Init => Accounts
    <2> SUFFICES ASSUME Init PROVE Accounts
      OBVIOUS
    <2>1. OnItsWay = 0 /\ Giving = 0 /\ Restarting = 0
      BY DEF Init, OnItsWay, Giving, Restarting
    <2> QED
      BY <2>1 DEF Init, Accounts
  <1>2. IInv /\ Accounts /\ [Next]_vars => Accounts'
    BY NextKeepsAccounts
  <1>3. IInv /\ Accounts => LossesExplained
    <2> SUFFICES ASSUME IInv, Accounts PROVE LossesExplained
      OBVIOUS
    <2>1. At("set_txrst") => txerif
      <3> SUFFICES ASSUME At("set_txrst") PROVE txerif
        OBVIOUS
      <3>1. call # Idle /\ ~ BankMissing /\ Access.op = "set_txrst"
        BY DEF At
      <3>2. call = "eth_send_packet" /\ step = 3
        BY <3>1, Sending, SendAccesses
      <3> QED
        BY <3>2 DEF IInv, Filled
    <2>2. lost.restart <= 2 * resets
      <3>1. Restarting \in Nat /\ resets \in Nat
        BY TxAssumption DEF Restarting, OnItsWay, IInv, TypeOK
      <3> QED
        BY <3>1 DEF Accounts
    <2> QED
      BY <2>1, <2>2, UnsentLength DEF Accounts, LossesExplained, OnItsWay, Giving
  <1> QED
    BY <1>1, <1>2, <1>3, Invariance, PTL DEF FairSpec
============================================================================
