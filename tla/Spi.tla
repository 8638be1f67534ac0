-------------------------------- MODULE Spi --------------------------------
(***************************************************************************)
(* The SPI master (dev/spi.c): every byte is exchanged for one, SPDR is    *)
(* written before a transfer and read after it, and SPIF says that it has  *)
(* ended.  The hardware clears SPIF at an access of SPDR that follows a    *)
(* read of SPSR in which it was set.                                       *)
(*                                                                         *)
(* The slave answers the n-th transfer with n modulo ANSWERS.  The words   *)
(* of spi.c are two calls each, and nothing calls them: left out.          *)
(***************************************************************************)
EXTENDS Integers

CONSTANT ANSWERS        \* bound: the answers of the slave repeat after so many

VARIABLES pc,           \* "off", "idle", "wait_write", "wait_read", "take"
          SPIF,
          seen,         \* SPSR was read while SPIF was set
          transfer,     \* a transfer is under way
          SPDR,         \* the byte received last
          count,        \* transfers begun
          collision,    \* SPDR was written during a transfer
          result        \* of spi_read_byte

vars == <<pc, SPIF, seen, transfer, SPDR, count, collision, result>>
----------------------------------------------------------------------------
Init ==
    /\ pc = "off"
    /\ SPIF = FALSE /\ seen = FALSE /\ transfer = FALSE
    /\ SPDR = 0 /\ count = 0
    /\ collision = FALSE /\ result = 0

\* spi_init, which returns at once when it has been called before.  It reads
\* SPSR to set a bit of it, with SPIF clear.
spi_init ==
    /\ pc = "off"
    /\ pc' = "idle"
    /\ UNCHANGED <<SPIF, seen, transfer, SPDR, count, collision, result>>

\* The access of SPDR that starts a transfer.
WriteSPDR ==
    /\ collision' = (collision \/ transfer)
    /\ transfer' = TRUE
    /\ count' = IF transfer THEN count ELSE (count + 1) % ANSWERS
    /\ SPIF' = (SPIF /\ ~ seen)
    /\ seen' = FALSE

Begin(next) ==
    /\ pc = "idle"
    /\ WriteSPDR
    /\ pc' = next
    /\ UNCHANGED <<SPDR, result>>

\* The hardware ends a transfer.
Shifted ==
    /\ transfer
    /\ transfer' = FALSE /\ SPIF' = TRUE /\ SPDR' = count
    /\ UNCHANGED <<pc, seen, count, collision, result>>

\* Fault: the loop ends before the transfer has.
PollOnce == TRUE
Ended == SPIF

\* while(!(SPSR & (1 << SPIF)));
Wait ==
    /\ pc \in {"wait_write", "wait_read"} /\ Ended
    /\ seen' = SPIF
    /\ pc' = IF pc = "wait_read" THEN "take" ELSE "idle"
    /\ UNCHANGED <<SPIF, transfer, SPDR, count, collision, result>>

Take ==
    /\ pc = "take"
    /\ result' = SPDR
    /\ SPIF' = (SPIF /\ ~ seen)
    /\ seen' = FALSE
    /\ pc' = "idle"
    /\ UNCHANGED <<transfer, SPDR, count, collision>>

Next ==
    \/ spi_init
    \/ Begin("wait_write")      \* spi_write_byte
    \/ Begin("wait_read")       \* spi_read_byte
    \/ Wait
    \/ Take
    \/ Shifted

Spec == Init /\ [][Next]_vars
----------------------------------------------------------------------------
\* The flag a call leaves set never ends the wait of the next one: no byte is
\* written into a transfer under way, and a read returns the slave's answer
\* to its own transfer (spi.c:83, spi.c:94).
OwnAnswer ==
    /\ ~ collision
    /\ pc = "take" => ~ transfer /\ SPDR = count
=============================================================================
