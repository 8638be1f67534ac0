------------------------------- MODULE Serial -------------------------------
(***************************************************************************)
(* The serial output and input (dev/uart.c, lib/tty.c): the program hands  *)
(* one byte after the other to the transmitter of the ATmega32, which has  *)
(* a data register and a shift register, and takes received bytes from a   *)
(* receiver that holds RX_DEPTH of them.                                   *)
(*                                                                         *)
(* text and line are history: the characters printed, and what the line    *)
(* has carried.                                                            *)
(***************************************************************************)
EXTENDS Integers, Sequences, FiniteSets

CONSTANTS Characters,   \* with LF, without CR
          CR, LF, NUL,
          Chunks,       \* byte sequences given to uart_write, without LF
          Limits,       \* arguments of uart_read
          RX_DEPTH,     \* received bytes the hardware holds
          MaxText       \* bound: characters printed

SerialAssumption ==
    /\ LF \in Characters
    /\ Chunks \subseteq Seq(Characters \ {LF})
    /\ Limits \subseteq Nat

VARIABLES enabled,      \* uart_init has run
          todo,         \* the bytes the running call has yet to write
          udr, shift,   \* data and shift register: sequences of at most one
          text, line,
          rx,           \* the received bytes that were not read
          read          \* uart_read: its limit, the bytes stored, if it runs

vars == <<enabled, todo, udr, shift, text, line, rx, read>>
----------------------------------------------------------------------------
NoRead == [runs |-> FALSE, limit |-> 0, data |-> << >>]

Init ==
    /\ enabled = FALSE
    /\ todo = << >> /\ udr = << >> /\ shift = << >>
    /\ text = << >> /\ line = << >>
    /\ rx = << >> /\ read = NoRead

\* tty_init, uart_init
TtyInit ==
    /\ ~ enabled
    /\ enabled' = TRUE
    /\ UNCHANGED <<todo, udr, shift, text, line, rx, read>>

Ready == enabled /\ todo = << >> /\ ~ read.runs

Encoded(c) == IF c = LF THEN <<CR, LF>> ELSE <<c>>

tty_write(c) ==
    /\ Ready /\ Len(text) < MaxText
    /\ todo' = Encoded(c)
    /\ text' = Append(text, c)
    /\ UNCHANGED <<enabled, udr, shift, line, rx, read>>

uart_write(data) ==
    /\ Ready /\ Len(text) + Len(data) <= MaxText
    /\ todo' = data
    /\ text' = text \o data
    /\ UNCHANGED <<enabled, udr, shift, line, rx, read>>

\* Fault: the byte is written without a look at UDRE.
NoWait == TRUE
DataRegisterEmpty == udr = << >>

\* The hardware ignores a byte written while its data register is full.
uart_write_byte ==
    /\ todo # << >> /\ DataRegisterEmpty
    /\ udr' = IF udr = << >> THEN <<Head(todo)>> ELSE udr
    /\ todo' = Tail(todo)
    /\ UNCHANGED <<enabled, shift, text, line, rx, read>>

Load ==
    /\ udr # << >> /\ shift = << >>
    /\ shift' = udr /\ udr' = << >>
    /\ UNCHANGED <<enabled, todo, text, line, rx, read>>

Transmitted ==
    /\ shift # << >>
    /\ line' = line \o shift /\ shift' = << >>
    /\ UNCHANGED <<enabled, todo, udr, text, rx, read>>

\* A byte that finds the receiver full is lost.
Received(byte) ==
    /\ enabled
    /\ rx' = IF Len(rx) < RX_DEPTH THEN Append(rx, byte) ELSE rx
    /\ UNCHANGED <<enabled, todo, udr, shift, text, line, read>>

uart_read(max_length) ==
    /\ Ready
    /\ read' = [runs |-> TRUE, limit |-> max_length, data |-> << >>]
    /\ UNCHANGED <<enabled, todo, udr, shift, text, line, rx>>

\* tty_read reads one character the same way.
uart_read_byte ==
    /\ read.runs /\ Len(read.data) < read.limit /\ rx # << >>
    /\ read' = [read EXCEPT !.data = Append(@, Head(rx)), !.runs = Head(rx) # NUL]
    /\ rx' = Tail(rx)
    /\ UNCHANGED <<enabled, todo, udr, shift, text, line>>

\* At the limit, data[max_length] is set to the final NUL.
ReadFull ==
    /\ read.runs /\ Len(read.data) = read.limit
    /\ read' = [read EXCEPT !.data = Append(@, NUL), !.runs = FALSE]
    /\ UNCHANGED <<enabled, todo, udr, shift, text, line, rx>>

Next ==
    \/ TtyInit
    \/ \E c \in Characters : tty_write(c)
    \/ \E data \in Chunks : uart_write(data)
    \/ uart_write_byte
    \/ Load
    \/ Transmitted
    \/ \E byte \in Characters \cup {NUL} : Received(byte)
    \/ \E max_length \in Limits : uart_read(max_length)
    \/ uart_read_byte
    \/ ReadFull

Spec == Init /\ [][Next]_vars
----------------------------------------------------------------------------
OnTheWay == line \o shift \o udr \o todo

\* Where character n of t is on the line: behind the characters and the carriage
\* returns that come before it.
Place(t, n) == n + Cardinality({m \in 1 .. n : t[m] = LF})

CarriesAt(bytes, t, n) ==
    /\ bytes[Place(t, n)] = t[n]
    /\ t[n] = LF => bytes[Place(t, n) - 1] = CR

Carries(bytes, t) ==
    /\ Len(bytes) = Place(t, Len(t))
    /\ \A n \in 1 .. Len(t) : CarriesAt(bytes, t, n)

\* The terminal gets what was printed: no character is lost, repeated or out
\* of order between the program and the line, and a carriage return precedes
\* every line feed and nothing else (uart.c:116, tty.c:63).
PrintedInOrder == Carries(OnTheWay, text)

\* uart_read leaves a string: one NUL, behind what was read, at or before
\* data[max_length], one byte beyond the length it was given (uart.c:100).
ReadTerminated ==
    ~ read.runs /\ read # NoRead =>
        /\ Len(read.data) \in 1 .. read.limit + 1
        /\ \A n \in DOMAIN read.data : read.data[n] = NUL <=> n = Len(read.data)
=============================================================================
