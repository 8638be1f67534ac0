------------------------------- MODULE Clock -------------------------------
(***************************************************************************)
(* The system clock (lib/clock.c).  An interrupt every millisecond counts  *)
(* milliseconds and seconds in two volatile variables; the main program    *)
(* reads them, and sets the seconds, one byte at a time, because the       *)
(* processor is an 8-bit one.  clock_set_time disables the interrupt,      *)
(* clock_time and clock_microtime do not.                                  *)
(*                                                                         *)
(* before, ticked, setting and elapsed are history.                        *)
(***************************************************************************)
EXTENDS Integers

CONSTANTS BASE,         \* values of a byte: 256
          TIME_BYTES,   \* sizeof(clock_timestamp_t): 4
          MICRO_BYTES,  \* sizeof(clock_microtime_t): 2
          MILLIS,       \* 1000
          NewTimes,     \* arguments of clock_set_time
          MaxElapsed    \* bound: interrupts explored after clock_set_time

VARIABLES timestamp, microtime,
          irq,      \* the I flag: is the interrupt enabled?
          pc,       \* "idle", "time", "micro" (a read), "set", "zero", "sei"
          k,        \* the byte the main program is at
          value,    \* the bytes read so far, or the argument of clock_set_time
          before,   \* the variable when the read began
          ticked,   \* an interrupt came during the read
          setting,  \* the argument of the last clock_set_time
          elapsed   \* interrupts since then

vars == <<timestamp, microtime, irq, pc, k, value, before, ticked, setting, elapsed>>
----------------------------------------------------------------------------
\* What a unit of byte i counts: BASE to the power i.
Weight[i \in Nat] == IF i = 0 THEN 1 ELSE BASE * Weight[i - 1]

TIME_MOD == Weight[TIME_BYTES]

Byte(n, i) == (n \div Weight[i]) % BASE

WithByte(n, i, b) == n + (b - Byte(n, i)) * Weight[i]

\* The constants the program is built with are of this kind.
ClockAssumption ==
    /\ BASE \in Nat \ {0, 1}
    /\ TIME_BYTES \in Nat /\ MICRO_BYTES \in 1 .. TIME_BYTES
    /\ MILLIS \in 1 .. Weight[MICRO_BYTES]
    /\ NewTimes \subseteq 0 .. TIME_MOD - 1
    /\ MaxElapsed \in Nat

Reading == pc \in {"time", "micro"}

Init ==
    /\ timestamp = 0 /\ microtime = 0
    /\ irq = TRUE
    /\ pc = "idle" /\ k = 0 /\ value = 0
    /\ before = 0 /\ ticked = FALSE
    /\ setting = 0 /\ elapsed = 0

Rollover == microtime + 1 = MILLIS

\* ISR(TIMER0_COMP_vect).  A read takes well under a millisecond, so at most
\* one interrupt falls into it.
ClockTick ==
    /\ irq
    /\ Reading => ~ ticked
    /\ elapsed < MaxElapsed
    /\ elapsed' = elapsed + 1
    /\ microtime' = IF Rollover THEN 0 ELSE microtime + 1
    /\ timestamp' = IF Rollover THEN (timestamp + 1) % TIME_MOD ELSE timestamp
    /\ ticked' = Reading
    /\ UNCHANGED <<irq, pc, k, value, before, setting>>

\* clock_time, clock_microtime: the load of one byte after the other, the
\* lowest first.
BeginRead(what) ==
    /\ pc = "idle"
    /\ pc' = what /\ k' = 0 /\ value' = 0
    /\ before' = IF what = "time" THEN timestamp ELSE microtime
    /\ ticked' = FALSE
    /\ UNCHANGED <<timestamp, microtime, irq, setting, elapsed>>

Source == IF pc = "time" THEN timestamp ELSE microtime

Size == IF pc = "time" THEN TIME_BYTES ELSE MICRO_BYTES

\* Fault: the highest byte first.
NextByteDown == Size - 1 - k
NextByte == k

ReadByte ==
    /\ Reading /\ k < Size
    /\ value' = value + Byte(Source, NextByte) * Weight[NextByte]
    /\ k' = k + 1
    /\ UNCHANGED <<timestamp, microtime, irq, pc, before, ticked, setting, elapsed>>

EndRead ==
    /\ Reading /\ k = Size
    /\ pc' = "idle"
    /\ UNCHANGED <<timestamp, microtime, irq, k, value, before, ticked, setting, elapsed>>

\* Fault: the interrupt stays enabled while the time is set.
CliMissing == irq
Cli == FALSE

\* clock_set_time: cli(), the stores, sei().
BeginSet(time) ==
    /\ pc = "idle"
    /\ irq' = Cli
    /\ pc' = "set" /\ k' = 0 /\ value' = time
    /\ UNCHANGED <<timestamp, microtime, before, ticked, setting, elapsed>>

StoreByte ==
    /\ pc = "set"
    /\ timestamp' = WithByte(timestamp, k, Byte(value, k))
    /\ k' = k + 1
    /\ pc' = IF k + 1 = TIME_BYTES THEN "zero" ELSE "set"
    /\ UNCHANGED <<microtime, irq, value, before, ticked, setting, elapsed>>

StoreMicrotime ==
    /\ pc = "zero"
    /\ microtime' = 0
    /\ setting' = value /\ elapsed' = 0
    /\ pc' = "sei"
    /\ UNCHANGED <<timestamp, irq, k, value, before, ticked>>

Sei ==
    /\ pc = "sei"
    /\ irq' = TRUE
    /\ pc' = "idle"
    /\ UNCHANGED <<timestamp, microtime, k, value, before, ticked, setting, elapsed>>

Next ==
    \/ ClockTick
    \/ \E what \in {"time", "micro"} : BeginRead(what)
    \/ ReadByte
    \/ EndRead
    \/ \E time \in NewTimes : BeginSet(time)
    \/ StoreByte
    \/ StoreMicrotime
    \/ Sei

Spec == Init /\ [][Next]_vars
----------------------------------------------------------------------------
\* The counters keep their widths; microtime stays a count of milliseconds.
TypeOK ==
    /\ timestamp \in 0 .. TIME_MOD - 1
    /\ microtime \in 0 .. MILLIS - 1
    /\ irq \in BOOLEAN
    /\ pc \in {"idle", "time", "micro", "set", "zero", "sei"}
    /\ k \in 0 .. TIME_BYTES
    /\ value \in 0 .. TIME_MOD - 1

\* No millisecond is lost, counted twice or carried wrongly: outside of
\* clock_set_time the two counters are the time that was set plus the
\* interrupts since.
TimeKept ==
    pc \notin {"set", "zero"} =>
        timestamp * MILLIS + microtime = (setting * MILLIS + elapsed) % (TIME_MOD * MILLIS)

\* What clock_time can return: the time before or after the interrupt that
\* fell into the read, or, when that interrupt carried into byte j, a time
\* ahead of it by Weight[j] - 1 seconds.  It is never behind.
TimeReadBounded ==
    pc = "time" /\ k = Size =>
        \/ value \in {before, timestamp}
        \/ \E j \in 1 .. TIME_BYTES - 1 :
              /\ ticked /\ timestamp % Weight[j] = 0
              /\ value = timestamp + Weight[j] - 1

\* "Gets the current time" (clock.h:78): a read returns a time the clock
\* showed while it ran.
ReadIsCurrent ==
    Reading /\ k = Size => value \in {before, Source}
============================================================================
