------------------------------- MODULE Status -------------------------------
(***************************************************************************)
(* The interface statistics: net_periodic counts packets and bytes in      *)
(* unsigned 32-bit counters, and display_status shows the totals, and as   *)
(* rates what came since it ran last, each as a number and a unit.  The    *)
(* packets are counted, one by one, and shown as they are: left out.       *)
(*                                                                         *)
(* since is history.                                                       *)
(***************************************************************************)
EXTENDS Integers

CONSTANTS COUNT_MOD,   \* values of a counter: 2^32
          KB, MB,      \* 1024, 1048576
          Lengths,     \* lengths of frames
          MaxSince     \* bound: bytes between two displays

VARIABLES bytes,       \* direction -> net_status.bytes_sent, .bytes_received
          saved,       \* direction -> the static variables of display_status
          shown,       \* what the last step put on the terminal, or NotShown
          since        \* direction -> the bytes since the last display

vars == <<bytes, saved, shown, since>>
----------------------------------------------------------------------------
Directions == {"sent", "received"}

NotShown == [d \in {} |-> 0]

None == [d \in Directions |-> 0]

Init ==
    /\ bytes = None
    /\ saved = None
    /\ shown = NotShown
    /\ since = None

Counted(counter, d, n) == [counter EXCEPT ![d] = (@ + n) % COUNT_MOD]

\* One pass of the loop of net_periodic: a frame of n bytes, which may be
\* empty, and an answer of m, 0 being none.
Handle(n, m) ==
    /\ since["received"] + n <= MaxSince /\ since["sent"] + m <= MaxSince
    /\ bytes' = Counted(Counted(bytes, "received", n), "sent", m)
    /\ since' = [since EXCEPT !["received"] = @ + n, !["sent"] = @ + m]
    /\ shown' = NotShown
    /\ UNCHANGED saved

\* The largest unit of which there is one; the number is rounded down.
InUnits(n) ==
    IF n < KB THEN [number |-> n, unit |-> 1]
    ELSE IF n < MB THEN [number |-> n \div KB, unit |-> KB]
    ELSE [number |-> n \div MB, unit |-> MB]

\* Fault: the larger total is subtracted from, as if no counter wrapped.
RateAbsolute(total, previous) == IF total > previous THEN total - previous ELSE previous - total

\* An unsigned subtraction.
Rate(total, previous) == (total - previous) % COUNT_MOD

Display ==
    /\ shown' = [d \in Directions |-> [data |-> InUnits(bytes[d]),
                                       rate |-> InUnits(Rate(bytes[d], saved[d]))]]
    /\ saved' = bytes
    /\ since' = None
    /\ UNCHANGED bytes

Next == Display \/ \E n, m \in Lengths : Handle(n, m)

Spec == Init /\ [][Next]_vars
----------------------------------------------------------------------------
Names(figure, n) ==
    /\ figure.number * figure.unit <= n
    /\ n < (figure.number + 1) * figure.unit
    /\ figure.unit > 1 => figure.number > 0

\* What is shown as a rate is what was sent and received since the display
\* before, rounded down to the unit, also when a counter has wrapped in
\* between, as long as it has wrapped only once (main.c:87, main.c:114).
RateTrue ==
    [][shown' # NotShown =>
          \A d \in Directions : since[d] < COUNT_MOD => Names(shown'[d].rate, since[d])]_vars
=============================================================================
