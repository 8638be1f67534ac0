------------------------------ MODULE MCUnits ------------------------------
(***************************************************************************)
(* Units for TLC.  The ring has eight bytes: two or three frames fill it,  *)
(* and frames lie across its end.  Bytes of the clock have four values: a  *)
(* timestamp of three bytes, so that a tick may carry into the second or   *)
(* the third, and a millisecond counter of two whose last value, like 999  *)
(* in two bytes, has a full high byte but not a full low one.              *)
(***************************************************************************)
EXTENDS Units

CONSTANT letter    \* a byte of the serial line

\* Days from the first of 1970 to the first of January of year y.
DaysBefore1970(y) ==
    365 * (y - 1970) + ((y - 1969) \div 4) - ((y - 1901) \div 100) + ((y - 1601) \div 400)

\* The ends of January, February, November and December, the first days after,
\* of years around the exceptions; and seconds of the first and the last day.
MCTimestamps ==
    {<<DaysBefore1970(y) + n, 86399>> :
        y \in {1970, 1971, 1972, 1999, 2000, 2001, 2099, 2100, 2101, 2105},
        n \in {0, 30, 31, 58, 59, 60, 333, 334, 364, 365}}
      \cup ({0, 49709} \X {0, 59, 60, 3599, 3600, 80000})

\* Bytes of three bits: the first two freely, and the rest all zeros or all ones.
\* The protocol number can be added to a length below 47 (UDP) or 58 (TCP).
MCPackets ==
    {[n \in 0 .. 63 |-> IF n < 2 THEN p[n] ELSE IF p[1] = 0 THEN 0 ELSE 7] :
        p \in [0 .. 1 -> {0, 7}]}

MCAddresses ==
    {[n \in 0 .. 3 |-> a[n + 1]] : a \in {<<5, 0, 1, 6>>, <<3, 7, 3, 7>>}}

MCLengths == 0 .. 5

MCChunks == {<< >>, <<letter, letter>>}
============================================================================
