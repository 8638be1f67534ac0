------------------------------ MODULE MCClock ------------------------------
(***************************************************************************)
(* Clock with bytes of four values: a timestamp of three bytes, so that a  *)
(* tick may carry into the second or the third, and a millisecond counter  *)
(* of two whose last value, like 999 in two bytes, has a full high byte    *)
(* range but not a full low byte.                                          *)
(***************************************************************************)
EXTENDS Clock
============================================================================
