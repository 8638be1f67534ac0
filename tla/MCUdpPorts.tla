----------------------------- MODULE MCUdpPorts -----------------------------
(***************************************************************************)
(* UdpPorts with three slots.  Port 1 is one that the registers may spell, *)
(* as they may spell the echo port 7; port 2 is beyond r0 and a zero r1.   *)
(***************************************************************************)
EXTENDS UdpPorts, TLC

CONSTANTS a1, a2, a3, a4, cb1, cb2

Symmetry == Permutations(Addr)
============================================================================
