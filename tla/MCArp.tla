------------------------------- MODULE MCArp -------------------------------
(***************************************************************************)
(* Small instances of Arp.  Addresses are model values; n1, n2 and n3 are  *)
(* neighbours, far is on another network.  A table of two or three entries *)
(* is fuller than ten entries are with this many neighbours, and the ratio *)
(* of ARP_ENTRY_MAX_AGE to TIME_MOD keeps the order of 120 to 256: a       *)
(* deadline may fall before or after the wrap of arp_time.                 *)
(***************************************************************************)
EXTENDS Arp, TLC

CONSTANTS n1, n2, n3, far, m1, m2

\* The neighbours are interchangeable, and so are their Ethernet addresses.
Symmetry == Permutations({m1, m2})
============================================================================
