------------------------------ MODULE MCEthRx ------------------------------
(***************************************************************************)
(* EthRx with a ring of nine bytes: two to four frames fill it, and frames *)
(* lie across its end.                                                     *)
(***************************************************************************)
EXTENDS EthRx
============================================================================
