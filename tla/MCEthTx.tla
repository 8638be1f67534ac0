------------------------------ MODULE MCEthTx ------------------------------
(***************************************************************************)
(* EthTx with a short packet, one that fills the transmit buffer and one   *)
(* that is longer than the controller's memory, sent in any order, between *)
(* calls that leave the controller in each of its banks.                   *)
(***************************************************************************)
EXTENDS EthTx

SomePackets == {[id |-> n, length |-> n] : n \in {1, 2, 5}}
=============================================================================
