------------------------------ MODULE MCRelay ------------------------------
(***************************************************************************)
(* A small instance of Relay.                                              *)
(***************************************************************************)
EXTENDS Relay
=============================================================================
