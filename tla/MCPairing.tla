----------------------------- MODULE MCPairing -----------------------------
(* Instances of Pairing for TLC. *)
EXTENDS Pairing
=============================================================================
