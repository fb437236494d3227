--------------------------- MODULE MCPairingScreen ---------------------------
(* Instances of PairingScreen for TLC. *)
EXTENDS PairingScreen
MCSlots == 1..2
=============================================================================
