------------------------- MODULE MCConnectSequence -------------------------
(* Instances of ConnectSequence for TLC. *)
EXTENDS ConnectSequence

AllProtocols == {"SSL", "HYBRID", "HYBRID_EX"}
=============================================================================
