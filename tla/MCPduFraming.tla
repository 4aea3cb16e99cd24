---------------------------- MODULE MCPduFraming ----------------------------
(* An instance of PduFraming for TLC: bytes are below 8.  The long PDU's length
   takes both of its bytes, the X.224 one's fits the second. *)
EXTENDS PduFraming

ThreeForms ==
  {[form |-> "short", len |-> 3], [form |-> "long", len |-> 9], [form |-> "x224", len |-> 5]}
=============================================================================
