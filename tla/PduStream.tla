----------------------------- MODULE PduStream -----------------------------
(***************************************************************************)
(* What the transport promises the session loop: the PDUs of the server,   *)
(* each once, whole and in order.                                          *)
(***************************************************************************)
EXTENDS Sequences, Naturals

CONSTANT Units      \* PDUs, as the bytes they are

VARIABLES sent, got

Init == sent = << >> /\ got = << >>

Send(u) == sent' = Append(sent, u) /\ UNCHANGED got

Deliver ==
  /\ Len(got) < Len(sent)
  /\ got' = Append(got, sent[Len(got) + 1])
  /\ UNCHANGED sent

Next == (\E u \in Units : Send(u)) \/ Deliver

Spec == Init /\ [][Next]_<<sent, got>>
=============================================================================
