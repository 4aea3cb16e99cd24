----------------------------- MODULE AudioLink -----------------------------
(***************************************************************************)
(* What the audio channel promises: the waves of the server are heard each *)
(* once, in order, whole, and in the format they were encoded in.          *)
(***************************************************************************)
EXTENDS Sequences, Naturals

CONSTANT Formats

VARIABLES sent, heard

Wave(n, f) == [head |-> n, tail |-> n, format |-> f]

Init == sent = << >> /\ heard = << >>

Send(f) == sent' = Append(sent, Wave(Len(sent) + 1, f)) /\ UNCHANGED heard

Hear ==
  /\ Len(heard) < Len(sent)
  /\ heard' = Append(heard, sent[Len(heard) + 1])
  /\ UNCHANGED sent

Next == (\E f \in Formats : Send(f)) \/ Hear

Spec == Init /\ [][Next]_<<sent, heard>>

LiveSpec == Spec /\ WF_<<sent, heard>>(Hear)
=============================================================================
