-------------------------- MODULE MCRdpsndChannel --------------------------
(* Instances of RdpsndChannel for TLC. *)
EXTENDS RdpsndChannel

CONSTANTS pcm, opus, adpcm

Known == {pcm, opus, adpcm}
Handled == {pcm, opus}
TwoOffers == {<<adpcm, pcm>>, <<pcm, opus>>}
EveryPeer == {"split", "skip training", "negotiate again"}
=============================================================================
