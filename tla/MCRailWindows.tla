--------------------------- MODULE MCRailWindows ---------------------------
(* Instances of RailWindows for TLC. *)
EXTENDS RailWindows

TwoWindows == {1, 2}
OneWindow  == {1}
WholeAndRight == {<<0, 2>>, <<1, 1>>}
OffLeft       == {<<-1, 2>>, <<0, 1>>}
OneRect    == {1}
SomeRects  == {1, 2}
=============================================================================
