-------------------------- MODULE MCDesktopResize --------------------------
(* Instances of DesktopResize for TLC. *)
EXTENDS DesktopResize

\* Below the minimum, odd, even, above the maximum: 150 and 9000 are clamped.
AllWidths == {150, 801, 1024, 9000}
TwoWidths == {800, 1024}

NoMoves  == {}
InFlight == {"in flight"}
WhileConnecting == {"connecting"}
=============================================================================
