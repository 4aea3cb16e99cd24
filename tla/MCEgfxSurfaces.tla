--------------------------- MODULE MCEgfxSurfaces ---------------------------
(* Instances of EgfxSurfaces for TLC. *)
EXTENDS EgfxSurfaces, TLC
CONSTANTS red, blue, i1, i2
TwoColours == {red, blue}
OneColour == {red}
Avc == {"avc"}
Both == {"avc", "other"}

\* Only equality of ids matters.
IdSymmetry == Permutations({i1, i2})
=============================================================================
