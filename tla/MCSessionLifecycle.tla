------------------------- MODULE MCSessionLifecycle -------------------------
(* Instances of SessionLifecycle for TLC. *)
EXTENDS SessionLifecycle, TLC

CONSTANTS s1, s2

OneSession  == {s1}
TwoSessions == {s1, s2}
Desktop     == {FALSE}
DesktopOrApp == {FALSE, TRUE}

\* The two slots are interchangeable.
SlotSymmetry == Permutations(Sessions)
=============================================================================
