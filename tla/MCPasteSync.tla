---------------------------- MODULE MCPasteSync ----------------------------
(* Instances of PasteSync for TLC. *)
EXTENDS PasteSync

CONSTANTS t1, t2, f1

TwoTexts == {t1, t2}
OneText  == {t1}
OneFile  == {f1}
NoFile   == {}

Plain      == {"blur", "shortcut"}
Reconnects == {"reconnect", "readGranted"}
Drops      == {"drop"}
Sessions   == Reconnects \cup Drops
Nothing    == {}
=============================================================================
