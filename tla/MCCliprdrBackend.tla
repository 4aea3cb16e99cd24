-------------------------- MODULE MCCliprdrBackend --------------------------
(* Instances of CliprdrBackend for TLC. *)
EXTENDS CliprdrBackend

TextImageFiles == {{"text", "dib"}, {"dibv5", "dib"}, {"files"}}
RichAndImage   == {{"text", "dibv5"}, {"dibv5"}}
TextAndImage   == {{"text"}, {"dibv5"}}
OnlyText       == {{"text"}}
OnlyFiles      == {{"files"}}
TwoFiles == <<0, 3>>
OneFile  == <<3>>
NoFiles  == << >>
ThreeThenOne == <<3, 1>>
=============================================================================
