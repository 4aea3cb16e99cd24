----------------------------- MODULE FileFetch -----------------------------
(***************************************************************************)
(* What downloading the files of the remote's clipboard promises: each     *)
(* file asked for is saved with its own bytes, all of them, or not at all, *)
(* and is not waited for any more once the remote cannot give it or the    *)
(* session ends.                                                           *)
(***************************************************************************)
CONSTANTS
  Files,       \* the files there are to ask for
  Content(_)   \* the bytes of each

VARIABLES asked, saved

Init == asked = {} /\ saved = {}

Ask(fs) == asked' = asked \cup fs /\ UNCHANGED saved

GiveUp(f) == f \in asked /\ asked' = asked \ {f} /\ UNCHANGED saved

Save(f) ==
  /\ f \in asked
  /\ asked' = asked \ {f}
  /\ saved' = saved \cup {[file |-> f, data |-> Content(f)]}

EndSession == asked' = {} /\ UNCHANGED saved

Next ==
  \/ \E fs \in SUBSET Files : Ask(fs)
  \/ \E f \in Files : Save(f) \/ GiveUp(f)
  \/ EndSession

Spec == Init /\ [][Next]_<<asked, saved>>

LiveSpec ==
  Spec /\ \A f \in Files : WF_<<asked, saved>>(Save(f) \/ GiveUp(f) \/ (f \in asked /\ EndSession))
=============================================================================
