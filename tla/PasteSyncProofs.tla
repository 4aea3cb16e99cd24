-------------------------- MODULE PasteSyncProofs --------------------------
(* Theorems of PasteSync, for every set of contents and every bound.        *)
EXTENDS PasteSync, SequenceTheorems, TLAPS

(***************************************************************************)
(* A held key is always released by something: whatever clears the timer   *)
(* sends the key, advertises, or starts a read, and whatever ends a read   *)
(* does one of the first two.  HeldIsBacked is inductive together with:    *)
(* the paste event finds the timer of its keydown running.                 *)
(***************************************************************************)
Backed == HeldIsBacked /\ (pasteDue => replayTimer = "key")

LEMMA BackedInit == Init => Backed
BY DEF Init, Backed, HeldIsBacked

LEMMA BackedStep == Backed /\ [Next]_vars => Backed'
<1> SUFFICES ASSUME Backed, [Next]_vars PROVE Backed'
  OBVIOUS
<1> USE DEF Backed, HeldIsBacked, Idle
<1>1. ASSUME NEW c \in Contents, HostCopy(c) PROVE Backed'
  BY <1>1 DEF HostCopy, heldVars, readVars, linkVars
<1>2. ASSUME NEW down \in BOOLEAN, CtrlKey(down) PROVE Backed'
  BY <1>2 DEF CtrlKey, heldVars, readVars, linkVars
<1>3. CASE TypeV
  BY <1>3 DEF TypeV, heldVars, readVars, linkVars
<1>4. CASE PressPaste
  BY <1>4, PasteAssumption DEF PressPaste
<1>5. CASE ReleaseV
  BY <1>5 DEF ReleaseV, heldVars, readVars, linkVars
<1>6. CASE ReleaseAllModifiers
  BY <1>6 DEF ReleaseAllModifiers, heldVars, readVars, linkVars
<1>7. CASE PasteEvent
  <2>1. CASE heldPaste' = None
    BY <1>7, <2>1 DEF PasteEvent
  <2>2. CASE replayTimer' \in {"ack", "key"}
    BY <1>7, <2>2, PasteAssumption DEF PasteEvent
  <2>3. CASE filePaste' \in Files
    BY <1>7, <2>3, PasteAssumption DEF PasteEvent, Contents
  <2> QED
    BY <1>7, <2>1, <2>2, <2>3 DEF PasteEvent, SendHeldPaste, Advertise
<1>8. CASE NoPasteEvent
  BY <1>8 DEF NoPasteEvent, heldVars, readVars, linkVars
<1>9. CASE FileRead
  BY <1>9, PasteAssumption DEF FileRead, Advertise, SendHeldPaste, heldVars, linkVars
<1>10. CASE ReplayTimer
  BY <1>10 DEF ReplayTimer, SendHeldPaste
<1>11. CASE CheckHostClipboard
  BY <1>11 DEF CheckHostClipboard, heldVars, linkVars
<1>12. CASE HostClipboardRead
  <2>1. CASE UNCHANGED heldVars
    BY <1>12, <2>1 DEF HostClipboardRead, heldVars, linkVars
  <2>2. CASE Advertise(hostClip) /\ (heldPaste = None => heldPaste' = None)
    <3>1. heldPaste' # None => replayTimer' = "ack"
      BY <2>2 DEF Advertise
    <3> QED
      BY <1>12, <3>1, PasteAssumption DEF HostClipboardRead, linkVars
  <2> QED
    BY <1>12, <2>1, <2>2 DEF HostClipboardRead
<1>13. CASE FormatListAck
  BY <1>13 DEF FormatListAck, SendHeldPaste, heldVars
<1>14. ASSUME NEW f \in Files, DropFile(f) PROVE Backed'
  BY <1>14 DEF DropFile, heldVars, readVars, linkVars
<1>15. CASE Connected
  BY <1>15 DEF Connected
<1>16. CASE ChannelOpens
  BY <1>16 DEF ChannelOpens, heldVars, readVars
<1>17. CASE Lost
  BY <1>17 DEF Lost
<1>18. CASE RemoteHandlesList
  BY <1>18 DEF RemoteHandlesList, heldVars, readVars
<1>19. CASE RemoteHandlesKey
  BY <1>19 DEF RemoteHandlesKey, heldVars, readVars, linkVars
<1>20. CASE UNCHANGED vars
  BY <1>20 DEF vars, heldVars, readVars, linkVars
<1> QED
  BY <1>1, <1>2, <1>3, <1>4, <1>5, <1>6, <1>7, <1>8, <1>9, <1>10, <1>11, <1>12, <1>13, <1>14,
     <1>15, <1>16, <1>17, <1>18, <1>19, <1>20 DEF Next, Blur, Shortcut

\* A held paste key always has something that will release it: the fallback timer, or the
\* file that is read for it.
THEOREM HeldAlwaysBacked == Spec => []HeldIsBacked
BY BackedInit, BackedStep, PTL DEF Spec, Backed

-----------------------------------------------------------------------------
(***************************************************************************)
(* Types.  TypeOK is inductive by itself; it is proved in five parts.      *)
(***************************************************************************)
LEMMA TypeInit == Init => TypeOK
<1> SUFFICES ASSUME Init PROVE TypeOK
  OBVIOUS
<1>1. {up, clipChannelReady, pasteKeyUp, pasteDue, clipCheckBusy, keysDown, ctrl, vKey,
       channelOpen, remoteCtrl} \subseteq BOOLEAN
  BY DEF Init
<1>2. keys \in Seq(KeyEvents) /\ lists \in Seq(Formats \cup {"empty"})
  BY DEF Init
<1> QED
  BY <1>1, <1>2 DEF Init, TypeOK

LEMMA KeyType ==
  ASSUME NEW code \in {"Ctrl", "V"}, NEW down \in BOOLEAN
  PROVE  Key(code, down) \in KeyEvents
BY DEF Key, KeyEvents, Causes

LEMMA HeldKeysAre ==
  ASSUME TypeOK, heldPaste # None, NEW cause \in Causes, NEW want \in SUBSET Contents
  PROVE  /\ HeldV(cause, want) \in KeyEvents
         /\ keys \o HeldKeys(cause, want) =
              IF heldPaste.ctrl /\ ~keysDown
              THEN Append(Append(Append(Append(keys, Key("Ctrl", TRUE)), HeldV(cause, want)),
                                 Key("V", FALSE)), Key("Ctrl", FALSE))
              ELSE Append(Append(keys, HeldV(cause, want)), Key("V", FALSE))
         /\ keys \o HeldKeys(cause, want) \in Seq(KeyEvents)
<1>1. HeldV(cause, want) \in KeyEvents
  <2>1. heldPaste \in Held
    BY DEF TypeOK
  <2>2. heldPaste.ctrl \in BOOLEAN
    BY <2>1 DEF Held
  <2>3. ASSUME NEW mod \in BOOLEAN
        PROVE  [code |-> "V", down |-> TRUE, cause |-> cause, want |-> want, mod |-> mod] \in KeyEvents
    BY DEF KeyEvents
  <2> QED
    BY <2>2, <2>3 DEF HeldV
<1>2. /\ Key("Ctrl", TRUE) \in KeyEvents /\ Key("Ctrl", FALSE) \in KeyEvents
      /\ Key("V", FALSE) \in KeyEvents
  BY KeyType
<1>3. keys \in Seq(KeyEvents)
  BY DEF TypeOK
<1>4. ASSUME NEW a \in KeyEvents, NEW b \in KeyEvents, NEW c \in KeyEvents, NEW d \in KeyEvents
      PROVE  /\ keys \o (<<a>> \o <<b, c>> \o <<d>>) = Append(Append(Append(Append(keys, a), b), c), d)
             /\ keys \o (<< >> \o <<b, c>> \o << >>) = Append(Append(keys, b), c)
             /\ Append(Append(Append(Append(keys, a), b), c), d) \in Seq(KeyEvents)
             /\ Append(Append(keys, b), c) \in Seq(KeyEvents)
  <2> DEFINE K == KeyEvents
             BC == <<b, c>>
  <2>1. <<a>> \in Seq(K) /\ <<d>> \in Seq(K) /\ BC \in Seq(K) /\ keys \in Seq(K)
    BY <1>3
  <2>2. \A s \in Seq(K) : s \o BC = Append(Append(s, b), c)
    OBVIOUS
  <2>3. keys \o <<a>> = Append(keys, a) /\ Append(keys, a) \in Seq(K)
    BY <1>3
  <2>4. <<a>> \o BC \in Seq(K) /\ Append(keys, a) \o BC \in Seq(K)
    BY <2>1, <2>3, ConcatProperties
  <2>5. keys \o ((<<a>> \o BC) \o <<d>>) = (keys \o (<<a>> \o BC)) \o <<d>>
    BY <2>1, <2>4, ConcatAssociative
  <2>6. keys \o (<<a>> \o BC) = (keys \o <<a>>) \o BC
    BY <2>1, ConcatAssociative
  <2>7. (Append(keys, a) \o BC) \o <<d>> = Append(Append(Append(Append(keys, a), b), c), d)
    BY <2>2, <2>3, <2>4, AppendIsConcat
  <2>8. keys \o ((<< >> \o BC) \o << >>) = Append(Append(keys, b), c)
    BY <2>1, <2>2, ConcatEmptySeq
  <2>9. Append(Append(Append(Append(keys, a), b), c), d) \in Seq(K)
    BY <1>3
  <2> HIDE DEF BC
  <2> QED
    BY <1>3, <2>3, <2>5, <2>6, <2>7, <2>8, <2>9 DEF BC
<1> DEFINE H == HeldV(cause, want)
           V == Key("V", FALSE)
           C == Key("Ctrl", TRUE)
           D == Key("Ctrl", FALSE)
           again(down) == IF heldPaste.ctrl /\ ~keysDown THEN <<Key("Ctrl", down)>> ELSE << >>
<1>5. HeldKeys(cause, want) = again(TRUE) \o <<H, V>> \o again(FALSE)
  BY DEF HeldKeys
<1>6. H \in KeyEvents /\ V \in KeyEvents /\ C \in KeyEvents /\ D \in KeyEvents
  BY <1>1, <1>2
<1>7. CASE heldPaste.ctrl /\ ~keysDown
  <2>1. again(TRUE) = <<C>> /\ again(FALSE) = <<D>>
    BY <1>7
  <2> HIDE DEF again, H, V, C, D
  <2>2. HeldKeys(cause, want) = (<<C>> \o <<H, V>>) \o <<D>>
    BY <1>5, <2>1
  <2>3. /\ keys \o ((<<C>> \o <<H, V>>) \o <<D>>) = Append(Append(Append(Append(keys, C), H), V), D)
        /\ Append(Append(Append(Append(keys, C), H), V), D) \in Seq(KeyEvents)
    BY <1>4, <1>6
  <2> QED
    BY <2>2, <2>3, <1>1, <1>7 DEF H, V, C, D
<1>8. CASE ~(heldPaste.ctrl /\ ~keysDown)
  <2>1. again(TRUE) = << >> /\ again(FALSE) = << >>
    BY <1>8
  <2> HIDE DEF again, H, V, C, D
  <2>2. HeldKeys(cause, want) = (<< >> \o <<H, V>>) \o << >>
    BY <1>5, <2>1
  <2>3. /\ keys \o ((<< >> \o <<H, V>>) \o << >>) = Append(Append(keys, H), V)
        /\ Append(Append(keys, H), V) \in Seq(KeyEvents)
    BY <1>4, <1>6
  <2> QED
    BY <2>2, <2>3, <1>1, <1>8 DEF H, V
<1> QED
  BY <1>7, <1>8

LEMMA RefreshedIs ==
  ASSUME TypeOK, NEW c \in Contents
  PROVE  /\ Refreshed(c) \in Seq(KeyEvents) /\ Len(Refreshed(c)) = Len(keys)
         /\ \A i \in 1..Len(keys) :
              /\ keys[i] \in KeyEvents /\ Refreshed(c)[i] \in KeyEvents
              /\ Refreshed(c)[i].code = keys[i].code /\ Refreshed(c)[i].down = keys[i].down
              /\ Refreshed(c)[i].cause = keys[i].cause /\ Refreshed(c)[i].mod = keys[i].mod
              /\ Refreshed(c)[i].want = Newer(keys[i].want, c)
<1>1. keys \in Seq(KeyEvents) /\ DOMAIN keys = 1..Len(keys)
  BY DEF TypeOK
<1>2. ASSUME NEW k \in KeyEvents, NEW r, r = [k EXCEPT !.want = Newer(@, c)]
      PROVE  /\ r \in KeyEvents /\ r.code = k.code /\ r.down = k.down /\ r.cause = k.cause
             /\ r.mod = k.mod /\ r.want = Newer(k.want, c)
  <2>1. Newer(k.want, c) \in SUBSET Contents
    BY DEF Newer, KeyEvents
  <2> QED
    BY <1>2, <2>1 DEF KeyEvents
<1>3. \A i \in 1..Len(keys) : keys[i] \in KeyEvents
  BY <1>1
<1>4. \A i \in 1..Len(keys) : Refreshed(c)[i] = [keys[i] EXCEPT !.want = Newer(@, c)]
  BY <1>1 DEF Refreshed
<1>5. \A i \in 1..Len(keys) :
         /\ Refreshed(c)[i] \in KeyEvents
         /\ Refreshed(c)[i].code = keys[i].code /\ Refreshed(c)[i].down = keys[i].down
         /\ Refreshed(c)[i].cause = keys[i].cause /\ Refreshed(c)[i].mod = keys[i].mod
         /\ Refreshed(c)[i].want = Newer(keys[i].want, c)
  BY <1>2, <1>3, <1>4
<1>6. Refreshed(c) = [i \in 1..Len(keys) |-> [keys[i] EXCEPT !.want = Newer(@, c)]]
  BY <1>1 DEF Refreshed
<1>7. Len(keys) \in Nat
  BY <1>1
<1>8. Refreshed(c) \in Seq(KeyEvents) /\ Len(Refreshed(c)) = Len(keys)
  BY <1>5, <1>6, <1>7
<1> QED
  BY <1>3, <1>5, <1>8

FlagsOK == {up, clipChannelReady, pasteKeyUp, pasteDue, clipCheckBusy, keysDown, ctrl, vKey,
            channelOpen, remoteCtrl} \subseteq BOOLEAN
HeldOK ==
  /\ pasteDue => replayTimer = "key"
  /\ heldPaste \in {None} \cup Held
  /\ replayTimer \in {None, "key", "ack"}
  /\ replayTimer # None => heldPaste # None
KeysOK == keys \in Seq(KeyEvents)
ListsOK == lists \in Seq(Formats \cup {"empty"}) /\ answers \in Nat
DataOK ==
  /\ syncedHostFp \in Contents \cup {None}
  /\ advertsInFlight \in Nat
  /\ filePaste \in {None} \cup Files
  /\ hostClip \in Contents
  /\ pendingText \in Texts \cup {None} /\ pendingFile \in Files \cup {None}
  /\ remoteClip \in Contents \cup Formats \cup {Own, None}

LEMMA TypeParts == TypeOK <=> FlagsOK /\ HeldOK /\ KeysOK /\ ListsOK /\ DataOK
BY DEF TypeOK, FlagsOK, HeldOK, KeysOK, ListsOK, DataOK

LEMMA WantType == TypeOK => WantOf(heldPaste) \in SUBSET Contents
<1> SUFFICES ASSUME TypeOK PROVE WantOf(heldPaste) \in SUBSET Contents
  OBVIOUS
<1>1. heldPaste \in {None} \cup Held
  BY DEF TypeOK
<1>2. ASSUME NEW h \in Held PROVE h.want \in SUBSET Contents
  BY DEF Held
<1> QED
  BY <1>1, <1>2 DEF WantOf

LEMMA NewerType ==
  ASSUME NEW c \in Contents, NEW h \in Held
  PROVE  /\ [h EXCEPT !.want = {c}] \in Held /\ [h EXCEPT !.want = Newer(@, c)] \in Held
         /\ [h EXCEPT !.want = {c}].want = {c}
         /\ [h EXCEPT !.want = Newer(@, c)].want = Newer(h.want, c)
<1>1. h.want \in SUBSET Contents
  BY DEF Held
<1>2. Newer(h.want, c) \in SUBSET Contents
  BY <1>1 DEF Newer
<1> QED
  BY <1>2 DEF Held

\* What SendHeldPaste does to the keys.
LEMMA SendKeys ==
  ASSUME TypeOK, NEW cause \in Causes, NEW want \in SUBSET Contents, SendHeldPaste(cause, want)
  PROVE  keys' \in Seq(KeyEvents)
BY HeldKeysAre DEF SendHeldPaste, TypeOK

LEMMA AppendType ==
  ASSUME TypeOK, NEW code \in {"Ctrl", "V"}, NEW down \in BOOLEAN
  PROVE  Append(keys, Key(code, down)) \in Seq(KeyEvents)
BY KeyType DEF TypeOK

LEMMA FlagsStep == TypeOK /\ [Next]_vars => FlagsOK'
<1> SUFFICES ASSUME TypeOK, [Next]_vars PROVE FlagsOK'
  OBVIOUS
<1>0. FlagsOK /\ HeldOK /\ KeysOK /\ ListsOK /\ DataOK
  BY TypeParts
<1> USE DEF keyVars, heldVars, advertVars, readVars, linkVars, remoteVars, Idle
<1>1. ASSUME NEW c \in Contents, HostCopy(c) PROVE FlagsOK'
  BY <1>1, <1>0 DEF HostCopy, FlagsOK
<1>2. ASSUME NEW down \in BOOLEAN, CtrlKey(down) PROVE FlagsOK'
  BY <1>2, <1>0 DEF CtrlKey, FlagsOK
<1>3. CASE TypeV
  BY <1>3, <1>0 DEF TypeV, FlagsOK
<1>4. CASE PressPaste
  BY <1>4, <1>0 DEF PressPaste, FlagsOK
<1>5. CASE ReleaseV
  BY <1>5, <1>0 DEF ReleaseV, FlagsOK
<1>6. CASE Blur
  BY <1>6, <1>0 DEF Blur, ReleaseAllModifiers, FlagsOK
<1>7. CASE Shortcut
  BY <1>7, <1>0 DEF Shortcut, ReleaseAllModifiers, FlagsOK
<1>8. CASE PasteEvent
  BY <1>8, <1>0 DEF PasteEvent, SendHeldPaste, Advertise, SetPending, FlagsOK
<1>9. CASE NoPasteEvent
  BY <1>9, <1>0 DEF NoPasteEvent, FlagsOK
<1>10. CASE FileRead
  BY <1>10, <1>0 DEF FileRead, SendHeldPaste, Advertise, SetPending, FlagsOK
<1>11. CASE ReplayTimer
  BY <1>11, <1>0 DEF ReplayTimer, SendHeldPaste, FlagsOK
<1>12. CASE CheckHostClipboard
  BY <1>12, <1>0 DEF CheckHostClipboard, FlagsOK
<1>13. CASE HostClipboardRead
  BY <1>13, <1>0 DEF HostClipboardRead, Advertise, SetPending, FlagsOK
<1>14. CASE FormatListAck
  BY <1>14, <1>0 DEF FormatListAck, SendHeldPaste, FlagsOK
<1>15. ASSUME NEW f \in Files, DropFile(f) PROVE FlagsOK'
  BY <1>15, <1>0 DEF DropFile, SetPending, FlagsOK
<1>16. CASE Connected
  BY <1>16, <1>0 DEF Connected, FlagsOK
<1>17. CASE ChannelOpens
  BY <1>17, <1>0 DEF ChannelOpens, FlagsOK
<1>18. CASE Lost
  BY <1>18, <1>0 DEF Lost, FlagsOK
<1>19. CASE RemoteHandlesList
  BY <1>19, <1>0 DEF RemoteHandlesList, FlagsOK
<1>20. CASE RemoteHandlesKey
  <2>1. Head(keys) \in KeyEvents
    BY <1>20, <1>0 DEF RemoteHandlesKey, KeysOK
  <2>2. Head(keys).down \in BOOLEAN
    BY <2>1 DEF KeyEvents
  <2>3. remoteCtrl' \in BOOLEAN
    BY <1>20, <1>0, <2>2 DEF RemoteHandlesKey, FlagsOK
  <2> QED
    BY <1>20, <1>0, <2>3 DEF RemoteHandlesKey, FlagsOK
<1>21. CASE UNCHANGED vars
  BY <1>21, <1>0 DEF vars, FlagsOK
<1> QED
  BY <1>1, <1>2, <1>3, <1>4, <1>5, <1>6, <1>7, <1>8, <1>9, <1>10, <1>11, <1>12, <1>13, <1>14,
     <1>15, <1>16, <1>17, <1>18, <1>19, <1>20, <1>21 DEF Next

LEMMA HeldStep == TypeOK /\ [Next]_vars => HeldOK'
<1> SUFFICES ASSUME TypeOK, [Next]_vars PROVE HeldOK'
  OBVIOUS
<1>0. FlagsOK /\ HeldOK /\ KeysOK /\ ListsOK /\ DataOK
  BY TypeParts
<1> USE DEF keyVars, heldVars, advertVars, readVars, linkVars, remoteVars, Idle
<1>1. ASSUME NEW c \in Contents, HostCopy(c) PROVE HeldOK'
  BY <1>1, <1>0 DEF HostCopy, HeldOK
<1>2. ASSUME NEW down \in BOOLEAN, CtrlKey(down) PROVE HeldOK'
  BY <1>2, <1>0 DEF CtrlKey, HeldOK
<1>3. CASE TypeV
  BY <1>3, <1>0 DEF TypeV, HeldOK
<1>4. CASE PressPaste
  <2>1. keysDown \in BOOLEAN
    BY <1>0 DEF FlagsOK
  <2>2. [ctrl |-> keysDown, want |-> {}] \in Held
    BY <2>1 DEF Held
  <2>3. heldPaste' \in Held /\ heldPaste' # None
    BY <1>4, <2>2, PasteAssumption DEF PressPaste
  <2> QED
    BY <1>4, <2>3 DEF PressPaste, HeldOK
<1>5. CASE ReleaseV
  BY <1>5, <1>0 DEF ReleaseV, HeldOK
<1>6. CASE Blur
  BY <1>6, <1>0 DEF Blur, ReleaseAllModifiers, HeldOK
<1>7. CASE Shortcut
  BY <1>7, <1>0 DEF Shortcut, ReleaseAllModifiers, HeldOK
<1>8. CASE PasteEvent
  <2>1. heldPaste \in Held /\ hostClip \in Contents /\ heldPaste # None
    BY <1>8, <1>0, PasteAssumption DEF PasteEvent, HeldOK, DataOK
  <2>2. [heldPaste EXCEPT !.want = {hostClip}] \in Held
    BY <2>1, NewerType
  <2>3. [heldPaste EXCEPT !.want = {hostClip}] # None
    BY <2>2, PasteAssumption
  <2>4. CASE SendHeldPaste("known", IF up /\ clipChannelReady THEN {hostClip} ELSE {})
    BY <1>8, <2>4 DEF PasteEvent, SendHeldPaste, HeldOK
  <2>5. CASE heldPaste' = [heldPaste EXCEPT !.want = {hostClip}]
    BY <1>8, <2>1, <2>2, <2>3, <2>5, PasteAssumption DEF PasteEvent, SendHeldPaste, Advertise,
       HeldOK
  <2> QED
    BY <1>8, <2>4, <2>5 DEF PasteEvent
<1>9. CASE NoPasteEvent
  BY <1>9, <1>0 DEF NoPasteEvent, HeldOK
<1>10. CASE FileRead
  BY <1>10, <1>0, PasteAssumption DEF FileRead, SendHeldPaste, Advertise, HeldOK
<1>11. CASE ReplayTimer
  BY <1>11, <1>0, PasteAssumption DEF ReplayTimer, SendHeldPaste, HeldOK
<1>12. CASE CheckHostClipboard
  BY <1>12, <1>0 DEF CheckHostClipboard, HeldOK
<1>13. CASE HostClipboardRead
  <2>1. heldPaste # None => heldPaste \in Held
    BY <1>0 DEF HeldOK
  <2>2. hostClip \in Contents
    BY <1>0 DEF DataOK
  <2>3. CASE heldPaste = None
    BY <1>13, <1>0, <2>3 DEF HostClipboardRead, Advertise, HeldOK
  <2>4. CASE heldPaste # None
    <3>1. [heldPaste EXCEPT !.want = Newer(@, hostClip)] \in Held
      BY <2>1, <2>2, <2>4, NewerType
    <3>2. heldPaste' \in Held /\ heldPaste' # None
      BY <1>13, <2>1, <2>4, <3>1, PasteAssumption DEF HostClipboardRead
    <3> QED
      BY <1>13, <1>0, <2>4, <3>2 DEF HostClipboardRead, Advertise, HeldOK
  <2> QED
    BY <2>3, <2>4
<1>14. CASE FormatListAck
  BY <1>14, <1>0, PasteAssumption DEF FormatListAck, SendHeldPaste, HeldOK
<1>15. ASSUME NEW f \in Files, DropFile(f) PROVE HeldOK'
  BY <1>15, <1>0 DEF DropFile, HeldOK
<1>16. CASE Connected
  BY <1>16, <1>0, PasteAssumption DEF Connected, HeldOK
<1>17. CASE ChannelOpens
  BY <1>17, <1>0 DEF ChannelOpens, HeldOK
<1>18. CASE Lost
  BY <1>18, <1>0 DEF Lost, HeldOK
<1>19. CASE RemoteHandlesList
  BY <1>19, <1>0 DEF RemoteHandlesList, HeldOK
<1>20. CASE RemoteHandlesKey
  BY <1>20, <1>0 DEF RemoteHandlesKey, HeldOK
<1>21. CASE UNCHANGED vars
  BY <1>21, <1>0 DEF vars, HeldOK
<1> QED
  BY <1>1, <1>2, <1>3, <1>4, <1>5, <1>6, <1>7, <1>8, <1>9, <1>10, <1>11, <1>12, <1>13, <1>14,
     <1>15, <1>16, <1>17, <1>18, <1>19, <1>20, <1>21 DEF Next

LEMMA KeysStep == TypeOK /\ [Next]_vars => KeysOK'
<1> SUFFICES ASSUME TypeOK, [Next]_vars PROVE KeysOK'
  OBVIOUS
<1>0. FlagsOK /\ HeldOK /\ KeysOK /\ ListsOK /\ DataOK
  BY TypeParts
<1>x. {"known", "readFailed", "timer", "ack", "nextPress"} \subseteq Causes
  BY DEF Causes
<1> USE DEF keyVars, heldVars, advertVars, readVars, linkVars, remoteVars, Idle
<1>1. ASSUME NEW c \in Contents, HostCopy(c) PROVE KeysOK'
  BY <1>1, <1>0 DEF HostCopy, KeysOK
<1>2. ASSUME NEW down \in BOOLEAN, CtrlKey(down) PROVE KeysOK'
  BY <1>2, <1>0, AppendType DEF CtrlKey, KeysOK
<1>3. CASE TypeV
  BY <1>3, <1>0, AppendType DEF TypeV, KeysOK
<1>4. CASE PressPaste
  <2>1. heldPaste # None => heldPaste.want \in SUBSET Contents
    BY WantType DEF WantOf
  <2> QED
    BY <1>4, <1>0, <1>x, <2>1, HeldKeysAre DEF PressPaste, KeysOK
<1>5. CASE ReleaseV
  BY <1>5, <1>0, AppendType DEF ReleaseV, KeysOK
<1>6. CASE Blur
  BY <1>6, <1>0, AppendType DEF Blur, ReleaseAllModifiers, KeysOK
<1>7. CASE Shortcut
  BY <1>7, <1>0, AppendType DEF Shortcut, ReleaseAllModifiers, KeysOK
<1>8. CASE PasteEvent
  BY <1>8, <1>0, <1>x, SendKeys, RefreshedIs DEF PasteEvent, KeysOK, DataOK
<1>9. CASE NoPasteEvent
  BY <1>9, <1>0 DEF NoPasteEvent, KeysOK
<1>10. CASE FileRead
  BY <1>10, <1>0, <1>x, SendKeys, WantType DEF FileRead, KeysOK
<1>11. CASE ReplayTimer
  BY <1>11, <1>0, <1>x, SendKeys, WantType DEF ReplayTimer, KeysOK
<1>12. CASE CheckHostClipboard
  BY <1>12, <1>0 DEF CheckHostClipboard, KeysOK
<1>13. CASE HostClipboardRead
  BY <1>13, <1>0, RefreshedIs DEF HostClipboardRead, KeysOK, DataOK
<1>14. CASE FormatListAck
  BY <1>14, <1>0, <1>x, SendKeys, WantType DEF FormatListAck, KeysOK
<1>15. ASSUME NEW f \in Files, DropFile(f) PROVE KeysOK'
  BY <1>15, <1>0 DEF DropFile, KeysOK
<1>16. CASE Connected
  BY <1>16, <1>0 DEF Connected, KeysOK
<1>17. CASE ChannelOpens
  BY <1>17, <1>0 DEF ChannelOpens, KeysOK
<1>18. CASE Lost
  BY <1>18 DEF Lost, KeysOK
<1>19. CASE RemoteHandlesList
  BY <1>19, <1>0 DEF RemoteHandlesList, KeysOK
<1>20. CASE RemoteHandlesKey
  BY <1>20, <1>0 DEF RemoteHandlesKey, KeysOK
<1>21. CASE UNCHANGED vars
  BY <1>21, <1>0 DEF vars, KeysOK
<1> QED
  BY <1>1, <1>2, <1>3, <1>4, <1>5, <1>6, <1>7, <1>8, <1>9, <1>10, <1>11, <1>12, <1>13, <1>14,
     <1>15, <1>16, <1>17, <1>18, <1>19, <1>20, <1>21 DEF Next

LEMMA ListsStep == TypeOK /\ [Next]_vars => ListsOK'
<1> SUFFICES ASSUME TypeOK, [Next]_vars PROVE ListsOK'
  OBVIOUS
<1>0. FlagsOK /\ HeldOK /\ KeysOK /\ ListsOK /\ DataOK
  BY TypeParts
<1> USE DEF keyVars, heldVars, advertVars, readVars, linkVars, remoteVars, Idle
<1>1. ASSUME NEW c \in Contents, HostCopy(c) PROVE ListsOK'
  BY <1>1, <1>0 DEF HostCopy, ListsOK
<1>2. ASSUME NEW down \in BOOLEAN, CtrlKey(down) PROVE ListsOK'
  BY <1>2, <1>0 DEF CtrlKey, ListsOK
<1>3. CASE TypeV
  BY <1>3, <1>0 DEF TypeV, ListsOK
<1>4. CASE PressPaste
  BY <1>4, <1>0 DEF PressPaste, ListsOK
<1>5. CASE ReleaseV
  BY <1>5, <1>0 DEF ReleaseV, ListsOK
<1>6. CASE Blur
  BY <1>6, <1>0 DEF Blur, ReleaseAllModifiers, ListsOK
<1>7. CASE Shortcut
  BY <1>7, <1>0 DEF Shortcut, ReleaseAllModifiers, ListsOK
<1>8. CASE PasteEvent
  BY <1>8, <1>0 DEF PasteEvent, Advertise, SetPending, ListsOK, Formats, FormatOf
<1>9. CASE NoPasteEvent
  BY <1>9, <1>0 DEF NoPasteEvent, ListsOK
<1>10. CASE FileRead
  <2>1. UNCHANGED advertVars \/ Advertise(filePaste)
    BY <1>10 DEF FileRead
  <2>2. UNCHANGED answers
    BY <1>10 DEF FileRead
  <2> QED
    BY <1>0, <2>1, <2>2 DEF ListsOK, Advertise, SetPending, Formats, FormatOf
<1>11. CASE ReplayTimer
  BY <1>11, <1>0 DEF ReplayTimer, ListsOK
<1>12. CASE CheckHostClipboard
  BY <1>12, <1>0 DEF CheckHostClipboard, ListsOK
<1>13. CASE HostClipboardRead
  BY <1>13, <1>0 DEF HostClipboardRead, Advertise, SetPending, ListsOK, Formats, FormatOf
<1>14. CASE FormatListAck
  <2>1. answers > 0 /\ answers' = answers - 1 /\ UNCHANGED lists
    BY <1>14 DEF FormatListAck
  <2> QED
    BY <1>0, <2>1 DEF ListsOK
<1>15. ASSUME NEW f \in Files, DropFile(f) PROVE ListsOK'
  BY <1>15, <1>0 DEF DropFile, SetPending, ListsOK, Formats, FormatOf
<1>16. CASE Connected
  BY <1>16, <1>0 DEF Connected, ListsOK
<1>17. CASE ChannelOpens
  BY <1>17, <1>0 DEF ChannelOpens, ListsOK, Formats, FormatOf
<1>18. CASE Lost
  BY <1>18, <1>0 DEF Lost, ListsOK
<1>19. CASE RemoteHandlesList
  BY <1>19, <1>0 DEF RemoteHandlesList, ListsOK
<1>20. CASE RemoteHandlesKey
  BY <1>20, <1>0 DEF RemoteHandlesKey, ListsOK
<1>21. CASE UNCHANGED vars
  BY <1>21, <1>0 DEF vars, ListsOK
<1> QED
  BY <1>1, <1>2, <1>3, <1>4, <1>5, <1>6, <1>7, <1>8, <1>9, <1>10, <1>11, <1>12, <1>13, <1>14,
     <1>15, <1>16, <1>17, <1>18, <1>19, <1>20, <1>21 DEF Next

LEMMA DataStep == TypeOK /\ [Next]_vars => DataOK'
<1> SUFFICES ASSUME TypeOK, [Next]_vars PROVE DataOK'
  OBVIOUS
<1>0. FlagsOK /\ HeldOK /\ KeysOK /\ ListsOK /\ DataOK
  BY TypeParts
<1> USE DEF keyVars, heldVars, advertVars, readVars, linkVars, remoteVars, Idle
<1>1. ASSUME NEW c \in Contents, HostCopy(c) PROVE DataOK'
  BY <1>1, <1>0 DEF HostCopy, DataOK
<1>2. ASSUME NEW down \in BOOLEAN, CtrlKey(down) PROVE DataOK'
  BY <1>2, <1>0 DEF CtrlKey, DataOK
<1>3. CASE TypeV
  BY <1>3, <1>0 DEF TypeV, DataOK
<1>4. CASE PressPaste
  BY <1>4, <1>0 DEF PressPaste, DataOK
<1>5. CASE ReleaseV
  BY <1>5, <1>0 DEF ReleaseV, DataOK
<1>6. CASE Blur
  BY <1>6, <1>0 DEF Blur, ReleaseAllModifiers, DataOK
<1>7. CASE Shortcut
  BY <1>7, <1>0 DEF Shortcut, ReleaseAllModifiers, DataOK
<1>8. CASE PasteEvent
  <2>1. UNCHANGED advertVars \/ (hostClip \in Texts /\ Advertise(hostClip))
    BY <1>8 DEF PasteEvent
  <2>2. filePaste' \in {filePaste} \cup Files /\ syncedHostFp' \in {syncedHostFp, hostClip}
    BY <1>8 DEF PasteEvent
  <2>3. UNCHANGED <<hostClip, remoteVars>>
    BY <1>8 DEF PasteEvent
  <2> QED
    BY <1>0, <2>1, <2>2, <2>3 DEF DataOK, Advertise, SetPending
<1>9. CASE NoPasteEvent
  BY <1>9, <1>0 DEF NoPasteEvent, DataOK
<1>10. CASE FileRead
  <2>1. UNCHANGED advertVars \/ Advertise(filePaste)
    BY <1>10 DEF FileRead
  <2>2. filePaste # None /\ filePaste' = None /\ UNCHANGED <<syncedHostFp, hostClip, remoteVars>>
    BY <1>10 DEF FileRead
  <2>3. filePaste \in Files /\ filePaste \notin Texts
    BY <1>0, <2>2, PasteAssumption DEF DataOK
  <2>4. CASE UNCHANGED advertVars
    BY <1>0, <2>2, <2>4 DEF DataOK
  <2>5. CASE Advertise(filePaste)
    BY <1>0, <2>2, <2>3, <2>5 DEF DataOK, Advertise, SetPending
  <2> QED
    BY <2>1, <2>4, <2>5
<1>11. CASE ReplayTimer
  BY <1>11, <1>0 DEF ReplayTimer, SendHeldPaste, DataOK
<1>12. CASE CheckHostClipboard
  BY <1>12, <1>0 DEF CheckHostClipboard, DataOK
<1>13. CASE HostClipboardRead
  <2>1. UNCHANGED advertVars \/ (hostClip \in Texts /\ Advertise(hostClip))
    BY <1>13 DEF HostClipboardRead
  <2>2. syncedHostFp' \in {syncedHostFp, hostClip} /\ UNCHANGED <<filePaste, hostClip, remoteVars>>
    BY <1>13 DEF HostClipboardRead
  <2>3. CASE UNCHANGED advertVars
    BY <1>0, <2>2, <2>3 DEF DataOK
  <2>4. CASE hostClip \in Texts /\ Advertise(hostClip)
    BY <1>0, <2>2, <2>4 DEF DataOK, Advertise, SetPending
  <2> QED
    BY <2>1, <2>3, <2>4
<1>14. CASE FormatListAck
  <2>1. /\ advertsInFlight' = IF advertsInFlight = 0 THEN 0 ELSE advertsInFlight - 1
        /\ UNCHANGED <<syncedHostFp, pendingText, pendingFile, filePaste, remoteVars, hostClip>>
    BY <1>14 DEF FormatListAck
  <2> QED
    BY <1>0, <2>1 DEF DataOK
<1>15. ASSUME NEW f \in Files, DropFile(f) PROVE DataOK'
  BY <1>15, <1>0, PasteAssumption DEF DropFile, SetPending, DataOK, Contents
<1>16. CASE Connected
  BY <1>16, <1>0 DEF Connected, DataOK
<1>17. CASE ChannelOpens
  BY <1>17, <1>0 DEF ChannelOpens, DataOK
<1>18. CASE Lost
  BY <1>18, <1>0 DEF Lost, DataOK
<1>19. CASE RemoteHandlesList
  <2>1. Head(lists) \in Formats \cup {"empty"}
    BY <1>19, <1>0 DEF RemoteHandlesList, ListsOK
  <2>2. remoteClip' \in Contents \cup Formats \cup {Own, None}
    BY <1>19, <1>0, <2>1 DEF RemoteHandlesList, DataOK
  <2> QED
    BY <1>19, <1>0, <2>2 DEF RemoteHandlesList, DataOK
<1>20. CASE RemoteHandlesKey
  <2>1. Rendered \in Contents \cup Formats \cup {Own, None}
    BY <1>0 DEF Rendered, DataOK, Contents
  <2>2. remoteClip' \in {remoteClip, Rendered}
    BY <1>20 DEF RemoteHandlesKey
  <2> QED
    BY <1>20, <1>0, <2>1, <2>2 DEF RemoteHandlesKey, DataOK
<1>21. CASE UNCHANGED vars
  BY <1>21, <1>0 DEF vars, DataOK
<1> QED
  BY <1>1, <1>2, <1>3, <1>4, <1>5, <1>6, <1>7, <1>8, <1>9, <1>10, <1>11, <1>12, <1>13, <1>14,
     <1>15, <1>16, <1>17, <1>18, <1>19, <1>20, <1>21 DEF Next

LEMMA TypeStep == TypeOK /\ [Next]_vars => TypeOK'
BY TypeParts, FlagsStep, HeldStep, KeysStep, ListsStep, DataStep DEF TypeOK, FlagsOK, HeldOK,
   KeysOK,
   ListsOK, DataOK

\* Every variable of the page, of the link and of the remote keeps its type: in particular
\* a paste event always finds a held key, and a timer never runs without one.
THEOREM PasteTypes == Spec => []TypeOK
BY TypeInit, TypeStep, PTL DEF Spec

-----------------------------------------------------------------------------
(***************************************************************************)
(* What the page takes as known.  A text becomes known in the step that    *)
(* advertises it, and from then on a Format List that offers something is  *)
(* on its way, or the remote's clipboard is no longer its own.             *)
(***************************************************************************)
SomeFormat(ls) == \E i \in 1..Len(ls) : ls[i] # "empty"

Told == up /\ syncedHostFp \in Texts => remoteClip # Own \/ SomeFormat(lists)

LEMMA SomeAppend ==
  ASSUME NEW S, NEW ls \in Seq(S), NEW x \in S
  PROVE  SomeFormat(Append(ls, x)) <=> SomeFormat(ls) \/ x # "empty"
<1>1. /\ Len(Append(ls, x)) = Len(ls) + 1 /\ Append(ls, x)[Len(ls) + 1] = x
      /\ \A i \in 1..Len(ls) : Append(ls, x)[i] = ls[i]
  OBVIOUS
<1>2. Len(ls) \in Nat
  OBVIOUS
<1> QED
  BY <1>1, <1>2 DEF SomeFormat

LEMMA SomeTail ==
  ASSUME NEW S, NEW ls \in Seq(S), ls # << >>, SomeFormat(ls)
  PROVE  Head(ls) # "empty" \/ SomeFormat(Tail(ls))
<1>1. PICK i \in 1..Len(ls) : ls[i] # "empty"
  BY DEF SomeFormat
<1>2. CASE i = 1
  BY <1>1, <1>2
<1>3. CASE i > 1
  <2>1. i - 1 \in 1..Len(Tail(ls)) /\ Tail(ls)[i - 1] = ls[i]
    BY <1>3
  <2> QED
    BY <1>1, <2>1 DEF SomeFormat
<1> QED
  BY <1>2, <1>3

LEMMA AdvertiseTold ==
  ASSUME TypeOK, NEW c \in Contents, Advertise(c)
  PROVE  SomeFormat(lists')
<1>1. lists \in Seq(Formats \cup {"empty"}) /\ FormatOf(c) \in Formats \cup {"empty"} /\ FormatOf(c) # "empty"
  BY DEF TypeOK, FormatOf, Formats
<1>2. lists' = Append(lists, FormatOf(c))
  BY DEF Advertise, SetPending
<1> QED
  BY <1>1, <1>2, SomeAppend

LEMMA ToldStep == TypeOK /\ Told /\ [Next]_vars => Told'
<1> SUFFICES ASSUME TypeOK, Told, [Next]_vars PROVE Told'
  OBVIOUS
<1>0. /\ lists \in Seq(Formats \cup {"empty"}) /\ Formats = {"text", "file"}
      /\ remoteClip \in Contents \cup Formats \cup {Own, None}
      /\ pendingText \in Texts \cup {None} /\ pendingFile \in Files \cup {None}
      /\ hostClip \in Contents /\ filePaste \in Files \cup {None}
  BY DEF TypeOK, Formats
<1> USE DEF keyVars, heldVars, readVars, linkVars, remoteVars, Idle
<1>1. ASSUME NEW c \in Contents, HostCopy(c) PROVE Told'
  BY <1>1, PasteAssumption DEF HostCopy, Told, advertVars
<1>2. ASSUME NEW down \in BOOLEAN, CtrlKey(down) PROVE Told'
  BY <1>2, PasteAssumption DEF CtrlKey, Told, advertVars
<1>3. CASE TypeV
  BY <1>3, PasteAssumption DEF TypeV, Told, advertVars
<1>4. CASE PressPaste
  BY <1>4, PasteAssumption DEF PressPaste, Told, advertVars
<1>5. CASE ReleaseV
  BY <1>5, PasteAssumption DEF ReleaseV, Told, advertVars
<1>6. CASE Blur
  BY <1>6, PasteAssumption DEF Blur, ReleaseAllModifiers, Told, advertVars
<1>7. CASE Shortcut
  BY <1>7, PasteAssumption DEF Shortcut, ReleaseAllModifiers, Told, advertVars
<1>8. CASE PasteEvent
  <2>1. UNCHANGED <<up, remoteClip>>
    BY <1>8 DEF PasteEvent
  <2>2. CASE UNCHANGED <<syncedHostFp, advertVars>>
    BY <2>1, <2>2 DEF Told, advertVars
  <2>3. CASE Advertise(hostClip)
    BY <1>0, <2>3, AdvertiseTold DEF Told
  <2>4. CASE syncedHostFp' \in Files
    BY <2>4, PasteAssumption DEF Told
  <2> QED
    BY <1>8, <2>2, <2>3, <2>4 DEF PasteEvent
<1>9. CASE NoPasteEvent
  BY <1>9, PasteAssumption DEF NoPasteEvent, Told, advertVars
<1>10. CASE FileRead
  <2>1. UNCHANGED <<up, syncedHostFp, remoteClip>> /\ filePaste # None
    BY <1>10 DEF FileRead
  <2>2. CASE UNCHANGED advertVars
    BY <2>1, <2>2 DEF Told, advertVars
  <2>3. CASE Advertise(filePaste)
    BY <1>0, <2>1, <2>3, AdvertiseTold DEF Told, Contents
  <2> QED
    BY <1>10, <2>2, <2>3 DEF FileRead
<1>11. CASE ReplayTimer
  BY <1>11, PasteAssumption DEF ReplayTimer, Told, advertVars
<1>12. CASE CheckHostClipboard
  BY <1>12, PasteAssumption DEF CheckHostClipboard, Told, advertVars
<1>13. CASE HostClipboardRead
  <2>1. UNCHANGED <<up, remoteClip>>
    BY <1>13 DEF HostClipboardRead
  <2>2. CASE UNCHANGED <<syncedHostFp, advertVars>>
    BY <2>1, <2>2 DEF Told, advertVars
  <2>3. CASE Advertise(hostClip)
    BY <1>0, <2>3, AdvertiseTold DEF Told
  <2> QED
    BY <1>13, <2>2, <2>3 DEF HostClipboardRead
<1>14. CASE FormatListAck
  BY <1>14, PasteAssumption DEF FormatListAck, Told, advertVars
<1>15. ASSUME NEW f \in Files, DropFile(f) PROVE Told'
  <2>1. lists' = Append(lists, "file") /\ UNCHANGED <<up, remoteClip, syncedHostFp>>
    BY <1>15, PasteAssumption DEF DropFile, SetPending, FormatOf
  <2> QED
    BY <1>0, <2>1, SomeAppend DEF Told
<1>16. CASE Connected
  BY <1>16, PasteAssumption DEF Connected, Told, Contents
<1>17. CASE ChannelOpens
  <2>1. UNCHANGED <<up, syncedHostFp, remoteClip>>
    BY <1>17 DEF ChannelOpens
  <2>2. CASE lists' = Append(lists, "text")
    BY <1>0, <2>1, <2>2, SomeAppend DEF Told
  <2>3. CASE lists' = Append(lists, "empty")
    BY <1>0, <2>1, <2>3, SomeAppend DEF Told
  <2> QED
    BY <1>17, <2>2, <2>3 DEF ChannelOpens
<1>18. CASE Lost
  BY <1>18, PasteAssumption DEF Lost, Told, advertVars
<1>19. CASE RemoteHandlesList
  <2>1. Head(lists) \in {"text", "file", "empty"} /\ lists # << >>
    BY <1>19, <1>0 DEF RemoteHandlesList
  <2>2. UNCHANGED <<up, syncedHostFp>> /\ lists' = Tail(lists)
        /\ remoteClip' = IF Head(lists) = "empty" THEN remoteClip ELSE Head(lists)
    BY <1>19 DEF RemoteHandlesList
  <2>3. Head(lists) # "empty" => remoteClip' # Own
    BY <2>1, <2>2, PasteAssumption
  <2>4. SomeFormat(lists) => Head(lists) # "empty" \/ SomeFormat(lists')
    BY <1>0, <2>1, <2>2, SomeTail
  <2> QED
    BY <2>2, <2>3, <2>4 DEF Told
<1>20. CASE RemoteHandlesKey
  <2>1. remoteClip # Own => Rendered # Own
    BY <1>0, PasteAssumption DEF Rendered, Contents
  <2>2. UNCHANGED <<up, syncedHostFp, lists>> /\ remoteClip' \in {remoteClip, Rendered}
    BY <1>20 DEF RemoteHandlesKey, advertVars
  <2> QED
    BY <2>1, <2>2 DEF Told
<1>21. CASE UNCHANGED vars
  BY <1>21, PasteAssumption DEF vars, Told, advertVars
<1> QED
  BY <1>1, <1>2, <1>3, <1>4, <1>5, <1>6, <1>7, <1>8, <1>9, <1>10, <1>11, <1>12, <1>13, <1>14,
     <1>15, <1>16, <1>17, <1>18, <1>19, <1>20, <1>21 DEF Next

LEMMA ToldImplies == TypeOK /\ Told => SyncedIsTold
<1> SUFFICES ASSUME TypeOK, SomeFormat(lists) PROVE lists # << >>
  BY DEF Told, SyncedIsTold
<1> QED
  BY DEF SomeFormat, TypeOK

\* A text the page takes as known to the session has been advertised in it, over lost
\* sessions, reads that span them, and dropped files.
THEOREM KnownIsTold == Spec => []SyncedIsTold
<1>1. Init => TypeOK /\ Told
  BY TypeInit, PasteAssumption DEF Init, Told
<1>2. TypeOK /\ Told /\ [Next]_vars => TypeOK' /\ Told'
  BY TypeStep, ToldStep
<1> QED
  BY <1>1, <1>2, ToldImplies, PTL DEF Spec

-----------------------------------------------------------------------------
(***************************************************************************)
(* Modifiers.  Keys arrive in order, so whether Ctrl is down when a key    *)
(* arrives is decided by the Ctrl events ahead of it.  The page's keysDown *)
(* is what the remote will have when it has handled every key on its way.  *)
(***************************************************************************)
IsCtrl(k) == k.code = "Ctrl"

\* Is Ctrl down at the remote when it has handled the first n of the keys ks?
DownAt(ks, rc, n) ==
  \/ rc /\ \A i \in 1..n : ~IsCtrl(ks[i])
  \/ \E j \in 1..n : /\ IsCtrl(ks[j]) /\ ks[j].down
                     /\ \A i \in (j + 1)..n : ~IsCtrl(ks[i])

Arrives(ks, rc) == \A i \in 1..Len(ks) : ks[i].mod => DownAt(ks, rc, i - 1)

LEMMA DownSame ==
  ASSUME NEW ks, NEW ls, NEW rc, NEW m \in Nat, NEW n \in 0..m,
         \A i \in 1..m : ls[i].code = ks[i].code /\ ls[i].down = ks[i].down,
         DownAt(ks, rc, n)
  PROVE  DownAt(ls, rc, n)
<1>1. \A i \in 1..n : i \in 1..m
  OBVIOUS
<1>2. CASE rc /\ \A i \in 1..n : ~IsCtrl(ks[i])
  BY <1>1, <1>2 DEF DownAt, IsCtrl
<1>3. ASSUME NEW j \in 1..n, IsCtrl(ks[j]), ks[j].down, \A i \in (j + 1)..n : ~IsCtrl(ks[i])
      PROVE  DownAt(ls, rc, n)
  <2>1. \A i \in (j + 1)..n : i \in 1..m
    OBVIOUS
  <2>2. \A i \in (j + 1)..n : ~IsCtrl(ls[i])
    BY <1>3, <2>1 DEF IsCtrl
  <2>3. IsCtrl(ls[j]) /\ ls[j].down
    BY <1>1, <1>3 DEF IsCtrl
  <2> QED
    BY <2>2, <2>3 DEF DownAt
<1> QED
  BY <1>2, <1>3 DEF DownAt

LEMMA DownAppend ==
  ASSUME NEW ks \in Seq(KeyEvents), NEW k \in KeyEvents, NEW rc
  PROVE  /\ \A n \in 0..Len(ks) : DownAt(ks, rc, n) => DownAt(Append(ks, k), rc, n)
         /\ (IF IsCtrl(k) THEN k.down ELSE DownAt(ks, rc, Len(ks)))
              => DownAt(Append(ks, k), rc, Len(Append(ks, k)))
         /\ Arrives(ks, rc) /\ (k.mod => DownAt(ks, rc, Len(ks))) => Arrives(Append(ks, k), rc)
<1> DEFINE as == Append(ks, k)
<1>1. /\ Len(ks) \in Nat /\ Len(as) = Len(ks) + 1 /\ as[Len(ks) + 1] = k
      /\ \A i \in 1..Len(ks) : as[i] = ks[i]
  OBVIOUS
<1> HIDE DEF as
<1>2. ASSUME NEW n \in 0..Len(ks), DownAt(ks, rc, n) PROVE DownAt(as, rc, n)
  BY <1>1, <1>2, DownSame
<1>3. ASSUME IsCtrl(k), k.down PROVE DownAt(as, rc, Len(as))
  <2>1. \A i \in (Len(as) + 1)..Len(as) : ~IsCtrl(as[i])
    BY <1>1
  <2>2. Len(as) \in 1..Len(as) /\ as[Len(as)] = k
    BY <1>1
  <2> QED
    BY <1>3, <2>1, <2>2 DEF DownAt
<1>4. ASSUME ~IsCtrl(k), DownAt(ks, rc, Len(ks)) PROVE DownAt(as, rc, Len(as))
  <2>0. Len(ks) \in 0..Len(ks) /\ \A i \in 1..Len(as) : i \in 1..Len(ks) \/ i = Len(ks) + 1
    BY <1>1
  <2>1. DownAt(as, rc, Len(ks))
    BY <1>2, <1>4, <2>0
  <2>2. \A i \in 1..Len(as) : i \in 1..Len(ks) \/ ~IsCtrl(as[i])
    BY <1>1, <1>4, <2>0
  <2>3. CASE rc /\ \A i \in 1..Len(ks) : ~IsCtrl(as[i])
    BY <2>2, <2>3 DEF DownAt
  <2>4. ASSUME NEW j \in 1..Len(ks), IsCtrl(as[j]), as[j].down,
               \A i \in (j + 1)..Len(ks) : ~IsCtrl(as[i])
        PROVE  DownAt(as, rc, Len(as))
    <3>1. j \in 1..Len(as)
      BY <1>1
    <3>2. \A i \in (j + 1)..Len(as) : i \in (j + 1)..Len(ks) \/ i = Len(ks) + 1
      BY <1>1
    <3>3. \A i \in (j + 1)..Len(as) : ~IsCtrl(as[i])
      BY <1>1, <1>4, <2>4, <3>2
    <3> QED
      BY <2>4, <3>1, <3>3 DEF DownAt
  <2> QED
    BY <2>1, <2>3, <2>4 DEF DownAt
<1>5. ASSUME Arrives(ks, rc), k.mod => DownAt(ks, rc, Len(ks)) PROVE Arrives(as, rc)
  <2> SUFFICES ASSUME NEW i \in 1..Len(as), as[i].mod PROVE DownAt(as, rc, i - 1)
    BY DEF Arrives
  <2>1. i - 1 \in 0..Len(ks)
    BY <1>1
  <2>2. CASE i = Len(as)
    <3>0. i = Len(ks) + 1 /\ i - 1 = Len(ks)
      BY <1>1, <2>2
    <3>1. as[i] = k
      BY <1>1, <3>0
    <3>2. k.mod
      BY <3>1
    <3>3. DownAt(ks, rc, Len(ks))
      BY <1>5, <3>2
    <3> QED
      BY <1>2, <2>1, <3>0, <3>3
  <2>3. CASE i \in 1..Len(ks)
    <3>1. as[i] = ks[i]
      BY <1>1, <2>3
    <3>2. DownAt(ks, rc, i - 1)
      BY <1>5, <2>3, <3>1 DEF Arrives
    <3> QED
      BY <1>2, <2>1, <3>2
  <2>4. i = Len(as) \/ i \in 1..Len(ks)
    BY <1>1
  <2> QED
    BY <2>2, <2>3, <2>4
<1> QED
  BY <1>2, <1>3, <1>4, <1>5 DEF as

LEMMA DownTail ==
  ASSUME NEW ks \in Seq(KeyEvents), ks # << >>, NEW rc, NEW rd,
         rd = IF IsCtrl(Head(ks)) THEN Head(ks).down ELSE rc
  PROVE  /\ \A n \in 1..Len(ks) : DownAt(ks, rc, n) => DownAt(Tail(ks), rd, n - 1)
         /\ Arrives(ks, rc) => Arrives(Tail(ks), rd)
<1> DEFINE ts == Tail(ks)
<1>1. /\ Len(ks) \in Nat \ {0} /\ Len(ts) = Len(ks) - 1 /\ Head(ks) = ks[1]
      /\ \A i \in 1..Len(ts) : ts[i] = ks[i + 1]
  OBVIOUS
<1> HIDE DEF ts
<1>2. ASSUME NEW n \in 1..Len(ks), DownAt(ks, rc, n) PROVE DownAt(ts, rd, n - 1)
  <2>1. \A i \in 1..(n - 1) : i \in 1..Len(ts) /\ ts[i] = ks[i + 1] /\ i + 1 \in 1..n
    BY <1>1
  <2>2. CASE rc /\ \A i \in 1..n : ~IsCtrl(ks[i])
    <3>1. rd
      BY <1>1, <2>2
    <3> QED
      BY <2>1, <2>2, <3>1 DEF DownAt
  <2>3. ASSUME NEW j \in 1..n, IsCtrl(ks[j]), ks[j].down, \A i \in (j + 1)..n : ~IsCtrl(ks[i])
        PROVE  DownAt(ts, rd, n - 1)
    <3>1. CASE j = 1
      <4>1. rd
        BY <1>1, <2>3, <3>1
      <4>2. \A i \in 1..(n - 1) : i + 1 \in (j + 1)..n
        BY <3>1
      <4> QED
        BY <2>1, <2>3, <4>1, <4>2 DEF DownAt
    <3>2. CASE j > 1
      <4>1. j - 1 \in 1..(n - 1) /\ ts[j - 1] = ks[j]
        BY <2>1, <3>2
      <4>2. \A i \in ((j - 1) + 1)..(n - 1) : i \in 1..(n - 1) /\ i + 1 \in (j + 1)..n
        BY <3>2
      <4>3. \A i \in ((j - 1) + 1)..(n - 1) : ~IsCtrl(ts[i])
        BY <2>1, <2>3, <4>2
      <4> QED
        BY <2>3, <4>1, <4>3 DEF DownAt
    <3> QED
      BY <3>1, <3>2
  <2> QED
    BY <1>2, <2>2, <2>3 DEF DownAt
<1>3. ASSUME Arrives(ks, rc) PROVE Arrives(ts, rd)
  <2> SUFFICES ASSUME NEW i \in 1..Len(ts), ts[i].mod PROVE DownAt(ts, rd, i - 1)
    BY DEF Arrives
  <2>1. i + 1 \in 1..Len(ks) /\ ks[i + 1].mod /\ i \in 1..Len(ks) /\ (i + 1) - 1 = i
    BY <1>1
  <2> QED
    BY <1>2, <1>3, <2>1 DEF Arrives
<1> QED
  BY <1>2, <1>3 DEF ts

ModInv ==
  /\ Arrives(keys, remoteCtrl)
  /\ up /\ keysDown => DownAt(keys, remoteCtrl, Len(keys))
  /\ ~up => keys = << >>
  /\ HeldModifierArrives

\* The part of it about the keys and the page's view of Ctrl.
ModKeys(ks, rc, down) == Arrives(ks, rc) /\ (down => DownAt(ks, rc, Len(ks)))

LEMMA KeyFields ==
  /\ \A down \in BOOLEAN : /\ IsCtrl(Key("Ctrl", down)) /\ Key("Ctrl", down).down = down
                           /\ ~Key("Ctrl", down).mod
                           /\ ~IsCtrl(Key("V", down)) /\ ~Key("V", down).mod
  /\ \A cause \in Causes, want \in SUBSET Contents :
       ~IsCtrl(HeldV(cause, want)) /\ HeldV(cause, want).mod = heldPaste.ctrl
BY DEF Key, HeldV, IsCtrl

LEMMA AppendCtrl ==
  ASSUME TypeOK, NEW down \in BOOLEAN, NEW rc, Arrives(keys, rc)
  PROVE  ModKeys(Append(keys, Key("Ctrl", down)), rc, down)
<1> DEFINE k == Key("Ctrl", down)
<1>1. keys \in Seq(KeyEvents) /\ k \in KeyEvents /\ IsCtrl(k) /\ k.down = down /\ ~k.mod
  BY KeyType, KeyFields DEF TypeOK
<1> HIDE DEF k
<1>2. Arrives(Append(keys, k), rc)
  BY <1>1, DownAppend
<1>3. down => DownAt(Append(keys, k), rc, Len(Append(keys, k)))
  BY <1>1, DownAppend
<1> QED
  BY <1>2, <1>3 DEF ModKeys, k

LEMMA AppendOther ==
  ASSUME NEW ks \in Seq(KeyEvents), NEW k \in KeyEvents, NEW rc, NEW down \in BOOLEAN,
         ~IsCtrl(k), k.mod => DownAt(ks, rc, Len(ks)), ModKeys(ks, rc, down)
  PROVE  ModKeys(Append(ks, k), rc, down)
<1>1. Arrives(Append(ks, k), rc)
  BY DownAppend DEF ModKeys
<1>2. down => DownAt(Append(ks, k), rc, Len(Append(ks, k)))
  BY DownAppend DEF ModKeys
<1> QED
  BY <1>1, <1>2 DEF ModKeys

LEMMA HeldKeysMod ==
  ASSUME TypeOK, heldPaste # None, NEW cause \in Causes, NEW want \in SUBSET Contents, NEW rc,
         ModKeys(keys, rc, keysDown)
  PROVE  ModKeys(keys \o HeldKeys(cause, want), rc, keysDown)
<1> DEFINE H == HeldV(cause, want)
           V == Key("V", FALSE)
           C == Key("Ctrl", TRUE)
           D == Key("Ctrl", FALSE)
<1>1. /\ H \in KeyEvents /\ ~IsCtrl(H) /\ H.mod = heldPaste.ctrl
      /\ V \in KeyEvents /\ ~IsCtrl(V) /\ ~V.mod
      /\ C \in KeyEvents /\ IsCtrl(C) /\ C.down /\ ~C.mod
      /\ D \in KeyEvents /\ IsCtrl(D) /\ ~D.mod
  BY HeldKeysAre, KeyType, KeyFields
<1>2. keys \in Seq(KeyEvents) /\ keysDown \in BOOLEAN
  BY TypeParts DEF KeysOK, FlagsOK
<1>3. CASE heldPaste.ctrl /\ ~keysDown
  <2>1. keys \o HeldKeys(cause, want) = Append(Append(Append(Append(keys, C), H), V), D)
    BY <1>3, HeldKeysAre
  <2> HIDE DEF H, V, C, D
  <2>2. Append(keys, C) \in Seq(KeyEvents) /\ Append(Append(keys, C), H) \in Seq(KeyEvents)
        /\ Append(Append(Append(keys, C), H), V) \in Seq(KeyEvents)
    BY <1>1, <1>2
  <2>3. Arrives(keys, rc)
    BY DEF ModKeys
  <2>4. ModKeys(Append(keys, C), rc, TRUE)
    BY <2>3, AppendCtrl DEF C
  <2>5. DownAt(Append(keys, C), rc, Len(Append(keys, C)))
    BY <2>4 DEF ModKeys
  <2>6. ModKeys(Append(Append(keys, C), H), rc, TRUE)
    BY <1>1, <2>2, <2>4, <2>5, AppendOther
  <2>7. ModKeys(Append(Append(Append(keys, C), H), V), rc, TRUE)
    BY <1>1, <2>2, <2>6, AppendOther
  <2>8. Arrives(Append(Append(Append(Append(keys, C), H), V), D), rc)
    BY <1>1, <2>2, <2>7, DownAppend DEF ModKeys
  <2> QED
    BY <1>3, <2>1, <2>8 DEF ModKeys
<1>4. CASE ~(heldPaste.ctrl /\ ~keysDown)
  <2>1. keys \o HeldKeys(cause, want) = Append(Append(keys, H), V)
    BY <1>4, HeldKeysAre
  <2> HIDE DEF H, V, C, D
  <2>2. Append(keys, H) \in Seq(KeyEvents)
    BY <1>1, <1>2
  <2>3. H.mod => DownAt(keys, rc, Len(keys))
    BY <1>1, <1>4 DEF ModKeys
  <2>4. ModKeys(Append(keys, H), rc, keysDown)
    BY <1>1, <1>2, <2>3, AppendOther
  <2>5. ModKeys(Append(Append(keys, H), V), rc, keysDown)
    BY <1>1, <1>2, <2>2, <2>4, AppendOther
  <2> QED
    BY <2>1, <2>5
<1> QED
  BY <1>3, <1>4

LEMMA RefreshedMod ==
  ASSUME TypeOK, NEW c \in Contents, NEW rc, NEW down \in BOOLEAN, ModKeys(keys, rc, down)
  PROVE  ModKeys(Refreshed(c), rc, down)
<1> DEFINE rs == Refreshed(c)
<1>1. /\ Len(rs) = Len(keys) /\ Len(keys) \in Nat
      /\ \A i \in 1..Len(keys) : /\ rs[i].code = keys[i].code /\ rs[i].down = keys[i].down
                                /\ rs[i].mod = keys[i].mod
  BY RefreshedIs DEF TypeOK
<1> HIDE DEF rs
<1>2. ASSUME NEW n \in 0..Len(keys), DownAt(keys, rc, n) PROVE DownAt(rs, rc, n)
  BY <1>1, <1>2, DownSame
<1>3. Arrives(rs, rc)
  <2> SUFFICES ASSUME NEW i \in 1..Len(rs), rs[i].mod PROVE DownAt(rs, rc, i - 1)
    BY DEF Arrives
  <2>1. i \in 1..Len(keys) /\ i - 1 \in 0..Len(keys)
    BY <1>1
  <2>2. keys[i].mod
    BY <1>1, <2>1
  <2> QED
    BY <1>2, <2>1, <2>2 DEF ModKeys, Arrives
<1>4. ASSUME down PROVE DownAt(rs, rc, Len(rs))
  <2>1. Len(rs) \in 0..Len(keys) /\ Len(rs) = Len(keys)
    BY <1>1
  <2> QED
    BY <1>2, <1>4, <2>1 DEF ModKeys
<1> QED
  BY <1>3, <1>4 DEF ModKeys, rs

LEMMA SendMod ==
  ASSUME TypeOK, NEW cause \in Causes, NEW want \in SUBSET Contents, SendHeldPaste(cause, want),
         UNCHANGED <<up, keysDown, remoteVars>>, ModInv
  PROVE  ModInv'
<1>1. CASE heldPaste # None /\ up
  <2>1. ModKeys(keys, remoteCtrl, keysDown)
    BY <1>1 DEF ModInv, ModKeys
  <2>2. keys' = keys \o HeldKeys(cause, want)
    BY <1>1 DEF SendHeldPaste
  <2>3. ModKeys(keys', remoteCtrl, keysDown)
    BY <1>1, <2>1, <2>2, HeldKeysMod
  <2> QED
    BY <1>1, <2>3 DEF ModKeys, ModInv, remoteVars, HeldModifierArrives
<1>2. CASE ~(heldPaste # None /\ up)
  BY <1>2 DEF SendHeldPaste, ModInv, remoteVars, HeldModifierArrives
<1> QED
  BY <1>1, <1>2

LEMMA ModInit == Init => ModInv
<1> SUFFICES ASSUME Init PROVE ModInv
  OBVIOUS
<1>1. keys = << >> /\ Len(keys) = 0 /\ keysDown = FALSE /\ pasted.mod = FALSE
  BY DEF Init
<1>2. Arrives(keys, remoteCtrl)
  BY <1>1 DEF Arrives
<1> QED
  BY <1>1, <1>2 DEF ModInv, HeldModifierArrives

LEMMA ModStep == TypeOK /\ ModInv /\ [Next]_vars => ModInv'
<1> SUFFICES ASSUME TypeOK, ModInv, [Next]_vars PROVE ModInv'
  OBVIOUS
<1>a. /\ hostClip \in Contents /\ keys \in Seq(KeyEvents) /\ WantOf(heldPaste) \in SUBSET Contents
      /\ {"known", "readFailed", "timer", "ack", "nextPress"} \subseteq Causes
  BY WantType DEF TypeOK, Causes
<1>b. keysDown \in BOOLEAN /\ up \in BOOLEAN
  BY TypeParts DEF FlagsOK
<1>c. up => ModKeys(keys, remoteCtrl, keysDown)
  BY DEF ModInv, ModKeys
<1>d. ASSUME UNCHANGED <<up, remoteVars>>, up, ModKeys(keys', remoteCtrl, keysDown') PROVE ModInv'
  BY <1>d DEF ModInv, ModKeys, remoteVars, HeldModifierArrives
<1>e. ASSUME UNCHANGED <<up, keysDown, keys, remoteVars>> PROVE ModInv'
  BY <1>e DEF ModInv, remoteVars, HeldModifierArrives
<1>1. ASSUME NEW c \in Contents, HostCopy(c) PROVE ModInv'
  BY <1>1, <1>e DEF HostCopy, keyVars, linkVars
<1>2. ASSUME NEW down \in BOOLEAN, CtrlKey(down) PROVE ModInv'
  <2>1. CASE up
    BY <1>2, <1>c, <1>d, <2>1, AppendCtrl DEF CtrlKey, linkVars, ModKeys
  <2>2. CASE ~up
    BY <1>2, <1>e, <2>2 DEF CtrlKey, linkVars
  <2> QED
    BY <2>1, <2>2
<1>3. CASE TypeV
  <2>1. ModKeys(Append(keys, Key("V", TRUE)), remoteCtrl, keysDown)
    BY <1>3, <1>a, <1>b, <1>c, AppendOther, KeyType, KeyFields DEF TypeV
  <2> QED
    BY <1>3, <1>d, <2>1 DEF TypeV, linkVars
<1>4. CASE PressPaste
  <2>1. UNCHANGED <<up, keysDown, remoteVars>> /\ up
    BY <1>4 DEF PressPaste, linkVars
  <2>2. CASE heldPaste # None
    <3>1. keys' = keys \o HeldKeys("nextPress", WantOf(heldPaste))
      BY <1>4, <2>2 DEF PressPaste, WantOf
    <3>2. ModKeys(keys', remoteCtrl, keysDown)
      BY <1>a, <1>c, <2>1, <2>2, <3>1, HeldKeysMod
    <3> QED
      BY <1>d, <2>1, <3>2
  <2>3. CASE heldPaste = None
    BY <1>4, <1>e, <2>1, <2>3 DEF PressPaste
  <2> QED
    BY <2>2, <2>3
<1>5. CASE ReleaseV
  <2>1. UNCHANGED <<up, keysDown, remoteVars>>
    BY <1>5 DEF ReleaseV, linkVars
  <2>2. CASE up /\ ~pasteKeyUp
    <3>1. ModKeys(Append(keys, Key("V", FALSE)), remoteCtrl, keysDown)
      BY <1>a, <1>b, <1>c, <2>2, AppendOther, KeyType, KeyFields
    <3> QED
      BY <1>5, <1>d, <2>1, <2>2, <3>1 DEF ReleaseV
  <2>3. CASE ~(up /\ ~pasteKeyUp)
    BY <1>5, <1>e, <2>1, <2>3 DEF ReleaseV
  <2> QED
    BY <2>2, <2>3
<1>6. CASE Blur
  BY <1>6, <1>c, <1>d, AppendCtrl DEF Blur, ReleaseAllModifiers, linkVars, ModKeys
<1>7. CASE Shortcut
  BY <1>7, <1>c, <1>d, AppendCtrl DEF Shortcut, ReleaseAllModifiers, linkVars, ModKeys
<1>8. CASE PasteEvent
  <2>1. UNCHANGED <<up, keysDown, remoteVars>>
    BY <1>8 DEF PasteEvent, keyVars, linkVars
  <2>2. CASE SendHeldPaste("known", IF up /\ clipChannelReady THEN {hostClip} ELSE {})
    <3>1. (IF up /\ clipChannelReady THEN {hostClip} ELSE {}) \in SUBSET Contents
      BY <1>a
    <3> QED
      BY <1>a, <2>1, <2>2, <3>1, SendMod
  <2>3. CASE up /\ keys' = Refreshed(hostClip)
    BY <1>a, <1>b, <1>c, <1>d, <2>1, <2>3, RefreshedMod
  <2> QED
    BY <1>8, <2>2, <2>3 DEF PasteEvent
<1>9. CASE NoPasteEvent
  BY <1>9, <1>e DEF NoPasteEvent, keyVars, linkVars
<1>10. CASE FileRead
  <2>1. UNCHANGED <<up, keysDown, remoteVars>>
    BY <1>10 DEF FileRead, keyVars, linkVars
  <2>2. CASE UNCHANGED keys
    BY <1>e, <2>1, <2>2
  <2>3. CASE SendHeldPaste("readFailed", WantOf(heldPaste))
    BY <1>a, <2>1, <2>3, SendMod
  <2> QED
    BY <1>10, <2>2, <2>3 DEF FileRead
<1>11. CASE ReplayTimer
  BY <1>11, <1>a, SendMod DEF ReplayTimer, keyVars, linkVars
<1>12. CASE CheckHostClipboard
  BY <1>12, <1>e DEF CheckHostClipboard, keyVars, linkVars
<1>13. CASE HostClipboardRead
  <2>1. UNCHANGED <<up, keysDown, remoteVars>>
    BY <1>13 DEF HostClipboardRead, keyVars, linkVars
  <2>2. CASE UNCHANGED keys
    BY <1>e, <2>1, <2>2
  <2>3. CASE up /\ keys' = Refreshed(hostClip)
    BY <1>a, <1>b, <1>c, <1>d, <2>1, <2>3, RefreshedMod
  <2> QED
    BY <1>13, <2>2, <2>3 DEF HostClipboardRead
<1>14. CASE FormatListAck
  <2>1. UNCHANGED <<up, keysDown, remoteVars>>
    BY <1>14 DEF FormatListAck, keyVars
  <2>2. CASE UNCHANGED keys
    BY <1>e, <2>1, <2>2
  <2>3. CASE SendHeldPaste("ack", WantOf(heldPaste))
    BY <1>a, <2>1, <2>3, SendMod
  <2> QED
    BY <1>14, <2>2, <2>3 DEF FormatListAck
<1>15. ASSUME NEW f \in Files, DropFile(f) PROVE ModInv'
  BY <1>15, <1>e DEF DropFile, keyVars, linkVars
<1>16. CASE Connected
  <2>1. up' = TRUE /\ keysDown' = FALSE /\ UNCHANGED <<keys, remoteVars>>
    BY <1>16 DEF Connected
  <2> QED
    BY <2>1 DEF ModInv, remoteVars, HeldModifierArrives
<1>17. CASE ChannelOpens
  BY <1>17, <1>e DEF ChannelOpens, keyVars, linkVars
<1>18. CASE Lost
  <2>1. up' = FALSE /\ keys' = << >> /\ Len(keys') = 0 /\ UNCHANGED pasted
    BY <1>18 DEF Lost
  <2>2. Arrives(keys', remoteCtrl')
    BY <2>1 DEF Arrives
  <2> QED
    BY <2>1, <2>2 DEF ModInv, HeldModifierArrives
<1>19. CASE RemoteHandlesList
  <2>1. UNCHANGED <<up, keysDown, keys, remoteCtrl, pasted>>
    BY <1>19 DEF RemoteHandlesList, keyVars
  <2> QED
    BY <2>1 DEF ModInv, HeldModifierArrives
<1>20. CASE RemoteHandlesKey
  <2> DEFINE k == Head(keys)
  <2>1. /\ keys # << >> /\ keys' = Tail(keys)
        /\ remoteCtrl' = IF IsCtrl(k) THEN k.down ELSE remoteCtrl
        /\ UNCHANGED <<up, keysDown>>
    BY <1>20 DEF RemoteHandlesKey, IsCtrl, keyVars, linkVars
  <2>2. /\ 1 \in 1..Len(keys) /\ Len(keys) \in 1..Len(keys) /\ Len(keys') = Len(keys) - 1
        /\ k = keys[1] /\ up
    BY <1>a, <1>b, <2>1 DEF ModInv
  <2>3. Arrives(keys', remoteCtrl')
    BY <1>a, <2>1, DownTail DEF ModInv
  <2>4. up' /\ keysDown' => DownAt(keys', remoteCtrl', Len(keys'))
    <3> SUFFICES ASSUME keysDown PROVE DownAt(keys', remoteCtrl', Len(keys) - 1)
      BY <2>1, <2>2
    <3>1. DownAt(keys, remoteCtrl, Len(keys))
      BY <2>2 DEF ModInv
    <3> QED
      BY <1>a, <2>1, <2>2, <3>1, DownTail
  <2>5. k.mod => remoteCtrl
    <3> SUFFICES ASSUME keys[1].mod PROVE remoteCtrl
      BY <2>2
    <3>1. DownAt(keys, remoteCtrl, 1 - 1)
      BY <2>2 DEF ModInv, Arrives
    <3>2. \A j : j \notin 1..(1 - 1)
      OBVIOUS
    <3> QED
      BY <3>1, <3>2 DEF DownAt
  <2>6. pasted'.mod => pasted'.got # "bare"
    <3>1. CASE k.cause = "typed"
      BY <1>20, <3>1 DEF RemoteHandlesKey, ModInv, HeldModifierArrives
    <3>2. CASE k.cause # "typed"
      <4>1. pasted' = [cause |-> k.cause, mod |-> k.mod,
                       got |-> IF remoteCtrl THEN Outcome(k.want) ELSE "bare"]
        BY <1>20, <3>2 DEF RemoteHandlesKey
      <4>2. Outcome(k.want) # "bare"
        BY DEF Outcome
      <4>3. pasted'.mod = k.mod /\ pasted'.got = IF remoteCtrl THEN Outcome(k.want) ELSE "bare"
        BY <4>1
      <4> QED
        BY <2>5, <4>2, <4>3
    <3> QED
      BY <3>1, <3>2
  <2> QED
    BY <2>1, <2>2, <2>3, <2>4, <2>6 DEF ModInv, HeldModifierArrives
<1>21. CASE UNCHANGED vars
  BY <1>21, <1>e DEF vars, keyVars, linkVars
<1> QED
  BY <1>1, <1>2, <1>3, <1>4, <1>5, <1>6, <1>7, <1>8, <1>9, <1>10, <1>11, <1>12, <1>13, <1>14,
     <1>15, <1>16, <1>17, <1>18, <1>19, <1>20, <1>21 DEF Next

\* A paste key pressed with Ctrl arrives with Ctrl, whatever the user or the page let go of
\* while it was held back.
THEOREM ModifierArrives == Spec => []HeldModifierArrives
<1>1. Init => TypeOK /\ ModInv
  BY TypeInit, ModInit
<1>2. TypeOK /\ ModInv /\ [Next]_vars => TypeOK' /\ ModInv'
  BY TypeStep, ModStep
<1>3. ModInv => HeldModifierArrives
  BY DEF ModInv
<1> QED
  BY <1>1, <1>2, <1>3, PTL DEF Spec

-----------------------------------------------------------------------------
(***************************************************************************)
(* Lists in flight.  Every answer is that of a list the page has counted,  *)
(* except the one that opens the channel, and before its answer nothing is *)
(* counted.  A dropped file is not counted, and a read of the clipboard    *)
(* that spans two sessions advertises ahead of that list: without them,    *)
(* the count is right.                                                     *)
(***************************************************************************)
OneSessionReads ==
  /\ "drop" \notin Features
  /\ "reconnect" \in Features => Files = {} /\ "readGranted" \notin Features

Counted ==
  /\ up /\ clipChannelReady => channelOpen /\ advertsInFlight = Len(lists) + answers
  /\ up /\ ~clipChannelReady => advertsInFlight = 0
  /\ up /\ ~clipChannelReady /\ channelOpen => Len(lists) + answers = 1
  /\ up /\ ~channelOpen => Len(lists) + answers = 0
  /\ ~up => Len(lists) + answers = 0
  /\ clipCheckBusy \/ filePaste # None => up /\ clipChannelReady
  /\ clipCheckBusy => "readGranted" \in Features

LEMMA CountedInit == Init => Counted
BY DEF Init, Counted

LEMMA ListLen ==
  TypeOK => /\ Len(lists) \in Nat /\ answers \in Nat /\ advertsInFlight \in Nat
            /\ lists # << >> => Len(Tail(lists)) = Len(lists) - 1 /\ Len(lists) > 0
            /\ \A x : Len(Append(lists, x)) = Len(lists) + 1
BY DEF TypeOK

LEMMA AdvertiseCounts ==
  ASSUME TypeOK, NEW c, Advertise(c)
  PROVE  advertsInFlight' = advertsInFlight + 1 /\ Len(lists') = Len(lists) + 1 /\ lists' # << >>
<1>1. lists' = Append(lists, FormatOf(c)) /\ advertsInFlight' = advertsInFlight + 1
  BY DEF Advertise, SetPending
<1> QED
  BY <1>1, ListLen DEF TypeOK

LEMMA CountedStep == OneSessionReads /\ TypeOK /\ Counted /\ [Next]_vars => Counted'
<1> SUFFICES ASSUME OneSessionReads, TypeOK, Counted, [Next]_vars PROVE Counted'
  OBVIOUS
<1>0. /\ Len(lists) \in Nat /\ answers \in Nat /\ advertsInFlight \in Nat
      /\ filePaste \in {None} \cup Files /\ hostClip \in Contents
      /\ up \in BOOLEAN /\ clipChannelReady \in BOOLEAN /\ channelOpen \in BOOLEAN
      /\ clipCheckBusy \in BOOLEAN
  BY ListLen DEF TypeOK
<1> USE DEF keyVars, heldVars, readVars, linkVars, remoteVars, Idle
<1>1. ASSUME NEW c \in Contents, HostCopy(c) PROVE Counted'
  BY <1>1, <1>0 DEF HostCopy, Counted, advertVars
<1>2. ASSUME NEW down \in BOOLEAN, CtrlKey(down) PROVE Counted'
  BY <1>2, <1>0 DEF CtrlKey, Counted, advertVars
<1>3. CASE TypeV
  BY <1>3, <1>0 DEF TypeV, Counted, advertVars
<1>4. CASE PressPaste
  BY <1>4, <1>0 DEF PressPaste, Counted, advertVars
<1>5. CASE ReleaseV
  BY <1>5, <1>0 DEF ReleaseV, Counted, advertVars
<1>6. CASE Blur
  BY <1>6, <1>0 DEF Blur, ReleaseAllModifiers, Counted, advertVars
<1>7. CASE Shortcut
  BY <1>7, <1>0 DEF Shortcut, ReleaseAllModifiers, Counted, advertVars
<1>8. CASE PasteEvent
  <2>1. UNCHANGED linkVars /\ UNCHANGED clipCheckBusy
    BY <1>8 DEF PasteEvent
  <2>2. CASE UNCHANGED <<advertVars, filePaste>>
    BY <2>1, <2>2 DEF Counted, advertVars
  <2>3. CASE up /\ clipChannelReady /\ Advertise(hostClip) /\ UNCHANGED filePaste
    BY <1>0, <2>1, <2>3, AdvertiseCounts DEF Counted
  <2>4. CASE up /\ clipChannelReady /\ UNCHANGED advertVars
    BY <2>1, <2>4 DEF Counted, advertVars
  <2> QED
    BY <1>8, <2>2, <2>3, <2>4 DEF PasteEvent
<1>9. CASE NoPasteEvent
  BY <1>9, <1>0 DEF NoPasteEvent, Counted, advertVars
<1>10. CASE FileRead
  <2>1. /\ UNCHANGED linkVars /\ UNCHANGED clipCheckBusy /\ filePaste # None /\ filePaste' = None
    BY <1>10 DEF FileRead
  <2>2. CASE UNCHANGED advertVars
    BY <2>1, <2>2 DEF Counted, advertVars
  <2>3. CASE Advertise(filePaste)
    BY <1>0, <2>1, <2>3, AdvertiseCounts DEF Counted
  <2> QED
    BY <1>10, <2>2, <2>3 DEF FileRead
<1>11. CASE ReplayTimer
  BY <1>11, <1>0 DEF ReplayTimer, Counted, advertVars
<1>12. CASE CheckHostClipboard
  BY <1>12, <1>0 DEF CheckHostClipboard, Counted, advertVars
<1>13. CASE HostClipboardRead
  <2>1. /\ UNCHANGED linkVars /\ UNCHANGED filePaste /\ clipCheckBusy /\ clipCheckBusy' = FALSE
    BY <1>13 DEF HostClipboardRead
  <2>2. CASE UNCHANGED advertVars
    BY <2>1, <2>2 DEF Counted, advertVars
  <2>3. CASE Advertise(hostClip)
    BY <1>0, <2>1, <2>3, AdvertiseCounts DEF Counted
  <2> QED
    BY <1>13, <2>2, <2>3 DEF HostClipboardRead
<1>14. CASE FormatListAck
  <2>1. /\ answers > 0 /\ answers' = answers - 1
        /\ advertsInFlight' = IF advertsInFlight = 0 THEN 0 ELSE advertsInFlight - 1
        /\ clipChannelReady' = TRUE
        /\ UNCHANGED <<lists, filePaste, up, channelOpen>>
    BY <1>14 DEF FormatListAck
  <2>2. clipCheckBusy' => clipCheckBusy \/ "readGranted" \in Features
    BY <1>14 DEF FormatListAck
  <2> QED
    BY <1>0, <2>1, <2>2 DEF Counted
<1>15. ASSUME NEW f \in Files, DropFile(f) PROVE Counted'
  BY <1>15 DEF DropFile, OneSessionReads
<1>16. CASE Connected
  BY <1>16, <1>0 DEF Connected, Counted
<1>17. CASE ChannelOpens
  <2>1. PICK x : lists' = Append(lists, x)
    BY <1>17 DEF ChannelOpens
  <2>2. Len(lists') = Len(lists) + 1
    BY <2>1, ListLen
  <2>3. /\ up /\ ~channelOpen /\ channelOpen' = TRUE
        /\ UNCHANGED <<up, clipChannelReady, advertsInFlight, readVars, answers>>
    BY <1>17 DEF ChannelOpens
  <2> QED
    BY <1>0, <2>2, <2>3 DEF Counted
<1>18. CASE Lost
  BY <1>18, <1>0 DEF Lost, Counted, OneSessionReads
<1>19. CASE RemoteHandlesList
  <2>1. /\ lists # << >> /\ lists' = Tail(lists) /\ answers' = answers + 1
        /\ UNCHANGED <<up, clipChannelReady, channelOpen, advertsInFlight, readVars>>
    BY <1>19 DEF RemoteHandlesList
  <2> QED
    BY <1>0, <2>1, ListLen DEF Counted
<1>20. CASE RemoteHandlesKey
  BY <1>20, <1>0 DEF RemoteHandlesKey, Counted, advertVars
<1>21. CASE UNCHANGED vars
  BY <1>21, <1>0 DEF vars, Counted, advertVars
<1> QED
  BY <1>1, <1>2, <1>3, <1>4, <1>5, <1>6, <1>7, <1>8, <1>9, <1>10, <1>11, <1>12, <1>13, <1>14,
     <1>15, <1>16, <1>17, <1>18, <1>19, <1>20, <1>21 DEF Next

LEMMA CountedImplies == Counted => AdvertsCounted
BY DEF Counted, AdvertsCounted

\* advertsInFlight is the number of Format Lists the remote has not handled or whose answer
\* is on its way, in a session where nothing is dropped and no read is left over from the
\* session before.
THEOREM ListsCounted == ASSUME OneSessionReads PROVE Spec => []AdvertsCounted
<1>1. Init => TypeOK /\ Counted
  BY TypeInit, CountedInit
<1>2. TypeOK /\ Counted /\ [Next]_vars => TypeOK' /\ Counted'
  BY OneSessionReads, TypeStep, CountedStep
<1> QED
  BY <1>1, <1>2, CountedImplies, PTL DEF Spec

-----------------------------------------------------------------------------
(***************************************************************************)
(* What an acknowledged paste finds.  What a key wants only grows with     *)
(* what the page advertises, so the text the WASM side renders is always   *)
(* in it; and when the last answer comes there is no list left, so the     *)
(* remote has taken over the last one.                                     *)
(***************************************************************************)
TextsOnly == OneSessionReads /\ Files = {}

Finds(want, clip) == want # {} => clip = "text" \/ clip \in want
Waits(want, text) == want # {} => text \in want

GoodKey(k, text, clip) ==
  Waits(k.want, text) /\ (k.cause = "ack" => Finds(k.want, clip))

GoodKeys(ks, text, clip) == \A i \in 1..Len(ks) : GoodKey(ks[i], text, clip)

Current ==
  /\ up /\ syncedHostFp # None => pendingText = syncedHostFp
  /\ up /\ heldPaste # None => Waits(heldPaste.want, pendingText)
  /\ up /\ heldPaste # None /\ heldPaste.want # {} => clipChannelReady
  /\ up /\ channelOpen /\ pendingText # None =>
       /\ lists = << >> => remoteClip \in {"text", pendingText}
       /\ lists # << >> => lists[Len(lists)] = "text"
  /\ \A i \in 1..Len(lists) : lists[i] \in {"text", "empty"}
  /\ GoodKeys(keys, pendingText, remoteClip)
  /\ AckedPasteIsCurrent

LEMMA CurrentInit == Init => Current
<1> SUFFICES ASSUME Init PROVE Current
  OBVIOUS
<1>1. Len(keys) = 0 /\ Len(lists) = 0 /\ pasted.cause = "typed"
  BY DEF Init
<1>2. GoodKeys(keys, pendingText, remoteClip)
  BY <1>1 DEF GoodKeys
<1> QED
  BY <1>1, <1>2 DEF Init, Current, AckedPasteIsCurrent

LEMMA AppendGood ==
  ASSUME NEW ks \in Seq(KeyEvents), NEW k \in KeyEvents, NEW text, NEW clip,
         GoodKeys(ks, text, clip), GoodKey(k, text, clip)
  PROVE  GoodKeys(Append(ks, k), text, clip) /\ Append(ks, k) \in Seq(KeyEvents)
<1>1. \A i \in 1..Len(Append(ks, k)) : \/ i \in 1..Len(ks) /\ Append(ks, k)[i] = ks[i]
                                       \/ Append(ks, k)[i] = k
  OBVIOUS
<1> QED
  BY <1>1 DEF GoodKeys

LEMMA TypedGood ==
  ASSUME NEW code, NEW down, NEW text, NEW clip
  PROVE  GoodKey(Key(code, down), text, clip)
<1>1. Key(code, down).want = {} /\ Key(code, down).cause = "typed"
  BY DEF Key
<1> QED
  BY <1>1 DEF GoodKey, Waits

LEMMA HeldGood ==
  ASSUME TypeOK, heldPaste # None, NEW cause \in Causes, NEW want \in SUBSET Contents,
         NEW text, NEW clip, GoodKeys(keys, text, clip), Waits(want, text),
         cause = "ack" => Finds(want, clip)
  PROVE  GoodKeys(keys \o HeldKeys(cause, want), text, clip)
<1> DEFINE H == HeldV(cause, want)
           V == Key("V", FALSE)
           C == Key("Ctrl", TRUE)
           D == Key("Ctrl", FALSE)
<1>1. /\ H \in KeyEvents /\ V \in KeyEvents /\ C \in KeyEvents /\ D \in KeyEvents
      /\ keys \in Seq(KeyEvents)
  BY HeldKeysAre, KeyType DEF TypeOK
<1>2. H.want = want /\ H.cause = cause
  BY DEF HeldV
<1>3. GoodKey(H, text, clip)
  BY <1>2 DEF GoodKey
<1>4. GoodKey(V, text, clip) /\ GoodKey(C, text, clip) /\ GoodKey(D, text, clip)
  BY TypedGood
<1>5. CASE heldPaste.ctrl /\ ~keysDown
  <2>1. keys \o HeldKeys(cause, want) = Append(Append(Append(Append(keys, C), H), V), D)
    BY <1>5, HeldKeysAre
  <2> HIDE DEF H, V, C, D
  <2>2. GoodKeys(Append(keys, C), text, clip) /\ Append(keys, C) \in Seq(KeyEvents)
    BY <1>1, <1>4, AppendGood
  <2>3. /\ GoodKeys(Append(Append(keys, C), H), text, clip)
        /\ Append(Append(keys, C), H) \in Seq(KeyEvents)
    BY <1>1, <1>3, <2>2, AppendGood
  <2>4. /\ GoodKeys(Append(Append(Append(keys, C), H), V), text, clip)
        /\ Append(Append(Append(keys, C), H), V) \in Seq(KeyEvents)
    BY <1>1, <1>4, <2>3, AppendGood
  <2> QED
    BY <1>1, <1>4, <2>1, <2>4, AppendGood
<1>6. CASE ~(heldPaste.ctrl /\ ~keysDown)
  <2>1. keys \o HeldKeys(cause, want) = Append(Append(keys, H), V)
    BY <1>6, HeldKeysAre
  <2> HIDE DEF H, V, C, D
  <2>2. GoodKeys(Append(keys, H), text, clip) /\ Append(keys, H) \in Seq(KeyEvents)
    BY <1>1, <1>3, AppendGood
  <2> QED
    BY <1>1, <1>4, <2>1, <2>2, AppendGood
<1> QED
  BY <1>5, <1>6

LEMMA RefreshedGood ==
  ASSUME TypeOK, NEW c \in Contents, NEW text, NEW clip, GoodKeys(keys, text, clip)
  PROVE  GoodKeys(Refreshed(c), c, clip)
<1> SUFFICES ASSUME NEW i \in 1..Len(keys) PROVE GoodKey(Refreshed(c)[i], c, clip)
  BY RefreshedIs DEF GoodKeys
<1>1. /\ Refreshed(c)[i].cause = keys[i].cause
      /\ Refreshed(c)[i].want = Newer(keys[i].want, c)
      /\ GoodKey(keys[i], text, clip)
  BY RefreshedIs DEF GoodKeys
<1> QED
  BY <1>1 DEF GoodKey, Finds, Waits, Newer

\* A step that sends the held key, with what is wanted for it.
LEMMA SendGood ==
  ASSUME TypeOK, NEW cause \in Causes, NEW want \in SUBSET Contents, SendHeldPaste(cause, want),
         up => Waits(want, pendingText), cause = "ack" /\ up => Finds(want, remoteClip),
         UNCHANGED <<up, channelOpen, syncedHostFp, pendingText, lists, remoteVars>>,
         Current
  PROVE  Current'
<1>1. heldPaste' = None
  BY DEF SendHeldPaste
<1>3. GoodKeys(keys', pendingText, remoteClip)
  <2>1. CASE heldPaste # None /\ up
    BY <2>1, HeldGood DEF SendHeldPaste, Current
  <2>2. CASE ~(heldPaste # None /\ up)
    BY <2>2 DEF SendHeldPaste, Current
  <2> QED
    BY <2>1, <2>2
<1> QED
  BY <1>1, <1>3 DEF Current, remoteVars, AckedPasteIsCurrent

\* A step that advertises a new text of the host, and takes it as known.
LEMMA AdvertiseGood ==
  ASSUME TypeOK, Current, up, clipChannelReady, hostClip \in Texts, Advertise(hostClip),
         syncedHostFp' = hostClip, keys' = Refreshed(hostClip),
         UNCHANGED <<linkVars, remoteVars>>,
         heldPaste' # None => heldPaste'.want \in {{}, {hostClip}} \/ hostClip \in heldPaste'.want
  PROVE  Current'
<1>1. hostClip \in Contents /\ hostClip # None
  BY PasteAssumption DEF Contents
<1>2. lists' = Append(lists, "text") /\ pendingText' = hostClip
  BY DEF Advertise, SetPending, FormatOf
<1>3. lists' # << >> /\ lists'[Len(lists')] = "text"
      /\ \A i \in 1..Len(lists') : (i \in 1..Len(lists) /\ lists'[i] = lists[i]) \/ lists'[i] = "text"
  BY <1>2 DEF TypeOK, Formats
<1>4. GoodKeys(keys', hostClip, remoteClip)
  BY <1>1, RefreshedGood DEF Current
<1>5. heldPaste' # None => Waits(heldPaste'.want, hostClip)
  BY DEF Waits
<1>6. \A i \in 1..Len(lists') : lists'[i] \in {"text", "empty"}
  BY <1>3 DEF Current
<1>7. AckedPasteIsCurrent'
  BY DEF Current, AckedPasteIsCurrent, remoteVars
<1> QED
  BY <1>2, <1>3, <1>4, <1>5, <1>6, <1>7 DEF Current, linkVars, remoteVars

LEMMA CurrentStep == TextsOnly /\ TypeOK /\ Counted /\ Current /\ [Next]_vars => Current'
<1> SUFFICES ASSUME TextsOnly, TypeOK, Counted, Current, [Next]_vars PROVE Current'
  OBVIOUS
<1>a. /\ hostClip \in Contents /\ Contents = Texts /\ filePaste = None
      /\ keys \in Seq(KeyEvents) /\ WantOf(heldPaste) \in SUBSET Contents
      /\ {"known", "readFailed", "timer", "ack", "nextPress"} \subseteq Causes
  BY WantType, PasteAssumption DEF TypeOK, Causes, TextsOnly, Contents
<1>c. up => Waits(WantOf(heldPaste), pendingText)
  BY DEF Current, WantOf, Waits
<1>d. ASSUME UNCHANGED <<up, clipChannelReady, channelOpen, syncedHostFp, pendingText, lists, remoteVars>>,
             heldPaste' = heldPaste \/ heldPaste' = None
                \/ (heldPaste' # None /\ heldPaste'.want = {}),
             GoodKeys(keys', pendingText, remoteClip)
      PROVE  Current'
  BY <1>d DEF Current, remoteVars, Waits, AckedPasteIsCurrent
<1>e. ASSUME UNCHANGED <<heldPaste, keys, advertVars, linkVars, remoteVars, syncedHostFp>>
      PROVE  Current'
  BY <1>e DEF Current, advertVars, linkVars, remoteVars, AckedPasteIsCurrent
<1>f. ASSUME NEW code \in {"Ctrl", "V"}, NEW down \in BOOLEAN
      PROVE  GoodKeys(Append(keys, Key(code, down)), pendingText, remoteClip)
  BY <1>a, AppendGood, TypedGood, KeyType DEF Current
<1>1. ASSUME NEW c \in Contents, HostCopy(c) PROVE Current'
  BY <1>1, <1>e DEF HostCopy, keyVars, linkVars, heldVars
<1>2. ASSUME NEW down \in BOOLEAN, CtrlKey(down) PROVE Current'
  <2>1. GoodKeys(keys', pendingText, remoteClip)
    BY <1>2, <1>f DEF CtrlKey, Current
  <2>2. UNCHANGED <<heldPaste, syncedHostFp, advertVars, linkVars, remoteVars>>
    BY <1>2 DEF CtrlKey, heldVars
  <2> QED
    BY <1>d, <2>1, <2>2 DEF advertVars, linkVars
<1>3. CASE TypeV
  <2>1. GoodKeys(keys', pendingText, remoteClip)
    BY <1>3, <1>f DEF TypeV, Current
  <2>2. UNCHANGED <<heldPaste, syncedHostFp, advertVars, linkVars, remoteVars>>
    BY <1>3 DEF TypeV, heldVars
  <2> QED
    BY <1>d, <2>1, <2>2 DEF advertVars, linkVars
<1>4. CASE PressPaste
  <2>1. heldPaste' = [ctrl |-> keysDown, want |-> {}] /\ heldPaste' # None
    <3>1. [ctrl |-> keysDown, want |-> {}] \in Held
      BY DEF Held, TypeOK
    <3> QED
      BY <1>4, <3>1, PasteAssumption DEF PressPaste
  <2>2. GoodKeys(keys', pendingText, remoteClip)
    <3>1. CASE heldPaste # None
      <4>1. keys' = keys \o HeldKeys("nextPress", WantOf(heldPaste)) /\ up
        BY <1>4, <3>1 DEF PressPaste, WantOf
      <4> QED
        BY <1>a, <1>c, <3>1, <4>1, HeldGood DEF Current
    <3>2. CASE heldPaste = None
      BY <1>4, <3>2 DEF PressPaste, Current
    <3> QED
      BY <3>1, <3>2
  <2>3. heldPaste'.want = {}
    BY <2>1
  <2>4. UNCHANGED <<syncedHostFp, advertVars, linkVars, remoteVars>>
    BY <1>4 DEF PressPaste
  <2> QED
    BY <1>d, <2>1, <2>2, <2>3, <2>4 DEF advertVars, linkVars
<1>5. CASE ReleaseV
  <2>1. GoodKeys(keys', pendingText, remoteClip)
    BY <1>5, <1>f DEF ReleaseV, Current
  <2>2. UNCHANGED <<heldPaste, syncedHostFp, advertVars, linkVars, remoteVars>>
    BY <1>5 DEF ReleaseV, heldVars
  <2> QED
    BY <1>d, <2>1, <2>2 DEF advertVars, linkVars
<1>6. CASE Blur
  <2>1. GoodKeys(keys', pendingText, remoteClip)
    BY <1>6, <1>f DEF Blur, ReleaseAllModifiers, Current
  <2>2. UNCHANGED <<heldPaste, syncedHostFp, advertVars, linkVars, remoteVars>>
    BY <1>6 DEF Blur, ReleaseAllModifiers, heldVars
  <2> QED
    BY <1>d, <2>1, <2>2 DEF advertVars, linkVars
<1>7. CASE Shortcut
  <2>1. GoodKeys(keys', pendingText, remoteClip)
    BY <1>7, <1>f DEF Shortcut, ReleaseAllModifiers, Current
  <2>2. UNCHANGED <<heldPaste, syncedHostFp, advertVars, linkVars, remoteVars>>
    BY <1>7 DEF Shortcut, ReleaseAllModifiers, heldVars
  <2> QED
    BY <1>d, <2>1, <2>2 DEF advertVars, linkVars
<1>8. CASE PasteEvent
  <2>1. UNCHANGED <<linkVars, remoteVars>>
    BY <1>8 DEF PasteEvent
  <2>2. CASE /\ SendHeldPaste("known", IF up /\ clipChannelReady THEN {hostClip} ELSE {})
             /\ ~up \/ ~clipChannelReady \/ hostClip = syncedHostFp
             /\ UNCHANGED <<syncedHostFp, advertVars, filePaste>>
    <3> DEFINE want == IF up /\ clipChannelReady THEN {hostClip} ELSE {}
    <3>1. want \in SUBSET Contents
      BY <1>a
    <3>2. hostClip # None
      BY <1>a, PasteAssumption
    <3>3. up => Waits(want, pendingText)
      BY <2>2, <3>2 DEF Waits, Current
    <3> HIDE DEF want
    <3>4. SendHeldPaste("known", want)
      BY <2>2 DEF want
    <3>5. UNCHANGED <<up, channelOpen, syncedHostFp, pendingText, lists, remoteVars>>
      BY <2>1, <2>2 DEF advertVars, linkVars
    <3> QED
      BY <1>a, <3>1, <3>3, <3>4, <3>5, SendGood
  <2>3. CASE /\ up /\ clipChannelReady /\ Advertise(hostClip) /\ syncedHostFp' = hostClip
             /\ keys' = Refreshed(hostClip) /\ heldPaste' = [heldPaste EXCEPT !.want = {hostClip}]
    <3>0. pasteDue
      BY <1>8 DEF PasteEvent
    <3>1. heldPaste \in Held
      BY <3>0, TypeParts, PasteAssumption DEF HeldOK
    <3>2. heldPaste'.want = {hostClip}
      BY <1>a, <2>3, <3>1, NewerType
    <3> QED
      BY <1>a, <2>1, <2>3, <3>2, AdvertiseGood
  <2>4. hostClip \notin Files
    BY DEF TextsOnly
  <2> QED
    BY <1>8, <2>2, <2>3, <2>4 DEF PasteEvent
<1>9. CASE NoPasteEvent
  BY <1>9, <1>e DEF NoPasteEvent, keyVars, linkVars, heldVars
<1>10. CASE FileRead
  BY <1>10, <1>a DEF FileRead
<1>11. CASE ReplayTimer
  BY <1>11, <1>a, <1>c, SendGood DEF ReplayTimer, advertVars, linkVars
<1>12. CASE CheckHostClipboard
  BY <1>12, <1>e DEF CheckHostClipboard, keyVars, linkVars, heldVars
<1>13. CASE HostClipboardRead
  <2>1. UNCHANGED <<linkVars, remoteVars>> /\ clipCheckBusy
    BY <1>13 DEF HostClipboardRead
  <2>2. CASE UNCHANGED <<syncedHostFp, advertVars, heldVars, keys>>
    BY <1>e, <2>1, <2>2 DEF heldVars
  <2>3. CASE /\ hostClip \in Texts /\ Advertise(hostClip) /\ syncedHostFp' = hostClip
             /\ keys' = Refreshed(hostClip)
             /\ heldPaste' = IF heldPaste = None THEN None
                             ELSE [heldPaste EXCEPT !.want = Newer(@, hostClip)]
    <3>1. up /\ clipChannelReady
      BY <2>1 DEF Counted
    <3>2. heldPaste' # None => heldPaste'.want = {} \/ hostClip \in heldPaste'.want
      <4>1. heldPaste # None => heldPaste \in Held
        BY DEF TypeOK
      <4>2. heldPaste # None => heldPaste'.want = Newer(heldPaste.want, hostClip)
        BY <1>a, <2>3, <4>1, NewerType
      <4> QED
        BY <2>3, <4>2 DEF Newer
    <3> QED
      BY <2>1, <2>3, <3>1, <3>2, AdvertiseGood
  <2> QED
    BY <1>13, <2>2, <2>3 DEF HostClipboardRead
<1>14. CASE FormatListAck
  <2>1. /\ answers > 0 /\ clipChannelReady' = TRUE
        /\ advertsInFlight' = IF advertsInFlight = 0 THEN 0 ELSE advertsInFlight - 1
        /\ UNCHANGED <<up, channelOpen, syncedHostFp, pendingText, lists, remoteVars>>
    BY <1>14 DEF FormatListAck
  <2>2. CASE UNCHANGED <<heldPaste, keys>>
    BY <2>1, <2>2 DEF Current, remoteVars, AckedPasteIsCurrent
  <2>3. CASE advertsInFlight' = 0 /\ SendHeldPaste("ack", WantOf(heldPaste))
    <3>1. up => Finds(WantOf(heldPaste), remoteClip)
      <4> SUFFICES ASSUME up, WantOf(heldPaste) # {}
                   PROVE  remoteClip = "text" \/ remoteClip \in WantOf(heldPaste)
        BY DEF Finds
      <4>1. heldPaste # None /\ heldPaste.want # {} /\ WantOf(heldPaste) = heldPaste.want
        BY DEF WantOf
      <4>2. clipChannelReady /\ channelOpen /\ advertsInFlight = Len(lists) + answers
        BY <4>1 DEF Counted, Current
      <4>3. lists = << >>
        BY <2>1, <2>3, <4>2 DEF TypeOK
      <4>4. pendingText \in WantOf(heldPaste) /\ pendingText # None
        BY <1>a, <1>c, PasteAssumption DEF Waits
      <4> QED
        BY <4>2, <4>3, <4>4 DEF Current
    <3> QED
      BY <1>a, <1>c, <2>1, <2>3, <3>1, SendGood
  <2> QED
    BY <1>14, <2>2, <2>3 DEF FormatListAck, heldVars
<1>15. ASSUME NEW f \in Files, DropFile(f) PROVE Current'
  BY <1>15 DEF DropFile, TextsOnly
<1>16. CASE Connected
  <2>1. /\ heldPaste' = None /\ syncedHostFp' = None /\ channelOpen' = FALSE
        /\ UNCHANGED <<pendingText, lists, keys, remoteVars>>
    BY <1>16 DEF Connected
  <2> QED
    BY <2>1 DEF Current, remoteVars, AckedPasteIsCurrent
<1>17. CASE ChannelOpens
  <2>1. /\ UNCHANGED <<up, clipChannelReady, heldPaste, syncedHostFp, pendingText, keys, remoteVars>>
        /\ lists' = Append(lists, IF pendingText # None THEN "text" ELSE "empty")
    BY <1>17 DEF ChannelOpens, heldVars
  <2>2. ASSUME NEW x \in {"text", "empty"}, lists' = Append(lists, x)
        PROVE  /\ lists' # << >> /\ lists'[Len(lists')] = x
               /\ \A i \in 1..Len(lists') : (i \in 1..Len(lists) /\ lists'[i] = lists[i]) \/ lists'[i] = x
    BY <2>2 DEF TypeOK, Formats
  <2>3. CASE pendingText # None
    <3>1. lists' = Append(lists, "text")
      BY <2>1, <2>3
    <3> QED
      BY <2>1, <2>2, <3>1 DEF Current, remoteVars, AckedPasteIsCurrent
  <2>4. CASE pendingText = None
    <3>1. lists' = Append(lists, "empty")
      BY <2>1, <2>4
    <3> QED
      BY <2>1, <2>2, <2>4, <3>1 DEF Current, remoteVars, AckedPasteIsCurrent
  <2> QED
    BY <2>3, <2>4
<1>18. CASE Lost
  <2>1. /\ up' = FALSE /\ Len(keys') = 0 /\ Len(lists') = 0 /\ UNCHANGED pasted
    BY <1>18 DEF Lost
  <2>2. GoodKeys(keys', pendingText', remoteClip')
    BY <2>1 DEF GoodKeys
  <2> QED
    BY <2>1, <2>2 DEF Current, AckedPasteIsCurrent
<1>19. CASE RemoteHandlesList
  <2>1. /\ lists # << >> /\ lists' = Tail(lists)
        /\ remoteClip' = IF Head(lists) = "empty" THEN remoteClip ELSE Head(lists)
        /\ UNCHANGED <<up, clipChannelReady, channelOpen, heldPaste, syncedHostFp, pendingText, keys, pasted>>
    BY <1>19 DEF RemoteHandlesList, heldVars
  <2>2. /\ Len(lists) \in Nat \ {0} /\ Len(lists') = Len(lists) - 1 /\ Head(lists) = lists[1]
        /\ \A i \in 1..Len(lists') : lists'[i] = lists[i + 1]
        /\ lists' = << >> => Len(lists) = 1
    <3>1. lists \in Seq(Formats \cup {"empty"})
      BY DEF TypeOK
    <3>2. /\ Len(lists) \in Nat \ {0} /\ Len(Tail(lists)) = Len(lists) - 1 /\ Head(lists) = lists[1]
          /\ \A i \in 1..Len(Tail(lists)) : Tail(lists)[i] = lists[i + 1]
      BY <2>1, <3>1
    <3>3. Tail(lists) = << >> => Len(Tail(lists)) = 0
      BY <2>1, <3>1, EmptySeq
    <3>4. Tail(lists) = << >> => Len(lists) = 1
      BY <3>2, <3>3
    <3> QED
      BY <2>1, <3>2, <3>4
  <2>3. Head(lists) \in {"text", "empty"}
    BY <2>2 DEF Current
  <2>4. \A i \in 1..Len(lists') : lists'[i] \in {"text", "empty"}
    <3>1. \A i \in 1..Len(lists') : i + 1 \in 1..Len(lists)
      BY <2>2
    <3> QED
      BY <2>2, <3>1 DEF Current
  <2>5. lists' # << >> => Len(lists') \in 1..Len(lists') /\ Len(lists') + 1 = Len(lists)
    BY <2>1, <2>2 DEF TypeOK
  <2>6. GoodKeys(keys', pendingText', remoteClip')
    <3>1. CASE Head(lists) = "empty"
      BY <2>1, <3>1 DEF Current
    <3>2. CASE Head(lists) = "text"
      BY <2>1, <3>2 DEF Current, GoodKeys, GoodKey, Finds
    <3> QED
      BY <2>3, <3>1, <3>2
  <2>7. up' /\ channelOpen' /\ pendingText' # None =>
          /\ lists' = << >> => remoteClip' \in {"text", pendingText'}
          /\ lists' # << >> => lists'[Len(lists')] = "text"
    <3> SUFFICES ASSUME up, channelOpen, pendingText # None
                 PROVE  /\ lists' = << >> => remoteClip' = "text"
                        /\ lists' # << >> => lists'[Len(lists')] = "text"
      BY <2>1
    <3>1. lists[Len(lists)] = "text"
      BY <2>1 DEF Current
    <3>2. CASE lists' = << >>
      BY <2>1, <2>2, <3>1, <3>2
    <3>3. CASE lists' # << >>
      BY <2>2, <2>5, <3>1, <3>3
    <3> QED
      BY <3>2, <3>3
  <2> QED
    BY <2>1, <2>4, <2>6, <2>7 DEF Current, AckedPasteIsCurrent
<1>20. CASE RemoteHandlesKey
  <2> DEFINE k == Head(keys)
  <2>1. /\ keys # << >> /\ keys' = Tail(keys)
        /\ UNCHANGED <<up, clipChannelReady, channelOpen, heldPaste, syncedHostFp, pendingText, lists>>
    BY <1>20 DEF RemoteHandlesKey, linkVars, heldVars, advertVars
  <2>2. k = keys[1] /\ 1 \in 1..Len(keys)
    BY <1>a, <2>1
  <2>3. GoodKey(k, pendingText, remoteClip) /\ k \in KeyEvents
    BY <1>a, <2>2 DEF Current, GoodKeys
  <2>4. GoodKeys(Tail(keys), pendingText, remoteClip)
    <3>1. \A i \in 1..Len(Tail(keys)) : i + 1 \in 1..Len(keys) /\ Tail(keys)[i] = keys[i + 1]
      BY <1>a, <2>1
    <3> QED
      BY <3>1 DEF Current, GoodKeys
  <2>5. ASSUME NEW want \in SUBSET Contents, want # {}, Waits(want, pendingText), Finds(want, remoteClip)
        PROVE  Rendered \in want
    BY <2>5, PasteAssumption DEF Waits, Finds, Rendered
  <2>6. GoodKeys(Tail(keys), pendingText, Rendered)
    <3>1. \A i \in 1..Len(Tail(keys)) : Tail(keys)[i] \in KeyEvents
      BY <1>a, <2>1
    <3>2. ASSUME NEW i \in 1..Len(Tail(keys)) PROVE GoodKey(Tail(keys)[i], pendingText, Rendered)
      <4>1. Tail(keys)[i].want \in SUBSET Contents
        BY <3>1 DEF KeyEvents
      <4>2. GoodKey(Tail(keys)[i], pendingText, remoteClip)
        BY <2>4 DEF GoodKeys
      <4> QED
        BY <2>5, <4>1, <4>2 DEF GoodKey, Finds
    <3> QED
      BY <3>2 DEF GoodKeys
  <2>7. remoteClip' \in {remoteClip, Rendered}
    BY <1>20 DEF RemoteHandlesKey
  <2>8. GoodKeys(keys', pendingText', remoteClip')
    BY <2>1, <2>4, <2>6, <2>7
  <2>9. pendingText # None /\ remoteClip \in {"text", pendingText} => Rendered = pendingText
    <3>1. pendingText \in Texts \cup {None}
      BY DEF TypeOK
    <3> QED
      BY <3>1, PasteAssumption DEF Rendered, Contents
  <2>10. pasted'.cause = "ack" => pasted'.got # "stale"
    <3>1. CASE k.cause = "typed"
      BY <1>20, <3>1 DEF RemoteHandlesKey, Current, AckedPasteIsCurrent
    <3>2. CASE k.cause # "typed"
      <4>1. pasted' = [cause |-> k.cause, mod |-> k.mod,
                       got |-> IF remoteCtrl THEN Outcome(k.want) ELSE "bare"]
        BY <1>20, <3>2 DEF RemoteHandlesKey
      <4>2. pasted'.cause = k.cause /\ pasted'.got = IF remoteCtrl THEN Outcome(k.want) ELSE "bare"
        BY <4>1
      <4>3. k.want \in SUBSET Contents
        BY <2>3 DEF KeyEvents
      <4>4. k.cause = "ack" => k.want = {} \/ Rendered \in k.want
        BY <2>3, <2>5, <4>3 DEF GoodKey
      <4> QED
        BY <4>2, <4>4 DEF Outcome
    <3> QED
      BY <3>1, <3>2
  <2> QED
    BY <2>1, <2>7, <2>8, <2>9, <2>10 DEF Current, AckedPasteIsCurrent
<1>21. CASE UNCHANGED vars
  BY <1>21, <1>e DEF vars, heldVars
<1> QED
  BY <1>1, <1>2, <1>3, <1>4, <1>5, <1>6, <1>7, <1>8, <1>9, <1>10, <1>11, <1>12, <1>13, <1>14,
     <1>15, <1>16, <1>17, <1>18, <1>19, <1>20, <1>21 DEF Next

\* A paste key that an acknowledgement releases pastes the text the user had copied, or a
\* newer one.  For texts: a file is advertised only when it has been read, and the answer
\* to an earlier list releases the key (PasteAckOfEarlier.cfg).
THEOREM AckedPasteFinds == ASSUME TextsOnly PROVE Spec => []AckedPasteIsCurrent
<1>1. Init => TypeOK /\ Counted /\ Current
  BY TypeInit, CountedInit, CurrentInit
<1>2. TypeOK /\ Counted /\ Current /\ [Next]_vars => TypeOK' /\ Counted' /\ Current'
  BY TextsOnly, TypeStep, CountedStep, CurrentStep DEF TextsOnly
<1>3. Current => AckedPasteIsCurrent
  BY DEF Current
<1> QED
  BY <1>1, <1>2, <1>3, PTL DEF Spec

=============================================================================
