----------------------------- MODULE PasteSync -----------------------------
(***************************************************************************)
(* Pasting into the session: web/app.js holds a paste key back until the   *)
(* remote has acknowledged the new content of the host clipboard (the sync *)
(* model of app.js 254-263), with the keyboard, the asynchronous reads of  *)
(* the clipboard, the remote's clipboard process, and reconnects.          *)
(*                                                                         *)
(* Keys reach the remote in order, and so do Format Lists, but the remote  *)
(* handles a list in a process of its own: a key can overtake it.  What is *)
(* advertised is rendered when the remote pastes it.  Left out: pastes of  *)
(* the remote's own menu, copies out of the session, the Alt+Tab emulation *)
(* and the echo of a remote image.                                         *)
(***************************************************************************)
EXTENDS Naturals, Sequences

CONSTANTS
  Texts, Files,  \* contents of the host clipboard; those of a file are read asynchronously
  None,
  Own,           \* on the remote's clipboard: something copied in the session
  Features,      \* a subset of the kinds of event below
  MaxKeys,       \* bound: key events on their way to the remote
  MaxLists       \* bound: Format Lists unanswered

Contents == Texts \cup Files
Held == [ctrl : BOOLEAN, want : SUBSET Contents]
Formats == {"text", "file"}  \* or a format we advertised, which it has not rendered yet

ASSUME PasteAssumption ==
  /\ Features \subseteq {"readGranted", "drop", "shortcut", "blur", "reconnect"}
  /\ Texts \cap Files = {}
  /\ None # Own /\ {None, Own} \cap {"text", "file", "key", "ack"} = {}
  /\ Contents \cap {None, Own, "text", "file"} = {}
  /\ None \notin Held
  /\ MaxKeys \in Nat /\ MaxLists \in Nat

VARIABLES
  (* the page *)
  up,             \* session is not null
  clipChannelReady,
  channelOpen,    \* has the WASM side sent the channel's first Format List?
  syncedHostFp,
  advertsInFlight,
  heldPaste,      \* None, or: was Ctrl held; for the properties, what the paste event showed
                  \* and what has been copied and taken as known since
  pasteKeyUp,     \* is the keyup of V to be swallowed?
  replayTimer,    \* pasteReplayTimer: None, "key" (no paste event) or "ack" (no answer)
  pasteDue,       \* the browser is about to fire the paste event of the last press
  filePaste,      \* None, or the file whose bytes onPaste awaits
  clipCheckBusy,  \* checkHostClipboard awaits readText()
  keysDown,       \* is Ctrl in keysDown?
  ctrl, vKey,     \* physically held
  hostClip,
  (* between the page and the remote *)
  pendingText, pendingFile,  \* what the WASM side renders
  keys,           \* key events on their way
  lists,          \* Format Lists the remote has not handled
  answers,        \* Format List Responses on their way
  (* the remote *)
  remoteCtrl,     \* is Ctrl down?
  remoteClip,
  pasted          \* the last paste: why its key was sent, and how it came out

keyVars    == <<keysDown, ctrl, vKey, pasteKeyUp>>
heldVars   == <<heldPaste, replayTimer>>
advertVars == <<advertsInFlight, pendingText, pendingFile, lists>>
readVars   == <<filePaste, clipCheckBusy>>
linkVars   == <<up, clipChannelReady, channelOpen, answers>>
remoteVars == <<remoteCtrl, remoteClip, pasted>>
vars == <<keyVars, heldVars, pasteDue, syncedHostFp, advertVars, readVars, linkVars,
          remoteVars, hostClip, keys>>

Causes == {"known", "readFailed", "timer", "ack", "nextPress", "typed"}
KeyEvents == [code : {"Ctrl", "V"}, down : BOOLEAN, cause : Causes, want : SUBSET Contents,
              mod : BOOLEAN]  \* mod: was Ctrl held, for the page, when the key was?

TypeOK ==
  /\ pasteDue => replayTimer = "key"
  /\ {up, clipChannelReady, pasteKeyUp, pasteDue, clipCheckBusy, keysDown, ctrl, vKey,
      channelOpen, remoteCtrl} \subseteq BOOLEAN
  /\ syncedHostFp \in Contents \cup {None}
  /\ advertsInFlight \in Nat
  /\ heldPaste \in {None} \cup Held
  /\ replayTimer \in {None, "key", "ack"}
  /\ replayTimer # None => heldPaste # None
  /\ filePaste \in {None} \cup Files
  /\ hostClip \in Contents
  /\ pendingText \in Texts \cup {None} /\ pendingFile \in Files \cup {None}
  /\ keys \in Seq(KeyEvents)
  /\ lists \in Seq(Formats \cup {"empty"}) /\ answers \in Nat
  /\ remoteClip \in Contents \cup Formats \cup {Own, None}

Init ==
  /\ up = FALSE /\ clipChannelReady = FALSE /\ channelOpen = FALSE
  /\ syncedHostFp = None /\ advertsInFlight = 0
  /\ heldPaste = None /\ pasteKeyUp = FALSE /\ replayTimer = None /\ pasteDue = FALSE
  /\ filePaste = None /\ clipCheckBusy = FALSE
  /\ keysDown = FALSE /\ ctrl = FALSE /\ vKey = FALSE
  /\ hostClip \in Contents
  /\ pendingText = None /\ pendingFile = None
  /\ keys = << >> /\ lists = << >> /\ answers = 0
  /\ remoteCtrl = FALSE /\ remoteClip = Own
  /\ pasted = [cause |-> "typed", mod |-> FALSE, got |-> "bare"]

-----------------------------------------------------------------------------
Key(code, down) == [code |-> code, down |-> down, cause |-> "typed", want |-> {},
                    mod |-> FALSE]

HeldV(cause, want) == [code |-> "V", down |-> TRUE, cause |-> cause, want |-> want,
                       mod |-> heldPaste.ctrl]

WantOf(held) == IF held = None THEN {} ELSE held.want

\* For the properties: c is newer than what was wanted.
Newer(want, c) == IF want = {} THEN {} ELSE want \cup {c}

\* The same of all keys on their way.
Refreshed(c) == [i \in DOMAIN keys |-> [keys[i] EXCEPT !.want = Newer(@, c)]]

\* Mutant of HeldKeys: a modifier let go meanwhile is not pressed again.
BareKeys(cause, want) == <<HeldV(cause, want), Key("V", FALSE)>>

\* The key events of sendHeldPaste: a modifier let go meanwhile is pressed
\* again around the key.
HeldKeys(cause, want) ==
  LET again(down) == IF heldPaste.ctrl /\ ~keysDown THEN <<Key("Ctrl", down)>> ELSE << >>
  IN  again(TRUE) \o <<HeldV(cause, want), Key("V", FALSE)>> \o again(FALSE)

\* sendHeldPaste
SendHeldPaste(cause, want) ==
  /\ replayTimer' = None
  /\ heldPaste' = None
  /\ keys' = IF heldPaste # None /\ up THEN keys \o HeldKeys(cause, want) ELSE keys

RoomForList == Len(lists) + answers < MaxLists

FormatOf(c) == IF c \in Texts THEN "text" ELSE "file"

\* set_pending_clipboard and set_pending_clipboard_file; an image is like a text
SetPending(c) ==
  /\ lists' = Append(lists, FormatOf(c))
  /\ pendingText' = IF c \in Texts THEN c ELSE None
  /\ pendingFile' = IF c \in Texts THEN pendingFile ELSE c

\* advertise, with the set_pending_clipboard call it wraps
Advertise(c) ==
  /\ SetPending(c)
  /\ advertsInFlight' = advertsInFlight + 1
  /\ replayTimer' = IF heldPaste # None THEN "ack" ELSE replayTimer

-----------------------------------------------------------------------------
(* The user at the keyboard.                                               *)

\* The paste event is the default action of the keydown: nothing else of the page runs
\* in between.
Idle == ~pasteDue

\* Something is copied on the host.
HostCopy(c) ==
  /\ Idle
  /\ c # hostClip
  /\ hostClip' = c
  /\ UNCHANGED <<keyVars, heldVars, pasteDue, syncedHostFp, advertVars, readVars, linkVars,
                 remoteVars, keys>>

\* onKeyDown and onKeyUp of Ctrl; without a session they do nothing
CtrlKey(down) ==
  /\ Idle
  /\ ctrl # down /\ Len(keys) < MaxKeys
  /\ ctrl' = down
  /\ keysDown' = IF up THEN down ELSE keysDown
  /\ keys' = IF up THEN Append(keys, Key("Ctrl", down)) ELSE keys
  /\ UNCHANGED <<vKey, pasteKeyUp, heldVars, pasteDue, syncedHostFp, advertVars, readVars,
                 linkVars, remoteVars, hostClip>>

\* onKeyDown of V without Ctrl
TypeV ==
  /\ Idle
  /\ up /\ ~ctrl /\ ~vKey /\ Len(keys) < MaxKeys
  /\ vKey' = TRUE
  /\ keys' = Append(keys, Key("V", TRUE))
  /\ UNCHANGED <<keysDown, ctrl, pasteKeyUp, heldVars, pasteDue, syncedHostFp, advertVars,
                 readVars, linkVars, remoteVars, hostClip>>

\* onKeyDown of Ctrl+V, a repeat of the keyboard included: the key is held.
PressPaste ==
  /\ Idle
  /\ up /\ ctrl /\ Len(keys) < MaxKeys
  /\ vKey' = TRUE
  /\ keys' = IF heldPaste # None THEN keys \o HeldKeys("nextPress", heldPaste.want) ELSE keys
  /\ heldPaste' = [ctrl |-> keysDown, want |-> {}]
  /\ pasteKeyUp' = TRUE
  /\ replayTimer' = "key"
  /\ pasteDue' = TRUE
  /\ UNCHANGED <<keysDown, ctrl, syncedHostFp, advertVars, readVars, linkVars, remoteVars,
                 hostClip>>

\* onKeyUp of V: swallowed when it pairs with a held paste key
ReleaseV ==
  /\ Idle
  /\ vKey /\ Len(keys) < MaxKeys
  /\ vKey' = FALSE
  /\ pasteKeyUp' = (pasteKeyUp /\ ~up)
  /\ keys' = IF up /\ ~pasteKeyUp THEN Append(keys, Key("V", FALSE)) ELSE keys
  /\ UNCHANGED <<keysDown, ctrl, heldVars, pasteDue, syncedHostFp, advertVars, readVars,
                 linkVars, remoteVars, hostClip>>

ReleaseAllModifiers ==
  /\ up /\ Len(keys) < MaxKeys
  /\ keysDown' = FALSE
  /\ keys' = Append(keys, Key("Ctrl", FALSE))
  /\ UNCHANGED <<pasteKeyUp, heldVars, pasteDue, syncedHostFp, advertVars, readVars,
                 linkVars, remoteVars, hostClip>>

\* The window loses the focus; the keys are let go elsewhere.
Blur ==
  /\ Idle
  /\ "blur" \in Features
  /\ ReleaseAllModifiers
  /\ ctrl' = FALSE
  /\ vKey' = FALSE

\* Ctrl+Shift+H and the like: the page releases Ctrl, the user still holds it.
Shortcut ==
  /\ Idle
  /\ "shortcut" \in Features /\ ctrl
  /\ ReleaseAllModifiers
  /\ UNCHANGED <<ctrl, vKey>>

-----------------------------------------------------------------------------
(* The page.                                                               *)

\* onPaste.  Bound: one file is read at a time.
PasteEvent ==
  /\ pasteDue
  /\ pasteDue' = FALSE
  /\ \/ /\ ~up \/ ~clipChannelReady \/ hostClip = syncedHostFp
        /\ SendHeldPaste("known", IF up /\ clipChannelReady THEN {hostClip} ELSE {})
        /\ UNCHANGED <<syncedHostFp, advertVars, filePaste>>
     \/ /\ up /\ clipChannelReady /\ hostClip # syncedHostFp
        /\ syncedHostFp' = hostClip
        /\ heldPaste' = [heldPaste EXCEPT !.want = {hostClip}]
        /\ keys' = Refreshed(hostClip)
        /\ \/ /\ hostClip \in Texts /\ RoomForList
              /\ Advertise(hostClip)
              /\ UNCHANGED filePaste
           \/ /\ hostClip \in Files /\ filePaste = None
              /\ filePaste' = hostClip
              /\ replayTimer' = None
              /\ UNCHANGED advertVars
  /\ UNCHANGED <<keyVars, clipCheckBusy, linkVars, remoteVars, hostClip>>

\* The browser does not fire it.
NoPasteEvent ==
  /\ pasteDue
  /\ pasteDue' = FALSE
  /\ UNCHANGED <<keyVars, heldVars, syncedHostFp, advertVars, readVars, linkVars, remoteVars,
                 hostClip, keys>>

\* Mutant of FileRead: a failed read is only logged.
FailedReadForgotten ==
  /\ Idle
  /\ filePaste # None
  /\ filePaste' = None
  /\ \/ /\ up /\ RoomForList
        /\ Advertise(filePaste)
        /\ UNCHANGED <<heldPaste, keys>>
     \/ UNCHANGED <<heldVars, keys, advertVars>>
  /\ UNCHANGED <<keyVars, pasteDue, syncedHostFp, clipCheckBusy, linkVars, remoteVars,
                 hostClip>>

\* arrayBuffer() settles.
FileRead ==
  /\ Idle
  /\ filePaste # None
  /\ filePaste' = None
  /\ \/ /\ up /\ RoomForList
        /\ Advertise(filePaste)
        /\ UNCHANGED <<heldPaste, keys>>
     \/ /\ ~up
        /\ UNCHANGED <<heldVars, keys, advertVars>>
     \/ /\ SendHeldPaste("readFailed", WantOf(heldPaste))
        /\ UNCHANGED advertVars
  /\ UNCHANGED <<keyVars, pasteDue, syncedHostFp, clipCheckBusy, linkVars, remoteVars,
                 hostClip>>

\* pasteReplayTimer fires.
ReplayTimer ==
  /\ Idle
  /\ replayTimer # None
  /\ SendHeldPaste("timer", WantOf(heldPaste))
  /\ UNCHANGED <<keyVars, pasteDue, syncedHostFp, advertVars, readVars, linkVars, remoteVars,
                 hostClip>>

\* checkHostClipboard up to its await
CheckHostClipboard ==
  /\ Idle
  /\ "readGranted" \in Features
  /\ up /\ clipChannelReady /\ ~clipCheckBusy
  /\ clipCheckBusy' = TRUE
  /\ UNCHANGED <<keyVars, heldVars, pasteDue, syncedHostFp, advertVars, filePaste, linkVars,
                 remoteVars, hostClip, keys>>

\* checkHostClipboard after readText()
HostClipboardRead ==
  /\ Idle
  /\ clipCheckBusy
  /\ clipCheckBusy' = FALSE
  /\ \/ /\ hostClip \in Texts /\ up /\ hostClip # syncedHostFp
        /\ RoomForList
        /\ syncedHostFp' = hostClip
        /\ heldPaste' = IF heldPaste = None THEN None
                        ELSE [heldPaste EXCEPT !.want = Newer(@, hostClip)]
        /\ keys' = Refreshed(hostClip)
        /\ Advertise(hostClip)
     \/ /\ ~(hostClip \in Texts /\ up /\ hostClip # syncedHostFp)
        /\ UNCHANGED <<syncedHostFp, advertVars, heldVars, keys>>
  /\ UNCHANGED <<keyVars, pasteDue, filePaste, linkVars, remoteVars, hostClip>>

\* Mutant of FormatListAck: it does not wait for the other lists in flight.
AckReleasesAtOnce ==
  /\ Idle
  /\ answers > 0
  /\ answers' = answers - 1
  /\ advertsInFlight' = IF advertsInFlight = 0 THEN 0 ELSE advertsInFlight - 1
  /\ IF heldPaste # None THEN SendHeldPaste("ack", WantOf(heldPaste)) ELSE UNCHANGED <<heldVars, keys>>
  /\ clipChannelReady' = TRUE
  /\ UNCHANGED <<clipCheckBusy, keyVars, pasteDue, syncedHostFp, pendingText, pendingFile, lists,
                 filePaste, up, channelOpen, remoteVars, hostClip>>

\* Mutant of FormatListAck: without a key to release it returns at once.
AckIgnoredUnlessHeld ==
  /\ Idle
  /\ answers > 0
  /\ answers' = answers - 1
  /\ IF heldPaste = None
     THEN UNCHANGED <<advertsInFlight, heldVars, keys>>
     ELSE /\ advertsInFlight' = IF advertsInFlight = 0 THEN 0 ELSE advertsInFlight - 1
          /\ IF advertsInFlight' = 0 THEN SendHeldPaste("ack", WantOf(heldPaste))
             ELSE UNCHANGED <<heldVars, keys>>
  /\ clipChannelReady' = TRUE
  /\ UNCHANGED <<clipCheckBusy, keyVars, pasteDue, syncedHostFp, pendingText, pendingFile, lists,
                 filePaste, up, channelOpen, remoteVars, hostClip>>

\* __rdp_format_list_ack, on the next Format List Response
FormatListAck ==
  /\ Idle
  /\ answers > 0
  /\ answers' = answers - 1
  /\ advertsInFlight' = IF advertsInFlight = 0 THEN 0 ELSE advertsInFlight - 1
  /\ IF advertsInFlight' = 0 /\ heldPaste # None THEN SendHeldPaste("ack", WantOf(heldPaste))
     ELSE UNCHANGED <<heldVars, keys>>
  /\ clipChannelReady' = TRUE
  /\ clipCheckBusy' = (clipCheckBusy \/ (~clipChannelReady /\ "readGranted" \in Features))
  /\ UNCHANGED <<keyVars, pasteDue, syncedHostFp, pendingText, pendingFile, lists, filePaste,
                 up, channelOpen, remoteVars, hostClip>>

\* A file is dropped on the desktop (its bytes have been read).
DropFile(f) ==
  /\ Idle
  /\ "drop" \in Features /\ up /\ RoomForList
  /\ SetPending(f)
  /\ UNCHANGED <<keyVars, heldVars, pasteDue, syncedHostFp, advertsInFlight, readVars,
                 linkVars, remoteVars, hostClip, keys>>

\* Mutant of Connected: the clipboard state of the last session survives.
ConnectedKeepsSync ==
  /\ Idle
  /\ ~up
  /\ up' = TRUE
  /\ channelOpen' = FALSE
  /\ UNCHANGED <<clipChannelReady, keyVars, heldVars, pasteDue, syncedHostFp, advertVars,
                 readVars, answers, remoteVars, hostClip, keys>>

\* A session starts; resetClipboardState ran when the last one was torn down.
Connected ==
  /\ Idle
  /\ ~up
  /\ up' = TRUE
  /\ clipChannelReady' = FALSE
  /\ channelOpen' = FALSE
  /\ heldPaste' = None /\ replayTimer' = None /\ pasteKeyUp' = FALSE /\ pasteDue' = FALSE
  /\ advertsInFlight' = 0 /\ keysDown' = FALSE /\ syncedHostFp' = None
  /\ UNCHANGED <<ctrl, vKey, pendingText, pendingFile, lists, readVars, answers, remoteVars,
                 hostClip, keys>>

\* on_request_format_list: the channel opens with a Format List of what is pending on the
\* WASM side.
ChannelOpens ==
  /\ up /\ ~channelOpen
  /\ channelOpen' = TRUE
  /\ lists' = Append(lists, IF pendingText # None THEN "text" ELSE "empty")
  /\ UNCHANGED <<up, clipChannelReady, keyVars, heldVars, pasteDue, syncedHostFp,
                 advertsInFlight, pendingText, pendingFile, readVars, answers, remoteVars,
                 hostClip, keys>>

\* The session is lost, with all that is on its way.
Lost ==
  /\ Idle
  /\ "reconnect" \in Features /\ up
  /\ up' = FALSE
  /\ keys' = << >> /\ lists' = << >> /\ answers' = 0
  /\ remoteCtrl' = FALSE /\ remoteClip' = Own
  /\ UNCHANGED <<clipChannelReady, channelOpen, keyVars, heldVars, pasteDue, syncedHostFp,
                 advertsInFlight, pendingText, pendingFile, readVars, pasted, hostClip>>

-----------------------------------------------------------------------------
(* The remote.                                                             *)

\* Its clipboard process handles a Format List, and answers it.
RemoteHandlesList ==
  /\ lists # << >>
  /\ remoteClip' = IF Head(lists) = "empty" THEN remoteClip ELSE Head(lists)
  /\ lists' = Tail(lists)
  /\ answers' = answers + 1
  /\ UNCHANGED <<keyVars, heldVars, pasteDue, syncedHostFp, advertsInFlight, pendingText,
                 pendingFile, readVars, up, clipChannelReady, channelOpen, remoteCtrl, pasted,
                 hostClip, keys>>

\* What a paste of the remote renders: on_format_data_request for a text.
Rendered ==
  CASE remoteClip = "text" -> pendingText
    [] remoteClip = "file" -> pendingFile
    [] OTHER -> remoteClip

\* Is that what was wanted, or something newer?
Outcome(want) == IF want = {} \/ Rendered \in want THEN "current" ELSE "stale"

\* Its desktop handles a key event; a paste key makes the application paste.
RemoteHandlesKey ==
  /\ keys # << >>
  /\ keys' = Tail(keys)
  /\ LET k == Head(keys) IN
     /\ remoteCtrl' = IF k.code = "Ctrl" THEN k.down ELSE remoteCtrl
     /\ IF k.cause = "typed"
        THEN UNCHANGED <<remoteClip, pasted>>
        ELSE /\ remoteClip' = IF remoteCtrl THEN Rendered ELSE remoteClip
             /\ pasted' = [cause |-> k.cause, mod |-> k.mod,
                           got |-> IF remoteCtrl THEN Outcome(k.want) ELSE "bare"]
  /\ UNCHANGED <<keyVars, heldVars, pasteDue, syncedHostFp, advertVars, readVars, linkVars,
                 hostClip>>

-----------------------------------------------------------------------------
Next ==
  \/ \E c \in Contents : HostCopy(c)
  \/ \E down \in BOOLEAN : CtrlKey(down)
  \/ TypeV \/ PressPaste \/ ReleaseV \/ Blur \/ Shortcut
  \/ PasteEvent \/ NoPasteEvent \/ FileRead \/ ReplayTimer
  \/ CheckHostClipboard \/ HostClipboardRead
  \/ FormatListAck
  \/ \E f \in Files : DropFile(f)
  \/ Connected \/ ChannelOpens \/ Lost
  \/ RemoteHandlesList \/ RemoteHandlesKey

Spec == Init /\ [][Next]_vars

-----------------------------------------------------------------------------
\* A paste key that the remote's acknowledgement released finds the content the
\* user pasted: that is what the key is held back for.
AckedPasteIsCurrent == pasted.cause = "ack" => pasted.got # "stale"

\* So does one that is released at once because its content is known to the remote.
KnownPasteIsCurrent == pasted.cause = "known" => pasted.got # "stale"

\* A paste key arrives with the modifier it was pressed with, also when the user has let
\* go of it, or the page has, by the time the key is sent.
HeldModifierArrives == pasted.mod => pasted.got # "bare"

\* It always arrives with its modifier: "otherwise a quick Ctrl+V tap arrives as a bare v".
NeverBare == pasted.cause # "typed" => pasted.got # "bare"

\* A held paste key always has something that will release it: the fallback timer,
\* or the file that is being read for it.
HeldIsBacked == up /\ heldPaste # None => replayTimer # None \/ filePaste # None

\* "Our Format Lists the remote has not answered yet".
AdvertsCounted == up /\ clipChannelReady => advertsInFlight = Len(lists) + answers

\* A text the page takes as known to the session has been advertised in it: the
\* fingerprint is that of what "we advertised, or it came from the session".
SyncedIsTold == up /\ syncedHostFp \in Texts => lists # << >> \/ remoteClip # Own

\* The same of a file, once its read has settled.
FileIsTold ==
  up /\ syncedHostFp \in Files /\ filePaste = None => lists # << >> \/ remoteClip # Own

\* No Format List goes out ahead of the one that opens the channel.
SyncWaitsForChannel == lists # << >> => channelOpen

\* The remote's clipboard is taken over only by what the page advertises: "an in-session
\* copy leaves the host unchanged, so it is never overwritten".
NeverOverwritten == up /\ remoteClip \in Formats => syncedHostFp # None

\* A keyup is swallowed only while the paste key it pairs with is held.
SwallowPairs == pasteKeyUp => vKey

=============================================================================
