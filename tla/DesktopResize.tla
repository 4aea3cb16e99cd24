--------------------------- MODULE DesktopResize ---------------------------
(***************************************************************************)
(* How the remote desktop follows the browser viewport: the debounced      *)
(* resize of web/app.js, its deferral until the DisplayControl channel is  *)
(* open, the watchdog of an unanswered request, and the asynchronous       *)
(* answers of the server, over reconnects and redirects.                   *)
(*                                                                         *)
(* One dimension stands for both.  Left out: multi-monitor and RemoteApp   *)
(* sessions, where sendResize returns at once, and the CSS scaling.  A     *)
(* server is taken to grant the size it is asked for at connect, and to    *)
(* answer or ignore resize requests in order.                              *)
(***************************************************************************)
EXTENDS Naturals, Sequences

CONSTANTS
  Widths,      \* widths the viewport can have, in CSS pixels
  Dpr,         \* sessionDpr
  Moves,       \* when the viewport may also move: a subset of {"connecting", "in flight"}
  MaxTimers,   \* bound: debounce timers armed at the same time
  MaxRequests  \* bound: the viewport does not move while that many requests are unanswered

ASSUME ResizeAssumption ==
  /\ Widths \subseteq Nat \ {0}
  /\ Dpr \in {1, 2}
  /\ Moves \subseteq {"connecting", "in flight"}
  /\ MaxTimers \in Nat \ {0}
  /\ MaxRequests \in Nat \ {0}

Null == 0

VARIABLES
  viewport,      \* window.innerWidth
  link,          \* "down", "connecting", or "up": session is not null
  asked,         \* the width passed to wasm.connect
  negotiated,    \* negotiatedDesktop, the last size the server confirmed
  desired,       \* desiredSize
  dispReady,
  resizeTimer,   \* does the handle name an armed debounce timer?
  resizeTimers,  \* debounce timers armed
  watchdog,      \* is resizeWatchdog armed?
  status,        \* resizeStatus
  channel,       \* has the current session's DisplayControl channel received its caps?
  requests,      \* layouts sent by the current session that the server has not handled
  ignored        \* history: the last layout the server handled, it ignored

timerVars == <<resizeTimer, resizeTimers>>
resizeVars == <<viewport, link, asked, negotiated, desired, dispReady, timerVars, watchdog,
                status, channel, requests, ignored>>

Statuses == {"--", "Negotiating", "Ready", "Waiting", "Requesting", "OK", "Ignored"}

SizesOK ==
  /\ viewport \in Widths
  /\ asked \in Nat
  /\ negotiated \in Nat
  /\ desired \in Nat
  /\ requests \in Seq(Nat)

FlagsOK ==
  /\ link \in {"down", "connecting", "up"}
  /\ dispReady \in BOOLEAN
  /\ watchdog \in BOOLEAN
  /\ status \in Statuses
  /\ channel \in BOOLEAN
  /\ ignored \in BOOLEAN

TimersOK ==
  /\ resizeTimer \in BOOLEAN
  /\ resizeTimers \in Nat
  /\ resizeTimer => resizeTimers > 0

ResizeTypeOK == SizesOK /\ FlagsOK /\ TimersOK

ResizeInit ==
  /\ viewport \in Widths
  /\ link = "down"
  /\ asked = Null
  /\ negotiated = Null
  /\ desired = Null
  /\ dispReady = FALSE
  /\ resizeTimer = FALSE
  /\ resizeTimers = 0
  /\ watchdog = FALSE
  /\ status = "--"
  /\ channel = FALSE
  /\ requests = << >>
  /\ ignored = FALSE

-----------------------------------------------------------------------------
\* MS-RDPEDISP: 200..8192, and not odd.
Clamp(w) == IF w < 200 THEN 200 ELSE IF w > 8192 THEN 8192 ELSE w
Target(v) == LET w == Clamp(v * Dpr) IN w - (w % 2)

\* Mutant of SendResize: the watchdog is armed for the first request only.
SendUnwatched(ready, st) ==
  /\ resizeTimer' = FALSE
  /\ \/ /\ link # "up" \/ negotiated = Target(viewport)
        /\ status' = st
        /\ UNCHANGED <<desired, watchdog, requests, ignored>>
     \/ /\ link = "up" /\ negotiated # Target(viewport)
        /\ desired' = Target(viewport)
        /\ IF ready
           THEN /\ status' = "Requesting"
                /\ watchdog' = (desired = Null)
                /\ requests' = Append(requests, Target(viewport))
                /\ ignored' = FALSE
           ELSE status' = "Waiting" /\ UNCHANGED <<watchdog, requests, ignored>>

\* sendResize, called with dispReady = ready and the status at st
SendResize(ready, st) ==
  /\ resizeTimer' = FALSE
  /\ \/ /\ link # "up" \/ negotiated = Target(viewport)
        /\ status' = st
        /\ UNCHANGED <<desired, watchdog, requests, ignored>>
     \/ /\ link = "up" /\ negotiated # Target(viewport)
        /\ desired' = Target(viewport)
        /\ \/ /\ ~ready
              /\ status' = "Waiting"
              /\ UNCHANGED <<watchdog, requests, ignored>>
           \/ /\ ready
              /\ status' = "Requesting"
              /\ watchdog' = TRUE
              /\ requests' = Append(requests, Target(viewport))
              /\ ignored' = FALSE

-----------------------------------------------------------------------------
\* onViewportChanged: without a session the change is not noticed.
ViewportChanged(v) ==
  /\ link = "connecting" => "connecting" \in Moves
  /\ requests # << >> => "in flight" \in Moves /\ Len(requests) < MaxRequests
  /\ resizeTimers < MaxTimers
  /\ v # viewport
  /\ viewport' = v
  /\ IF link = "up"
     THEN /\ resizeTimers' = IF resizeTimer THEN resizeTimers ELSE resizeTimers + 1
          /\ resizeTimer' = TRUE
     ELSE UNCHANGED timerVars
  /\ UNCHANGED <<link, asked, negotiated, desired, dispReady, watchdog, status, channel,
                 requests, ignored>>

\* A debounce timer fires, the one the handle names or one it no longer names.
DebounceTimer ==
  /\ resizeTimers > 0
  /\ resizeTimers' = resizeTimers - 1
  /\ SendResize(dispReady, status)
  /\ UNCHANGED <<viewport, link, asked, negotiated, dispReady, channel>>

WatchdogFires ==
  /\ watchdog
  /\ watchdog' = FALSE
  /\ status' = "Ignored"
  /\ UNCHANGED <<viewport, link, asked, negotiated, desired, dispReady, timerVars, channel,
                 requests, ignored>>

\* Mutant of DisplayControlReady: the deferred size is not sent.
ReadyWithoutFlush ==
  /\ link = "up" /\ ~channel
  /\ channel' = TRUE
  /\ dispReady' = TRUE
  /\ status' = "Ready"
  /\ UNCHANGED <<viewport, link, asked, negotiated, desired, timerVars, watchdog, requests,
                 ignored>>

\* The DisplayControl caps arrive: __rdp_display_control_ready.
DisplayControlReady ==
  /\ link = "up" /\ ~channel
  /\ channel' = TRUE
  /\ dispReady' = TRUE
  /\ \/ /\ desired # Null /\ negotiated # Null /\ desired # negotiated
        /\ SendResize(TRUE, "Ready")
        /\ UNCHANGED resizeTimers
     \/ /\ ~(desired # Null /\ negotiated # Null /\ desired # negotiated)
        /\ status' = "Ready"
        /\ UNCHANGED <<desired, timerVars, watchdog, requests, ignored>>
  /\ UNCHANGED <<viewport, link, asked, negotiated>>

\* __rdp_desktop_resized(w): called for ResetGraphics and for a reactivation
DesktopResized(w) ==
  /\ watchdog' = FALSE
  /\ negotiated' = w
  /\ status' = "OK"

\* The server applies the next layout.
ServerApplies ==
  /\ link = "up" /\ requests # << >>
  /\ DesktopResized(Head(requests))
  /\ requests' = Tail(requests)
  /\ ignored' = FALSE
  /\ UNCHANGED <<viewport, link, asked, desired, dispReady, timerVars, channel>>

\* The server resets the graphics at the size the desktop has.
ServerResetsGraphics ==
  /\ link = "up"
  /\ DesktopResized(negotiated)
  /\ UNCHANGED <<viewport, link, asked, desired, dispReady, timerVars, channel, requests,
                 ignored>>

\* The server ignores the next layout.
ServerIgnores ==
  /\ link = "up" /\ requests # << >>
  /\ requests' = Tail(requests)
  /\ ignored' = TRUE
  /\ UNCHANGED <<viewport, link, asked, negotiated, desired, dispReady, timerVars, watchdog,
                 status, channel>>

-----------------------------------------------------------------------------
\* doConnect up to its await, at login or in a reconnect
Connect ==
  /\ link = "down"
  /\ link' = "connecting"
  /\ asked' = viewport * Dpr
  /\ UNCHANGED <<viewport, negotiated, desired, dispReady, timerVars, watchdog, status,
                 channel, requests, ignored>>

\* The session is gone: its channels and requests with it.
Drop ==
  /\ channel' = FALSE
  /\ requests' = << >>
  /\ ignored' = FALSE

\* A Server Redirection: doConnectRedirected up to its await.
Redirect ==
  /\ link = "up"
  /\ link' = "connecting"
  /\ asked' = viewport
  /\ Drop
  /\ UNCHANGED <<viewport, negotiated, desired, dispReady, timerVars, watchdog, status>>

\* Mutant of Connected: dispReady survives from the previous session.
ConnectedKeepsReady ==
  /\ link = "connecting"
  /\ link' = "up"
  /\ negotiated' = asked
  /\ desired' = Null
  /\ watchdog' = FALSE
  /\ status' = "Negotiating"
  /\ UNCHANGED <<viewport, asked, dispReady, timerVars, channel, requests, ignored>>

\* doConnect or doConnectRedirected after its await.
Connected ==
  /\ link = "connecting"
  /\ link' = "up"
  /\ negotiated' = asked
  /\ dispReady' = FALSE
  /\ desired' = Null
  /\ watchdog' = FALSE
  /\ status' = "Negotiating"
  /\ UNCHANGED <<viewport, asked, timerVars, channel, requests, ignored>>

ConnectFails ==
  /\ link = "connecting"
  /\ link' = "down"
  /\ UNCHANGED <<viewport, asked, negotiated, desired, dispReady, timerVars, watchdog,
                 status, channel, requests, ignored>>

\* The session is lost and will be reconnected: nothing is reset here.
Lost ==
  /\ link = "up"
  /\ link' = "down"
  /\ Drop
  /\ UNCHANGED <<viewport, asked, negotiated, desired, dispReady, timerVars, watchdog, status>>

\* clearTimeout(resizeTimer); resizeTimer = null
ClearResizeTimer ==
  /\ resizeTimers' = IF resizeTimer THEN resizeTimers - 1 ELSE resizeTimers
  /\ resizeTimer' = FALSE

\* cleanupSession, with or without a session; a connect in flight stays in flight.
CleanupSession ==
  /\ link' = IF link = "up" THEN "down" ELSE link
  /\ Drop
  /\ dispReady' = FALSE
  /\ desired' = Null
  /\ negotiated' = Null
  /\ ClearResizeTimer
  /\ watchdog' = FALSE
  /\ status' = "--"
  /\ UNCHANGED <<viewport, asked>>

ResizeNext ==
  \/ \E v \in Widths : ViewportChanged(v)
  \/ DebounceTimer
  \/ WatchdogFires
  \/ DisplayControlReady
  \/ ServerApplies
  \/ ServerResetsGraphics
  \/ ServerIgnores
  \/ Connect
  \/ Redirect
  \/ Connected
  \/ ConnectFails
  \/ Lost
  \/ CleanupSession

ResizeSpec == ResizeInit /\ [][ResizeNext]_resizeVars

-----------------------------------------------------------------------------
\* Once nothing is under way (no debounce timer, no unanswered layout, the channel
\* open, the server not ignoring layouts) the desktop has the size of the viewport,
\* as a connect asks for it or as sendResize does: "The desktop follows the browser
\* viewport".  In particular a size deferred until the channel opens is not lost.
DesktopFollowsViewport ==
  link = "up" /\ dispReady /\ resizeTimers = 0 /\ requests = << >> /\ ~ignored =>
     negotiated \in {viewport * Dpr, Target(viewport)}

\* No layout is sent before the current session's channel is open, where
\* run_session would drop it ("displaycontrol not available"), not even when the
\* previous session's channel was open.
NeverDropped == requests # << >> => channel

\* The HUD never says "Requesting" without a watchdog that will correct it.
RequestWatched == status = "Requesting" => watchdog

\* A layout the server ignored is noticed: the watchdog is armed for it or has
\* reported it in the HUD.
IgnoredIsNoticed == ignored /\ requests = << >> => watchdog \/ status = "Ignored"

=============================================================================
