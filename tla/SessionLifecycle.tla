-------------------------- MODULE SessionLifecycle --------------------------
(***************************************************************************)
(* The life of a session as web/app.js and wasm/src/session.rs share it.   *)
(*                                                                         *)
(* app.js keeps one global handle, "session", a login screen, a desktop    *)
(* screen with a "Connection Lost" overlay on it, and a handful of timers. *)
(* Each wasm.connect() starts an asynchronous connect; when it succeeds    *)
(* the WASM side spawns the run_session task of the new session BEFORE the *)
(* awaiting JavaScript continuation runs, and that task reports its end    *)
(* through the global callback __rdp_session_ended(reason), which does not *)
(* say which session ended.  A Session handle that JavaScript drops keeps  *)
(* its task: only the remote end, or a Terminate input, ends it.           *)
(*                                                                         *)
(* Left out: the DOM other than the two screens and the overlay, monitor   *)
(* popups, audio, clipboard (other modules), and the closing of the page.  *)
(* The window manager of a RemoteApp is reduced to whether there are       *)
(* windows, whether one is on screen, and whether one ever was.            *)
(***************************************************************************)
EXTENDS Naturals

CONSTANTS
  Sessions,              \* slots for WASM sessions; a slot is reused once its session is gone
  NoSession,             \* JavaScript null
  MaxReconnectAttempts,  \* MAX_RECONNECT_ATTEMPTS
  MaxFlaps,              \* MAX_FLAPS
  RailPrograms,          \* whether the login form may select a RemoteApp: a subset of BOOLEAN
  MaxTimers              \* bound: timers of one kind that are armed at the same time

ASSUME ConstantsAssumption ==
  /\ NoSession \notin Sessions
  /\ MaxReconnectAttempts \in Nat \ {0}
  /\ MaxFlaps \in Nat \ {0}
  /\ RailPrograms \in SUBSET BOOLEAN
  /\ MaxTimers \in Nat \ {0}

VARIABLES
  (* the WASM side, per session slot *)
  task,              \* "idle", "connecting" (the connect future), "running" (run_session)
  railMode,          \* the session was opened with a RemoteApp program
  closing,           \* a Terminate input is queued: shutdown() was called
  (* JavaScript continuations awaiting the connect promise of a slot *)
  caller,            \* "none", "login", "reconnect" or "redirect"
  (* app.js globals *)
  session,
  savedCredentials,  \* are there credentials to reconnect with?
  isUserDisconnect,
  reconnectAttempt,
  reconnectTimer,    \* does the handle name an armed timer?
  retryTimers,       \* reconnect timers armed, the one the handle names included
  giveUpTimers,      \* 3 s timers of the last failed attempt, which nothing cancels
  railKillTimers,    \* 50 ms disconnect timers of a failed RemoteApp launch
  flapCount,
  recentlyConnected, \* Date.now() - connectedAt < FLAP_WINDOW_MS
  (* screens *)
  screen,            \* "login" or "desktop"
  overlay,           \* the reconnect overlay is not hidden
  connecting,        \* the Connect button is disabled
  (* RemoteApp *)
  railProgram,       \* was a program selected at the last login?
  railInUse,
  railWindows,       \* "none", "hidden" (none of them on screen) or "shown"
  railHadAppWindow,
  railExitTimer,
  (* history *)
  stop               \* who stopped the last session for good, until a session starts again

wasmVars   == <<task, railMode, closing>>
policyVars == <<savedCredentials, isUserDisconnect>>
retryVars  == <<reconnectAttempt, reconnectTimer, retryTimers, flapCount>>
screenVars == <<screen, overlay, connecting>>
railVars   == <<railProgram, railInUse, railWindows, railHadAppWindow, railExitTimer>>
vars == <<wasmVars, caller, session, policyVars, retryVars, giveUpTimers,
          railKillTimers, recentlyConnected, screenVars, railVars, stop>>

WasmTypeOK ==
  /\ task \in [Sessions -> {"idle", "connecting", "running"}]
  /\ railMode \in [Sessions -> BOOLEAN]
  /\ closing \in [Sessions -> BOOLEAN]
  /\ caller \in [Sessions -> {"none", "login", "reconnect", "redirect"}]

RetryTypeOK ==
  /\ reconnectAttempt \in 0 .. MaxReconnectAttempts
  /\ reconnectTimer \in BOOLEAN
  /\ retryTimers \in Nat
  /\ reconnectTimer => retryTimers > 0
  /\ flapCount \in 0 .. MaxFlaps - 1
  /\ giveUpTimers \in Nat
  /\ railKillTimers \in Nat

AppTypeOK ==
  /\ session \in Sessions \cup {NoSession}
  /\ savedCredentials \in BOOLEAN
  /\ isUserDisconnect \in BOOLEAN
  /\ recentlyConnected \in BOOLEAN
  /\ screen \in {"login", "desktop"}
  /\ overlay \in BOOLEAN
  /\ connecting \in BOOLEAN
  /\ railProgram \in BOOLEAN
  /\ railInUse \in BOOLEAN
  /\ railWindows \in {"none", "hidden", "shown"}
  /\ railHadAppWindow \in BOOLEAN
  /\ railExitTimer \in BOOLEAN
  /\ stop \in {"none", "user", "host"}

TypeOK == WasmTypeOK /\ RetryTypeOK /\ AppTypeOK

Init ==
  /\ task = [s \in Sessions |-> "idle"]
  /\ railMode = [s \in Sessions |-> FALSE]
  /\ closing = [s \in Sessions |-> FALSE]
  /\ caller = [s \in Sessions |-> "none"]
  /\ session = NoSession
  /\ savedCredentials = FALSE
  /\ isUserDisconnect = FALSE
  /\ reconnectAttempt = 0
  /\ reconnectTimer = FALSE
  /\ retryTimers = 0
  /\ giveUpTimers = 0
  /\ railKillTimers = 0
  /\ flapCount = 0
  /\ recentlyConnected = FALSE
  /\ screen = "login"
  /\ overlay = FALSE
  /\ connecting = FALSE
  /\ railProgram = FALSE
  /\ railInUse = FALSE
  /\ railWindows = "none"
  /\ railHadAppWindow = FALSE
  /\ railExitTimer = FALSE
  /\ stop = "none"

-----------------------------------------------------------------------------
(* The functions the handlers call.                                        *)

\* A slot whose session is gone and whose continuation has run.
Free(s) == task[s] = "idle" /\ caller[s] = "none"

\* cleanupSession, teardownRailWindows included
CleanupSession ==
  /\ screen' = "login"
  /\ overlay' = FALSE
  /\ connecting' = FALSE
  /\ railInUse' = FALSE
  /\ railWindows' = "none"
  /\ railHadAppWindow' = FALSE
  /\ railExitTimer' = FALSE
  /\ UNCHANGED railProgram

\* Mutant of CancelReconnect: the handle is not cleared.
CancelKeepsHandle ==
  /\ retryTimers' = IF reconnectTimer THEN retryTimers - 1 ELSE retryTimers
  /\ reconnectAttempt' = 0
  /\ flapCount' = 0
  /\ UNCHANGED reconnectTimer

\* cancelReconnect: clears the timer the handle names, if any
CancelReconnect ==
  /\ retryTimers' = IF reconnectTimer THEN retryTimers - 1 ELSE retryTimers
  /\ reconnectTimer' = FALSE
  /\ reconnectAttempt' = 0
  /\ flapCount' = 0

\* attemptReconnect up to its setTimeout.  It does not clear a timer that is
\* already armed: the handle then names the new one only.
AttemptReconnect ==
  \/ /\ ~savedCredentials \/ isUserDisconnect
     /\ UNCHANGED <<reconnectAttempt, reconnectTimer, retryTimers, giveUpTimers>>
  \/ /\ savedCredentials /\ ~isUserDisconnect
     /\ reconnectAttempt >= MaxReconnectAttempts
     /\ giveUpTimers < MaxTimers
     /\ giveUpTimers' = giveUpTimers + 1
     /\ UNCHANGED <<reconnectAttempt, reconnectTimer, retryTimers>>
  \/ /\ savedCredentials /\ ~isUserDisconnect
     /\ reconnectAttempt < MaxReconnectAttempts
     /\ retryTimers < MaxTimers
     /\ reconnectAttempt' = reconnectAttempt + 1
     /\ retryTimers' = retryTimers + 1
     /\ reconnectTimer' = TRUE
     /\ UNCHANGED giveUpTimers

\* wasm.connect / wasm.connect_redirected called for slot s, awaited by c
StartConnect(s, c, rail) ==
  /\ Free(s)
  /\ task' = [task EXCEPT ![s] = "connecting"]
  /\ caller' = [caller EXCEPT ![s] = c]
  /\ railMode' = [railMode EXCEPT ![s] = rail]
  /\ UNCHANGED closing

\* Mutant of DisconnectSession: the handle is dropped without shutdown().
DisconnectWithoutShutdown ==
  /\ isUserDisconnect' = TRUE
  /\ CancelReconnect
  /\ session' = NoSession
  /\ savedCredentials' = FALSE
  /\ CleanupSession
  /\ stop' = "user"
  /\ UNCHANGED <<wasmVars, caller, giveUpTimers, recentlyConnected>>

\* disconnect: shuts the current session down, if any, and forgets it
DisconnectSession ==
  /\ isUserDisconnect' = TRUE
  /\ CancelReconnect
  /\ closing' = IF session = NoSession THEN closing
                ELSE [closing EXCEPT ![session] = task[session] = "running"]
  /\ session' = NoSession
  /\ savedCredentials' = FALSE
  /\ CleanupSession
  /\ stop' = "user"
  /\ UNCHANGED <<task, railMode, caller, giveUpTimers, recentlyConnected>>

-----------------------------------------------------------------------------
(* Connecting.                                                             *)

\* The user submits the login form.
Submit(s, rail) ==
  /\ screen = "login" /\ ~connecting
  /\ session # s
  /\ StartConnect(s, "login", rail)
  /\ railProgram' = rail
  /\ connecting' = TRUE
  /\ flapCount' = 0
  /\ stop' = "none"
  /\ UNCHANGED <<session, policyVars, reconnectAttempt, reconnectTimer, retryTimers,
                 giveUpTimers, railKillTimers, recentlyConnected, screen, overlay, railInUse, railWindows,
                 railHadAppWindow, railExitTimer>>

\* connect succeeds: run_session is spawned, then the promise is resolved.
\* The continuation that awaits it runs later (Continue).
ConnectOk(s) ==
  /\ task[s] = "connecting"
  /\ task' = [task EXCEPT ![s] = "running"]
  /\ UNCHANGED <<railMode, closing, caller, session, policyVars, retryVars, giveUpTimers,
                 railKillTimers, recentlyConnected, screenVars, railVars, stop>>

\* Mutant of ConnectFails: the reconnect's catch block does not try again.
FailWithoutRetry(s) ==
  /\ task[s] = "connecting"
  /\ task' = [task EXCEPT ![s] = "idle"]
  /\ caller' = [caller EXCEPT ![s] = "none"]
  /\ IF caller[s] = "redirect" THEN CleanupSession
     ELSE /\ connecting' = FALSE
          /\ UNCHANGED <<screen, overlay, railVars>>
  /\ UNCHANGED <<railMode, closing, session, policyVars, retryVars, giveUpTimers,
                 railKillTimers, recentlyConnected, stop>>

\* connect rejects: the catch block of the function that awaited it.
ConnectFails(s) ==
  /\ task[s] = "connecting"
  /\ task' = [task EXCEPT ![s] = "idle"]
  /\ caller' = [caller EXCEPT ![s] = "none"]
  /\ \/ /\ caller[s] = "login"
        /\ connecting' = FALSE
        /\ UNCHANGED <<retryVars, giveUpTimers, screen, overlay, railVars>>
     \/ /\ caller[s] = "reconnect"
        /\ AttemptReconnect
        /\ UNCHANGED <<flapCount, screenVars, railVars>>
     \/ /\ caller[s] = "redirect"
        /\ CleanupSession
        /\ UNCHANGED <<retryVars, giveUpTimers>>
  /\ UNCHANGED <<railMode, closing, session, policyVars, railKillTimers,
                 recentlyConnected, stop>>

\* What doConnect does after its await.
DoConnect(s) ==
  /\ caller[s] \in {"login", "reconnect"}
  /\ railInUse' = railProgram
  /\ savedCredentials' = TRUE
  /\ isUserDisconnect' = FALSE
  /\ reconnectAttempt' = 0

\* What doConnectRedirected does after its await: the policy state stays.
DoConnectRedirected(s) ==
  /\ caller[s] = "redirect"
  /\ UNCHANGED <<railInUse, policyVars, reconnectAttempt>>

\* The awaiting continuation runs; the session may already have ended.
Continue(s) ==
  /\ caller[s] # "none" /\ task[s] # "connecting"
  /\ caller' = [caller EXCEPT ![s] = "none"]
  /\ session' = s
  /\ DoConnect(s) \/ DoConnectRedirected(s)
  /\ recentlyConnected' = TRUE
  /\ screen' = "desktop"
  /\ overlay' = FALSE
  /\ stop' = "none"
  /\ UNCHANGED <<wasmVars, reconnectTimer, retryTimers, flapCount, giveUpTimers,
                 railKillTimers, connecting, railProgram, railWindows, railHadAppWindow,
                 railExitTimer>>

\* The session has been up for FLAP_WINDOW_MS.
FlapWindowPasses ==
  /\ recentlyConnected
  /\ recentlyConnected' = FALSE
  /\ UNCHANGED <<wasmVars, caller, session, policyVars, retryVars, giveUpTimers,
                 railKillTimers, screenVars, railVars, stop>>

-----------------------------------------------------------------------------
(* __rdp_session_ended(reason), called by the run_session task of s.       *)

RailExited(reason) ==
  /\ railInUse /\ railWindows = "none" /\ ~isUserDisconnect
  /\ reason \in {"server_disconnect", "connection_lost"}

\* Server Redirection: connect again at once, to the redirect target.
EndRedirected(s, reason) ==
  /\ reason = "redirected"
  /\ \E r \in Sessions :
        /\ caller[r] = "none" /\ (task[r] = "idle" \/ r = s)
        /\ task' = [task EXCEPT ![s] = "idle", ![r] = "connecting"]
        /\ railMode' = [railMode EXCEPT ![r] = FALSE]
        /\ caller' = [caller EXCEPT ![r] = "redirect"]
  /\ UNCHANGED <<retryVars, giveUpTimers, screenVars, railVars, stop>>

\* The published app exited, or the host ended the session: back to login.
EndByHost(s, reason) ==
  /\ \/ RailExited(reason)
     \/ reason \in {"session_replaced", "server_disconnect"} /\ ~isUserDisconnect
  /\ task' = [task EXCEPT ![s] = "idle"]
  /\ CancelReconnect
  /\ CleanupSession
  /\ stop' = "host"
  /\ UNCHANGED <<railMode, caller, giveUpTimers>>

\* Mutant of EndLost: the flap branch does not return.
EndLostFallsThrough(s, reason) ==
  /\ reason = "connection_lost" /\ ~RailExited(reason)
  /\ savedCredentials /\ ~isUserDisconnect
  /\ task' = [task EXCEPT ![s] = "idle"]
  /\ LET flapping == recentlyConnected /\ flapCount + 1 >= MaxFlaps IN
     /\ flapCount' = IF recentlyConnected /\ ~flapping THEN flapCount + 1 ELSE 0
     /\ stop' = IF flapping THEN "host" ELSE stop
  /\ overlay' = TRUE
  /\ AttemptReconnect
  /\ UNCHANGED <<railMode, caller, screen, connecting, railVars>>

\* An unexpected loss: reconnect, unless the session keeps dropping.
EndLost(s, reason) ==
  /\ reason = "connection_lost" /\ ~RailExited(reason)
  /\ savedCredentials /\ ~isUserDisconnect
  /\ task' = [task EXCEPT ![s] = "idle"]
  /\ \/ /\ recentlyConnected /\ flapCount + 1 >= MaxFlaps
        /\ CancelReconnect
        /\ CleanupSession
        /\ stop' = "host"
        /\ UNCHANGED giveUpTimers
     \/ /\ ~(recentlyConnected /\ flapCount + 1 >= MaxFlaps)
        /\ flapCount' = IF recentlyConnected THEN flapCount + 1 ELSE 0
        /\ overlay' = TRUE
        /\ AttemptReconnect
        /\ UNCHANGED <<screen, connecting, railVars, stop>>
  /\ UNCHANGED <<railMode, caller>>

\* Mutant of EndOther: the screens are not cleaned up.
EndOtherKeepsScreen(s, reason) ==
  /\ reason \in {"user_disconnect", "connection_lost"}
  /\ reason = "connection_lost" => ~savedCredentials \/ isUserDisconnect
  /\ ~RailExited(reason)
  /\ task' = [task EXCEPT ![s] = "idle"]
  /\ UNCHANGED <<railMode, caller, retryVars, giveUpTimers, screenVars, railVars, stop>>

\* User-initiated or unrecoverable: back to login.
EndOther(s, reason) ==
  /\ \/ reason = "user_disconnect"
     \/ reason \in {"session_replaced", "server_disconnect"} /\ isUserDisconnect
     \/ reason = "connection_lost" /\ (~savedCredentials \/ isUserDisconnect)
  /\ ~RailExited(reason)
  /\ task' = [task EXCEPT ![s] = "idle"]
  /\ CleanupSession
  /\ UNCHANGED <<railMode, caller, retryVars, giveUpTimers, stop>>

EndReasons == {"redirected", "session_replaced", "server_disconnect",
               "user_disconnect", "connection_lost"}

SessionEnded(s) ==
  /\ task[s] = "running"
  /\ session' = NoSession
  /\ closing' = [closing EXCEPT ![s] = FALSE]
  /\ \E reason \in EndReasons :
        \/ EndRedirected(s, reason)
        \/ EndByHost(s, reason)
        \/ EndLost(s, reason)
        \/ EndOther(s, reason)
  /\ UNCHANGED <<policyVars, railKillTimers, recentlyConnected>>

-----------------------------------------------------------------------------
(* Timers and the user.                                                    *)

\* The reconnect timer fires: any armed one, the handle is cleared first.
RetryTimer(s) ==
  /\ retryTimers > 0
  /\ retryTimers' = retryTimers - 1
  /\ reconnectTimer' = FALSE
  /\ \/ /\ savedCredentials /\ ~isUserDisconnect
        /\ session' = NoSession
        /\ StartConnect(s, "reconnect", railProgram)
     \/ /\ ~savedCredentials \/ isUserDisconnect
        /\ UNCHANGED <<session, wasmVars, caller>>
  /\ UNCHANGED <<policyVars, reconnectAttempt, flapCount, giveUpTimers, railKillTimers,
                 recentlyConnected, screenVars, railVars, stop>>

\* Mutant of GiveUpTimer: a retry that was armed since is not cancelled.
GiveUpKeepsTimer ==
  /\ giveUpTimers > 0
  /\ giveUpTimers' = giveUpTimers - 1
  /\ savedCredentials' = FALSE
  /\ CleanupSession
  /\ UNCHANGED <<wasmVars, caller, session, isUserDisconnect, retryVars, railKillTimers,
                 recentlyConnected, stop>>

\* Mutant of GiveUpTimer: the overlay is not taken down.
GiveUpKeepsOverlay ==
  /\ giveUpTimers > 0
  /\ giveUpTimers' = giveUpTimers - 1
  /\ CancelReconnect
  /\ savedCredentials' = FALSE
  /\ UNCHANGED <<wasmVars, caller, session, isUserDisconnect, railKillTimers,
                 recentlyConnected, screenVars, railVars, stop>>

\* 3 s after the last attempt failed.
GiveUpTimer ==
  /\ giveUpTimers > 0
  /\ giveUpTimers' = giveUpTimers - 1
  /\ CancelReconnect
  /\ savedCredentials' = FALSE
  /\ CleanupSession
  /\ UNCHANGED <<wasmVars, caller, session, isUserDisconnect, railKillTimers,
                 recentlyConnected, stop>>

\* The Cancel button of the overlay.
ClickCancel ==
  /\ screen = "desktop" /\ overlay
  /\ CancelReconnect
  /\ savedCredentials' = FALSE
  /\ CleanupSession
  /\ stop' = "user"
  /\ UNCHANGED <<wasmVars, caller, session, isUserDisconnect, giveUpTimers,
                 railKillTimers, recentlyConnected>>

\* The toolbar button (shown with the desktop, hidden by the overlay) or its shortcut.
ClickDisconnect ==
  /\ screen = "desktop" /\ ~overlay
  /\ DisconnectSession
  /\ UNCHANGED railKillTimers

-----------------------------------------------------------------------------
(* RemoteApp orders of a session, and the timers they arm.                 *)

\* Every order about a window looks whether that window is on screen now.
RailWindow(s) ==
  /\ task[s] = "running" /\ railMode[s]
  /\ \/ /\ railWindows' = "shown"
        /\ railHadAppWindow' = TRUE
        /\ railExitTimer' = FALSE
     \/ /\ railWindows' \in {"hidden", railWindows} \ {"none"}
        /\ railExitTimer' = TRUE
        /\ UNCHANGED railHadAppWindow
  /\ UNCHANGED <<wasmVars, caller, session, policyVars, retryVars, giveUpTimers, railProgram,
                 railInUse, railKillTimers, recentlyConnected, screenVars, stop>>

\* One of the windows is deleted; others may remain.
RailWindowDeleted(s) ==
  /\ task[s] = "running" /\ railMode[s] /\ railWindows # "none"
  /\ railWindows' \in {"none", "hidden", railWindows}
  /\ railExitTimer' = TRUE
  /\ UNCHANGED <<wasmVars, caller, session, policyVars, retryVars, giveUpTimers, railProgram,
                 railInUse, railHadAppWindow, railKillTimers, recentlyConnected, screenVars,
                 stop>>

\* 150 ms without an application window: the app was closed.
RailExitTimer ==
  /\ railExitTimer
  /\ LET appClosed == /\ railInUse /\ session # NoSession
                      /\ railHadAppWindow /\ railWindows # "shown"
     IN \/ appClosed /\ DisconnectSession
        \/ /\ ~appClosed
           /\ railExitTimer' = FALSE
           /\ UNCHANGED <<wasmVars, caller, session, policyVars, retryVars, giveUpTimers,
                          recentlyConnected, screenVars, railProgram, railInUse, railWindows,
                          railHadAppWindow, stop>>
  /\ UNCHANGED railKillTimers

\* The host reports that the RemoteApp did not launch.
RailExecFailed(s) ==
  /\ task[s] = "running" /\ railMode[s]
  /\ railKillTimers < MaxTimers
  /\ isUserDisconnect' = TRUE
  /\ railKillTimers' = railKillTimers + 1
  /\ UNCHANGED <<wasmVars, caller, session, savedCredentials, retryVars, giveUpTimers,
                 recentlyConnected, screenVars, railVars, stop>>

RailKillTimer ==
  /\ railKillTimers > 0
  /\ railKillTimers' = railKillTimers - 1
  /\ DisconnectSession

-----------------------------------------------------------------------------
Connecting(s) == ConnectOk(s) \/ ConnectFails(s)

Next ==
  \/ \E s \in Sessions :
        \/ \E rail \in RailPrograms : Submit(s, rail)
        \/ ConnectOk(s)
        \/ ConnectFails(s)
        \/ Continue(s)
        \/ SessionEnded(s)
        \/ RetryTimer(s)
        \/ RailWindow(s)
        \/ RailWindowDeleted(s)
        \/ RailExecFailed(s)
  \/ FlapWindowPasses
  \/ GiveUpTimer
  \/ ClickCancel
  \/ ClickDisconnect
  \/ RailExitTimer
  \/ RailKillTimer

Spec == Init /\ [][Next]_vars

\* Browser timers fire, promise continuations run, and every connect settles
\* one way or the other.  Users and hosts need not do anything.
Fairness ==
  /\ \A s \in Sessions : WF_vars(Connecting(s)) /\ WF_vars(Continue(s))
  /\ WF_vars(\E s \in Sessions : RetryTimer(s))
  /\ WF_vars(GiveUpTimer)
  /\ WF_vars(RailKillTimer)
  /\ WF_vars(RailExitTimer)

FairSpec == Spec /\ Fairness

-----------------------------------------------------------------------------
(* What the lifecycle promises.                                            *)

\* A reconnect is on its way: a timer is armed or a connect is in flight, or the
\* disconnect after a failed RemoteApp launch is about to take the screen down.
Retrying ==
  /\ savedCredentials
  /\ \/ railKillTimers > 0
     \/ /\ ~isUserDisconnect
        /\ \/ retryTimers > 0 \/ giveUpTimers > 0
           \/ \E s \in Sessions : caller[s] = "reconnect"

\* The reconnect overlay always has something behind it that will take it down.
\* app.js hides it only in doConnect, doConnectRedirected and cleanupSession: an
\* overlay left without any of them would stay until the user cancels.
OverlayBacked == overlay => Retrying

\* After the host ended the session for good (eviction by another client, logoff,
\* the published app's exit, a flapping link) nothing is on its way that would
\* connect again without the user: the takeover guard of __rdp_session_ended.
\* A reconnect may be waiting only for the continuation of the very session that
\* has just ended.
HostStopIsFinal ==
  stop = "host" => /\ retryTimers = 0
                   /\ \A s \in Sessions : caller[s] = "reconnect" => task[s] = "idle"

AtRest == \A s \in Sessions : task[s] = "idle"

FormClosed == screen = "desktop" \/ connecting

\* A retry timer that waits is the only one and is the one reconnectTimer names, so that
\* cancelReconnect clears it; meanwhile nothing runs or connects, and the login form cannot
\* be submitted.  attemptReconnect overwrites the handle unseen, the timers of a give-up
\* and of a failed launch fire whenever they are due, and the retry timer's first act is
\* to drop whatever session there is: a second one would outlive Cancel, and one that
\* waits behind the login form would take a new login's session off the page.
RetryTimerAlone ==
  retryTimers > 0 => retryTimers = 1 /\ reconnectTimer /\ FormClosed /\ AtRest

\* A running session that app.js no longer holds, and that no continuation is
\* about to hand over, has been told to shut down: no session is leaked.
LetGoMeansShutDown ==
  \A s \in Sessions :
     task[s] = "running" /\ caller[s] = "none" /\ session # s => closing[s]

\* A desktop on screen without a session handle is waiting for a reconnect or for
\* a redirect: the user is never left in front of a desktop nothing will update.
DesktopIsBacked ==
  screen = "desktop" /\ session = NoSession =>
     Retrying \/ \E s \in Sessions : caller[s] = "redirect"

\* The login screen is never shown while app.js holds a session that is running.
LoginMeansNoSession ==
  screen = "login" => \A s \in Sessions : ~(session = s /\ task[s] = "running")

\* An overlay is eventually taken down, by a live session or by the login screen.
ReconnectResolves == overlay ~> ~overlay

=============================================================================
