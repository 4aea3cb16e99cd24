----------------------- MODULE SessionLifecycleProofs -----------------------
(***************************************************************************)
(* Theorems about SessionLifecycle, for every number of session slots and  *)
(* every bound on attempts, flaps and timers.                              *)
(***************************************************************************)
EXTENDS SessionLifecycle, TLAPS

(***************************************************************************)
(* Type correctness, part by part.  RetryTypeOK carries the two facts that *)
(* are not about types: attempts and flaps stay within their limits, and   *)
(* the handle reconnectTimer names only a timer that is armed.             *)
(***************************************************************************)

LEMMA Bounds ==
  /\ MaxReconnectAttempts \in Nat /\ MaxReconnectAttempts > 0
  /\ MaxFlaps \in Nat /\ MaxFlaps > 0
  BY ConstantsAssumption

LEMMA InitType == Init => TypeOK
<1> SUFFICES ASSUME Init PROVE TypeOK
  OBVIOUS
<1>1. WasmTypeOK
  BY DEF Init, WasmTypeOK
<1>2. RetryTypeOK
  <2>1. /\ reconnectAttempt \in 0 .. MaxReconnectAttempts
        /\ retryTimers \in Nat
        /\ flapCount \in 0 .. MaxFlaps - 1
        /\ giveUpTimers \in Nat
        /\ railKillTimers \in Nat
    BY Bounds DEF Init
  <2>2. reconnectTimer = FALSE
    BY DEF Init
  <2>3. QED
    BY <2>1, <2>2 DEF RetryTypeOK
<1>3. AppTypeOK
  BY DEF Init, AppTypeOK
<1>4. QED
  BY <1>1, <1>2, <1>3 DEF TypeOK

LEMMA CancelReconnectType ==
  ASSUME RetryTypeOK, CancelReconnect,
         giveUpTimers' \in Nat, railKillTimers' \in Nat
  PROVE  RetryTypeOK'
<1>1. /\ reconnectAttempt' \in 0 .. MaxReconnectAttempts
      /\ flapCount' \in 0 .. MaxFlaps - 1
  BY Bounds DEF CancelReconnect
<1>2. retryTimers' \in Nat
  BY DEF RetryTypeOK, CancelReconnect
<1>3. reconnectTimer' = FALSE
  BY DEF CancelReconnect
<1>4. QED
  BY <1>1, <1>2, <1>3 DEF RetryTypeOK

LEMMA AttemptReconnectType ==
  ASSUME RetryTypeOK, AttemptReconnect,
         flapCount' \in 0 .. MaxFlaps - 1, railKillTimers' \in Nat
  PROVE  RetryTypeOK'
<1> USE Bounds DEF RetryTypeOK
<1>1. CASE UNCHANGED <<reconnectAttempt, reconnectTimer, retryTimers, giveUpTimers>>
  BY <1>1
<1>2. CASE /\ giveUpTimers' = giveUpTimers + 1
           /\ UNCHANGED <<reconnectAttempt, reconnectTimer, retryTimers>>
  BY <1>2
<1>3. CASE /\ reconnectAttempt < MaxReconnectAttempts
           /\ reconnectAttempt' = reconnectAttempt + 1
           /\ retryTimers' = retryTimers + 1
           /\ reconnectTimer' = TRUE
           /\ UNCHANGED giveUpTimers
  BY <1>3
<1>4. QED
  BY <1>1, <1>2, <1>3 DEF AttemptReconnect

LEMMA WasmTypeStep == TypeOK /\ [Next]_vars => WasmTypeOK'
<1> SUFFICES ASSUME WasmTypeOK, AppTypeOK, [Next]_vars PROVE WasmTypeOK'
  BY DEF TypeOK
<1> USE DEF WasmTypeOK, wasmVars
<1>1. ASSUME NEW s \in Sessions, NEW rail \in RailPrograms, Submit(s, rail)
      PROVE  WasmTypeOK'
  BY <1>1, ConstantsAssumption DEF Submit, StartConnect
<1>2. ASSUME NEW s \in Sessions, ConnectOk(s) PROVE WasmTypeOK'
  BY <1>2 DEF ConnectOk
<1>3. ASSUME NEW s \in Sessions, ConnectFails(s) PROVE WasmTypeOK'
  BY <1>3 DEF ConnectFails
<1>4. ASSUME NEW s \in Sessions, Continue(s) PROVE WasmTypeOK'
  BY <1>4 DEF Continue
<1>5. ASSUME NEW s \in Sessions, SessionEnded(s) PROVE WasmTypeOK'
  <2>1. closing' \in [Sessions -> BOOLEAN]
    BY <1>5 DEF SessionEnded
  <2>2. PICK reason \in EndReasons :
          \/ EndRedirected(s, reason)
          \/ EndByHost(s, reason) \/ EndLost(s, reason) \/ EndOther(s, reason)
    BY <1>5 DEF SessionEnded
  <2>3. CASE EndRedirected(s, reason)
    BY <2>1, <2>3 DEF EndRedirected
  <2>4. CASE EndByHost(s, reason) \/ EndLost(s, reason) \/ EndOther(s, reason)
    <3>1. task' = [task EXCEPT ![s] = "idle"] /\ UNCHANGED <<railMode, caller>>
      BY <2>4 DEF EndByHost, EndLost, EndOther
    <3>2. QED
      BY <2>1, <3>1
  <2>5. QED
    BY <2>2, <2>3, <2>4
<1>6. ASSUME NEW s \in Sessions, RetryTimer(s) PROVE WasmTypeOK'
  <2>1. CASE StartConnect(s, "reconnect", railProgram)
    <3>1. railMode' \in [Sessions -> BOOLEAN]
      BY <2>1 DEF StartConnect, AppTypeOK
    <3>2. QED
      BY <2>1, <3>1 DEF StartConnect
  <2>2. CASE UNCHANGED <<session, wasmVars, caller>>
    BY <2>2
  <2>3. QED
    BY <1>6, <2>1, <2>2 DEF RetryTimer
<1>7. ASSUME DisconnectSession PROVE WasmTypeOK'
  BY <1>7 DEF DisconnectSession
<1>8. QED
  <2>1. CASE UNCHANGED <<wasmVars, caller>>
    BY <2>1
  <2>2. QED
    BY <1>1, <1>2, <1>3, <1>4, <1>5, <1>6, <1>7, <2>1
       DEF Next, RailWindow, RailWindowDeleted, RailExecFailed, FlapWindowPasses,
           GiveUpTimer, ClickCancel, ClickDisconnect, RailExitTimer, RailKillTimer, vars

LEMMA RetryTypeStep == TypeOK /\ [Next]_vars => RetryTypeOK'
<1> SUFFICES ASSUME RetryTypeOK, [Next]_vars PROVE RetryTypeOK'
  BY DEF TypeOK
<1> USE DEF retryVars
<1>0. ASSUME UNCHANGED <<retryVars, giveUpTimers, railKillTimers>> PROVE RetryTypeOK'
  BY <1>0 DEF RetryTypeOK
<1>1. ASSUME NEW s \in Sessions, NEW rail \in RailPrograms, Submit(s, rail)
      PROVE  RetryTypeOK'
  <2>1. /\ flapCount' = 0
        /\ UNCHANGED <<reconnectAttempt, reconnectTimer, retryTimers, giveUpTimers,
                       railKillTimers>>
    BY <1>1 DEF Submit
  <2>2. flapCount' \in 0 .. MaxFlaps - 1
    BY <2>1, Bounds
  <2>3. QED
    BY <2>1, <2>2 DEF RetryTypeOK
<1>2. ASSUME NEW s \in Sessions, ConnectFails(s) PROVE RetryTypeOK'
  <2>1. railKillTimers' = railKillTimers
    BY <1>2 DEF ConnectFails
  <2>2. CASE AttemptReconnect /\ UNCHANGED flapCount
    BY <2>1, <2>2, AttemptReconnectType DEF RetryTypeOK
  <2>3. CASE UNCHANGED <<retryVars, giveUpTimers>>
    BY <2>1, <2>3, <1>0
  <2>4. QED
    BY <1>2, <2>2, <2>3 DEF ConnectFails
<1>3. ASSUME NEW s \in Sessions, Continue(s) PROVE RetryTypeOK'
  <2>1. UNCHANGED <<reconnectTimer, retryTimers, flapCount, giveUpTimers, railKillTimers>>
    BY <1>3 DEF Continue
  <2>2. reconnectAttempt' = 0 \/ reconnectAttempt' = reconnectAttempt
    BY <1>3 DEF Continue, DoConnect, DoConnectRedirected
  <2>3. reconnectAttempt' \in 0 .. MaxReconnectAttempts
    BY <2>2, Bounds DEF RetryTypeOK
  <2>4. QED
    BY <2>1, <2>3 DEF RetryTypeOK
<1>4. ASSUME NEW s \in Sessions, SessionEnded(s) PROVE RetryTypeOK'
  <2>1. railKillTimers' = railKillTimers
    BY <1>4 DEF SessionEnded
  <2>2. PICK reason \in EndReasons :
          \/ EndRedirected(s, reason) \/ EndOther(s, reason)
          \/ EndByHost(s, reason)
          \/ EndLost(s, reason)
    BY <1>4 DEF SessionEnded
  <2>3. CASE EndRedirected(s, reason) \/ EndOther(s, reason)
    BY <2>1, <2>3, <1>0 DEF EndRedirected, EndOther
  <2>4. CASE EndByHost(s, reason)
    BY <2>1, <2>4, CancelReconnectType DEF EndByHost, RetryTypeOK
  <2>5. CASE EndLost(s, reason)
    <3>1. CASE CancelReconnect /\ UNCHANGED giveUpTimers
      BY <2>1, <3>1, CancelReconnectType DEF RetryTypeOK
    <3>2. CASE /\ ~(recentlyConnected /\ flapCount + 1 >= MaxFlaps)
               /\ flapCount' = IF recentlyConnected THEN flapCount + 1 ELSE 0
               /\ AttemptReconnect
      <4>1. flapCount' \in 0 .. MaxFlaps - 1
        BY <3>2, Bounds DEF RetryTypeOK
      <4>2. QED
        BY <2>1, <3>2, <4>1, AttemptReconnectType DEF RetryTypeOK
    <3>3. QED
      BY <2>5, <3>1, <3>2 DEF EndLost
  <2>6. QED
    BY <2>2, <2>3, <2>4, <2>5
<1>5. ASSUME NEW s \in Sessions, RetryTimer(s) PROVE RetryTypeOK'
  <2>1. /\ retryTimers > 0 /\ retryTimers' = retryTimers - 1
        /\ UNCHANGED <<reconnectAttempt, flapCount, giveUpTimers, railKillTimers>>
    BY <1>5 DEF RetryTimer
  <2>2. reconnectTimer' = FALSE
    BY <1>5 DEF RetryTimer
  <2>3. retryTimers' \in Nat
    BY <2>1 DEF RetryTypeOK
  <2>4. QED
    BY <2>1, <2>2, <2>3 DEF RetryTypeOK
<1>6. ASSUME NEW s \in Sessions, RailExecFailed(s) PROVE RetryTypeOK'
  <2>1. railKillTimers' \in Nat
    BY <1>6 DEF RailExecFailed, RetryTypeOK
  <2>2. UNCHANGED <<retryVars, giveUpTimers>>
    BY <1>6 DEF RailExecFailed
  <2>3. QED
    BY <2>1, <2>2 DEF RetryTypeOK
<1>7. ASSUME GiveUpTimer PROVE RetryTypeOK'
  <2>1. giveUpTimers' \in Nat
    BY <1>7 DEF GiveUpTimer, RetryTypeOK
  <2>2. QED
    BY <1>7, <2>1, CancelReconnectType DEF GiveUpTimer, RetryTypeOK
<1>8. ASSUME ClickCancel PROVE RetryTypeOK'
  BY <1>8, CancelReconnectType DEF ClickCancel, RetryTypeOK
<1>9. ASSUME DisconnectSession, railKillTimers' \in Nat PROVE RetryTypeOK'
  BY <1>9, CancelReconnectType DEF DisconnectSession, RetryTypeOK
<1>10. ASSUME RailKillTimer PROVE RetryTypeOK'
  <2>1. railKillTimers' \in Nat
    BY <1>10 DEF RailKillTimer, RetryTypeOK
  <2>2. QED
    BY <1>9, <1>10, <2>1 DEF RailKillTimer
<1>11. ASSUME ClickDisconnect \/ RailExitTimer PROVE RetryTypeOK'
  <2>1. railKillTimers' \in Nat
    BY <1>11 DEF ClickDisconnect, RailExitTimer, RetryTypeOK
  <2>2. CASE DisconnectSession
    BY <1>9, <2>1, <2>2
  <2>3. CASE UNCHANGED <<retryVars, giveUpTimers, railKillTimers>>
    BY <1>0, <2>3
  <2>4. QED
    BY <1>11, <2>2, <2>3 DEF ClickDisconnect, RailExitTimer
<1>12. QED
  BY <1>0, <1>1, <1>2, <1>3, <1>4, <1>5, <1>6, <1>7, <1>8, <1>10, <1>11
     DEF Next, ConnectOk, RailWindow, RailWindowDeleted, FlapWindowPasses, vars

LEMMA AppTypeStep == TypeOK /\ [Next]_vars => AppTypeOK'
<1> SUFFICES ASSUME AppTypeOK, [Next]_vars PROVE AppTypeOK'
  BY DEF TypeOK
<1> USE DEF AppTypeOK, policyVars, screenVars, railVars
<1>0. CASE /\ UNCHANGED <<session, policyVars, recentlyConnected, screenVars, stop>>
           /\ UNCHANGED <<railProgram, railInUse, railWindows, railHadAppWindow>>
           /\ railExitTimer' \in BOOLEAN
  BY <1>0
<1>1. ASSUME NEW s \in Sessions, NEW rail \in RailPrograms, Submit(s, rail)
      PROVE  AppTypeOK'
  <2>1. rail \in BOOLEAN
    BY ConstantsAssumption
  <2>2. QED
    BY <1>1, <2>1 DEF Submit
<1>2. ASSUME NEW s \in Sessions, ConnectFails(s) PROVE AppTypeOK'
  <2>1. UNCHANGED <<session, policyVars, recentlyConnected, stop>>
    BY <1>2 DEF ConnectFails
  <2>2. CASE CleanupSession
    BY <2>1, <2>2 DEF CleanupSession
  <2>3. CASE UNCHANGED <<screen, overlay, railVars>>
    <3>1. connecting' \in BOOLEAN
      BY <1>2, <2>3 DEF ConnectFails, CleanupSession
    <3>2. QED
      BY <2>1, <2>3, <3>1
  <2>4. QED
    BY <1>2, <2>2, <2>3 DEF ConnectFails
<1>3. ASSUME NEW s \in Sessions, Continue(s) PROVE AppTypeOK'
  <2>1. /\ session' \in Sessions \cup {NoSession}
        /\ recentlyConnected' \in BOOLEAN
        /\ screen' \in {"login", "desktop"}
        /\ overlay' \in BOOLEAN
        /\ stop' \in {"none", "user", "host"}
        /\ UNCHANGED <<connecting, railProgram, railWindows, railHadAppWindow, railExitTimer>>
    BY <1>3 DEF Continue
  <2>2. CASE DoConnect(s)
    BY <2>1, <2>2 DEF DoConnect
  <2>3. CASE DoConnectRedirected(s)
    BY <2>1, <2>3 DEF DoConnectRedirected
  <2>4. QED
    BY <1>3, <2>2, <2>3 DEF Continue
<1>4. ASSUME NEW s \in Sessions, SessionEnded(s) PROVE AppTypeOK'
  <2>1. session' = NoSession /\ UNCHANGED <<policyVars, recentlyConnected>>
    BY <1>4 DEF SessionEnded
  <2>2. PICK reason \in EndReasons :
          \/ EndRedirected(s, reason) \/ EndByHost(s, reason)
          \/ EndLost(s, reason) \/ EndOther(s, reason)
    BY <1>4 DEF SessionEnded
  <2>3. \/ UNCHANGED <<screenVars, railVars>>
        \/ CleanupSession
        \/ overlay' = TRUE /\ UNCHANGED <<screen, connecting, railVars>>
    BY <2>2 DEF EndRedirected, EndByHost, EndLost, EndOther
  <2>4. stop' \in {"host", stop}
    BY <2>2 DEF EndRedirected, EndByHost, EndLost, EndOther
  <2>5. CASE UNCHANGED <<screenVars, railVars>>
    BY <2>1, <2>4, <2>5
  <2>6. CASE CleanupSession
    BY <2>1, <2>4, <2>6 DEF CleanupSession
  <2>7. CASE overlay' = TRUE /\ UNCHANGED <<screen, connecting, railVars>>
    BY <2>1, <2>4, <2>7
  <2>8. QED
    BY <2>3, <2>5, <2>6, <2>7
<1>5. ASSUME NEW s \in Sessions, RetryTimer(s) PROVE AppTypeOK'
  BY <1>5 DEF RetryTimer
<1>6. ASSUME DisconnectSession PROVE AppTypeOK'
  BY <1>6 DEF DisconnectSession, CleanupSession
<1>7. ASSUME GiveUpTimer \/ ClickCancel PROVE AppTypeOK'
  BY <1>7 DEF GiveUpTimer, ClickCancel, CleanupSession
<1>8. ASSUME NEW s \in Sessions, RailWindow(s) \/ RailWindowDeleted(s)
      PROVE  AppTypeOK'
  <2>1. /\ UNCHANGED <<session, policyVars, recentlyConnected, screenVars, railProgram,
                       railInUse, stop>>
        /\ railExitTimer' \in BOOLEAN
    BY <1>8 DEF RailWindow, RailWindowDeleted
  <2>2. railHadAppWindow' \in BOOLEAN
    BY <1>8 DEF RailWindow, RailWindowDeleted
  <2>3. railWindows' \in {"none", "hidden", "shown", railWindows}
    BY <1>8 DEF RailWindow, RailWindowDeleted
  <2>4. QED
    BY <2>1, <2>2, <2>3
<1>9. ASSUME NEW s \in Sessions, RailExecFailed(s) PROVE AppTypeOK'
  BY <1>9 DEF RailExecFailed
<1>10. ASSUME RailExitTimer PROVE AppTypeOK'
  <2>1. CASE DisconnectSession
    BY <1>6, <2>1
  <2>2. CASE /\ railExitTimer' = FALSE
             /\ UNCHANGED <<session, policyVars, recentlyConnected, screenVars, railProgram,
                            railInUse, railWindows, railHadAppWindow, stop>>
    <3> HIDE DEF AppTypeOK
    <3> QED BY <1>0, <2>2
  <2>3. QED
    <3> HIDE DEF AppTypeOK
    <3> QED BY <1>10, <2>1, <2>2 DEF RailExitTimer
<1>11. ASSUME NEW s \in Sessions, ConnectOk(s) PROVE AppTypeOK'
  BY <1>11 DEF ConnectOk
<1>12. ASSUME FlapWindowPasses PROVE AppTypeOK'
  <2>1. recentlyConnected' \in BOOLEAN
    BY <1>12 DEF FlapWindowPasses
  <2>2. UNCHANGED <<session, savedCredentials, isUserDisconnect, screen, overlay, connecting>>
    BY <1>12 DEF FlapWindowPasses
  <2>3. UNCHANGED <<railProgram, railInUse, railWindows, railHadAppWindow, railExitTimer, stop>>
    BY <1>12 DEF FlapWindowPasses
  <2> HIDE DEF policyVars, screenVars, railVars
  <2> QED BY <2>1, <2>2, <2>3
<1>13. CASE UNCHANGED vars
  <2> HIDE DEF AppTypeOK, policyVars, screenVars
  <2>1. UNCHANGED <<session, policyVars, recentlyConnected, screenVars, stop>>
    BY <1>13 DEF vars
  <2>2. UNCHANGED railVars
    BY <1>13 DEF vars
  <2>3. UNCHANGED <<railProgram, railInUse, railWindows, railHadAppWindow, railExitTimer>>
    BY <2>2
  <2>4. railExitTimer' \in BOOLEAN
    BY <2>3 DEF AppTypeOK
  <2> QED BY <1>0, <2>1, <2>3, <2>4
<1>14. QED
  BY <1>1, <1>2, <1>3, <1>4, <1>5, <1>6, <1>7, <1>8, <1>9, <1>10, <1>11, <1>12, <1>13
     DEF Next, ClickDisconnect, RailKillTimer

\* Every reachable state is well typed; in particular attempts and flaps stay
\* within MAX_RECONNECT_ATTEMPTS and MAX_FLAPS, and the handle reconnectTimer
\* never names a timer that is no longer armed.
THEOREM TypeCorrect == Spec => []TypeOK
<1>1. TypeOK /\ [Next]_vars => TypeOK'
  BY WasmTypeStep, RetryTypeStep, AppTypeStep DEF TypeOK
<1>2. QED
  BY <1>1, InitType, PTL DEF Spec

-----------------------------------------------------------------------------
(***************************************************************************)
(* Nothing is left waiting.  OverlayBacked and DesktopIsBacked are         *)
(* inductive together: a step that uses up what backs the screen (a timer  *)
(* that fires, a connect that fails) puts something else in its place or   *)
(* takes the screen down.                                                  *)
(***************************************************************************)

Backed == OverlayBacked /\ DesktopIsBacked

\* A retry that finds credentials always leaves a timer behind.
LEMMA AttemptLeavesTimer ==
  ASSUME TypeOK, AttemptReconnect, savedCredentials, ~isUserDisconnect
  PROVE  retryTimers' > 0 \/ giveUpTimers' > 0
  BY DEF TypeOK, RetryTypeOK, AttemptReconnect

\* A step that leaves the policy, the timers and the reconnects alone.
LEMMA RetryingStays ==
  ASSUME UNCHANGED <<policyVars, retryTimers, giveUpTimers, railKillTimers>>,
         \A s \in Sessions : caller[s] = "reconnect" => caller'[s] = "reconnect"
  PROVE  Retrying => Retrying'
  BY DEF Retrying, policyVars

LEMMA DisconnectBacked ==
  ASSUME DisconnectSession \/ GiveUpTimer \/ ClickCancel
  PROVE  Backed'
  BY DEF DisconnectSession, GiveUpTimer, ClickCancel, CleanupSession, Backed,
         OverlayBacked, DesktopIsBacked

LEMMA SessionEndedBacked ==
  ASSUME TypeOK, Backed, NEW s \in Sessions, SessionEnded(s)
  PROVE  Backed'
<1> USE DEF Backed, OverlayBacked, DesktopIsBacked
<1>1. session' = NoSession /\ UNCHANGED <<policyVars, railKillTimers>>
  BY DEF SessionEnded
<1>2. PICK reason \in EndReasons :
        \/ EndRedirected(s, reason)
        \/ EndByHost(s, reason) \/ EndOther(s, reason)
        \/ EndLost(s, reason)
  BY DEF SessionEnded
<1>3. CASE EndRedirected(s, reason)
  <2>1. PICK r \in Sessions :
          caller[r] = "none" /\ caller' = [caller EXCEPT ![r] = "redirect"]
    BY <1>3 DEF EndRedirected
  <2>2. /\ caller'[r] = "redirect"
        /\ \A q \in Sessions : caller[q] = "reconnect" => caller'[q] = "reconnect"
    BY <2>1 DEF TypeOK, WasmTypeOK
  <2>3. UNCHANGED <<retryTimers, giveUpTimers, screen, overlay>>
    BY <1>3 DEF EndRedirected, retryVars, screenVars
  <2>4. Retrying => Retrying'
    BY <1>1, <2>2, <2>3, RetryingStays
  <2>5. QED
    BY <2>2, <2>3, <2>4
<1>4. CASE EndByHost(s, reason) \/ EndOther(s, reason)
  BY <1>4 DEF EndByHost, EndOther, CleanupSession
<1>5. CASE EndLost(s, reason)
  <2>1. savedCredentials' /\ ~isUserDisconnect'
    BY <1>1, <1>5 DEF EndLost, policyVars
  <2>2. CASE CleanupSession
    BY <2>2 DEF CleanupSession
  <2>3. CASE AttemptReconnect
    <3>1. retryTimers' > 0 \/ giveUpTimers' > 0
      BY <1>5, <2>3, AttemptLeavesTimer DEF EndLost
    <3>2. Retrying'
      BY <2>1, <3>1 DEF Retrying
    <3>3. QED
      BY <3>2
  <2>4. QED
    BY <1>5, <2>2, <2>3 DEF EndLost
<1>6. QED
  BY <1>2, <1>3, <1>4, <1>5

LEMMA ConnectFailsBacked ==
  ASSUME TypeOK, Backed, NEW s \in Sessions, ConnectFails(s)
  PROVE  Backed'
<1> USE DEF Backed, OverlayBacked, DesktopIsBacked
<1>1. /\ UNCHANGED <<session, policyVars, railKillTimers>>
      /\ caller' = [caller EXCEPT ![s] = "none"]
  BY DEF ConnectFails
<1>2. \A q \in Sessions : q # s => caller'[q] = caller[q]
  BY <1>1 DEF TypeOK, WasmTypeOK
<1>3. CASE caller[s] = "redirect" /\ CleanupSession
  BY <1>3 DEF CleanupSession
<1>4. CASE /\ caller[s] = "login"
           /\ UNCHANGED <<retryVars, giveUpTimers, screen, overlay>>
  <2>1. Retrying => Retrying'
    BY <1>1, <1>2, <1>4, RetryingStays DEF retryVars
  <2>2. (\E q \in Sessions : caller[q] = "redirect")
           => \E q \in Sessions : caller'[q] = "redirect"
    BY <1>2, <1>4
  <2>3. QED
    BY <1>1, <1>4, <2>1, <2>2
<1>5. CASE caller[s] = "reconnect" /\ AttemptReconnect /\ UNCHANGED screenVars
  <2>1. Retrying => Retrying'
    <3>1. CASE railKillTimers > 0
      BY <1>1, <3>1 DEF Retrying, policyVars
    <3>2. CASE savedCredentials /\ ~isUserDisconnect
      <4>1. retryTimers' > 0 \/ giveUpTimers' > 0
        BY <1>5, <3>2, AttemptLeavesTimer
      <4>2. QED
        BY <1>1, <3>2, <4>1 DEF Retrying, policyVars
    <3>3. QED
      BY <3>1, <3>2 DEF Retrying
  <2>2. (\E q \in Sessions : caller[q] = "redirect")
           => \E q \in Sessions : caller'[q] = "redirect"
    BY <1>2, <1>5
  <2>3. QED
    BY <1>1, <1>5, <2>1, <2>2 DEF screenVars
<1>6. QED
  BY <1>3, <1>4, <1>5 DEF ConnectFails

LEMMA RetryTimerBacked ==
  ASSUME TypeOK, Backed, NEW s \in Sessions, RetryTimer(s)
  PROVE  Backed'
<1> USE DEF Backed, OverlayBacked, DesktopIsBacked
<1>1. UNCHANGED <<policyVars, giveUpTimers, railKillTimers, screenVars>>
  BY DEF RetryTimer
<1>2. CASE savedCredentials /\ ~isUserDisconnect
  <2>1. caller' = [caller EXCEPT ![s] = "reconnect"]
    BY <1>2 DEF RetryTimer, StartConnect
  <2>2. caller'[s] = "reconnect"
    BY <2>1 DEF TypeOK, WasmTypeOK
  <2>3. Retrying'
    BY <1>1, <1>2, <2>2 DEF Retrying, policyVars
  <2>4. QED
    BY <2>3
<1>3. CASE ~savedCredentials \/ isUserDisconnect
  <2>1. UNCHANGED <<session, caller>>
    BY <1>3 DEF RetryTimer
  <2>2. Retrying => Retrying'
    BY <1>1, <1>3 DEF Retrying, policyVars
  <2>3. QED
    BY <1>1, <2>1, <2>2 DEF screenVars
<1>4. QED
  BY <1>2, <1>3

LEMMA BackedStep == TypeOK /\ Backed /\ [Next]_vars => Backed'
<1> SUFFICES ASSUME TypeOK, Backed, [Next]_vars PROVE Backed'
  OBVIOUS
<1>0. ASSUME UNCHANGED <<caller, session, policyVars, retryTimers, giveUpTimers,
                         railKillTimers, screen, overlay>>
      PROVE  Backed'
  BY <1>0 DEF Backed, OverlayBacked, DesktopIsBacked, Retrying, policyVars
<1>1. ASSUME NEW s \in Sessions, NEW rail \in RailPrograms, Submit(s, rail)
      PROVE  Backed'
  <2>1. /\ caller[s] = "none" /\ caller' = [caller EXCEPT ![s] = "login"]
        /\ screen = "login"
        /\ UNCHANGED <<policyVars, retryTimers, giveUpTimers, railKillTimers, screen, overlay>>
    BY <1>1 DEF Submit, StartConnect, Free
  <2>2. \A q \in Sessions : caller[q] = "reconnect" => caller'[q] = "reconnect"
    BY <2>1 DEF TypeOK, WasmTypeOK
  <2>3. Retrying => Retrying'
    BY <2>1, <2>2, RetryingStays
  <2>4. QED
    BY <2>1, <2>3 DEF Backed, OverlayBacked, DesktopIsBacked
<1>2. ASSUME NEW s \in Sessions, Continue(s) PROVE Backed'
  <2>1. session' = s /\ overlay' = FALSE
    BY <1>2 DEF Continue
  <2>2. s # NoSession
    BY ConstantsAssumption
  <2>3. QED
    BY <2>1, <2>2 DEF Backed, OverlayBacked, DesktopIsBacked
<1>3. ASSUME NEW s \in Sessions, RailExecFailed(s) PROVE Backed'
  <2>1. /\ railKillTimers' > 0
        /\ UNCHANGED <<savedCredentials, caller, session, screen, overlay>>
    BY <1>3 DEF RailExecFailed, screenVars, TypeOK, RetryTypeOK
  <2>2. Retrying => Retrying'
    BY <2>1 DEF Retrying
  <2>3. QED
    BY <2>1, <2>2 DEF Backed, OverlayBacked, DesktopIsBacked
<1>4. ASSUME GiveUpTimer \/ ClickCancel \/ ClickDisconnect \/ RailKillTimer PROVE Backed'
  BY <1>4, DisconnectBacked DEF ClickDisconnect, RailKillTimer
<1>5. ASSUME RailExitTimer PROVE Backed'
  <2>1. CASE DisconnectSession
    BY <2>1, DisconnectBacked
  <2>2. CASE ~DisconnectSession
    BY <1>0, <1>5, <2>2 DEF RailExitTimer, retryVars, screenVars
  <2>3. QED
    BY <2>1, <2>2
<1>6. ASSUME NEW s \in Sessions,
             ConnectOk(s) \/ RailWindow(s) \/ RailWindowDeleted(s)
      PROVE  Backed'
  BY <1>0, <1>6 DEF ConnectOk, RailWindow, RailWindowDeleted, retryVars, screenVars
<1>7. ASSUME FlapWindowPasses PROVE Backed'
  BY <1>0, <1>7 DEF FlapWindowPasses, retryVars, screenVars
<1>8. CASE UNCHANGED vars
  BY <1>0, <1>8 DEF vars, retryVars, screenVars
<1>9. QED
  BY <1>1, <1>2, <1>3, <1>4, <1>5, <1>6, <1>7, <1>8, SessionEndedBacked,
     ConnectFailsBacked, RetryTimerBacked DEF Next

LEMMA InitBacked == Init => Backed
  BY DEF Init, Backed, OverlayBacked, DesktopIsBacked

\* For any number of overlapping sessions, with callbacks of sessions long given
\* up: the reconnect overlay always has a timer, a connect or a pending
\* disconnect behind it.
THEOREM OverlayAlwaysBacked == Spec => []OverlayBacked
<1>1. Backed => OverlayBacked
  BY DEF Backed
<1>2. QED
  BY <1>1, InitType, InitBacked, TypeCorrect, BackedStep, PTL DEF Spec

\* And a desktop without a session handle is always waiting for something.
THEOREM DesktopAlwaysBacked == Spec => []DesktopIsBacked
<1>1. Backed => DesktopIsBacked
  BY DEF Backed
<1>2. QED
  BY <1>1, InitBacked, TypeCorrect, BackedStep, PTL DEF Spec

-----------------------------------------------------------------------------
(***************************************************************************)
(* One slot: app.js reuses it only after its session has gone and the      *)
(* continuation has run, so that sessions never overlap.  Then the end of  *)
(* a session by the host is final and no session is leaked.  With two      *)
(* slots TLC shows the opposite of both.  The invariant ties each waiting  *)
(* timer to a slot that is at rest:                                        *)
(*   - at most one timer is armed, the handle names it, nothing else is    *)
(*     under way, and the login form that could start something is closed; *)
(*   - credentials and an open login form exclude a session that runs,     *)
(*     which is what a loss needs to arm a timer behind the form;          *)
(*   - a stop by the host leaves no timer and no session.                  *)
(***************************************************************************)

OneSlot == \A s, t \in Sessions : s = t

FormMeansRest == savedCredentials /\ ~FormClosed => AtRest

HostStopRests == stop = "host" => retryTimers = 0 /\ AtRest

ConnectAwaited == \A s \in Sessions : task[s] = "connecting" => caller[s] # "none"

OneInv == RetryTimerAlone /\ FormMeansRest /\ HostStopRests /\ ConnectAwaited /\ LetGoMeansShutDown

\* With a single slot in use, nothing is at rest and no timer is armed.
LEMMA BusyMeansNoTimer ==
  ASSUME OneInv, TypeOK, NEW s \in Sessions, task[s] # "idle"
  PROVE  /\ retryTimers = 0 /\ ~reconnectTimer
         /\ stop # "host"
         /\ savedCredentials => FormClosed
<1>1. ~AtRest
  BY DEF AtRest
<1>2. ~(retryTimers > 0)
  BY <1>1 DEF OneInv, RetryTimerAlone
<1>3. retryTimers = 0
  BY <1>2 DEF TypeOK, RetryTypeOK
<1>4. QED
  BY <1>1, <1>2, <1>3 DEF OneInv, FormMeansRest, HostStopRests, TypeOK, RetryTypeOK

\* Cancelling clears the only timer there can be.
LEMMA CancelClearsAll ==
  ASSUME OneInv, TypeOK, CancelReconnect
  PROVE  retryTimers' = 0
<1>1. CASE retryTimers > 0
  <2>1. retryTimers = 1 /\ reconnectTimer
    BY <1>1 DEF OneInv, RetryTimerAlone
  <2>2. QED
    BY <2>1 DEF CancelReconnect
<1>2. CASE ~(retryTimers > 0)
  <2>1. retryTimers = 0 /\ ~reconnectTimer
    BY <1>2 DEF TypeOK, RetryTypeOK
  <2>2. QED
    BY <2>1 DEF CancelReconnect
<1>3. QED
  BY <1>1, <1>2

\* A step that starts nothing and ends at a login form without credentials or
\* with the slot at rest.
LEMMA CleanUpKeepsOne ==
  ASSUME OneInv, retryTimers' = 0,
         ~savedCredentials' \/ AtRest',
         stop' = "host" => AtRest',
         ConnectAwaited', LetGoMeansShutDown'
  PROVE  OneInv'
  BY DEF OneInv, RetryTimerAlone, FormMeansRest, HostStopRests

\* disconnect() of the one session there is, or of none.
LEMMA DisconnectKeepsOne ==
  ASSUME OneInv, TypeOK, DisconnectSession
  PROVE  OneInv'
<1>1. retryTimers' = 0
  BY CancelClearsAll DEF DisconnectSession
<1>2. ~savedCredentials' /\ stop' = "user" /\ session' = NoSession
  BY DEF DisconnectSession
<1>3. ConnectAwaited'
  BY DEF OneInv, ConnectAwaited, DisconnectSession
<1>4. LetGoMeansShutDown'
  <2> SUFFICES ASSUME NEW s \in Sessions, task[s] = "running", caller[s] = "none"
               PROVE  closing'[s]
    BY DEF LetGoMeansShutDown, DisconnectSession
  <2>1. CASE session = s
    BY <2>1, ConstantsAssumption DEF DisconnectSession, TypeOK, WasmTypeOK
  <2>2. CASE session # s
    <3>1. closing[s] = TRUE
      BY <2>2 DEF OneInv, LetGoMeansShutDown, TypeOK, WasmTypeOK
    <3>2. closing'[s] = closing[s]
      BY <2>2 DEF DisconnectSession, TypeOK, WasmTypeOK
    <3>3. QED
      BY <3>1, <3>2
  <2>3. QED
    BY <2>1, <2>2
<1>5. QED
  BY <1>1, <1>2, <1>3, <1>4, CleanUpKeepsOne

\* The end of the one session: it leaves the slot at rest, or connecting to the
\* target of a redirection, and it is the only place where a timer is armed
\* without an attempt having failed.
LEMMA SessionEndedKeepsOne ==
  ASSUME OneSlot, OneInv, TypeOK, NEW s \in Sessions, SessionEnded(s)
  PROVE  OneInv'
<1>0. \A t \in Sessions : t = s
  BY DEF OneSlot
<1>1. task[s] = "running" /\ UNCHANGED policyVars
  BY DEF SessionEnded
<1>2. /\ retryTimers = 0 /\ ~reconnectTimer
      /\ stop # "host"
      /\ savedCredentials => FormClosed
  BY <1>1, BusyMeansNoTimer
<1>3. PICK reason \in EndReasons :
        \/ EndRedirected(s, reason)
        \/ EndByHost(s, reason) \/ EndOther(s, reason)
        \/ EndLost(s, reason)
  BY DEF SessionEnded
<1>4. CASE EndRedirected(s, reason)
  <2>1. task'[s] = "connecting" /\ caller'[s] = "redirect"
    BY <1>0, <1>4 DEF EndRedirected, TypeOK, WasmTypeOK
  <2>2. UNCHANGED <<retryTimers, screen, connecting, stop>>
    BY <1>4 DEF EndRedirected, retryVars, screenVars
  <2>3. RetryTimerAlone' /\ HostStopRests'
    BY <1>2, <2>2 DEF RetryTimerAlone, HostStopRests
  <2>4. FormMeansRest'
    BY <1>1, <1>2, <2>2 DEF FormMeansRest, FormClosed, policyVars
  <2>5. ConnectAwaited' /\ LetGoMeansShutDown'
    BY <1>0, <2>1 DEF ConnectAwaited, LetGoMeansShutDown
  <2>6. QED
    BY <2>3, <2>4, <2>5 DEF OneInv
<1>5. ASSUME task' = [task EXCEPT ![s] = "idle"]
      PROVE  AtRest' /\ ConnectAwaited' /\ LetGoMeansShutDown'
  <2>1. task'[s] = "idle"
    BY <1>5 DEF TypeOK, WasmTypeOK
  <2>2. QED
    BY <1>0, <2>1 DEF AtRest, ConnectAwaited, LetGoMeansShutDown
<1>6. CASE EndByHost(s, reason) \/ EndOther(s, reason)
  <2>1. retryTimers' = 0
    BY <1>2, <1>6 DEF EndByHost, EndOther, CancelReconnect, retryVars
  <2>2. task' = [task EXCEPT ![s] = "idle"]
    BY <1>6 DEF EndByHost, EndOther
  <2>3. QED
    BY <1>5, <2>1, <2>2, CleanUpKeepsOne
<1>7. CASE EndLost(s, reason)
  <2>1. savedCredentials /\ task' = [task EXCEPT ![s] = "idle"]
    BY <1>7 DEF EndLost
  <2>2. AtRest' /\ ConnectAwaited' /\ LetGoMeansShutDown'
    BY <1>5, <2>1
  <2>3. CASE CancelReconnect
    <3>1. retryTimers' = 0
      BY <1>2, <2>3 DEF CancelReconnect
    <3>2. QED
      BY <2>2, <3>1, CleanUpKeepsOne
  <2>4. CASE AttemptReconnect /\ UNCHANGED <<screen, connecting, railVars, stop>>
    <3>1. FormClosed'
      BY <1>2, <2>1, <2>4 DEF FormClosed
    <3>2. \/ retryTimers' = 0
          \/ retryTimers' = 1 /\ reconnectTimer'
      BY <1>2, <2>4 DEF AttemptReconnect
    <3>3. stop' # "host"
      BY <1>2, <2>4
    <3>4. QED
      BY <2>2, <3>1, <3>2, <3>3 DEF OneInv, RetryTimerAlone, FormMeansRest, HostStopRests
  <2>5. QED
    BY <1>7, <2>3, <2>4 DEF EndLost
<1>8. QED
  BY <1>3, <1>4, <1>6, <1>7

\* A failed attempt leaves the slot at rest, and a timer only over a desktop.
LEMMA ConnectFailsKeepsOne ==
  ASSUME OneSlot, OneInv, TypeOK, NEW s \in Sessions, ConnectFails(s)
  PROVE  OneInv'
<1>0. \A t \in Sessions : t = s
  BY DEF OneSlot
<1>1. /\ task[s] = "connecting" /\ task' = [task EXCEPT ![s] = "idle"]
      /\ UNCHANGED <<savedCredentials, stop>>
  BY DEF ConnectFails, policyVars
<1>2. /\ retryTimers = 0 /\ ~reconnectTimer
      /\ stop # "host"
      /\ savedCredentials => FormClosed
  BY <1>1, BusyMeansNoTimer
<1>3. AtRest' /\ ConnectAwaited' /\ LetGoMeansShutDown'
  <2>1. task'[s] = "idle"
    BY <1>1 DEF TypeOK, WasmTypeOK
  <2>2. QED
    BY <1>0, <2>1 DEF AtRest, ConnectAwaited, LetGoMeansShutDown
<1>4. CASE UNCHANGED <<retryVars, giveUpTimers>>
  BY <1>2, <1>3, <1>4, CleanUpKeepsOne DEF retryVars
<1>5. CASE AttemptReconnect /\ UNCHANGED screenVars
  <2>1. \/ retryTimers' = 0
        \/ retryTimers' = 1 /\ reconnectTimer' /\ savedCredentials
    BY <1>2, <1>5 DEF AttemptReconnect
  <2>2. CASE retryTimers' = 0
    BY <1>3, <2>2, CleanUpKeepsOne
  <2>3. CASE retryTimers' = 1 /\ reconnectTimer' /\ savedCredentials
    <3>1. FormClosed'
      BY <1>2, <1>5, <2>3 DEF FormClosed, screenVars
    <3>2. QED
      BY <1>1, <1>2, <1>3, <2>3, <3>1
         DEF OneInv, RetryTimerAlone, FormMeansRest, HostStopRests
  <2>4. QED
    BY <2>1, <2>2, <2>3
<1>6. QED
  BY <1>4, <1>5 DEF ConnectFails

\* The only timer fires: the slot is free for the attempt it starts.
LEMMA RetryTimerKeepsOne ==
  ASSUME OneSlot, OneInv, TypeOK, NEW s \in Sessions, RetryTimer(s)
  PROVE  OneInv'
<1>0. \A t \in Sessions : t = s
  BY DEF OneSlot
<1>1. /\ retryTimers > 0 /\ retryTimers' = retryTimers - 1
      /\ UNCHANGED <<screen, connecting, savedCredentials, stop>>
  BY DEF RetryTimer, screenVars, policyVars
<1>2. retryTimers = 1 /\ FormClosed /\ AtRest
  BY <1>1 DEF OneInv, RetryTimerAlone
<1>3. retryTimers' = 0 /\ FormClosed'
  BY <1>1, <1>2 DEF FormClosed
<1>4. stop # "host"
  BY <1>1, <1>2 DEF OneInv, HostStopRests
<1>5. RetryTimerAlone' /\ FormMeansRest' /\ HostStopRests'
  BY <1>1, <1>3, <1>4 DEF RetryTimerAlone, FormMeansRest, HostStopRests
<1>6. CASE StartConnect(s, "reconnect", railProgram)
  <2>1. task'[s] = "connecting" /\ caller'[s] = "reconnect"
    BY <1>6 DEF StartConnect, TypeOK, WasmTypeOK
  <2>2. ConnectAwaited' /\ LetGoMeansShutDown'
    BY <1>0, <2>1 DEF ConnectAwaited, LetGoMeansShutDown
  <2>3. QED
    BY <1>5, <2>2 DEF OneInv
<1>7. CASE UNCHANGED <<session, wasmVars, caller>>
  <2>1. ConnectAwaited' /\ LetGoMeansShutDown'
    BY <1>7 DEF OneInv, ConnectAwaited, LetGoMeansShutDown, wasmVars
  <2>2. QED
    BY <1>5, <2>1 DEF OneInv
<1>8. QED
  BY <1>6, <1>7 DEF RetryTimer

LEMMA OneStep == OneSlot /\ TypeOK /\ OneInv /\ [Next]_vars => OneInv'
<1> SUFFICES ASSUME OneSlot, TypeOK, OneInv, [Next]_vars PROVE OneInv'
  OBVIOUS
<1>0. ASSUME UNCHANGED <<wasmVars, caller, session, savedCredentials, reconnectTimer,
                         retryTimers, screen, connecting, stop>>
      PROVE  OneInv'
  BY <1>0 DEF OneInv, RetryTimerAlone, FormMeansRest, HostStopRests, ConnectAwaited,
              LetGoMeansShutDown, AtRest, FormClosed, wasmVars
<1>1. ASSUME NEW s \in Sessions, NEW rail \in RailPrograms, Submit(s, rail)
      PROVE  OneInv'
  <2>0. \A t \in Sessions : t = s
    BY DEF OneSlot
  <2>1. /\ screen = "login" /\ ~connecting /\ connecting' = TRUE /\ stop' = "none"
        /\ StartConnect(s, "login", rail)
        /\ retryTimers' = retryTimers
    BY <1>1 DEF Submit
  <2>2. retryTimers' = 0
    BY <2>1 DEF OneInv, RetryTimerAlone, FormClosed, TypeOK, RetryTypeOK
  <2>3. task'[s] = "connecting" /\ caller'[s] = "login"
    BY <2>1 DEF StartConnect, TypeOK, WasmTypeOK
  <2>4. ConnectAwaited' /\ LetGoMeansShutDown'
    BY <2>0, <2>3 DEF ConnectAwaited, LetGoMeansShutDown
  <2>5. QED
    BY <2>1, <2>2, <2>4 DEF OneInv, RetryTimerAlone, FormMeansRest, FormClosed, HostStopRests
<1>2. ASSUME NEW s \in Sessions, ConnectOk(s) PROVE OneInv'
  <2>0. \A t \in Sessions : t = s
    BY DEF OneSlot
  <2>1. /\ task[s] = "connecting"
        /\ UNCHANGED <<caller, savedCredentials, retryTimers, screen, connecting, stop>>
    BY <1>2 DEF ConnectOk, policyVars, retryVars, screenVars
  <2>2. /\ retryTimers = 0 /\ stop # "host"
        /\ savedCredentials => FormClosed
    BY <2>1, BusyMeansNoTimer
  <2>3. RetryTimerAlone' /\ FormMeansRest' /\ HostStopRests'
    BY <2>1, <2>2 DEF RetryTimerAlone, FormMeansRest, FormClosed, HostStopRests
  <2>4. caller'[s] # "none"
    BY <2>1 DEF OneInv, ConnectAwaited
  <2>5. ConnectAwaited' /\ LetGoMeansShutDown'
    BY <2>0, <2>4 DEF ConnectAwaited, LetGoMeansShutDown
  <2>6. QED
    BY <2>3, <2>5 DEF OneInv
<1>3. ASSUME NEW s \in Sessions, Continue(s) PROVE OneInv'
  <2>0. \A t \in Sessions : t = s
    BY DEF OneSlot
  <2>1. /\ task[s] # "connecting" /\ session' = s
        /\ screen' = "desktop" /\ stop' = "none"
        /\ UNCHANGED <<task, retryTimers, reconnectTimer>>
    BY <1>3 DEF Continue, wasmVars
  <2>2. FormClosed'
    BY <2>1 DEF FormClosed
  <2>3. RetryTimerAlone'
    BY <2>1, <2>2 DEF OneInv, RetryTimerAlone, AtRest
  <2>4. ConnectAwaited' /\ LetGoMeansShutDown'
    BY <2>0, <2>1 DEF ConnectAwaited, LetGoMeansShutDown
  <2>5. QED
    BY <2>1, <2>2, <2>3, <2>4 DEF OneInv, FormMeansRest, HostStopRests
<1>4. ASSUME GiveUpTimer \/ ClickCancel PROVE OneInv'
  <2>1. retryTimers' = 0
    BY <1>4, CancelClearsAll DEF GiveUpTimer, ClickCancel
  <2>2. /\ ~savedCredentials' /\ stop' \in {"user", stop}
        /\ UNCHANGED <<task, closing, caller, session>>
    BY <1>4 DEF GiveUpTimer, ClickCancel, wasmVars
  <2>3. AtRest => AtRest'
    BY <2>2 DEF AtRest
  <2>4. stop' = "host" => AtRest'
    BY <2>2, <2>3 DEF OneInv, HostStopRests
  <2>5. ConnectAwaited' /\ LetGoMeansShutDown'
    BY <2>2 DEF OneInv, ConnectAwaited, LetGoMeansShutDown
  <2>6. QED
    BY <2>1, <2>2, <2>4, <2>5, CleanUpKeepsOne
<1>5. ASSUME ClickDisconnect \/ RailKillTimer PROVE OneInv'
  BY <1>5, DisconnectKeepsOne DEF ClickDisconnect, RailKillTimer
<1>6. ASSUME RailExitTimer PROVE OneInv'
  <2>1. CASE DisconnectSession
    BY <2>1, DisconnectKeepsOne
  <2>2. CASE ~DisconnectSession
    BY <1>0, <1>6, <2>2 DEF RailExitTimer, policyVars, retryVars, screenVars
  <2>3. QED
    BY <2>1, <2>2
<1>7. ASSUME NEW s \in Sessions,
             RailWindow(s) \/ RailWindowDeleted(s) \/ RailExecFailed(s)
      PROVE  OneInv'
  BY <1>0, <1>7 DEF RailWindow, RailWindowDeleted, RailExecFailed, policyVars, retryVars,
                    screenVars
<1>8. ASSUME FlapWindowPasses PROVE OneInv'
  BY <1>0, <1>8 DEF FlapWindowPasses, policyVars, retryVars, screenVars
<1>9. CASE UNCHANGED vars
  BY <1>0, <1>9 DEF vars, policyVars, retryVars, screenVars
<1>10. QED
  BY <1>1, <1>2, <1>3, <1>4, <1>5, <1>6, <1>7, <1>8, <1>9, SessionEndedKeepsOne,
     ConnectFailsKeepsOne, RetryTimerKeepsOne DEF Next

LEMMA InitOne == Init => OneInv
  BY DEF Init, OneInv, RetryTimerAlone, FormMeansRest, HostStopRests, ConnectAwaited,
         LetGoMeansShutDown, AtRest

LEMMA OneAlways ==
  ASSUME OneSlot
  PROVE  Spec => []OneInv
<1>1. TypeOK /\ OneInv /\ [Next]_vars => OneInv'
  BY OneStep
<1>2. QED
  BY <1>1, InitOne, TypeCorrect, PTL DEF Spec

\* While sessions do not overlap, an eviction by another client, a logoff, the
\* exit of the published app or a flapping link ends it for good: no timer of an
\* earlier loss is left that would take the session back.
THEOREM HostStopAlwaysFinal ==
  ASSUME OneSlot
  PROVE  Spec => []HostStopIsFinal
<1>1. OneInv => HostStopIsFinal
  BY DEF OneInv, HostStopRests, AtRest, HostStopIsFinal
<1>2. QED
  BY <1>1, OneAlways, PTL

\* While they do not overlap, attemptReconnect never overwrites the handle of a timer that
\* is armed, and no timer waits behind a session or behind the login form.
THEOREM RetryTimersAreAlone ==
  ASSUME OneSlot
  PROVE  Spec => []RetryTimerAlone
<1>1. OneInv => RetryTimerAlone
  BY DEF OneInv
<1>2. QED
  BY <1>1, OneAlways, PTL

\* And a session app.js lets go has been told to shut down.
THEOREM NothingLeaks ==
  ASSUME OneSlot
  PROVE  Spec => []LetGoMeansShutDown
<1>1. OneInv => LetGoMeansShutDown
  BY DEF OneInv
<1>2. QED
  BY <1>1, OneAlways, PTL
=============================================================================
