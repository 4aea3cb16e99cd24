---------------------------- MODULE RailWindows ----------------------------
(***************************************************************************)
(* RemoteApp windows: the rail channel (crates/ironrdp-rail/src/client.rs) *)
(* launches the program, the window orders of the server become windows of *)
(* the page (wasm/src/rail.rs, web/app.js), and the part of the desktop    *)
(* under each is drawn on its canvas (wasm/src/canvas.rs).                 *)
(*                                                                         *)
(* One dimension stands for two: a window is x and w.  Closing the session *)
(* after the application has closed is SessionLifecycle's; icons, titles   *)
(* and the z-order change nothing here.  The page has stored the session   *)
(* handle before the first order comes in, so that the guards on it        *)
(* (app.js:2104, 2290) pass: connect resolves its promise when it spawns   *)
(* the task that will read the orders from the network.                    *)
(***************************************************************************)
EXTENDS WindowOrders, FiniteSets, Functions

CONSTANTS
  Windows,        \* window ids, numbers
  Width,          \* of the desktop: positions 0 .. Width - 1
  Places,         \* where windows may be, and how wide: pairs of x and w
  Rects,          \* how many visibility rectangles an order may have
  RailWindowed,   \* railWindowedMode: is there more than one published application?
  EarlyClicks,    \* is the launcher used before the handshake?
  Reactivates,    \* does the server deactivate and reactivate while it has windows?
  MaxChanges,     \* bound: changes the server makes
  MaxInFlight,    \* bound: updates on their way
  MaxClicks,      \* bound
  MaxQueued       \* bound: inputs that wait when the user clicks

U16 == 65536

ASSUME RailAssumption ==
  /\ Windows \subseteq Nat /\ Width \in Nat \ {0} /\ Width < U16
  /\ Places \subseteq (Int \ {NoValue}) \X Nat /\ Rects \subseteq Nat \ {0}
  /\ {RailWindowed, EarlyClicks, Reactivates} \subseteq BOOLEAN
  /\ {MaxChanges, MaxInFlight, MaxClicks, MaxQueued} \subseteq Nat

VARIABLES
  (* the server *)
  server,        \* its windows: x, w, show, rects
  screen,        \* what its desktop shows at each position: a version
  changes,
  handshakes,    \* Handshake or HandshakeEx PDUs it has sent
  received,      \* what it got on the rail channel
  (* the connection *)
  toClient,
  (* the session loop and the rail client *)
  handshakeDone,
  image,         \* the DecodedImage
  surfaces,
  inputs,        \* input_rx
  (* the page *)
  railWindows,
  railActiveId,  \* NoValue: null
  railMaximizedFirst,
  clicks

serverVars == <<server, screen, changes, handshakes, received>>
pageVars   == <<railWindows, railActiveId, railMaximizedFirst>>
vars == <<serverVars, toClient, handshakeDone, image, surfaces, inputs, pageVars, clicks>>

Positions == 0..Width - 1
Blank == 0

Init ==
  /\ server = << >> /\ changes = 0 /\ handshakes = 0 /\ received = << >>
  /\ screen = [p \in Positions |-> Blank] /\ image = screen
  /\ toClient = << >> /\ inputs = << >>
  /\ handshakeDone = FALSE /\ surfaces = {}
  /\ railWindows = << >> /\ railActiveId = NoValue /\ railMaximizedFirst = FALSE
  /\ clicks = 0

-----------------------------------------------------------------------------
\* The server.

AllFields == Range(WireFields)
Without(f, k) == Restrict(f, DOMAIN f \ {k})

\* Orders join the update being put together, or start another one.
SendOrder(o) ==
  \/ toClient' = Append(toClient, [type |-> "orders", orders |-> <<o>>])
  \/ /\ toClient # << >> /\ Last(toClient).type = "orders"
     /\ toClient' = [toClient EXCEPT ![Len(toClient)].orders = Append(@, o)]

Change ==
  /\ changes < MaxChanges /\ handshakes > 0 /\ Len(toClient) < MaxInFlight
  /\ changes' = changes + 1

\* Handshake, and HandshakeEx from hosts that send both.
ServerHandshake ==
  /\ handshakes < 2 /\ changes = 0
  /\ handshakes' = handshakes + 1
  /\ toClient' = Append(toClient, [type |-> "handshake"])
  /\ UNCHANGED <<server, screen, changes, received, handshakeDone, image, surfaces, inputs, pageVars, clicks>>

ServerCreates(id) ==
  /\ Change /\ id \notin DOMAIN server
  /\ \E at \in Places, show \in {SW_HIDE, SW_SHOWNORMAL}, n \in Rects :
       LET win == [x |-> at[1], w |-> at[2], show |-> show, rects |-> n]
       IN  /\ server' = With(server, id, win)
           /\ SendOrder(WindowOrder(id, TRUE, AllFields, win))
  /\ UNCHANGED <<screen, handshakes, received, handshakeDone, image, surfaces, inputs, pageVars, clicks>>

\* What a window may become in one step: elsewhere, or shown otherwise.
Elsewhere(win, at, n) == [win EXCEPT !.x = at[1], !.w = at[2], !.rects = n]
Moved(win) == {Elsewhere(win, at, n) : at \in Places, n \in Rects}
Reshown(win) ==
  {[win EXCEPT !.show = show] : show \in {SW_HIDE, SW_SHOWNORMAL, SW_SHOWMINIMIZED}}

\* An update has the fields that changed, or some that did not.
ServerUpdates(id) ==
  /\ Change /\ id \in DOMAIN server
  /\ \E win \in Moved(server[id]) \cup Reshown(server[id]) :
       LET old == server[id]
           has == (IF win.x # old.x THEN {"offset", "delta"} ELSE {})
                  \cup (IF win.w # old.w THEN {"size", "clientSize"} ELSE {})
                  \cup (IF win.show # old.show THEN {"show", "style"} ELSE {})
                  \cup (IF win.rects # old.rects THEN {"visibility"} ELSE {})
       IN  /\ has # {}
           /\ server' = [server EXCEPT ![id] = win]
           /\ SendOrder(WindowOrder(id, FALSE, has \cup {"title"}, win))
  /\ UNCHANGED <<screen, handshakes, received, handshakeDone, image, surfaces, inputs, pageVars, clicks>>

ServerDeletes(id) ==
  /\ Change /\ id \in DOMAIN server
  /\ server' = Without(server, id)
  /\ SendOrder(DeleteOrder(id))
  /\ UNCHANGED <<screen, handshakes, received, handshakeDone, image, surfaces, inputs, pageVars, clicks>>

\* Which window is active, perhaps before it is created; other orders in the same stream.
ServerTells(id) ==
  /\ Change
  /\ \E o \in {ActiveOrder(id), FrameMarker, IconOrder(id)} : SendOrder(o)
  /\ UNCHANGED <<server, screen, handshakes, received, handshakeDone, image, surfaces, inputs, pageVars, clicks>>

\* A part of the desktop is drawn.
ServerDraws(p) ==
  /\ Change
  /\ screen' = [screen EXCEPT ![p] = changes']
  /\ toClient' = Append(toClient, [type |-> "graphics", left |-> p, right |-> p, screen |-> screen'])
  /\ UNCHANGED <<server, handshakes, received, handshakeDone, image, surfaces, inputs, pageVars, clicks>>

\* RAIL hosts do this right after the shell starts; they draw the desktop afterwards.
ServerReactivates ==
  /\ Reactivates \/ changes = 0
  /\ Change
  /\ toClient' = toClient \o <<[type |-> "reactivate"],
                   [type |-> "graphics", left |-> 0, right |-> Width - 1, screen |-> screen]>>
  /\ UNCHANGED <<server, screen, handshakes, received, handshakeDone, image, surfaces, inputs, pageVars, clicks>>

-----------------------------------------------------------------------------
\* canvas.rs and the Session's surfaces.  A canvas is what each of its columns shows.

BlankCanvas(w) == [k \in 0..w - 1 |-> Blank]

\* Canvas::draw on every surface, of the columns that lie in the region.
Painted(windows, surfs, img, left, right) ==
  [id \in DOMAIN windows |->
     [windows[id] EXCEPT !.canvas =
        [k \in DOMAIN @ |->
           IF \E s \in surfs : s.id = id /\ k < s.w /\ s.x + k \in left..right
           THEN img[(CHOOSE s \in surfs : s.id = id).x + k] ELSE @[k]]]]

\* add_surface takes the origin as u16; from_element sets the width of the canvas, which
\* clears it.
Surface(id, win) == [id |-> id, x |-> win.x % U16, w |-> win.w]

\* Mutant: nothing asks for a repaint.
RebuiltUnpainted(s) ==
  LET shown == {id \in DOMAIN s.windows : ~s.windows[id].hidden}
  IN  [s EXCEPT
        !.surfaces = {Surface(id, s.windows[id]) : id \in shown},
        !.windows = [id \in DOMAIN @ |->
           IF id \in shown THEN [@[id] EXCEPT !.canvas = BlankCanvas(s.windows[id].w)] ELSE @[id]]]

\* rebuildRailSurfaces, on a state of the page and the session loop.
Rebuilt(s) ==
  LET shown == {id \in DOMAIN s.windows : ~s.windows[id].hidden}
  IN  [s EXCEPT
        !.surfaces = {Surface(id, s.windows[id]) : id \in shown},
        !.windows = [id \in DOMAIN @ |->
           IF id \in shown THEN [@[id] EXCEPT !.canvas = BlankCanvas(s.windows[id].w)] ELSE @[id]],
        !.inputs = Append(@, [type |-> "repaint"])]

-----------------------------------------------------------------------------
\* The page's callbacks.

OnScreen(win) == ~win.withdrawn /\ win.w > 0

Maximize(s, id) ==
  IF \/ RailWindowed \/ s.maximized
     \/ id \notin DOMAIN s.windows
     \/ ~OnScreen(s.windows[id])
  THEN s
  ELSE [s EXCEPT !.maximized = TRUE,
                 !.inputs = @ \o <<[type |-> "activate", id |-> id], [type |-> "maximize", id |-> id]>>]

NewWindow == [x |-> 0, w |-> 0, hidden |-> FALSE, withdrawn |-> FALSE, clip |-> 1, canvas |-> << >>]

\* Mutant: a window that comes after it was made active is not maximized.
OnWindowUnnoticed(s, info) ==
  LET known == info.id \in DOMAIN s.windows
      old == IF known THEN s.windows[info.id] ELSE NewWindow
      x == IF info.x # NoValue THEN info.x ELSE old.x
      w == IF info.w # NoValue THEN info.w ELSE old.w
      hidden == IF info.show # NoValue THEN info.show \in {SW_HIDE, SW_SHOWMINIMIZED} ELSE old.hidden
      win == [x |-> x, w |-> w, hidden |-> hidden,
              withdrawn |-> IF info.show # NoValue THEN info.show = SW_HIDE ELSE old.withdrawn,
              clip |-> IF info.rects # NoValue THEN info.rects ELSE old.clip,
              canvas |-> IF w # old.w THEN BlankCanvas(w) ELSE old.canvas]
      structural == ~known \/ x # old.x \/ w # old.w \/ hidden # old.hidden
      put == [s EXCEPT !.windows = With(@, info.id, win)]
      maximized == put
  IN  IF structural THEN Rebuilt(maximized) ELSE maximized

\* __rdp_rail_window: what the order carried replaces what the window had.  `clip' is how
\* many rectangles the clip path is made of, one meaning none.
OnWindow(s, info) ==
  LET known == info.id \in DOMAIN s.windows
      old == IF known THEN s.windows[info.id] ELSE NewWindow
      x == IF info.x # NoValue THEN info.x ELSE old.x
      w == IF info.w # NoValue THEN info.w ELSE old.w
      hidden == IF info.show # NoValue THEN info.show \in {SW_HIDE, SW_SHOWMINIMIZED} ELSE old.hidden
      win == [x |-> x, w |-> w, hidden |-> hidden,
              withdrawn |-> IF info.show # NoValue THEN info.show = SW_HIDE ELSE old.withdrawn,
              clip |-> IF info.rects # NoValue THEN info.rects ELSE old.clip,
              canvas |-> IF w # old.w THEN BlankCanvas(w) ELSE old.canvas]
      structural == ~known \/ x # old.x \/ w # old.w \/ hidden # old.hidden
      put == [s EXCEPT !.windows = With(@, info.id, win)]
      maximized == IF info.id = s.active THEN Maximize(put, info.id) ELSE put
  IN  IF structural THEN Rebuilt(maximized) ELSE maximized

OnDeleted(s, id) ==
  IF id \in DOMAIN s.windows THEN Rebuilt([s EXCEPT !.windows = Without(@, id)]) ELSE s

OnActive(s, id) == Maximize([s EXCEPT !.active = id], id)

\* dispatch_window_events: event after event.
Dispatch(s, e) ==
  CASE e.event = "window"  -> OnWindow(s, e.info)
    [] e.event = "deleted" -> OnDeleted(s, e.id)
    [] e.event = "active"  -> OnActive(s, e.id)
    [] e.event = "icon"    -> s

State == [windows |-> railWindows, active |-> railActiveId, maximized |-> railMaximizedFirst,
          surfaces |-> surfaces, inputs |-> inputs]

-----------------------------------------------------------------------------
\* The session loop: what comes from the server.

OnOrders ==
  /\ toClient # << >> /\ Head(toClient).type = "orders"
  /\ toClient' = Tail(toClient)
  /\ LET s == Folded(Dispatch, State, parse(Payload(Head(toClient).orders)))
     IN  /\ railWindows' = s.windows /\ railActiveId' = s.active /\ railMaximizedFirst' = s.maximized
         /\ surfaces' = s.surfaces /\ inputs' = s.inputs
  /\ UNCHANGED <<serverVars, handshakeDone, image, clicks>>

OnGraphics ==
  /\ toClient # << >> /\ Head(toClient).type = "graphics"
  /\ toClient' = Tail(toClient)
  /\ LET m == Head(toClient)
     IN  /\ image' = [p \in Positions |-> IF p \in m.left..m.right THEN m.screen[p] ELSE image[p]]
         /\ railWindows' = Painted(railWindows, surfaces, image', m.left, m.right)
  /\ UNCHANGED <<serverVars, handshakeDone, surfaces, inputs, railActiveId, railMaximizedFirst, clicks>>

\* DeactivateAll, at its end: the only canvas, if there is one only, takes the size of the
\* desktop.
OnReactivated ==
  /\ toClient # << >> /\ Head(toClient).type = "reactivate"
  /\ toClient' = Tail(toClient)
  /\ image' = [p \in Positions |-> Blank]
  /\ IF Cardinality(surfaces) = 1
     THEN LET s == CHOOSE s \in surfaces : TRUE
          IN  /\ surfaces' = {[s EXCEPT !.w = Width]}
              /\ railWindows' = [railWindows EXCEPT ![s.id].canvas = BlankCanvas(Width)]
     ELSE UNCHANGED <<surfaces, railWindows>>
  /\ UNCHANGED <<serverVars, handshakeDone, inputs, railActiveId, railMaximizedFirst, clicks>>

ClientInit == <<"handshake", "client status", "high contrast", "work area", "exec">>

\* Mutant: each handshake is answered.
OnHandshakeEach ==
  /\ toClient # << >> /\ Head(toClient).type = "handshake"
  /\ toClient' = Tail(toClient)
  /\ handshakeDone' = TRUE
  /\ received' = received \o ClientInit
  /\ UNCHANGED <<server, screen, changes, handshakes, image, surfaces, inputs, pageVars, clicks>>

\* handle_pdu: the first Handshake or HandshakeEx is answered.
OnHandshake ==
  /\ toClient # << >> /\ Head(toClient).type = "handshake"
  /\ toClient' = Tail(toClient)
  /\ handshakeDone' = TRUE
  /\ received' = IF handshakeDone THEN received ELSE received \o ClientInit
  /\ UNCHANGED <<server, screen, changes, handshakes, image, surfaces, inputs, pageVars, clicks>>

-----------------------------------------------------------------------------
\* The session loop: what comes from the page.  A command goes to the server at once, which
\* does what it says to a window it has; a maximize it may ignore, for the window may not
\* take commands yet (rail.rs:63).
OnRepaint ==
  /\ inputs # << >> /\ Head(inputs).type = "repaint"
  /\ inputs' = Tail(inputs)
  /\ railWindows' = Painted(railWindows, surfaces, image, 0, Width - 1)
  /\ UNCHANGED <<serverVars, toClient, handshakeDone, image, surfaces, railActiveId, railMaximizedFirst, clicks>>

OnCommand ==
  /\ inputs # << >> /\ Head(inputs).type \in {"activate", "maximize", "restore"}
  /\ inputs' = Tail(inputs)
  /\ received' = Append(received, Head(inputs).type)
  /\ LET id == Head(inputs).id
         win == IF id \notin DOMAIN server THEN << >>
                ELSE IF Head(inputs).type = "maximize" THEN [server[id] EXCEPT !.x = 0, !.w = Width]
                ELSE IF Head(inputs).type = "restore" THEN [server[id] EXCEPT !.show = SW_SHOWNORMAL]
                ELSE server[id]
     IN  \/ /\ id \in DOMAIN server => win = server[id] \/ Head(inputs).type = "maximize"
            /\ UNCHANGED <<server, toClient>>
         \/ /\ id \in DOMAIN server /\ win # server[id]
            /\ server' = [server EXCEPT ![id] = win]
            /\ SendOrder(WindowOrder(id, FALSE, {"show", "offset", "size"}, win))
  /\ UNCHANGED <<screen, changes, handshakes, handshakeDone, image, surfaces, pageVars, clicks>>

OnExec ==
  /\ inputs # << >> /\ Head(inputs).type = "exec"
  /\ inputs' = Tail(inputs)
  /\ received' = Append(received, "exec")
  /\ UNCHANGED <<server, screen, changes, handshakes, toClient, handshakeDone, image, surfaces, pageVars, clicks>>

\* A press on a window's canvas, on its taskbar button, and in the launcher.
Click == clicks < MaxClicks /\ Len(inputs) < MaxQueued /\ clicks' = clicks + 1

PressWindow(id) ==
  /\ Click /\ id \in DOMAIN railWindows /\ ~railWindows[id].hidden
  /\ inputs' = Append(inputs, [type |-> "activate", id |-> id])
  /\ UNCHANGED <<serverVars, toClient, handshakeDone, image, surfaces, pageVars>>

PressTaskButton(id) ==
  /\ Click /\ id \in DOMAIN railWindows
  /\ inputs' = inputs \o <<[type |-> "activate", id |-> id]>>
                      \o (IF railWindows[id].hidden THEN <<[type |-> "restore", id |-> id]>> ELSE << >>)
  /\ UNCHANGED <<serverVars, toClient, handshakeDone, image, surfaces, pageVars>>

Launch ==
  /\ Click /\ (EarlyClicks \/ handshakeDone)
  /\ inputs' = Append(inputs, [type |-> "exec"])
  /\ UNCHANGED <<serverVars, toClient, handshakeDone, image, surfaces, pageVars>>

Next ==
  \/ ServerHandshake \/ ServerReactivates
  \/ \E id \in Windows : ServerCreates(id) \/ ServerUpdates(id) \/ ServerDeletes(id) \/ ServerTells(id)
  \/ \E p \in Positions : ServerDraws(p)
  \/ OnOrders \/ OnGraphics \/ OnReactivated \/ OnHandshake
  \/ OnRepaint \/ OnCommand \/ OnExec
  \/ \E id \in Windows : PressWindow(id) \/ PressTaskButton(id)
  \/ Launch

Spec == Init /\ [][Next]_vars

-----------------------------------------------------------------------------
TypeOK ==
  /\ DOMAIN server \subseteq Windows /\ DOMAIN railWindows \subseteq Windows
  /\ \A id \in DOMAIN railWindows :
       LET win == railWindows[id]
       IN  /\ win.x \in Int /\ win.w \in Nat
           /\ {win.hidden, win.withdrawn} \subseteq BOOLEAN
           /\ DOMAIN win.canvas = 0..win.w - 1 \/ (win.hidden /\ win.canvas = << >>) \/ Reactivates
  /\ {s.id : s \in surfaces} \subseteq DOMAIN railWindows
  /\ railActiveId \in Windows \cup {NoValue}
  /\ handshakeDone \in BOOLEAN /\ railMaximizedFirst \in BOOLEAN

\* When every order has come in, the page has the windows of the server, where they are and
\* as they are shown: whatever stands between the orders of an update, and although an
\* update carries only some of the fields.
PageHasWindows ==
  (\A k \in DOMAIN toClient : toClient[k].type # "orders") =>
    /\ DOMAIN railWindows = DOMAIN server
    /\ \A id \in DOMAIN server :
         LET win == railWindows[id]
         IN  /\ <<win.x, win.w>> = <<server[id].x, server[id].w>>
             /\ win.hidden = (server[id].show # SW_SHOWNORMAL)
             /\ win.withdrawn = (server[id].show = SW_HIDE)

\* When nothing is on its way, each visible window shows the desktop under it and nothing
\* else (its canvas is as wide as the window), however its orders, the drawing and the
\* repaints were interleaved.
CanvasesShowDesktop ==
  (toClient = << >> /\ inputs = << >>) =>
    \A id \in DOMAIN railWindows :
      LET win == railWindows[id]
      IN  ~win.hidden => /\ DOMAIN win.canvas = 0..win.w - 1
                         /\ \A k \in DOMAIN win.canvas :
                              win.x + k \in Positions => win.canvas[k] = screen[win.x + k]

\* The foreground window of a single application is told to maximize, whether the server
\* named it before or after it was on screen.  The page does so once and does not look
\* whether the host obeys.
AppIsMaximized ==
  (~RailWindowed /\ railActiveId \in DOMAIN railWindows /\ OnScreen(railWindows[railActiveId]))
  => railMaximizedFirst

\* A window is clipped as the server says.
ClipFollows ==
  (toClient = << >>) => \A id \in DOMAIN server : railWindows[id].clip = server[id].rects

\* The client's part of the handshake is the first thing on the rail channel, and is sent
\* once, as soon as the server's has come in: it launches the program.
LaunchedOnce ==
  /\ received # << >> => Len(received) >= 5 /\ SubSeq(received, 1, 5) = ClientInit
  /\ Cardinality({k \in DOMAIN received : received[k] = "handshake"}) <= 1
  /\ (handshakes > 0 /\ \A k \in DOMAIN toClient : toClient[k].type # "handshake") => received # << >>
=============================================================================
