# Verification of IronBridge (wasm-rdp)

IronBridge is an RDP client that runs in a browser tab: a Rust program compiled
to WebAssembly speaks RDP through a WebSocket to a small proxy, and `web/app.js`
draws the page around it. This directory holds TLA+ models of the parts whose
correctness depends on the order in which things happen, TLC runs that check them
on small instances, and TLAPS proofs of the results that matter most.

## The system

| Component | State it keeps | Operations | Talks to |
|---|---|---|---|
| Session lifecycle (`app.js` connect/reconnect, `session.rs` `connect`, `run_session`) | `session`, `savedCredentials`, `isUserDisconnect`, `reconnectAttempt`, `reconnectTimer`, `flapCount`, the two screens, the overlay | login, `doConnect`, `doConnectRedirected`, `disconnect`, `attemptReconnect`, `__rdp_session_ended` | WASM through promises and global callbacks, timers, the user |
| Desktop resize (`app.js` 1250-1365, `session.rs` `resize`, deactivation-reactivation) | `negotiatedDesktop`, `desiredSize`, `dispReady`, `resizeTimer`, `resizeWatchdog` | `onViewportChanged`, `sendResize`, `__rdp_display_control_ready`, `__rdp_desktop_resized` | the server through DisplayControl, with long delays |
| Multi-monitor (`app.js` 1370-1520) | popups, `screenDetailsObj`, surfaces | layout, surfaces, `onScreensChange` | WASM surfaces, the window-management API |
| Clipboard, page side (`app.js` 240-440, 1100-1240) | lists in flight, acknowledged lists, the held paste key | advertise, acknowledge, hold and send the paste key | WASM clipboard back end |
| Clipboard, WASM side (`clipboard.rs`) | pending request slot, file stream states, pending files | CLIPRDR callbacks, file transfers | the server, the page |
| EGFX surfaces (`session.rs` `WasmGfxHandler`, `on_avc420_decoded`) | `gfx_surfaces`, mappings, bitmap cache, decoders in the page | create, map, paint, copy, cache, delete, reset | canvas, WebCodecs decoders (asynchronous) |
| Session loop (`session.rs` `run_session`) | input queue, active stage, `egfx_active` | select over frames, input and the frame timer | everything above |
| Framed reader (`framed.rs`) | buffer, pending socket messages | `read_pdu`, `read_exact`, `read_text_message` | WebSocket, connector, session loop (which drops its future) |
| Connection sequence (`session.rs` `perform_*`, `redirect.rs`) | connector state, `PENDING_REDIRECT` | connect, TLS upgrade, CredSSP, redirect authentication | proxy, server |
| Proxy (`server/src/main.rs`) | two sockets, TLS state | pre-TLS relay, TLS upgrade, TLS relay | browser, RDP host |
| RDPSND (`crates/ironrdp-rdpsnd`) | client and server state machines, pending wave | negotiation, training, wave data | audio decoder |
| RAIL (`crates/ironrdp-rail`, `rail.rs`, `app.js` 2090-2400) | handshake, windows | client info, window orders, exec result | session lifecycle |
| Audio playback (`audio-worklet.js`, `app.js` 2440-2700) | ring of PCM chunks, decoder | queue, catch up, pull | the audio thread |
| Input mapping (`app.js` keyboard, `input.rs`) | held modifiers, Alt+Tab emulation | key down/up, blur | session loop |

The browser side is single-threaded, but almost every function of it awaits, arms a
timer or is called back, so the interesting interleavings are between handlers,
promise continuations, timers and messages of the server. The proxy runs one task
per connection with `select!` loops.

Hard behaviours: callbacks without a session identity; timers whose handle is lost;
a request whose answer arrives after the world moved on (resize, clipboard, video
decode); a `select!` that drops a half-finished read; limits (retries, flaps, stream
ids, sequence numbers, latency); and half-open relays.

### What makes each component correct

- **Session lifecycle.** The overlay and a desktop without a session always have
  something behind them that will take them down; a stop by the host is final; a
  retry of a lost session waits alone, with nothing else that connects; no session runs that nobody holds and nobody told to stop;
  reconnecting comes to an end.
- **Desktop resize.** When everything has settled the desktop has the size of the
  viewport; nothing is sent into a channel that is not open; an unanswered request
  is noticed.
- **Clipboard, page side.** A key that was held back is sent, once, with its
  modifier, and finds what the user pasted; the count of unanswered lists is right;
  what the page takes as known to the session is known to it; the session's own
  clipboard is not overwritten.
- **Clipboard, WASM side.** Each answer of the remote goes to the request it
  answers (across formats the code does not see to that: `CliprdrMisread.cfg`); a file is assembled from its own ranges; what is copied last in the
  session reaches the host's clipboard.
- **EGFX surfaces.** A surface shows what the server drew on it, whatever arrives
  late; a frame is drawn on the surface it was encoded for; a decoder is never
  given a delta without its reference; the legacy renderer is suppressed only
  while surfaces exist.
- **Framed reader and proxy.** The session loop sees the PDUs the server sent, no
  more, no less and in order, however reads are cut or dropped, and sees them all
  unless it is told that the connection is gone.
- **RDPSND.** Both state machines accept whatever the other may send; waves are
  heard once, in order, whole and in their format; a negotiation ends.
- **Multi-monitor.** The layout sent is the one the surfaces are built from.
- **Connection sequence.** A session that is up has been authenticated as it was
  negotiated; nothing but the connection request leaves in clear; the redirect packet
  is used once; an attempt comes to its end, and who leaves takes the server along.
- **RAIL.** The window table is that of the server's orders; a visible window
  shows the desktop under it; the application is launched once; a session with no
  window left ends, one that is about to show a window does not.
- **Audio playback.** Latency is bounded and samples are played in order.
- **Input mapping.** No key stays down on the remote that is not held.

## The modules

A definition keeps the name of the function it translates where it can
(`ClickCancel` is the click handler of the Cancel button, `on_` and `__rdp_` are
dropped from the names of callbacks). `PROJECT.json` maps each definition to its
lines. A definition introduced by "Mutant of" is not part of a specification: it
is a plausible mistake in the definition after it, which the named property
must reveal.

| Module | Models |
|---|---|
| `SessionLifecycle` | the lifecycle, for several overlapping sessions |
| `DesktopResize` | the resize loop between viewport, page, WASM and server |
| `PasteSync` | paste keys and the sync of the host clipboard into the session |
| `EgfxSurfaces` | surfaces, bitmap cache, canvas, asynchronous video, the legacy renderer |
| `PduFraming` | proxy relay, WebSocket, `WasmFramed` and its callers |
| `PduStream` | what the reader promises: PDUs in the order sent (implemented by `PduFraming`) |
| `RdpsndChannel` | the RDPSND client and server and the two directions between them |
| `AudioLink` | what the channel promises: waves whole, in order, in their format (implemented by `RdpsndChannel`) |
| `CliprdrBackend` | the WASM side of the clipboard: copies made in the session, downloads, the file the remote pulls |
| `FileFetch` | what a download promises: begun, then saved whole, failed or given up (implemented by `CliprdrBackend`) |
| `WindowOrders` | the stream of window orders and its parser, an operator |
| `RailWindows` | the rail channel, the windows of the page, their surfaces and canvases |
| `ConnectSequence` | client, proxy and server from the WebSocket to the session, with a redirection |
| `MC...` | the model values and sets the `.cfg` files give to the constants |
| `...Proofs` | theorems about the module of that name; `DisplayProofs` those about `EgfxSurfaces` and `DesktopResize` |

**SessionLifecycle.** A slot of `Sessions` is one call of `wasm.connect` and the
`run_session` task it spawns: `task` is its WASM side, `caller` the JavaScript
continuation that awaits its promise. Because `connect` spawns the task before the
continuation runs, "the task runs" and "the page knows" are two steps (`ConnectOk`,
`Continue`), and `SessionEnded`, which like `__rdp_session_ended` does not know
which session ended, can come between them. Timers whose handle the page
overwrites or never keeps are counters (`retryTimers`, `giveUpTimers`,
`railKillTimers`). `recentlyConnected` is the comparison with `FLAP_WINDOW_MS`;
`stop` is a history variable. The RemoteApp window manager is reduced to whether a
window is on screen or ever was.

**DesktopResize.** One dimension stands for both, and the session is "down",
"connecting" or "up". Debounce timers are counted, for the handle names the last
only. `requests` are the layouts the server has not handled; it applies,
answers through a ResetGraphics, or ignores them, in order. The model assumes
that a server grants the size asked for at connect. The definitions that `EgfxSurfaces`
has too are named for the module (`ResizeInit`, `ResizeNext`, `ResizeSpec`,
`ResizeTypeOK`), for one module holds the proofs about both.

**PasteSync.** The page, the remote's keyboard and the remote's clipboard are
three processes: keys and Format Lists each arrive in order, but a list and a key
can overtake each other. The paste event is the default action of the keydown, so
nothing of the page runs between the two (`Idle`); the browser may also not fire
it. The clipboard reads that are awaited are two steps. `Features` selects the kinds of
event an instance has. A held key carries what it may paste (`want`): the content of its
own paste event and, as a list always announces the host's clipboard of the moment, every
content copied since.

**EgfxSurfaces.** The desktop is a row of columns and a pixel is a colour. A
message and its handler are one action, since messages arrive in order and the
handler runs at once; what is late is the page's decoder, whose frames come
back in `DecoderOutput`. `surf` and `saved` are what the server takes the client to
have, and the properties compare the two. Assumed of the server: it
maps surfaces side by side, deletes them before a reactivation (as the comment
at `session.rs` 217-221 says), and begins the video of a surface with a keyframe.
A decoder that is closed returns nothing more. The two catch blocks of the page's decoder
(a `configure` or a `decode` that throws) are not modelled; its error callback is.

**PduFraming.** A byte is a number, and `Half` is 128 in the code, so that
lengths keep the shape of the fast-path and TPKT headers. The client's `read_pdu` is
a `select!` branch: `Cancelled` drops its future while it waits in `fill_buf`, and
the buffer must survive. Bodies are made of bytes that look like headers, so that
a reader that loses its place shows.

**RdpsndChannel.** Both crates' state machines, over two queues. The server of the
crate sends a wave below version 8 as one message; `Peer` adds what other
servers do and the client is written for: waves in two messages, no training, a
negotiation in the middle of the stream (after which that server sends no wave until it has the
client's formats, and ignores a confirmation of the old round). The first four
bytes of a wave (`head`) and the rest (`tail`) travel apart, so that a wave put
together from two others shows. An error of `handle_pdu` is logged and the session
goes on (`failed` notes that there was one).

**CliprdrBackend.** The backend sends through the input queue of the session loop,
which makes PDUs of its messages in order; the two are one queue, `toRemote`. The
remote answers format data from the clipboard it has at that moment, and file contents in
any order and as short as it likes. A range of our own file is asked for with its position;
requests for its size, and positions that do not fit `usize`, are left out, and a wrong
answer to a request for a size counts as a refusal. Assumed of the CLIPRDR library: it hands a file
list that came in answer to a request to `on_remote_file_list`, and everything else,
errors included, to `on_format_data_response`. `Overlap` says whether something is
copied, pasted or unfocused while something else is read or written; the
counterexamples show what then goes wrong. A write of the host clipboard that failed is
tried again by the page in two steps (`RetryWrite`, `RetryWritten`), for the page awaits
it. A session can be replaced by another (`Reconnect`): the backend is new, the
thread-local content is not.

**WindowOrders, RailWindows.** An order on the wire is a sequence of fields, each of
one or more units; `parse` reads it as `window.rs` does, flag by flag, so a field
whose length is wrong makes the rest of the same order another one's; the next order is
found by the size of this one (`window.rs` 194). Orders of no known type and the z-order
are left out. One dimension stands for
two: a window is `x` and `w`, a canvas what each of its columns shows, and the
desktop one version per column. `Rebuilt` is `rebuildRailSurfaces` with the two
effects it has in other files: setting the width of a canvas clears it, and the repaint
joins the input queue. The page's `!session` guards (`app.js` 2104, 2290) are left out: the
model begins where the page has stored the handle. The host of the model obeys a maximize
or ignores it, as comments of the code say it does for one that comes at the birth of a
window. `NoValue` stands for a field an
order does not have, so no place in `Places` is it. `Reactivates`, `EarlyClicks`, places off the left edge and
more than one visibility rectangle are what the counterexamples turn on.

**ConnectSequence.** A message is a PDU; the connector's states after authentication
are `Exchanges` PDUs each way. The proxy is "raw", in its "handshake", "tls" or
"closed", and what either side says in the meantime waits in `up`, `down`, `tcpUp`
and `tcpDown`. A server selects any protocol, answers anything it may, or closes at any
moment; it drops a token it did not issue or has seen. A new connection is opened only
when the earlier one is closed on both sides: attempts that overlap are those of
`SessionLifecycle`. `check_cert_pin` changes nothing, for it only warns.

## The runs

| Run | Instance | Shows |
|---|---|---|
| `lifecycle_one` | 1 slot, 2 attempts, 2 flaps, 2 timers of a kind, desktop and RemoteApp, `FairSpec` | without overlap a stop by the host is final, no session leaks, the timer of a retry is armed only while nothing else is under way, and an overlay is taken down |
| `lifecycle_two` | 2 interchangeable slots, 1 attempt, 2 flaps, 2 timers, desktop and RemoteApp | with overlapping sessions: types, an overlay and an empty desktop are always backed |
| `lifecycle_takeover` | 2 slots, 2 attempts, desktop only | **violated**: a stop by the host is not final when an earlier reconnect is in flight |
| `resize_follows` | widths below, above and inside the limits of MS-RDPEDISP, odd and even, 2 timers, 2 layouts; the viewport rests while something is unanswered | the desktop follows the viewport, nothing is dropped, requests are watched |
| `paste_text` | 2 texts, 3 keys, 2 lists, focus loss and page shortcuts | one session: the acknowledged paste is current, modifiers arrive, lists are counted |
| `paste_sessions` | a text and a file, 1 key, 1 list, reconnects, drops and the clipboard watch | over reconnects: what is known was told, and a held key is backed by a timer or a read |
| `egfx` | 2 interchangeable surface ids, 2 columns, 2 creations, 2 frames each, 2 sessions, both codecs | surfaces and canvas are current, the legacy renderer shows, frames and references are right when sessions begin clean |
| `framing` | all three header forms, 4 PDUs, reads of up to 3 bytes, 2 messages in flight, `FairSpec` | the answer to the upgrade finds its reader, the PDU stream is implemented and delivered |
| `rdpsnd` | versions 5, 6 and 8, 2 offers, one with an unsupported format, 4 waves, 3 messages in flight, 2 negotiations, every kind of peer, `FairSpec` | no state refuses a message, waves are heard as sent, negotiations end |
| `clip` | 2 copies among text with a bitmap, bitmaps and files of 0 and 3 bytes in chunks of 2, offered files of 3 bytes and then 1, failing writes, 1 reconnect, no overlap, `FairSpec` | the host gets the last copy, downloads are whole and in order and implement `FileFetch`, the remote reads the offered file whole, a text lands in the end |
| `rail` | 2 windows, 2 columns, whole or right half, 3 changes of the server, 2 updates in flight, 1 click | the page has the server's windows, canvases show the desktop, one launch, the first foreground window is told to maximize |
| `connect` | SSL, HYBRID, HYBRID_EX and RDSTLS, 2 NTLM rounds, 2 exchanges, 4 connections, `FairSpec` | sessions are authenticated, only the request is in clear, tokens are good once, attempts end, servers are freed |

The bounds are the smallest at which the hazards occur. A second slot is what an
overlap takes; a second attempt, flap or timer is the first one that is not the only
one. Two creations of a surface let an id be used again, and two frames make one a delta.
Four PDUs in messages of three bytes cut every header at every place and still leave
room for two PDUs in one message. A third message in flight lets a volume message
come between a wave and a new offer. A file of three bytes in chunks of two takes two
ranges, and one of none takes no range at all; two copies make a first and a last one. Two
windows let an order of one stand before that of the other, and three changes are
enough to create, draw and move. Four connections are a session, its redirection, a
second one, and a login after it. `MaxKeys` and `MaxLists` hold the
user back, not the page: the events of a key that is released come on top.
`lifecycle_two` has one attempt and `egfx` one colour because the runs would
otherwise take too long; two attempts are in `lifecycle_one`, two colours in
`EgfxReconnect.cfg`.

`CHECK_DEADLOCK FALSE` is set where the system may stop: in `lifecycle_one` when the
only slot is still named by the page's handle of a session that has ended (a user logs
in again, which takes a second slot: `lifecycle_two` has no deadlock); in `framing` when
the connection is gone and the client knows it; in `rail` and `connect` when the bounds
(changes, clicks, connections) are used up and everything has been handled.

### Further counterexamples

These configurations are not among the runs; each shows a behaviour of
the code that contradicts the invariant it names.

| Configuration | Violates | Behaviour |
|---|---|---|
| `LifecycleGiveUp.cfg` | `LoginMeansNoSession` | the 3 s give-up timer of a failed attempt fires into a session that has connected since, and shows the login screen over it |
| `ResizeConnecting.cfg` | `DesktopFollowsViewport` | a viewport that moves while a connect is awaited is not noticed: the size was read before the await, and without a session the change is ignored |
| `ResizeIgnored.cfg` | `IgnoredIsNoticed` | the answer to one layout disarms the only watchdog, and a later one is ignored unnoticed |
| `PasteAckOfEarlier.cfg` | `AckedPasteIsCurrent` | while a file is read, the answer to an earlier list releases the key of its paste |
| `PasteKnown.cfg` | `KnownPasteIsCurrent` | a second paste of a content that is advertised but not acknowledged is sent at once, ahead of the list |
| `PasteEarlyList.cfg` | `SyncWaitsForChannel` | a clipboard read begun in one session ends in the next and advertises before its channel is open |
| `PasteSwallowed.cfg` | `SwallowPairs` | V is let go after a blur: `pasteKeyUp` stays set and swallows the keyup of a later, plain V |
| `PasteBare.cfg` | `NeverBare` | Ctrl+V whose Ctrl the page does not count as down (pressed before the session was up, or released by a page shortcut) arrives as a bare V |
| `PasteOverwritten.cfg` | `NeverOverwritten` | the WASM side's pending clipboard outlives the session and is advertised as the first Format List of the next, over a copy made in the session |
| `ResizeOvertaken.cfg` | `DesktopFollowsViewport` | `sendResize` compares the viewport with the last size the server confirmed: back at that size while another is unanswered, no layout is sent, the pending one is applied, and nothing corrects it |
| `EgfxReconnect.cfg` | `FrameIsForSurface` | only `cleanupSession` closes the decoders: after a reconnect or a redirect a decoder of the old session is used again for a surface of the same id and size, and draws what it still had |
| `CliprdrMisread.cfg` | `ReadAsRequested` | a second copy replaces `pending_format`, "to interpret the response" (`clipboard.rs` 192), while the first one's data is on its way, and the data is read in the second one's format: a bitmap as UTF-16 |
| `CliprdrLost.cfg` | `HostCatchesUp` | the first answer takes the slot of the second request, whose answer is then dropped: the host never gets the last copy |
| `CliprdrTrap.cfg` | `NeverTraps` | a shorter file is offered while the remote reads the longer one: a range that starts behind its end panics (`data[start..end]`), and the module is unusable from then on |
| `RailReactivated.cfg` | `CanvasesShowDesktop` | a reactivation with one window gives its canvas the size of the desktop |
| `RailEarlyExec.cfg` | `LaunchedOnce` | the launcher is used before the server's handshake: the Execute PDU goes out ahead of the client's own handshake |

More of them come with a change to a configuration, in its constants and the property it
names:

- `ResizeFollows.cfg` with `Dpr = 2` violates `DesktopFollowsViewport`: a redirect asks
  for the width in CSS pixels.
- `Egfx.cfg` with `Mixed = TRUE` and two colours violates `SurfaceIsCurrent`: a paint or
  copy between a video frame and its decoding is overwritten, or copies the old content.
- `PasteText.cfg` with `Files <- OneFile` and `Features <- Drops` violates
  `AdvertsCounted`: a dropped file is advertised without being counted, and its answer is
  taken for another's. With `OneFile` alone it violates `FileIsTold`: a file whose read
  failed counts as known.
- `CliprdrMisread.cfg` with `Copies <- OnlyFiles` and `Sizes <- OneFile` violates
  `SavedWhole`: the remote copies other files during a download, without locks the later
  ranges come from the new ones, and the saved file is of both. With `Copies <- OnlyText`
  and `FairSpec` it violates `TextLands`: when the retry of an earlier text returns it
  clears the flag of a later one that failed meanwhile (`app.js:384`), which never lands;
  and, with one copy, `HostCopyKept`: a copy made outside while the tab was unfocused is
  overwritten by the retry, against `docs/clipboard.md:53`.
- `Rail.cfg` with `Places <- OffLeft` violates `CanvasesShowDesktop`: `add_surface` takes
  the origin of a window as u16, and nothing is drawn on one that begins left of the
  desktop. With `Rects <- SomeRects` it violates `ClipFollows`: an update without
  visibility rectangles leaves the clip path of the earlier ones, against "Empty ⇒ no
  clip" in `app.js:2251`.
- `Connect.cfg` with `StallingSpec` violates `Answered`: no part of the connection
  sequence has a time limit, and a server may neither answer nor close.

### Finding

One run finds the code to contradict what its own comments say; the details are in
`PROJECT.json`. `lifecycle_takeover`: Cancel leaves a reconnect in flight that is
already awaiting `wasm.connect`. The user logs in again, that session is evicted, "Not
reconnecting" is shown, and then the cancelled reconnect connects after all.

## Fairness

Safety is checked without fairness. The liveness properties assume:

- `lifecycle_one`: armed browser timers fire, promise continuations run, and every
  connect settles (weak fairness of each). The last is an assumption about the
  network: `wasm.connect` has no timeout of its own. Users and hosts need not act.
- `framing`: weak fairness of the proxy's relay and upgrade and of the client's
  steps. `FillBuf` and `ReadFails` need strong fairness: an input event can win the
  `select!` again and again, but `select!` chooses among ready branches at random, so a
  read that is ready again and again is taken.
- `rdpsnd`: weak fairness of the two message handlers.
- `clip`: weak fairness of the backend's handlers and of the page's retry, and the
  remote answers what it is asked. The focus may come and go, but `TextLands` supposes
  that the retry runs while the tab has it: the page tries again whenever it gets it.
- `connect`: weak fairness of the client's and the proxy's tasks and of the page's call
  of `connect_redirected`, and a server that handles what it gets or closes. The last
  is an assumption, which `StallingSpec` drops.

## Proofs

Every theorem is about the specification for all values of its constants, under the
assumptions named in its module (`ConstantsAssumption`, `ResizeAssumption`,
`PasteAssumption`, `EgfxAssumption`, `FramingAssumption`, `RdpsndAssumption`,
`MatchingAssumption`, `ConnectAssumption`, `RailAssumption`, `CliprdrAssumption`), which TLC evaluates for each instance.

| Module | Theorem | By the inductive invariant |
|---|---|---|
| `SessionLifecycleProofs` | `TypeCorrect` | `TypeOK`; "the handle names an armed timer" is the part that is not a type, and without it cancelling would take `retryTimers` below 0 |
| | `OverlayAlwaysBacked`, `DesktopAlwaysBacked` | `Backed`: the two screens must be proved together, for the overlay is shown on a desktop, and both need that a stop by the user takes the credentials or sets the flag |
| | `HostStopAlwaysFinal`, `NothingLeaks`, `RetryTimersAreAlone` | `OneInv`: at most one timer is armed and nothing else is then under way; credentials and an open form exclude a session that runs; under `OneSlot`, that a session begins only when the one before is gone |
| `DisplayProofs` | `ResizeTypeCorrect`, `RequestAlwaysWatched` | each inductive by itself |
| | `NeverDroppedAlways` | with `ReadyIsOpen`: the page believes the channel open only if it is, although it keeps the flag over a lost connection |
| | `FollowsRestingViewport` | `AsksAsNeeded` (all that was asked for is the viewport's size) and `Corrected` (a difference has a timer, a layout or a channel that will open); needs `Moves = {}` and `Dpr = 1`, and the counterexamples show that both are needed |
| | `LegacyAlwaysShown` | `Suppressing`: `egfx_active` exactly while there are surfaces, the same on both sides |
| | `FrameAlwaysForSurface`, `DeltaAlwaysHasReference` | `Decoding`: a decoder's frames are of the surface with its id, and what it was fed last is known; under `Closing`, that every session begins after `cleanupSession` |
| | `SurfaceAlwaysCurrent` | `Current`, see below; under `Closing` and `~Mixed` |
| | `EgfxTypeCorrect` | `EgfxTyped`: `TypeOK` with the types of what the server keeps, which has a row as wide as the client's for each surface; no hypothesis |
| `PasteSyncProofs` | `HeldAlwaysBacked`, `PasteTypes` | with: a paste event finds the timer of its keydown |
| | `KnownIsTold` | `Told`: while a text counts as known, a Format List with a format is queued or the remote holds one |
| | `ModifierArrives` | `ModInv`: following the keys on their way, the modifier is down on the remote when a held key gets there, and after the last of them exactly if the page counts it as down |
| | `ListsCounted` | `Counted`: lists on their way and answers on their way, in each stage of the channel; under `OneSessionReads` |
| | `AckedPasteFinds` | `Current`: the last list on its way, or the remote if there is none, has the text that counts as known; under `TextsOnly` |
| `PduFramingProofs` | `TypeCorrect` | `Typed` and `Suspended`: the length of a form, in digits of `Radix`, is bytes; `pending` is read again after each message |
| | `HeaderTells` | none: a lemma by cases on the three forms, by arithmetic on any `Half` |
| | `TextAlwaysFindsReader` | `QueueOK` and `Upgrading`: how the stages of proxy, command and client go together |
| | `StreamImplemented` | `InOrder`, see below |
| `RdpsndChannelProofs` | `TypeCorrect` | `Inv`, and `rounds \in Nat` |
| | `NeverStopsAlways`, `HeardAsSent` | `Inv`, see below |
| `RailWindowsProofs` | `AlwaysLaunchedOnce` | `Opening`: until the handshake has come in it is the first thing in the stream, the page has no window and nothing is queued; needs `~EarlyClicks`, which `RailEarlyExec.cfg` drops |
| | `ParserFollows` | none: an induction over the orders of an update, see below |
| | `PageAlwaysHasWindows`, `AppAlwaysMaximized` | `PagesInv`, see below |
| | `CanvasesAlwaysShow` | `CanvasInv`, see below; under `OnDesktop` |
| `CliprdrBackendProofs` | `TypeCorrect` | `Typed`: with the messages of both queues, and that at most one message of a paste of our file is on its way, which the first conjunct alone does not give; no hypothesis |
| | `CatchingUp` | `CatchesUp`, see below, with `Agree`: all that is on its way asks for, or brings, one format, and it is the one noted; under `~Overlap`, as the others that follow |
| | `PastesAreWhole` | `Pulling`: what the remote has read is the file up to a position, at which what is asked or given begins |
| | `SavesAreWhole`, `DownloadsImplementFetch` | `Listing` and `Fetching`, see below |
| `ConnectSequenceProofs` | `TypeCorrect`, `NothingElseInClear`, `TokensAreGoodOnce`, `SessionsAreAuthenticated` | `Inv`, see below |

The invariant of `RdpsndChannelProofs` describes the pipe. `Handshake` relates the
states of the two sides to what is in flight: which answers a waiting server will
find, where formats and training stand relative to waves. `WavesInFlight` says that
a wave's parts are adjacent and that its format number means the same on both
sides, although a new offer may be on its way. `Unheard` says that what was
heard, followed by what is in flight, is what was sent; from it every step of the channel is
a step of `AudioLink` or none, which is `HeardAsSent`. `MatchingAssumption`
(that the formats a client picks are formats) is a fact of `SelectSeq`, a recursive
operator the provers cannot open; TLC evaluates it.

The invariant of `ConnectSequenceProofs` follows the messages. `Shapes` says what the
queues hold and `Rounds` where the counter of CredSSP and of the exchanges stands;
`InClear` that the request is the only message ahead of the TLS upgrade, so that the
proxy relays nothing else in clear; `Tokens` that every token in the slot, in the
page's hands or in flight is newer than those presented; `Authentic` that the
protocol the client took is the one the server agreed to (`Agreed`), that a message
which grants something stands for a server that granted it (`Granted`), and that
before such a message nobody is past authentication (`Ungranted`).

`CliprdrBackendProofs` follows the messages of the clipboard. `CatchesUp` looks for the
last copy: there is a place in the queue to the client, behind which everything was sent
since; either the announcement of the copy stands there, or all of the queue is that new
and the page has the copy or waits for its data. `Fetching` says that a request and an
answer fit the transfer with their stream id, if it is still there: they begin where its
bytes end, and stay within the size it was told. Answers to requests whose transfer is gone
fit because ids are not used again (`Later`), so they are dropped and not mistaken. A
transfer has the first bytes of a file of the last copy, and no two have the same file, so
that the end of one takes exactly its file from those `FileFetch` waits for. `Listing`
says why a file list finds no transfer: one at most is asked for or on its way, and a
download is not begun while anything is. From these every step is one of `FileFetch` or
none (`PromisedStep`).

`SurfaceAlwaysCurrent` follows a surface through its decoder. `Following` says that the
frames in a decoder have rising numbers above the last one drawn, that the one numbered
like the server's last would paint what the server has, and that a surface whose last
frame is drawn holds just that. `OnScreen` says that the canvas shows each mapped surface
and that no two of them overlap. Both rest on `Decoding`: only frames of this surface come
out of its decoder.

`StreamImplemented` is about bytes, and no variable says where in the stream they are.
`InOrder` says that there are such places: one sequence `all` of the bytes ever sent, in
which PDU i begins behind byte `off[i]` and message i of the WebSocket behind byte
`cut[i]`, and the buffer stands behind the last PDU handed on. A step that cuts, joins or
takes bytes only moves these places. `PduLength` then finds the length of the PDU that is
there, by `HeaderTells`, and the step is one of `PduStream`.

`RailWindowsProofs` goes from the bytes to the canvas. `ParserFollows` says that an update
is read as it was written, for each of the sixteen fields a window order may or may not
have and for any number of orders. `PagesInv` then needs only the events: `Chain` says
that from what the page shows, the updates on their way lead, order by order, to the
windows the server has, and `Settled` that nothing has been left to maximize. `CanvasInv`
adds the picture. `Canvases` says that surfaces go with the visible windows, that canvases
have the width of their window, and that they show the image unless a repaint is queued;
`ImageFollows` that at each position the image is the server's unless something that covers
the position is on its way, whose last shows it; `Beginning` that a reactivation stands
ahead of all windows and is followed by a drawing of the whole desktop.

The theorem modules of TLAPS offer induction with a predicate as a parameter, which the
provers here cannot instantiate. `RailWindowsProofs` therefore proves the principle for a
set (`Least`, `Induction`): a set of numbers that has 0 and the successor of each of its
members has every number, by the well-foundedness of the numbers
(`NatLessThanWellFounded`, `WFMin`). What is shown by induction becomes the set of the
numbers it holds for. The models fold over sequences with recursive functions (`Folded`),
of which only the equations at 0 and at a successor are used.

Hypotheses. Each of them excludes what another configuration shows to fail, and is no
weaker than that: `OneSlot` is the absence of the overlap of `lifecycle_takeover`;
`OneSessionReads` the absence of dropped files, which are not counted, and of a
clipboard read that ends in the next session (`PasteEarlyList.cfg`); `TextsOnly` adds that
no file is pasted (`PasteAckOfEarlier.cfg`); `Closing` and `~Mixed` exclude
`EgfxReconnect.cfg` and the late frame over a newer paint; `OnDesktop` excludes
`RailReactivated.cfg` and windows that begin left of the desktop; `~Overlap` excludes
`CliprdrMisread.cfg`, `CliprdrLost.cfg` and `CliprdrTrap.cfg`. Under it a copy waits until
files and data of another format that are being read have come in (copies of one format may
follow each other at any time), a download until no data is on its way, and an offer or a
paste of our file until all is quiet; answers, retries of a write, copies outside the
session and reconnects come at any time. `KnownIsTold`,
`ModifierArrives`, `StreamImplemented`, `ParserFollows`, `PageAlwaysHasWindows` and
`AppAlwaysMaximized` have no hypothesis beyond the assumptions of their modules.

Only model-checked: the liveness properties (`ReconnectResolves`, `AllDelivered`,
`NegotiationEnds`, `TextLands`, `Answered`, `ServerFreed` and the liveness part of
`ImplementsLink` and `ImplementsFetch`), for fairness and ENABLED are beyond the prover.
All other properties of the passing runs are theorems. Where a `TypeOK` is not among the
properties of a run it is a theorem, but for that of `RailWindows`, which holds in its run
when it is added to the configuration.

## Not modelled

- Multi-monitor layout, input mapping and audio playback are planned (below).
- The session loop as a whole: its branches are actions of the modules they
  concern. A composition would multiply their states and add no
  interaction that the pieces do not have.
- Of the proxy, the routes, the list of remote applications and the Windows service,
  which keep no state.
- Of the connection sequence, the settings the connector negotiates, and the contents of
  certificates, tokens and TSRequests.
- Of RAIL, icons, titles, the taskbar's buttons and the toast of a failed launch. Of the
  clipboard, the conversions of text and bitmaps.
- Canvas drawing in two dimensions, cursors, message formats, bindings: functions
  for unit tests.
- `read_exact` of the framed reader, which CredSSP and RDSTLS call and whose shape is
  that of `read_by_hint`; and failures of the progressive decoder.

## Plan

In this order:

1. `JitterBuffer`: the audio worklet's queue, catch-up and pull. Latency bounded,
   samples in order, no wait for ever; theorems about its bounds.
2. `InputModifiers`: modifiers over blur, shortcuts and the Alt+Tab emulation.
3. `MonitorLayout`: the layout functions as operators against reference
   definitions, then popups and `onScreensChange`, and the framebuffer that is replaced
   before the server has taken the new layout (`session.rs` 2147).
4. `CliprdrBackend` composed with `PasteSync` where they share the pending content, and
   `RailWindows` with the exit that `SessionLifecycle` takes as given.
5. The BER lengths of `read_credssp_response`.

Proofs to add: `TypeOK` of `RailWindows`; `ListsCounted` for a
session that follows another while a read is awaited.
