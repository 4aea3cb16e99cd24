---------------------------- MODULE EgfxSurfaces ----------------------------
(***************************************************************************)
(* The graphics pipeline: the surfaces of WasmGfxHandler (wasm/src/        *)
(* session.rs), the canvas they are blitted to, the legacy renderer they   *)
(* suppress, and the WebCodecs decoders of web/app.js that return AVC420   *)
(* frames long after the handler passed them on.                           *)
(*                                                                         *)
(* The desktop is a row of Cells columns with one canvas; a surface is a   *)
(* row of colours.  Messages arrive in order and the handler runs at once, *)
(* so an action is the server sending a message and the client handling    *)
(* it; `server` is what the server believes the client to hold.            *)
(***************************************************************************)
EXTENDS Naturals, Sequences, Functions

CONSTANTS
  Ids, Slots,     \* surface ids, cache slots
  Colours,        \* what the server draws
  Black, Legacy,  \* a new surface or canvas; a legacy update
  Cells,
  Codecs,         \* those the server uses: subset of {"avc", "other"}
  Mixed,          \* may other messages use a surface whose video is still being decoded?
  Closing,        \* does every new session begin after cleanupSession?
  MaxCreates, MaxFrames, MaxSessions   \* bounds: surfaces ever, AVC420 frames of one, sessions

ASSUME EgfxAssumption ==
  /\ Cells \in Nat \ {0}
  /\ MaxCreates \in Nat /\ MaxFrames \in Nat /\ MaxSessions \in Nat
  /\ Mixed \in BOOLEAN /\ Closing \in BOOLEAN
  /\ Black \notin Colours /\ Legacy \notin Colours /\ Black # Legacy

VARIABLES
  surf,        \* the server's surfaces; `due` counts a surface's AVC420 frames
  saved,       \* the server's view of the bitmap cache
  legacy,      \* was a legacy update the last thing to change the desktop?
  gfx,         \* gfx_surfaces; `drawn` is the number of the frame a surface shows
  cache,       \* WasmGfxHandler.cache
  egfxActive,
  canvas,
  decoders,    \* avc420Decoders; `fed` is the last frame given to a decoder
  stored,      \* does the page's `session` name this session?
  creates,     \* surfaces created so far: the identity of a surface
  sessions

server == <<surf, saved, legacy>>
vars == <<surf, saved, legacy, gfx, cache, egfxActive, canvas, decoders, stored, creates, sessions>>

Pixels == {Black} \cup Colours
Rows == UNION {[1 .. n -> Pixels] : n \in 1 .. Cells}
Frames == [inc : 1 .. MaxCreates, nr : 1 .. MaxFrames, key : BOOLEAN, colour : Colours,
           ok : BOOLEAN]

TypeOK ==
  /\ DOMAIN surf \subseteq Ids /\ DOMAIN gfx = DOMAIN surf /\ DOMAIN decoders \subseteq Ids
  /\ \A id \in DOMAIN gfx :
       /\ gfx[id].cells \in Rows /\ gfx[id].drawn \in 0 .. MaxFrames
       /\ gfx[id].mapped => gfx[id].origin + Len(gfx[id].cells) <= Cells
  /\ \A id \in DOMAIN decoders :
       /\ decoders[id].queue \in Seq(Frames)
       /\ decoders[id].awaiting => decoders[id].queue = << >>
  /\ DOMAIN cache \subseteq Slots /\ \A slot \in DOMAIN cache : cache[slot] \in Rows
  /\ canvas \in [1 .. Cells -> Pixels \cup {Legacy}]
  /\ egfxActive \in BOOLEAN /\ stored \in BOOLEAN /\ legacy \in BOOLEAN

Blank == [c \in 1 .. Cells |-> Black]
Empty == [x \in {} |-> Black]

Put(f, x, v) == [y \in DOMAIN f \cup {x} |-> IF y = x THEN v ELSE f[y]]
Without(f, xs) == Restrict(f, DOMAIN f \ xs)

Init ==
  /\ surf = Empty /\ saved = Empty /\ legacy = FALSE
  /\ gfx = Empty /\ cache = Empty /\ egfxActive = FALSE /\ canvas = Blank
  /\ decoders = Empty /\ stored = FALSE
  /\ creates = 0 /\ sessions = 1

\* Has the client drawn the last frame of id?
Settled(id) == id \in DOMAIN gfx /\ gfx[id].drawn = surf[id].due

\* May the server use id in a message other than a frame?
Usable(id) == id \in DOMAIN surf /\ (Mixed \/ Settled(id))

\* The row `cells` with `tile` at column x, clipped to it
Stamp(cells, tile, x) ==
  [c \in DOMAIN cells |-> IF c - x + 1 \in DOMAIN tile THEN tile[c - x + 1] ELSE cells[c]]

\* blit_rects: the columns `dirty` of a mapped surface s, drawn on the canvas
Blit(s, dirty) ==
  [c \in DOMAIN canvas |->
     IF s.mapped /\ c - s.origin \in dirty THEN s.cells[c - s.origin] ELSE canvas[c]]

-----------------------------------------------------------------------------
(* Surfaces.                                                               *)

\* Mutant of ResetGraphics: decoders stay open.
ResetKeepsDecoders(resized) ==
  /\ surf' = Empty /\ legacy' = FALSE
  /\ gfx' = Empty
  /\ egfxActive' = FALSE
  /\ canvas' = IF resized THEN Blank ELSE canvas
  /\ UNCHANGED <<saved, cache, decoders, stored, creates, sessions>>

\* on_reset_graphics; a canvas that keeps its size keeps its content.
ResetGraphics(resized) ==
  /\ surf' = Empty /\ legacy' = FALSE
  /\ gfx' = Empty
  /\ decoders' = Without(decoders, DOMAIN gfx)
  /\ egfxActive' = FALSE
  /\ canvas' = IF resized THEN Blank ELSE canvas
  /\ UNCHANGED <<saved, cache, stored, creates, sessions>>

\* on_surface_created
CreateSurface(id, size) ==
  /\ id \notin DOMAIN surf /\ creates < MaxCreates
  /\ creates' = creates + 1
  /\ LET new == [c \in 1 .. size |-> Black]
     IN  /\ surf' = Put(surf, id, [cells |-> new, inc |-> creates + 1, due |-> 0])
         /\ gfx' = Put(gfx, id, [cells |-> new, origin |-> 0, mapped |-> FALSE, drawn |-> 0])
  /\ legacy' = FALSE
  /\ egfxActive' = TRUE
  /\ UNCHANGED <<saved, cache, canvas, decoders, stored, sessions>>

\* Mutant of DeleteSurface: the legacy renderer stays suppressed.
DeleteLatches(id) ==
  /\ id \in DOMAIN surf
  /\ surf' = Without(surf, {id})
  /\ gfx' = Without(gfx, {id})
  /\ decoders' = Without(decoders, {id})
  /\ UNCHANGED <<saved, legacy, cache, egfxActive, canvas, stored, creates, sessions>>

\* on_surface_deleted
DeleteSurface(id) ==
  /\ id \in DOMAIN surf
  /\ surf' = Without(surf, {id})
  /\ gfx' = Without(gfx, {id})
  /\ decoders' = Without(decoders, {id})
  /\ egfxActive' = (egfxActive /\ DOMAIN gfx' # {})
  /\ UNCHANGED <<saved, legacy, cache, canvas, stored, creates, sessions>>

Columns(id, x) == {x + c : c \in DOMAIN surf[id].cells}

\* Servers map surfaces side by side, one for each monitor.
FreeFor(id, x) ==
  /\ Columns(id, x) \subseteq 1 .. Cells
  /\ \A other \in DOMAIN gfx \ {id} :
       gfx[other].mapped => Columns(id, x) \cap Columns(other, gfx[other].origin) = {}

\* Mutant of MapSurface: a surface composed offscreen is not presented.
MapUnpresented(id, x) ==
  /\ Usable(id) /\ FreeFor(id, x)
  /\ gfx' = [gfx EXCEPT ![id].origin = x, ![id].mapped = TRUE]
  /\ UNCHANGED <<server, cache, egfxActive, canvas, decoders, stored, creates, sessions>>

\* on_surface_mapped
MapSurface(id, x) ==
  /\ Usable(id) /\ FreeFor(id, x)
  /\ gfx' = [gfx EXCEPT ![id].origin = x, ![id].mapped = TRUE]
  /\ canvas' = Blit(gfx'[id], DOMAIN gfx[id].cells)
  /\ UNCHANGED <<server, cache, egfxActive, decoders, stored, creates, sessions>>

-----------------------------------------------------------------------------
(* Codecs and copies that are drawn at once.                               *)

\* The end of every handler that draws `tile` on id at column x
Draw(id, tile, x) ==
  /\ gfx' = [gfx EXCEPT ![id].cells = Stamp(@, tile, x)]
  /\ canvas' = Blit(gfx'[id], {c \in DOMAIN gfx[id].cells : c - x + 1 \in DOMAIN tile})
  /\ UNCHANGED <<saved, legacy, cache, egfxActive, decoders, stored, creates, sessions>>

\* on_progressive_data, on_bitmap_updated and on_solid_fill, clipped to the surface
Paint(id, tile, x) ==
  /\ "other" \in Codecs /\ Usable(id)
  /\ surf' = [surf EXCEPT ![id].cells = Stamp(@, tile, x)]
  /\ Draw(id, tile, x)

\* on_surface_to_surface: the source is copied first, and may be the destination.
SurfaceToSurface(from, l, r, to, x) ==
  /\ "other" \in Codecs /\ Usable(from) /\ Usable(to)
  /\ l <= r /\ r <= Len(gfx[from].cells)
  /\ surf' = [surf EXCEPT ![to].cells = Stamp(@, SubSeq(surf[from].cells, l, r), x)]
  /\ Draw(to, SubSeq(gfx[from].cells, l, r), x)

\* on_surface_to_cache
SurfaceToCache(id, l, r, slot) ==
  /\ "other" \in Codecs /\ Usable(id) /\ l <= r /\ r <= Len(gfx[id].cells)
  /\ saved' = Put(saved, slot, SubSeq(surf[id].cells, l, r))
  /\ cache' = Put(cache, slot, SubSeq(gfx[id].cells, l, r))
  /\ UNCHANGED <<surf, legacy, gfx, egfxActive, canvas, decoders, stored, creates, sessions>>

\* on_cache_to_surface; an empty slot draws nothing.
CacheToSurface(slot, id, x) ==
  /\ slot \in DOMAIN saved /\ Usable(id)
  /\ surf' = [surf EXCEPT ![id].cells = Stamp(@, saved[slot], x)]
  /\ Draw(id, IF slot \in DOMAIN cache THEN cache[slot] ELSE << >>, x)

\* on_evict_cache_entry
Evict(slot) ==
  /\ slot \in DOMAIN saved
  /\ saved' = Without(saved, {slot})
  /\ cache' = Without(cache, {slot})
  /\ UNCHANGED <<surf, legacy, gfx, egfxActive, canvas, decoders, stored, creates, sessions>>

-----------------------------------------------------------------------------
(* AVC420.                                                                 *)

\* getOrCreateAvc420Decoder
Decoder(id, size) ==
  IF id \in DOMAIN decoders /\ decoders[id].size = size THEN decoders[id]
  ELSE [size |-> size, awaiting |-> TRUE, queue |-> << >>, fed |-> <<0, 0>>]

\* The server's next frame of id.  `ok` records whether decoder d has the frame that a delta
\* frame refers to.
Frame(id, key, colour, d) ==
  [inc |-> surf[id].inc, nr |-> surf[id].due + 1, key |-> key, colour |-> colour,
   ok |-> key \/ d.fed = <<surf[id].inc, surf[id].due>>]

\* __rdp_avc420_frame: a new decoder takes nothing before a keyframe.  Its two catch blocks
\* are left out: the codec was probed before it is configured, and decode throws only in a
\* decoder that is closed or lacks a keyframe, of which the entry is gone or awaits one.
Feed(d, f) ==
  IF d.awaiting /\ ~f.key THEN d
  ELSE [d EXCEPT !.queue = Append(@, f), !.fed = <<f.inc, f.nr>>, !.awaiting = FALSE]

\* on_avc420_raw: the server draws a whole surface, and begins with a keyframe.
AvcFrame(id, key, colour) ==
  /\ "avc" \in Codecs /\ id \in DOMAIN surf /\ surf[id].due < MaxFrames
  /\ key \/ surf[id].due > 0
  /\ surf' = [surf EXCEPT ![id].due = @ + 1, ![id].cells = [c \in DOMAIN @ |-> colour]]
  /\ LET d == Decoder(id, Len(surf[id].cells))
     IN  decoders' = Put(decoders, id, Feed(d, Frame(id, key, colour, d)))
  /\ UNCHANGED <<saved, legacy, gfx, cache, egfxActive, canvas, stored, creates, sessions>>

\* Does a frame of id's decoder find the session, and a surface of its size?
Fits(id) == stored /\ id \in DOMAIN gfx /\ Len(gfx[id].cells) = decoders[id].size

\* on_avc420_decoded: the whole framebuffer, mapped or not
Overwrite(s, f) == [s EXCEPT !.drawn = f.nr, !.cells = [c \in DOMAIN @ |-> f.colour]]

\* The decoder's output callback
DecoderOutput(id) ==
  /\ id \in DOMAIN decoders /\ decoders[id].queue # << >>
  /\ decoders' = [decoders EXCEPT ![id].queue = Tail(@)]
  /\ IF Fits(id)
     THEN /\ gfx' = [gfx EXCEPT ![id] = Overwrite(@, Head(decoders[id].queue))]
          /\ canvas' = Blit(gfx'[id], DOMAIN gfx[id].cells)
     ELSE UNCHANGED <<gfx, canvas>>
  /\ UNCHANGED <<server, cache, egfxActive, stored, creates, sessions>>

\* Mutant of DecoderError: the entry stays, and its successor takes any frame.
ErrorKeepsEntry(id) ==
  /\ id \in DOMAIN decoders /\ decoders[id].queue # << >>
  /\ decoders' = [decoders EXCEPT ![id].queue = << >>, ![id].fed = <<0, 0>>]
  /\ UNCHANGED <<server, gfx, cache, egfxActive, canvas, stored, creates, sessions>>

\* The decoder's error callback: what it had not returned is lost.
DecoderError(id) ==
  /\ id \in DOMAIN decoders /\ decoders[id].queue # << >>
  /\ decoders' = Without(decoders, {id})
  /\ UNCHANGED <<server, gfx, cache, egfxActive, canvas, stored, creates, sessions>>

-----------------------------------------------------------------------------
(* The legacy renderer, reactivation and sessions.                         *)

\* A GraphicsUpdate of the whole desktop.  Servers may send one while EGFX is up; the
\* decoded image is then not what the desktop shows.
LegacyUpdate ==
  /\ legacy' = (DOMAIN surf = {})
  /\ canvas' = IF egfxActive THEN canvas ELSE [c \in 1 .. Cells |-> Legacy]
  /\ UNCHANGED <<surf, saved, gfx, cache, egfxActive, decoders, stored, creates, sessions>>

\* Deactivation-Reactivation, after which the server opens the channel again: a new
\* handler.  The server has deleted its surfaces.
Reactivate(resized) ==
  /\ DOMAIN surf = {}
  /\ saved' = Empty /\ legacy' = FALSE
  /\ cache' = Empty
  /\ canvas' = IF resized THEN Blank ELSE canvas
  /\ UNCHANGED <<surf, gfx, egfxActive, decoders, stored, creates, sessions>>

\* The session ends and another one connects; connect() starts run_session before the page
\* stores the handle.  cleanupSession closes the decoders; reconnects and redirects skip it.
NewSession(cleanup) ==
  /\ sessions < MaxSessions
  /\ Closing => cleanup
  /\ sessions' = sessions + 1
  /\ surf' = Empty /\ saved' = Empty /\ legacy' = FALSE
  /\ gfx' = Empty /\ cache' = Empty /\ egfxActive' = FALSE /\ canvas' = Blank
  /\ decoders' = IF cleanup THEN Empty ELSE decoders
  /\ stored' = FALSE
  /\ UNCHANGED creates

HandleStored ==
  /\ ~stored
  /\ stored' = TRUE
  /\ UNCHANGED <<server, gfx, cache, egfxActive, canvas, decoders, creates, sessions>>

-----------------------------------------------------------------------------
Next ==
  \/ \E resized \in BOOLEAN : ResetGraphics(resized) \/ Reactivate(resized)
  \/ \E id \in Ids :
       \/ \E size \in 1 .. Cells : CreateSurface(id, size)
       \/ DeleteSurface(id)
       \/ \E x \in 0 .. Cells - 1 : MapSurface(id, x)
       \/ \E x, n \in 1 .. Cells, c \in Colours : Paint(id, [i \in 1 .. n |-> c], x)
       \/ \E l, r, x \in 1 .. Cells, to \in Ids : SurfaceToSurface(id, l, r, to, x)
       \/ \E l, r \in 1 .. Cells, slot \in Slots : SurfaceToCache(id, l, r, slot)
       \/ \E x \in 1 .. Cells, slot \in Slots : CacheToSurface(slot, id, x)
       \/ \E key \in BOOLEAN, c \in Colours : AvcFrame(id, key, c)
       \/ DecoderOutput(id) \/ DecoderError(id)
  \/ \E slot \in Slots : Evict(slot)
  \/ LegacyUpdate
  \/ \E cleanup \in BOOLEAN : NewSession(cleanup)
  \/ HandleStored

Spec == Init /\ [][Next]_vars

-----------------------------------------------------------------------------
\* "Overwrites the surface framebuffer and blits it, reusing the same blit_rects path every
\* other codec paints through" (session.rs): once its last frame is drawn, a surface, and the
\* part of the desktop it is mapped to, shows what the server drew.
SurfaceIsCurrent ==
  \A id \in DOMAIN surf : Settled(id) =>
    /\ gfx[id].cells = surf[id].cells
    /\ gfx[id].mapped => \A c \in DOMAIN surf[id].cells :
                            canvas[gfx[id].origin + c] = surf[id].cells[c]

\* A legacy update that finds no surface left is shown: no surface of the past keeps the
\* legacy renderer suppressed, and no video of the past is drawn over it.
LegacyIsShown == legacy => \A c \in 1 .. Cells : canvas[c] = Legacy

\* A frame that may come back for a surface was encoded for it, not for an earlier one with
\* the same id.
FrameIsForSurface ==
  \A id \in DOMAIN surf \cap DOMAIN decoders :
    decoders[id].size = Len(surf[id].cells) =>
      \A i \in DOMAIN decoders[id].queue : decoders[id].queue[i].inc = surf[id].inc

\* A delta frame is given only to a decoder that has the frame before it.
DeltaHasReference ==
  \A id \in DOMAIN decoders : \A i \in DOMAIN decoders[id].queue : decoders[id].queue[i].ok
=============================================================================
