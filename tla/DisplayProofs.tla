---------------------------- MODULE DisplayProofs ----------------------------
(***************************************************************************)
(* Theorems about the two models of the remote desktop's display: the      *)
(* surfaces and decoders of EgfxSurfaces, for any ids, sizes, codecs and   *)
(* bounds, and the size of the desktop, DesktopResize, for every set of    *)
(* viewport widths and every bound on timers and requests.  The two have   *)
(* no variable and no definition in common.                                *)
(***************************************************************************)
EXTENDS EgfxSurfaces, DesktopResize, TLAPS

(***************************************************************************)
(* A legacy update that is shown finds the client without a surface.       *)
(***************************************************************************)
Suppressing ==
  /\ DOMAIN gfx = DOMAIN surf
  /\ egfxActive = (DOMAIN gfx # {})
  /\ DOMAIN canvas = 1 .. Cells
  /\ legacy => DOMAIN surf = {}
  /\ LegacyIsShown

LEMMA PutDomain == ASSUME NEW f, NEW x, NEW v PROVE DOMAIN Put(f, x, v) = DOMAIN f \cup {x}
BY DEF Put

LEMMA WithoutDomain == ASSUME NEW f, NEW xs PROVE DOMAIN Without(f, xs) = DOMAIN f \ xs
BY DEF Without, Restrict

LEMMA SuppressingInit == Init => Suppressing
BY DEF Init, Suppressing, LegacyIsShown, Empty, Blank

\* The handlers that draw on one of the surfaces
LEMMA DrawKeeps ==
  ASSUME Suppressing, NEW id \in DOMAIN surf,
         DOMAIN surf' = DOMAIN surf, DOMAIN gfx' = DOMAIN gfx, DOMAIN canvas' = DOMAIN canvas,
         UNCHANGED <<legacy, egfxActive>>
  PROVE  Suppressing'
BY DEF Suppressing, LegacyIsShown

LEMMA SuppressingStep == Suppressing /\ [Next]_vars => Suppressing'
<1> SUFFICES ASSUME Suppressing, [Next]_vars PROVE Suppressing'
  OBVIOUS
<1>1. ASSUME NEW resized \in BOOLEAN, ResetGraphics(resized) \/ Reactivate(resized)
      PROVE  Suppressing'
  BY <1>1 DEF ResetGraphics, Reactivate, Suppressing, LegacyIsShown, Empty, Blank
<1>2. ASSUME NEW id \in Ids, NEW size \in 1 .. Cells, CreateSurface(id, size) PROVE Suppressing'
  <2>1. DOMAIN surf' = DOMAIN surf \cup {id} /\ DOMAIN gfx' = DOMAIN gfx \cup {id}
    BY <1>2, PutDomain DEF CreateSurface
  <2> QED
    BY <1>2, <2>1 DEF CreateSurface, Suppressing, LegacyIsShown
<1>3. ASSUME NEW id \in Ids, DeleteSurface(id) PROVE Suppressing'
  <2>1. DOMAIN surf' = DOMAIN surf \ {id} /\ DOMAIN gfx' = DOMAIN gfx \ {id}
    BY <1>3, WithoutDomain DEF DeleteSurface
  <2> QED
    BY <1>3, <2>1 DEF DeleteSurface, Suppressing, LegacyIsShown
<1>4. ASSUME NEW id \in Ids, NEW x \in 0 .. Cells - 1, MapSurface(id, x) PROVE Suppressing'
  BY <1>4, DrawKeeps DEF MapSurface, Usable, Blit, server
<1>5. ASSUME NEW id, NEW tile, NEW x, Draw(id, tile, x), id \in DOMAIN surf,
             DOMAIN surf' = DOMAIN surf
      PROVE  Suppressing'
  BY <1>5, DrawKeeps DEF Draw, Blit
<1>6. ASSUME NEW id \in Ids, NEW tile, NEW x, Paint(id, tile, x) PROVE Suppressing'
  BY <1>5, <1>6 DEF Paint, Usable
<1>7. ASSUME NEW id \in Ids, NEW l, NEW r, NEW x, NEW to \in Ids, SurfaceToSurface(id, l, r, to, x)
      PROVE  Suppressing'
  BY <1>5, <1>7 DEF SurfaceToSurface, Usable
<1>8. ASSUME NEW id \in Ids, NEW x, NEW slot, CacheToSurface(slot, id, x) PROVE Suppressing'
  BY <1>5, <1>8 DEF CacheToSurface, Usable
<1>9. ASSUME NEW id \in Ids, NEW key, NEW c, AvcFrame(id, key, c) PROVE Suppressing'
  BY <1>9, DrawKeeps DEF AvcFrame
<1>10. ASSUME NEW id \in Ids, DecoderOutput(id) PROVE Suppressing'
  <2>1. CASE Fits(id)
    <3>1. id \in DOMAIN surf
      BY <2>1 DEF Fits, Suppressing
    <3> QED
      BY <1>10, <2>1, <3>1, DrawKeeps DEF DecoderOutput, Blit, server
  <2>2. CASE ~Fits(id)
    BY <1>10, <2>2 DEF DecoderOutput, Suppressing, LegacyIsShown, server
  <2> QED
    BY <2>1, <2>2
<1>11. CASE UNCHANGED <<surf, legacy, gfx, egfxActive, canvas>>
  BY <1>11 DEF Suppressing, LegacyIsShown
<1>12. CASE LegacyUpdate
  BY <1>12 DEF LegacyUpdate, Suppressing, LegacyIsShown
<1>13. ASSUME NEW cleanup \in BOOLEAN, NewSession(cleanup) PROVE Suppressing'
  BY <1>13 DEF NewSession, Suppressing, LegacyIsShown, Empty, Blank
<1> QED
  BY <1>1, <1>2, <1>3, <1>4, <1>6, <1>7, <1>8, <1>9, <1>10, <1>11, <1>12, <1>13
     DEF Next, vars, server, SurfaceToCache, DecoderError, Evict, HandleStored

\* Whenever a legacy update finds no surface, the desktop shows it until the next reset or
\* surface.
THEOREM LegacyAlwaysShown == Spec => []LegacyIsShown
<1>1. Suppressing => LegacyIsShown
  BY DEF Suppressing
<1> QED
  BY <1>1, SuppressingInit, SuppressingStep, PTL DEF Spec

(***************************************************************************)
(* While every session begins without decoders, a decoder belongs to a     *)
(* surface that exists, all it has been given are frames of that surface,  *)
(* and once it has been given one, none is missing.                        *)
(***************************************************************************)
Items == [inc : Nat, nr : Nat, key : BOOLEAN, colour : Colours, ok : BOOLEAN]

Faithful(d, s) ==
  /\ d = [size |-> d.size, awaiting |-> d.awaiting, queue |-> d.queue, fed |-> d.fed]
  /\ d.queue \in Seq(Items)
  /\ \A i \in DOMAIN d.queue : d.queue[i].inc = s.inc /\ d.queue[i].ok
  /\ ~d.awaiting => d.fed = <<s.inc, s.due>>

Decoding ==
  /\ creates \in Nat
  /\ \A id \in DOMAIN surf :
       /\ surf[id].inc \in Nat /\ surf[id].due \in Nat
       /\ DOMAIN surf[id] = {"cells", "inc", "due"}
  /\ DOMAIN decoders \subseteq DOMAIN surf
  /\ DOMAIN gfx = DOMAIN surf
  /\ \A id \in DOMAIN decoders : Faithful(decoders[id], surf[id])

LEMMA DecodingInit == Init => Decoding
BY DEF Init, Decoding, Empty

\* Dropping surfaces together with their decoders
LEMMA DropKeeps ==
  ASSUME Decoding, NEW ids, surf' = Without(surf, ids), gfx' = Without(gfx, ids),
         decoders' = Without(decoders, ids), UNCHANGED creates
  PROVE  Decoding'
BY DEF Decoding, Without, Restrict, Faithful

\* Messages that are drawn at once
LEMMA PaintKeeps ==
  ASSUME Decoding, DOMAIN surf' = DOMAIN surf, DOMAIN gfx' = DOMAIN gfx,
         \A id \in DOMAIN surf :
           /\ surf'[id].inc = surf[id].inc /\ surf'[id].due = surf[id].due
           /\ DOMAIN surf'[id] = DOMAIN surf[id],
         UNCHANGED <<decoders, creates>>
  PROVE  Decoding'
BY DEF Decoding, Faithful

LEMMA CreateKeeps ==
  ASSUME Decoding, NEW id \in Ids, NEW size \in 1 .. Cells, CreateSurface(id, size)
  PROVE  Decoding'
<1>1. DOMAIN surf' = DOMAIN surf \cup {id} /\ DOMAIN gfx' = DOMAIN gfx \cup {id}
  BY PutDomain DEF CreateSurface
<1>2. \A other \in DOMAIN surf : surf'[other] = surf[other]
  BY DEF CreateSurface, Put
<1>3. surf'[id].inc = creates + 1 /\ surf'[id].due = 0
      /\ DOMAIN surf'[id] = {"cells", "inc", "due"}
  BY DEF CreateSurface, Put
<1>4. creates' = creates + 1 /\ decoders' = decoders
  BY DEF CreateSurface
<1> QED
  BY <1>1, <1>2, <1>3, <1>4 DEF Decoding, Faithful

\* What Feed makes of a decoder that is faithful to its surface, or new
LEMMA FeedKeeps ==
  ASSUME NEW s, NEW next, NEW d, NEW f,
         s.inc \in Nat, s.due \in Nat, next.inc = s.inc, next.due = s.due + 1,
         Faithful(d, s), f \in Items, f.inc = s.inc, f.nr = s.due + 1,
         f.ok = (f.key \/ d.fed = <<s.inc, s.due>>)
  PROVE  Faithful(Feed(d, f), next)
<1>1. CASE d.awaiting /\ ~f.key
  BY <1>1 DEF Feed, Faithful
<1>2. CASE ~(d.awaiting /\ ~f.key)
  <2>1. f.ok
    BY <1>2 DEF Faithful
  <2>2. Feed(d, f) = [size |-> d.size, awaiting |-> FALSE, queue |-> Append(d.queue, f),
                      fed |-> <<f.inc, f.nr>>]
    BY <1>2 DEF Feed, Faithful
  <2>3. \A i \in DOMAIN Append(d.queue, f) :
          Append(d.queue, f)[i].inc = s.inc /\ Append(d.queue, f)[i].ok
    BY <2>1 DEF Faithful
  <2>4. Append(d.queue, f) \in Seq(Items)
    BY DEF Faithful
  <2> QED
    BY <2>2, <2>3, <2>4 DEF Faithful
<1> QED
  BY <1>1, <1>2

LEMMA AvcKeeps ==
  ASSUME Decoding, NEW id \in Ids, NEW key \in BOOLEAN, NEW c \in Colours, AvcFrame(id, key, c)
  PROVE  Decoding'
<1> DEFINE d == Decoder(id, Len(surf[id].cells))
           f == Frame(id, key, c, d)
<1>1. id \in DOMAIN surf /\ surf[id].inc \in Nat /\ surf[id].due \in Nat
  BY DEF AvcFrame, Decoding
<1>2. Faithful(d, surf[id])
  <2>1. CASE id \in DOMAIN decoders /\ d = decoders[id]
    BY <2>1 DEF Decoding
  <2>2. CASE d = [size |-> Len(surf[id].cells), awaiting |-> TRUE, queue |-> << >>,
                  fed |-> <<0, 0>>]
    BY <2>2 DEF Faithful
  <2> QED
    BY <2>1, <2>2 DEF Decoder
<1>3. f \in Items /\ f.inc = surf[id].inc /\ f.nr = surf[id].due + 1
      /\ f.ok = (f.key \/ d.fed = <<surf[id].inc, surf[id].due>>)
  BY <1>1 DEF Frame, Items
<1>4. DOMAIN surf' = DOMAIN surf /\ surf'[id].inc = surf[id].inc
      /\ DOMAIN surf'[id] = {"cells", "inc", "due"}
      /\ surf'[id].due = surf[id].due + 1
      /\ \A other \in DOMAIN surf \ {id} : surf'[other] = surf[other]
  <2>1. surf' = [surf EXCEPT ![id] = [surf[id] EXCEPT !.due = @ + 1,
                                       !.cells = [x \in DOMAIN surf[id].cells |-> c]]]
    BY <1>1 DEF AvcFrame
  <2>2. surf'[id] = [surf[id] EXCEPT !.due = @ + 1,
                                    !.cells = [x \in DOMAIN surf[id].cells |-> c]]
    BY <1>1, <2>1
  <2>3. surf'[id].inc = surf[id].inc /\ surf'[id].due = surf[id].due + 1
    BY <1>1, <2>2 DEF Decoding
  <2>4. DOMAIN surf'[id] = {"cells", "inc", "due"}
    BY <1>1, <2>2 DEF Decoding
  <2> QED
    BY <2>1, <2>3, <2>4
<1>5. Faithful(Feed(d, f), surf'[id])
  <2> HIDE DEF d, f
  <2> QED
    BY <1>1, <1>2, <1>3, <1>4, FeedKeeps
<1>6. DOMAIN decoders' = DOMAIN decoders \cup {id} /\ decoders'[id] = Feed(d, f)
      /\ \A other \in DOMAIN decoders \ {id} : decoders'[other] = decoders[other]
  BY DEF AvcFrame, Put
<1>7. UNCHANGED <<gfx, creates>>
  BY DEF AvcFrame
<1> HIDE DEF d, f
<1>8. \A other \in DOMAIN decoders' : Faithful(decoders'[other], surf'[other])
  BY <1>4, <1>5, <1>6 DEF Decoding
<1> QED
  BY <1>1, <1>4, <1>6, <1>7, <1>8 DEF Decoding

LEMMA QueueInPlace ==
  ASSUME NEW a, NEW b, NEW q, NEW g, NEW t
  PROVE  [[size |-> a, awaiting |-> b, queue |-> q, fed |-> g] EXCEPT !.queue = t]
           = [size |-> a, awaiting |-> b, queue |-> t, fed |-> g]
OBVIOUS

LEMMA OutputKeeps ==
  ASSUME Decoding, NEW id \in Ids, DecoderOutput(id)
  PROVE  Decoding'
<1> DEFINE d == decoders[id]
<1>1. id \in DOMAIN decoders /\ d.queue # << >> /\ Faithful(d, surf[id])
  BY DEF DecoderOutput, Decoding
<1>2. decoders' = [decoders EXCEPT ![id].queue = Tail(@)]
  BY DEF DecoderOutput
<1>3. Tail(d.queue) \in Seq(Items)
      /\ \A i \in DOMAIN Tail(d.queue) :
           i + 1 \in DOMAIN d.queue /\ Tail(d.queue)[i] = d.queue[i + 1]
  BY <1>1 DEF Faithful
<1>4. Faithful([d EXCEPT !.queue = Tail(@)], surf[id])
  <2> DEFINE e == [d EXCEPT !.queue = Tail(@)]
  <2>1. e = [size |-> d.size, awaiting |-> d.awaiting, queue |-> Tail(d.queue), fed |-> d.fed]
    <3>1. d = [size |-> d.size, awaiting |-> d.awaiting, queue |-> d.queue, fed |-> d.fed]
      BY <1>1 DEF Faithful
    <3>2. e = [d EXCEPT !.queue = Tail(d.queue)]
      OBVIOUS
    <3> HIDE DEF d, e
    <3> QED
      BY <3>1, <3>2, QueueInPlace
  <2> HIDE DEF e
  <2>2. /\ e.queue = Tail(d.queue) /\ e.awaiting = d.awaiting /\ e.fed = d.fed
        /\ e = [size |-> e.size, awaiting |-> e.awaiting, queue |-> e.queue, fed |-> e.fed]
    BY <2>1
  <2>3. \A i \in DOMAIN e.queue : e.queue[i].inc = surf[id].inc /\ e.queue[i].ok
    BY <1>1, <1>3, <2>2 DEF Faithful
  <2>4. ~e.awaiting => e.fed = <<surf[id].inc, surf[id].due>>
    BY <1>1, <2>2 DEF Faithful
  <2>5. Faithful(e, surf[id])
    BY <1>3, <2>2, <2>3, <2>4 DEF Faithful
  <2> QED BY <2>5 DEF e
<1>5. DOMAIN gfx' = DOMAIN gfx /\ UNCHANGED <<surf, creates>>
  BY DEF DecoderOutput, server
<1> QED
  BY <1>1, <1>2, <1>4, <1>5 DEF Decoding

LEMMA DecodingStep == Closing /\ Decoding /\ [Next]_vars => Decoding'
<1> SUFFICES ASSUME Closing, Decoding, [Next]_vars PROVE Decoding'
  OBVIOUS
<1>1. ASSUME NEW resized \in BOOLEAN, ResetGraphics(resized) PROVE Decoding'
  <2>1. DOMAIN decoders' = {} /\ DOMAIN surf' = {} /\ DOMAIN gfx' = {} /\ creates' = creates
    BY <1>1 DEF ResetGraphics, Decoding, Without, Restrict, Empty
  <2> QED
    BY <2>1 DEF Decoding
<1>2. ASSUME NEW resized \in BOOLEAN, Reactivate(resized) PROVE Decoding'
  BY <1>2, PaintKeeps DEF Reactivate
<1>3. ASSUME NEW id \in Ids, NEW size \in 1 .. Cells, CreateSurface(id, size) PROVE Decoding'
  BY <1>3, CreateKeeps
<1>4. ASSUME NEW id \in Ids, DeleteSurface(id) PROVE Decoding'
  BY <1>4, DropKeeps DEF DeleteSurface
<1>5. ASSUME NEW id \in Ids, NEW x, MapSurface(id, x) PROVE Decoding'
  BY <1>5, PaintKeeps DEF MapSurface, server
<1>6. ASSUME NEW id \in Ids, NEW tile, NEW x, Paint(id, tile, x) PROVE Decoding'
  BY <1>6, PaintKeeps DEF Paint, Draw, Decoding
<1>7. ASSUME NEW id \in Ids, NEW l, NEW r, NEW x, NEW to \in Ids, SurfaceToSurface(id, l, r, to, x)
      PROVE  Decoding'
  BY <1>7, PaintKeeps DEF SurfaceToSurface, Draw, Decoding
<1>8. ASSUME NEW id \in Ids, NEW x, NEW slot, CacheToSurface(slot, id, x) PROVE Decoding'
  BY <1>8, PaintKeeps DEF CacheToSurface, Draw, Decoding
<1>9. ASSUME NEW id \in Ids, NEW key \in BOOLEAN, NEW c \in Colours, AvcFrame(id, key, c)
      PROVE  Decoding'
  BY <1>9, AvcKeeps
<1>10. ASSUME NEW id \in Ids, DecoderOutput(id) PROVE Decoding'
  BY <1>10, OutputKeeps
<1>11. ASSUME NEW id \in Ids, DecoderError(id) PROVE Decoding'
  BY <1>11 DEF DecoderError, Decoding, Without, Restrict, server
<1>12. ASSUME NEW cleanup \in BOOLEAN, NewSession(cleanup) PROVE Decoding'
  BY <1>12 DEF NewSession, Decoding, Empty
<1>13. CASE UNCHANGED <<surf, gfx, decoders, creates>>
  BY <1>13 DEF Decoding
<1> QED
  BY <1>1, <1>2, <1>3, <1>4, <1>5, <1>6, <1>7, <1>8, <1>9, <1>10, <1>11, <1>12, <1>13
     DEF Next, vars, server, SurfaceToCache, Evict, HandleStored, LegacyUpdate

\* When every new session begins after cleanupSession, no frame is ever drawn on a surface it
\* was not encoded for ...
THEOREM FrameAlwaysForSurface == Spec => [](Closing => FrameIsForSurface)
<1>1. Init => (Closing => Decoding)
  BY DecodingInit
<1>2. (Closing => Decoding) /\ [Next]_vars => (Closing => Decoding)'
  BY DecodingStep
<1>3. (Closing => Decoding) => (Closing => FrameIsForSurface)
  BY DEF Decoding, Faithful, FrameIsForSurface
<1> QED
  BY <1>1, <1>2, <1>3, PTL DEF Spec

\* ... and no delta frame is given to a decoder that misses the frame before it.
THEOREM DeltaAlwaysHasReference == Spec => [](Closing => DeltaHasReference)
<1>1. Init => (Closing => Decoding)
  BY DecodingInit
<1>2. (Closing => Decoding) /\ [Next]_vars => (Closing => Decoding)'
  BY DecodingStep
<1>3. (Closing => Decoding) => (Closing => DeltaHasReference)
  BY DEF Decoding, Faithful, DeltaHasReference
<1> QED
  BY <1>1, <1>2, <1>3, PTL DEF Spec

(***************************************************************************)
(* What a surface shows.  When, besides, no other message uses a surface   *)
(* while its video is being decoded, client and server differ in a surface *)
(* only for the frames that its decoder still holds.  They come back in    *)
(* order, the last of them is what the server drew, and the canvas follows *)
(* the client's surfaces.                                                  *)
(***************************************************************************)

\* The frames q, all after the one drawn; the last frame of s fills it.
Ordered(q, drawn, s) ==
  /\ \A i \in DOMAIN q :
       /\ q[i].nr > drawn /\ q[i].nr <= s.due
       /\ q[i].nr = s.due => s.cells = [c \in DOMAIN s.cells |-> q[i].colour]
  /\ \A i, j \in DOMAIN q : i < j => q[i].nr < q[j].nr

\* The client's surface g and the server's s
Agrees(s, g) ==
  /\ DOMAIN g = {"cells", "origin", "mapped", "drawn"}
  /\ g.origin \in Nat /\ g.drawn \in Nat /\ g.drawn <= s.due
  /\ DOMAIN g.cells \subseteq Nat /\ DOMAIN s.cells = DOMAIN g.cells
  /\ g.drawn = s.due => g.cells = s.cells

Shows(screen, g) ==
  \A c \in DOMAIN g.cells : g.origin + c \in 1 .. Cells /\ screen[g.origin + c] = g.cells[c]

Apart(g, h) == \A c \in DOMAIN g.cells, d \in DOMAIN h.cells : g.origin + c # h.origin + d

OnScreen ==
  /\ \A id \in DOMAIN gfx : gfx[id].mapped => Shows(canvas, gfx[id])
  /\ \A a, b \in DOMAIN gfx :
       a # b /\ gfx[a].mapped /\ gfx[b].mapped => Apart(gfx[a], gfx[b])

Following ==
  /\ \A id \in DOMAIN gfx : Agrees(surf[id], gfx[id])
  /\ \A id \in DOMAIN decoders : Ordered(decoders[id].queue, gfx[id].drawn, surf[id])
  /\ cache = saved

Current == Suppressing /\ Decoding /\ Following /\ OnScreen

LEMMA ItemNr ==
  ASSUME NEW q \in Seq(Items)
  PROVE  \A i \in DOMAIN q : q[i].nr \in Nat
<1> TAKE i \in DOMAIN q
<1>1. q[i] \in Items
  OBVIOUS
<1> QED
  BY <1>1 DEF Items

LEMMA BlitDomain == ASSUME NEW g, NEW dirty PROVE DOMAIN Blit(g, dirty) = DOMAIN canvas
BY DEF Blit

\* What a blit shows of the surface itself: what it draws, and what was there
LEMMA BlitShows ==
  ASSUME DOMAIN canvas = 1 .. Cells, NEW g, g.mapped, g.origin \in Nat, DOMAIN g.cells \subseteq Nat,
         NEW dirty,
         \A c \in DOMAIN g.cells :
           /\ g.origin + c \in 1 .. Cells
           /\ c \in dirty \/ canvas[g.origin + c] = g.cells[c]
  PROVE  Shows(Blit(g, dirty), g)
<1> SUFFICES ASSUME NEW c \in DOMAIN g.cells PROVE Blit(g, dirty)[g.origin + c] = g.cells[c]
  BY DEF Shows
<1>1. (g.origin + c) - g.origin = c /\ g.origin + c \in DOMAIN canvas
  OBVIOUS
<1>2. Blit(g, dirty)[g.origin + c] =
        IF (g.origin + c) - g.origin \in dirty THEN g.cells[(g.origin + c) - g.origin]
        ELSE canvas[g.origin + c]
  BY <1>1 DEF Blit
<1> QED
  BY <1>1, <1>2

\* and of a surface that is mapped elsewhere
LEMMA BlitSpares ==
  ASSUME DOMAIN canvas = 1 .. Cells, NEW g, NEW h, NEW dirty,
         g.origin \in Nat, h.origin \in Nat,
         DOMAIN g.cells \subseteq Nat, DOMAIN h.cells \subseteq Nat, dirty \subseteq DOMAIN g.cells,
         Shows(canvas, h), ~g.mapped \/ Apart(g, h)
  PROVE  Shows(Blit(g, dirty), h)
<1> SUFFICES ASSUME NEW c \in DOMAIN h.cells
             PROVE  Blit(g, dirty)[h.origin + c] = h.cells[c]
  BY DEF Shows
<1>1. h.origin + c \in DOMAIN canvas /\ canvas[h.origin + c] = h.cells[c]
  BY DEF Shows
<1>2. ~(g.mapped /\ (h.origin + c) - g.origin \in dirty)
  <2> SUFFICES ASSUME g.mapped, (h.origin + c) - g.origin \in DOMAIN g.cells PROVE FALSE
    OBVIOUS
  <2>1. g.origin + ((h.origin + c) - g.origin) = h.origin + c
    OBVIOUS
  <2> QED
    BY <2>1 DEF Apart
<1>3. Blit(g, dirty)[h.origin + c] = canvas[h.origin + c]
  BY <1>1, <1>2 DEF Blit
<1> QED
  BY <1>1, <1>3

\* A step that changes one surface, and blits what it drew on it.
LEMMA BlitKeeps ==
  ASSUME DOMAIN canvas = 1 .. Cells, Following, OnScreen,
         NEW id \in DOMAIN gfx, NEW g, NEW dirty,
         DOMAIN gfx' = DOMAIN gfx, gfx'[id] = g,
         \A other \in DOMAIN gfx \ {id} : gfx'[other] = gfx[other],
         canvas' = Blit(g, dirty), dirty \subseteq DOMAIN g.cells,
         g.origin \in Nat, DOMAIN g.cells \subseteq Nat,
         g.mapped => \A c \in DOMAIN g.cells :
                       /\ g.origin + c \in 1 .. Cells
                       /\ c \in dirty \/ canvas[g.origin + c] = g.cells[c],
         \A other \in DOMAIN gfx \ {id} : g.mapped /\ gfx[other].mapped => Apart(g, gfx[other])
  PROVE  OnScreen'
<1>1. ASSUME NEW other \in DOMAIN gfx', gfx'[other].mapped PROVE Shows(canvas', gfx'[other])
  <2>1. CASE other = id
    BY <1>1, <2>1, BlitShows
  <2>2. CASE other # id
    <3>1. gfx'[other] = gfx[other] /\ gfx[other].mapped /\ other \in DOMAIN gfx \ {id}
      BY <1>1, <2>2
    <3>2. gfx[other].origin \in Nat /\ DOMAIN gfx[other].cells \subseteq Nat
      BY <3>1 DEF Following, Agrees
    <3>3. Shows(canvas, gfx[other])
      BY <3>1 DEF OnScreen
    <3>4. ~g.mapped \/ Apart(g, gfx[other])
      BY <3>1
    <3> QED
      BY <3>1, <3>2, <3>3, <3>4, BlitSpares
  <2> QED
    BY <2>1, <2>2
<1>2. \A h, k : Apart(h, k) => Apart(k, h)
  BY DEF Apart
<1>3. ASSUME NEW a \in DOMAIN gfx', NEW b \in DOMAIN gfx',
             a # b, gfx'[a].mapped, gfx'[b].mapped
      PROVE  Apart(gfx'[a], gfx'[b])
  <2>1. CASE a = id
    <3>1. b \in DOMAIN gfx \ {id}
      BY <1>3, <2>1
    <3> QED
      BY <1>3, <2>1, <3>1
  <2>2. CASE b = id
    <3>1. a \in DOMAIN gfx \ {id}
      BY <1>3, <2>2
    <3> QED
      BY <1>2, <1>3, <2>2, <3>1
  <2>3. CASE a # id /\ b # id
    BY <1>3, <2>3 DEF OnScreen
  <2> QED
    BY <2>1, <2>2, <2>3
<1> QED
  BY <1>1, <1>3 DEF OnScreen

\* Surfaces are dropped with their decoders; the canvas may change if none is left.
LEMMA FewerKeeps ==
  ASSUME Current, NEW ids, surf' = Without(surf, ids), gfx' = Without(gfx, ids),
         decoders' = Without(decoders, ids), cache' = saved',
         canvas' = canvas \/ DOMAIN gfx' = {}
  PROVE  Following' /\ OnScreen'
<1>1. /\ DOMAIN gfx' = DOMAIN gfx \ ids /\ \A id \in DOMAIN gfx' : gfx'[id] = gfx[id]
      /\ DOMAIN surf' = DOMAIN surf \ ids /\ \A id \in DOMAIN surf' : surf'[id] = surf[id]
      /\ DOMAIN decoders' = DOMAIN decoders \ ids
      /\ \A id \in DOMAIN decoders' : decoders'[id] = decoders[id]
  BY DEF Without, Restrict
<1>2. DOMAIN gfx = DOMAIN surf /\ DOMAIN decoders \subseteq DOMAIN surf
  BY DEF Current, Decoding
<1>3. Following'
  BY <1>1, <1>2 DEF Current, Following
<1>4. OnScreen'
  <2>1. CASE canvas' = canvas
    BY <1>1, <2>1 DEF Current, OnScreen
  <2>2. CASE DOMAIN gfx' = {}
    BY <2>2 DEF OnScreen
  <2> QED
    BY <2>1, <2>2
<1> QED
  BY <1>3, <1>4

\* No surface, no decoder
LEMMA NothingKeeps ==
  ASSUME DOMAIN gfx' = {}, DOMAIN decoders' = {}, cache' = saved'
  PROVE  Following' /\ OnScreen'
BY DEF Following, OnScreen

\* Drawn at once, on the client's surface as on the server's.
LEMMA PaintFollows ==
  ASSUME Current, NEW id \in DOMAIN surf, Settled(id), NEW tile, NEW x,
         surf' = [surf EXCEPT ![id].cells = Stamp(@, tile, x)], Draw(id, tile, x)
  PROVE  Following' /\ OnScreen'
<1> DEFINE s == surf[id]
           g == gfx[id]
           g2 == [g EXCEPT !.cells = Stamp(g.cells, tile, x)]
           s2 == [s EXCEPT !.cells = Stamp(s.cells, tile, x)]
           dirty == {c \in DOMAIN g.cells : c - x + 1 \in DOMAIN tile}
<1>1. id \in DOMAIN gfx /\ Agrees(s, g) /\ s.due \in Nat /\ g.drawn = s.due
      /\ DOMAIN s = {"cells", "inc", "due"}
  BY DEF Current, Decoding, Following, Settled
<1>2. /\ DOMAIN gfx' = DOMAIN gfx /\ gfx'[id] = g2
      /\ \A other \in DOMAIN gfx \ {id} : gfx'[other] = gfx[other]
      /\ DOMAIN surf' = DOMAIN surf /\ surf'[id] = s2
      /\ \A other \in DOMAIN surf \ {id} : surf'[other] = surf[other]
      /\ canvas' = Blit(g2, dirty)
      /\ UNCHANGED <<saved, cache, decoders>>
  BY <1>1 DEF Draw
<1>3. /\ DOMAIN g2 = DOMAIN g /\ g2.cells = Stamp(g.cells, tile, x)
      /\ g2.origin = g.origin /\ g2.mapped = g.mapped /\ g2.drawn = g.drawn
  BY <1>1 DEF Agrees
<1>4. s2.cells = Stamp(s.cells, tile, x) /\ s2.due = s.due
  BY <1>1
<1>5. /\ DOMAIN g2.cells = DOMAIN g.cells
      /\ \A c \in DOMAIN g.cells : c \notin dirty => g2.cells[c] = g.cells[c]
  BY <1>3 DEF Stamp
<1>6. g.cells = s.cells /\ g2.cells = s2.cells
  BY <1>1, <1>3, <1>4 DEF Agrees
<1> HIDE DEF s2, g2, dirty
<1>7. Agrees(s2, g2)
  BY <1>1, <1>3, <1>4, <1>5, <1>6 DEF Agrees
<1>8. \A other \in DOMAIN gfx' : Agrees(surf'[other], gfx'[other])
  <2> TAKE other \in DOMAIN gfx'
  <2>1. CASE other = id
    BY <1>2, <1>7, <2>1
  <2>2. CASE other # id
    BY <1>2, <2>2 DEF Current, Decoding, Following
  <2> QED
    BY <2>1, <2>2
<1>9. \A other \in DOMAIN decoders' : Ordered(decoders'[other].queue, gfx'[other].drawn, surf'[other])
  <2> TAKE other \in DOMAIN decoders'
  <2>0. other \in DOMAIN decoders /\ other \in DOMAIN gfx
        /\ Ordered(decoders[other].queue, gfx[other].drawn, surf[other])
    BY <1>2 DEF Current, Decoding, Following
  <2>1. CASE other = id
    <3> DEFINE q == decoders[id].queue
    <3>1. q \in Seq(Items) /\ Ordered(q, s.due, s)
      BY <1>1, <2>0, <2>1 DEF Current, Decoding, Faithful
    <3>2. \A i \in DOMAIN q : q[i].nr \in Nat /\ q[i].nr > s.due /\ q[i].nr <= s.due
      BY <3>1, ItemNr, Zenon DEF Ordered
    <3>3. \A i \in DOMAIN q : FALSE
      BY <1>1, <3>2
    <3> HIDE DEF q
    <3>4. Ordered(q, g2.drawn, s2)
      BY <3>3 DEF Ordered
    <3> QED
      BY <1>2, <2>1, <3>4 DEF q
  <2>2. CASE other # id
    BY <1>2, <2>0, <2>2 DEF Current, Decoding
  <2> QED
    BY <2>1, <2>2
<1>10. Following'
  BY <1>2, <1>8, <1>9 DEF Current, Following
<1>11. OnScreen'
  <2>1. DOMAIN canvas = 1 .. Cells /\ Following /\ OnScreen
    BY DEF Current, Suppressing
  <2>2. dirty \subseteq DOMAIN g2.cells
    BY <1>5 DEF dirty
  <2>3. g2.origin \in Nat /\ DOMAIN g2.cells \subseteq Nat
    BY <1>1, <1>3, <1>5 DEF Agrees
  <2>4. ASSUME g2.mapped, NEW c \in DOMAIN g2.cells
        PROVE  /\ g2.origin + c \in 1 .. Cells
               /\ c \in dirty \/ canvas[g2.origin + c] = g2.cells[c]
    <3>1. Shows(canvas, g)
      BY <1>1, <1>3, <2>1, <2>4 DEF OnScreen
    <3> QED
      BY <1>3, <1>5, <3>1, <2>4 DEF Shows
  <2>5. ASSUME NEW other \in DOMAIN gfx \ {id}, g2.mapped, gfx[other].mapped
        PROVE  Apart(g2, gfx[other])
    <3>1. Apart(g, gfx[other])
      BY <1>1, <1>3, <2>1, <2>5 DEF OnScreen
    <3> QED
      BY <1>3, <1>5, <3>1 DEF Apart
  <2> HIDE DEF g
  <2> QED
    BY <1>1, <1>2, <2>1, <2>2, <2>3, <2>4, <2>5, BlitKeeps
<1> QED
  BY <1>10, <1>11

\* A surface is put on the screen.
LEMMA MapFollows ==
  ASSUME Current, NEW id \in Ids, NEW x \in 0 .. Cells - 1, MapSurface(id, x), ~Mixed
  PROVE  Following' /\ OnScreen'
<1> DEFINE s == surf[id]
           g == gfx[id]
           g2 == [g EXCEPT !.origin = x, !.mapped = TRUE]
<1>1. id \in DOMAIN gfx /\ id \in DOMAIN surf /\ Agrees(s, g)
  BY DEF MapSurface, Usable, Settled, Current, Following
<1>2. /\ DOMAIN gfx' = DOMAIN gfx /\ gfx'[id] = g2
      /\ \A other \in DOMAIN gfx \ {id} : gfx'[other] = gfx[other]
      /\ canvas' = Blit(g2, DOMAIN g.cells)
      /\ UNCHANGED <<surf, saved, cache, decoders>>
  BY <1>1 DEF MapSurface, server
<1>3. /\ DOMAIN g2 = DOMAIN g /\ g2.cells = g.cells
      /\ g2.origin = x /\ g2.mapped = TRUE /\ g2.drawn = g.drawn
  BY <1>1 DEF Agrees
<1> HIDE DEF g2
<1>4. x \in Nat
  BY EgfxAssumption
<1>5. Following'
  <2>1. Agrees(s, g2)
    BY <1>1, <1>3, <1>4 DEF Agrees
  <2>2. \A other \in DOMAIN gfx' : Agrees(surf'[other], gfx'[other])
    <3> TAKE other \in DOMAIN gfx'
    <3>1. CASE other = id
      BY <1>2, <2>1, <3>1
    <3>2. CASE other # id
      BY <1>2, <3>2 DEF Current, Following
    <3> QED
      BY <3>1, <3>2
  <2>3. \A other \in DOMAIN gfx : gfx'[other].drawn = gfx[other].drawn
    BY <1>2, <1>3
  <2>4. DOMAIN decoders \subseteq DOMAIN gfx
    BY DEF Current, Decoding
  <2> QED
    BY <1>2, <2>2, <2>3, <2>4 DEF Current, Following
<1>6. \A c \in DOMAIN g.cells : x + c \in Columns(id, x)
  BY <1>1 DEF Columns, Agrees
<1>7. OnScreen'
  <2>1. DOMAIN canvas = 1 .. Cells /\ Following /\ OnScreen
    BY DEF Current, Suppressing
  <2>2. g2.origin \in Nat /\ DOMAIN g2.cells \subseteq Nat /\ DOMAIN g2.cells = DOMAIN g.cells
    BY <1>1, <1>3, <1>4 DEF Agrees
  <2>3. \A c \in DOMAIN g2.cells : g2.origin + c \in 1 .. Cells
    BY <1>3, <1>6 DEF MapSurface, FreeFor
  <2>4. ASSUME NEW other \in DOMAIN gfx \ {id}, gfx[other].mapped PROVE Apart(g2, gfx[other])
    <3>1. Columns(id, x) \cap Columns(other, gfx[other].origin) = {}
      BY <2>4 DEF MapSurface, FreeFor
    <3>2. Agrees(surf[other], gfx[other])
      BY <2>1 DEF Following
    <3>3. \A c \in DOMAIN gfx[other].cells :
            gfx[other].origin + c \in Columns(other, gfx[other].origin)
      BY <3>2 DEF Columns, Agrees
    <3> QED
      BY <1>3, <1>6, <3>1, <3>3 DEF Apart
  <2> HIDE DEF g
  <2>5. canvas' = Blit(g2, DOMAIN g2.cells)
    BY <1>2, <2>2
  <2> QED
    BY <1>1, <1>2, <2>1, <2>2, <2>3, <2>4, <2>5, BlitKeeps
<1> QED
  BY <1>5, <1>7

LEMMA CreateFollows ==
  ASSUME Current, NEW id \in Ids, NEW size \in 1 .. Cells, CreateSurface(id, size)
  PROVE  Following' /\ OnScreen'
<1> DEFINE new == [c \in 1 .. size |-> Black]
           s2 == [cells |-> new, inc |-> creates + 1, due |-> 0]
           g2 == [cells |-> new, origin |-> 0, mapped |-> FALSE, drawn |-> 0]
<1>1. /\ id \notin DOMAIN surf
      /\ surf' = Put(surf, id, s2) /\ gfx' = Put(gfx, id, g2)
      /\ UNCHANGED <<saved, cache, canvas, decoders>>
  BY DEF CreateSurface
<1>2. size \in Nat
  BY EgfxAssumption
<1>3. Agrees(s2, g2) /\ ~g2.mapped
  BY <1>2 DEF Agrees
<1> HIDE DEF s2, g2
<1>4. /\ DOMAIN gfx' = DOMAIN gfx \cup {id} /\ gfx'[id] = g2 /\ surf'[id] = s2
      /\ \A other \in DOMAIN gfx : gfx'[other] = gfx[other] /\ surf'[other] = surf[other]
      /\ id \notin DOMAIN gfx /\ DOMAIN decoders \subseteq DOMAIN gfx
  BY <1>1 DEF Put, Current, Decoding
<1>5. Following'
  BY <1>1, <1>3, <1>4 DEF Current, Following
<1>6. OnScreen'
  <2>1. \A other \in DOMAIN gfx' : gfx'[other].mapped => other \in DOMAIN gfx
    BY <1>3, <1>4
  <2> QED
    BY <1>1, <1>4, <2>1 DEF Current, OnScreen
<1> QED
  BY <1>5, <1>6

\* The decoder's queue after one more frame of the server
LEMMA FeedOrdered ==
  ASSUME NEW s, NEW next, NEW d, NEW f, NEW drawn \in Nat,
         s.due \in Nat, drawn <= s.due, next.due = s.due + 1,
         next.cells = [c \in DOMAIN next.cells |-> f.colour],
         Faithful(d, s), Ordered(d.queue, drawn, s), f.nr = s.due + 1
  PROVE  Ordered(Feed(d, f).queue, drawn, next)
<1> DEFINE q == d.queue
           q2 == Append(q, f)
<1>1. q \in Seq(Items)
  BY DEF Faithful
<1>2. \A i \in DOMAIN q : q[i].nr \in Nat /\ q[i].nr > drawn /\ q[i].nr <= s.due
  BY <1>1, ItemNr, Zenon DEF Ordered
<1>3. \A i, j \in DOMAIN q : i < j => q[i].nr < q[j].nr
  BY DEF Ordered
<1>4. /\ DOMAIN q = 1 .. Len(q) /\ Len(q) \in Nat /\ DOMAIN q2 = 1 .. Len(q) + 1
      /\ q2[Len(q) + 1] = f
      /\ \A i \in 1 .. Len(q) : q2[i] = q[i]
  BY <1>1
<1>5. CASE d.awaiting /\ ~f.key
  <2>1. Feed(d, f).queue = q
    BY <1>5 DEF Feed
  <2>2. \A i \in DOMAIN q : q[i].nr > drawn /\ q[i].nr <= next.due /\ q[i].nr # next.due
    BY <1>2
  <2> HIDE DEF q
  <2> QED
    BY <1>3, <2>1, <2>2 DEF Ordered
<1>6. CASE ~(d.awaiting /\ ~f.key)
  <2>1. Feed(d, f).queue = q2
    BY <1>6 DEF Feed, Faithful
  <2> HIDE DEF q, q2
  <2>2. ASSUME NEW i \in DOMAIN q2
        PROVE  /\ q2[i].nr > drawn /\ q2[i].nr <= next.due
               /\ q2[i].nr = next.due => next.cells = [c \in DOMAIN next.cells |-> q2[i].colour]
    <3>1. CASE i = Len(q) + 1
      BY <1>4, <3>1
    <3>2. CASE i \in DOMAIN q
      <4>1. q2[i] = q[i]
        BY <1>4, <3>2
      <4>2. q[i].nr > drawn /\ q[i].nr <= next.due /\ q[i].nr # next.due
        BY <1>2, <3>2
      <4> QED
        BY <4>1, <4>2
    <3> QED
      BY <1>4, <3>1, <3>2
  <2>3. ASSUME NEW i \in DOMAIN q2, NEW j \in DOMAIN q2, i < j PROVE q2[i].nr < q2[j].nr
    <3>1. i \in DOMAIN q /\ q2[i] = q[i]
      BY <1>4, <2>3
    <3>2. CASE j = Len(q) + 1
      <4>1. q2[j].nr = s.due + 1
        BY <1>4, <3>2
      <4>2. q[i].nr \in Nat /\ q[i].nr <= s.due
        BY <1>2, <3>1
      <4> QED
        BY <3>1, <4>1, <4>2
    <3>3. CASE j \in DOMAIN q
      BY <1>3, <1>4, <2>3, <3>1, <3>3
    <3> QED
      BY <1>4, <3>2, <3>3
  <2> QED
    BY <2>1, <2>2, <2>3 DEF Ordered
<1> QED
  BY <1>5, <1>6

LEMMA AvcFollows ==
  ASSUME Current, NEW id \in Ids, NEW key \in BOOLEAN, NEW col \in Colours,
         AvcFrame(id, key, col)
  PROVE  Following' /\ OnScreen'
<1> DEFINE s == surf[id]
           g == gfx[id]
           s2 == [s EXCEPT !.due = s.due + 1, !.cells = [c \in DOMAIN s.cells |-> col]]
           d == Decoder(id, Len(s.cells))
           f == Frame(id, key, col, d)
<1>1. /\ id \in DOMAIN surf /\ id \in DOMAIN gfx /\ Agrees(s, g)
      /\ s.due \in Nat /\ s.inc \in Nat /\ DOMAIN s = {"cells", "inc", "due"}
  BY DEF AvcFrame, Current, Decoding, Following
<1>2. /\ DOMAIN surf' = DOMAIN surf /\ surf'[id] = s2
      /\ \A other \in DOMAIN surf \ {id} : surf'[other] = surf[other]
      /\ UNCHANGED <<gfx, saved, cache, canvas>>
  BY <1>1 DEF AvcFrame
<1>3. s2.due = s.due + 1 /\ s2.cells = [c \in DOMAIN s.cells |-> col]
  BY <1>1
<1>4. /\ DOMAIN decoders' = DOMAIN decoders \cup {id} /\ decoders'[id] = Feed(d, f)
      /\ \A other \in DOMAIN decoders \ {id} : decoders'[other] = decoders[other]
  BY DEF AvcFrame, Put
<1>5. Faithful(d, s) /\ Ordered(d.queue, g.drawn, s)
  <2>1. CASE id \in DOMAIN decoders /\ d = decoders[id]
    BY <2>1 DEF Current, Decoding, Following
  <2>2. CASE d = [size |-> Len(s.cells), awaiting |-> TRUE, queue |-> << >>, fed |-> <<0, 0>>]
    BY <2>2 DEF Faithful, Ordered
  <2> QED
    BY <2>1, <2>2 DEF Decoder
<1>6. f.nr = s.due + 1 /\ f.colour = col
  BY DEF Frame
<1> HIDE DEF s2, d, f
<1>7. s2.cells = [c \in DOMAIN s2.cells |-> f.colour]
  BY <1>3, <1>6
<1>8. Ordered(Feed(d, f).queue, g.drawn, s2)
  BY <1>1, <1>3, <1>5, <1>6, <1>7, FeedOrdered DEF Agrees
<1>9. Agrees(s2, g)
  BY <1>1, <1>3 DEF Agrees
<1> HIDE DEF g, s
<1>10. Following'
  <2>1. \A other \in DOMAIN gfx : Agrees(surf'[other], gfx[other])
    <3> TAKE other \in DOMAIN gfx
    <3>1. CASE other = id
      BY <1>2, <1>9, <3>1 DEF g
    <3>2. CASE other # id
      BY <1>2, <3>2 DEF Current, Decoding, Following
    <3> QED
      BY <3>1, <3>2
  <2>2. \A other \in DOMAIN decoders' :
          Ordered(decoders'[other].queue, gfx[other].drawn, surf'[other])
    <3> TAKE other \in DOMAIN decoders'
    <3>1. CASE other = id
      BY <1>2, <1>4, <1>8, <3>1 DEF g
    <3>2. CASE other # id
      BY <1>2, <1>4, <3>2 DEF Current, Decoding, Following
    <3> QED
      BY <3>1, <3>2
  <2> QED
    BY <1>2, <2>1, <2>2 DEF Current, Following
<1>11. OnScreen'
  BY <1>2 DEF Current, OnScreen
<1> QED
  BY <1>10, <1>11

\* The decoder's queue after its first frame came back
LEMMA TailOrdered ==
  ASSUME NEW q \in Seq(Items), q # << >>, NEW drawn \in Nat, NEW s, Ordered(q, drawn, s)
  PROVE  Ordered(Tail(q), drawn, s) /\ Ordered(Tail(q), Head(q).nr, s)
<1>1. /\ DOMAIN q = 1 .. Len(q) /\ Len(q) \in Nat /\ Len(q) >= 1 /\ Head(q) = q[1]
      /\ DOMAIN Tail(q) = 1 .. Len(q) - 1
      /\ \A i \in 1 .. Len(q) - 1 : Tail(q)[i] = q[i + 1]
  OBVIOUS
<1>2. \A i \in DOMAIN Tail(q) :
        1 \in DOMAIN q /\ i + 1 \in DOMAIN q /\ 1 < i + 1 /\ Tail(q)[i] = q[i + 1]
  BY <1>1
<1>3. \A i \in DOMAIN q : q[i].nr \in Nat
  BY ItemNr
<1>4. \A i \in DOMAIN Tail(q) :
        /\ Tail(q)[i].nr > drawn /\ Tail(q)[i].nr <= s.due
        /\ Tail(q)[i].nr = s.due => s.cells = [c \in DOMAIN s.cells |-> Tail(q)[i].colour]
  <2> TAKE i \in DOMAIN Tail(q)
  <2>1. /\ q[i + 1].nr > drawn /\ q[i + 1].nr <= s.due
        /\ q[i + 1].nr = s.due => s.cells = [c \in DOMAIN s.cells |-> q[i + 1].colour]
    BY <1>2, Zenon DEF Ordered
  <2>2. Tail(q)[i] = q[i + 1]
    BY <1>2
  <2> QED
    BY <2>1, <2>2, Zenon
<1>5. \A i \in DOMAIN Tail(q) : Tail(q)[i].nr > Head(q).nr
  <2> TAKE i \in DOMAIN Tail(q)
  <2>1. q[1].nr < q[i + 1].nr
    BY <1>2 DEF Ordered
  <2>2. q[1].nr \in Nat /\ q[i + 1].nr \in Nat
    BY <1>2, <1>3
  <2> QED
    BY <1>1, <1>2, <2>1, <2>2
<1>6. \A i, j \in DOMAIN Tail(q) : i < j => Tail(q)[i].nr < Tail(q)[j].nr
  <2> SUFFICES ASSUME NEW i \in DOMAIN Tail(q), NEW j \in DOMAIN Tail(q), i < j
               PROVE  Tail(q)[i].nr < Tail(q)[j].nr
    OBVIOUS
  <2>1. i + 1 < j + 1
    BY <1>1
  <2> QED
    BY <1>2, <2>1 DEF Ordered
<1> QED
  BY <1>4, <1>5, <1>6 DEF Ordered

LEMMA OutputFollows ==
  ASSUME Current, NEW id \in Ids, DecoderOutput(id)
  PROVE  Following' /\ OnScreen'
<1> DEFINE q == decoders[id].queue
           s == surf[id]
           g == gfx[id]
           f == Head(q)
           g2 == Overwrite(g, f)
<1>1. /\ id \in DOMAIN decoders /\ id \in DOMAIN gfx /\ id \in DOMAIN surf
      /\ q \in Seq(Items) /\ q # << >> /\ Agrees(s, g) /\ Ordered(q, g.drawn, s)
      /\ s.due \in Nat
  BY DEF DecoderOutput, Current, Decoding, Following, Faithful
<1>2. Ordered(Tail(q), g.drawn, s) /\ Ordered(Tail(q), f.nr, s)
  BY <1>1, TailOrdered DEF Agrees
<1>3. /\ DOMAIN decoders' = DOMAIN decoders /\ decoders'[id].queue = Tail(q)
      /\ \A other \in DOMAIN decoders \ {id} : decoders'[other] = decoders[other]
      /\ UNCHANGED <<surf, saved, cache>>
  <2>1. decoders' = [decoders EXCEPT ![id].queue = Tail(@)]
    BY DEF DecoderOutput
  <2>2. decoders'[id] = [decoders[id] EXCEPT !.queue = Tail(@)]
    BY <1>1, <2>1
  <2>3. decoders[id] = [size |-> decoders[id].size, awaiting |-> decoders[id].awaiting,
                        queue |-> q, fed |-> decoders[id].fed]
    BY <1>1 DEF Current, Decoding, Faithful
  <2>4. decoders'[id] = [size |-> decoders[id].size, awaiting |-> decoders[id].awaiting,
                         queue |-> Tail(q), fed |-> decoders[id].fed]
    BY <2>2, <2>3, QueueInPlace
  <2>5. decoders'[id].queue = Tail(q)
    BY <2>4
  <2> HIDE DEF q
  <2> QED
    BY <2>1, <2>5 DEF DecoderOutput, server
<1>4. \A other \in DOMAIN decoders : other \in DOMAIN gfx
        /\ Ordered(decoders[other].queue, gfx[other].drawn, surf[other])
  BY DEF Current, Decoding, Following
<1>5. CASE ~Fits(id)
  <2>1. UNCHANGED <<gfx, canvas>>
    BY <1>5 DEF DecoderOutput
  <2>2. \A other \in DOMAIN decoders' :
          Ordered(decoders'[other].queue, gfx'[other].drawn, surf'[other])
    <3> TAKE other \in DOMAIN decoders'
    <3> QED
      BY <1>2, <1>3, <1>4, <2>1
  <2> QED
    BY <1>3, <2>1, <2>2 DEF Current, Following, OnScreen
<1>6. CASE Fits(id)
  <2>1. /\ DOMAIN gfx' = DOMAIN gfx /\ gfx'[id] = g2
        /\ \A other \in DOMAIN gfx \ {id} : gfx'[other] = gfx[other]
        /\ canvas' = Blit(g2, DOMAIN g.cells)
    BY <1>1, <1>6 DEF DecoderOutput
  <2>2. /\ DOMAIN g2 = DOMAIN g /\ g2.origin = g.origin /\ g2.mapped = g.mapped
        /\ g2.drawn = f.nr /\ g2.cells = [c \in DOMAIN g.cells |-> f.colour]
    BY <1>1 DEF Overwrite, Agrees
  <2>3. /\ f.nr \in Nat /\ f.nr <= s.due
        /\ f.nr = s.due => s.cells = [c \in DOMAIN s.cells |-> f.colour]
    <3>1. 1 \in DOMAIN q /\ f = q[1] /\ q[1] \in Items
      BY <1>1
    <3>2. q[1].nr \in Nat
      BY <1>1, <3>1, ItemNr
    <3>3. /\ q[1].nr <= s.due
          /\ q[1].nr = s.due => s.cells = [c \in DOMAIN s.cells |-> q[1].colour]
      BY <1>1, <3>1, Zenon DEF Ordered
    <3> HIDE DEF q, f, s
    <3> QED
      BY <3>1, <3>2, <3>3, Zenon
  <2> HIDE DEF g2, q, f
  <2>4. Agrees(s, g2)
    BY <1>1, <2>2, <2>3 DEF Agrees
  <2>5. \A other \in DOMAIN gfx' : Agrees(surf'[other], gfx'[other])
    <3> TAKE other \in DOMAIN gfx'
    <3>1. CASE other = id
      BY <1>3, <2>1, <2>4, <3>1
    <3>2. CASE other # id
      BY <1>3, <2>1, <3>2 DEF Current, Following
    <3> QED
      BY <3>1, <3>2
  <2>6. \A other \in DOMAIN decoders' :
          Ordered(decoders'[other].queue, gfx'[other].drawn, surf'[other])
    <3> TAKE other \in DOMAIN decoders'
    <3>1. CASE other = id
      BY <1>2, <1>3, <2>1, <2>2, <3>1
    <3>2. CASE other # id
      BY <1>3, <1>4, <2>1, <3>2
    <3> QED
      BY <3>1, <3>2
  <2>7. Following'
    BY <1>3, <2>5, <2>6 DEF Current, Following
  <2>8. OnScreen'
    <3>1. DOMAIN canvas = 1 .. Cells /\ Following /\ OnScreen
      BY DEF Current, Suppressing
    <3>2. /\ g2.origin \in Nat /\ DOMAIN g2.cells \subseteq Nat /\ DOMAIN g2.cells = DOMAIN g.cells
      BY <1>1, <2>2 DEF Agrees
    <3>3. ASSUME g2.mapped, NEW c \in DOMAIN g2.cells PROVE g2.origin + c \in 1 .. Cells
      BY <1>1, <2>2, <3>1, <3>2, <3>3 DEF OnScreen, Shows
    <3>4. ASSUME NEW other \in DOMAIN gfx \ {id}, g2.mapped, gfx[other].mapped
          PROVE  Apart(g2, gfx[other])
      <4>1. Apart(g, gfx[other])
        BY <1>1, <2>2, <3>1, <3>4 DEF OnScreen
      <4> QED
        BY <2>2, <3>2, <4>1 DEF Apart
    <3>5. canvas' = Blit(g2, DOMAIN g2.cells)
      BY <2>1, <3>2
    <3> HIDE DEF g
    <3> QED
      BY <1>1, <2>1, <3>1, <3>2, <3>3, <3>4, <3>5, BlitKeeps
  <2> QED
    BY <2>7, <2>8
<1> QED
  BY <1>5, <1>6

LEMMA CurrentStep == Closing /\ ~Mixed /\ Current /\ [Next]_vars => Current'
<1> SUFFICES ASSUME Closing, ~Mixed, Current, [Next]_vars PROVE Current'
  OBVIOUS
<1>0. Suppressing' /\ Decoding' /\ DOMAIN gfx = DOMAIN surf /\ DOMAIN decoders \subseteq DOMAIN gfx
  BY SuppressingStep, DecodingStep DEF Current, Decoding
<1> SUFFICES Following' /\ OnScreen'
  BY <1>0 DEF Current
<1>1. ASSUME NEW resized \in BOOLEAN, ResetGraphics(resized) PROVE Following' /\ OnScreen'
  <2>1. DOMAIN gfx' = {} /\ UNCHANGED <<saved, cache>> /\ decoders' = Without(decoders, DOMAIN gfx)
    BY <1>1 DEF ResetGraphics, Empty
  <2>2. DOMAIN decoders' = {}
    <3>1. DOMAIN decoders' = DOMAIN decoders \ DOMAIN gfx
      BY <2>1, WithoutDomain
    <3> QED
      BY <1>0, <3>1
  <2> QED
    BY <2>1, <2>2, NothingKeeps DEF Current, Following
<1>2. ASSUME NEW resized \in BOOLEAN, Reactivate(resized) PROVE Following' /\ OnScreen'
  BY <1>0, <1>2, NothingKeeps DEF Reactivate
<1>3. ASSUME NEW id \in Ids, NEW size \in 1 .. Cells, CreateSurface(id, size)
      PROVE  Following' /\ OnScreen'
  BY <1>3, CreateFollows
<1>4. ASSUME NEW id \in Ids, DeleteSurface(id) PROVE Following' /\ OnScreen'
  BY <1>4, FewerKeeps DEF DeleteSurface, Current, Following
<1>5. ASSUME NEW id \in Ids, NEW x \in 0 .. Cells - 1, MapSurface(id, x)
      PROVE  Following' /\ OnScreen'
  BY <1>5, MapFollows
<1>6. ASSUME NEW id \in Ids, NEW tile, NEW x, Paint(id, tile, x) PROVE Following' /\ OnScreen'
  BY <1>6, PaintFollows DEF Paint, Usable
<1>7. ASSUME NEW id \in Ids, NEW l, NEW r, NEW x, NEW to \in Ids, SurfaceToSurface(id, l, r, to, x)
      PROVE  Following' /\ OnScreen'
  <2>1. Settled(id) /\ Settled(to) /\ to \in DOMAIN surf /\ id \in DOMAIN gfx
    BY <1>0, <1>7 DEF SurfaceToSurface, Usable
  <2>2. gfx[id].cells = surf[id].cells
    BY <2>1 DEF Current, Following, Agrees, Settled
  <2>3. /\ surf' = [surf EXCEPT ![to].cells = Stamp(@, SubSeq(gfx[id].cells, l, r), x)]
        /\ Draw(to, SubSeq(gfx[id].cells, l, r), x)
    BY <1>7, <2>2 DEF SurfaceToSurface
  <2> QED
    BY <2>1, <2>3, PaintFollows
<1>8. ASSUME NEW id \in Ids, NEW x, NEW slot, CacheToSurface(slot, id, x)
      PROVE  Following' /\ OnScreen'
  <2>1. /\ Settled(id) /\ id \in DOMAIN surf
        /\ surf' = [surf EXCEPT ![id].cells = Stamp(@, saved[slot], x)]
        /\ Draw(id, saved[slot], x)
    BY <1>8 DEF CacheToSurface, Usable, Current, Following
  <2> QED
    BY <2>1, PaintFollows
<1>9. ASSUME NEW id \in Ids, NEW l, NEW r, NEW slot, SurfaceToCache(id, l, r, slot)
      PROVE  Following' /\ OnScreen'
  <2>1. Settled(id) /\ id \in DOMAIN gfx
    BY <1>0, <1>9 DEF SurfaceToCache, Usable
  <2>2. gfx[id].cells = surf[id].cells
    BY <2>1 DEF Current, Following, Agrees, Settled
  <2>3. cache' = saved' /\ UNCHANGED <<surf, gfx, canvas, decoders>>
    BY <1>9, <2>2 DEF SurfaceToCache, Current, Following
  <2> QED
    BY <2>3 DEF Current, Following, OnScreen
<1>10. ASSUME NEW slot, Evict(slot) PROVE Following' /\ OnScreen'
  BY <1>10 DEF Evict, Current, Following, OnScreen
<1>11. ASSUME NEW id \in Ids, NEW key \in BOOLEAN, NEW c \in Colours, AvcFrame(id, key, c)
      PROVE  Following' /\ OnScreen'
  BY <1>11, AvcFollows
<1>12. ASSUME NEW id \in Ids, DecoderOutput(id) PROVE Following' /\ OnScreen'
  BY <1>12, OutputFollows
<1>13. ASSUME NEW id \in Ids, DecoderError(id) PROVE Following' /\ OnScreen'
  <2>1. /\ UNCHANGED <<surf, gfx, canvas, saved, cache>>
        /\ DOMAIN decoders' \subseteq DOMAIN decoders
        /\ \A other \in DOMAIN decoders' : decoders'[other] = decoders[other]
    BY <1>13 DEF DecoderError, Without, Restrict, server
  <2> QED
    BY <2>1 DEF Current, Following, OnScreen
<1>14. CASE LegacyUpdate
  <2>1. UNCHANGED <<surf, gfx, decoders, saved, cache>>
    BY <1>14 DEF LegacyUpdate
  <2>2. canvas' = canvas \/ DOMAIN gfx' = {}
    BY <1>14, <2>1 DEF LegacyUpdate, Current, Suppressing
  <2> QED
    BY <2>1, <2>2 DEF Current, Following, OnScreen
<1>15. ASSUME NEW cleanup \in BOOLEAN, NewSession(cleanup) PROVE Following' /\ OnScreen'
  BY <1>15, NothingKeeps DEF NewSession, Empty
<1>16. CASE UNCHANGED <<surf, gfx, canvas, decoders, saved, cache>>
  BY <1>16 DEF Current, Following, OnScreen
<1> QED
  BY <1>1, <1>2, <1>3, <1>4, <1>5, <1>6, <1>7, <1>8, <1>9, <1>10, <1>11, <1>12, <1>13, <1>14,
     <1>15, <1>16
     DEF Next, vars, server, HandleStored

LEMMA CurrentInit == Init => Current
BY SuppressingInit, DecodingInit DEF Init, Current, Following, OnScreen, Empty

\* When, besides, the server leaves a surface alone whose video is still being decoded: once
\* its last frame is drawn, a surface holds exactly what the server drew, and so does the part
\* of the desktop it is mapped to, after frames the decoder lost, whatever was drawn, copied,
\* cached, mapped or deleted in between.
THEOREM SurfaceAlwaysCurrent == Spec => [](Closing /\ ~Mixed => SurfaceIsCurrent)
<1>1. Init => (Closing /\ ~Mixed => Current)
  BY CurrentInit
<1>2. (Closing /\ ~Mixed => Current) /\ [Next]_vars => (Closing /\ ~Mixed => Current)'
  BY CurrentStep
<1>3. (Closing /\ ~Mixed => Current) => (Closing /\ ~Mixed => SurfaceIsCurrent)
  <2> SUFFICES ASSUME Current, NEW id \in DOMAIN surf, Settled(id)
               PROVE  /\ gfx[id].cells = surf[id].cells
                      /\ gfx[id].mapped => \A c \in DOMAIN surf[id].cells :
                                              canvas[gfx[id].origin + c] = surf[id].cells[c]
    BY DEF SurfaceIsCurrent
  <2>1. id \in DOMAIN gfx /\ Agrees(surf[id], gfx[id]) /\ gfx[id].cells = surf[id].cells
    BY DEF Current, Following, Agrees, Settled
  <2>2. gfx[id].mapped => Shows(canvas, gfx[id])
    BY <2>1 DEF Current, OnScreen
  <2> QED
    BY <2>1, <2>2 DEF Shows
<1> QED
  BY <1>1, <1>2, <1>3, PTL DEF Spec

(***************************************************************************)
(* Types of EgfxSurfaces: rows stay rows, a mapped surface stays on the    *)
(* desktop, and a decoder that waits for a keyframe has nothing to return. *)
(***************************************************************************)
Shadows == [cells : Rows, inc : 1 .. MaxCreates, due : 0 .. MaxFrames]
Surfaces == [cells : Rows, origin : Nat, mapped : BOOLEAN, drawn : 0 .. MaxFrames]
Marks == (0 .. MaxCreates) \X (0 .. MaxFrames)
AvcDecoders == [size : Nat, awaiting : BOOLEAN, queue : Seq(Frames), fed : Marks]
Canvases == [1 .. Cells -> Pixels \cup {Legacy}]

SurfacesOK ==
  /\ DOMAIN surf \subseteq Ids /\ DOMAIN gfx = DOMAIN surf
  /\ \A id \in DOMAIN surf :
       /\ surf[id] \in Shadows /\ gfx[id] \in Surfaces
       /\ DOMAIN gfx[id].cells = DOMAIN surf[id].cells
       /\ gfx[id].mapped => gfx[id].origin + Len(gfx[id].cells) <= Cells

DecodersOK ==
  /\ DOMAIN decoders \subseteq Ids
  /\ \A id \in DOMAIN decoders :
       decoders[id] \in AvcDecoders /\ (decoders[id].awaiting => decoders[id].queue = << >>)

CachesOK ==
  /\ DOMAIN cache \subseteq Slots /\ \A slot \in DOMAIN cache : cache[slot] \in Rows
  /\ DOMAIN saved \subseteq Slots /\ \A slot \in DOMAIN saved : saved[slot] \in Rows

DesktopOK ==
  /\ canvas \in Canvases /\ creates \in 0 .. MaxCreates
  /\ egfxActive \in BOOLEAN /\ stored \in BOOLEAN /\ legacy \in BOOLEAN

EgfxTyped == SurfacesOK /\ DecodersOK /\ CachesOK /\ DesktopOK

\* Rows, and what is made of them
LEMMA RowIs ==
  ASSUME NEW row \in Rows
  PROVE  /\ row \in Seq(Pixels) /\ Len(row) \in 1 .. Cells /\ DOMAIN row = 1 .. Len(row)
         /\ \A c \in DOMAIN row : row[c] \in Pixels
<1>1. PICK n \in 1 .. Cells : row \in [1 .. n -> Pixels]
  BY DEF Rows
<1> QED
  BY <1>1, EgfxAssumption

LEMMA RowOf ==
  ASSUME NEW n \in 1 .. Cells, NEW row \in [1 .. n -> Pixels] PROVE row \in Rows
BY DEF Rows

LEMMA RowSame ==
  ASSUME NEW row \in Rows, NEW new \in [DOMAIN row -> Pixels]
  PROVE  new \in Rows /\ DOMAIN new = DOMAIN row /\ Len(new) = Len(row)
<1>1. Len(row) \in 1 .. Cells /\ DOMAIN row = 1 .. Len(row) /\ Len(row) \in Nat
  BY RowIs, EgfxAssumption
<1>2. new \in [1 .. Len(row) -> Pixels]
  BY <1>1
<1> QED
  BY <1>1, <1>2, RowOf

LEMMA StampRow ==
  ASSUME NEW row \in Rows, NEW tile, \A i \in DOMAIN tile : tile[i] \in Pixels, NEW x
  PROVE  Stamp(row, tile, x) \in [DOMAIN row -> Pixels]
BY RowIs DEF Stamp

LEMMA PartRow ==
  ASSUME NEW row \in Rows, NEW l \in 1 .. Cells, NEW r \in 1 .. Cells, l <= r, r <= Len(row)
  PROVE  SubSeq(row, l, r) \in Rows
<1>1. row \in Seq(Pixels) /\ Len(row) \in Nat /\ l \in Nat /\ r \in Nat /\ l >= 1
  BY RowIs, EgfxAssumption
<1>2. SubSeq(row, l, r) \in Seq(Pixels) /\ Len(SubSeq(row, l, r)) = r - l + 1
  BY <1>1
<1>3. r - l + 1 \in 1 .. Cells
  BY EgfxAssumption
<1>4. SubSeq(row, l, r) \in [1 .. r - l + 1 -> Pixels]
  <2>1. \A s \in Seq(Pixels) : s \in [1 .. Len(s) -> Pixels]
    OBVIOUS
  <2> QED
    BY <1>2, <2>1
<1> QED
  BY <1>3, <1>4, RowOf

LEMMA BlitCanvas ==
  ASSUME canvas \in Canvases, NEW g, g.cells \in Rows, NEW dirty, dirty \subseteq DOMAIN g.cells
  PROVE  Blit(g, dirty) \in Canvases
<1>1. \A c \in dirty : g.cells[c] \in Pixels
  BY RowIs
<1>2. \A c \in DOMAIN canvas : canvas[c] \in Pixels \cup {Legacy} /\ DOMAIN canvas = 1 .. Cells
  BY DEF Canvases
<1> QED
  BY <1>1, <1>2 DEF Blit, Canvases

LEMMA BlackCanvas == Blank \in Canvases
BY DEF Blank, Canvases, Pixels

\* A step that changes the cells of one surface, on both sides alike or on one only
LEMMA CellsOK ==
  ASSUME SurfacesOK, NEW id \in DOMAIN surf,
         DOMAIN surf' = DOMAIN surf, DOMAIN gfx' = DOMAIN gfx,
         \A other \in DOMAIN surf \ {id} : surf'[other] = surf[other] /\ gfx'[other] = gfx[other],
         surf'[id] \in Shadows, DOMAIN surf'[id].cells = DOMAIN surf[id].cells,
         gfx'[id] \in Surfaces, DOMAIN gfx'[id].cells = DOMAIN gfx[id].cells,
         gfx'[id].mapped => gfx'[id].origin + Len(gfx'[id].cells) <= Cells
  PROVE  SurfacesOK'
BY DEF SurfacesOK

\* Dropping surfaces
LEMMA FewerOK ==
  ASSUME SurfacesOK, NEW ids, surf' = Without(surf, ids), gfx' = Without(gfx, ids)
  PROVE  SurfacesOK'
<1>1. DOMAIN surf' = DOMAIN surf \ ids /\ DOMAIN gfx' = DOMAIN gfx \ ids
  BY WithoutDomain
<1>2. \A id \in DOMAIN surf' : surf'[id] = surf[id] /\ gfx'[id] = gfx[id]
  BY <1>1 DEF SurfacesOK, Without, Restrict
<1> QED
  BY <1>1, <1>2 DEF SurfacesOK

LEMMA NoneOK == surf' = Empty /\ gfx' = Empty => SurfacesOK'
BY DEF SurfacesOK, Empty

LEMMA FewerDecodersOK ==
  ASSUME DecodersOK, NEW ids, decoders' = Without(decoders, ids)
  PROVE  DecodersOK'
<1>1. DOMAIN decoders' = DOMAIN decoders \ ids
  BY WithoutDomain
<1>2. \A id \in DOMAIN decoders' : decoders'[id] = decoders[id]
  BY <1>1 DEF Without, Restrict
<1> QED
  BY <1>1, <1>2 DEF DecodersOK

LEMMA MarkedType ==
  ASSUME NEW inc \in 1 .. MaxCreates, NEW nr \in 0 .. MaxFrames
  PROVE  <<inc, nr>> \in Marks
BY EgfxAssumption DEF Marks

\* What a frame does to a decoder
LEMMA FeedType ==
  ASSUME NEW d \in AvcDecoders, d.awaiting => d.queue = << >>, NEW f \in Frames
  PROVE  /\ Feed(d, f) \in AvcDecoders
         /\ Feed(d, f).awaiting => Feed(d, f).queue = << >>
<1>1. CASE d.awaiting /\ ~f.key
  BY <1>1 DEF Feed
<1>2. CASE ~(d.awaiting /\ ~f.key)
  <2>1. /\ d = [size |-> d.size, awaiting |-> d.awaiting, queue |-> d.queue, fed |-> d.fed]
        /\ d.size \in Nat /\ d.queue \in Seq(Frames)
    BY DEF AvcDecoders
  <2>2. Feed(d, f) = [size |-> d.size, awaiting |-> FALSE, queue |-> Append(d.queue, f),
                      fed |-> <<f.inc, f.nr>>]
    BY <1>2, <2>1 DEF Feed
  <2>3. Append(d.queue, f) \in Seq(Frames)
    BY <2>1
  <2>4. <<f.inc, f.nr>> \in Marks
    <3>1. f.inc \in 1 .. MaxCreates /\ f.nr \in 0 .. MaxFrames
      BY EgfxAssumption DEF Frames
    <3> QED
      BY <3>1, MarkedType
  <2> HIDE DEF AvcDecoders, Feed
  <2> QED
    BY <2>1, <2>2, <2>3, <2>4 DEF AvcDecoders
<1> QED
  BY <1>1, <1>2

LEMMA SurfacesStep == EgfxTyped /\ [Next]_vars => SurfacesOK'
<1> SUFFICES ASSUME EgfxTyped, [Next]_vars PROVE SurfacesOK'
  OBVIOUS
<1>0. SurfacesOK /\ DecodersOK /\ CachesOK /\ DesktopOK
  BY DEF EgfxTyped
<1>1. ASSUME NEW resized, ResetGraphics(resized) PROVE SurfacesOK'
  BY <1>1, NoneOK DEF ResetGraphics
<1>2. ASSUME NEW id \in Ids, NEW size \in 1 .. Cells, CreateSurface(id, size) PROVE SurfacesOK'
  <2> DEFINE new == [c \in 1 .. size |-> Black]
             s == [cells |-> new, inc |-> creates + 1, due |-> 0]
             g == [cells |-> new, origin |-> 0, mapped |-> FALSE, drawn |-> 0]
  <2>1. new \in Rows
    BY RowOf DEF Pixels
  <2>2. surf' = Put(surf, id, s) /\ gfx' = Put(gfx, id, g)
    BY <1>2 DEF CreateSurface
  <2>3. s \in Shadows
    <3>1. creates + 1 \in 1 .. MaxCreates /\ 0 \in 0 .. MaxFrames
      BY <1>0, <1>2, EgfxAssumption DEF DesktopOK, CreateSurface
    <3> HIDE DEF new
    <3> QED
      BY <2>1, <3>1 DEF Shadows
  <2>4. g \in Surfaces
    <3>1. 0 \in Nat /\ 0 \in 0 .. MaxFrames
      BY EgfxAssumption
    <3> HIDE DEF new
    <3> QED
      BY <2>1, <3>1 DEF Surfaces
  <2>5. g.cells = s.cells /\ ~g.mapped
    OBVIOUS
  <2> HIDE DEF s, g
  <2>6. DOMAIN surf' = DOMAIN surf \cup {id} /\ DOMAIN gfx' = DOMAIN gfx \cup {id}
    BY <2>2, PutDomain
  <2>7. /\ surf'[id] = s /\ gfx'[id] = g
        /\ \A other \in DOMAIN surf \ {id} : surf'[other] = surf[other] /\ gfx'[other] = gfx[other]
    BY <1>0, <2>2 DEF Put, SurfacesOK
  <2> QED
    BY <1>0, <2>3, <2>4, <2>5, <2>6, <2>7 DEF SurfacesOK
<1>3. ASSUME NEW id, DeleteSurface(id) PROVE SurfacesOK'
  BY <1>0, <1>3, FewerOK DEF DeleteSurface
<1>4. ASSUME NEW id \in Ids, NEW x \in 0 .. Cells - 1, MapSurface(id, x) PROVE SurfacesOK'
  <2>1. id \in DOMAIN surf /\ surf' = surf
    BY <1>4 DEF MapSurface, Usable, server
  <2>2. surf[id] \in Shadows /\ gfx[id] \in Surfaces /\ DOMAIN gfx[id].cells = DOMAIN surf[id].cells
    BY <1>0, <2>1 DEF SurfacesOK
  <2>3. gfx' = [gfx EXCEPT ![id] = [gfx[id] EXCEPT !.origin = x, !.mapped = TRUE]]
    BY <1>4 DEF MapSurface
  <2>4. /\ DOMAIN gfx' = DOMAIN gfx
        /\ \A other \in DOMAIN surf \ {id} : gfx'[other] = gfx[other]
        /\ gfx'[id] = [cells |-> gfx[id].cells, origin |-> x, mapped |-> TRUE, drawn |-> gfx[id].drawn]
    BY <1>0, <2>1, <2>2, <2>3 DEF SurfacesOK, Surfaces
  <2>5. gfx'[id] \in Surfaces /\ gfx'[id].cells = gfx[id].cells /\ gfx'[id].origin = x
    <3>1. x \in Nat /\ gfx[id].cells \in Rows /\ gfx[id].drawn \in 0 .. MaxFrames
      BY <2>2, EgfxAssumption DEF Surfaces
    <3> QED
      BY <2>4, <3>1 DEF Surfaces
  <2>6. x + Len(gfx[id].cells) <= Cells
    <3>1. /\ Len(gfx[id].cells) \in 1 .. Cells
          /\ DOMAIN gfx[id].cells = 1 .. Len(gfx[id].cells)
      BY <2>2, RowIs DEF Surfaces
    <3>2. Len(gfx[id].cells) \in DOMAIN surf[id].cells
      BY <2>2, <3>1, EgfxAssumption
    <3>3. Columns(id, x) \subseteq 1 .. Cells
      BY <1>4 DEF MapSurface, FreeFor
    <3>4. x + Len(gfx[id].cells) \in 1 .. Cells
      BY <3>2, <3>3 DEF Columns
    <3> QED
      BY <3>4, EgfxAssumption
  <2>7. surf'[id] = surf[id] /\ DOMAIN surf' = DOMAIN surf
        /\ \A other \in DOMAIN surf \ {id} : surf'[other] = surf[other]
    BY <2>1
  <2> QED
    BY <1>0, <2>1, <2>2, <2>4, <2>5, <2>6, <2>7, CellsOK
<1>5. ASSUME NEW id \in DOMAIN surf, NEW t1, NEW t2, NEW x,
             \A i \in DOMAIN t1 : t1[i] \in Pixels, \A i \in DOMAIN t2 : t2[i] \in Pixels,
             surf' = [surf EXCEPT ![id].cells = Stamp(@, t1, x)], Draw(id, t2, x)
      PROVE  SurfacesOK'
  <2>1. surf[id] \in Shadows /\ gfx[id] \in Surfaces /\ DOMAIN gfx[id].cells = DOMAIN surf[id].cells
    BY <1>0, <1>5 DEF SurfacesOK
  <2> DEFINE row == Stamp(surf[id].cells, t1, x)
             tile == Stamp(gfx[id].cells, t2, x)
  <2>2. /\ row \in Rows /\ DOMAIN row = DOMAIN surf[id].cells
        /\ tile \in Rows /\ DOMAIN tile = DOMAIN gfx[id].cells /\ Len(tile) = Len(gfx[id].cells)
    <3>1. surf[id].cells \in Rows /\ gfx[id].cells \in Rows
      BY <2>1 DEF Shadows, Surfaces
    <3>2. row \in [DOMAIN surf[id].cells -> Pixels] /\ tile \in [DOMAIN gfx[id].cells -> Pixels]
      BY <1>5, <3>1, StampRow
    <3> QED
      BY <3>1, <3>2, RowSame
  <2>3. /\ surf' = [surf EXCEPT ![id].cells = row]
        /\ gfx' = [gfx EXCEPT ![id].cells = tile]
    BY <1>5 DEF Draw
  <2> HIDE DEF row, tile
  <2>4. /\ DOMAIN surf' = DOMAIN surf /\ DOMAIN gfx' = DOMAIN gfx
        /\ \A other \in DOMAIN surf \ {id} : surf'[other] = surf[other] /\ gfx'[other] = gfx[other]
    BY <1>0, <2>3 DEF SurfacesOK
  <2>5. surf'[id] = [cells |-> row, inc |-> surf[id].inc, due |-> surf[id].due]
    BY <1>5, <2>1, <2>3 DEF Shadows
  <2>6. gfx'[id] = [cells |-> tile, origin |-> gfx[id].origin, mapped |-> gfx[id].mapped,
                    drawn |-> gfx[id].drawn]
    BY <1>0, <1>5, <2>1, <2>3 DEF Surfaces, SurfacesOK
  <2>7. surf'[id] \in Shadows
    BY <2>1, <2>2, <2>5 DEF Shadows
  <2>8. gfx'[id] \in Surfaces
    BY <2>1, <2>2, <2>6 DEF Surfaces
  <2>9. gfx[id].mapped => gfx[id].origin + Len(gfx[id].cells) <= Cells
    BY <1>0 DEF SurfacesOK
  <2>10. /\ gfx'[id].origin = gfx[id].origin /\ gfx'[id].mapped = gfx[id].mapped
         /\ gfx'[id].cells = tile /\ surf'[id].cells = row
    BY <2>5, <2>6
  <2> QED
    BY <1>0, <2>2, <2>4, <2>7, <2>8, <2>9, <2>10, CellsOK
<1>6. ASSUME NEW id, NEW n \in 1 .. Cells, NEW c \in Colours, NEW x, Paint(id, [i \in 1 .. n |-> c], x)
      PROVE  SurfacesOK'
  <2> DEFINE tile == [i \in 1 .. n |-> c]
  <2>1. \A i \in DOMAIN tile : tile[i] \in Pixels
    BY DEF Pixels
  <2>2. id \in DOMAIN surf /\ surf' = [surf EXCEPT ![id].cells = Stamp(@, tile, x)] /\ Draw(id, tile, x)
    BY <1>6 DEF Paint, Usable
  <2> HIDE DEF tile
  <2> QED
    BY <1>5, <2>1, <2>2
<1>7. ASSUME NEW from, NEW l \in 1 .. Cells, NEW r \in 1 .. Cells, NEW x, NEW to,
             SurfaceToSurface(from, l, r, to, x)
      PROVE  SurfacesOK'
  <2>1. from \in DOMAIN surf /\ to \in DOMAIN surf /\ l <= r /\ r <= Len(gfx[from].cells)
    BY <1>7 DEF SurfaceToSurface, Usable
  <2>2. surf[from].cells \in Rows /\ gfx[from].cells \in Rows
        /\ DOMAIN gfx[from].cells = DOMAIN surf[from].cells
    BY <1>0, <2>1 DEF SurfacesOK, Shadows, Surfaces
  <2>3. Len(surf[from].cells) = Len(gfx[from].cells)
    BY <2>2, RowIs
  <2>4. SubSeq(surf[from].cells, l, r) \in Rows /\ SubSeq(gfx[from].cells, l, r) \in Rows
    BY <2>1, <2>2, <2>3, PartRow
  <2>5. /\ \A i \in DOMAIN SubSeq(surf[from].cells, l, r) : SubSeq(surf[from].cells, l, r)[i] \in Pixels
        /\ \A i \in DOMAIN SubSeq(gfx[from].cells, l, r) : SubSeq(gfx[from].cells, l, r)[i] \in Pixels
    BY <2>4, RowIs
  <2> QED
    BY <1>5, <1>7, <2>1, <2>5 DEF SurfaceToSurface
<1>8. ASSUME NEW id, NEW x, NEW slot, CacheToSurface(slot, id, x) PROVE SurfacesOK'
  <2> DEFINE tile == IF slot \in DOMAIN cache THEN cache[slot] ELSE << >>
  <2>1. /\ \A i \in DOMAIN saved[slot] : saved[slot][i] \in Pixels
        /\ \A i \in DOMAIN tile : tile[i] \in Pixels
    <3>1. saved[slot] \in Rows /\ (slot \in DOMAIN cache => cache[slot] \in Rows)
      BY <1>0, <1>8 DEF CachesOK, CacheToSurface
    <3>2. slot \notin DOMAIN cache => DOMAIN tile = {}
      OBVIOUS
    <3> QED
      BY <3>1, <3>2, RowIs
  <2>2. /\ id \in DOMAIN surf
        /\ surf' = [surf EXCEPT ![id].cells = Stamp(@, saved[slot], x)]
        /\ Draw(id, tile, x)
    BY <1>8 DEF CacheToSurface, Usable
  <2> HIDE DEF tile
  <2> QED
    BY <1>5, <2>1, <2>2
<1>9. ASSUME NEW id \in Ids, NEW key, NEW c \in Colours, AvcFrame(id, key, c) PROVE SurfacesOK'
  <2>1. id \in DOMAIN surf /\ surf[id].due < MaxFrames /\ gfx' = gfx
    BY <1>9 DEF AvcFrame
  <2>2. surf[id] \in Shadows /\ gfx[id] \in Surfaces
    BY <1>0, <2>1 DEF SurfacesOK
  <2> DEFINE row == [i \in DOMAIN surf[id].cells |-> c]
  <2>3. row \in Rows /\ DOMAIN row = DOMAIN surf[id].cells
    <3>1. row \in [DOMAIN surf[id].cells -> Pixels] /\ surf[id].cells \in Rows
      BY <2>2 DEF Pixels, Shadows
    <3> QED
      BY <3>1, RowSame
  <2>4. surf' = [surf EXCEPT ![id].due = @ + 1, ![id].cells = row]
    BY <1>9 DEF AvcFrame
  <2> HIDE DEF row
  <2>5. /\ DOMAIN surf' = DOMAIN surf
        /\ \A other \in DOMAIN surf \ {id} : surf'[other] = surf[other]
        /\ surf'[id] = [cells |-> row, inc |-> surf[id].inc, due |-> surf[id].due + 1]
    BY <2>1, <2>2, <2>4 DEF Shadows
  <2>6. surf[id].due + 1 \in 0 .. MaxFrames
    BY <2>1, <2>2, EgfxAssumption DEF Shadows
  <2>7. surf'[id] \in Shadows
    BY <2>2, <2>3, <2>5, <2>6 DEF Shadows
  <2>8. gfx[id].mapped => gfx[id].origin + Len(gfx[id].cells) <= Cells
    BY <1>0, <2>1 DEF SurfacesOK
  <2> QED
    BY <1>0, <2>1, <2>2, <2>3, <2>5, <2>7, <2>8, CellsOK
<1>10. ASSUME NEW id \in Ids, DecoderOutput(id) PROVE SurfacesOK'
  <2>1. CASE ~Fits(id)
    BY <1>0, <1>10, <2>1 DEF DecoderOutput, server, SurfacesOK
  <2>2. CASE Fits(id)
    <3> DEFINE f == Head(decoders[id].queue)
    <3>1. f \in Frames
      <4>1. decoders[id].queue \in Seq(Frames) /\ decoders[id].queue # << >>
        BY <1>0, <1>10 DEF DecoderOutput, DecodersOK, AvcDecoders
      <4> QED
        BY <4>1
    <3>2. id \in DOMAIN surf /\ id \in DOMAIN gfx /\ surf' = surf
      BY <1>0, <1>10, <2>2 DEF Fits, SurfacesOK, DecoderOutput, server
    <3>3. surf[id] \in Shadows /\ gfx[id] \in Surfaces
      BY <1>0, <3>2 DEF SurfacesOK
    <3> DEFINE row == [i \in DOMAIN gfx[id].cells |-> f.colour]
    <3>4. row \in Rows /\ DOMAIN row = DOMAIN gfx[id].cells /\ Len(row) = Len(gfx[id].cells)
      <4>1. row \in [DOMAIN gfx[id].cells -> Pixels] /\ gfx[id].cells \in Rows
        BY <3>1, <3>3 DEF Pixels, Frames, Surfaces
      <4> QED
        BY <4>1, RowSame
    <3>5. gfx' = [gfx EXCEPT ![id] = Overwrite(gfx[id], f)]
      BY <1>10, <2>2 DEF DecoderOutput
    <3>6. Overwrite(gfx[id], f) = [cells |-> row, origin |-> gfx[id].origin,
                                   mapped |-> gfx[id].mapped, drawn |-> f.nr]
      <4>1. Overwrite(gfx[id], f) = [gfx[id] EXCEPT !.drawn = f.nr, !.cells = row]
        BY <3>3 DEF Overwrite, Surfaces
      <4> HIDE DEF f, row
      <4> QED
        BY <3>3, <4>1 DEF Surfaces
    <3>7. /\ DOMAIN gfx' = DOMAIN gfx
          /\ \A other \in DOMAIN surf \ {id} : gfx'[other] = gfx[other]
          /\ gfx'[id] = [cells |-> row, origin |-> gfx[id].origin,
                         mapped |-> gfx[id].mapped, drawn |-> f.nr]
      <4> HIDE DEF f, row
      <4> QED
        BY <1>0, <3>2, <3>5, <3>6 DEF SurfacesOK
    <3>8. f.nr \in 0 .. MaxFrames
      BY <3>1, EgfxAssumption DEF Frames
    <3> HIDE DEF f, row
    <3>9. gfx'[id] \in Surfaces
      BY <3>3, <3>4, <3>7, <3>8 DEF Surfaces
    <3>10. gfx[id].mapped => gfx[id].origin + Len(gfx[id].cells) <= Cells
      BY <1>0, <3>2 DEF SurfacesOK
    <3> QED
      BY <1>0, <3>2, <3>3, <3>4, <3>7, <3>9, <3>10, CellsOK
  <2> QED
    BY <2>1, <2>2
<1>11. CASE UNCHANGED <<surf, gfx>>
  BY <1>0, <1>11 DEF SurfacesOK
<1>12. ASSUME NEW cleanup, NewSession(cleanup) PROVE SurfacesOK'
  BY <1>12, NoneOK DEF NewSession
<1> QED
  BY <1>1, <1>2, <1>3, <1>4, <1>6, <1>7, <1>8, <1>9, <1>10, <1>11, <1>12
     DEF Next, vars, server, SurfaceToCache, DecoderError, Evict, HandleStored, LegacyUpdate, Reactivate

LEMMA DecodersStep == EgfxTyped /\ [Next]_vars => DecodersOK'
<1> SUFFICES ASSUME EgfxTyped, [Next]_vars PROVE DecodersOK'
  OBVIOUS
<1>0. SurfacesOK /\ DecodersOK /\ DesktopOK
  BY DEF EgfxTyped
<1>1. ASSUME NEW ids, decoders' = Without(decoders, ids) PROVE DecodersOK'
  BY <1>0, <1>1, FewerDecodersOK
<1>2. ASSUME NEW id \in Ids, NEW key \in BOOLEAN, NEW c \in Colours, AvcFrame(id, key, c)
      PROVE  DecodersOK'
  <2> DEFINE d == Decoder(id, Len(surf[id].cells))
             f == Frame(id, key, c, d)
  <2>1. id \in DOMAIN surf /\ surf[id].due < MaxFrames /\ surf[id] \in Shadows
    BY <1>0, <1>2 DEF AvcFrame, SurfacesOK
  <2>2. d \in AvcDecoders /\ (d.awaiting => d.queue = << >>)
    <3>1. CASE id \in DOMAIN decoders /\ decoders[id].size = Len(surf[id].cells)
      BY <1>0, <3>1 DEF Decoder, DecodersOK
    <3>2. CASE ~(id \in DOMAIN decoders /\ decoders[id].size = Len(surf[id].cells))
      <4>1. d = [size |-> Len(surf[id].cells), awaiting |-> TRUE, queue |-> << >>, fed |-> <<0, 0>>]
        BY <3>2 DEF Decoder
      <4>2. Len(surf[id].cells) \in Nat
        BY <2>1, RowIs, EgfxAssumption DEF Shadows
      <4>3. <<0, 0>> \in Marks /\ << >> \in Seq(Frames)
        BY EgfxAssumption DEF Marks
      <4> HIDE DEF d
      <4> QED
        BY <4>1, <4>2, <4>3 DEF AvcDecoders
    <3> QED
      BY <3>1, <3>2
  <2>3. f \in Frames
    <3>1. surf[id].inc \in 1 .. MaxCreates /\ surf[id].due + 1 \in 1 .. MaxFrames
      BY <2>1, EgfxAssumption DEF Shadows
    <3>2. (key \/ d.fed = <<surf[id].inc, surf[id].due>>) \in BOOLEAN
      OBVIOUS
    <3> HIDE DEF d
    <3> QED
      BY <3>1, <3>2 DEF Frame, Frames
  <2>4. decoders' = Put(decoders, id, Feed(d, f))
    BY <1>2 DEF AvcFrame
  <2> HIDE DEF d, f
  <2>5. Feed(d, f) \in AvcDecoders /\ (Feed(d, f).awaiting => Feed(d, f).queue = << >>)
    BY <2>2, <2>3, FeedType
  <2>6. /\ DOMAIN decoders' = DOMAIN decoders \cup {id} /\ decoders'[id] = Feed(d, f)
        /\ \A other \in DOMAIN decoders \ {id} : decoders'[other] = decoders[other]
    BY <2>4 DEF Put
  <2> QED
    BY <1>0, <2>5, <2>6 DEF DecodersOK
<1>3. ASSUME NEW id \in Ids, DecoderOutput(id) PROVE DecodersOK'
  <2>1. /\ id \in DOMAIN decoders /\ decoders[id].queue # << >>
        /\ decoders' = [decoders EXCEPT ![id].queue = Tail(@)]
    BY <1>3 DEF DecoderOutput
  <2>2. decoders[id] \in AvcDecoders /\ ~decoders[id].awaiting
    BY <1>0, <2>1 DEF DecodersOK
  <2>3. Tail(decoders[id].queue) \in Seq(Frames)
    BY <2>1, <2>2 DEF AvcDecoders
  <2>4. /\ DOMAIN decoders' = DOMAIN decoders
        /\ \A other \in DOMAIN decoders \ {id} : decoders'[other] = decoders[other]
        /\ decoders'[id] = [size |-> decoders[id].size, awaiting |-> decoders[id].awaiting,
                            queue |-> Tail(decoders[id].queue), fed |-> decoders[id].fed]
    BY <2>1, <2>2 DEF AvcDecoders
  <2>5. decoders'[id] \in AvcDecoders /\ ~decoders'[id].awaiting
    BY <2>2, <2>3, <2>4 DEF AvcDecoders
  <2> QED
    BY <1>0, <2>4, <2>5 DEF DecodersOK
<1>4. CASE UNCHANGED decoders
  BY <1>0, <1>4 DEF DecodersOK
<1>5. ASSUME NEW cleanup, NewSession(cleanup) PROVE DecodersOK'
  <2>1. decoders' = Empty \/ decoders' = decoders
    BY <1>5 DEF NewSession
  <2> QED
    BY <1>4, <2>1 DEF DecodersOK, Empty
<1>6. \A id, tile, x : Paint(id, tile, x) => UNCHANGED decoders
  BY DEF Paint, Draw
<1>7. \A id, l, r, to, x : SurfaceToSurface(id, l, r, to, x) => UNCHANGED decoders
  BY DEF SurfaceToSurface, Draw
<1>8. \A id, slot, x : CacheToSurface(slot, id, x) => UNCHANGED decoders
  BY DEF CacheToSurface, Draw
<1>9. \A resized : ResetGraphics(resized) \/ Reactivate(resized) => DecodersOK'
  BY <1>1, <1>4 DEF ResetGraphics, Reactivate
<1>10. \A id : DeleteSurface(id) \/ DecoderError(id) => DecodersOK'
  BY <1>1 DEF DeleteSurface, DecoderError
<1>11. \A id, size : CreateSurface(id, size) => UNCHANGED decoders
  BY DEF CreateSurface
<1>12. \A id, l, r, slot : SurfaceToCache(id, l, r, slot) => UNCHANGED decoders
  BY DEF SurfaceToCache
<1> QED
  BY <1>2, <1>3, <1>4, <1>5, <1>6, <1>7, <1>8, <1>9, <1>10, <1>11, <1>12
     DEF Next, vars, MapSurface, Evict, LegacyUpdate, HandleStored

LEMMA CachesStep == EgfxTyped /\ [Next]_vars => CachesOK'
<1> SUFFICES ASSUME EgfxTyped, [Next]_vars PROVE CachesOK'
  OBVIOUS
<1>0. SurfacesOK /\ CachesOK
  BY DEF EgfxTyped
<1>1. ASSUME NEW id, NEW l \in 1 .. Cells, NEW r \in 1 .. Cells, NEW slot \in Slots,
             SurfaceToCache(id, l, r, slot)
      PROVE  CachesOK'
  <2>1. id \in DOMAIN surf /\ l <= r /\ r <= Len(gfx[id].cells)
    BY <1>1 DEF SurfaceToCache, Usable
  <2>2. /\ surf[id].cells \in Rows /\ gfx[id].cells \in Rows
        /\ DOMAIN gfx[id].cells = DOMAIN surf[id].cells
    BY <1>0, <2>1 DEF SurfacesOK, Shadows, Surfaces
  <2>3. Len(surf[id].cells) = Len(gfx[id].cells)
    BY <2>2, RowIs
  <2>4. SubSeq(surf[id].cells, l, r) \in Rows /\ SubSeq(gfx[id].cells, l, r) \in Rows
    BY <2>1, <2>2, <2>3, PartRow
  <2>5. /\ saved' = Put(saved, slot, SubSeq(surf[id].cells, l, r))
        /\ cache' = Put(cache, slot, SubSeq(gfx[id].cells, l, r))
    BY <1>1 DEF SurfaceToCache
  <2> QED
    BY <1>0, <2>4, <2>5 DEF Put, CachesOK
<1>2. ASSUME NEW slot, Evict(slot) PROVE CachesOK'
  BY <1>0, <1>2 DEF Evict, Without, Restrict, CachesOK
<1>3. CASE UNCHANGED <<saved, cache>>
  BY <1>0, <1>3 DEF CachesOK
<1>4. CASE saved' = Empty /\ cache' = Empty
  BY <1>4 DEF CachesOK, Empty
<1>5. \A id, tile, x : Paint(id, tile, x) => UNCHANGED <<saved, cache>>
  BY DEF Paint, Draw
<1>6. \A id, l, r, to, x : SurfaceToSurface(id, l, r, to, x) => UNCHANGED <<saved, cache>>
  BY DEF SurfaceToSurface, Draw
<1>7. \A id, slot, x : CacheToSurface(slot, id, x) => UNCHANGED <<saved, cache>>
  BY DEF CacheToSurface, Draw
<1>8. \A resized : ResetGraphics(resized) => UNCHANGED <<saved, cache>>
  BY DEF ResetGraphics
<1>9. \A id, size : CreateSurface(id, size) => UNCHANGED <<saved, cache>>
  BY DEF CreateSurface
<1>10. \A id, key, c : AvcFrame(id, key, c) => UNCHANGED <<saved, cache>>
  BY DEF AvcFrame
<1>11. \A id : DeleteSurface(id) \/ DecoderOutput(id) \/ DecoderError(id) => UNCHANGED <<saved, cache>>
  BY DEF DeleteSurface, DecoderOutput, DecoderError, server
<1>12. \A id, x : MapSurface(id, x) => UNCHANGED <<saved, cache>>
  BY DEF MapSurface, server
<1>13. LegacyUpdate \/ HandleStored \/ UNCHANGED vars => UNCHANGED <<saved, cache>>
  BY DEF LegacyUpdate, HandleStored, server, vars
<1>14. \A b : Reactivate(b) \/ NewSession(b) => saved' = Empty /\ cache' = Empty
  BY DEF Reactivate, NewSession
<1> QED
  BY <1>1, <1>2, <1>3, <1>4, <1>5, <1>6, <1>7, <1>8, <1>9, <1>10, <1>11, <1>12, <1>13, <1>14 DEF Next

LEMMA CanvasStep == EgfxTyped /\ [Next]_vars => canvas' \in Canvases
<1> SUFFICES ASSUME EgfxTyped, [Next]_vars PROVE canvas' \in Canvases
  OBVIOUS
<1>0. SurfacesOK' /\ canvas \in Canvases
  BY SurfacesStep DEF EgfxTyped, DesktopOK
<1>1. ASSUME NEW id \in DOMAIN gfx', NEW dirty, dirty \subseteq DOMAIN gfx'[id].cells,
             canvas' = Blit(gfx'[id], dirty)
      PROVE  canvas' \in Canvases
  <2>1. gfx'[id].cells \in Rows
    BY <1>0, <1>1 DEF SurfacesOK, Surfaces
  <2> QED
    BY <1>0, <1>1, <2>1, BlitCanvas
<1>2. ASSUME NEW id \in DOMAIN gfx, NEW tile, NEW x, Draw(id, tile, x) PROVE canvas' \in Canvases
  <2>1. gfx' = [gfx EXCEPT ![id].cells = Stamp(@, tile, x)]
    BY <1>2 DEF Draw
  <2>2. id \in DOMAIN gfx' /\ gfx'[id] = [gfx[id] EXCEPT !.cells = Stamp(gfx[id].cells, tile, x)]
    BY <1>2, <2>1
  <2>3. gfx[id] \in Surfaces
    BY <1>2 DEF EgfxTyped, SurfacesOK
  <2>4. DOMAIN gfx'[id].cells = DOMAIN gfx[id].cells
    BY <2>2, <2>3 DEF Surfaces, Stamp
  <2>5. canvas' = Blit(gfx'[id], {c \in DOMAIN gfx[id].cells : c - x + 1 \in DOMAIN tile})
    BY <1>2 DEF Draw
  <2> QED
    BY <1>1, <2>2, <2>4, <2>5
<1>3. ASSUME NEW id, NEW x, MapSurface(id, x) PROVE canvas' \in Canvases
  <2>1. /\ id \in DOMAIN gfx
        /\ gfx' = [gfx EXCEPT ![id].origin = x, ![id].mapped = TRUE]
        /\ canvas' = Blit(gfx'[id], DOMAIN gfx[id].cells)
    BY <1>3 DEF MapSurface, Usable, EgfxTyped, SurfacesOK
  <2>2. gfx[id] \in Surfaces
    BY <2>1 DEF EgfxTyped, SurfacesOK
  <2>3. id \in DOMAIN gfx' /\ gfx'[id].cells = gfx[id].cells
    BY <2>1, <2>2 DEF Surfaces
  <2> QED
    BY <1>1, <2>1, <2>3
<1>4. ASSUME NEW id, DecoderOutput(id) PROVE canvas' \in Canvases
  <2>1. CASE ~Fits(id)
    BY <1>0, <1>4, <2>1 DEF DecoderOutput
  <2>2. CASE Fits(id)
    <3>1. /\ id \in DOMAIN gfx
          /\ gfx' = [gfx EXCEPT ![id] = Overwrite(@, Head(decoders[id].queue))]
          /\ canvas' = Blit(gfx'[id], DOMAIN gfx[id].cells)
      BY <1>4, <2>2 DEF DecoderOutput, Fits
    <3>2. gfx[id] \in Surfaces
      BY <3>1 DEF EgfxTyped, SurfacesOK
    <3>3. id \in DOMAIN gfx' /\ DOMAIN gfx'[id].cells = DOMAIN gfx[id].cells
      BY <3>1, <3>2 DEF Surfaces, Overwrite
    <3> QED
      BY <1>1, <3>1, <3>3
  <2> QED
    BY <2>1, <2>2
<1>5. CASE UNCHANGED canvas
  BY <1>0, <1>5
<1>6. CASE canvas' = Blank
  BY <1>6, BlackCanvas
<1>7. CASE canvas' = [c \in 1 .. Cells |-> Legacy]
  BY <1>7 DEF Canvases
<1>8. \A id : Usable(id) => id \in DOMAIN gfx
  BY DEF Usable, EgfxTyped, SurfacesOK
<1>9. \A id, tile, x : Paint(id, tile, x) => canvas' \in Canvases
  BY <1>2, <1>8 DEF Paint
<1>10. \A id, l, r, to, x : SurfaceToSurface(id, l, r, to, x) => canvas' \in Canvases
  BY <1>2, <1>8 DEF SurfaceToSurface
<1>11. \A id, slot, x : CacheToSurface(slot, id, x) => canvas' \in Canvases
  BY <1>2, <1>8 DEF CacheToSurface
<1>12. \A resized : ResetGraphics(resized) \/ Reactivate(resized) => canvas' \in {canvas, Blank}
  BY DEF ResetGraphics, Reactivate
<1>13. LegacyUpdate => canvas' \in {canvas, [c \in 1 .. Cells |-> Legacy]}
  BY DEF LegacyUpdate
<1>14. \A cleanup : NewSession(cleanup) => canvas' = Blank
  BY DEF NewSession
<1> QED
  BY <1>3, <1>4, <1>5, <1>6, <1>7, <1>9, <1>10, <1>11, <1>12, <1>13, <1>14
     DEF Next, vars, CreateSurface, DeleteSurface, SurfaceToCache, AvcFrame, DecoderError, Evict, HandleStored

LEMMA FlagsTyped ==
  ASSUME EgfxTyped, [Next]_vars
  PROVE  /\ creates' \in 0 .. MaxCreates
         /\ egfxActive' \in BOOLEAN /\ stored' \in BOOLEAN /\ legacy' \in BOOLEAN
<1> DEFINE flags == <<creates, egfxActive, stored, legacy>>
           Set == /\ creates' \in 0 .. MaxCreates
                  /\ egfxActive' \in BOOLEAN /\ stored' \in BOOLEAN /\ legacy' \in BOOLEAN
<1>0. /\ creates \in 0 .. MaxCreates
      /\ egfxActive \in BOOLEAN /\ stored \in BOOLEAN /\ legacy \in BOOLEAN
  BY DEF EgfxTyped, DesktopOK
<1>1. UNCHANGED flags => Set
  BY <1>0
<1>2. \A id, tile, x : Paint(id, tile, x) => UNCHANGED flags
  BY DEF Paint, Draw
<1>3. \A id, l, r, to, x : SurfaceToSurface(id, l, r, to, x) => UNCHANGED flags
  BY DEF SurfaceToSurface, Draw
<1>4. \A id, slot, x : CacheToSurface(slot, id, x) => UNCHANGED flags
  BY DEF CacheToSurface, Draw
<1>5. \A resized : ResetGraphics(resized) \/ Reactivate(resized) => Set
  BY <1>0 DEF ResetGraphics, Reactivate
<1>6. \A id, size : CreateSurface(id, size) => Set
  <2> SUFFICES ASSUME NEW id, NEW size, CreateSurface(id, size) PROVE Set
    OBVIOUS
  <2>1. creates' = creates + 1 /\ creates < MaxCreates
    BY DEF CreateSurface
  <2>2. legacy' = FALSE /\ egfxActive' = TRUE /\ stored' = stored
    BY DEF CreateSurface
  <2>3. creates' \in 0 .. MaxCreates
    BY <1>0, <2>1, EgfxAssumption
  <2> QED
    BY <1>0, <2>2, <2>3
<1>7. \A id : DeleteSurface(id) => Set
  BY <1>0 DEF DeleteSurface
<1>8. \A id, key, c : AvcFrame(id, key, c) => UNCHANGED flags
  BY DEF AvcFrame
<1>9. \A id : DecoderOutput(id) \/ DecoderError(id) => UNCHANGED flags
  BY DEF DecoderOutput, DecoderError, server
<1>10. \A id, x : MapSurface(id, x) => UNCHANGED flags
  BY DEF MapSurface, server
<1>11. \A id, l, r, slot : SurfaceToCache(id, l, r, slot) => UNCHANGED flags
  BY DEF SurfaceToCache
<1>12. LegacyUpdate \/ HandleStored \/ (\E b : NewSession(b)) => Set
  BY <1>0 DEF LegacyUpdate, HandleStored, NewSession, server
<1>13. (\E slot : Evict(slot)) \/ UNCHANGED vars => UNCHANGED flags
  BY DEF Evict, vars
<1> HIDE DEF flags, Set
<1>14. Set
  BY <1>1, <1>2, <1>3, <1>4, <1>5, <1>6, <1>7, <1>8, <1>9, <1>10, <1>11, <1>12, <1>13 DEF Next
<1> QED
  BY <1>14 DEF Set

\* The variables keep their types, for surfaces of every size, whether or not other messages
\* are mixed with video and decoders outlive their session: what is drawn stays within its
\* surface, and a mapped surface within the desktop.
THEOREM EgfxTypeCorrect == Spec => []TypeOK
<1>1. Init => EgfxTyped
  <2> SUFFICES ASSUME Init PROVE EgfxTyped
    OBVIOUS
  <2>1. SurfacesOK /\ DecodersOK /\ CachesOK
    BY DEF Init, Empty, SurfacesOK, DecodersOK, CachesOK
  <2>2. 0 \in 0 .. MaxCreates
    BY EgfxAssumption
  <2>3. DesktopOK
    BY <2>2, BlackCanvas DEF Init, DesktopOK
  <2> QED
    BY <2>1, <2>3 DEF EgfxTyped
<1>2. EgfxTyped /\ [Next]_vars => EgfxTyped'
  BY SurfacesStep, DecodersStep, CachesStep, CanvasStep, FlagsTyped DEF EgfxTyped, DesktopOK
<1>3. EgfxTyped => TypeOK
  BY DEF EgfxTyped, SurfacesOK, DecodersOK, CachesOK, DesktopOK, TypeOK, Shadows, Surfaces,
         AvcDecoders, Canvases
<1> QED
  BY <1>1, <1>2, <1>3, PTL DEF Spec

-----------------------------------------------------------------------------
(***************************************************************************)
(* The size of the desktop.                                                *)
(***************************************************************************)
\* The widths asked for at connect and by sendResize are naturals.
LEMMA TargetType ==
  ASSUME NEW v \in Widths
  PROVE  v \in Nat /\ v * Dpr \in Nat /\ Target(v) \in Nat
<1>1. v \in Nat
  BY ResizeAssumption
<1>2. v * Dpr \in Nat
  <2>1. CASE Dpr = 1
    BY <1>1, <2>1
  <2>2. CASE Dpr = 2
    BY <1>1, <2>2
  <2>3. QED
    BY <2>1, <2>2, ResizeAssumption
<1>3. Clamp(v * Dpr) \in Nat
  BY <1>2 DEF Clamp
<1>4. \A w \in Nat : w - (w % 2) \in Nat
  OBVIOUS
<1>5. QED
  BY <1>1, <1>2, <1>3, <1>4 DEF Target

LEMMA InitType == ResizeInit => ResizeTypeOK
<1> SUFFICES ASSUME ResizeInit PROVE ResizeTypeOK
  OBVIOUS
<1>1. SizesOK
  BY DEF ResizeInit, SizesOK, Null
<1>2. FlagsOK
  BY DEF ResizeInit, FlagsOK, Statuses
<1>3. TimersOK
  BY DEF ResizeInit, TimersOK
<1>4. QED
  BY <1>1, <1>2, <1>3 DEF ResizeTypeOK

LEMMA SizesStep == ResizeTypeOK /\ [ResizeNext]_resizeVars => SizesOK'
<1> SUFFICES ASSUME SizesOK, [ResizeNext]_resizeVars PROVE SizesOK'
  BY DEF ResizeTypeOK
<1> USE DEF SizesOK
<1>1. Target(viewport) \in Nat /\ viewport \in Nat /\ viewport * Dpr \in Nat
  BY TargetType
<1>0. ASSUME requests' = requests \/ requests' = << >> PROVE requests' \in Seq(Nat)
  <2>1. << >> \in Seq(Nat)
    OBVIOUS
  <2>2. QED
    BY <1>0, <2>1
<1>2. ASSUME NEW ready, NEW st, SendResize(ready, st), UNCHANGED <<viewport, asked, negotiated>>
      PROVE  SizesOK'
  <2>1. desired' = desired \/ desired' = Target(viewport)
    BY <1>2 DEF SendResize
  <2>2. requests' = requests \/ requests' = Append(requests, Target(viewport))
    BY <1>2 DEF SendResize
  <2>3. desired' \in Nat
    BY <1>1, <2>1
  <2>4. \A w \in Nat : Append(requests, w) \in Seq(Nat)
    OBVIOUS
  <2>5. requests' \in Seq(Nat)
    BY <1>1, <2>2, <2>4
  <2>6. QED
    BY <1>2, <2>3, <2>5
<1>3. ASSUME DebounceTimer PROVE SizesOK'
  BY <1>2, <1>3 DEF DebounceTimer
<1>4. ASSUME DisplayControlReady PROVE SizesOK'
  BY <1>2, <1>4 DEF DisplayControlReady
<1>5. ASSUME ServerApplies \/ ServerIgnores PROVE SizesOK'
  <2>1. Head(requests) \in Nat /\ Tail(requests) \in Seq(Nat)
    BY <1>5 DEF ServerApplies, ServerIgnores
  <2>2. QED
    BY <1>5, <2>1 DEF ServerApplies, ServerIgnores, DesktopResized
<1>6. ASSUME Connect \/ Redirect PROVE SizesOK'
  <2>1. asked' = viewport * Dpr \/ asked' = viewport
    BY <1>6 DEF Connect, Redirect
  <2>2. asked' \in Nat
    BY <1>1, <2>1
  <2>3. requests' = requests \/ requests' = << >>
    BY <1>6 DEF Connect, Redirect, Drop
  <2>4. UNCHANGED <<viewport, negotiated, desired>>
    BY <1>6 DEF Connect, Redirect
  <2>5. requests' \in Seq(Nat)
    BY <1>0, <2>3
  <2>6. QED
    BY <2>2, <2>4, <2>5
<1>7. ASSUME NEW v \in Widths, ViewportChanged(v) PROVE SizesOK'
  BY <1>7 DEF ViewportChanged
<1>8. CASE UNCHANGED <<viewport, asked, negotiated, desired, requests>>
  BY <1>8
<1>9. ASSUME Connected \/ CleanupSession \/ Lost PROVE SizesOK'
  <2>1. requests' = requests \/ requests' = << >>
    BY <1>9 DEF Connected, Lost, CleanupSession, Drop
  <2>2. requests' \in Seq(Nat)
    BY <1>0, <2>1
  <2>3. UNCHANGED <<viewport, asked>>
    BY <1>9 DEF Connected, Lost, CleanupSession
  <2>4. negotiated' \in Nat /\ desired' \in Nat
    BY <1>9 DEF Connected, Lost, CleanupSession, Null
  <2>5. QED
    BY <2>2, <2>3, <2>4
<1>10. ASSUME WatchdogFires \/ ServerResetsGraphics \/ ConnectFails PROVE SizesOK'
  BY <1>8, <1>10 DEF WatchdogFires, ServerResetsGraphics, DesktopResized, ConnectFails
<1>11. CASE UNCHANGED resizeVars
  BY <1>8, <1>11 DEF resizeVars
<1>12. QED
  BY <1>3, <1>4, <1>5, <1>6, <1>7, <1>9, <1>10, <1>11 DEF ResizeNext

LEMMA FlagsStep == ResizeTypeOK /\ [ResizeNext]_resizeVars => FlagsOK'
<1> SUFFICES ASSUME FlagsOK, [ResizeNext]_resizeVars PROVE FlagsOK'
  BY DEF ResizeTypeOK
<1> USE DEF FlagsOK, Statuses
<1>1. ASSUME NEW ready, NEW st \in Statuses, SendResize(ready, st)
      PROVE  /\ watchdog' \in BOOLEAN
             /\ status' \in Statuses
             /\ ignored' \in BOOLEAN
  BY <1>1 DEF SendResize
<1>2. ASSUME DebounceTimer PROVE FlagsOK'
  BY <1>1, <1>2 DEF DebounceTimer
<1>3. ASSUME DisplayControlReady PROVE FlagsOK'
  BY <1>1, <1>3 DEF DisplayControlReady
<1>4. ASSUME ServerApplies \/ ServerIgnores \/ ServerResetsGraphics \/ WatchdogFires
      PROVE  FlagsOK'
  BY <1>4 DEF ServerApplies, ServerIgnores, ServerResetsGraphics, DesktopResized, WatchdogFires
<1>5. ASSUME Connect \/ Redirect \/ Connected \/ ConnectFails \/ Lost \/ CleanupSession
      PROVE  FlagsOK'
  BY <1>5 DEF Connect, Redirect, Connected, ConnectFails, Lost, CleanupSession, Drop
<1>6. CASE UNCHANGED <<link, dispReady, watchdog, status, channel, ignored>>
  BY <1>6
<1>7. QED
  BY <1>2, <1>3, <1>4, <1>5, <1>6 DEF ResizeNext, resizeVars, ViewportChanged

LEMMA TimersStep == ResizeTypeOK /\ [ResizeNext]_resizeVars => TimersOK'
<1> SUFFICES ASSUME TimersOK, [ResizeNext]_resizeVars PROVE TimersOK'
  BY DEF ResizeTypeOK
<1> USE DEF TimersOK, timerVars
<1>1. ASSUME NEW v \in Widths, ViewportChanged(v) PROVE TimersOK'
  <2>1. CASE UNCHANGED timerVars
    BY <2>1
  <2>2. CASE resizeTimer' = TRUE /\ resizeTimers' = IF resizeTimer THEN resizeTimers ELSE resizeTimers + 1
    <3>1. CASE resizeTimer /\ resizeTimers' = resizeTimers
      BY <2>2, <3>1
    <3>2. CASE resizeTimers' = resizeTimers + 1
      <4>1. resizeTimers' \in Nat /\ resizeTimers' > 0
        BY <3>2
      <4>2. QED
        BY <2>2, <4>1
    <3>3. QED
      BY <2>2, <3>1, <3>2
  <2>3. QED
    BY <1>1, <2>1, <2>2 DEF ViewportChanged
<1>2. ASSUME DebounceTimer PROVE TimersOK'
  <2>1. resizeTimers' \in Nat
    BY <1>2 DEF DebounceTimer
  <2>2. resizeTimer' = FALSE
    BY <1>2 DEF DebounceTimer, SendResize
  <2>3. QED
    BY <2>1, <2>2
<1>3. ASSUME DisplayControlReady PROVE TimersOK'
  <2>1. resizeTimers' = resizeTimers
    BY <1>3 DEF DisplayControlReady
  <2>2. CASE resizeTimer' = FALSE
    BY <2>1, <2>2
  <2>3. CASE UNCHANGED timerVars
    BY <2>3
  <2>4. QED
    BY <1>3, <2>2, <2>3 DEF DisplayControlReady, SendResize
<1>4. ASSUME CleanupSession PROVE TimersOK'
  <2>1. resizeTimers' \in Nat
    BY <1>4 DEF CleanupSession, ClearResizeTimer
  <2>2. resizeTimer' = FALSE
    BY <1>4 DEF CleanupSession, ClearResizeTimer
  <2>3. QED
    BY <2>1, <2>2
<1>5. CASE UNCHANGED timerVars
  BY <1>5
<1>6. QED
  BY <1>1, <1>2, <1>3, <1>4, <1>5
     DEF ResizeNext, resizeVars, WatchdogFires, ServerApplies, ServerResetsGraphics, ServerIgnores,
         Connect, Redirect, Connected, ConnectFails, Lost

\* Every reachable state is well typed, and the handle resizeTimer names only a
\* timer that is armed.
THEOREM ResizeTypeCorrect == ResizeSpec => []ResizeTypeOK
<1>1. ResizeTypeOK /\ [ResizeNext]_resizeVars => ResizeTypeOK'
  BY SizesStep, FlagsStep, TimersStep DEF ResizeTypeOK
<1>2. QED
  BY <1>1, InitType, PTL DEF ResizeSpec

-----------------------------------------------------------------------------
(***************************************************************************)
(* NeverDropped needs to know when app.js may believe that the channel is  *)
(* open: only while a session is up does dispReady mean that it is.        *)
(***************************************************************************)
ReadyIsOpen ==
  /\ link = "up" => (dispReady <=> channel)
  /\ link # "up" => requests = << >> /\ ~channel

LEMMA ReadyIsOpenStep ==
  ResizeTypeOK /\ ReadyIsOpen /\ NeverDropped /\ [ResizeNext]_resizeVars => (ReadyIsOpen /\ NeverDropped)'
<1> SUFFICES ASSUME ResizeTypeOK, ReadyIsOpen, NeverDropped, [ResizeNext]_resizeVars
             PROVE  (ReadyIsOpen /\ NeverDropped)'
  OBVIOUS
<1> USE DEF ReadyIsOpen, NeverDropped, ResizeTypeOK
<1>1. ASSUME DebounceTimer PROVE (ReadyIsOpen /\ NeverDropped)'
  BY <1>1 DEF DebounceTimer, SendResize
<1>2. ASSUME DisplayControlReady PROVE (ReadyIsOpen /\ NeverDropped)'
  BY <1>2 DEF DisplayControlReady, SendResize
<1>3. ASSUME ServerApplies \/ ServerIgnores PROVE (ReadyIsOpen /\ NeverDropped)'
  BY <1>3 DEF ServerApplies, ServerIgnores
<1>4. ASSUME Connected PROVE (ReadyIsOpen /\ NeverDropped)'
  BY <1>4 DEF Connected
<1>5. ASSUME Connect \/ Redirect \/ ConnectFails \/ Lost PROVE (ReadyIsOpen /\ NeverDropped)'
  BY <1>5 DEF Connect, Redirect, ConnectFails, Lost, Drop
<1>6. ASSUME CleanupSession PROVE (ReadyIsOpen /\ NeverDropped)'
  BY <1>6 DEF CleanupSession, Drop
<1>7. CASE UNCHANGED <<link, dispReady, channel, requests>>
  BY <1>7
<1>8. QED
  BY <1>1, <1>2, <1>3, <1>4, <1>5, <1>6, <1>7
     DEF ResizeNext, resizeVars, ViewportChanged, WatchdogFires, ServerResetsGraphics

\* A layout is sent only over the open channel of the session that is up, whatever
\* earlier sessions left in dispReady and whichever timers they left armed.
THEOREM NeverDroppedAlways == ResizeSpec => []NeverDropped
<1>1. ResizeInit => ReadyIsOpen /\ NeverDropped
  BY DEF ResizeInit, ReadyIsOpen, NeverDropped
<1>2. QED
  BY <1>1, ReadyIsOpenStep, ResizeTypeCorrect, PTL DEF ResizeSpec

\* "Requesting" in the HUD always has an armed watchdog behind it.
THEOREM RequestAlwaysWatched == ResizeSpec => []RequestWatched
<1>1. ResizeInit => RequestWatched
  BY DEF ResizeInit, RequestWatched
<1>2. RequestWatched /\ [ResizeNext]_resizeVars => RequestWatched'
  <2> SUFFICES ASSUME RequestWatched, [ResizeNext]_resizeVars PROVE RequestWatched'
    OBVIOUS
  <2> USE DEF RequestWatched
  <2>1. CASE UNCHANGED <<status, watchdog>>
    BY <2>1
  <2>2. CASE status' \in {"--", "Negotiating", "Ready", "Waiting", "OK", "Ignored"}
    BY <2>2
  <2>3. ASSUME DebounceTimer PROVE RequestWatched'
    BY <2>3 DEF DebounceTimer, SendResize
  <2>4. ASSUME DisplayControlReady PROVE RequestWatched'
    BY <2>4 DEF DisplayControlReady, SendResize
  <2>5. QED
    BY <2>1, <2>2, <2>3, <2>4
       DEF ResizeNext, resizeVars, ViewportChanged, WatchdogFires, ServerApplies, ServerResetsGraphics,
           DesktopResized, ServerIgnores, Connect, Redirect, Connected, ConnectFails, Lost,
           CleanupSession
<1>3. QED
  BY <1>1, <1>2, PTL DEF ResizeSpec

-----------------------------------------------------------------------------
(***************************************************************************)
(* DesktopFollowsViewport holds when the viewport rests while a connect or *)
(* a layout is unanswered, and without High-DPI.  The inductive invariant  *)
(* says what is under way while the desktop has another size than the      *)
(* viewport, and that it is under way for the size the viewport has now.   *)
(***************************************************************************)
InSync == negotiated \in {viewport * Dpr, Target(viewport)}

\* All the elements of q are w.
Only(q, w) == \A i \in 1 .. Len(q) : q[i] = w

\* What is asked of the server is what the viewport needs.
AsksAsNeeded ==
  /\ link = "connecting" => asked = viewport * Dpr
  /\ link = "up" => negotiated # Null
  /\ Only(requests, Target(viewport))

\* A desktop of another size has something under way that will correct it.
Corrected ==
  link = "up" => \/ InSync
                 \/ resizeTimers > 0
                 \/ requests # << >>
                 \/ ignored
                 \/ ~dispReady /\ desired = Target(viewport)

LEMMA OnlyAppend ==
  ASSUME NEW q \in Seq(Nat), NEW w \in Nat, Only(q, w)
  PROVE  Append(q, w) # << >> /\ Only(Append(q, w), w)
<1>1. /\ Len(Append(q, w)) = Len(q) + 1
      /\ \A i \in 1 .. Len(q) : Append(q, w)[i] = q[i]
      /\ Append(q, w)[Len(q) + 1] = w
  OBVIOUS
<1>2. Len(q) \in Nat /\ Len(<< >>) = 0
  OBVIOUS
<1>3. Append(q, w) # << >>
  BY <1>1, <1>2
<1>4. QED
  BY <1>1, <1>2, <1>3 DEF Only

LEMMA OnlyTail ==
  ASSUME NEW q \in Seq(Nat), NEW w \in Nat, Only(q, w), q # << >>
  PROVE  Head(q) = w /\ Only(Tail(q), w)
  BY DEF Only

\* The sizes are positive, so that none of them is Null.
LEMMA Positive ==
  ASSUME NEW v \in Widths
  PROVE  v * Dpr # Null /\ Target(v) # Null
<1>1. v \in Nat /\ v > 0
  <2>1. v \in Nat /\ v # 0
    BY ResizeAssumption
  <2>2. QED
    BY <2>1
<1>2. v * Dpr \in Nat /\ v * Dpr > 0
  <2>1. CASE Dpr = 1
    BY <1>1, <2>1
  <2>2. CASE Dpr = 2
    BY <1>1, <2>2
  <2>3. QED
    BY <2>1, <2>2, ResizeAssumption
<1>3. Clamp(v * Dpr) \in Nat /\ Clamp(v * Dpr) >= 200
  BY <1>2 DEF Clamp
<1>4. \A w \in Nat : w >= 200 => w - (w % 2) > 0
  OBVIOUS
<1>5. QED
  BY <1>2, <1>3, <1>4 DEF Target, Null

LEMMA AsksAsNeededStep ==
  ASSUME Moves = {}, Dpr = 1
  PROVE  ResizeTypeOK /\ ReadyIsOpen /\ NeverDropped /\ AsksAsNeeded /\ [ResizeNext]_resizeVars => AsksAsNeeded'
<1> SUFFICES ASSUME SizesOK, ReadyIsOpen, NeverDropped, AsksAsNeeded, [ResizeNext]_resizeVars PROVE AsksAsNeeded'
  BY DEF ResizeTypeOK
<1>1. /\ viewport \in Widths /\ viewport \in Nat /\ Target(viewport) \in Nat
      /\ viewport * Dpr # Null /\ Target(viewport) # Null
  BY TargetType, Positive DEF SizesOK
<1>2. requests \in Seq(Nat)
  BY DEF SizesOK
<1>3. \A w : Only(<< >>, w)
  BY DEF Only
<1>4. ASSUME NEW ready, NEW st, SendResize(ready, st),
             UNCHANGED <<viewport, link, asked, negotiated>>
      PROVE  AsksAsNeeded'
  <2>1. requests' = requests \/ requests' = Append(requests, Target(viewport))
    BY <1>4 DEF SendResize
  <2>2. Only(requests', Target(viewport))
    BY <1>1, <1>2, <2>1, OnlyAppend DEF AsksAsNeeded
  <2>3. QED
    BY <1>4, <2>2 DEF AsksAsNeeded
<1>5. ASSUME DebounceTimer PROVE AsksAsNeeded'
  BY <1>4, <1>5 DEF DebounceTimer
<1>6. ASSUME DisplayControlReady PROVE AsksAsNeeded'
  <2>1. CASE UNCHANGED <<viewport, link, asked, negotiated, requests>>
    BY <2>1 DEF AsksAsNeeded
  <2>2. QED
    BY <1>4, <1>6, <2>1 DEF DisplayControlReady
<1>7. ASSUME NEW v \in Widths, ViewportChanged(v) PROVE AsksAsNeeded'
  BY <1>3, <1>7 DEF ViewportChanged, AsksAsNeeded
<1>8. ASSUME ServerApplies \/ ServerIgnores PROVE AsksAsNeeded'
  <2>1. Head(requests) = Target(viewport) /\ Only(Tail(requests), Target(viewport))
    BY <1>1, <1>2, <1>8, OnlyTail DEF AsksAsNeeded, ServerApplies, ServerIgnores
  <2>2. QED
    BY <1>1, <1>8, <2>1 DEF AsksAsNeeded, ServerApplies, ServerIgnores, DesktopResized
<1>9. ASSUME ServerResetsGraphics PROVE AsksAsNeeded'
  BY <1>9 DEF ServerResetsGraphics, DesktopResized, AsksAsNeeded
<1>10. ASSUME Connect \/ Redirect PROVE AsksAsNeeded'
  <2>1. viewport * Dpr = viewport
    BY <1>1
  <2>2. asked' = viewport * Dpr
    BY <1>10, <2>1 DEF Connect, Redirect
  <2>3. QED
    BY <1>3, <1>10, <2>2 DEF Connect, Redirect, Drop, AsksAsNeeded
<1>11. ASSUME Connected PROVE AsksAsNeeded'
  BY <1>1, <1>11 DEF Connected, AsksAsNeeded
<1>12. ASSUME ConnectFails \/ Lost \/ CleanupSession PROVE AsksAsNeeded'
  BY <1>3, <1>12 DEF ConnectFails, Lost, CleanupSession, Drop, AsksAsNeeded
<1>13. CASE UNCHANGED <<viewport, link, asked, negotiated, requests>>
  BY <1>13 DEF AsksAsNeeded
<1>14. QED
  BY <1>5, <1>6, <1>7, <1>8, <1>9, <1>10, <1>11, <1>12, <1>13
     DEF ResizeNext, resizeVars, WatchdogFires

LEMMA CorrectedStep ==
  ResizeTypeOK /\ ReadyIsOpen /\ AsksAsNeeded /\ Corrected /\ [ResizeNext]_resizeVars => Corrected'
<1> SUFFICES ASSUME ResizeTypeOK, ReadyIsOpen, AsksAsNeeded, Corrected, [ResizeNext]_resizeVars PROVE Corrected'
  OBVIOUS
<1>1. /\ viewport \in Widths /\ Target(viewport) \in Nat /\ Target(viewport) # Null
      /\ requests \in Seq(Nat) /\ resizeTimers \in Nat
  BY TargetType, Positive DEF ResizeTypeOK, SizesOK, TimersOK
<1>2. ASSUME NEW st, SendResize(dispReady', st), UNCHANGED <<viewport, link, negotiated>>
      PROVE  Corrected'
  <2>1. CASE link # "up" \/ negotiated = Target(viewport)
    BY <1>2, <2>1 DEF Corrected, InSync
  <2>2. CASE ~dispReady' /\ desired' = Target(viewport)
    BY <1>2, <2>2 DEF Corrected
  <2>3. CASE requests' = Append(requests, Target(viewport))
    <3>1. requests' # << >>
      BY <1>1, <2>3
    <3>2. QED
      BY <3>1 DEF Corrected
  <2>4. QED
    BY <1>2, <2>1, <2>2, <2>3 DEF SendResize
<1>3. ASSUME DebounceTimer PROVE Corrected'
  <2>1. SendResize(dispReady', status)
    BY <1>3 DEF DebounceTimer
  <2>2. QED
    BY <1>2, <1>3, <2>1 DEF DebounceTimer
<1>4. ASSUME DisplayControlReady PROVE Corrected'
  <2>1. /\ dispReady' = TRUE /\ link = "up" /\ ~dispReady
        /\ UNCHANGED <<viewport, link, negotiated>>
    BY <1>4 DEF DisplayControlReady, ReadyIsOpen
  <2>2. CASE SendResize(TRUE, "Ready")
    BY <1>2, <2>1, <2>2
  <2>3. CASE /\ ~(desired # Null /\ negotiated # Null /\ desired # negotiated)
             /\ UNCHANGED <<desired, timerVars, watchdog, requests, ignored>>
    <3>1. desired = Target(viewport) => InSync
      BY <1>1, <2>1, <2>3 DEF AsksAsNeeded, InSync
    <3>2. QED
      BY <2>1, <2>3, <3>1 DEF Corrected, InSync, timerVars
  <2>4. QED
    BY <1>4, <2>2, <2>3 DEF DisplayControlReady
<1>5. ASSUME NEW v \in Widths, ViewportChanged(v) PROVE Corrected'
  <2>1. link' = "up" => resizeTimers' > 0
    <3>1. resizeTimer => resizeTimers > 0
      BY DEF ResizeTypeOK, TimersOK
    <3>2. ASSUME link' = "up" PROVE resizeTimers' = resizeTimers + 1 \/ resizeTimers' > 0
      BY <1>5, <3>1, <3>2 DEF ViewportChanged
    <3>3. QED
      BY <1>1, <3>2
  <2>2. QED
    BY <2>1 DEF Corrected
<1>6. ASSUME ServerApplies PROVE Corrected'
  <2>1. Head(requests) = Target(viewport)
    BY <1>1, <1>6, OnlyTail DEF AsksAsNeeded, ServerApplies
  <2>2. QED
    BY <1>6, <2>1 DEF ServerApplies, DesktopResized, Corrected, InSync
<1>7. ASSUME ServerIgnores PROVE Corrected'
  BY <1>7 DEF ServerIgnores, Corrected
<1>8. ASSUME Connected PROVE Corrected'
  BY <1>8 DEF Connected, Corrected, AsksAsNeeded, InSync
<1>9. ASSUME Connect \/ Redirect \/ ConnectFails \/ Lost \/ CleanupSession PROVE Corrected'
  BY <1>9 DEF Connect, Redirect, ConnectFails, Lost, CleanupSession, Corrected
<1>10. CASE UNCHANGED <<viewport, link, negotiated, desired, dispReady, resizeTimers, requests,
                        ignored>>
  BY <1>10 DEF Corrected, InSync
<1>11. QED
  BY <1>3, <1>4, <1>5, <1>6, <1>7, <1>8, <1>9, <1>10
     DEF ResizeNext, resizeVars, timerVars, WatchdogFires, ServerResetsGraphics, DesktopResized

\* For all viewport widths: when the viewport rests while a connect or a layout is
\* unanswered, the desktop ends up with its size, through deferrals until the
\* channel is open, superseded debounce timers, reconnects and redirects.
THEOREM FollowsRestingViewport ==
  ASSUME Moves = {}, Dpr = 1
  PROVE  ResizeSpec => []DesktopFollowsViewport
<1>1. ResizeInit => AsksAsNeeded /\ Corrected
  BY DEF ResizeInit, AsksAsNeeded, Corrected, Only
<1>2. ResizeInit => ReadyIsOpen /\ NeverDropped
  BY DEF ResizeInit, ReadyIsOpen, NeverDropped
<1>3. ResizeTypeOK /\ ReadyIsOpen /\ NeverDropped /\ AsksAsNeeded /\ [ResizeNext]_resizeVars => AsksAsNeeded'
  BY AsksAsNeededStep
<1>4. ResizeTypeOK /\ Corrected => DesktopFollowsViewport
  BY DEF ResizeTypeOK, Corrected, DesktopFollowsViewport, InSync
<1>5. QED
  BY <1>1, <1>2, <1>3, <1>4, ResizeTypeCorrect, CorrectedStep, ReadyIsOpenStep, PTL DEF ResizeSpec
=============================================================================
