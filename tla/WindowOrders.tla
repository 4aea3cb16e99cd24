---------------------------- MODULE WindowOrders ----------------------------
(***************************************************************************)
(* The parser of RAIL window orders, crates/ironrdp-rail/src/window.rs,    *)
(* and the encoding it reads ([MS-RDPERP] 2.2.1.3): an update is a number  *)
(* of orders, one after the other, of which only window orders say how     *)
(* long they are.                                                          *)
(*                                                                         *)
(* A payload is known by the fields that start at each of its places:      *)
(* what is read anywhere else, or with another size, is Garbage.           *)
(***************************************************************************)
EXTENDS Integers, Sequences, SequencesExt

\* Not a number that any field says.
Garbage == -1000
NoValue == -1001

\* Order types, and values of showState.
ORDER_TYPE_WINDOW       == 11
ORDER_TYPE_FRAME_MARKER == 13
SW_HIDE          == 0
SW_SHOWNORMAL    == 1
SW_SHOWMINIMIZED == 2

\* What an order can be.  A window order has the fields `has' (a set of names), of which
\* `value' gives those that matter here.
WindowOrder(id, new, has, value) ==
  [kind |-> "window", id |-> id, new |-> new, has |-> has, value |-> value]
DeleteOrder(id) == [kind |-> "deleted", id |-> id]
IconOrder(id)   == [kind |-> "icon", id |-> id]
CachedIconOrder(id) == [kind |-> "cached", id |-> id]
NotifyOrder(id) == [kind |-> "notify", id |-> id]
ActiveOrder(id) == [kind |-> "desktop", id |-> id]
FrameMarker     == [kind |-> "marker"]
OtherOrder      == [kind |-> "other"]

\* f with v at k.
With(f, k, v) == [j \in DOMAIN f \cup {k} |-> IF j = k THEN v ELSE f[j]]

\* The folds of this module, as recursive functions: update after update is parsed.
Folded(Op(_, _), base, seq) ==
  LET f[k \in 0..Len(seq)] == IF k = 0 THEN base ELSE Op(f[k - 1], seq[k])
  IN  f[Len(seq)]
Joined(seqs) == Folded(LAMBDA s, t : s \o t, << >>, seqs)

-----------------------------------------------------------------------------
\* The encoding.  TS_WINDOW_INFO has its fields in this order ([MS-RDPERP] 2.2.1.3.1.2.1),
\* the overlay and the taskbar fields of newer hosts last.
WireFields == <<"owner", "style", "show", "title", "clientOffset", "clientSize", "marginX",
                "marginY", "content", "rootParent", "offset", "delta", "size", "rects",
                "visibleOffset", "visibility", "overlay">>

Field(n, value) == <<[n |-> n, value |-> value]>>

Size(fields) == Folded(LAMBDA sum, f : sum + f.n, 0, fields)

\* x and width stand for both coordinates and both extents.
FieldsOf(name, o) ==
  CASE name = "show"   -> Field(1, o.value.show)
    [] name = "title"  -> Field(2, 4) \o Field(4, 0)
    [] name = "offset" -> Field(4, o.value.x) \o Field(4, 0)
    [] name = "size"   -> Field(4, o.value.w) \o Field(4, 1)
    [] name = "rects"  -> Field(2, 1) \o Field(8, 0)
    [] name = "visibility" -> Field(2, o.value.rects) \o Field(8 * o.value.rects, 0)
    [] name \in {"owner", "rootParent"} -> Field(4, 0)
    [] name = "content" -> Field(1, 0)
    [] name = "overlay" -> Field(3, 0)
    [] OTHER            -> Field(8, 0)

Body(o) ==
  Field(4, o.id) \o
  CASE o.kind = "window" ->
         Joined([k \in DOMAIN WireFields |->
                   IF WireFields[k] \in o.has THEN FieldsOf(WireFields[k], o) ELSE << >>])
    [] o.kind = "icon" -> Field(6, 0)
    [] OTHER           -> << >>

Encoded(o) ==
  CASE o.kind = "marker" -> Field(1, ORDER_TYPE_FRAME_MARKER) \o Field(4, 0)
    [] o.kind = "other"        -> Field(1, 0) \o Field(2, 0)
    [] OTHER -> Field(1, ORDER_TYPE_WINDOW) \o Field(2, 7 + Size(Body(o))) \o Field(4, o) \o Body(o)

\* Field after field, each at the place where the one before it ends.
Payload(orders) ==
  LET fields == Field(2, Len(orders)) \o Joined([k \in DOMAIN orders |-> Encoded(orders[k])])
      Put(buf, f) == [size |-> buf.size + f.n, at |-> With(buf.at, buf.size, f)]
  IN  Folded(Put, [size |-> 0, at |-> << >>], fields)

-----------------------------------------------------------------------------
\* Reader: reads of n bytes at pos.
Fits(buf, pos, n) == pos + n <= buf.size

Read(buf, pos, n) ==
  IF ~Fits(buf, pos, n) THEN NoValue
  ELSE IF pos \in DOMAIN buf.at /\ buf.at[pos].n = n THEN buf.at[pos].value ELSE Garbage

\* Mutant: only one coordinate of the window client delta is skipped.
StepsShortDelta == <<
  <<"owner", "skip", 4>>, <<"style", "skip", 8>>, <<"show", "keep", 1>>, <<"title", "items", 1>>,
  <<"clientOffset", "skip", 8>>, <<"clientSize", "skip", 8>>, <<"marginX", "skip", 8>>,
  <<"marginY", "skip", 8>>, <<"content", "skip", 1>>, <<"rootParent", "skip", 4>>,
  <<"offset", "keep", 8>>, <<"delta", "skip", 4>>, <<"size", "keep", 8>>, <<"rects", "items", 8>>,
  <<"visibleOffset", "skip", 8>>, <<"visibility", "items", 8>> >>

\* parse_window_state: the fields in turn, and what is done with each: so many bytes are
\* skipped, or as many items as it says, or it is kept.
Steps == <<
  <<"owner", "skip", 4>>, <<"style", "skip", 8>>, <<"show", "keep", 1>>, <<"title", "items", 1>>,
  <<"clientOffset", "skip", 8>>, <<"clientSize", "skip", 8>>, <<"marginX", "skip", 8>>,
  <<"marginY", "skip", 8>>, <<"content", "skip", 1>>, <<"rootParent", "skip", 4>>,
  <<"offset", "keep", 8>>, <<"delta", "skip", 8>>, <<"size", "keep", 8>>, <<"rects", "items", 8>>,
  <<"visibleOffset", "skip", 8>>, <<"visibility", "items", 8>> >>

\* A step leaves the reader where the field ends; pos is NoValue once a read has failed.
Step(buf, has, s, step) ==
  LET pos == s.pos
      value == Read(buf, pos, CASE step[1] = "show" -> 1 [] step[2] = "items" -> 2 [] OTHER -> 4)
      length == IF step[2] # "items" THEN step[3]
                ELSE IF value \in {NoValue, Garbage} THEN buf.size ELSE 2 + value * step[3]
      info == CASE step[1] = "show"   -> [s.info EXCEPT !.show = value]
                [] step[1] = "offset" -> [s.info EXCEPT !.x = value]
                [] step[1] = "size"   -> [s.info EXCEPT !.w = value]
                \* kept only when there is more than one rectangle
                [] step[1] = "visibility" -> [s.info EXCEPT !.rects = IF value > 1 THEN value ELSE NoValue]
                [] OTHER -> s.info
  IN  IF pos = NoValue \/ step[1] \notin has THEN s
      ELSE [pos |-> IF Fits(buf, pos, length) THEN pos + length ELSE NoValue, info |-> info]

WindowState(buf, pos, id, new, has) ==
  LET none == [id |-> id, new |-> new, show |-> NoValue, x |-> NoValue, w |-> NoValue,
               rects |-> NoValue]
  IN  Folded(LAMBDA s, step : Step(buf, has, s, step), [pos |-> pos, info |-> none], Steps)

\* parse_window_order: the events of one order, whose header ends at pos.  Left out are the
\* z-order of a desktop order, which only restacks the page's elements, and orders without
\* any type flag, which are skipped; neither moves the next order.
OrderEvents(buf, pos, flags) ==
  LET id == Read(buf, pos, 4)
      state == WindowState(buf, pos + 4, id, flags.new, flags.has)
  IN  CASE id = NoValue -> << >>
        [] flags.kind = "desktop" -> <<[event |-> "active", id |-> id]>>
        [] flags.kind = "icon" -> <<[event |-> "icon", id |-> id]>>
        [] flags.kind \in {"cached", "notify"} -> << >>
        [] flags.kind = "deleted" -> <<[event |-> "deleted", id |-> id]>>
        [] flags.kind = "window" ->
             IF state.pos = NoValue THEN << >> ELSE <<[event |-> "window", info |-> state.info]>>

\* parse: order after order; one that cannot be skipped ends it.
Next1(buf, s) ==
  LET type == Read(buf, s.pos, 1)
      size == Read(buf, s.pos + 1, 2)
      flags == buf.at[s.pos + 3].value
      Stop == [s EXCEPT !.stopped = TRUE]
  IN  IF s.stopped THEN s
      ELSE CASE type = ORDER_TYPE_FRAME_MARKER ->
                  IF Fits(buf, s.pos + 1, 4) THEN [s EXCEPT !.pos = @ + 5] ELSE Stop
             [] type = ORDER_TYPE_WINDOW ->
                  IF size < 3 \/ ~Fits(buf, s.pos + 3, 4) \/ s.pos + size > buf.size
                  THEN Stop
                  ELSE [s EXCEPT !.events = @ \o OrderEvents(buf, s.pos + 7, flags),
                                 !.pos = @ + size]
             [] OTHER -> Stop

parse(buf) ==
  LET number == Read(buf, 0, 2)
      start == [pos |-> 2, events |-> << >>, stopped |-> FALSE]
  IN  Folded(LAMBDA s, k : Next1(buf, s), start, [k \in 1..number |-> k]).events
=============================================================================
