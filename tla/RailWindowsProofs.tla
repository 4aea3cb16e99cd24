------------------------- MODULE RailWindowsProofs -------------------------
(***************************************************************************)
(* The rail channel, in four parts.                                        *)
(*                                                                         *)
(* Opening: until the server's handshake has come in, nothing is ahead of  *)
(* it and nothing waits to be sent, so the client's part of the handshake  *)
(* is the first thing the server gets, and nothing after it is another     *)
(* one.                                                                    *)
(*                                                                         *)
(* Orders: the parser walks an update of any length and finds in it the    *)
(* events the server meant.  Folds and lengths are reasoned about by       *)
(* induction over a set of numbers that has a least member.                *)
(*                                                                         *)
(* Pages: the updates on their way lead from what the page shows to what   *)
(* the server has.                                                         *)
(*                                                                         *)
(* Canvases: the surfaces go with the windows, the canvases show the image *)
(* unless a repaint waits, and the last update on its way that covers a    *)
(* position shows there what the server's desktop does.                    *)
(***************************************************************************)
EXTENDS RailWindows, SequenceTheorems, FiniteSetTheorems, WellFoundedInduction, TLAPS

IsSequence(s) == \E S : s \in Seq(S)

Pdus == {"handshake", "client status", "high contrast", "work area", "exec",
         "activate", "maximize", "restore"}

Shapes ==
  /\ IsSequence(toClient) /\ received \in Seq(Pdus)
  /\ handshakes \in Nat /\ handshakeDone \in BOOLEAN

\* Before the handshake.
Waiting ==
  /\ received = << >> /\ inputs = << >> /\ DOMAIN railWindows = {}
  /\ handshakes > 0 => toClient # << >>
  /\ toClient # << >> => Head(toClient).type = "handshake"

\* After it: what was sent begins with the client's part and has no other handshake.
Opened ==
  /\ 5 =< Len(received)
  /\ \A k \in 1..5 : received[k] = ClientInit[k]
  /\ \A k \in DOMAIN received : received[k] = "handshake" => k = 1

Opening == IF handshakeDone THEN Opened ELSE Waiting

Inv == Shapes /\ Opening

-----------------------------------------------------------------------------
LEMMA ClientInitFacts ==
  /\ ClientInit \in Seq(Pdus) /\ Len(ClientInit) = 5
  /\ ClientInit[1] = "handshake"
  /\ \A k \in 1..5 : ClientInit[k] = "handshake" => k = 1
<1>1. ClientInit \in Seq(Pdus) /\ Len(ClientInit) = 5
  BY DEF ClientInit, Pdus
<1>2. ClientInit[1] = "handshake"
  BY DEF ClientInit
<1>3. ClientInit[2] # "handshake" /\ ClientInit[3] # "handshake"
  BY DEF ClientInit
<1>4. ClientInit[4] # "handshake" /\ ClientInit[5] # "handshake"
  BY DEF ClientInit
<1> QED
  BY <1>1, <1>2, <1>3, <1>4

LEMMA AppendSequence ==
  ASSUME NEW s, IsSequence(s), NEW m
  PROVE  /\ IsSequence(Append(s, m)) /\ Append(s, m) # << >>
         /\ s # << >> => Head(Append(s, m)) = Head(s)
         /\ s = << >> => Head(Append(s, m)) = m
<1>1. PICK S : s \in Seq(S)
  BY DEF IsSequence
<1>2. s \in Seq(S \cup {m})
  BY <1>1
<1>3. Append(s, m) \in Seq(S \cup {m})
  BY <1>2
<1>4. IsSequence(Append(s, m))
  BY <1>3 DEF IsSequence
<1>5. Append(s, m) # << >> /\ (s # << >> => Head(Append(s, m)) = Head(s))
  BY <1>2, <1>3
<1>6. s = << >> => Head(Append(s, m)) = m
  BY <1>2, <1>3
<1> QED
  BY <1>4, <1>5, <1>6

LEMMA ConcatSequence ==
  ASSUME NEW s, IsSequence(s), NEW m, NEW n
  PROVE  /\ IsSequence(s \o <<m, n>>) /\ s \o <<m, n>> # << >>
         /\ s # << >> => Head(s \o <<m, n>>) = Head(s)
<1>1. PICK S : s \in Seq(S)
  BY DEF IsSequence
<1>2. s \in Seq(S \cup {m, n}) /\ <<m, n>> \in Seq(S \cup {m, n})
  BY <1>1
<1>3. s \o <<m, n>> \in Seq(S \cup {m, n}) /\ Len(s \o <<m, n>>) = Len(s) + 2
  BY <1>2
<1>4. IsSequence(s \o <<m, n>>)
  BY <1>3 DEF IsSequence
<1>5. s # << >> => Head(s \o <<m, n>>) = Head(s)
  BY <1>2, <1>3
<1> QED
  BY <1>2, <1>3, <1>4, <1>5

LEMMA ReplaceInSequence ==
  ASSUME NEW s, IsSequence(s), s # << >>, NEW x
  PROVE  /\ IsSequence([s EXCEPT ![Len(s)] = x]) /\ [s EXCEPT ![Len(s)] = x] # << >>
         /\ Len(s) # 1 => Head([s EXCEPT ![Len(s)] = x]) = Head(s)
<1>1. PICK S : s \in Seq(S)
  BY DEF IsSequence
<1> DEFINE t == [s EXCEPT ![Len(s)] = x]
<1>2. t \in Seq(S \cup {x}) /\ Len(t) = Len(s)
  BY <1>1
<1>3. IsSequence(t)
  BY <1>2 DEF IsSequence
<1> QED
  BY <1>1, <1>2, <1>3

LEMMA TailSequence ==
  ASSUME NEW s, IsSequence(s), s # << >>
  PROVE  IsSequence(Tail(s))
BY DEF IsSequence

-----------------------------------------------------------------------------
\* What the server adds to the stream leaves its beginning as it is.
Grows ==
  /\ IsSequence(toClient') /\ toClient' # << >>
  /\ toClient # << >> /\ Head(toClient).type = "handshake" => Head(toClient').type = "handshake"

LEMMA OrdersGrow ==
  ASSUME IsSequence(toClient), NEW o, SendOrder(o)
  PROVE  Grows
<1>1. CASE toClient' = Append(toClient, [type |-> "orders", orders |-> <<o>>])
  BY <1>1, AppendSequence DEF Grows
<1>2. CASE /\ toClient # << >> /\ Last(toClient).type = "orders"
           /\ toClient' = [toClient EXCEPT ![Len(toClient)].orders = Append(@, o)]
  <2> DEFINE x == [toClient[Len(toClient)] EXCEPT !.orders = Append(@, o)]
  <2>1. toClient' = [toClient EXCEPT ![Len(toClient)] = x]
    BY <1>2
  <2>2. PICK S : toClient \in Seq(S)
    BY DEF IsSequence
  <2>3. Len(toClient) = 1 => Head(toClient).type = "orders"
    BY <1>2, <2>2 DEF Last
  <2> QED
    BY <1>2, <2>1, <2>3, ReplaceInSequence DEF Grows
<1> QED
  BY <1>1, <1>2 DEF SendOrder

\* A step of the server that leaves the client's side alone and lets the stream grow.
LEMMA ServerStep ==
  ASSUME Inv, Grows, handshakes > 0, UNCHANGED <<handshakes, received, handshakeDone, inputs, railWindows>>
  PROVE  Inv'
BY DEF Inv, Shapes, Opening, Waiting, Opened, Grows

\* A step of the client once the handshake is done, that sends nothing on the channel.
LEMMA ClientStep ==
  ASSUME Inv, handshakeDone, IsSequence(toClient'), UNCHANGED <<handshakes, received, handshakeDone>>
  PROVE  Inv'
BY DEF Inv, Shapes, Opening, Opened

\* The same, sending one thing that is no handshake.
LEMMA SendingStep ==
  ASSUME Inv, handshakeDone, IsSequence(toClient'), UNCHANGED <<handshakes, handshakeDone>>,
         NEW m \in Pdus, m # "handshake", received' = Append(received, m)
  PROVE  Inv'
<1>1. Len(received') = Len(received) + 1 /\ received' \in Seq(Pdus)
  BY DEF Inv, Shapes
<1>2. \A k \in DOMAIN received' :
        received'[k] = IF k \in DOMAIN received THEN received[k] ELSE m
  BY DEF Inv, Shapes
<1>3. Opened /\ received \in Seq(Pdus)
  BY DEF Inv, Shapes, Opening
<1>4. DOMAIN received = 1..Len(received) /\ Len(received) \in Nat
  BY <1>3
<1>5. \A k \in 1..5 : received'[k] = received[k]
  BY <1>2, <1>3, <1>4 DEF Opened
<1>6. \A k \in DOMAIN received' : received'[k] = "handshake" => k = 1
  BY <1>2, <1>3 DEF Opened
<1>7. Opened'
  BY <1>1, <1>3, <1>4, <1>5, <1>6 DEF Opened
<1> QED
  BY <1>1, <1>7 DEF Inv, Shapes, Opening

\* Whatever is first in the stream and is no handshake comes after one.
LEMMA HeadTells ==
  ASSUME Inv, toClient # << >>, Head(toClient).type # "handshake"
  PROVE  handshakeDone /\ IsSequence(Tail(toClient))
BY TailSequence DEF Inv, Shapes, Opening, Waiting

LEMMA InputTells ==
  ASSUME Inv, inputs # << >> \/ DOMAIN railWindows # {}
  PROVE  handshakeDone
BY DEF Inv, Opening, Waiting

-----------------------------------------------------------------------------
LEMMA HandshakeComes ==
  ASSUME Inv, OnHandshake
  PROVE  Inv'
<1>1. IsSequence(toClient')
  BY TailSequence DEF Inv, Shapes, OnHandshake
<1>2. CASE handshakeDone
  BY <1>1, <1>2, ClientStep DEF OnHandshake, Inv, Shapes
<1>3. CASE ~handshakeDone
  <2>0. received = << >> /\ received' = received \o ClientInit
    BY <1>3 DEF Inv, Opening, Waiting, OnHandshake
  <2>1. received' = ClientInit /\ received' \in Seq(Pdus)
    BY <2>0, ClientInitFacts
  <2>2. Opened'
    BY <2>1, ClientInitFacts DEF Opened
  <2> QED
    BY <1>1, <2>1, <2>2 DEF Inv, Shapes, Opening, OnHandshake
<1> QED
  BY <1>2, <1>3

LEMMA ServerHandshakes ==
  ASSUME Inv, ServerHandshake
  PROVE  Inv'
<1> DEFINE m == [type |-> "handshake"]
<1>1. toClient' = Append(toClient, m) /\ handshakes' = handshakes + 1
  BY DEF ServerHandshake
<1>2. /\ IsSequence(toClient') /\ toClient' # << >>
      /\ toClient # << >> => Head(toClient') = Head(toClient)
      /\ toClient = << >> => Head(toClient') = m
  BY <1>1, AppendSequence DEF Inv, Shapes
<1>3. handshakes' \in Nat
  BY <1>1 DEF Inv, Shapes
<1> QED
  BY <1>2, <1>3 DEF Inv, Shapes, Opening, Waiting, Opened, ServerHandshake, pageVars

LEMMA ServerChanges ==
  ASSUME Inv,
         \/ ServerReactivates
         \/ \E id \in Windows : ServerCreates(id) \/ ServerUpdates(id) \/ ServerDeletes(id) \/ ServerTells(id)
         \/ \E p \in Positions : ServerDraws(p)
  PROVE  Inv'
<1>0. IsSequence(toClient)
  BY DEF Inv, Shapes
<1>1. CASE ServerReactivates
  <2> DEFINE m == [type |-> "reactivate"]
             n == [type |-> "graphics", left |-> 0, right |-> Width - 1, screen |-> screen]
  <2>1. toClient' = toClient \o <<m, n>>
    BY <1>1 DEF ServerReactivates
  <2>2. Grows
    BY <1>0, <2>1, ConcatSequence DEF Grows
  <2> QED
    BY <1>1, <2>2, ServerStep DEF ServerReactivates, Change, pageVars
<1>2. ASSUME NEW id \in Windows, ServerCreates(id) PROVE Inv'
  <2>1. PICK o : SendOrder(o)
    BY <1>2 DEF ServerCreates
  <2> QED
    BY <1>0, <1>2, <2>1, OrdersGrow, ServerStep DEF ServerCreates, Change, pageVars
<1>3. ASSUME NEW id \in Windows, ServerUpdates(id) PROVE Inv'
  <2>1. PICK o : SendOrder(o)
    BY <1>3 DEF ServerUpdates
  <2> QED
    BY <1>0, <1>3, <2>1, OrdersGrow, ServerStep DEF ServerUpdates, Change, pageVars
<1>4. ASSUME NEW id \in Windows, ServerDeletes(id) PROVE Inv'
  <2>1. PICK o : SendOrder(o)
    BY <1>4 DEF ServerDeletes
  <2> QED
    BY <1>0, <1>4, <2>1, OrdersGrow, ServerStep DEF ServerDeletes, Change, pageVars
<1>5. ASSUME NEW id \in Windows, ServerTells(id) PROVE Inv'
  <2>1. PICK o : SendOrder(o)
    BY <1>5 DEF ServerTells
  <2> QED
    BY <1>0, <1>5, <2>1, OrdersGrow, ServerStep DEF ServerTells, Change, pageVars
<1>6. ASSUME NEW p \in Positions, ServerDraws(p) PROVE Inv'
  <2>1. PICK m : toClient' = Append(toClient, m)
    BY <1>6 DEF ServerDraws
  <2>2. Grows
    BY <1>0, <2>1, AppendSequence DEF Grows
  <2> QED
    BY <1>6, <2>2, ServerStep DEF ServerDraws, Change, pageVars
<1> QED
  BY <1>1, <1>2, <1>3, <1>4, <1>5, <1>6

LEMMA ClientReads ==
  ASSUME Inv, OnOrders \/ OnGraphics \/ OnReactivated \/ OnRepaint
  PROVE  Inv'
<1>1. CASE OnOrders
  BY <1>1, HeadTells, ClientStep DEF OnOrders, serverVars
<1>2. CASE OnGraphics
  BY <1>2, HeadTells, ClientStep DEF OnGraphics, serverVars
<1>3. CASE OnReactivated
  BY <1>3, HeadTells, ClientStep DEF OnReactivated, serverVars
<1>4. CASE OnRepaint
  BY <1>4, InputTells, ClientStep DEF OnRepaint, serverVars, Inv, Shapes
<1> QED
  BY <1>1, <1>2, <1>3, <1>4

LEMMA ClientSends ==
  ASSUME Inv, OnCommand \/ OnExec
  PROVE  Inv'
<1>0. handshakeDone /\ IsSequence(toClient)
  <2>1. inputs # << >>
    BY DEF OnCommand, OnExec
  <2> QED
    BY <2>1, InputTells DEF Inv, Shapes
<1>1. CASE OnCommand
  <2> DEFINE m == Head(inputs).type
  <2>1. m \in Pdus /\ m # "handshake" /\ received' = Append(received, m)
    BY <1>1 DEF OnCommand, Pdus
  <2>2. toClient' = toClient \/ \E o : SendOrder(o)
    BY <1>1 DEF OnCommand
  <2>3. IsSequence(toClient')
    BY <1>0, <2>2, OrdersGrow DEF Grows
  <2> QED
    BY <1>0, <1>1, <2>1, <2>3, SendingStep DEF OnCommand
<1>2. CASE OnExec
  BY <1>0, <1>2, SendingStep DEF OnExec, Pdus
<1> QED
  BY <1>1, <1>2

LEMMA UserClicks ==
  ASSUME ~EarlyClicks, Inv,
         Launch \/ \E id \in Windows : PressWindow(id) \/ PressTaskButton(id)
  PROVE  Inv'
<1>1. handshakeDone
  BY InputTells DEF Launch, PressWindow, PressTaskButton, Inv, Shapes
<1>2. IsSequence(toClient') /\ UNCHANGED <<handshakes, received, handshakeDone>>
  BY DEF Launch, PressWindow, PressTaskButton, serverVars, Inv, Shapes
<1> QED
  BY <1>1, <1>2, ClientStep

-----------------------------------------------------------------------------
LEMMA Invariance ==
  ASSUME ~EarlyClicks
  PROVE  Spec => []Inv
<1>1. Init => Inv
  <2> SUFFICES ASSUME Init PROVE Inv
    OBVIOUS
  <2>1. IsSequence(toClient) /\ received \in Seq(Pdus)
    BY DEF Init, IsSequence
  <2>2. Waiting
    BY DEF Init, Waiting
  <2> QED
    BY <2>1, <2>2 DEF Init, Inv, Shapes, Opening
<1>2. Inv /\ [Next]_vars => Inv'
  <2> SUFFICES ASSUME Inv, [Next]_vars PROVE Inv'
    OBVIOUS
  <2>1. CASE UNCHANGED vars
    BY <2>1 DEF vars, serverVars, pageVars, Inv, Shapes, Opening, Waiting, Opened
  <2>2. CASE Next
    BY <2>2, HandshakeComes, ServerHandshakes, ServerChanges, ClientReads, ClientSends, UserClicks DEF Next
  <2> QED
    BY <2>1, <2>2
<1> QED
  BY <1>1, <1>2, PTL DEF Spec

LEMMA FirstAndOnly ==
  ASSUME Inv
  PROVE  LaunchedOnce
<1> DEFINE H == {k \in DOMAIN received : received[k] = "handshake"}
<1>1. CASE handshakeDone
  <2>1. Opened /\ received \in Seq(Pdus)
    BY <1>1 DEF Inv, Opening, Shapes
  <2>2. received # << >> /\ Len(received) >= 5
    BY <2>1 DEF Opened
  <2>3. SubSeq(received, 1, 5) = ClientInit
    <3>1. SubSeq(received, 1, 5) \in Seq(Pdus) /\ Len(SubSeq(received, 1, 5)) = 5
      BY <2>1, <2>2
    <3>2. \A k \in 1..5 : SubSeq(received, 1, 5)[k] = received[k]
      BY <2>1, <2>2
    <3> QED
      BY <2>1, <3>1, <3>2, ClientInitFacts, SeqEqual DEF Opened
  <2>4. H = {1}
    BY <2>1, <2>2, ClientInitFacts DEF Opened
  <2>5. Cardinality(H) <= 1
    BY <2>4, FS_Singleton
  <2> QED
    BY <2>2, <2>3, <2>5 DEF LaunchedOnce
<1>2. CASE ~handshakeDone
  <2>1. Waiting /\ IsSequence(toClient)
    BY <1>2 DEF Inv, Opening, Shapes
  <2>2. H = {}
    BY <2>1 DEF Waiting
  <2>3. Cardinality(H) <= 1
    BY <2>2, FS_EmptySet
  <2>4. handshakes > 0 => \E k \in DOMAIN toClient : toClient[k].type = "handshake"
    <3>1. PICK S : toClient \in Seq(S)
      BY <2>1 DEF IsSequence
    <3> QED
      BY <2>1, <3>1 DEF Waiting
  <2> QED
    BY <2>1, <2>3, <2>4 DEF LaunchedOnce, Waiting
<1> QED
  BY <1>1, <1>2

(* As long as the launcher is not used before the handshake, the client's part of it is     *)
(* the first thing on the rail channel and is sent once, as soon as the server's has come   *)
(* in, whatever windows the server opens, reactivates and draws around it.                  *)
THEOREM AlwaysLaunchedOnce ==
  ASSUME ~EarlyClicks
  PROVE  Spec => []LaunchedOnce
BY Invariance, FirstAndOnly, PTL

-----------------------------------------------------------------------------
\* Induction over numbers, for sets of them, and the folds of the parser and the encoding.
LEMMA Least ==
  ASSUME NEW T, T \subseteq Nat, T # {}
  PROVE  \E m \in T : \A k \in T : m =< k
<1> DEFINE R == {ss \in Nat \X Nat : ss[1] < ss[2]}
<1>1. R = OpToRel(<, Nat)
  BY Zenon DEF OpToRel
<1>2. IsWellFoundedOn(R, Nat)
  BY <1>1, NatLessThanWellFounded, Zenon
<1> HIDE DEF R
<1>3. PICK m \in T : \A k \in T : ~(<<k, m>> \in R)
  BY <1>2, WFMin, Zenon
<1>4. \A k \in T : ~(k < m)
  BY <1>3 DEF R
<1> QED
  BY <1>4

LEMMA Induction ==
  ASSUME NEW T, 0 \in T, \A n \in Nat : n \in T => n + 1 \in T
  PROVE  \A n \in Nat : n \in T
<1> SUFFICES ASSUME ~(Nat \subseteq T) PROVE FALSE
  OBVIOUS
<1>1. PICK m \in Nat \ T : \A k \in Nat \ T : m =< k
  BY Least
<1>2. m # 0 /\ m - 1 \in Nat
  BY <1>1
<1>3. m - 1 \in T
  BY <1>1, <1>2
<1> QED
  BY <1>1, <1>2, <1>3

\* What the model folds, by name: x is what a step reads beside its arguments.
Folding(op, x, s, e) ==
  CASE op = "sum"      -> s + e.n
    [] op = "join"     -> s \o e
    [] op = "put"      -> [size |-> s.size + e.n, at |-> With(s.at, s.size, e)]
    [] op = "field"    -> Step(x.buf, x.has, s, e)
    [] op = "order"    -> Next1(x, s)
    [] op = "dispatch" -> Dispatch(s, e)

Folds(f, op, x, base, n, seq) ==
  f = [k \in 0..n |-> IF k = 0 THEN base ELSE Folding(op, x, f[k - 1], seq[k])]

LEMMA FoldExists ==
  ASSUME NEW op, NEW x, NEW base, NEW n \in Nat, NEW seq
  PROVE  \E f : Folds(f, op, x, base, n, seq)
<1> DEFINE T == {m \in Nat : \E f : f = [k \in 0..m |-> IF k = 0 THEN base ELSE Folding(op, x, f[k - 1], seq[k])]}
<1>1. 0 \in T
  <2> DEFINE f == [k \in 0..0 |-> base]
  <2>1. f = [k \in 0..0 |-> IF k = 0 THEN base ELSE Folding(op, x, f[k - 1], seq[k])]
    OBVIOUS
  <2> QED
    BY <2>1
<1>2. \A m \in Nat : m \in T => m + 1 \in T
  <2> SUFFICES ASSUME NEW m \in Nat, NEW f,
                      f = [k \in 0..m |-> IF k = 0 THEN base ELSE Folding(op, x, f[k - 1], seq[k])]
               PROVE  \E g : g = [k \in 0..m + 1 |-> IF k = 0 THEN base ELSE Folding(op, x, g[k - 1], seq[k])]
    OBVIOUS
  <2> DEFINE g == [k \in 0..m + 1 |-> IF k = m + 1 THEN Folding(op, x, f[m], seq[k]) ELSE f[k]]
  <2>1. \A k \in 0..m + 1 : g[k] = IF k = 0 THEN base ELSE Folding(op, x, g[k - 1], seq[k])
    OBVIOUS
  <2>2. g = [k \in 0..m + 1 |-> IF k = 0 THEN base ELSE Folding(op, x, g[k - 1], seq[k])]
    BY <2>1
  <2> QED
    BY <2>2
<1> HIDE DEF T
<1>3. n \in T
  BY <1>1, <1>2, Induction
<1> QED
  BY <1>3 DEF T, Folds

\* Each fold has the steps its operator says.
LEMMA SizeSteps ==
  ASSUME NEW fields, Len(fields) \in Nat
  PROVE  \E f : /\ f[0] = 0 /\ Size(fields) = f[Len(fields)]
                /\ \A k \in 1..Len(fields) : f[k] = f[k - 1] + fields[k].n
<1> DEFINE F(f) == f = [k \in 0..Len(fields) |-> IF k = 0 THEN 0 ELSE f[k - 1] + fields[k].n]
<1>1. PICK f : Folds(f, "sum", 0, 0, Len(fields), fields)
  BY FoldExists
<1>2. \A s, e : Folding("sum", 0, s, e) = s + e.n
  BY DEF Folding
<1>3. F(f)
  BY <1>1, <1>2 DEF Folds
<1> DEFINE g == CHOOSE g : F(g)
<1>4. F(g)
  BY <1>3, Zenon
<1>5. Size(fields) = g[Len(fields)]
  BY Zenon DEF Size, Folded
<1> HIDE DEF g
<1> QED
  BY <1>4, <1>5

LEMMA JoinedSteps ==
  ASSUME NEW seqs, Len(seqs) \in Nat
  PROVE  \E f : /\ f[0] = << >> /\ Joined(seqs) = f[Len(seqs)]
                /\ \A k \in 1..Len(seqs) : f[k] = f[k - 1] \o seqs[k]
<1> DEFINE F(f) == f = [k \in 0..Len(seqs) |-> IF k = 0 THEN << >> ELSE f[k - 1] \o seqs[k]]
<1>1. PICK f : Folds(f, "join", 0, << >>, Len(seqs), seqs)
  BY FoldExists
<1>2. \A s, e : Folding("join", 0, s, e) = s \o e
  BY DEF Folding
<1>3. F(f)
  BY <1>1, <1>2 DEF Folds
<1> DEFINE g == CHOOSE g : F(g)
<1>4. F(g)
  BY <1>3, Zenon
<1>5. Joined(seqs) = g[Len(seqs)]
  BY Zenon DEF Joined, Folded
<1> HIDE DEF g
<1>6. g[0] = << >>
  BY <1>4
<1>7. ASSUME NEW k \in 1..Len(seqs) PROVE g[k] = g[k - 1] \o seqs[k]
  <2> k \in 0..Len(seqs) /\ k # 0
    OBVIOUS
  <2> QED
    BY <1>4, Zenon
<1> QED
  BY <1>5, <1>6, <1>7, Zenon

\* The fields of a payload.
FieldsOfAll(orders) ==
  Field(2, Len(orders)) \o Joined([k \in DOMAIN orders |-> Encoded(orders[k])])

LEMMA WithDomain ==
  ASSUME NEW f, NEW k, NEW v
  PROVE  DOMAIN With(f, k, v) = DOMAIN f \cup {k}
BY DEF With

LEMMA WithHere ==
  ASSUME NEW f, NEW k, NEW v
  PROVE  With(f, k, v)[k] = v
BY DEF With

LEMMA WithThere ==
  ASSUME NEW f, NEW k, NEW v, NEW j \in DOMAIN f, j # k
  PROVE  With(f, k, v)[j] = f[j]
BY DEF With

LEMMA PayloadSteps ==
  ASSUME NEW orders, Len(FieldsOfAll(orders)) \in Nat
  PROVE  \E f : /\ f[0] = [size |-> 0, at |-> << >>]
                /\ Payload(orders) = f[Len(FieldsOfAll(orders))]
                /\ \A k \in 1..Len(FieldsOfAll(orders)) :
                     /\ f[k].size = f[k - 1].size + FieldsOfAll(orders)[k].n
                     /\ f[k].at = With(f[k - 1].at, f[k - 1].size, FieldsOfAll(orders)[k])
<1> DEFINE start == [size |-> 0, at |-> << >>]
           F(f, n, fields) ==
             f = [k \in 0..n |-> IF k = 0 THEN start
                   ELSE [size |-> f[k - 1].size + fields[k].n,
                         at |-> With(f[k - 1].at, f[k - 1].size, fields[k])]]
           g == CHOOSE g : F(g, Len(FieldsOfAll(orders)), FieldsOfAll(orders))
<1>5. Payload(orders) = g[Len(FieldsOfAll(orders))]
  BY Zenon DEF Payload, Folded, FieldsOfAll
<1> DEFINE fields == FieldsOfAll(orders)
           n == Len(fields)
<1> HIDE DEF fields
<1>0. n \in Nat
  BY DEF fields
<1>1. PICK f : Folds(f, "put", 0, start, n, fields)
  BY <1>0, FoldExists
<1>2. \A s, e : Folding("put", 0, s, e) = [size |-> s.size + e.n, at |-> With(s.at, s.size, e)]
  BY DEF Folding
<1>3. F(f, n, fields)
  BY <1>1, <1>2 DEF Folds
<1>4. F(g, n, fields)
  BY <1>3, Zenon DEF fields
<1> HIDE DEF g
<1>6. g[0] = start
  BY <1>0, <1>4
<1>7. \A k \in 1..n : g[k] = [size |-> g[k - 1].size + fields[k].n,
                             at |-> With(g[k - 1].at, g[k - 1].size, fields[k])]
  BY <1>0, <1>4
<1>8. \A a, b : [size |-> a, at |-> b].size = a /\ [size |-> a, at |-> b].at = b
  OBVIOUS
<1>9. ASSUME NEW k \in 1..n
      PROVE  /\ g[k].size = g[k - 1].size + fields[k].n
             /\ g[k].at = With(g[k - 1].at, g[k - 1].size, fields[k])
  <2> DEFINE a == g[k - 1].size + fields[k].n
             b == With(g[k - 1].at, g[k - 1].size, fields[k])
  <2>1. g[k] = [size |-> a, at |-> b]
    BY <1>7
  <2> HIDE DEF a, b
  <2>2. g[k].size = a /\ g[k].at = b
    BY <2>1
  <2> QED
    BY <2>2 DEF a, b
<1> QED
  BY <1>5, <1>6, <1>9, Zenon DEF fields

NoInfo(id, new) ==
  [id |-> id, new |-> new, show |-> NoValue, x |-> NoValue, w |-> NoValue, rects |-> NoValue]

LEMMA StepsLength == Len(Steps) = 16 /\ Len(WireFields) = 17
BY DEF Steps, WireFields

LEMMA FieldSteps ==
  ASSUME NEW buf, NEW pos, NEW id, NEW new, NEW has
  PROVE  \E f : /\ f[0] = [pos |-> pos, info |-> NoInfo(id, new)]
                /\ WindowState(buf, pos, id, new, has) = f[16]
                /\ \A k \in 1..16 : f[k] = Step(buf, has, f[k - 1], Steps[k])
<1> DEFINE start == [pos |-> pos, info |-> NoInfo(id, new)]
           F(f, n) == f = [k \in 0..n |-> IF k = 0 THEN start ELSE Step(buf, has, f[k - 1], Steps[k])]
           g == CHOOSE g : F(g, Len(Steps))
           x == [buf |-> buf, has |-> has]
<1>5. WindowState(buf, pos, id, new, has) = g[Len(Steps)]
  BY Zenon DEF WindowState, Folded, NoInfo
<1> HIDE DEF start
<1>1. PICK f : Folds(f, "field", x, start, 16, Steps)
  BY FoldExists
<1>2. \A s, e : Folding("field", x, s, e) = Step(buf, has, s, e)
  BY DEF Folding
<1> HIDE DEF x
<1>3. F(f, 16)
  BY <1>1, <1>2 DEF Folds
<1>4. F(g, 16)
  BY <1>3, StepsLength, Zenon
<1> HIDE DEF g
<1>6. g[0] = start
  BY <1>4
<1>7. \A k \in 1..16 : g[k] = Step(buf, has, g[k - 1], Steps[k])
  BY <1>4
<1> QED
  BY <1>5, <1>6, <1>7, StepsLength, Zenon DEF start

LEMMA OrderSteps ==
  ASSUME NEW buf, NEW number \in Nat, Read(buf, 0, 2) = number
  PROVE  \E f : /\ f[0] = [pos |-> 2, events |-> << >>, stopped |-> FALSE]
                /\ parse(buf) = f[number].events
                /\ \A k \in 1..number : f[k] = Next1(buf, f[k - 1])
<1> DEFINE start == [pos |-> 2, events |-> << >>, stopped |-> FALSE]
           seq == [k \in 1..number |-> k]
           F(f, n) == f = [k \in 0..n |-> IF k = 0 THEN start ELSE Next1(buf, f[k - 1])]
           g == CHOOSE g : F(g, Len(seq))
<1>5. parse(buf) = g[Len(seq)].events
  BY Zenon DEF parse, Folded
<1>0. Len(seq) = number
  OBVIOUS
<1> HIDE DEF start, seq
<1>1. PICK f : Folds(f, "order", buf, start, number, seq)
  BY FoldExists
<1>2. \A s, e : Folding("order", buf, s, e) = Next1(buf, s)
  BY DEF Folding
<1>3. F(f, number)
  BY <1>1, <1>2 DEF Folds
<1>4. F(g, number)
  BY <1>0, <1>3, Zenon
<1> HIDE DEF g
<1>6. g[0] = start
  BY <1>4
<1>7. \A k \in 1..number : g[k] = Next1(buf, g[k - 1])
  BY <1>4
<1> QED
  BY <1>0, <1>5, <1>6, <1>7, Zenon DEF start

-----------------------------------------------------------------------------
\* Fields that stand in a payload one after the other.

IsFields(fields) == IsSequence(fields) /\ \A k \in 1..Len(fields) : fields[k].n \in Nat \ {0}

\* at: where each starts, and last where the last one ends.
Lie(buf, at, fields) ==
  /\ at \in [1..Len(fields) + 1 -> Nat]
  /\ \A k \in 1..Len(fields) :
       at[k + 1] = at[k] + fields[k].n /\ at[k] \in DOMAIN buf.at /\ buf.at[at[k]] = fields[k]
  /\ \A k \in 1..Len(fields) + 1 : at[k] =< buf.size

Spans(buf, pos, fields, end) ==
  \E at : Lie(buf, at, fields) /\ at[1] = pos /\ at[Len(fields) + 1] = end

LEMMA JoinIsSequence ==
  ASSUME NEW s, IsSequence(s), NEW t, IsSequence(t)
  PROVE  IsSequence(s \o t)
<1>1. PICK S : s \in Seq(S)
  BY DEF IsSequence
<1>2. PICK T : t \in Seq(T)
  BY DEF IsSequence
<1>3. s \in Seq(S \cup T) /\ t \in Seq(S \cup T)
  BY <1>1, <1>2
<1>4. s \o t \in Seq(S \cup T)
  BY <1>3
<1> QED
  BY <1>4 DEF IsSequence

LEMMA FieldsJoin ==
  ASSUME NEW s, IsSequence(s), NEW t, IsSequence(t)
  PROVE  /\ Len(s) \in Nat /\ Len(t) \in Nat
         /\ Len(s \o t) = Len(s) + Len(t)
         /\ \A k \in 1..Len(s) : (s \o t)[k] = s[k]
         /\ \A k \in 1..Len(t) : (s \o t)[Len(s) + k] = t[k]
<1>1. PICK S : s \in Seq(S)
  BY DEF IsSequence
<1>2. PICK T : t \in Seq(T)
  BY DEF IsSequence
<1>3. s \in Seq(S \cup T) /\ t \in Seq(S \cup T)
  BY <1>1, <1>2
<1>4. Len(s \o t) = Len(s) + Len(t) /\ Len(s) \in Nat /\ Len(t) \in Nat
  BY <1>3
<1>5. \A k \in 1..Len(s) : (s \o t)[k] = s[k]
  BY <1>3
<1>6. \A k \in 1..Len(t) : (s \o t)[Len(s) + k] = t[k]
  BY <1>3
<1> QED
  BY <1>4, <1>5, <1>6

LEMMA SpansSplit ==
  ASSUME NEW buf, NEW pos, NEW end, NEW s, IsSequence(s), NEW t, IsSequence(t),
         Spans(buf, pos, s \o t, end)
  PROVE  \E mid : Spans(buf, pos, s, mid) /\ Spans(buf, mid, t, end)
<1> DEFINE n == Len(s)
           m == Len(t)
<1>1. PICK at : Lie(buf, at, s \o t) /\ at[1] = pos /\ at[Len(s \o t) + 1] = end
  BY DEF Spans
<1>0. /\ n \in Nat /\ m \in Nat /\ Len(s \o t) = n + m
      /\ \A k \in 1..n : (s \o t)[k] = s[k]
      /\ \A k \in 1..m : (s \o t)[n + k] = t[k]
  BY FieldsJoin
<1> DEFINE a == [k \in 1..n + 1 |-> at[k]]
           b == [k \in 1..m + 1 |-> at[n + k]]
<1>2. at \in [1..n + m + 1 -> Nat]
  BY <1>0, <1>1 DEF Lie
<1>3. \A k \in 1..n + m :
        /\ at[k + 1] = at[k] + (s \o t)[k].n
        /\ at[k] \in DOMAIN buf.at
        /\ buf.at[at[k]] = (s \o t)[k]
  BY <1>0, <1>1 DEF Lie
<1>4. \A k \in 1..n + m + 1 : at[k] =< buf.size
  BY <1>0, <1>1 DEF Lie
<1> HIDE DEF n, m
<1>5. Lie(buf, a, s)
  <2>1. a \in [1..n + 1 -> Nat]
    BY <1>0, <1>2
  <2>2. \A k \in 1..n : k \in 1..n + m /\ k \in 1..n + 1 /\ k + 1 \in 1..n + 1
    BY <1>0
  <2>3. \A k \in 1..n : a[k + 1] = a[k] + s[k].n /\ a[k] \in DOMAIN buf.at /\ buf.at[a[k]] = s[k]
    BY <1>0, <1>3, <2>2
  <2>4. \A k \in 1..n + 1 : a[k] =< buf.size
    BY <1>0, <1>4
  <2> QED
    BY <2>1, <2>3, <2>4 DEF Lie, n
<1>6. Lie(buf, b, t)
  <2>1. b \in [1..m + 1 -> Nat]
    BY <1>0, <1>2
  <2>2. \A k \in 1..m : n + k \in 1..n + m /\ k \in 1..m + 1 /\ k + 1 \in 1..m + 1 /\ n + (k + 1) = (n + k) + 1
    BY <1>0
  <2>3. \A k \in 1..m : b[k + 1] = at[(n + k) + 1] /\ b[k] = at[n + k]
    BY <2>2
  <2>4. ASSUME NEW k \in 1..m
        PROVE  b[k + 1] = b[k] + t[k].n /\ b[k] \in DOMAIN buf.at /\ buf.at[b[k]] = t[k]
    <3>1. n + k \in 1..n + m /\ (s \o t)[n + k] = t[k]
      BY <1>0, <2>2
    <3>2. /\ at[(n + k) + 1] = at[n + k] + t[k].n
          /\ at[n + k] \in DOMAIN buf.at /\ buf.at[at[n + k]] = t[k]
      BY <1>3, <3>1
    <3>3. b[k + 1] = at[(n + k) + 1] /\ b[k] = at[n + k]
      BY <2>3
    <3> HIDE DEF b
    <3> QED
      BY <3>2, <3>3
  <2>5. \A k \in 1..m + 1 : b[k] =< buf.size
    BY <1>0, <1>4
  <2> QED
    BY <2>1, <2>4, <2>5 DEF Lie, m
<1>7. a[1] = pos /\ a[n + 1] = at[n + 1] /\ b[1] = at[n + 1] /\ b[m + 1] = end
  BY <1>0, <1>1
<1> QED
  BY <1>5, <1>6, <1>7 DEF Spans, n, m

\* One field is read where it starts.
LEMMA FieldReads ==
  ASSUME NEW buf, NEW pos, NEW end, NEW n \in Nat, NEW value, Spans(buf, pos, Field(n, value), end)
  PROVE  /\ pos \in Nat /\ end = pos + n /\ Fits(buf, pos, n)
         /\ pos \in DOMAIN buf.at /\ buf.at[pos].value = value
         /\ Read(buf, pos, n) = value
<1> DEFINE f == [n |-> n, value |-> value]
<1>1. Field(n, value) = <<f>> /\ Len(<<f>>) = 1 /\ <<f>>[1] = f
  BY DEF Field
<1>2. PICK at : Lie(buf, at, <<f>>) /\ at[1] = pos /\ at[2] = end
  BY <1>1 DEF Spans
<1>3. /\ pos \in Nat /\ end = pos + n /\ end =< buf.size
      /\ pos \in DOMAIN buf.at /\ buf.at[pos] = f
  <2>1. at \in [1..2 -> Nat] /\ at[2] =< buf.size
    BY <1>1, <1>2 DEF Lie
  <2>2. at[1 + 1] = at[1] + <<f>>[1].n /\ at[1] \in DOMAIN buf.at /\ buf.at[at[1]] = <<f>>[1]
    BY <1>1, <1>2 DEF Lie
  <2> QED
    BY <1>1, <1>2, <2>1, <2>2
<1>4. Fits(buf, pos, n)
  BY <1>3 DEF Fits
<1> QED
  BY <1>3, <1>4 DEF Read

LEMMA EmptySpan ==
  ASSUME NEW buf, NEW pos, NEW end, Spans(buf, pos, << >>, end)
  PROVE  pos = end
BY DEF Spans

LEMMA SpanSize ==
  ASSUME NEW buf, NEW pos, NEW end, NEW s, IsFields(s), Spans(buf, pos, s, end)
  PROVE  pos \in Nat /\ Size(s) \in Nat /\ end = pos + Size(s) /\ end =< buf.size
<1> DEFINE n == Len(s)
<1>0. n \in Nat
  BY DEF IsFields, IsSequence
<1>1. PICK at : Lie(buf, at, s) /\ at[1] = pos /\ at[n + 1] = end
  BY DEF Spans
<1>2. PICK f : /\ f[0] = 0 /\ Size(s) = f[n]
               /\ \A k \in 1..n : f[k] = f[k - 1] + s[k].n
  BY <1>0, SizeSteps
<1>3. /\ at \in [1..n + 1 -> Nat] /\ end =< buf.size
      /\ \A k \in 1..n : at[k + 1] = at[k] + s[k].n
      /\ \A k \in 1..n : s[k].n \in Nat
  BY <1>0, <1>1 DEF Lie, IsFields
<1> HIDE DEF n
<1> DEFINE T == {k \in Nat : k =< n => f[k] \in Nat /\ at[k + 1] = pos + f[k]}
<1>4. 0 \in T
  BY <1>0, <1>1, <1>2, <1>3
<1>5. \A k \in Nat : k \in T => k + 1 \in T
  <2> SUFFICES ASSUME NEW k \in Nat, k \in T, k + 1 =< n
               PROVE  f[k + 1] \in Nat /\ at[(k + 1) + 1] = pos + f[k + 1]
    OBVIOUS
  <2>1. k + 1 \in 1..n /\ (k + 1) - 1 = k
    BY <1>0
  <2>2. f[k + 1] = f[k] + s[k + 1].n /\ at[(k + 1) + 1] = at[k + 1] + s[k + 1].n /\ s[k + 1].n \in Nat
    BY <1>2, <1>3, <2>1
  <2>3. f[k] \in Nat /\ at[k + 1] = pos + f[k]
    BY <1>0
  <2>4. pos \in Nat
    BY <1>0, <1>1, <1>3
  <2> QED
    BY <2>2, <2>3, <2>4
<1> HIDE DEF T
<1>6. n \in T
  BY <1>0, <1>4, <1>5, Induction
<1>7. f[n] \in Nat /\ at[n + 1] = pos + f[n]
  BY <1>0, <1>6 DEF T
<1>8. pos \in Nat
  BY <1>0, <1>1, <1>3
<1> QED
  BY <1>1, <1>2, <1>3, <1>7, <1>8

Joints(buf, c, seqs, n) == \A k \in 1..n : Spans(buf, c[k], seqs[k], c[k + 1])

Jointed(buf, pos, seqs, n, end) == \E c : c[1] = pos /\ c[n + 1] = end /\ Joints(buf, c, seqs, n)

EachIsFields(seqs) == Len(seqs) \in Nat /\ \A k \in 1..Len(seqs) : IsFields(seqs[k])

LEMMA JoinedSpans ==
  ASSUME NEW buf, NEW pos, NEW end, NEW seqs, EachIsFields(seqs), Spans(buf, pos, Joined(seqs), end)
  PROVE  Jointed(buf, pos, seqs, Len(seqs), end)
<1> DEFINE n == Len(seqs)
<1>1. PICK f : /\ f[0] = << >> /\ Joined(seqs) = f[n]
               /\ \A k \in 1..n : f[k] = f[k - 1] \o seqs[k]
  BY JoinedSteps DEF EachIsFields
<1>0. n \in Nat /\ \A k \in 1..n : IsSequence(seqs[k])
  BY DEF EachIsFields, IsFields
<1> HIDE DEF n
<1> DEFINE Split(m, e) == \E c : c[1] = pos /\ c[m + 1] = e /\ Joints(buf, c, seqs, m)
           T == {m \in Nat : m =< n => /\ IsSequence(f[m])
                                       /\ \A e : Spans(buf, pos, f[m], e) => Split(m, e)}
<1>2. IsSequence(<< >>)
  BY DEF IsSequence
<1>3. 0 \in T
  <2> SUFFICES ASSUME NEW e, Spans(buf, pos, << >>, e) PROVE Split(0, e)
    BY <1>1, <1>2
  <2>1. pos = e
    BY EmptySpan
  <2> DEFINE c == [k \in 1..1 |-> pos]
  <2>2. c[1] = pos /\ c[0 + 1] = e /\ Joints(buf, c, seqs, 0)
    BY <2>1 DEF Joints
  <2> QED
    BY <2>2
<1> HIDE DEF Split
<1>4. \A m \in Nat : m \in T => m + 1 \in T
  <2> SUFFICES ASSUME NEW m \in Nat, m \in T, m + 1 =< n
               PROVE  IsSequence(f[m + 1]) /\ \A e : Spans(buf, pos, f[m + 1], e) => Split(m + 1, e)
    OBVIOUS
  <2>1. m + 1 \in 1..n /\ (m + 1) - 1 = m /\ IsSequence(f[m])
    BY <1>0
  <2>2. f[m + 1] = f[m] \o seqs[m + 1] /\ IsSequence(seqs[m + 1])
    BY <1>0, <1>1, <2>1
  <2>3. IsSequence(f[m + 1])
    BY <2>1, <2>2, JoinIsSequence
  <2>4. ASSUME NEW e, Spans(buf, pos, f[m + 1], e) PROVE Split(m + 1, e)
    <3>1. PICK mid : Spans(buf, pos, f[m], mid) /\ Spans(buf, mid, seqs[m + 1], e)
      BY <2>1, <2>2, <2>4, SpansSplit
    <3>2. PICK c : c[1] = pos /\ c[m + 1] = mid /\ Joints(buf, c, seqs, m)
      BY <1>0, <3>1 DEF Split
    <3> DEFINE d == [k \in 1..m + 2 |-> IF k = m + 2 THEN e ELSE c[k]]
    <3>3. d[1] = pos /\ d[(m + 1) + 1] = e
      BY <3>2
    <3>4. ASSUME NEW k \in 1..m + 1 PROVE Spans(buf, d[k], seqs[k], d[k + 1])
      <4>1. CASE k = m + 1
        BY <3>1, <3>2, <4>1
      <4>2. CASE k # m + 1
        <5>1. k \in 1..m /\ d[k] = c[k] /\ d[k + 1] = c[k + 1]
          BY <4>2
        <5> QED
          BY <3>2, <5>1 DEF Joints
      <4> QED
        BY <4>1, <4>2
    <3>5. Joints(buf, d, seqs, m + 1)
      BY <3>4 DEF Joints
    <3> HIDE DEF d
    <3> QED
      BY <3>3, <3>5 DEF Split
  <2> QED
    BY <2>3, <2>4
<1> HIDE DEF T
<1>5. n \in T
  BY <1>0, <1>3, <1>4, Induction
<1>6. Split(n, end)
  BY <1>0, <1>1, <1>5 DEF T, n
<1> QED
  BY <1>6 DEF n, Split, Jointed

\* A payload is its fields, one after the other from its beginning.
LEMMA PayloadSpans ==
  ASSUME NEW orders, IsFields(FieldsOfAll(orders))
  PROVE  Spans(Payload(orders), 0, FieldsOfAll(orders), Payload(orders).size)
<1> DEFINE fields == FieldsOfAll(orders)
           n == Len(fields)
<1>0. n \in Nat
  BY DEF IsFields, IsSequence
<1>1. PICK f : /\ f[0] = [size |-> 0, at |-> << >>] /\ Payload(orders) = f[n]
               /\ \A k \in 1..n : /\ f[k].size = f[k - 1].size + fields[k].n
                                  /\ f[k].at = With(f[k - 1].at, f[k - 1].size, fields[k])
  BY <1>0, PayloadSteps
<1>2. \A k \in 1..n : fields[k].n \in Nat \ {0}
  BY DEF IsFields
<1> HIDE DEF fields, n
<1> DEFINE Laid(m) ==
             /\ f[m].size \in Nat
             /\ \A j \in 1..m : /\ f[j - 1].size \in DOMAIN f[m].at
                                /\ f[m].at[f[j - 1].size] = fields[j]
                                /\ f[j - 1].size \in Nat /\ f[j - 1].size < f[m].size
             /\ \A p \in DOMAIN f[m].at : p \in Nat /\ p < f[m].size
           T == {m \in Nat : m =< n => Laid(m)}
<1>3. 0 \in T
  BY <1>1
<1>4. \A m \in Nat : m \in T => m + 1 \in T
  <2> SUFFICES ASSUME NEW m \in Nat, m \in T, m + 1 =< n PROVE Laid(m + 1)
    OBVIOUS
  <2>1. m + 1 \in 1..n /\ (m + 1) - 1 = m /\ Laid(m)
    BY <1>0
  <2> DEFINE s == f[m].size
             x == fields[m + 1]
  <2>2. f[m + 1].size = s + x.n /\ f[m + 1].at = With(f[m].at, s, x) /\ x.n \in Nat \ {0}
    BY <1>1, <1>2, <2>1
  <2>3. /\ f[m + 1].size = s + x.n
        /\ DOMAIN f[m + 1].at = DOMAIN f[m].at \cup {s}
        /\ f[m + 1].at[s] = x
        /\ \A p \in DOMAIN f[m].at : p # s => f[m + 1].at[p] = f[m].at[p]
    <3> DEFINE a == f[m].at
               b == f[m + 1].at
    <3>1. b = With(a, s, x)
      BY <2>2
    <3> HIDE DEF a, b, s, x
    <3>2. DOMAIN b = DOMAIN a \cup {s}
      BY <3>1, WithDomain, Zenon
    <3>3. b[s] = x
      <4>1. With(a, s, x)[s] = x
        BY WithHere
      <4> QED
        BY <3>1, <4>1
    <3>4. \A p \in DOMAIN a : p # s => b[p] = a[p]
      <4>1. \A p \in DOMAIN a : p # s => With(a, s, x)[p] = a[p]
        BY WithThere
      <4> QED
        BY <3>1, <4>1
    <3> QED
      BY <2>2, <3>2, <3>3, <3>4 DEF a, b
  <2>4. s \in Nat /\ f[m + 1].size \in Nat /\ s < f[m + 1].size
    BY <2>1, <2>2, <2>3
  <2>5. ASSUME NEW j \in 1..m + 1
        PROVE  /\ f[j - 1].size \in DOMAIN f[m + 1].at
               /\ f[m + 1].at[f[j - 1].size] = fields[j]
               /\ f[j - 1].size \in Nat /\ f[j - 1].size < f[m + 1].size
    <3>1. CASE j = m + 1
      BY <2>1, <2>3, <2>4, <3>1
    <3>2. CASE j # m + 1
      <4>1. j \in 1..m
        BY <3>2
      <4>2. /\ f[j - 1].size \in DOMAIN f[m].at /\ f[m].at[f[j - 1].size] = fields[j]
            /\ f[j - 1].size \in Nat /\ f[j - 1].size < s
        BY <2>1, <4>1
      <4>3. f[j - 1].size # s /\ f[j - 1].size < f[m + 1].size
        BY <2>4, <4>2
      <4> HIDE DEF s, x
      <4> QED
        BY <2>3, <4>2, <4>3
    <3> QED
      BY <3>1, <3>2
  <2>6. \A p \in DOMAIN f[m + 1].at : p \in Nat /\ p < f[m + 1].size
    BY <2>1, <2>3, <2>4
  <2> QED
    BY <2>4, <2>5, <2>6
<1> HIDE DEF T
<1>5. \A m \in Nat : m \in T
  BY <1>3, <1>4, Induction
<1>6. \A m \in Nat : m =< n => Laid(m)
  BY <1>5 DEF T
<1> DEFINE at == [k \in 1..n + 1 |-> f[k - 1].size]
           buf == Payload(orders)
<1>7. at \in [1..n + 1 -> Nat]
  <2> SUFFICES ASSUME NEW k \in 1..n + 1 PROVE f[k - 1].size \in Nat
    OBVIOUS
  <2>1. k - 1 \in Nat /\ k - 1 =< n
    BY <1>0
  <2> QED
    BY <1>6, <2>1
<1>8. ASSUME NEW k \in 1..n
      PROVE  at[k + 1] = at[k] + fields[k].n /\ at[k] \in DOMAIN buf.at /\ buf.at[at[k]] = fields[k]
  <2>1. Laid(n)
    BY <1>0, <1>6
  <2>2. at[k + 1] = f[k].size /\ at[k] = f[k - 1].size
    BY <1>0
  <2>3. f[k].size = f[k - 1].size + fields[k].n
    BY <1>1
  <2> QED
    BY <1>1, <2>1, <2>2, <2>3
<1>9. \A k \in 1..n + 1 : at[k] =< buf.size
  <2> SUFFICES ASSUME NEW k \in 1..n + 1 PROVE at[k] =< buf.size
    OBVIOUS
  <2>1. Laid(n)
    BY <1>0, <1>6, SMTT(30)
  <2>2. CASE k = n + 1
    BY <1>0, <1>1, <2>1, <2>2
  <2>3. CASE k # n + 1
    <3>1. k \in 1..n /\ at[k] = f[k - 1].size
      BY <1>0, <2>3
    <3> QED
      BY <1>1, <2>1, <3>1
  <2> QED
    BY <2>2, <2>3
<1>10. at[1] = 0 /\ at[n + 1] = buf.size
  BY <1>0, <1>1
<1> HIDE DEF at
<1>11. Lie(buf, at, fields)
  BY <1>7, <1>8, <1>9 DEF Lie, n
<1>12. Spans(buf, 0, fields, buf.size)
  BY <1>10, <1>11 DEF Spans, n
<1> QED
  BY <1>12 DEF fields

-----------------------------------------------------------------------------
\* The fields of a window order.

\* Orders a server sends: all but those of which the parser cannot tell where they end.
IsOrder(o) ==
  /\ o.kind \in {"window", "deleted", "icon", "cached", "notify", "desktop", "marker"}
  /\ o.kind # "marker" => o.id \in Nat
  /\ o.kind = "window" => o.value.rects \in Nat \ {0}

Piece(o, k) == IF WireFields[k] \in o.has THEN FieldsOf(WireFields[k], o) ELSE << >>

\* What the parser knows of a window after the first k fields.
Known(o, k) ==
  [id |-> o.id, new |-> o.new,
   show |-> IF "show" \in o.has /\ 3 =< k THEN o.value.show ELSE NoValue,
   x |-> IF "offset" \in o.has /\ 11 =< k THEN o.value.x ELSE NoValue,
   w |-> IF "size" \in o.has /\ 13 =< k THEN o.value.w ELSE NoValue,
   rects |-> IF "visibility" \in o.has /\ 16 =< k /\ o.value.rects > 1 THEN o.value.rects ELSE NoValue]

Reader(pos, info) == [pos |-> pos, info |-> info]

LEMMA ReaderFacts ==
  ASSUME NEW pos, NEW info
  PROVE  Reader(pos, info).pos = pos /\ Reader(pos, info).info = info
BY DEF Reader

LEMMA StepAbsent ==
  ASSUME NEW buf, NEW has, NEW s, NEW name, NEW how, NEW n, name \notin has
  PROVE  Step(buf, has, s, <<name, how, n>>) = s
BY DEF Step

Kept == {"show", "offset", "size", "visibility"}

LEMMA StepSkips ==
  ASSUME NEW buf, NEW has, NEW pos \in Nat, NEW info, NEW name, NEW n \in Nat,
         name \in has, name \notin Kept, Fits(buf, pos, n)
  PROVE  Step(buf, has, Reader(pos, info), <<name, "skip", n>>) = Reader(pos + n, info)
BY DEF Step, Kept, Reader, NoValue

\* Items of n bytes, after their number.
Items(size, value, n) == size = 2 + value * n

LEMMA StepShow ==
  ASSUME NEW buf, NEW has, NEW pos \in Nat, NEW info, NEW value,
         "show" \in has, Read(buf, pos, 1) = value, Fits(buf, pos, 1)
  PROVE  Step(buf, has, Reader(pos, info), <<"show", "keep", 1>>)
         = Reader(pos + 1, [info EXCEPT !.show = value])
BY DEF Step, Reader, NoValue

LEMMA StepOffset ==
  ASSUME NEW buf, NEW has, NEW pos \in Nat, NEW info, NEW value,
         "offset" \in has, Read(buf, pos, 4) = value, Fits(buf, pos, 8)
  PROVE  Step(buf, has, Reader(pos, info), <<"offset", "keep", 8>>)
         = Reader(pos + 8, [info EXCEPT !.x = value])
BY DEF Step, Reader, NoValue

LEMMA StepSize ==
  ASSUME NEW buf, NEW has, NEW pos \in Nat, NEW info, NEW value,
         "size" \in has, Read(buf, pos, 4) = value, Fits(buf, pos, 8)
  PROVE  Step(buf, has, Reader(pos, info), <<"size", "keep", 8>>)
         = Reader(pos + 8, [info EXCEPT !.w = value])
BY DEF Step, Reader, NoValue

LEMMA StepVisibility ==
  ASSUME NEW buf, NEW has, NEW pos \in Nat, NEW info, NEW value \in Nat,
         "visibility" \in has, Read(buf, pos, 2) = value, Fits(buf, pos, 2 + value * 8)
  PROVE  Step(buf, has, Reader(pos, info), <<"visibility", "items", 8>>)
         = Reader(pos + (2 + value * 8), [info EXCEPT !.rects = IF value > 1 THEN value ELSE NoValue])
BY DEF Step, Reader, NoValue, Garbage

LEMMA FieldIs ==
  ASSUME NEW n, NEW value
  PROVE  IsSequence(Field(n, value)) /\ (n \in Nat \ {0} => IsFields(Field(n, value)))
<1> DEFINE f == [n |-> n, value |-> value]
<1>1. <<f>> \in Seq({f}) /\ Len(<<f>>) = 1 /\ <<f>>[1] = f /\ f.n = n
  OBVIOUS
<1>2. IsSequence(<<f>>)
  BY <1>1 DEF IsSequence
<1> HIDE DEF f
<1>3. n \in Nat \ {0} => IsFields(<<f>>)
  BY <1>1, <1>2 DEF IsFields
<1> QED
  BY <1>2, <1>3 DEF Field, f

LEMMA FieldsConcat ==
  ASSUME NEW s, IsFields(s), NEW t, IsFields(t)
  PROVE  IsFields(s \o t)
<1>1. /\ IsSequence(s \o t) /\ Len(s) \in Nat /\ Len(t) \in Nat
      /\ Len(s \o t) = Len(s) + Len(t)
      /\ \A k \in 1..Len(s) : (s \o t)[k] = s[k]
      /\ \A k \in 1..Len(t) : (s \o t)[Len(s) + k] = t[k]
  BY FieldsJoin, JoinIsSequence DEF IsFields
<1>2. ASSUME NEW k \in 1..Len(s \o t)
      PROVE  (s \o t)[k].n \in Nat \ {0}
  <2>1. CASE k =< Len(s)
    <3>1. k \in 1..Len(s)
      BY <1>1, <2>1
    <3> QED
      BY <1>1, <3>1 DEF IsFields
  <2>2. CASE ~(k =< Len(s))
    <3> DEFINE j == k - Len(s)
    <3>1. j \in 1..Len(t) /\ Len(s) + j = k
      BY <1>1, <2>2
    <3>2. (s \o t)[k] = t[j]
      BY <1>1, <3>1
    <3> HIDE DEF j
    <3> QED
      BY <3>1, <3>2 DEF IsFields
  <2> QED
    BY <2>1, <2>2
<1> QED
  BY <1>1, <1>2 DEF IsFields

LEMMA NoFields == IsFields(<< >>)
BY DEF IsFields, IsSequence

LEMMA TwoFields ==
  ASSUME NEW buf, NEW pos, NEW end, NEW n \in Nat, NEW value, NEW m \in Nat, NEW other,
         Spans(buf, pos, Field(n, value) \o Field(m, other), end)
  PROVE  pos \in Nat /\ end = pos + (n + m) /\ Fits(buf, pos, n + m) /\ Read(buf, pos, n) = value
<1>1. PICK mid : Spans(buf, pos, Field(n, value), mid) /\ Spans(buf, mid, Field(m, other), end)
  BY SpansSplit, FieldIs
<1>2. pos \in Nat /\ mid = pos + n /\ Read(buf, pos, n) = value
  BY <1>1, FieldReads
<1>3. end = mid + m /\ Fits(buf, mid, m)
  BY <1>1, FieldReads
<1> QED
  BY <1>2, <1>3 DEF Fits

LEMMA JoinedIsFields ==
  ASSUME NEW seqs, EachIsFields(seqs)
  PROVE  IsFields(Joined(seqs))
<1> DEFINE n == Len(seqs)
<1>1. PICK f : /\ f[0] = << >> /\ Joined(seqs) = f[n]
               /\ \A k \in 1..n : f[k] = f[k - 1] \o seqs[k]
  BY JoinedSteps DEF EachIsFields
<1>0. n \in Nat /\ \A k \in 1..n : IsFields(seqs[k])
  BY DEF EachIsFields
<1> HIDE DEF n
<1> DEFINE T == {m \in Nat : m =< n => IsFields(f[m])}
<1>2. IsFields(<< >>)
  BY NoFields
<1>3. 0 \in T
  BY <1>1, <1>2
<1>4. \A m \in Nat : m \in T => m + 1 \in T
  <2> SUFFICES ASSUME NEW m \in Nat, m \in T, m + 1 =< n PROVE IsFields(f[m + 1])
    OBVIOUS
  <2>1. m + 1 \in 1..n /\ (m + 1) - 1 = m /\ IsFields(f[m])
    BY <1>0
  <2>2. f[m + 1] = f[m] \o seqs[m + 1] /\ IsFields(seqs[m + 1])
    BY <1>0, <1>1, <2>1
  <2> QED
    BY <2>1, <2>2, FieldsConcat
<1> HIDE DEF T
<1>5. n \in T
  BY <1>0, <1>3, <1>4, Induction
<1> QED
  BY <1>0, <1>1, <1>5 DEF T

\* How a field is written, and what the parser does with it.
LEMMA FieldTable ==
  /\ WireFields[1] = "owner" /\ Steps[1] = <<"owner", "skip", 4>>
  /\ WireFields[2] = "style" /\ Steps[2] = <<"style", "skip", 8>>
  /\ WireFields[3] = "show" /\ Steps[3] = <<"show", "keep", 1>>
  /\ WireFields[4] = "title" /\ Steps[4] = <<"title", "items", 1>>
  /\ WireFields[5] = "clientOffset" /\ Steps[5] = <<"clientOffset", "skip", 8>>
  /\ WireFields[6] = "clientSize" /\ Steps[6] = <<"clientSize", "skip", 8>>
  /\ WireFields[7] = "marginX" /\ Steps[7] = <<"marginX", "skip", 8>>
  /\ WireFields[8] = "marginY" /\ Steps[8] = <<"marginY", "skip", 8>>
  /\ WireFields[9] = "content" /\ Steps[9] = <<"content", "skip", 1>>
  /\ WireFields[10] = "rootParent" /\ Steps[10] = <<"rootParent", "skip", 4>>
  /\ WireFields[11] = "offset" /\ Steps[11] = <<"offset", "keep", 8>>
  /\ WireFields[12] = "delta" /\ Steps[12] = <<"delta", "skip", 8>>
  /\ WireFields[13] = "size" /\ Steps[13] = <<"size", "keep", 8>>
  /\ WireFields[14] = "rects" /\ Steps[14] = <<"rects", "items", 8>>
  /\ WireFields[15] = "visibleOffset" /\ Steps[15] = <<"visibleOffset", "skip", 8>>
  /\ WireFields[16] = "visibility" /\ Steps[16] = <<"visibility", "items", 8>>
  /\ WireFields[17] = "overlay"
BY DEF WireFields, Steps

LEMMA WrittenFields ==
  ASSUME NEW o
  PROVE  /\ FieldsOf("owner", o) = Field(4, 0)
         /\ FieldsOf("style", o) = Field(8, 0)
         /\ FieldsOf("clientOffset", o) = Field(8, 0)
         /\ FieldsOf("clientSize", o) = Field(8, 0)
         /\ FieldsOf("marginX", o) = Field(8, 0)
         /\ FieldsOf("marginY", o) = Field(8, 0)
         /\ FieldsOf("content", o) = Field(1, 0)
         /\ FieldsOf("rootParent", o) = Field(4, 0)
         /\ FieldsOf("delta", o) = Field(8, 0)
         /\ FieldsOf("visibleOffset", o) = Field(8, 0)
         /\ FieldsOf("overlay", o) = Field(3, 0)
         /\ FieldsOf("show", o) = Field(1, o.value.show)
         /\ FieldsOf("title", o) = Field(2, 4) \o Field(4, 0)
         /\ FieldsOf("offset", o) = Field(4, o.value.x) \o Field(4, 0)
         /\ FieldsOf("size", o) = Field(4, o.value.w) \o Field(4, 1)
         /\ FieldsOf("rects", o) = Field(2, 1) \o Field(8, 0)
         /\ FieldsOf("visibility", o) = Field(2, o.value.rects) \o Field(8 * o.value.rects, 0)
BY DEF FieldsOf

\* A field that is skipped or kept leaves the reader where it ends.
StepOf(buf, o, k, pos, end) ==
  end \in Nat /\ Step(buf, o.has, Reader(pos, Known(o, k - 1)), Steps[k]) = Reader(end, Known(o, k))

LEMMA KnownStays ==
  ASSUME NEW o, NEW k \in 1..16, k \notin {3, 11, 13, 16}
  PROVE  Known(o, k) = Known(o, k - 1)
BY DEF Known

LEMMA PieceSkips ==
  ASSUME NEW buf, NEW o, NEW k \in 1..16, NEW pos \in Nat, NEW end, Spans(buf, pos, Piece(o, k), end),
         NEW n \in Nat, k \notin {3, 11, 13, 16}, WireFields[k] \notin Kept, WireFields[k] \in o.has,
         Steps[k] = <<WireFields[k], "skip", n>>, FieldsOf(WireFields[k], o) = Field(n, 0)
  PROVE  StepOf(buf, o, k, pos, end)
<1>1. Piece(o, k) = Field(n, 0)
  BY DEF Piece
<1>2. end = pos + n /\ Fits(buf, pos, n)
  BY <1>1, FieldReads
<1>3. Step(buf, o.has, Reader(pos, Known(o, k - 1)), Steps[k]) = Reader(end, Known(o, k - 1))
  BY <1>2, StepSkips
<1> QED
  BY <1>2, <1>3, KnownStays DEF StepOf

LEMMA PieceItems ==
  ASSUME NEW buf, NEW o, NEW k \in 1..16, NEW pos \in Nat, NEW end, Spans(buf, pos, Piece(o, k), end),
         NEW n \in Nat, NEW value \in Nat, NEW m \in Nat, NEW size \in Nat, size = 2 + m, Items(size, value, n),
         k \notin {3, 11, 13, 16}, WireFields[k] \notin Kept, WireFields[k] \in o.has,
         Steps[k] = <<WireFields[k], "items", n>>,
         FieldsOf(WireFields[k], o) = Field(2, value) \o Field(m, 0)
  PROVE  StepOf(buf, o, k, pos, end)
<1>1. Piece(o, k) = Field(2, value) \o Field(m, 0)
  BY DEF Piece
<1>2. end = pos + size /\ Fits(buf, pos, size) /\ Read(buf, pos, 2) = value
  BY <1>1, TwoFields
<1>3. Step(buf, o.has, Reader(pos, Known(o, k - 1)), Steps[k]) = Reader(end, Known(o, k - 1))
  <2>1. Step(buf, o.has, Reader(pos, Known(o, k - 1)), <<WireFields[k], "items", n>>)
        = Reader(pos + size, Known(o, k - 1))
    BY <1>2 DEF Step, Reader, Kept, NoValue, Garbage, Items
  <2> QED
    BY <1>2, <2>1, Zenon
<1> QED
  BY <1>2, <1>3, KnownStays DEF StepOf

LEMMA PieceStep ==
  ASSUME NEW buf, NEW o, IsOrder(o), o.kind = "window", NEW k \in 1..16, NEW pos \in Nat, NEW end,
         Spans(buf, pos, Piece(o, k), end)
  PROVE  StepOf(buf, o, k, pos, end)
<1> DEFINE Goal == StepOf(buf, o, k, pos, end)
<1>1. CASE WireFields[k] \notin o.has
  <2>1. pos = end
    BY <1>1, EmptySpan DEF Piece
  <2>2. \E how, n : Steps[k] = <<WireFields[k], how, n>>
    BY FieldTable
  <2>3. Known(o, k) = Known(o, k - 1)
    BY <1>1, FieldTable DEF Known
  <2> QED
    BY <1>1, <2>1, <2>2, <2>3, StepAbsent DEF StepOf
<1>2. ASSUME k = 1, WireFields[k] \in o.has PROVE Goal
  <2>1. WireFields[k] = "owner" /\ Steps[k] = <<WireFields[k], "skip", 4>>
    BY <1>2, FieldTable
  <2>2. FieldsOf(WireFields[k], o) = Field(4, 0)
    BY <2>1, WrittenFields
  <2>3. k \notin {3, 11, 13, 16} /\ WireFields[k] \notin Kept
    BY <1>2, <2>1 DEF Kept
  <2> QED
    BY <1>2, <2>1, <2>2, <2>3, PieceSkips
<1>3. ASSUME k = 2, WireFields[k] \in o.has PROVE Goal
  <2>1. WireFields[k] = "style" /\ Steps[k] = <<WireFields[k], "skip", 8>>
    BY <1>3, FieldTable
  <2>2. FieldsOf(WireFields[k], o) = Field(8, 0)
    BY <2>1, WrittenFields
  <2>3. k \notin {3, 11, 13, 16} /\ WireFields[k] \notin Kept
    BY <1>3, <2>1 DEF Kept
  <2> QED
    BY <1>3, <2>1, <2>2, <2>3, PieceSkips
<1>4. ASSUME k = 3, WireFields[k] \in o.has PROVE Goal
  <2>1. WireFields[k] = "show" /\ Steps[k] = <<"show", "keep", 1>>
    BY <1>4, FieldTable
  <2>2. Piece(o, k) = Field(1, o.value.show)
    BY <1>4, <2>1, WrittenFields DEF Piece
  <2>3. end = pos + 1 /\ Fits(buf, pos, 1) /\ Read(buf, pos, 1) = o.value.show
    BY <2>2, FieldReads
  <2>4. Known(o, 3) = [Known(o, 2) EXCEPT !.show = o.value.show]
    BY <1>4, <2>1 DEF Known
  <2> QED
    BY <1>4, <2>1, <2>3, <2>4, StepShow DEF StepOf
<1>5. ASSUME k = 4, WireFields[k] \in o.has PROVE Goal
  <2>1. WireFields[k] = "title" /\ Steps[k] = <<WireFields[k], "items", 1>>
    BY <1>5, FieldTable
  <2>2. FieldsOf(WireFields[k], o) = Field(2, 4) \o Field(4, 0)
    BY <2>1, WrittenFields
  <2>3. k \notin {3, 11, 13, 16} /\ WireFields[k] \notin Kept
    BY <1>5, <2>1 DEF Kept
  <2>4. Items(6, 4, 1) /\ 6 = 2 + 4
    BY DEF Items
  <2> QED
    BY <1>5, <2>1, <2>2, <2>3, <2>4, PieceItems
<1>6. ASSUME k = 5, WireFields[k] \in o.has PROVE Goal
  <2>1. WireFields[k] = "clientOffset" /\ Steps[k] = <<WireFields[k], "skip", 8>>
    BY <1>6, FieldTable
  <2>2. FieldsOf(WireFields[k], o) = Field(8, 0)
    BY <2>1, WrittenFields
  <2>3. k \notin {3, 11, 13, 16} /\ WireFields[k] \notin Kept
    BY <1>6, <2>1 DEF Kept
  <2> QED
    BY <1>6, <2>1, <2>2, <2>3, PieceSkips
<1>7. ASSUME k = 6, WireFields[k] \in o.has PROVE Goal
  <2>1. WireFields[k] = "clientSize" /\ Steps[k] = <<WireFields[k], "skip", 8>>
    BY <1>7, FieldTable
  <2>2. FieldsOf(WireFields[k], o) = Field(8, 0)
    BY <2>1, WrittenFields
  <2>3. k \notin {3, 11, 13, 16} /\ WireFields[k] \notin Kept
    BY <1>7, <2>1 DEF Kept
  <2> QED
    BY <1>7, <2>1, <2>2, <2>3, PieceSkips
<1>8. ASSUME k = 7, WireFields[k] \in o.has PROVE Goal
  <2>1. WireFields[k] = "marginX" /\ Steps[k] = <<WireFields[k], "skip", 8>>
    BY <1>8, FieldTable
  <2>2. FieldsOf(WireFields[k], o) = Field(8, 0)
    BY <2>1, WrittenFields
  <2>3. k \notin {3, 11, 13, 16} /\ WireFields[k] \notin Kept
    BY <1>8, <2>1 DEF Kept
  <2> QED
    BY <1>8, <2>1, <2>2, <2>3, PieceSkips
<1>9. ASSUME k = 8, WireFields[k] \in o.has PROVE Goal
  <2>1. WireFields[k] = "marginY" /\ Steps[k] = <<WireFields[k], "skip", 8>>
    BY <1>9, FieldTable
  <2>2. FieldsOf(WireFields[k], o) = Field(8, 0)
    BY <2>1, WrittenFields
  <2>3. k \notin {3, 11, 13, 16} /\ WireFields[k] \notin Kept
    BY <1>9, <2>1 DEF Kept
  <2> QED
    BY <1>9, <2>1, <2>2, <2>3, PieceSkips
<1>10. ASSUME k = 9, WireFields[k] \in o.has PROVE Goal
  <2>1. WireFields[k] = "content" /\ Steps[k] = <<WireFields[k], "skip", 1>>
    BY <1>10, FieldTable
  <2>2. FieldsOf(WireFields[k], o) = Field(1, 0)
    BY <2>1, WrittenFields
  <2>3. k \notin {3, 11, 13, 16} /\ WireFields[k] \notin Kept
    BY <1>10, <2>1 DEF Kept
  <2> QED
    BY <1>10, <2>1, <2>2, <2>3, PieceSkips
<1>11. ASSUME k = 10, WireFields[k] \in o.has PROVE Goal
  <2>1. WireFields[k] = "rootParent" /\ Steps[k] = <<WireFields[k], "skip", 4>>
    BY <1>11, FieldTable
  <2>2. FieldsOf(WireFields[k], o) = Field(4, 0)
    BY <2>1, WrittenFields
  <2>3. k \notin {3, 11, 13, 16} /\ WireFields[k] \notin Kept
    BY <1>11, <2>1 DEF Kept
  <2> QED
    BY <1>11, <2>1, <2>2, <2>3, PieceSkips
<1>12. ASSUME k = 11, WireFields[k] \in o.has PROVE Goal
  <2>1. WireFields[k] = "offset" /\ Steps[k] = <<"offset", "keep", 8>>
    BY <1>12, FieldTable
  <2>2. Piece(o, k) = Field(4, o.value.x) \o Field(4, 0)
    BY <1>12, <2>1, WrittenFields DEF Piece
  <2>3. end = pos + 8 /\ Fits(buf, pos, 8) /\ Read(buf, pos, 4) = o.value.x
    BY <2>2, TwoFields
  <2>4. Known(o, 11) = [Known(o, 10) EXCEPT !.x = o.value.x]
    BY <1>12, <2>1 DEF Known
  <2> QED
    BY <1>12, <2>1, <2>3, <2>4, StepOffset DEF StepOf
<1>13. ASSUME k = 12, WireFields[k] \in o.has PROVE Goal
  <2>1. WireFields[k] = "delta" /\ Steps[k] = <<WireFields[k], "skip", 8>>
    BY <1>13, FieldTable
  <2>2. FieldsOf(WireFields[k], o) = Field(8, 0)
    BY <2>1, WrittenFields
  <2>3. k \notin {3, 11, 13, 16} /\ WireFields[k] \notin Kept
    BY <1>13, <2>1 DEF Kept
  <2> QED
    BY <1>13, <2>1, <2>2, <2>3, PieceSkips
<1>14. ASSUME k = 13, WireFields[k] \in o.has PROVE Goal
  <2>1. WireFields[k] = "size" /\ Steps[k] = <<"size", "keep", 8>>
    BY <1>14, FieldTable
  <2>2. Piece(o, k) = Field(4, o.value.w) \o Field(4, 1)
    BY <1>14, <2>1, WrittenFields DEF Piece
  <2>3. end = pos + 8 /\ Fits(buf, pos, 8) /\ Read(buf, pos, 4) = o.value.w
    BY <2>2, TwoFields
  <2>4. Known(o, 13) = [Known(o, 12) EXCEPT !.w = o.value.w]
    BY <1>14, <2>1 DEF Known
  <2> QED
    BY <1>14, <2>1, <2>3, <2>4, StepSize DEF StepOf
<1>15. ASSUME k = 14, WireFields[k] \in o.has PROVE Goal
  <2>1. WireFields[k] = "rects" /\ Steps[k] = <<WireFields[k], "items", 8>>
    BY <1>15, FieldTable
  <2>2. FieldsOf(WireFields[k], o) = Field(2, 1) \o Field(8, 0)
    BY <2>1, WrittenFields
  <2>3. k \notin {3, 11, 13, 16} /\ WireFields[k] \notin Kept
    BY <1>15, <2>1 DEF Kept
  <2>4. Items(10, 1, 8) /\ 10 = 2 + 8
    BY DEF Items
  <2> QED
    BY <1>15, <2>1, <2>2, <2>3, <2>4, PieceItems
<1>16. ASSUME k = 15, WireFields[k] \in o.has PROVE Goal
  <2>1. WireFields[k] = "visibleOffset" /\ Steps[k] = <<WireFields[k], "skip", 8>>
    BY <1>16, FieldTable
  <2>2. FieldsOf(WireFields[k], o) = Field(8, 0)
    BY <2>1, WrittenFields
  <2>3. k \notin {3, 11, 13, 16} /\ WireFields[k] \notin Kept
    BY <1>16, <2>1 DEF Kept
  <2> QED
    BY <1>16, <2>1, <2>2, <2>3, PieceSkips
<1>17. ASSUME k = 16, WireFields[k] \in o.has PROVE Goal
  <2> DEFINE r == o.value.rects
             m == 8 * r
  <2>0. r \in Nat /\ m \in Nat /\ m = r * 8
    BY DEF IsOrder
  <2>1. WireFields[k] = "visibility" /\ Steps[k] = <<"visibility", "items", 8>>
    BY <1>17, FieldTable
  <2>2. Piece(o, k) = Field(2, r) \o Field(m, 0)
    BY <1>17, <2>1, WrittenFields DEF Piece
  <2> HIDE DEF m
  <2>3. end = pos + (2 + m) /\ Fits(buf, pos, 2 + m) /\ Read(buf, pos, 2) = r
    BY <2>0, <2>2, TwoFields
  <2>4. Known(o, 16) = [Known(o, 15) EXCEPT !.rects = IF r > 1 THEN r ELSE NoValue]
    BY <1>17, <2>1 DEF Known
  <2> HIDE DEF r
  <2>5. end = pos + (2 + r * 8) /\ Fits(buf, pos, 2 + r * 8)
    BY <2>0, <2>3
  <2> QED
    BY <1>17, <2>0, <2>1, <2>3, <2>4, <2>5, StepVisibility DEF StepOf
<1> QED
  BY <1>1, <1>2, <1>3, <1>4, <1>5, <1>6, <1>7, <1>8, <1>9, <1>10, <1>11, <1>12, <1>13, <1>14, <1>15, <1>16, <1>17

-----------------------------------------------------------------------------
\* The orders of an update.
Pieces(o) == [k \in 1..17 |-> Piece(o, k)]

LEMMA PieceIs ==
  ASSUME NEW o, IsOrder(o), o.kind = "window", NEW k \in 1..17
  PROVE  IsFields(Piece(o, k))
<1> DEFINE r == o.value.rects
           m == 8 * r
<1>0. r \in Nat \ {0} /\ m \in Nat \ {0}
  BY DEF IsOrder
<1> HIDE DEF r, m
<1>a. \A n, value : n \in Nat \ {0} => IsFields(Field(n, value))
  BY FieldIs
<1>1. \A value : /\ IsFields(Field(1, value)) /\ IsFields(Field(2, value)) /\ IsFields(Field(3, value))
                 /\ IsFields(Field(4, value)) /\ IsFields(Field(8, value)) /\ IsFields(Field(m, value))
  BY <1>0, <1>a
<1>2. IsFields(Field(2, r) \o Field(m, 0))
  BY <1>0, <1>1, FieldsConcat
<1>3. IsFields(Field(2, 4) \o Field(4, 0)) /\ IsFields(Field(2, 1) \o Field(8, 0))
  BY <1>1, FieldsConcat
<1>4. \A x : IsFields(Field(4, x) \o Field(4, 0)) /\ IsFields(Field(4, x) \o Field(4, 1))
  BY <1>1, FieldsConcat
<1> DEFINE Good(name) == IsFields(FieldsOf(name, o))
<1>5. Good("owner") /\ Good("style") /\ Good("show") /\ Good("title")
  BY <1>1, <1>3, WrittenFields
<1>6. Good("clientOffset") /\ Good("clientSize") /\ Good("marginX") /\ Good("marginY")
  BY <1>1, WrittenFields
<1>7. Good("content") /\ Good("rootParent") /\ Good("delta") /\ Good("visibleOffset") /\ Good("overlay")
  BY <1>1, WrittenFields
<1>8. Good("offset") /\ Good("size") /\ Good("rects")
  BY <1>3, <1>4, WrittenFields
<1>9. Good("visibility")
  BY <1>2, WrittenFields DEF r, m
<1> HIDE DEF Good
<1>10. Good(WireFields[k])
  BY <1>5, <1>6, <1>7, <1>8, <1>9, FieldTable
<1> QED
  BY <1>10, NoFields DEF Piece, Good

LEMMA PiecesAre ==
  ASSUME NEW o, IsOrder(o), o.kind = "window"
  PROVE  /\ Len(Pieces(o)) = 17 /\ EachIsFields(Pieces(o))
         /\ \A k \in 1..Len(Pieces(o)) : IsFields(Pieces(o)[k]) /\ Pieces(o)[k] = Piece(o, k)
         /\ IsFields(Joined(Pieces(o)))
         /\ Body(o) = Field(4, o.id) \o Joined(Pieces(o))
<1>1. Len(Pieces(o)) = 17
  BY DEF Pieces
<1>2. \A k \in 1..17 : IsFields(Pieces(o)[k]) /\ Pieces(o)[k] = Piece(o, k)
  BY PieceIs DEF Pieces
<1>7. EachIsFields(Pieces(o))
  BY <1>1, <1>2 DEF EachIsFields
<1>3. IsFields(Joined(Pieces(o)))
  BY <1>7, JoinedIsFields
<1>4. DOMAIN WireFields = 1..17
  BY DEF WireFields
<1>5. Pieces(o) = [k \in DOMAIN WireFields |-> IF WireFields[k] \in o.has THEN FieldsOf(WireFields[k], o) ELSE << >>]
  BY <1>4 DEF Pieces, Piece
<1>6. Body(o) = Field(4, o.id) \o Joined(Pieces(o))
  BY <1>5 DEF Body
<1> QED
  BY <1>1, <1>2, <1>3, <1>6, <1>7

LEMMA BodyIs ==
  ASSUME NEW o, IsOrder(o)
  PROVE  IsFields(Body(o)) /\ \E rest : IsFields(rest) /\ Body(o) = Field(4, o.id) \o rest
<1>0. IsFields(Field(4, o.id)) /\ IsFields(Field(6, 0))
  BY FieldIs
<1>1. CASE o.kind = "window"
  <2>1. Body(o) = Field(4, o.id) \o Joined(Pieces(o)) /\ IsFields(Joined(Pieces(o)))
    BY <1>1, PiecesAre
  <2> QED
    BY <1>0, <2>1, FieldsConcat
<1>2. CASE o.kind = "icon"
  <2>1. Body(o) = Field(4, o.id) \o Field(6, 0)
    BY <1>2 DEF Body
  <2> QED
    BY <1>0, <2>1, FieldsConcat
<1>3. CASE o.kind \notin {"window", "icon"}
  <2>1. Body(o) = Field(4, o.id) \o << >>
    BY <1>3 DEF Body
  <2> QED
    BY <1>0, <2>1, NoFields, FieldsConcat
<1> QED
  BY <1>1, <1>2, <1>3

LEMMA EncodedIs ==
  ASSUME NEW o, IsOrder(o)
  PROVE  IsFields(Encoded(o))
<1>1. CASE o.kind = "marker"
  <2>1. Encoded(o) = Field(1, ORDER_TYPE_FRAME_MARKER) \o Field(4, 0)
    BY <1>1 DEF Encoded
  <2> QED
    BY <2>1, FieldIs, FieldsConcat
<1>2. CASE o.kind # "marker"
  <2>1. Encoded(o) = Field(1, ORDER_TYPE_WINDOW) \o Field(2, 7 + Size(Body(o))) \o Field(4, o) \o Body(o)
    BY <1>2 DEF Encoded, IsOrder
  <2>2. IsFields(Field(1, ORDER_TYPE_WINDOW)) /\ IsFields(Field(2, 7 + Size(Body(o)))) /\ IsFields(Field(4, o))
    BY FieldIs
  <2> QED
    BY <2>1, <2>2, BodyIs, FieldsConcat
<1> QED
  BY <1>1, <1>2

LEMMA WindowRead ==
  ASSUME NEW buf, NEW o, IsOrder(o), o.kind = "window", NEW pos, NEW end,
         Spans(buf, pos, Joined(Pieces(o)), end)
  PROVE  /\ WindowState(buf, pos, o.id, o.new, o.has).pos # NoValue
         /\ WindowState(buf, pos, o.id, o.new, o.has).info = Known(o, 16)
<1>0. pos \in Nat
  BY PiecesAre, SpanSize
<1>1. PICK c : c[1] = pos /\ c[17 + 1] = end /\ Joints(buf, c, Pieces(o), 17)
  <2>1. Len(Pieces(o)) = 17 /\ EachIsFields(Pieces(o))
    BY PiecesAre
  <2>2. Jointed(buf, pos, Pieces(o), Len(Pieces(o)), end)
    BY <2>1, JoinedSpans
  <2> QED
    BY <2>1, <2>2, Zenon DEF Jointed
<1>2. PICK f : /\ f[0] = [pos |-> pos, info |-> NoInfo(o.id, o.new)]
               /\ WindowState(buf, pos, o.id, o.new, o.has) = f[16]
               /\ \A k \in 1..16 : f[k] = Step(buf, o.has, f[k - 1], Steps[k])
  BY FieldSteps
<1> DEFINE T == {k \in Nat : k =< 16 => c[k + 1] \in Nat /\ f[k] = Reader(c[k + 1], Known(o, k))}
<1>3. 0 \in T
  <2>1. NoInfo(o.id, o.new) = Known(o, 0)
    BY DEF NoInfo, Known
  <2>2. f[0] = Reader(c[0 + 1], Known(o, 0))
    BY <1>1, <1>2, <2>1 DEF Reader
  <2> QED
    BY <1>0, <1>1, <2>2
<1>4. \A k \in Nat : k \in T => k + 1 \in T
  <2> SUFFICES ASSUME NEW k \in Nat, k \in T, k + 1 =< 16
               PROVE  c[(k + 1) + 1] \in Nat /\ f[k + 1] = Reader(c[(k + 1) + 1], Known(o, k + 1))
    OBVIOUS
  <2>1. k + 1 \in 1..16 /\ k + 1 \in 1..17 /\ (k + 1) - 1 = k
    OBVIOUS
  <2>2. c[k + 1] \in Nat /\ f[k] = Reader(c[k + 1], Known(o, k))
    OBVIOUS
  <2>3. Spans(buf, c[k + 1], Piece(o, k + 1), c[(k + 1) + 1])
    BY <1>1, <2>1, PiecesAre DEF Joints
  <2>4. StepOf(buf, o, k + 1, c[k + 1], c[(k + 1) + 1])
    BY <2>1, <2>2, <2>3, PieceStep
  <2>5. f[k + 1] = Step(buf, o.has, f[k], Steps[k + 1])
    BY <1>2, <2>1
  <2> QED
    BY <2>1, <2>2, <2>4, <2>5 DEF StepOf
<1> HIDE DEF T
<1>5. 16 \in T
  BY <1>3, <1>4, Induction
<1>6. c[16 + 1] \in Nat /\ f[16] = Reader(c[16 + 1], Known(o, 16))
  BY <1>5 DEF T
<1> QED
  BY <1>2, <1>6, ReaderFacts DEF NoValue

\* What an order says.
EventsOf(o) ==
  CASE o.kind = "window"  -> <<[event |-> "window", info |-> Known(o, 16)]>>
    [] o.kind = "deleted" -> <<[event |-> "deleted", id |-> o.id]>>
    [] o.kind = "icon"    -> <<[event |-> "icon", id |-> o.id]>>
    [] o.kind = "desktop" -> <<[event |-> "active", id |-> o.id]>>
    [] OTHER              -> << >>

LEMMA EventsRead ==
  ASSUME NEW buf, NEW o, IsOrder(o), o.kind # "marker", NEW pos, NEW end, Spans(buf, pos, Body(o), end)
  PROVE  OrderEvents(buf, pos, o) = EventsOf(o)
<1>0. o.id \in Nat /\ o.id # NoValue
  BY DEF IsOrder, NoValue
<1>1. CASE o.kind = "window"
  <2>1. PICK mid : Spans(buf, pos, Field(4, o.id), mid) /\ Spans(buf, mid, Joined(Pieces(o)), end)
    <3>1. IsSequence(Field(4, o.id)) /\ IsSequence(Joined(Pieces(o)))
      BY <1>1, PiecesAre, FieldIs DEF IsFields
    <3> QED
      BY <1>1, <3>1, PiecesAre, SpansSplit
  <2>2. mid = pos + 4 /\ Read(buf, pos, 4) = o.id
    BY <2>1, FieldReads
  <2> DEFINE s == WindowState(buf, pos + 4, o.id, o.new, o.has)
  <2>3. s.pos # NoValue /\ s.info = Known(o, 16)
    BY <1>1, <2>1, <2>2, WindowRead
  <2>4. OrderEvents(buf, pos, o) = <<[event |-> "window", info |-> s.info]>>
    BY <1>0, <1>1, <2>2, <2>3 DEF OrderEvents, s
  <2> QED
    BY <1>1, <2>3, <2>4 DEF EventsOf
<1>2. CASE o.kind # "window"
  <2>1. PICK rest : IsFields(rest) /\ Body(o) = Field(4, o.id) \o rest
    BY BodyIs
  <2>2. PICK mid : Spans(buf, pos, Field(4, o.id), mid)
    BY <2>1, FieldIs, SpansSplit DEF IsFields
  <2>3. Read(buf, pos, 4) = o.id
    BY <2>2, FieldReads
  <2> QED
    BY <1>0, <1>2, <2>3 DEF OrderEvents, EventsOf, IsOrder
<1> QED
  BY <1>1, <1>2

\* The parser s is at pos, and has found events.
Parser(s, pos, events) ==
  /\ DOMAIN s = {"pos", "events", "stopped"}
  /\ s.pos = pos /\ s.events = events /\ s.stopped = FALSE

LEMMA EventsOfIs ==
  ASSUME NEW o
  PROVE  IsSequence(EventsOf(o))
<1>1. \A e : IsSequence(<<e>>)
  <2> SUFFICES ASSUME NEW e PROVE IsSequence(<<e>>)
    OBVIOUS
  <2>1. <<e>> \in Seq({e})
    OBVIOUS
  <2> QED
    BY <2>1 DEF IsSequence
<1>2. IsSequence(<< >>)
  BY DEF IsSequence
<1> QED
  BY <1>1, <1>2 DEF EventsOf

\* The parser goes from order to order.
LEMMA OrderRead ==
  ASSUME NEW buf, buf.size \in Nat, NEW o, IsOrder(o), NEW pos, NEW end,
         Spans(buf, pos, Encoded(o), end), NEW events, IsSequence(events),
         NEW s, Parser(s, pos, events)
  PROVE  Parser(Next1(buf, s), end, events \o EventsOf(o))
<1>0. s.pos = pos /\ s.events = events /\ s.stopped = FALSE
  BY DEF Parser
<1>1. CASE o.kind = "marker"
  <2>1. Encoded(o) = Field(1, ORDER_TYPE_FRAME_MARKER) \o Field(4, 0)
    BY <1>1 DEF Encoded
  <2>2. /\ pos \in Nat /\ end = pos + 5 /\ Fits(buf, pos, 5)
        /\ Read(buf, pos, 1) = ORDER_TYPE_FRAME_MARKER
    BY <2>1, TwoFields
  <2>3. Fits(buf, pos + 1, 4)
    BY <2>2 DEF Fits
  <2>4. events \o EventsOf(o) = events
    <3>1. EventsOf(o) = << >>
      BY <1>1 DEF EventsOf
    <3>2. Len(<< >>) = 0 /\ IsSequence(<< >>)
      BY <3>1, EventsOfIs
    <3> QED
      BY <3>1 DEF IsSequence
  <2>5. Next1(buf, s) = [s EXCEPT !.pos = s.pos + 5]
    BY <1>0, <2>2, <2>3 DEF Next1, ORDER_TYPE_WINDOW, ORDER_TYPE_FRAME_MARKER
  <2>6. Parser(Next1(buf, s), end, events)
    BY <1>0, <2>2, <2>5 DEF Parser
  <2> QED
    BY <2>4, <2>6
<1>2. CASE o.kind # "marker"
  <2> DEFINE size == 7 + Size(Body(o))
             a == Field(1, ORDER_TYPE_WINDOW)
             b == Field(2, size)
             c == Field(4, o)
             d == Body(o)
  <2>1. Encoded(o) = ((a \o b) \o c) \o d
    BY <1>2 DEF Encoded, IsOrder
  <2>2. IsFields(a) /\ IsFields(b) /\ IsFields(c) /\ IsFields(d)
    BY FieldIs, BodyIs
  <2>3. IsFields(a \o b) /\ IsFields((a \o b) \o c)
    BY <2>2, FieldsConcat
  <2> HIDE DEF a, b, c, d
  <2>4. PICK p3 : Spans(buf, pos, (a \o b) \o c, p3) /\ Spans(buf, p3, d, end)
    BY <2>1, <2>2, <2>3, SpansSplit DEF IsFields
  <2>5. PICK p2 : Spans(buf, pos, a \o b, p2) /\ Spans(buf, p2, c, p3)
    BY <2>2, <2>3, <2>4, SpansSplit DEF IsFields
  <2>6. PICK p1 : Spans(buf, pos, a, p1) /\ Spans(buf, p1, b, p2)
    BY <2>2, <2>5, SpansSplit DEF IsFields
  <2>7. pos \in Nat /\ p1 = pos + 1 /\ Read(buf, pos, 1) = ORDER_TYPE_WINDOW
    BY <2>6, FieldReads DEF a
  <2>8. p2 = p1 + 2 /\ Read(buf, p1, 2) = size
    BY <2>6, FieldReads DEF b
  <2>9. p3 = p2 + 4 /\ Fits(buf, p2, 4) /\ buf.at[p2].value = o
    BY <2>5, FieldReads DEF c
  <2>10. Size(Body(o)) \in Nat /\ end = p3 + Size(Body(o)) /\ end =< buf.size
    BY <2>2, <2>4, SpanSize DEF d
  <2>11. OrderEvents(buf, p3, o) = EventsOf(o)
    BY <1>2, <2>4, EventsRead DEF d
  <2>12. p1 = pos + 1 /\ p2 = pos + 3 /\ p3 = pos + 7 /\ end = pos + size /\ size \in Nat /\ ~(size < 3)
    BY <2>7, <2>8, <2>9, <2>10
  <2> HIDE DEF size
  <2>13. ~(pos + size > buf.size)
    BY <2>10, <2>12
  <2>15. /\ Read(buf, pos, 1) = ORDER_TYPE_WINDOW /\ Read(buf, pos + 1, 2) = size
         /\ Fits(buf, pos + 3, 4) /\ buf.at[pos + 3].value = o
         /\ OrderEvents(buf, pos + 7, o) = EventsOf(o)
    BY <2>7, <2>8, <2>9, <2>11, <2>12
  <2>18. /\ Read(buf, s.pos, 1) = ORDER_TYPE_WINDOW /\ Read(buf, s.pos + 1, 2) = size
         /\ Fits(buf, s.pos + 3, 4) /\ buf.at[s.pos + 3].value = o
         /\ ~(size < 3) /\ ~(s.pos + size > buf.size) /\ ~s.stopped
    BY <1>0, <2>12, <2>13, <2>15
  <2>16. Next1(buf, s) = [s EXCEPT !.events = s.events \o OrderEvents(buf, s.pos + 7, o), !.pos = s.pos + size]
    <3> ORDER_TYPE_WINDOW # ORDER_TYPE_FRAME_MARKER
      BY DEF ORDER_TYPE_WINDOW, ORDER_TYPE_FRAME_MARKER
    <3> QED
      BY <2>18, Zenon DEF Next1
  <2>17. Next1(buf, s) = [s EXCEPT !.events = events \o EventsOf(o), !.pos = end]
    BY <1>0, <2>12, <2>15, <2>16
  <2> QED
    BY <2>17 DEF Parser
<1> QED
  BY <1>1, <1>2

AreOrders(orders) == IsSequence(orders) /\ \A k \in 1..Len(orders) : IsOrder(orders[k])

LEMMA PayloadIs ==
  ASSUME NEW orders, AreOrders(orders)
  PROVE  /\ EachIsFields([k \in DOMAIN orders |-> Encoded(orders[k])])
         /\ Len([k \in DOMAIN orders |-> Encoded(orders[k])]) = Len(orders)
         /\ IsFields(FieldsOfAll(orders))
<1> DEFINE seqs == [k \in DOMAIN orders |-> Encoded(orders[k])]
           n == Len(orders)
<1>1. n \in Nat /\ DOMAIN orders = 1..n
  BY DEF AreOrders, IsSequence
<1>2. seqs = [k \in 1..n |-> Encoded(orders[k])]
  BY <1>1
<1>3. Len(seqs) = n
  BY <1>1, <1>2
<1>4. \A k \in 1..n : IsFields(seqs[k])
  BY <1>2, EncodedIs DEF AreOrders
<1> HIDE DEF seqs
<1>5. EachIsFields(seqs)
  BY <1>1, <1>3, <1>4 DEF EachIsFields
<1>6. IsFields(Field(2, n))
  BY FieldIs
<1>7. IsFields(Field(2, n) \o Joined(seqs))
  BY <1>5, <1>6, JoinedIsFields, FieldsConcat
<1> QED
  BY <1>3, <1>5, <1>7 DEF FieldsOfAll, seqs

(* Whatever orders an update is made of, whatever fields each carries and whatever stands   *)
(* between them, what the parser finds in it are the events of the orders, in their order:  *)
(* window.rs never reads a field of one as another's, nor an order at another's place.      *)
THEOREM ParserFollows ==
  ASSUME NEW orders, AreOrders(orders)
  PROVE  \E e : /\ e[0] = << >> /\ parse(Payload(orders)) = e[Len(orders)]
                /\ \A k \in 1..Len(orders) : e[k] = e[k - 1] \o EventsOf(orders[k]) /\ IsSequence(e[k])
<1> DEFINE n == Len(orders)
           buf == Payload(orders)
           seqs == [k \in DOMAIN orders |-> Encoded(orders[k])]
           evs == [k \in 1..n |-> EventsOf(orders[k])]
<1>0. n \in Nat /\ DOMAIN orders = 1..n
  BY DEF AreOrders, IsSequence
<1>1. PICK e : e[0] = << >> /\ \A k \in 1..n : e[k] = e[k - 1] \o EventsOf(orders[k])
  <2>1. Len(evs) = n
    BY <1>0
  <2>2. PICK e : e[0] = << >> /\ \A k \in 1..Len(evs) : e[k] = e[k - 1] \o evs[k]
    BY <1>0, <2>1, JoinedSteps
  <2> QED
    BY <2>1, <2>2
<1>2. EachIsFields(seqs) /\ Len(seqs) = n /\ IsFields(Joined(seqs))
  BY PayloadIs, JoinedIsFields
<1> DEFINE whole == Field(2, n) \o Joined(seqs)
<1>13. IsFields(whole) /\ Spans(buf, 0, whole, buf.size)
  BY PayloadIs, PayloadSpans, Zenon DEF FieldsOfAll
<1> HIDE DEF buf
<1>14. buf.size \in Nat
  <2> HIDE DEF whole
  <2> QED
    BY <1>13, SpanSize
<1>3. PICK first : Spans(buf, 0, Field(2, n), first) /\ Spans(buf, first, Joined(seqs), buf.size)
  <2>1. Spans(buf, 0, Field(2, n) \o Joined(seqs), buf.size)
    BY <1>13
  <2> HIDE DEF buf, seqs, n
  <2> QED
    BY <1>2, <2>1, SpansSplit, FieldIs DEF IsFields
<1>4. first = 2 /\ Read(buf, 0, 2) = n
  BY <1>3, FieldReads
<1>5. PICK c : c[1] = 2 /\ Joints(buf, c, seqs, n)
  BY <1>2, <1>3, <1>4, JoinedSpans, Zenon DEF Jointed
<1>6. \A k \in 1..n : Spans(buf, c[k], Encoded(orders[k]), c[k + 1])
  BY <1>0, <1>5 DEF Joints
<1>7. PICK f : /\ f[0] = [pos |-> 2, events |-> << >>, stopped |-> FALSE]
               /\ parse(buf) = f[n].events
               /\ \A k \in 1..n : f[k] = Next1(buf, f[k - 1])
  BY <1>0, <1>4, OrderSteps DEF buf
<1> HIDE DEF seqs, n, evs, whole
<1> DEFINE T == {k \in Nat : k =< n => IsSequence(e[k]) /\ Parser(f[k], c[k + 1], e[k])}
<1>8. 0 \in T
  <2>1. IsSequence(<< >>)
    BY DEF IsSequence
  <2>2. Parser(f[0], c[0 + 1], e[0])
    <3>1. f[0].pos = c[0 + 1] /\ f[0].events = e[0] /\ f[0].stopped = FALSE
      BY <1>1, <1>5, <1>7
    <3> QED
      BY <1>7, <3>1 DEF Parser
  <2> QED
    BY <1>1, <2>1, <2>2
<1>9. \A k \in Nat : k \in T => k + 1 \in T
  <2> SUFFICES ASSUME NEW k \in Nat, k \in T, k + 1 =< n
               PROVE  IsSequence(e[k + 1]) /\ Parser(f[k + 1], c[(k + 1) + 1], e[k + 1])
    OBVIOUS
  <2>1. k + 1 \in 1..n /\ (k + 1) - 1 = k /\ IsSequence(e[k]) /\ Parser(f[k], c[k + 1], e[k])
    BY <1>0
  <2>2. e[k + 1] = e[k] \o EventsOf(orders[k + 1])
    BY <1>1, <2>1
  <2>3. IsSequence(e[k + 1])
    BY <2>1, <2>2, EventsOfIs, JoinIsSequence
  <2>4. Spans(buf, c[k + 1], Encoded(orders[k + 1]), c[(k + 1) + 1]) /\ IsOrder(orders[k + 1])
    BY <1>6, <2>1 DEF AreOrders, n
  <2>5. f[k + 1] = Next1(buf, f[k])
    BY <1>7, <2>1
  <2> QED
    BY <1>14, <2>1, <2>2, <2>3, <2>4, <2>5, OrderRead
<1> HIDE DEF T
<1>10. \A k \in Nat : k \in T
  BY <1>8, <1>9, Induction
<1>11. \A k \in 0..n : IsSequence(e[k]) /\ Parser(f[k], c[k + 1], e[k])
  BY <1>0, <1>10 DEF T
<1>12. parse(buf) = e[n]
  <2>1. Parser(f[n], c[n + 1], e[n])
    BY <1>0, <1>11
  <2> QED
    BY <1>7, <2>1 DEF Parser
<1>15. \A k \in 1..n : e[k] = e[k - 1] \o EventsOf(orders[k]) /\ IsSequence(e[k])
  BY <1>0, <1>1, <1>11
<1> QED
  BY <1>1, <1>12, <1>15, Zenon DEF buf, n

-----------------------------------------------------------------------------
\* What the page shows of a window, and what it should.
Shown(win) == [x |-> win.x, w |-> win.w, hidden |-> win.hidden, withdrawn |-> win.withdrawn]
ShownAs(win) == [x |-> win.x, w |-> win.w, hidden |-> win.show # SW_SHOWNORMAL, withdrawn |-> win.show = SW_HIDE]
PageView(windows) == [id \in DOMAIN windows |-> Shown(windows[id])]
ServerView(windows) == [id \in DOMAIN windows |-> ShownAs(windows[id])]

\* A state of the page and the session loop.
IsWindow(win) == DOMAIN win = {"x", "w", "hidden", "withdrawn", "clip", "canvas"}
IsState(s) ==
  /\ DOMAIN s = {"windows", "active", "maximized", "surfaces", "inputs"}
  /\ \A id \in DOMAIN s.windows : IsWindow(s.windows[id])

\* Nothing has been left to maximize.
Settled(s) ==
  (~RailWindowed /\ s.active \in DOMAIN s.windows /\ OnScreen(s.windows[s.active])) => s.maximized

LEMMA RebuiltShows ==
  ASSUME NEW s, IsState(s)
  PROVE  /\ IsState(Rebuilt(s)) /\ PageView(Rebuilt(s).windows) = PageView(s.windows)
         /\ Settled(s) => Settled(Rebuilt(s))
<1> DEFINE t == Rebuilt(s)
<1>1. /\ DOMAIN t = DOMAIN s /\ t.active = s.active /\ t.maximized = s.maximized
      /\ DOMAIN t.windows = DOMAIN s.windows
      /\ \A id \in DOMAIN s.windows :
           \/ t.windows[id] = s.windows[id]
           \/ \E c : t.windows[id] = [s.windows[id] EXCEPT !.canvas = c]
  BY DEF Rebuilt, IsState
<1> HIDE DEF t
<1>2. \A id \in DOMAIN s.windows :
        /\ IsWindow(t.windows[id]) /\ t.windows[id].x = s.windows[id].x /\ t.windows[id].w = s.windows[id].w
        /\ t.windows[id].hidden = s.windows[id].hidden /\ t.windows[id].withdrawn = s.windows[id].withdrawn
  BY <1>1 DEF IsState, IsWindow
<1>3. PageView(t.windows) = PageView(s.windows)
  BY <1>1, <1>2 DEF PageView, Shown
<1> QED
  BY <1>1, <1>2, <1>3 DEF IsState, Settled, OnScreen, t

LEMMA MaximizeShows ==
  ASSUME NEW s, IsState(s), NEW id
  PROVE  /\ IsState(Maximize(s, id)) /\ Maximize(s, id).windows = s.windows
         /\ Maximize(s, id).active = s.active
         /\ id = s.active => Settled(Maximize(s, id))
BY DEF Maximize, IsState, Settled
\* What a window shows after a window event, and the page after an event.
Told(old, info) ==
  [x |-> IF info.x # NoValue THEN info.x ELSE old.x,
   w |-> IF info.w # NoValue THEN info.w ELSE old.w,
   hidden |-> IF info.show # NoValue THEN info.show \in {SW_HIDE, SW_SHOWMINIMIZED} ELSE old.hidden,
   withdrawn |-> IF info.show # NoValue THEN info.show = SW_HIDE ELSE old.withdrawn]
Before(view, id) == IF id \in DOMAIN view THEN view[id] ELSE Shown(NewWindow)

After(view, e) ==
  CASE e.event = "window"  -> With(view, e.info.id, Told(Before(view, e.info.id), e.info))
    [] e.event = "deleted" -> Without(view, e.id)
    [] OTHER               -> view

LEMMA PageViewWith ==
  ASSUME NEW windows, NEW id, NEW win
  PROVE  PageView(With(windows, id, win)) = With(PageView(windows), id, Shown(win))
<1> DEFINE put == With(windows, id, win)
<1>1. DOMAIN put = DOMAIN windows \cup {id}
  BY DEF With
<1>2. put[id] = win /\ \A k \in DOMAIN windows : k # id => put[k] = windows[k]
  BY DEF With
<1> HIDE DEF put
<1>3. PageView(put) = [k \in DOMAIN windows \cup {id} |-> IF k = id THEN Shown(win) ELSE Shown(windows[k])]
  BY <1>1, <1>2 DEF PageView
<1>4. With(PageView(windows), id, Shown(win)) =
        [k \in DOMAIN windows \cup {id} |-> IF k = id THEN Shown(win) ELSE Shown(windows[k])]
  BY DEF With, PageView
<1> QED
  BY <1>3, <1>4 DEF put

LEMMA PageViewWithout ==
  ASSUME NEW windows, NEW id
  PROVE  PageView(Without(windows, id)) = Without(PageView(windows), id)
BY DEF PageView, Without, Restrict

LEMMA WindowShows ==
  ASSUME NEW s, IsState(s), NEW info
  PROVE  /\ IsState(OnWindow(s, info))
         /\ PageView(OnWindow(s, info).windows)
              = With(PageView(s.windows), info.id, Told(Before(PageView(s.windows), info.id), info))
         /\ Settled(s) => Settled(OnWindow(s, info))
<1> DEFINE known == info.id \in DOMAIN s.windows
           old == IF known THEN s.windows[info.id] ELSE NewWindow
           x == IF info.x # NoValue THEN info.x ELSE old.x
           w == IF info.w # NoValue THEN info.w ELSE old.w
           hidden == IF info.show # NoValue THEN info.show \in {SW_HIDE, SW_SHOWMINIMIZED} ELSE old.hidden
           win == [x |-> x, w |-> w, hidden |-> hidden,
                   withdrawn |-> IF info.show # NoValue THEN info.show = SW_HIDE ELSE old.withdrawn,
                   clip |-> IF info.rects # NoValue THEN info.rects ELSE old.clip,
                   canvas |-> IF w # old.w THEN BlankCanvas(w) ELSE old.canvas]
           put == [s EXCEPT !.windows = With(@, info.id, win)]
           maximized == IF info.id = s.active THEN Maximize(put, info.id) ELSE put
<1>1. OnWindow(s, info) \in {maximized, Rebuilt(maximized)}
  BY DEF OnWindow
<1>2. IsWindow(win)
  BY DEF IsWindow
<1>3. Shown(win) = Told(Before(PageView(s.windows), info.id), info)
  <2>1. DOMAIN PageView(s.windows) = DOMAIN s.windows
    BY DEF PageView
  <2>2. Before(PageView(s.windows), info.id) = Shown(old)
    BY <2>1 DEF PageView, Before
  <2>3. Told(Shown(old), info) = Shown(win)
    BY DEF Told, Shown
  <2> QED
    BY <2>2, <2>3
<1> HIDE DEF win
<1>4. /\ DOMAIN put = DOMAIN s /\ put.windows = With(s.windows, info.id, win)
      /\ put.active = s.active /\ put.maximized = s.maximized
  BY DEF IsState
<1> HIDE DEF put
<1>5. DOMAIN put.windows = DOMAIN s.windows \cup {info.id} /\ put.windows[info.id] = win
      /\ \A k \in DOMAIN s.windows : k # info.id => put.windows[k] = s.windows[k]
  BY <1>4 DEF With
<1>6. IsState(put)
  BY <1>2, <1>4, <1>5 DEF IsState
<1>7. Settled(s) /\ info.id # s.active => Settled(put)
  BY <1>4, <1>5 DEF Settled
<1>8. IsState(maximized) /\ maximized.windows = put.windows /\ (Settled(s) => Settled(maximized))
  BY <1>4, <1>6, <1>7, MaximizeShows
<1> HIDE DEF maximized
<1>9. PageView(put.windows) = With(PageView(s.windows), info.id, Shown(win))
  BY <1>4, PageViewWith
<1> QED
  BY <1>1, <1>3, <1>8, <1>9, RebuiltShows

LEMMA DeletedShows ==
  ASSUME NEW s, IsState(s), NEW id
  PROVE  /\ IsState(OnDeleted(s, id))
         /\ PageView(OnDeleted(s, id).windows) = Without(PageView(s.windows), id)
         /\ Settled(s) => Settled(OnDeleted(s, id))
<1>1. CASE id \notin DOMAIN s.windows
  <2>1. Without(PageView(s.windows), id) = PageView(s.windows)
    BY <1>1 DEF Without, Restrict, PageView
  <2> QED
    BY <1>1, <2>1 DEF OnDeleted
<1>2. CASE id \in DOMAIN s.windows
  <2> DEFINE t == [s EXCEPT !.windows = Without(@, id)]
  <2>1. OnDeleted(s, id) = Rebuilt(t)
    BY <1>2 DEF OnDeleted
  <2>2. /\ DOMAIN t = DOMAIN s /\ t.windows = Without(s.windows, id)
        /\ t.active = s.active /\ t.maximized = s.maximized
    BY DEF IsState
  <2> HIDE DEF t
  <2>3. DOMAIN t.windows = DOMAIN s.windows \ {id} /\ \A k \in DOMAIN t.windows : t.windows[k] = s.windows[k]
    BY <2>2 DEF Without, Restrict
  <2>4. IsState(t) /\ (Settled(s) => Settled(t))
    BY <2>2, <2>3 DEF IsState, Settled
  <2> QED
    BY <2>1, <2>2, <2>4, RebuiltShows, PageViewWithout
<1> QED
  BY <1>1, <1>2

LEMMA ActiveShows ==
  ASSUME NEW s, IsState(s), NEW id
  PROVE  /\ IsState(OnActive(s, id)) /\ OnActive(s, id).windows = s.windows
         /\ Settled(OnActive(s, id))
<1> DEFINE t == [s EXCEPT !.active = id]
<1>1. IsState(t) /\ t.windows = s.windows /\ t.active = id
  BY DEF IsState
<1> HIDE DEF t
<1> QED
  BY <1>1, MaximizeShows DEF OnActive, t

LEMMA DispatchShows ==
  ASSUME NEW s, IsState(s), NEW e, e.event \in {"window", "deleted", "active", "icon"}
  PROVE  /\ IsState(Dispatch(s, e)) /\ PageView(Dispatch(s, e).windows) = After(PageView(s.windows), e)
         /\ Settled(s) => Settled(Dispatch(s, e))
<1>1. CASE e.event = "window"
  BY <1>1, WindowShows DEF Dispatch, After
<1>2. CASE e.event = "deleted"
  BY <1>2, DeletedShows DEF Dispatch, After
<1>3. CASE e.event = "active"
  BY <1>3, ActiveShows DEF Dispatch, After
<1>4. CASE e.event = "icon"
  BY <1>4 DEF Dispatch, After
<1> QED
  BY <1>1, <1>2, <1>3, <1>4
-----------------------------------------------------------------------------
\* The events of an update, one after the other.
Dispatched(s, events) == Folded(Dispatch, s, events)

LEMMA DispatchSteps ==
  ASSUME NEW s, NEW events, Len(events) \in Nat
  PROVE  \E f : /\ f[0] = s /\ Dispatched(s, events) = f[Len(events)]
                /\ \A k \in 1..Len(events) : f[k] = Dispatch(f[k - 1], events[k])
<1> DEFINE F(f) == f = [k \in 0..Len(events) |-> IF k = 0 THEN s ELSE Dispatch(f[k - 1], events[k])]
<1>1. PICK f : Folds(f, "dispatch", 0, s, Len(events), events)
  BY FoldExists
<1>2. \A t, e : Folding("dispatch", 0, t, e) = Dispatch(t, e)
  BY DEF Folding
<1>3. F(f)
  BY <1>1, <1>2 DEF Folds
<1> DEFINE g == CHOOSE g : F(g)
<1>4. F(g)
  BY <1>3, Zenon
<1>5. Dispatched(s, events) = g[Len(events)]
  BY Zenon DEF Dispatched, Folded
<1> HIDE DEF g
<1>6. g[0] = s
  BY <1>4
<1>7. ASSUME NEW k \in 1..Len(events) PROVE g[k] = Dispatch(g[k - 1], events[k])
  <2> k \in 0..Len(events) /\ k # 0
    OBVIOUS
  <2> QED
    BY <1>4, Zenon
<1> QED
  BY <1>5, <1>6, <1>7, Zenon

LEMMA NoneDispatched ==
  ASSUME NEW s
  PROVE  Dispatched(s, << >>) = s
<1>1. Len(<< >>) = 0
  OBVIOUS
<1>2. PICK f : f[0] = s /\ Dispatched(s, << >>) = f[Len(<< >>)]
  BY <1>1, DispatchSteps
<1> QED
  BY <1>1, <1>2

LEMMA OneMoreDispatched ==
  ASSUME NEW s, NEW events, IsSequence(events), NEW e
  PROVE  Dispatched(s, events \o <<e>>) = Dispatch(Dispatched(s, events), e)
<1> DEFINE n == Len(events)
           more == events \o <<e>>
<1>1. /\ n \in Nat /\ Len(more) = n + 1 /\ more[n + 1] = e
      /\ \A k \in 1..n : more[k] = events[k]
  BY DEF IsSequence
<1> HIDE DEF n, more
<1>2. PICK f : /\ f[0] = s /\ Dispatched(s, events) = f[n]
               /\ \A k \in 1..n : f[k] = Dispatch(f[k - 1], events[k])
  BY <1>1, DispatchSteps DEF n
<1>3. PICK g : /\ g[0] = s /\ Dispatched(s, more) = g[n + 1]
               /\ \A k \in 1..n + 1 : g[k] = Dispatch(g[k - 1], more[k])
  BY <1>1, DispatchSteps
<1> DEFINE T == {k \in Nat : k =< n => f[k] = g[k]}
<1>4. 0 \in T
  BY <1>2, <1>3
<1>5. \A k \in Nat : k \in T => k + 1 \in T
  <2> SUFFICES ASSUME NEW k \in Nat, k \in T, k + 1 =< n PROVE f[k + 1] = g[k + 1]
    OBVIOUS
  <2>1. k + 1 \in 1..n /\ k + 1 \in 1..n + 1 /\ (k + 1) - 1 = k /\ f[k] = g[k]
    BY <1>1
  <2>2. f[k + 1] = Dispatch(f[k], events[k + 1])
    BY <1>2, <2>1
  <2>3. g[k + 1] = Dispatch(g[k], more[k + 1])
    BY <1>3, <2>1
  <2> QED
    BY <1>1, <2>1, <2>2, <2>3
<1> HIDE DEF T
<1>6. n \in T
  BY <1>1, <1>4, <1>5, Induction
<1>7. f[n] = g[n]
  BY <1>1, <1>6 DEF T
<1>8. n + 1 \in 1..n + 1 /\ (n + 1) - 1 = n
  BY <1>1
<1>9. g[n + 1] = Dispatch(g[n], e)
  BY <1>1, <1>3, <1>8
<1> QED
  BY <1>2, <1>3, <1>7, <1>9 DEF more
\* What an order, and an update, do to what the page shows.
Applied(view, o) ==
  CASE o.kind = "window"  -> With(view, o.id, Told(Before(view, o.id), Known(o, 16)))
    [] o.kind = "deleted" -> Without(view, o.id)
    [] OTHER              -> view

Leads(orders, a, b) ==
  \E u : /\ u[0] = a /\ u[Len(orders)] = b
         /\ \A k \in 1..Len(orders) : u[k] = Applied(u[k - 1], orders[k])

LEMMA OrderShows ==
  ASSUME NEW s, NEW events, IsSequence(events), IsState(Dispatched(s, events)), NEW o, IsOrder(o)
  PROVE  /\ IsState(Dispatched(s, events \o EventsOf(o)))
         /\ PageView(Dispatched(s, events \o EventsOf(o)).windows)
              = Applied(PageView(Dispatched(s, events).windows), o)
         /\ Settled(Dispatched(s, events)) => Settled(Dispatched(s, events \o EventsOf(o)))
<1> DEFINE before == Dispatched(s, events)
           after == Dispatched(s, events \o EventsOf(o))
<1>1. ASSUME NEW e, EventsOf(o) = <<e>>, e.event \in {"window", "deleted", "active", "icon"},
             After(PageView(before.windows), e) = Applied(PageView(before.windows), o)
      PROVE  IsState(after) /\ PageView(after.windows) = Applied(PageView(before.windows), o)
             /\ (Settled(before) => Settled(after))
  <2>1. after = Dispatch(before, e)
    BY <1>1, OneMoreDispatched
  <2> HIDE DEF before, after
  <2>2. IsState(before)
    BY DEF before
  <2> QED
    BY <1>1, <2>1, <2>2, DispatchShows
<1>2. CASE o.kind = "window"
  <2> DEFINE e == [event |-> "window", info |-> Known(o, 16)]
  <2>1. EventsOf(o) = <<e>> /\ e.event = "window" /\ e.info = Known(o, 16)
    BY <1>2 DEF EventsOf
  <2>2. Known(o, 16).id = o.id
    BY DEF Known
  <2> HIDE DEF e
  <2>3. After(PageView(before.windows), e) = Applied(PageView(before.windows), o)
    BY <1>2, <2>1, <2>2 DEF After, Applied
  <2> QED
    BY <1>1, <2>1, <2>3
<1>3. CASE o.kind = "deleted"
  <2> DEFINE e == [event |-> "deleted", id |-> o.id]
  <2>1. EventsOf(o) = <<e>> /\ e.event = "deleted" /\ e.id = o.id
    BY <1>3 DEF EventsOf
  <2> HIDE DEF e
  <2>2. After(PageView(before.windows), e) = Applied(PageView(before.windows), o)
    BY <1>3, <2>1 DEF After, Applied
  <2> QED
    BY <1>1, <2>1, <2>2
<1>4. CASE o.kind \in {"icon", "desktop"}
  <2>1. PICK e : EventsOf(o) = <<e>> /\ e.event \in {"icon", "active"}
    BY <1>4 DEF EventsOf
  <2>2. After(PageView(before.windows), e) = Applied(PageView(before.windows), o)
    BY <1>4, <2>1 DEF After, Applied
  <2> QED
    BY <1>1, <2>1, <2>2
<1>5. CASE o.kind \in {"cached", "notify", "marker"}
  <2>1. EventsOf(o) = << >>
    BY <1>5 DEF EventsOf
  <2>2. events \o << >> = events
    BY DEF IsSequence
  <2> QED
    BY <1>5, <2>1, <2>2 DEF Applied
<1> QED
  BY <1>2, <1>3, <1>4, <1>5 DEF IsOrder

\* An update brings the page where its orders lead.
LEMMA UpdateShows ==
  ASSUME NEW s, IsState(s), NEW orders, AreOrders(orders), NEW b, Leads(orders, PageView(s.windows), b)
  PROVE  /\ IsState(Dispatched(s, parse(Payload(orders))))
         /\ PageView(Dispatched(s, parse(Payload(orders))).windows) = b
         /\ Settled(s) => Settled(Dispatched(s, parse(Payload(orders))))
<1> DEFINE n == Len(orders)
           d(k, e) == Dispatched(s, e[k])
<1>0. n \in Nat /\ \A k \in 1..n : IsOrder(orders[k])
  BY DEF AreOrders, IsSequence
<1>1. PICK e : /\ e[0] = << >> /\ parse(Payload(orders)) = e[n]
               /\ \A k \in 1..n : e[k] = e[k - 1] \o EventsOf(orders[k]) /\ IsSequence(e[k])
  BY ParserFollows
<1>2. PICK u : /\ u[0] = PageView(s.windows) /\ u[n] = b
               /\ \A k \in 1..n : u[k] = Applied(u[k - 1], orders[k])
  BY Zenon DEF Leads
<1> HIDE DEF n
<1> DEFINE Reached(k) == /\ IsSequence(e[k]) /\ IsState(Dispatched(s, e[k]))
                         /\ PageView(Dispatched(s, e[k]).windows) = u[k]
                         /\ Settled(s) => Settled(Dispatched(s, e[k]))
           T == {k \in Nat : k =< n => Reached(k)}
<1>3. 0 \in T
  <2>1. IsSequence(<< >>)
    BY DEF IsSequence
  <2> QED
    BY <1>1, <1>2, <2>1, NoneDispatched
<1>4. \A k \in Nat : k \in T => k + 1 \in T
  <2> SUFFICES ASSUME NEW k \in Nat, k \in T, k + 1 =< n PROVE Reached(k + 1)
    OBVIOUS
  <2>1. k + 1 \in 1..n /\ (k + 1) - 1 = k /\ Reached(k)
    BY <1>0
  <2>2. e[k + 1] = e[k] \o EventsOf(orders[k + 1]) /\ IsSequence(e[k + 1])
    BY <1>1, <2>1
  <2>3. u[k + 1] = Applied(u[k], orders[k + 1])
    BY <1>2, <2>1
  <2> QED
    BY <1>0, <2>1, <2>2, <2>3, OrderShows
<1> HIDE DEF T, Reached
<1>5. n \in T
  BY <1>0, <1>3, <1>4, Induction
<1>6. Reached(n)
  BY <1>0, <1>5 DEF T
<1> QED
  BY <1>1, <1>2, <1>6 DEF Reached
-----------------------------------------------------------------------------
\* What is on its way takes the page from what it shows to what the server has.
StepTo(m, a, b) == IF m.type = "orders" THEN Leads(m.orders, a, b) ELSE b = a

Chain(stream, a, b) ==
  \E v : /\ v[0] = a /\ v[Len(stream)] = b
         /\ \A k \in 1..Len(stream) : StepTo(stream[k], v[k - 1], v[k])

LEMMA LeadsOne ==
  ASSUME NEW o, NEW a
  PROVE  Leads(<<o>>, a, Applied(a, o))
<1> DEFINE u == [k \in 0..1 |-> IF k = 0 THEN a ELSE Applied(a, o)]
<1>1. Len(<<o>>) = 1 /\ <<o>>[1] = o
  OBVIOUS
<1>2. u[0] = a /\ u[1] = Applied(a, o)
  OBVIOUS
<1> HIDE DEF u
<1>3. \A k \in 1..1 : u[k] = Applied(u[k - 1], <<o>>[k])
  BY <1>1, <1>2
<1> QED
  BY <1>1, <1>2, <1>3 DEF Leads

LEMMA LeadsOneMore ==
  ASSUME NEW orders, IsSequence(orders), NEW o, NEW a, NEW b, Leads(orders, a, b)
  PROVE  Leads(Append(orders, o), a, Applied(b, o))
<1> DEFINE n == Len(orders)
           more == Append(orders, o)
<1>1. /\ n \in Nat /\ Len(more) = n + 1 /\ more[n + 1] = o
      /\ \A k \in 1..n : more[k] = orders[k]
  BY DEF IsSequence
<1>2. PICK u : u[0] = a /\ u[n] = b /\ \A k \in 1..n : u[k] = Applied(u[k - 1], orders[k])
  BY Zenon DEF Leads
<1> HIDE DEF n, more
<1> DEFINE t == [k \in 0..n + 1 |-> IF k = n + 1 THEN Applied(b, o) ELSE u[k]]
<1>3. t[n + 1] = Applied(b, o) /\ \A k \in 0..n : t[k] = u[k]
  BY <1>1
<1> HIDE DEF t
<1>4. ASSUME NEW k \in 1..n + 1 PROVE t[k] = Applied(t[k - 1], more[k])
  <2>1. CASE k = n + 1
    <3>1. k - 1 = n /\ n \in 0..n
      BY <1>1, <2>1
    <3> QED
      BY <1>1, <1>2, <1>3, <2>1, <3>1
  <2>2. CASE k # n + 1
    <3>1. k \in 1..n /\ k \in 0..n /\ k - 1 \in 0..n
      BY <1>1, <2>2
    <3> QED
      BY <1>1, <1>2, <1>3, <3>1
  <2> QED
    BY <2>1, <2>2
<1>5. t[0] = a /\ t[Len(more)] = Applied(b, o)
  BY <1>1, <1>2, <1>3
<1>6. \A k \in 1..Len(more) : t[k] = Applied(t[k - 1], more[k])
  BY <1>1, <1>4
<1> QED
  BY <1>5, <1>6, Zenon DEF Leads, more

LEMMA ChainEmpty ==
  ASSUME NEW a
  PROVE  Chain(<< >>, a, a)
<1> DEFINE v == [k \in {0} |-> a]
<1>1. v[0] = a /\ Len(<< >>) = 0
  OBVIOUS
<1> HIDE DEF v
<1>2. v[Len(<< >>)] = a /\ \A k \in 1..Len(<< >>) : StepTo(<< >>[k], v[k - 1], v[k])
  BY <1>1
<1> QED
  BY <1>1, <1>2, Zenon DEF Chain

LEMMA ChainAppend ==
  ASSUME NEW stream, IsSequence(stream), NEW a, NEW b, Chain(stream, a, b), NEW m, NEW c, StepTo(m, b, c)
  PROVE  Chain(Append(stream, m), a, c)
<1> DEFINE n == Len(stream)
           more == Append(stream, m)
<1>1. /\ n \in Nat /\ Len(more) = n + 1 /\ more[n + 1] = m
      /\ \A k \in 1..n : more[k] = stream[k]
  BY DEF IsSequence
<1>2. PICK u : u[0] = a /\ u[n] = b /\ \A k \in 1..n : StepTo(stream[k], u[k - 1], u[k])
  BY Zenon DEF Chain
<1> HIDE DEF n, more
<1> DEFINE t == [k \in 0..n + 1 |-> IF k = n + 1 THEN c ELSE u[k]]
<1>3. t[n + 1] = c /\ \A k \in 0..n : t[k] = u[k]
  BY <1>1
<1> HIDE DEF t
<1>4. ASSUME NEW k \in 1..n + 1 PROVE StepTo(more[k], t[k - 1], t[k])
  <2>1. CASE k = n + 1
    <3>1. k - 1 = n /\ n \in 0..n
      BY <1>1, <2>1
    <3> QED
      BY <1>1, <1>2, <1>3, <2>1, <3>1
  <2>2. CASE k # n + 1
    <3>1. k \in 1..n /\ k \in 0..n /\ k - 1 \in 0..n
      BY <1>1, <2>2
    <3> QED
      BY <1>1, <1>2, <1>3, <3>1
  <2> QED
    BY <2>1, <2>2
<1>5. t[0] = a /\ t[Len(more)] = c
  BY <1>1, <1>2, <1>3
<1>6. \A k \in 1..Len(more) : StepTo(more[k], t[k - 1], t[k])
  BY <1>1, <1>4
<1> QED
  BY <1>5, <1>6, Zenon DEF Chain, more

LEMMA ChainReplace ==
  ASSUME NEW stream, IsSequence(stream), stream # << >>, NEW a, NEW b, Chain(stream, a, b), NEW m, NEW c,
         \A x : StepTo(stream[Len(stream)], x, b) => StepTo(m, x, c)
  PROVE  Chain([stream EXCEPT ![Len(stream)] = m], a, c)
<1> DEFINE n == Len(stream)
           other == [stream EXCEPT ![n] = m]
<1>1. /\ n \in Nat \ {0} /\ Len(other) = n /\ other[n] = m
      /\ \A k \in 1..n : k # n => other[k] = stream[k]
  BY DEF IsSequence
<1>2. PICK u : u[0] = a /\ u[n] = b /\ \A k \in 1..n : StepTo(stream[k], u[k - 1], u[k])
  BY Zenon DEF Chain
<1> HIDE DEF n, other
<1> DEFINE t == [k \in 0..n |-> IF k = n THEN c ELSE u[k]]
<1>3. t[n] = c /\ \A k \in 0..n - 1 : t[k] = u[k]
  BY <1>1
<1> HIDE DEF t
<1>4. ASSUME NEW k \in 1..n PROVE StepTo(other[k], t[k - 1], t[k])
  <2>1. CASE k = n
    <3>1. k - 1 = n - 1 /\ n - 1 \in 0..n - 1 /\ n \in 1..n
      BY <1>1, <2>1
    <3>2. StepTo(stream[n], u[n - 1], b)
      BY <1>2, <3>1
    <3>3. StepTo(m, u[n - 1], c)
      BY <3>2 DEF n
    <3> QED
      BY <1>1, <1>3, <2>1, <3>1, <3>3
  <2>2. CASE k # n
    <3>1. k \in 1..n /\ k \in 0..n - 1 /\ k - 1 \in 0..n - 1
      BY <1>1, <2>2
    <3> QED
      BY <1>1, <1>2, <1>3, <2>2, <3>1
  <2> QED
    BY <2>1, <2>2
<1>5. t[0] = a /\ t[Len(other)] = c
  BY <1>1, <1>2, <1>3
<1>6. \A k \in 1..Len(other) : StepTo(other[k], t[k - 1], t[k])
  BY <1>1, <1>4
<1> QED
  BY <1>5, <1>6, Zenon DEF Chain, other, n

LEMMA ChainTail ==
  ASSUME NEW stream, IsSequence(stream), stream # << >>, NEW a, NEW b, Chain(stream, a, b)
  PROVE  \E c : StepTo(Head(stream), a, c) /\ Chain(Tail(stream), c, b)
<1> DEFINE n == Len(stream)
           rest == Tail(stream)
<1>1. /\ n \in Nat \ {0} /\ Len(rest) = n - 1 /\ Head(stream) = stream[1]
      /\ \A k \in 1..n - 1 : rest[k] = stream[k + 1]
  BY DEF IsSequence
<1>2. PICK u : u[0] = a /\ u[n] = b /\ \A k \in 1..n : StepTo(stream[k], u[k - 1], u[k])
  BY Zenon DEF Chain
<1> HIDE DEF n, rest
<1> DEFINE t == [k \in 0..n - 1 |-> u[k + 1]]
<1>3. \A k \in 0..n - 1 : t[k] = u[k + 1]
  OBVIOUS
<1> HIDE DEF t
<1>4. ASSUME NEW k \in 1..n - 1 PROVE StepTo(rest[k], t[k - 1], t[k])
  <2>1. k + 1 \in 1..n /\ k \in 0..n - 1 /\ k - 1 \in 0..n - 1 /\ (k + 1) - 1 = k /\ (k - 1) + 1 = k
    BY <1>1
  <2>2. t[k - 1] = u[k] /\ t[k] = u[k + 1]
    BY <1>3, <2>1
  <2>3. StepTo(stream[k + 1], u[k], u[k + 1])
    BY <1>2, <2>1
  <2> QED
    BY <1>1, <2>2, <2>3
<1>5. t[0] = u[1] /\ t[Len(rest)] = b
  BY <1>1, <1>2, <1>3
<1>6. \A k \in 1..Len(rest) : StepTo(rest[k], t[k - 1], t[k])
  BY <1>1, <1>4
<1>7. Chain(rest, u[1], b)
  BY <1>5, <1>6, Zenon DEF Chain
<1>8. StepTo(stream[1], a, u[1])
  <2>1. 1 \in 1..n /\ 1 - 1 = 0
    BY <1>1
  <2> QED
    BY <1>2, <2>1
<1> QED
  BY <1>1, <1>7, <1>8 DEF rest

\* Without orders on their way, the page shows what the server has.
LEMMA ChainIdle ==
  ASSUME NEW stream, IsSequence(stream), NEW a, NEW b, Chain(stream, a, b),
         \A k \in DOMAIN stream : stream[k].type # "orders"
  PROVE  a = b
<1> DEFINE n == Len(stream)
<1>1. n \in Nat /\ DOMAIN stream = 1..n
  BY DEF IsSequence
<1>2. PICK u : u[0] = a /\ u[n] = b /\ \A k \in 1..n : StepTo(stream[k], u[k - 1], u[k])
  BY Zenon DEF Chain
<1> HIDE DEF n
<1> DEFINE T == {k \in Nat : k =< n => u[k] = a}
<1>3. 0 \in T
  BY <1>2
<1>4. \A k \in Nat : k \in T => k + 1 \in T
  <2> SUFFICES ASSUME NEW k \in Nat, k \in T, k + 1 =< n PROVE u[k + 1] = a
    OBVIOUS
  <2>1. k + 1 \in 1..n /\ (k + 1) - 1 = k /\ u[k] = a
    BY <1>1
  <2>2. StepTo(stream[k + 1], u[k], u[k + 1])
    BY <1>2, <2>1
  <2> QED
    BY <1>1, <2>1, <2>2 DEF StepTo
<1> HIDE DEF T
<1>5. n \in T
  BY <1>1, <1>3, <1>4, Induction
<1> QED
  BY <1>1, <1>2, <1>5 DEF T
-----------------------------------------------------------------------------
\* What is as it should be, whatever happens.
ServerWindows == [x : Int \ {NoValue}, w : Nat, show : 0..2, rects : Nat \ {0}]
ServerOK == DOMAIN server \subseteq Windows /\ \A id \in DOMAIN server : server[id] \in ServerWindows

IsUpdate(m) == m.type = "orders" => DOMAIN m = {"type", "orders"} /\ AreOrders(m.orders)
StreamOK == IsSequence(toClient) /\ \A k \in 1..Len(toClient) : IsUpdate(toClient[k])

PageOK == AppIsMaximized /\ \A id \in DOMAIN railWindows : IsWindow(railWindows[id])
Arriving == Chain(toClient, PageView(railWindows), ServerView(server))

PagesInv == ServerOK /\ StreamOK /\ PageOK /\ Arriving

\* What the server says of a window is what the page makes of it.
LEMMA TellsWhatChanges ==
  ASSUME NEW id, NEW new, NEW has, NEW win \in ServerWindows, NEW old,
         "offset" \in has \/ win.x = old.x, "size" \in has \/ win.w = old.w,
         "show" \in has \/ (old.hidden = (win.show # SW_SHOWNORMAL) /\ old.withdrawn = (win.show = SW_HIDE))
  PROVE  Told(old, Known(WindowOrder(id, new, has, win), 16)) = ShownAs(win)
<1> DEFINE info == Known(WindowOrder(id, new, has, win), 16)
<1>1. /\ info.show = IF "show" \in has THEN win.show ELSE NoValue
      /\ info.x = IF "offset" \in has THEN win.x ELSE NoValue
      /\ info.w = IF "size" \in has THEN win.w ELSE NoValue
  BY DEF Known, WindowOrder
<1> HIDE DEF info
<1>2. win.x # NoValue /\ win.w # NoValue /\ win.show # NoValue /\ win.show \in 0..2
  BY DEF ServerWindows, NoValue
<1>3. (IF info.x # NoValue THEN info.x ELSE old.x) = win.x
  BY <1>1, <1>2
<1>4. (IF info.w # NoValue THEN info.w ELSE old.w) = win.w
  BY <1>1, <1>2
<1>5. (IF info.show # NoValue THEN info.show \in {SW_HIDE, SW_SHOWMINIMIZED} ELSE old.hidden)
        = (win.show # SW_SHOWNORMAL)
  BY <1>1, <1>2 DEF SW_HIDE, SW_SHOWMINIMIZED, SW_SHOWNORMAL
<1>6. (IF info.show # NoValue THEN info.show = SW_HIDE ELSE old.withdrawn) = (win.show = SW_HIDE)
  BY <1>1, <1>2 DEF SW_HIDE, SW_SHOWMINIMIZED, SW_SHOWNORMAL
<1> QED
  BY <1>3, <1>4, <1>5, <1>6 DEF Told, ShownAs, info

LEMMA ServerViewWith ==
  ASSUME NEW windows, NEW id, NEW win
  PROVE  /\ ServerView(With(windows, id, win)) = With(ServerView(windows), id, ShownAs(win))
         /\ id \in DOMAIN windows => ServerView([windows EXCEPT ![id] = win])
                                       = With(ServerView(windows), id, ShownAs(win))
<1> DEFINE put == With(windows, id, win)
           set == [windows EXCEPT ![id] = win]
           view == [k \in DOMAIN windows \cup {id} |-> IF k = id THEN ShownAs(win) ELSE ShownAs(windows[k])]
<1>1. DOMAIN put = DOMAIN windows \cup {id} /\ put[id] = win
      /\ \A k \in DOMAIN windows : k # id => put[k] = windows[k]
  BY DEF With
<1>2. ASSUME id \in DOMAIN windows
      PROVE  /\ DOMAIN set = DOMAIN windows \cup {id} /\ set[id] = win
             /\ \A k \in DOMAIN windows : k # id => set[k] = windows[k]
  BY <1>2
<1>3. With(ServerView(windows), id, ShownAs(win)) = view
  BY DEF With, ServerView
<1> HIDE DEF put, set
<1>4. ServerView(put) = view
  BY <1>1 DEF ServerView
<1>5. id \in DOMAIN windows => ServerView(set) = view
  BY <1>2 DEF ServerView
<1> QED
  BY <1>3, <1>4, <1>5 DEF put, set

LEMMA ServerViewWithout ==
  ASSUME NEW windows, NEW id
  PROVE  ServerView(Without(windows, id)) = Without(ServerView(windows), id)
BY DEF ServerView, Without, Restrict

\* An order that makes the server's old windows its new ones may be sent.
LEMMA OrderSent ==
  ASSUME StreamOK, NEW a, NEW b, Chain(toClient, a, b), NEW o, IsOrder(o), SendOrder(o)
  PROVE  StreamOK' /\ Chain(toClient', a, Applied(b, o))
<1>1. CASE toClient' = Append(toClient, [type |-> "orders", orders |-> <<o>>])
  <2> DEFINE m == [type |-> "orders", orders |-> <<o>>]
  <2>1. m.type = "orders" /\ m.orders = <<o>> /\ DOMAIN m = {"type", "orders"}
    OBVIOUS
  <2> HIDE DEF m
  <2>2. AreOrders(<<o>>)
    <3>1. <<o>> \in Seq({o}) /\ Len(<<o>>) = 1 /\ <<o>>[1] = o /\ 1..1 = {1}
      OBVIOUS
    <3>2. IsSequence(<<o>>)
      BY <3>1, Zenon DEF IsSequence
    <3> QED
      BY <3>1, <3>2 DEF AreOrders
  <2>3. IsUpdate(m) /\ StepTo(m, b, Applied(b, o))
    BY <2>1, <2>2, LeadsOne DEF IsUpdate, StepTo
  <2>4. toClient' = Append(toClient, m)
    BY <1>1 DEF m
  <2>5. StreamOK'
    <3>1. /\ Len(toClient) \in Nat /\ Len(toClient') = Len(toClient) + 1
          /\ toClient'[Len(toClient) + 1] = m
          /\ \A k \in 1..Len(toClient) : toClient'[k] = toClient[k]
      BY <2>4 DEF StreamOK, IsSequence
    <3>2. IsSequence(toClient')
      BY <2>4, AppendSequence DEF StreamOK
    <3> QED
      BY <2>3, <3>1, <3>2 DEF StreamOK
  <2> QED
    BY <2>3, <2>4, <2>5, ChainAppend DEF StreamOK
<1>2. CASE /\ toClient # << >> /\ Last(toClient).type = "orders"
           /\ toClient' = [toClient EXCEPT ![Len(toClient)].orders = Append(@, o)]
  <2> DEFINE n == Len(toClient)
             last == toClient[n]
             m == [last EXCEPT !.orders = Append(last.orders, o)]
  <2>1. n \in Nat \ {0} /\ last.type = "orders" /\ toClient' = [toClient EXCEPT ![n] = m]
    BY <1>2 DEF StreamOK, IsSequence, Last
  <2>2. DOMAIN last = {"type", "orders"} /\ AreOrders(last.orders)
    BY <2>1 DEF StreamOK, IsUpdate
  <2> HIDE DEF n, last
  <2>3. m.type = "orders" /\ m.orders = Append(last.orders, o) /\ DOMAIN m = {"type", "orders"}
    BY <2>1, <2>2
  <2> HIDE DEF m
  <2>4. AreOrders(Append(last.orders, o))
    <3>1. /\ Len(last.orders) \in Nat /\ Len(Append(last.orders, o)) = Len(last.orders) + 1
          /\ Append(last.orders, o)[Len(last.orders) + 1] = o
          /\ \A k \in 1..Len(last.orders) : Append(last.orders, o)[k] = last.orders[k]
      BY <2>2 DEF AreOrders, IsSequence
    <3>2. IsSequence(Append(last.orders, o))
      BY <2>2, AppendSequence DEF AreOrders
    <3> QED
      BY <2>2, <3>1, <3>2 DEF AreOrders
  <2>5. IsUpdate(m)
    BY <2>3, <2>4 DEF IsUpdate
  <2>6. ASSUME NEW x, StepTo(last, x, b) PROVE StepTo(m, x, Applied(b, o))
    BY <2>1, <2>2, <2>3, <2>6, LeadsOneMore DEF StepTo, AreOrders
  <2>7. Chain(toClient', a, Applied(b, o))
    <3>1. \A x : StepTo(toClient[Len(toClient)], x, b) => StepTo(m, x, Applied(b, o))
      BY <2>6 DEF n, last
    <3>2. toClient' = [toClient EXCEPT ![Len(toClient)] = m] /\ IsSequence(toClient) /\ toClient # << >>
      BY <1>2, <2>1 DEF n, StreamOK
    <3> QED
      BY <3>1, <3>2, ChainReplace
  <2>8. StreamOK'
    <3>1. IsSequence(toClient')
      BY <1>2, <2>1, ReplaceInSequence DEF StreamOK, n
    <3>2. Len(toClient') = n /\ toClient'[n] = m /\ \A k \in 1..n : k # n => toClient'[k] = toClient[k]
      BY <2>1 DEF StreamOK, IsSequence, n
    <3> QED
      BY <2>5, <3>1, <3>2 DEF StreamOK, n
  <2> QED
    BY <2>7, <2>8
<1> QED
  BY <1>1, <1>2 DEF SendOrder

\* The order a window is told by: with all there is to say of a new one, and with what has
\* changed of another.
LEMMA WindowTold ==
  ASSUME ServerOK, NEW id \in Windows, NEW win \in ServerWindows, NEW new, NEW has,
         \/ server' = With(server, id, win) /\ id \notin DOMAIN server /\ {"offset", "size", "show"} \subseteq has
         \/ /\ server' = [server EXCEPT ![id] = win] /\ id \in DOMAIN server
            /\ "offset" \in has \/ win.x = server[id].x
            /\ "size" \in has \/ win.w = server[id].w
            /\ "show" \in has \/ win.show = server[id].show
  PROVE  /\ ServerOK' /\ IsOrder(WindowOrder(id, new, has, win))
         /\ Applied(ServerView(server), WindowOrder(id, new, has, win)) = ServerView(server')
<1> DEFINE o == WindowOrder(id, new, has, win)
           old == Before(ServerView(server), id)
<1>1. o.kind = "window" /\ o.id = id /\ o.value = win
  BY DEF WindowOrder
<1>2. ServerOK' /\ IsOrder(o)
  <2>1. IsOrder(o)
    BY <1>1, RailAssumption DEF IsOrder, ServerWindows
  <2>2. CASE server' = With(server, id, win)
    <3>1. DOMAIN server' = DOMAIN server \cup {id} /\ server'[id] = win
          /\ \A k \in DOMAIN server : k # id => server'[k] = server[k]
      BY <2>2 DEF With
    <3> QED
      BY <2>1, <3>1 DEF ServerOK
  <2>3. CASE server' = [server EXCEPT ![id] = win] /\ id \in DOMAIN server
    <3>1. DOMAIN server' = DOMAIN server /\ server'[id] = win
          /\ \A k \in DOMAIN server : k # id => server'[k] = server[k]
      BY <2>3
    <3> QED
      BY <2>1, <3>1 DEF ServerOK
  <2> QED
    BY <2>2, <2>3
<1>3. ServerView(server') = With(ServerView(server), id, ShownAs(win))
  <2>1. CASE server' = With(server, id, win)
    BY <2>1, ServerViewWith
  <2>2. CASE server' = [server EXCEPT ![id] = win] /\ id \in DOMAIN server
    BY <2>2, ServerViewWith
  <2> QED
    BY <2>1, <2>2
<1>4. Told(old, Known(o, 16)) = ShownAs(win)
  <2>0. DOMAIN ServerView(server) = DOMAIN server
    BY DEF ServerView
  <2>1. CASE id \notin DOMAIN server
    <3>1. "offset" \in has /\ "size" \in has /\ "show" \in has
      BY <2>1
    <3> HIDE DEF old
    <3> QED
      BY <3>1, TellsWhatChanges
  <2>2. CASE id \in DOMAIN server
    <3>1. old = ShownAs(server[id])
      BY <2>0, <2>2 DEF Before, ServerView
    <3>2. /\ old.x = server[id].x /\ old.w = server[id].w
          /\ old.hidden = (server[id].show # SW_SHOWNORMAL) /\ old.withdrawn = (server[id].show = SW_HIDE)
      BY <3>1 DEF ShownAs
    <3>3. ("offset" \in has \/ win.x = server[id].x) /\ ("size" \in has \/ win.w = server[id].w)
          /\ ("show" \in has \/ win.show = server[id].show)
      BY <2>2
    <3>4. "offset" \in has \/ win.x = old.x
      BY <3>2, <3>3
    <3>5. "size" \in has \/ win.w = old.w
      BY <3>2, <3>3
    <3>6. "show" \in has \/ (old.hidden = (win.show # SW_SHOWNORMAL) /\ old.withdrawn = (win.show = SW_HIDE))
      BY <3>2, <3>3
    <3> HIDE DEF old
    <3> QED
      BY <3>4, <3>5, <3>6, TellsWhatChanges
  <2> QED
    BY <2>1, <2>2
<1> HIDE DEF o
<1>5. Applied(ServerView(server), o) = With(ServerView(server), id, Told(old, Known(o, 16)))
  BY <1>1 DEF Applied
<1> QED
  BY <1>2, <1>3, <1>4, <1>5 DEF o

\* A step of the server, or of the session loop on its behalf.
LEMMA OrderStep ==
  ASSUME PagesInv, NEW o, IsOrder(o), SendOrder(o), ServerOK',
         Applied(ServerView(server), o) = ServerView(server'), UNCHANGED pageVars
  PROVE  PagesInv'
<1>1. StreamOK' /\ Chain(toClient', PageView(railWindows), ServerView(server'))
  BY OrderSent DEF PagesInv, Arriving
<1> QED
  BY <1>1 DEF PagesInv, Arriving, PageOK, AppIsMaximized, pageVars

LEMMA Creates ==
  ASSUME PagesInv, NEW id \in Windows, ServerCreates(id)
  PROVE  PagesInv'
<1>1. PICK at \in Places, show \in {SW_HIDE, SW_SHOWNORMAL}, n \in Rects :
        LET win == [x |-> at[1], w |-> at[2], show |-> show, rects |-> n]
        IN  server' = With(server, id, win) /\ SendOrder(WindowOrder(id, TRUE, AllFields, win))
  BY DEF ServerCreates
<1> DEFINE win == [x |-> at[1], w |-> at[2], show |-> show, rects |-> n]
<1>2. win \in ServerWindows
  BY RailAssumption DEF ServerWindows, SW_HIDE, SW_SHOWNORMAL
<1>3. {"offset", "size", "show"} \subseteq AllFields
  BY DEF AllFields, Range, WireFields
<1> HIDE DEF win
<1>4. server' = With(server, id, win) /\ SendOrder(WindowOrder(id, TRUE, AllFields, win)) /\ id \notin DOMAIN server
  BY <1>1 DEF win, ServerCreates
<1>5. /\ ServerOK' /\ IsOrder(WindowOrder(id, TRUE, AllFields, win))
      /\ Applied(ServerView(server), WindowOrder(id, TRUE, AllFields, win)) = ServerView(server')
  BY <1>2, <1>3, <1>4, WindowTold DEF PagesInv
<1> QED
  BY <1>4, <1>5, OrderStep DEF ServerCreates

\* What a window becomes in one step is a window, where windows may be.
LEMMA WindowChanges ==
  ASSUME NEW old \in ServerWindows, NEW win \in Moved(old) \cup Reshown(old)
  PROVE  win \in ServerWindows /\ (win.x = old.x \/ \E at \in Places : win.x = at[1])
<1>1. CASE win \in Moved(old)
  <2>1. PICK at \in Places, n \in Rects : win = Elsewhere(old, at, n)
    BY <1>1 DEF Moved
  <2>2. at[1] \in Int \ {NoValue} /\ at[2] \in Nat /\ n \in Nat \ {0}
    BY RailAssumption
  <2>3. win \in ServerWindows /\ win.x = at[1]
    BY <2>1, <2>2 DEF ServerWindows, Elsewhere
  <2> QED
    BY <2>3
<1>2. CASE win \in Reshown(old)
  <2>1. PICK show \in {SW_HIDE, SW_SHOWNORMAL, SW_SHOWMINIMIZED} : win = [old EXCEPT !.show = show]
    BY <1>2 DEF Reshown
  <2>2. show \in 0..2
    BY DEF SW_HIDE, SW_SHOWNORMAL, SW_SHOWMINIMIZED
  <2> QED
    BY <2>1, <2>2 DEF ServerWindows
<1> QED
  BY <1>1, <1>2

LEMMA Updates ==
  ASSUME PagesInv, NEW id \in Windows, ServerUpdates(id)
  PROVE  PagesInv'
<1>0. id \in DOMAIN server /\ server[id] \in ServerWindows
  BY DEF ServerUpdates, PagesInv, ServerOK
<1> DEFINE old == server[id]
           has(win) == (IF win.x # old.x THEN {"offset", "delta"} ELSE {})
                       \cup (IF win.w # old.w THEN {"size", "clientSize"} ELSE {})
                       \cup (IF win.show # old.show THEN {"show", "style"} ELSE {})
                       \cup (IF win.rects # old.rects THEN {"visibility"} ELSE {})
<1>1. PICK win \in Moved(server[id]) \cup Reshown(server[id]) :
        /\ server' = [server EXCEPT ![id] = win]
        /\ SendOrder(WindowOrder(id, FALSE, has(win) \cup {"title"}, win))
  BY DEF ServerUpdates
<1>2. win \in ServerWindows
  BY <1>0, <1>1, WindowChanges
<1> DEFINE told == has(win) \cup {"title"}
<1>3. ("offset" \in told \/ win.x = server[id].x) /\ ("size" \in told \/ win.w = server[id].w)
      /\ ("show" \in told \/ win.show = server[id].show)
  OBVIOUS
<1>6. SendOrder(WindowOrder(id, FALSE, told, win))
  BY <1>1
<1> HIDE DEF told
<1>5. /\ ServerOK' /\ IsOrder(WindowOrder(id, FALSE, told, win))
      /\ Applied(ServerView(server), WindowOrder(id, FALSE, told, win)) = ServerView(server')
  BY <1>0, <1>1, <1>2, <1>3, WindowTold DEF PagesInv
<1> QED
  BY <1>5, <1>6, OrderStep DEF ServerUpdates

LEMMA Deletes ==
  ASSUME PagesInv, NEW id \in Windows, ServerDeletes(id)
  PROVE  PagesInv'
<1> DEFINE o == DeleteOrder(id)
<1>1. o.kind = "deleted" /\ o.id = id /\ id \in Nat
  BY RailAssumption DEF DeleteOrder
<1> HIDE DEF o
<1>2. IsOrder(o) /\ Applied(ServerView(server), o) = Without(ServerView(server), id)
  BY <1>1 DEF IsOrder, Applied
<1>3. server' = Without(server, id) /\ SendOrder(o)
  BY DEF ServerDeletes, o
<1>4. ServerOK'
  BY <1>3 DEF ServerOK, Without, Restrict, PagesInv
<1> QED
  BY <1>2, <1>3, <1>4, ServerViewWithout, OrderStep DEF ServerDeletes

LEMMA Tells ==
  ASSUME PagesInv, NEW id \in Windows, ServerTells(id)
  PROVE  PagesInv'
<1>1. PICK o \in {ActiveOrder(id), FrameMarker, IconOrder(id)} : SendOrder(o)
  BY DEF ServerTells
<1>2. o.kind \in {"desktop", "marker", "icon"} /\ (o.kind # "marker" => o.id \in Nat)
  BY RailAssumption DEF ActiveOrder, FrameMarker, IconOrder
<1>3. IsOrder(o) /\ Applied(ServerView(server), o) = ServerView(server)
  BY <1>2 DEF IsOrder, Applied
<1>4. server' = server /\ ServerOK'
  BY DEF ServerTells, PagesInv, ServerOK
<1> QED
  BY <1>1, <1>3, <1>4, OrderStep DEF ServerTells

\* Anything else the server sends changes no window.
LEMMA OtherAppended ==
  ASSUME NEW stream, IsSequence(stream), \A k \in 1..Len(stream) : IsUpdate(stream[k]),
         NEW m, m.type # "orders", NEW a, NEW b, Chain(stream, a, b)
  PROVE  /\ IsSequence(Append(stream, m))
         /\ \A k \in 1..Len(Append(stream, m)) : IsUpdate(Append(stream, m)[k])
         /\ Chain(Append(stream, m), a, b)
<1> DEFINE more == Append(stream, m)
<1>1. /\ Len(stream) \in Nat /\ Len(more) = Len(stream) + 1 /\ more[Len(stream) + 1] = m
      /\ \A k \in 1..Len(stream) : more[k] = stream[k]
  BY DEF IsSequence
<1>2. IsUpdate(m) /\ StepTo(m, b, b)
  BY DEF IsUpdate, StepTo
<1>3. Chain(more, a, b) /\ IsSequence(more)
  BY <1>2, ChainAppend, AppendSequence
<1> HIDE DEF more
<1>4. \A k \in 1..Len(more) : IsUpdate(more[k])
  BY <1>1, <1>2
<1> QED
  BY <1>3, <1>4 DEF more

\* A step that leaves the server's windows and the page as they are.
LEMMA OtherStep ==
  ASSUME PagesInv, StreamOK', Chain(toClient', PageView(railWindows), ServerView(server)),
         UNCHANGED <<server, pageVars>>
  PROVE  PagesInv'
BY DEF PagesInv, ServerOK, Arriving, PageOK, AppIsMaximized, pageVars

LEMMA Others ==
  ASSUME PagesInv, ServerHandshake \/ ServerReactivates \/ \E p \in Positions : ServerDraws(p)
  PROVE  PagesInv'
<1> DEFINE a == PageView(railWindows)
           b == ServerView(server)
<1>0. IsSequence(toClient) /\ (\A k \in 1..Len(toClient) : IsUpdate(toClient[k])) /\ Chain(toClient, a, b)
  BY DEF PagesInv, StreamOK, Arriving
<1> HIDE DEF a, b
<1>1. ASSUME NEW m, m.type # "orders", toClient' = Append(toClient, m)
      PROVE  StreamOK' /\ Chain(toClient', a, b)
  BY <1>0, <1>1, OtherAppended DEF StreamOK
<1>2. CASE ServerHandshake
  <2> DEFINE m == [type |-> "handshake"]
  <2>1. m.type # "orders" /\ toClient' = Append(toClient, m) /\ UNCHANGED <<server, pageVars>>
    BY <1>2 DEF ServerHandshake
  <2> QED
    BY <1>1, <2>1, OtherStep DEF a, b
<1>3. CASE ServerReactivates
  <2> DEFINE m == [type |-> "reactivate"]
             n == [type |-> "graphics", left |-> 0, right |-> Width - 1, screen |-> screen]
  <2>1. m.type # "orders" /\ n.type # "orders" /\ toClient' = toClient \o <<m, n>> /\ UNCHANGED <<server, pageVars>>
    BY <1>3 DEF ServerReactivates
  <2> HIDE DEF m, n
  <2>2. toClient' = Append(Append(toClient, m), n)
    <3>1. PICK S : toClient \in Seq(S)
      BY <1>0 DEF IsSequence
    <3>2. toClient \in Seq(S \cup {m, n})
      BY <3>1
    <3> QED
      BY <2>1, <3>2
  <2> DEFINE t == Append(toClient, m)
  <2>3. IsSequence(t) /\ (\A k \in 1..Len(t) : IsUpdate(t[k])) /\ Chain(t, a, b)
    BY <1>0, <2>1, OtherAppended
  <2>4. toClient' = Append(t, n)
    BY <2>2
  <2> HIDE DEF t
  <2>5. StreamOK' /\ Chain(toClient', a, b)
    BY <2>1, <2>3, <2>4, OtherAppended DEF StreamOK
  <2> QED
    BY <2>1, <2>5, OtherStep DEF a, b
<1>4. ASSUME NEW p \in Positions, ServerDraws(p) PROVE PagesInv'
  <2> DEFINE m == [type |-> "graphics", left |-> p, right |-> p, screen |-> screen']
  <2>1. m.type # "orders" /\ toClient' = Append(toClient, m) /\ UNCHANGED <<server, pageVars>>
    BY <1>4 DEF ServerDraws
  <2> HIDE DEF m
  <2> QED
    BY <1>1, <2>1, OtherStep DEF a, b
<1> QED
  BY <1>2, <1>3, <1>4

-----------------------------------------------------------------------------
\* What the client takes off the stream.
LEMMA TailTaken ==
  ASSUME PagesInv, toClient # << >>, toClient' = Tail(toClient), server' = server,
         \A c : StepTo(Head(toClient), PageView(railWindows), c)
                  => PageOK' /\ PageView(railWindows') = c
  PROVE  PagesInv'
<1>0. IsSequence(toClient) /\ (\A k \in 1..Len(toClient) : IsUpdate(toClient[k]))
  BY DEF PagesInv, StreamOK
<1>1. PICK c : StepTo(Head(toClient), PageView(railWindows), c) /\ Chain(Tail(toClient), c, ServerView(server))
  BY <1>0, ChainTail DEF PagesInv, Arriving
<1>2. IsSequence(toClient')
  BY <1>0, TailSequence
<1>3. \A k \in 1..Len(toClient') : IsUpdate(toClient'[k])
  <2>1. /\ Len(toClient) \in Nat \ {0} /\ Len(toClient') = Len(toClient) - 1
        /\ \A k \in 1..Len(toClient) - 1 : toClient'[k] = toClient[k + 1]
    BY <1>0 DEF IsSequence
  <2> QED
    BY <1>0, <2>1
<1> QED
  BY <1>1, <1>2, <1>3 DEF PagesInv, StreamOK, ServerOK, Arriving

\* Drawing changes what canvases show, and nothing else of a window.
LEMMA DrawnShows ==
  ASSUME NEW windows, \A id \in DOMAIN windows : IsWindow(windows[id]), NEW drawn,
         DOMAIN drawn = DOMAIN windows,
         \A id \in DOMAIN windows : \/ drawn[id] = windows[id]
                                    \/ \E c : drawn[id] = [windows[id] EXCEPT !.canvas = c]
  PROVE  /\ \A id \in DOMAIN drawn : IsWindow(drawn[id])
         /\ PageView(drawn) = PageView(windows)
<1>1. ASSUME NEW id \in DOMAIN windows
      PROVE  /\ IsWindow(drawn[id]) /\ drawn[id].x = windows[id].x /\ drawn[id].w = windows[id].w
             /\ drawn[id].hidden = windows[id].hidden /\ drawn[id].withdrawn = windows[id].withdrawn
  BY DEF IsWindow
<1> QED
  BY <1>1 DEF PageView, Shown

LEMMA PaintedShows ==
  ASSUME NEW windows, \A id \in DOMAIN windows : IsWindow(windows[id]), NEW surfs, NEW img, NEW left, NEW right
  PROVE  /\ \A id \in DOMAIN Painted(windows, surfs, img, left, right) :
              IsWindow(Painted(windows, surfs, img, left, right)[id])
         /\ PageView(Painted(windows, surfs, img, left, right)) = PageView(windows)
<1> DEFINE drawn == Painted(windows, surfs, img, left, right)
<1>1. /\ DOMAIN drawn = DOMAIN windows
      /\ \A id \in DOMAIN windows : \E c : drawn[id] = [windows[id] EXCEPT !.canvas = c]
  BY DEF Painted
<1> HIDE DEF drawn
<1> QED
  BY <1>1, DrawnShows DEF drawn

\* A page that shows the same has no more to maximize.
LEMMA SameShown ==
  ASSUME PagesInv, PageView(railWindows') = PageView(railWindows),
         \A id \in DOMAIN railWindows' : IsWindow(railWindows'[id]),
         UNCHANGED <<railActiveId, railMaximizedFirst>>
  PROVE  PageOK'
<1>1. DOMAIN railWindows' = DOMAIN railWindows
  BY DEF PageView
<1>2. ASSUME NEW id \in DOMAIN railWindows
      PROVE  railWindows'[id].w = railWindows[id].w /\ railWindows'[id].withdrawn = railWindows[id].withdrawn
  <2>1. Shown(railWindows'[id]) = Shown(railWindows[id])
    BY <1>1 DEF PageView
  <2> QED
    BY <2>1 DEF Shown
<1> QED
  BY <1>1, <1>2 DEF PagesInv, PageOK, AppIsMaximized, OnScreen

LEMMA OrdersCome ==
  ASSUME PagesInv, OnOrders
  PROVE  PagesInv'
<1> DEFINE m == Head(toClient)
           s == Dispatched(State, parse(Payload(m.orders)))
<1>1. /\ toClient # << >> /\ m.type = "orders" /\ toClient' = Tail(toClient) /\ server' = server
      /\ railWindows' = s.windows /\ railActiveId' = s.active /\ railMaximizedFirst' = s.maximized
  BY DEF OnOrders, serverVars, Dispatched
<1>2. AreOrders(m.orders)
  BY <1>1 DEF PagesInv, StreamOK, IsUpdate, IsSequence
<1>3. IsState(State) /\ Settled(State) /\ State.windows = railWindows
  BY DEF PagesInv, PageOK, AppIsMaximized, IsState, Settled, State
<1> HIDE DEF m
<1>4. ASSUME NEW c, StepTo(m, PageView(railWindows), c)
      PROVE  PageOK' /\ PageView(railWindows') = c
  <2>1. Leads(m.orders, PageView(State.windows), c)
    BY <1>1, <1>3, <1>4 DEF StepTo
  <2>2. IsState(s) /\ PageView(s.windows) = c /\ Settled(s)
    BY <1>2, <1>3, <2>1, UpdateShows
  <2> HIDE DEF s
  <2> QED
    BY <1>1, <2>2 DEF PageOK, AppIsMaximized, IsState, Settled
<1> QED
  BY <1>1, <1>4, TailTaken DEF m

LEMMA GraphicsCome ==
  ASSUME PagesInv, OnGraphics
  PROVE  PagesInv'
<1>1. /\ toClient # << >> /\ Head(toClient).type # "orders" /\ toClient' = Tail(toClient)
      /\ server' = server /\ UNCHANGED <<railActiveId, railMaximizedFirst>>
      /\ railWindows' = Painted(railWindows, surfaces, image', Head(toClient).left, Head(toClient).right)
  BY DEF OnGraphics, serverVars
<1>2. PageView(railWindows') = PageView(railWindows) /\ \A id \in DOMAIN railWindows' : IsWindow(railWindows'[id])
  BY <1>1, PaintedShows DEF PagesInv, PageOK
<1>3. PageOK'
  BY <1>1, <1>2, SameShown
<1> QED
  BY <1>1, <1>2, <1>3, TailTaken DEF StepTo

LEMMA ReactivatedComes ==
  ASSUME PagesInv, OnReactivated
  PROVE  PagesInv'
<1>1. /\ toClient # << >> /\ Head(toClient).type # "orders" /\ toClient' = Tail(toClient)
      /\ server' = server /\ UNCHANGED <<railActiveId, railMaximizedFirst>>
  BY DEF OnReactivated, serverVars
<1>2. PageView(railWindows') = PageView(railWindows) /\ \A id \in DOMAIN railWindows' : IsWindow(railWindows'[id])
  <2>1. CASE railWindows' = railWindows
    BY <2>1 DEF PagesInv, PageOK
  <2>2. ASSUME NEW id, NEW c, railWindows' = [railWindows EXCEPT ![id].canvas = c]
        PROVE  PageView(railWindows') = PageView(railWindows) /\ \A k \in DOMAIN railWindows' : IsWindow(railWindows'[k])
    <3>1. /\ DOMAIN railWindows' = DOMAIN railWindows
          /\ \A k \in DOMAIN railWindows : \/ railWindows'[k] = railWindows[k]
                                           \/ railWindows'[k] = [railWindows[k] EXCEPT !.canvas = c]
      BY <2>2
    <3> QED
      BY <3>1, DrawnShows DEF PagesInv, PageOK
  <2>3. railWindows' = railWindows \/ \E id, c : railWindows' = [railWindows EXCEPT ![id].canvas = c]
    BY DEF OnReactivated
  <2> QED
    BY <2>1, <2>2, <2>3
<1>3. PageOK'
  BY <1>1, <1>2, SameShown
<1> QED
  BY <1>1, <1>2, <1>3, TailTaken DEF StepTo

LEMMA HandshakeTaken ==
  ASSUME PagesInv, OnHandshake
  PROVE  PagesInv'
<1>1. /\ toClient # << >> /\ Head(toClient).type # "orders" /\ toClient' = Tail(toClient)
      /\ server' = server /\ UNCHANGED pageVars
  BY DEF OnHandshake
<1>2. PageOK' /\ railWindows' = railWindows
  BY <1>1 DEF PagesInv, PageOK, AppIsMaximized, pageVars
<1> QED
  BY <1>1, <1>2, TailTaken DEF StepTo

-----------------------------------------------------------------------------
LEMMA Repaints ==
  ASSUME PagesInv, OnRepaint
  PROVE  PagesInv'
<1>1. /\ UNCHANGED <<server, toClient, railActiveId, railMaximizedFirst>>
      /\ railWindows' = Painted(railWindows, surfaces, image, 0, Width - 1)
  BY DEF OnRepaint, serverVars
<1>2. PageView(railWindows') = PageView(railWindows) /\ \A id \in DOMAIN railWindows' : IsWindow(railWindows'[id])
  BY <1>1, PaintedShows DEF PagesInv, PageOK
<1>3. PageOK'
  BY <1>1, <1>2, SameShown
<1> QED
  BY <1>1, <1>2, <1>3 DEF PagesInv, StreamOK, ServerOK, Arriving

LEMMA Commands ==
  ASSUME PagesInv, OnCommand
  PROVE  PagesInv'
<1> DEFINE id == Head(inputs).id
           win == IF id \notin DOMAIN server THEN << >>
                  ELSE IF Head(inputs).type = "maximize" THEN [server[id] EXCEPT !.x = 0, !.w = Width]
                  ELSE IF Head(inputs).type = "restore" THEN [server[id] EXCEPT !.show = SW_SHOWNORMAL]
                  ELSE server[id]
           has == {"show", "offset", "size"}
<1>0. UNCHANGED pageVars
  BY DEF OnCommand
<1>1. CASE UNCHANGED <<server, toClient>>
  BY <1>0, <1>1, OtherStep DEF PagesInv, StreamOK, Arriving
<1>2. CASE /\ id \in DOMAIN server /\ server' = [server EXCEPT ![id] = win]
           /\ SendOrder(WindowOrder(id, FALSE, has, win))
  <2>1. id \in Windows /\ server[id] \in ServerWindows
    BY <1>2 DEF PagesInv, ServerOK
  <2>2. win \in ServerWindows
    <3> DEFINE old == server[id]
    <3>1. Width \in Nat /\ 0 \in Int \ {NoValue} /\ SW_SHOWNORMAL \in 0..2
      BY RailAssumption DEF NoValue, SW_SHOWNORMAL
    <3>2. win \in {old, [old EXCEPT !.x = 0, !.w = Width], [old EXCEPT !.show = SW_SHOWNORMAL]}
      BY <1>2
    <3> HIDE DEF win
    <3> QED
      BY <2>1, <3>1, <3>2 DEF ServerWindows
  <2> HIDE DEF win, id
  <2>3. /\ ServerOK' /\ IsOrder(WindowOrder(id, FALSE, has, win))
        /\ Applied(ServerView(server), WindowOrder(id, FALSE, has, win)) = ServerView(server')
    BY <1>2, <2>1, <2>2, WindowTold DEF PagesInv
  <2> QED
    BY <1>0, <1>2, <2>3, OrderStep
<1> QED
  BY <1>1, <1>2 DEF OnCommand

LEMMA Clicks ==
  ASSUME PagesInv, OnExec \/ Launch \/ \E id \in Windows : PressWindow(id) \/ PressTaskButton(id)
  PROVE  PagesInv'
<1>1. UNCHANGED <<server, toClient, pageVars>>
  BY DEF OnExec, Launch, PressWindow, PressTaskButton, serverVars
<1> QED
  BY <1>1, OtherStep DEF PagesInv, StreamOK, Arriving

LEMMA PagesInvariance == Spec => []PagesInv
<1>1. Init => PagesInv
  <2> SUFFICES ASSUME Init PROVE PagesInv
    OBVIOUS
  <2>1. toClient = << >> /\ server = << >> /\ railWindows = << >> /\ DOMAIN << >> = {}
    BY DEF Init
  <2>2. PageView(railWindows) = ServerView(server)
    BY <2>1 DEF PageView, ServerView
  <2>3. ServerOK /\ PageOK /\ StreamOK
    BY <2>1 DEF ServerOK, PageOK, AppIsMaximized, StreamOK, IsSequence
  <2> QED
    BY <2>1, <2>2, <2>3, ChainEmpty DEF PagesInv, Arriving
<1>2. PagesInv /\ [Next]_vars => PagesInv'
  <2> SUFFICES ASSUME PagesInv, [Next]_vars PROVE PagesInv'
    OBVIOUS
  <2>1. CASE UNCHANGED vars
    BY <2>1 DEF vars, serverVars, pageVars, PagesInv, ServerOK, StreamOK, PageOK, AppIsMaximized, Arriving
  <2>2. CASE Next
    BY <2>2, Creates, Updates, Deletes, Tells, Others, OrdersCome, GraphicsCome, ReactivatedComes, HandshakeTaken,
       Repaints, Commands, Clicks DEF Next
  <2> QED
    BY <2>1, <2>2
<1> QED
  BY <1>1, <1>2, PTL DEF Spec

\* The page follows the windows of the server: when every order has come in it has them all, where
\* they are and as they are shown.
THEOREM PageAlwaysHasWindows == Spec => []PageHasWindows
<1>1. PagesInv => PageHasWindows
  <2> SUFFICES ASSUME PagesInv, \A k \in DOMAIN toClient : toClient[k].type # "orders" PROVE PageHasWindows
    BY DEF PageHasWindows
  <2>1. PageView(railWindows) = ServerView(server)
    BY ChainIdle DEF PagesInv, StreamOK, Arriving
  <2>2. DOMAIN railWindows = DOMAIN server
    BY <2>1 DEF PageView, ServerView
  <2>3. ASSUME NEW id \in DOMAIN server
        PROVE  Shown(railWindows[id]) = ShownAs(server[id])
    BY <2>1, <2>2 DEF PageView, ServerView
  <2>4. ASSUME NEW id \in DOMAIN server
        PROVE  /\ <<railWindows[id].x, railWindows[id].w>> = <<server[id].x, server[id].w>>
               /\ railWindows[id].hidden = (server[id].show # SW_SHOWNORMAL)
               /\ railWindows[id].withdrawn = (server[id].show = SW_HIDE)
    BY <2>3 DEF Shown, ShownAs
  <2> QED
    BY <2>2, <2>4 DEF PageHasWindows
<1> QED
  BY <1>1, PagesInvariance, PTL

\* A single application is maximized when its foreground window is known, whichever the server names
\* first and whatever it renames, hides or deletes in between.
THEOREM AppAlwaysMaximized == Spec => []AppIsMaximized
<1>1. PagesInv => AppIsMaximized
  BY DEF PagesInv, PageOK
<1> QED
  BY <1>1, PagesInvariance, PTL

-----------------------------------------------------------------------------
Visible(windows) == {id \in DOMAIN windows : ~windows[id].hidden}
Repainting(waiting) == \E k \in DOMAIN waiting : waiting[k].type = "repaint"

\* The canvases go with the windows, and show the image unless a repaint waits.
InPlace(windows) == \A id \in DOMAIN windows : windows[id].x \in 0..U16 - 1 /\ windows[id].w \in Nat
Surfaced(windows, surfs) == surfs = {Surface(id, windows[id]) : id \in Visible(windows)}
Sized(windows) == \A id \in Visible(windows) : DOMAIN windows[id].canvas = 0..windows[id].w - 1
Showing(windows, img) ==
  \A id \in Visible(windows) : \A k \in 0..windows[id].w - 1 :
    windows[id].x + k \in Positions => windows[id].canvas[k] = img[windows[id].x + k]

Canvases(s, img) ==
  /\ IsSequence(s.inputs) /\ InPlace(s.windows)
  /\ Surfaced(s.windows, s.surfaces) /\ Sized(s.windows)
  /\ Repainting(s.inputs) \/ Showing(s.windows, img)

LEMMA InputsGrow ==
  ASSUME NEW s, IsSequence(s), NEW t, IsSequence(t)
  PROVE  /\ IsSequence(s \o t)
         /\ Repainting(s) \/ Repainting(t) => Repainting(s \o t)
<1>0. IsSequence(s \o t)
  BY JoinIsSequence
<1>1. /\ Len(s) \in Nat /\ Len(t) \in Nat /\ Len(s \o t) = Len(s) + Len(t)
      /\ \A k \in 1..Len(s) : (s \o t)[k] = s[k]
      /\ \A k \in 1..Len(t) : (s \o t)[Len(s) + k] = t[k]
  BY FieldsJoin
<1>2. /\ DOMAIN s = 1..Len(s) /\ DOMAIN t = 1..Len(t) /\ DOMAIN (s \o t) = 1..Len(s \o t)
  BY <1>0, <1>1 DEF IsSequence
<1>3. ASSUME NEW k \in 1..Len(s), s[k].type = "repaint" PROVE Repainting(s \o t)
  BY <1>1, <1>2, <1>3 DEF Repainting
<1>4. ASSUME NEW k \in 1..Len(t), t[k].type = "repaint" PROVE Repainting(s \o t)
  <2>1. Len(s) + k \in DOMAIN (s \o t)
    BY <1>1, <1>2
  <2> QED
    BY <1>1, <1>4, <2>1 DEF Repainting
<1> QED
  BY <1>0, <1>3, <1>4 DEF Repainting

LEMMA PairSequence ==
  ASSUME NEW a, NEW b
  PROVE  IsSequence(<<a>>) /\ IsSequence(<<a, b>>)
<1>1. <<a>> \in Seq({a, b}) /\ <<a, b>> \in Seq({a, b})
  OBVIOUS
<1> QED
  BY <1>1 DEF IsSequence

LEMMA InputsAppend ==
  ASSUME NEW s, IsSequence(s), NEW m
  PROVE  /\ IsSequence(Append(s, m))
         /\ Repainting(s) \/ m.type = "repaint" => Repainting(Append(s, m))
<1>1. PICK S : s \in Seq(S)
  BY DEF IsSequence
<1>2. /\ Len(s) \in Nat /\ DOMAIN s = 1..Len(s) /\ DOMAIN Append(s, m) = 1..Len(s) + 1
      /\ Append(s, m)[Len(s) + 1] = m /\ \A k \in 1..Len(s) : Append(s, m)[k] = s[k]
  BY <1>1
<1>3. IsSequence(Append(s, m))
  BY AppendSequence
<1> QED
  BY <1>2, <1>3 DEF Repainting

LEMMA InputsTaken ==
  ASSUME NEW s, IsSequence(s), s # << >>, Head(s).type # "repaint"
  PROVE  IsSequence(Tail(s)) /\ (Repainting(s) => Repainting(Tail(s)))
<1>1. PICK S : s \in Seq(S)
  BY DEF IsSequence
<1>2. /\ Len(s) \in Nat \ {0} /\ DOMAIN s = 1..Len(s) /\ DOMAIN Tail(s) = 1..Len(s) - 1
      /\ Head(s) = s[1] /\ \A k \in 1..Len(s) - 1 : Tail(s)[k] = s[k + 1]
  BY <1>1
<1>3. ASSUME NEW k \in 1..Len(s), s[k].type = "repaint" PROVE Repainting(Tail(s))
  <2>1. k # 1 /\ k - 1 \in 1..Len(s) - 1 /\ (k - 1) + 1 = k
    BY <1>2, <1>3
  <2> QED
    BY <1>2, <1>3, <2>1 DEF Repainting
<1> QED
  BY <1>2, <1>3, TailSequence DEF Repainting

\* Rebuilding the surfaces puts everything right but what is shown.
LEMMA RebuiltDraws ==
  ASSUME NEW s, IsState(s), InPlace(s.windows), IsSequence(s.inputs), NEW img
  PROVE  Canvases(Rebuilt(s), img)
<1> DEFINE t == Rebuilt(s)
           repaint == [type |-> "repaint"]
<1>1. /\ t.inputs = Append(s.inputs, repaint)
      /\ t.surfaces = {Surface(id, s.windows[id]) : id \in Visible(s.windows)}
      /\ DOMAIN t.windows = DOMAIN s.windows
      /\ \A id \in DOMAIN s.windows :
           t.windows[id] = IF id \in Visible(s.windows)
                           THEN [s.windows[id] EXCEPT !.canvas = BlankCanvas(s.windows[id].w)] ELSE s.windows[id]
  BY DEF Rebuilt, IsState, Visible
<1> HIDE DEF t
<1>2. ASSUME NEW id \in DOMAIN s.windows
      PROVE  /\ t.windows[id].x = s.windows[id].x /\ t.windows[id].w = s.windows[id].w
             /\ t.windows[id].hidden = s.windows[id].hidden
             /\ id \in Visible(s.windows) => DOMAIN t.windows[id].canvas = 0..s.windows[id].w - 1
  <2> DEFINE old == s.windows[id]
  <2>1. DOMAIN old = {"x", "w", "hidden", "withdrawn", "clip", "canvas"}
    BY DEF IsState, IsWindow
  <2>2. CASE id \in Visible(s.windows)
    <3>1. t.windows[id] = [old EXCEPT !.canvas = BlankCanvas(old.w)] /\ DOMAIN BlankCanvas(old.w) = 0..old.w - 1
      BY <1>1, <2>2 DEF BlankCanvas
    <3> HIDE DEF old
    <3>2. /\ t.windows[id].x = old.x /\ t.windows[id].w = old.w /\ t.windows[id].hidden = old.hidden
          /\ t.windows[id].canvas = BlankCanvas(old.w)
      BY <2>1, <3>1
    <3> QED
      BY <3>1, <3>2 DEF old
  <2>3. CASE id \notin Visible(s.windows)
    BY <1>1, <2>3
  <2> QED
    BY <2>2, <2>3
<1>3. Visible(t.windows) = Visible(s.windows)
  BY <1>1, <1>2 DEF Visible
<1>4. InPlace(t.windows) /\ Sized(t.windows)
  BY <1>1, <1>2, <1>3 DEF InPlace, Sized, Visible
<1>5. Surfaced(t.windows, t.surfaces)
  <2>1. \A id \in Visible(s.windows) : Surface(id, t.windows[id]) = Surface(id, s.windows[id])
    BY <1>2 DEF Surface, Visible
  <2> QED
    BY <1>1, <1>3, <2>1 DEF Surfaced
<1>6. IsSequence(t.inputs) /\ Repainting(t.inputs)
  BY <1>1, InputsAppend
<1> QED
  BY <1>4, <1>5, <1>6 DEF Canvases, t

LEMMA MaximizeDraws ==
  ASSUME NEW s, IsState(s), IsSequence(s.inputs), NEW id
  PROVE  LET t == Maximize(s, id)
         IN  /\ t.windows = s.windows /\ t.surfaces = s.surfaces /\ IsSequence(t.inputs)
             /\ Repainting(s.inputs) => Repainting(t.inputs)
<1> DEFINE more == <<[type |-> "activate", id |-> id], [type |-> "maximize", id |-> id]>>
           t == Maximize(s, id)
<1>1. t = s \/ t = [s EXCEPT !.maximized = TRUE, !.inputs = s.inputs \o more]
  BY DEF Maximize
<1>2. IsSequence(more)
  BY PairSequence
<1> HIDE DEF more, t
<1>3. t.windows = s.windows /\ t.surfaces = s.surfaces /\ (t.inputs = s.inputs \/ t.inputs = s.inputs \o more)
  BY <1>1 DEF IsState
<1> QED
  BY <1>2, <1>3, InputsGrow DEF t

\* A window event that changes neither where a window is nor whether it is visible.
LEMMA SameCanvases ==
  ASSUME NEW windows, NEW others, DOMAIN others = DOMAIN windows,
         \A id \in DOMAIN windows :
           /\ others[id].x = windows[id].x /\ others[id].w = windows[id].w
           /\ others[id].hidden = windows[id].hidden /\ others[id].canvas = windows[id].canvas,
         NEW surfs, NEW img
  PROVE  /\ InPlace(windows) => InPlace(others)
         /\ Surfaced(windows, surfs) => Surfaced(others, surfs)
         /\ Sized(windows) => Sized(others)
         /\ Showing(windows, img) => Showing(others, img)
<1>1. Visible(others) = Visible(windows)
  BY DEF Visible
<1>2. \A id \in Visible(windows) : Surface(id, others[id]) = Surface(id, windows[id])
  BY DEF Surface, Visible
<1>3. Surfaced(windows, surfs) => Surfaced(others, surfs)
  BY <1>1, <1>2 DEF Surfaced
<1>4. InPlace(windows) => InPlace(others)
  BY DEF InPlace
<1>5. Sized(windows) => Sized(others)
  BY <1>1 DEF Sized, Visible
<1>6. Showing(windows, img) => Showing(others, img)
  BY <1>1 DEF Showing, Visible
<1> QED
  BY <1>3, <1>4, <1>5, <1>6

LEMMA MaximizedCanvases ==
  ASSUME NEW s, IsState(s), NEW id, NEW img, Canvases(s, img)
  PROVE  Canvases(Maximize(s, id), img)
BY MaximizeDraws DEF Canvases

\* An event says where a window is, if it does, on the desktop.
Placed(info) == (info.x # NoValue => info.x \in 0..U16 - 1) /\ (info.w # NoValue => info.w \in Nat)

LEMMA WindowDraws ==
  ASSUME NEW s, IsState(s), NEW img, Canvases(s, img), NEW info, Placed(info)
  PROVE  Canvases(OnWindow(s, info), img)
<1> DEFINE known == info.id \in DOMAIN s.windows
           old == IF known THEN s.windows[info.id] ELSE NewWindow
           x == IF info.x # NoValue THEN info.x ELSE old.x
           w == IF info.w # NoValue THEN info.w ELSE old.w
           hidden == IF info.show # NoValue THEN info.show \in {SW_HIDE, SW_SHOWMINIMIZED} ELSE old.hidden
           win == [x |-> x, w |-> w, hidden |-> hidden,
                   withdrawn |-> IF info.show # NoValue THEN info.show = SW_HIDE ELSE old.withdrawn,
                   clip |-> IF info.rects # NoValue THEN info.rects ELSE old.clip,
                   canvas |-> IF w # old.w THEN BlankCanvas(w) ELSE old.canvas]
           structural == ~known \/ x # old.x \/ w # old.w \/ hidden # old.hidden
           put == [s EXCEPT !.windows = With(@, info.id, win)]
           maximized == IF info.id = s.active THEN Maximize(put, info.id) ELSE put
<1>1. OnWindow(s, info) = IF structural THEN Rebuilt(maximized) ELSE maximized
  BY DEF OnWindow
<1>2. /\ IsWindow(win) /\ win.x = x /\ win.w = w /\ win.hidden = hidden
      /\ w = old.w => win.canvas = old.canvas
  BY DEF IsWindow
<1>3. x \in 0..U16 - 1 /\ w \in Nat
  <2>1. old.x \in 0..U16 - 1 /\ old.w \in Nat
    <3>1. NewWindow.x = 0 /\ NewWindow.w = 0 /\ 0 \in 0..U16 - 1
      BY DEF NewWindow, U16
    <3>2. known => s.windows[info.id].x \in 0..U16 - 1 /\ s.windows[info.id].w \in Nat
      BY Zenon DEF Canvases, InPlace
    <3> QED
      BY <3>1, <3>2
  <2> QED
    BY <2>1 DEF Placed
<1> HIDE DEF win
<1>4. /\ DOMAIN put = DOMAIN s /\ put.windows = With(s.windows, info.id, win)
      /\ put.surfaces = s.surfaces /\ put.inputs = s.inputs
  BY DEF IsState
<1> HIDE DEF put
<1>5. DOMAIN put.windows = DOMAIN s.windows \cup {info.id} /\ put.windows[info.id] = win
      /\ \A k \in DOMAIN s.windows : k # info.id => put.windows[k] = s.windows[k]
  BY <1>4 DEF With
<1>6. IsState(put) /\ InPlace(put.windows) /\ IsSequence(put.inputs)
  BY <1>2, <1>3, <1>4, <1>5 DEF IsState, InPlace, Canvases
<1>7. /\ maximized.windows = put.windows /\ maximized.surfaces = put.surfaces
      /\ IsSequence(maximized.inputs) /\ (Repainting(put.inputs) => Repainting(maximized.inputs))
      /\ IsState(maximized)
  BY <1>6, MaximizeDraws, MaximizeShows
<1> HIDE DEF maximized
<1>8. CASE structural
  <2>1. Canvases(Rebuilt(maximized), img)
    BY <1>6, <1>7, RebuiltDraws
  <2> QED
    BY <1>1, <1>8, <2>1
<1>9. CASE ~structural
  <2>1. known /\ win.x = old.x /\ win.w = old.w /\ win.hidden = old.hidden /\ win.canvas = old.canvas
    BY <1>2, <1>9
  <2>2. old = s.windows[info.id] /\ info.id \in DOMAIN s.windows
    BY <2>1
  <2> HIDE DEF old
  <2>3. DOMAIN put.windows = DOMAIN s.windows
    BY <1>5, <2>2
  <2>4. \A id \in DOMAIN s.windows :
           /\ put.windows[id].x = s.windows[id].x /\ put.windows[id].w = s.windows[id].w
           /\ put.windows[id].hidden = s.windows[id].hidden /\ put.windows[id].canvas = s.windows[id].canvas
    BY <1>5, <2>1, <2>2
  <2>5. /\ InPlace(put.windows) /\ Surfaced(put.windows, s.surfaces) /\ Sized(put.windows)
        /\ Showing(s.windows, img) => Showing(put.windows, img)
    BY <2>3, <2>4, SameCanvases DEF Canvases
  <2>6. Canvases(maximized, img)
    BY <1>4, <1>7, <2>5 DEF Canvases
  <2> QED
    BY <1>1, <1>9, <2>6
<1> QED
  BY <1>8, <1>9

LEMMA DeletedDraws ==
  ASSUME NEW s, IsState(s), NEW img, Canvases(s, img), NEW id
  PROVE  Canvases(OnDeleted(s, id), img)
<1> DEFINE t == [s EXCEPT !.windows = Without(@, id)]
<1>1. OnDeleted(s, id) = s \/ OnDeleted(s, id) = Rebuilt(t)
  BY DEF OnDeleted
<1>2. DOMAIN t = DOMAIN s /\ t.windows = Without(s.windows, id) /\ t.inputs = s.inputs
  BY DEF IsState
<1> HIDE DEF t
<1>3. DOMAIN t.windows = DOMAIN s.windows \ {id} /\ \A k \in DOMAIN t.windows : t.windows[k] = s.windows[k]
  BY <1>2 DEF Without, Restrict
<1>4. IsState(t) /\ InPlace(t.windows) /\ IsSequence(t.inputs)
  BY <1>2, <1>3 DEF IsState, InPlace, Canvases
<1> QED
  BY <1>1, <1>4, RebuiltDraws

LEMMA ActiveDraws ==
  ASSUME NEW s, IsState(s), NEW img, Canvases(s, img), NEW id
  PROVE  Canvases(OnActive(s, id), img)
<1> DEFINE t == [s EXCEPT !.active = id]
<1>1. IsState(t) /\ t.windows = s.windows /\ t.surfaces = s.surfaces /\ t.inputs = s.inputs
  BY DEF IsState
<1> HIDE DEF t
<1>2. Canvases(t, img)
  BY <1>1 DEF Canvases
<1> QED
  BY <1>1, <1>2, MaximizedCanvases DEF OnActive, t

\* Orders of windows that are on the desktop.
IsPlaced(o) == o.kind = "window" => o.value.x \in 0..U16 - 1 /\ o.value.w \in Nat

LEMMA OrderDraws ==
  ASSUME NEW s, NEW events, IsSequence(events), IsState(Dispatched(s, events)), NEW o, IsOrder(o), IsPlaced(o),
         NEW img, Canvases(Dispatched(s, events), img)
  PROVE  Canvases(Dispatched(s, events \o EventsOf(o)), img)
<1> DEFINE before == Dispatched(s, events)
           after == Dispatched(s, events \o EventsOf(o))
<1>1. \A e : EventsOf(o) = <<e>> => after = Dispatch(before, e)
  BY OneMoreDispatched
<1> HIDE DEF before, after
<1>2. IsState(before) /\ Canvases(before, img)
  BY DEF before
<1>3. CASE o.kind = "window"
  <2> DEFINE info == Known(o, 16)
             e == [event |-> "window", info |-> info]
  <2>1. EventsOf(o) = <<e>> /\ e.event = "window" /\ e.info = info
    BY <1>3 DEF EventsOf
  <2>2. Placed(info)
    BY <1>3 DEF Known, Placed, IsPlaced
  <2> HIDE DEF e, info
  <2>3. after = OnWindow(before, info)
    BY <1>1, <2>1 DEF Dispatch
  <2> QED
    BY <1>2, <2>2, <2>3, WindowDraws DEF after
<1>4. CASE o.kind = "deleted"
  <2> DEFINE e == [event |-> "deleted", id |-> o.id]
  <2>1. EventsOf(o) = <<e>> /\ e.event = "deleted" /\ e.id = o.id
    BY <1>4 DEF EventsOf
  <2> HIDE DEF e
  <2>2. after = OnDeleted(before, o.id)
    BY <1>1, <2>1 DEF Dispatch
  <2> QED
    BY <1>2, <2>2, DeletedDraws DEF after
<1>5. CASE o.kind = "desktop"
  <2> DEFINE e == [event |-> "active", id |-> o.id]
  <2>1. EventsOf(o) = <<e>> /\ e.event = "active" /\ e.id = o.id
    BY <1>5 DEF EventsOf
  <2> HIDE DEF e
  <2>2. after = OnActive(before, o.id)
    BY <1>1, <2>1 DEF Dispatch
  <2> QED
    BY <1>2, <2>2, ActiveDraws DEF after
<1>6. CASE o.kind = "icon"
  <2>1. PICK e : EventsOf(o) = <<e>> /\ e.event = "icon"
    BY <1>6 DEF EventsOf
  <2>2. after = before
    BY <1>1, <2>1 DEF Dispatch
  <2> QED
    BY <1>2, <2>2 DEF after
<1>7. CASE o.kind \in {"cached", "notify", "marker"}
  <2>1. EventsOf(o) = << >>
    BY <1>7 DEF EventsOf
  <2>2. events \o << >> = events
    BY DEF IsSequence
  <2> QED
    BY <2>1, <2>2
<1> QED
  BY <1>3, <1>4, <1>5, <1>6, <1>7 DEF IsOrder

LEMMA UpdateDraws ==
  ASSUME NEW s, IsState(s), NEW img, Canvases(s, img),
         NEW orders, AreOrders(orders), \A k \in 1..Len(orders) : IsPlaced(orders[k])
  PROVE  Canvases(Dispatched(s, parse(Payload(orders))), img)
<1> DEFINE n == Len(orders)
<1>0. n \in Nat /\ \A k \in 1..n : IsOrder(orders[k])
  BY DEF AreOrders, IsSequence
<1>1. PICK e : /\ e[0] = << >> /\ parse(Payload(orders)) = e[n]
               /\ \A k \in 1..n : e[k] = e[k - 1] \o EventsOf(orders[k]) /\ IsSequence(e[k])
  BY ParserFollows
<1>2. \A k \in 1..n : IsPlaced(orders[k])
  OBVIOUS
<1> HIDE DEF n
<1> DEFINE Reached(k) == /\ IsSequence(e[k]) /\ IsState(Dispatched(s, e[k]))
                         /\ Canvases(Dispatched(s, e[k]), img)
           T == {k \in Nat : k =< n => Reached(k)}
<1>3. 0 \in T
  <2>1. IsSequence(<< >>)
    BY DEF IsSequence
  <2> QED
    BY <1>1, <2>1, NoneDispatched
<1>4. \A k \in Nat : k \in T => k + 1 \in T
  <2> SUFFICES ASSUME NEW k \in Nat, k \in T, k + 1 =< n PROVE Reached(k + 1)
    OBVIOUS
  <2>1. k + 1 \in 1..n /\ (k + 1) - 1 = k /\ Reached(k)
    BY <1>0
  <2>2. e[k + 1] = e[k] \o EventsOf(orders[k + 1]) /\ IsSequence(e[k + 1])
    BY <1>1, <2>1
  <2> QED
    BY <1>0, <1>2, <2>1, <2>2, OrderShows, OrderDraws
<1> HIDE DEF T, Reached
<1>5. n \in T
  BY <1>0, <1>3, <1>4, Induction
<1>6. Reached(n)
  BY <1>0, <1>5 DEF T
<1> QED
  BY <1>1, <1>6 DEF Reached

-----------------------------------------------------------------------------
LEMMA SmallStays ==
  ASSUME NEW x \in 0..U16 - 1
  PROVE  x % U16 = x
<1>1. U16 \in Nat
  BY DEF U16
<1>2. x \in Int /\ 0 =< x /\ x < U16
  BY <1>1
<1> QED
  BY <1>1, <1>2, SMTT(30)

\* Painting: each visible column that lies in the region shows the image.
LEMMA PaintedColumns ==
  ASSUME NEW windows, \A id \in DOMAIN windows : IsWindow(windows[id]), InPlace(windows), Sized(windows),
         NEW surfs, Surfaced(windows, surfs), NEW img, NEW left, NEW right
  PROVE  LET drawn == Painted(windows, surfs, img, left, right)
         IN  /\ InPlace(drawn) /\ Surfaced(drawn, surfs) /\ Sized(drawn) /\ Visible(drawn) = Visible(windows)
             /\ \A id \in Visible(windows) :
                  /\ drawn[id].x = windows[id].x /\ drawn[id].w = windows[id].w
                  /\ \A k \in 0..windows[id].w - 1 :
                       drawn[id].canvas[k] = IF windows[id].x + k \in left..right
                                             THEN img[windows[id].x + k] ELSE windows[id].canvas[k]
<1> DEFINE drawn == Painted(windows, surfs, img, left, right)
           canvas(id) ==
             [k \in DOMAIN windows[id].canvas |->
                IF \E s \in surfs : s.id = id /\ k < s.w /\ s.x + k \in left..right
                THEN img[(CHOOSE s \in surfs : s.id = id).x + k] ELSE windows[id].canvas[k]]
<1>1. DOMAIN drawn = DOMAIN windows
      /\ \A id \in DOMAIN windows : drawn[id] = [windows[id] EXCEPT !.canvas = canvas(id)]
  BY DEF Painted
<1>2. ASSUME NEW id \in DOMAIN windows
      PROVE  DOMAIN canvas(id) = DOMAIN windows[id].canvas
  OBVIOUS
<1> HIDE DEF drawn
<1>3. ASSUME NEW id \in DOMAIN windows
      PROVE  /\ drawn[id].x = windows[id].x /\ drawn[id].w = windows[id].w /\ drawn[id].hidden = windows[id].hidden
             /\ drawn[id].canvas = canvas(id)
  <2> HIDE DEF canvas
  <2> QED
    BY <1>1 DEF IsWindow
<1>4. Visible(drawn) = Visible(windows)
  BY <1>1, <1>3 DEF Visible
<1>5. ASSUME NEW id \in Visible(windows)
      PROVE  \A k \in 0..windows[id].w - 1 :
               canvas(id)[k] = IF windows[id].x + k \in left..right
                               THEN img[windows[id].x + k] ELSE windows[id].canvas[k]
  <2> DEFINE at == Surface(id, windows[id])
  <2>1. at.id = id /\ at.x = windows[id].x /\ at.w = windows[id].w
    <3>1. windows[id].x % U16 = windows[id].x
      BY SmallStays DEF InPlace, Visible
    <3> QED
      BY <3>1 DEF Surface
  <2>2. \A s \in surfs : s.id = id <=> s = at
    BY DEF Surfaced, Surface
  <2>3. at \in surfs
    BY DEF Surfaced
  <2> HIDE DEF at
  <2>4. (CHOOSE s \in surfs : s.id = id) = at
    BY <2>2, <2>3
  <2>5. ASSUME NEW k \in 0..windows[id].w - 1
        PROVE  /\ k \in DOMAIN windows[id].canvas
               /\ (\E s \in surfs : s.id = id /\ k < s.w /\ s.x + k \in left..right)
                    <=> windows[id].x + k \in left..right
    <3>1. windows[id].w \in Nat /\ DOMAIN windows[id].canvas = 0..windows[id].w - 1
      BY DEF InPlace, Visible, Sized
    <3>2. k < windows[id].w
      BY <3>1
    <3>3. (\E s \in surfs : s.id = id /\ k < s.w /\ s.x + k \in left..right)
            <=> k < at.w /\ at.x + k \in left..right
      BY <2>2, <2>3
    <3> QED
      BY <2>1, <3>1, <3>2, <3>3
  <2> QED
    BY <2>1, <2>4, <2>5
<1>6. InPlace(drawn)
  BY <1>1, <1>3 DEF InPlace
<1>7. Sized(drawn)
  <2> HIDE DEF canvas
  <2> QED
    BY <1>1, <1>2, <1>3, <1>4 DEF Sized, Visible
<1>8. Surfaced(drawn, surfs)
  <2>1. \A id \in Visible(windows) : Surface(id, drawn[id]) = Surface(id, windows[id])
    BY <1>3 DEF Surface, Visible
  <2> QED
    BY <1>4, <2>1 DEF Surfaced
<1>9. ASSUME NEW id \in Visible(windows)
      PROVE  /\ drawn[id].x = windows[id].x /\ drawn[id].w = windows[id].w
             /\ \A k \in 0..windows[id].w - 1 :
                  drawn[id].canvas[k] = IF windows[id].x + k \in left..right
                                        THEN img[windows[id].x + k] ELSE windows[id].canvas[k]
  <2>1. id \in DOMAIN windows
    BY DEF Visible
  <2> HIDE DEF canvas
  <2> QED
    BY <1>3, <1>5, <2>1
<1> QED
  BY <1>4, <1>6, <1>7, <1>8, <1>9 DEF drawn

\* The image is followed: by what is drawn when it changes there, and by a repaint.
LEMMA PaintedShowing ==
  ASSUME NEW windows, \A id \in DOMAIN windows : IsWindow(windows[id]), InPlace(windows), Sized(windows),
         NEW surfs, Surfaced(windows, surfs), NEW old, NEW img, NEW left, NEW right,
         \/ Showing(windows, old) /\ \A p \in Positions : p \notin left..right => img[p] = old[p]
         \/ Positions \subseteq left..right
  PROVE  Showing(Painted(windows, surfs, img, left, right), img)
<1> DEFINE drawn == Painted(windows, surfs, img, left, right)
<1>1. /\ Visible(drawn) = Visible(windows)
      /\ \A id \in Visible(windows) :
           /\ drawn[id].x = windows[id].x /\ drawn[id].w = windows[id].w
           /\ \A k \in 0..windows[id].w - 1 :
                drawn[id].canvas[k] = IF windows[id].x + k \in left..right
                                      THEN img[windows[id].x + k] ELSE windows[id].canvas[k]
  BY PaintedColumns
<1> HIDE DEF drawn
<1>2. ASSUME NEW id \in Visible(windows), NEW k \in 0..windows[id].w - 1, windows[id].x + k \in Positions
      PROVE  drawn[id].canvas[k] = img[windows[id].x + k]
  <2>1. CASE windows[id].x + k \in left..right
    BY <1>1, <2>1
  <2>2. CASE windows[id].x + k \notin left..right
    <3>1. Showing(windows, old) /\ img[windows[id].x + k] = old[windows[id].x + k]
      BY <1>2, <2>2
    <3>2. windows[id].canvas[k] = old[windows[id].x + k]
      BY <1>2, <3>1 DEF Showing
    <3> QED
      BY <1>1, <2>2, <3>1, <3>2
  <2> QED
    BY <2>1, <2>2
<1> QED
  BY <1>1, <1>2 DEF Showing, drawn

-----------------------------------------------------------------------------
\* On its way to the image is what makes it the server's desktop.
Covers(m, p) == m.type = "graphics" /\ p \in m.left..m.right
Latest(k, p) ==
  /\ k \in 1..Len(toClient) /\ Covers(toClient[k], p) /\ toClient[k].screen[p] = screen[p]
  /\ \A j \in k + 1..Len(toClient) : ~Covers(toClient[j], p)
ImageFollows ==
  \A p \in Positions :
    \/ image[p] = screen[p] /\ \A k \in 1..Len(toClient) : ~Covers(toClient[k], p)
    \/ \E k \in Nat : Latest(k, p)

\* The server reactivates only before it has windows, and draws everything then.
Beginning ==
  /\ changes \in Nat
  /\ changes = 0 => /\ DOMAIN server = {} /\ DOMAIN railWindows = {}
                    /\ \A k \in 1..Len(toClient) : toClient[k].type = "handshake"
  /\ \A k \in 1..Len(toClient) :
       toClient[k].type = "reactivate" =>
         /\ DOMAIN railWindows = {}
         /\ \A j \in 1..k - 1 : toClient[j].type = "handshake"
         /\ k < Len(toClient) /\ \A p \in Positions : Covers(toClient[k + 1], p)

ServerPlaced == \A id \in DOMAIN server : server[id].x \in 0..U16 - 1
StreamPlaced ==
  \A k \in 1..Len(toClient) :
    toClient[k].type = "orders" => \A j \in 1..Len(toClient[k].orders) : IsPlaced(toClient[k].orders[j])

CanvasInv == ServerPlaced /\ StreamPlaced /\ Beginning /\ ImageFollows /\ Canvases(State, image)

\* What is added to the stream of updates.
Added(m) ==
  /\ Len(toClient) \in Nat /\ Len(toClient') = Len(toClient) + 1 /\ toClient'[Len(toClient) + 1] = m
  /\ \A k \in 1..Len(toClient) : toClient'[k] = toClient[k]

LEMMA AppendAdds ==
  ASSUME NEW m, IsSequence(toClient), toClient' = Append(toClient, m)
  PROVE  Added(m)
BY DEF Added, IsSequence

\* An order leaves what is no order where it is.
OrderAdded ==
  /\ Len(toClient) \in Nat /\ Len(toClient') \in {Len(toClient), Len(toClient) + 1}
  /\ \A k \in 1..Len(toClient) : \/ toClient'[k] = toClient[k]
                                 \/ toClient[k].type = "orders" /\ toClient'[k].type = "orders"
  /\ Len(toClient') = Len(toClient) + 1 => toClient'[Len(toClient) + 1].type = "orders"

LEMMA OrderAdds ==
  ASSUME StreamOK, StreamPlaced, NEW o, IsPlaced(o), SendOrder(o)
  PROVE  OrderAdded /\ StreamPlaced'
<1>0. Len(toClient) \in Nat /\ IsSequence(toClient)
  BY DEF StreamOK, IsSequence
<1>1. CASE toClient' = Append(toClient, [type |-> "orders", orders |-> <<o>>])
  <2> DEFINE m == [type |-> "orders", orders |-> <<o>>]
  <2>1. m.type = "orders" /\ Len(m.orders) = 1 /\ m.orders[1] = o /\ 1..1 = {1}
    OBVIOUS
  <2> HIDE DEF m
  <2>2. Added(m)
    BY <1>0, <1>1, AppendAdds DEF m
  <2>3. OrderAdded
    BY <2>1, <2>2 DEF OrderAdded, Added
  <2>4. ASSUME NEW k \in 1..Len(toClient'), toClient'[k].type = "orders"
        PROVE  \A j \in 1..Len(toClient'[k].orders) : IsPlaced(toClient'[k].orders[j])
    <3>1. CASE k = Len(toClient) + 1
      BY <2>1, <2>2, <3>1 DEF Added
    <3>2. CASE k # Len(toClient) + 1
      BY <2>2, <2>4, <3>2 DEF Added, StreamPlaced
    <3> QED
      BY <3>1, <3>2
  <2> QED
    BY <2>3, <2>4 DEF StreamPlaced
<1>2. CASE /\ toClient # << >> /\ Last(toClient).type = "orders"
           /\ toClient' = [toClient EXCEPT ![Len(toClient)].orders = Append(@, o)]
  <2> DEFINE n == Len(toClient)
             last == toClient[n]
             m == [last EXCEPT !.orders = Append(last.orders, o)]
  <2>1. n \in Nat \ {0} /\ last.type = "orders" /\ toClient' = [toClient EXCEPT ![n] = m]
    BY <1>0, <1>2 DEF IsSequence, Last
  <2>2. DOMAIN last = {"type", "orders"} /\ AreOrders(last.orders)
    BY <2>1 DEF StreamOK, IsUpdate
  <2>3. \A j \in 1..Len(last.orders) : IsPlaced(last.orders[j])
    BY <2>1 DEF StreamPlaced
  <2> HIDE DEF n, last
  <2>4. m.type = "orders" /\ m.orders = Append(last.orders, o)
    BY <2>1, <2>2
  <2> HIDE DEF m
  <2>5. /\ Len(last.orders) \in Nat /\ Len(Append(last.orders, o)) = Len(last.orders) + 1
        /\ Append(last.orders, o)[Len(last.orders) + 1] = o
        /\ \A k \in 1..Len(last.orders) : Append(last.orders, o)[k] = last.orders[k]
    BY <2>2 DEF AreOrders, IsSequence
  <2>6. \A j \in 1..Len(m.orders) : IsPlaced(m.orders[j])
    BY <2>3, <2>4, <2>5
  <2>7. Len(toClient') = n /\ toClient'[n] = m /\ \A k \in 1..n : k # n => toClient'[k] = toClient[k]
    BY <1>0, <2>1 DEF IsSequence, n
  <2>8. OrderAdded
    <3>1. toClient[n].type = "orders"
      BY <2>1 DEF last
    <3>2. toClient'[n].type = "orders"
      BY <2>4, <2>7
    <3>3. Len(toClient) \in Nat /\ Len(toClient') = Len(toClient)
      BY <1>0, <2>7 DEF n
    <3>4. ASSUME NEW k \in 1..Len(toClient)
          PROVE  \/ toClient'[k] = toClient[k]
                 \/ toClient[k].type = "orders" /\ toClient'[k].type = "orders"
      <4>1. CASE k = n
        BY <3>1, <3>2, <4>1
      <4>2. CASE k # n
        BY <2>7, <4>2 DEF n
      <4> QED
        BY <4>1, <4>2
    <3>5. Len(toClient') # Len(toClient) + 1
      BY <3>3
    <3> QED
      BY <3>3, <3>4, <3>5 DEF OrderAdded
  <2>9. ASSUME NEW k \in 1..Len(toClient'), toClient'[k].type = "orders"
        PROVE  \A j \in 1..Len(toClient'[k].orders) : IsPlaced(toClient'[k].orders[j])
    <3>1. CASE k = n
      BY <2>6, <2>7, <3>1
    <3>2. CASE k # n
      <4>1. k \in 1..Len(toClient) /\ toClient'[k] = toClient[k]
        BY <2>7, <3>2 DEF n
      <4> QED
        BY <2>9, <4>1 DEF StreamPlaced
    <3> QED
      BY <3>1, <3>2
  <2> QED
    BY <2>8, <2>9 DEF StreamPlaced
<1> QED
  BY <1>1, <1>2 DEF SendOrder

\* Neither the image nor the beginning of the stream minds an order, a handshake, or the taking of either.
LEMMA OrderFollows ==
  ASSUME ImageFollows, OrderAdded, UNCHANGED <<image, screen>>
  PROVE  ImageFollows'
<1>1. ASSUME NEW p \in Positions
      PROVE  \/ image[p] = screen[p] /\ \A k \in 1..Len(toClient') : ~Covers(toClient'[k], p)
             \/ \E k \in Nat : Latest(k, p)'
  <2>1. \A k \in 1..Len(toClient') : Covers(toClient'[k], p) => k \in 1..Len(toClient) /\ toClient'[k] = toClient[k]
    BY DEF OrderAdded, Covers
  <2>2. CASE image[p] = screen[p] /\ \A k \in 1..Len(toClient) : ~Covers(toClient[k], p)
    BY <2>1, <2>2
  <2>3. ASSUME NEW k \in Nat, Latest(k, p) PROVE Latest(k, p)'
    <3>1. k \in 1..Len(toClient) /\ toClient[k].type # "orders"
      BY <2>3 DEF Latest, Covers
    <3>2. toClient'[k] = toClient[k] /\ k \in 1..Len(toClient')
      BY <3>1 DEF OrderAdded
    <3>3. \A j \in k + 1..Len(toClient') : ~Covers(toClient'[j], p)
      <4> SUFFICES ASSUME NEW j \in k + 1..Len(toClient'), Covers(toClient'[j], p) PROVE FALSE
        OBVIOUS
      <4>1. j \in 1..Len(toClient') /\ Len(toClient) \in Nat
        BY DEF OrderAdded
      <4>2. j \in 1..Len(toClient) /\ toClient'[j] = toClient[j]
        BY <2>1, <4>1
      <4>3. j \in k + 1..Len(toClient)
        BY <4>1, <4>2
      <4> QED
        BY <2>3, <4>2, <4>3 DEF Latest
    <3>4. Covers(toClient'[k], p) /\ toClient'[k].screen[p] = screen'[p]
      BY <2>3, <3>2 DEF Latest
    <3> QED
      BY <3>2, <3>3, <3>4 DEF Latest, Covers
  <2> QED
    BY <2>2, <2>3 DEF ImageFollows
<1> QED
  BY <1>1 DEF ImageFollows, Covers

LEMMA OrderBegins ==
  ASSUME Beginning, OrderAdded, changes' \in Nat \ {0}, DOMAIN railWindows' = DOMAIN railWindows
  PROVE  Beginning'
<1>1. ASSUME NEW k \in 1..Len(toClient'), toClient'[k].type = "reactivate"
      PROVE  /\ DOMAIN railWindows' = {}
             /\ \A j \in 1..k - 1 : toClient'[j].type = "handshake"
             /\ k < Len(toClient') /\ \A p \in Positions : Covers(toClient'[k + 1], p)
  <2>0. Len(toClient) \in Nat
    BY DEF OrderAdded
  <2>1. k \in 1..Len(toClient) /\ toClient'[k] = toClient[k]
    BY <1>1 DEF OrderAdded
  <2>2. /\ DOMAIN railWindows = {} /\ \A j \in 1..k - 1 : toClient[j].type = "handshake"
        /\ k < Len(toClient) /\ \A p \in Positions : Covers(toClient[k + 1], p)
    BY <1>1, <2>1 DEF Beginning
  <2>3. \A j \in 1..k - 1 : toClient'[j].type = "handshake"
    BY <2>0, <2>1, <2>2 DEF OrderAdded
  <2>4. k + 1 \in 1..Len(toClient) /\ Len(toClient') \in {Len(toClient), Len(toClient) + 1}
    BY <2>0, <2>1, <2>2 DEF OrderAdded
  <2>5. 0 \in Positions
    BY RailAssumption DEF Positions
  <2>6. toClient[k + 1].type = "graphics"
    BY <2>2, <2>5 DEF Covers
  <2>7. toClient'[k + 1] = toClient[k + 1]
    BY <2>4, <2>6 DEF OrderAdded
  <2> QED
    BY <2>0, <2>2, <2>3, <2>4, <2>7
<1> QED
  BY <1>1 DEF Beginning, Covers

\* Taking the first update.
Taken ==
  /\ Len(toClient) \in Nat \ {0} /\ Len(toClient') = Len(toClient) - 1 /\ Head(toClient) = toClient[1]
  /\ \A k \in 1..Len(toClient) - 1 : toClient'[k] = toClient[k + 1]

LEMMA TailTakes ==
  ASSUME IsSequence(toClient), toClient # << >>, toClient' = Tail(toClient)
  PROVE  Taken
BY DEF Taken, IsSequence

LEMMA TakenFollows ==
  ASSUME ImageFollows, Taken, screen' = screen,
         \A p \in Positions :
           \/ ~Covers(Head(toClient), p) /\ image'[p] = image[p]
           \/ Covers(Head(toClient), p) /\ image'[p] = Head(toClient).screen[p]
           \/ \E k \in 2..Len(toClient) : Covers(toClient[k], p)
  PROVE  ImageFollows'
<1>1. ASSUME NEW p \in Positions
      PROVE  \/ image'[p] = screen[p] /\ \A k \in 1..Len(toClient') : ~Covers(toClient'[k], p)
             \/ \E k \in Nat : Latest(k, p)'
  <2>1. ASSUME NEW k \in 1..Len(toClient'), Covers(toClient'[k], p)
        PROVE  k + 1 \in 2..Len(toClient) /\ Covers(toClient[k + 1], p)
    BY <2>1 DEF Taken
  <2>2. CASE image[p] = screen[p] /\ \A k \in 1..Len(toClient) : ~Covers(toClient[k], p)
    <3>1. ~Covers(Head(toClient), p) /\ image'[p] = image[p]
      BY <2>2, SMTT(30) DEF Taken
    <3> QED
      BY <2>1, <2>2, <3>1 DEF Taken
  <2>3. ASSUME NEW k \in Nat, Latest(k, p), k # 1 PROVE Latest(k - 1, p)' /\ k - 1 \in Nat
    <3>1. k - 1 \in 1..Len(toClient') /\ toClient'[k - 1] = toClient[k]
      BY <2>3 DEF Latest, Taken
    <3>2. Covers(toClient'[k - 1], p) /\ toClient'[k - 1].screen[p] = screen'[p]
      BY <2>3, <3>1 DEF Latest
    <3>3. \A j \in (k - 1) + 1..Len(toClient') : ~Covers(toClient'[j], p)
      <4> SUFFICES ASSUME NEW j \in (k - 1) + 1..Len(toClient'), Covers(toClient'[j], p) PROVE FALSE
        OBVIOUS
      <4>1. j \in 1..Len(toClient') /\ j >= k
        BY <3>1 DEF Taken
      <4>2. j + 1 \in k + 1..Len(toClient) /\ Covers(toClient[j + 1], p)
        BY <2>1, <4>1 DEF Taken
      <4> QED
        BY <2>3, <4>2 DEF Latest
    <3> QED
      BY <3>1, <3>2, <3>3 DEF Latest, Covers
  <2>4. CASE Latest(1, p)
    <3>1. Covers(Head(toClient), p) /\ Head(toClient).screen[p] = screen[p]
      BY <2>4 DEF Latest, Taken
    <3>2. \A k \in 2..Len(toClient) : ~Covers(toClient[k], p)
      BY <2>4 DEF Latest
    <3>3. image'[p] = screen[p]
      BY <3>1, <3>2
    <3> QED
      BY <2>1, <3>2, <3>3
  <2> QED
    BY <2>2, <2>3, <2>4 DEF ImageFollows
<1> QED
  BY <1>1 DEF ImageFollows, Covers

LEMMA TakenBegins ==
  ASSUME Beginning, Taken, UNCHANGED <<changes, server>>,
         DOMAIN railWindows' = DOMAIN railWindows \/ Head(toClient).type = "orders"
  PROVE  Beginning'
<1>0. \A k \in 1..Len(toClient') : k + 1 \in 1..Len(toClient) /\ toClient'[k] = toClient[k + 1]
  BY DEF Taken
<1>1. ASSUME changes = 0
      PROVE  /\ DOMAIN server = {} /\ DOMAIN railWindows' = {}
             /\ \A k \in 1..Len(toClient') : toClient'[k].type = "handshake"
  <2>1. /\ DOMAIN server = {} /\ DOMAIN railWindows = {}
        /\ \A k \in 1..Len(toClient) : toClient[k].type = "handshake"
    BY <1>1 DEF Beginning
  <2>2. Head(toClient).type = "handshake"
    BY <2>1 DEF Taken
  <2> QED
    BY <1>0, <2>1, <2>2
<1>2. ASSUME NEW k \in 1..Len(toClient'), toClient'[k].type = "reactivate"
      PROVE  /\ DOMAIN railWindows' = {}
             /\ \A j \in 1..k - 1 : toClient'[j].type = "handshake"
             /\ k < Len(toClient') /\ \A p \in Positions : Covers(toClient'[k + 1], p)
  <2>1. k + 1 \in 1..Len(toClient) /\ toClient[k + 1].type = "reactivate"
    BY <1>0, <1>2
  <2>2. /\ DOMAIN railWindows = {} /\ \A j \in 1..(k + 1) - 1 : toClient[j].type = "handshake"
        /\ k + 1 < Len(toClient) /\ \A p \in Positions : Covers(toClient[(k + 1) + 1], p)
    BY <2>1 DEF Beginning
  <2>3. Head(toClient).type = "handshake"
    BY <2>2 DEF Taken
  <2>4. \A j \in 1..k - 1 : toClient'[j].type = "handshake"
    <3> TAKE j \in 1..k - 1
    <3>1. j \in 1..Len(toClient') /\ j + 1 \in 1..(k + 1) - 1
      BY DEF Taken
    <3> QED
      BY <1>0, <2>2, <3>1
  <2>5. k < Len(toClient') /\ k + 1 \in 1..Len(toClient')
    BY <2>2 DEF Taken
  <2>6. toClient'[k + 1] = toClient[(k + 1) + 1]
    BY <1>0, <2>5
  <2> QED
    BY <2>2, <2>3, <2>4, <2>5, <2>6
<1> QED
  BY <1>1, <1>2 DEF Beginning, Covers

LEMMA TakenPlaced ==
  ASSUME StreamPlaced, Taken
  PROVE  StreamPlaced'
<1>0. \A k \in 1..Len(toClient') : k + 1 \in 1..Len(toClient) /\ toClient'[k] = toClient[k + 1]
  BY DEF Taken
<1> QED
  BY <1>0 DEF StreamPlaced, IsPlaced

-----------------------------------------------------------------------------
\* Windows start on the desktop, and the server does not reactivate while it has them.
OnDesktop == ~Reactivates /\ \A at \in Places : at[1] \in 0..U16 - 1

LEMMA CanvasesKept ==
  ASSUME Canvases(State, image), UNCHANGED <<railWindows, surfaces, image>>, IsSequence(inputs'),
         Repainting(inputs) => Repainting(inputs')
  PROVE  Canvases(State, image)'
BY DEF Canvases, State, InPlace, Surfaced, Sized, Showing, Repainting, Visible, Surface, IsSequence

LEMMA PlacedWindow ==
  ASSUME ServerPlaced, NEW id, NEW win \in ServerWindows, win.x \in 0..U16 - 1, NEW new, NEW has,
         server' = With(server, id, win) \/ (id \in DOMAIN server /\ server' = [server EXCEPT ![id] = win])
  PROVE  ServerPlaced' /\ IsPlaced(WindowOrder(id, new, has, win))
<1>1. IsPlaced(WindowOrder(id, new, has, win))
  BY DEF IsPlaced, WindowOrder, ServerWindows
<1>2. CASE server' = With(server, id, win)
  <2>1. DOMAIN server' = DOMAIN server \cup {id} /\ server'[id] = win
        /\ \A k \in DOMAIN server : k # id => server'[k] = server[k]
    BY <1>2 DEF With
  <2> QED
    BY <1>1, <2>1 DEF ServerPlaced
<1>3. CASE id \in DOMAIN server /\ server' = [server EXCEPT ![id] = win]
  <2>1. DOMAIN server' = DOMAIN server /\ server'[id] = win
        /\ \A k \in DOMAIN server : k # id => server'[k] = server[k]
    BY <1>3
  <2> QED
    BY <1>1, <2>1 DEF ServerPlaced
<1> QED
  BY <1>2, <1>3

LEMMA OrderKeeps ==
  ASSUME PagesInv, CanvasInv, NEW o, IsPlaced(o), SendOrder(o), ServerPlaced', changes' \in Nat \ {0},
         UNCHANGED <<screen, image, surfaces, railWindows>>, IsSequence(inputs'),
         Repainting(inputs) => Repainting(inputs')
  PROVE  CanvasInv'
<1>1. OrderAdded /\ StreamPlaced'
  BY OrderAdds DEF PagesInv, CanvasInv
<1>2. ImageFollows' /\ Beginning'
  BY <1>1, OrderFollows, OrderBegins DEF CanvasInv
<1>3. Canvases(State, image)'
  BY CanvasesKept DEF CanvasInv
<1> QED
  BY <1>1, <1>2, <1>3 DEF CanvasInv

LEMMA ServerTurns ==
  ASSUME OnDesktop, PagesInv, CanvasInv, NEW id \in Windows,
         ServerCreates(id) \/ ServerUpdates(id) \/ ServerDeletes(id) \/ ServerTells(id)
  PROVE  CanvasInv'
<1>0. /\ changes' \in Nat \ {0} /\ UNCHANGED <<screen, image, surfaces, railWindows>>
      /\ IsSequence(inputs') /\ (Repainting(inputs) => Repainting(inputs'))
  <2>1. /\ changes' = changes + 1 /\ UNCHANGED <<screen, image, surfaces, railWindows, inputs>>
    BY DEF ServerCreates, ServerUpdates, ServerDeletes, ServerTells, Change, pageVars
  <2>2. changes \in Nat /\ IsSequence(inputs)
    BY DEF CanvasInv, Beginning, Canvases, State
  <2> QED
    BY <2>1, <2>2
<1>1. CASE ServerCreates(id)
  <2>1. PICK at \in Places, show \in {SW_HIDE, SW_SHOWNORMAL}, n \in Rects :
          LET win == [x |-> at[1], w |-> at[2], show |-> show, rects |-> n]
          IN  server' = With(server, id, win) /\ SendOrder(WindowOrder(id, TRUE, AllFields, win))
    BY <1>1 DEF ServerCreates
  <2> DEFINE win == [x |-> at[1], w |-> at[2], show |-> show, rects |-> n]
  <2>2. win \in ServerWindows /\ win.x \in 0..U16 - 1
    BY RailAssumption DEF ServerWindows, SW_HIDE, SW_SHOWNORMAL, OnDesktop
  <2> HIDE DEF win
  <2>3. server' = With(server, id, win) /\ SendOrder(WindowOrder(id, TRUE, AllFields, win))
    BY <2>1 DEF win
  <2>4. ServerPlaced' /\ IsPlaced(WindowOrder(id, TRUE, AllFields, win))
    BY <2>2, <2>3, PlacedWindow DEF CanvasInv
  <2> QED
    BY <1>0, <2>3, <2>4, OrderKeeps
<1>2. CASE ServerUpdates(id)
  <2>0. id \in DOMAIN server /\ server[id] \in ServerWindows /\ server[id].x \in 0..U16 - 1
    BY <1>2 DEF ServerUpdates, PagesInv, ServerOK, CanvasInv, ServerPlaced
  <2>1. PICK win \in Moved(server[id]) \cup Reshown(server[id]) :
          /\ server' = [server EXCEPT ![id] = win]
          /\ \E has : SendOrder(WindowOrder(id, FALSE, has, win))
    BY <1>2 DEF ServerUpdates
  <2>2. win \in ServerWindows /\ win.x \in 0..U16 - 1
    BY <2>0, WindowChanges DEF OnDesktop
  <2>3. PICK has : SendOrder(WindowOrder(id, FALSE, has, win))
    BY <2>1
  <2>4. ServerPlaced' /\ IsPlaced(WindowOrder(id, FALSE, has, win))
    BY <2>0, <2>1, <2>2, PlacedWindow DEF CanvasInv
  <2> QED
    BY <1>0, <2>3, <2>4, OrderKeeps
<1>3. CASE ServerDeletes(id)
  <2>1. server' = Without(server, id) /\ SendOrder(DeleteOrder(id))
    BY <1>3 DEF ServerDeletes
  <2>2. IsPlaced(DeleteOrder(id))
    BY DEF IsPlaced, DeleteOrder
  <2>3. ServerPlaced'
    BY <2>1 DEF ServerPlaced, CanvasInv, Without, Restrict
  <2> QED
    BY <1>0, <2>1, <2>2, <2>3, OrderKeeps
<1>4. CASE ServerTells(id)
  <2>1. PICK o \in {ActiveOrder(id), FrameMarker, IconOrder(id)} : SendOrder(o)
    BY <1>4 DEF ServerTells
  <2>2. IsPlaced(o)
    BY DEF IsPlaced, ActiveOrder, FrameMarker, IconOrder
  <2>3. ServerPlaced'
    BY <1>4 DEF ServerTells, ServerPlaced, CanvasInv
  <2> QED
    BY <1>0, <2>1, <2>2, <2>3, OrderKeeps
<1> QED
  BY <1>1, <1>2, <1>3, <1>4

\* What is no order and is added at the end.
LEMMA OtherPlaced ==
  ASSUME StreamPlaced, NEW m, m.type # "orders", Added(m)
  PROVE  StreamPlaced'
<1>1. \A k \in 1..Len(toClient') : toClient'[k].type = "orders" =>
        k \in 1..Len(toClient) /\ toClient'[k] = toClient[k]
  BY DEF Added
<1> QED
  BY <1>1 DEF StreamPlaced, IsPlaced

LEMMA HandshakeAdds ==
  ASSUME PagesInv, CanvasInv, ServerHandshake
  PROVE  CanvasInv'
<1> DEFINE m == [type |-> "handshake"]
<1>1. m.type = "handshake" /\ toClient' = Append(toClient, m) /\ IsSequence(toClient)
  BY DEF ServerHandshake, PagesInv, StreamOK
<1>2. UNCHANGED <<server, screen, changes, image, surfaces, inputs, railWindows>> /\ changes = 0
  BY DEF ServerHandshake, pageVars
<1> HIDE DEF m
<1>3. Added(m) /\ Len(toClient) \in Nat
  BY <1>1, AppendAdds DEF Added
<1>4. StreamPlaced' /\ ServerPlaced'
  BY <1>1, <1>2, <1>3, OtherPlaced DEF CanvasInv, ServerPlaced
<1>5. ImageFollows'
  <2>1. \A p \in Positions : image[p] = screen[p] /\ \A k \in 1..Len(toClient) : ~Covers(toClient[k], p)
    BY <1>2 DEF CanvasInv, ImageFollows, Beginning, Latest, Covers
  <2>2. \A p \in Positions : \A k \in 1..Len(toClient') : ~Covers(toClient'[k], p)
    BY <1>1, <1>3, <2>1 DEF Added, Covers
  <2> QED
    BY <1>2, <2>1, <2>2 DEF ImageFollows, Covers
<1>6. Beginning'
  <2>1. \A k \in 1..Len(toClient') : toClient'[k].type = "handshake"
    BY <1>1, <1>2, <1>3 DEF CanvasInv, Beginning, Added
  <2> QED
    BY <1>2, <2>1 DEF CanvasInv, Beginning
<1>7. Canvases(State, image)'
  BY <1>2, CanvasesKept DEF CanvasInv, Canvases, State
<1> QED
  BY <1>4, <1>5, <1>6, <1>7 DEF CanvasInv

LEMMA Draws ==
  ASSUME PagesInv, CanvasInv, NEW q \in Positions, ServerDraws(q)
  PROVE  CanvasInv'
<1> DEFINE m == [type |-> "graphics", left |-> q, right |-> q, screen |-> screen']
<1>1. /\ m.type = "graphics" /\ m.left = q /\ m.right = q /\ m.screen = screen'
      /\ toClient' = Append(toClient, m) /\ IsSequence(toClient)
  BY DEF ServerDraws, PagesInv, StreamOK
<1>2. UNCHANGED <<server, image, surfaces, inputs, railWindows>> /\ changes' = changes + 1
  BY DEF ServerDraws, Change, pageVars
<1>3. \A p \in Positions : p # q => screen'[p] = screen[p]
  BY DEF ServerDraws
<1> HIDE DEF m
<1>4. Added(m) /\ Len(toClient) \in Nat
  BY <1>1, AppendAdds DEF Added
<1>5. StreamPlaced' /\ ServerPlaced'
  BY <1>1, <1>2, <1>4, OtherPlaced DEF CanvasInv, ServerPlaced
<1>6. ASSUME NEW p \in Positions
      PROVE  \/ image[p] = screen'[p] /\ \A k \in 1..Len(toClient') : ~Covers(toClient'[k], p)
             \/ \E k \in Nat : Latest(k, p)'
  <2>0. \A k \in Int : k \in q..q <=> k = q
    BY DEF Positions
  <2>1. Covers(m, p) <=> p = q
    BY <1>1, <2>0 DEF Covers, Positions
  <2>2. CASE p = q
    <3>0. /\ Len(toClient') = Len(toClient) + 1 /\ toClient'[Len(toClient) + 1] = m /\ m.screen = screen'
          /\ Covers(m, p)
      BY <1>1, <1>4, <2>1, <2>2 DEF Added
    <3>1. PICK k \in Nat : k = Len(toClient) + 1
      BY <1>4
    <3>2. k \in 1..Len(toClient') /\ k + 1..Len(toClient') = {}
      BY <1>4, <3>0, <3>1
    <3>3. Covers(toClient'[k], p) /\ toClient'[k].screen[p] = screen'[p]
      BY <3>0, <3>1
    <3>4. Latest(k, p)'
      BY <3>2, <3>3 DEF Latest, Covers
    <3> QED
      BY <3>4
  <2>3. CASE p # q
    <3>1. \A k \in 1..Len(toClient') : Covers(toClient'[k], p) => k \in 1..Len(toClient) /\ toClient'[k] = toClient[k]
      BY <1>4, <2>1, <2>3 DEF Added
    <3>2. screen'[p] = screen[p]
      BY <1>3, <2>3
    <3>3. CASE image[p] = screen[p] /\ \A k \in 1..Len(toClient) : ~Covers(toClient[k], p)
      BY <3>1, <3>2, <3>3
    <3>4. ASSUME NEW k \in Nat, Latest(k, p) PROVE Latest(k, p)'
      <4>1. k \in 1..Len(toClient') /\ toClient'[k] = toClient[k]
        BY <1>4, <3>4 DEF Latest, Added
      <4>2. Covers(toClient'[k], p) /\ toClient'[k].screen[p] = screen'[p]
        BY <3>2, <3>4, <4>1 DEF Latest
      <4>3. \A j \in k + 1..Len(toClient') : ~Covers(toClient'[j], p)
        <5> SUFFICES ASSUME NEW j \in k + 1..Len(toClient'), Covers(toClient'[j], p) PROVE FALSE
          OBVIOUS
        <5>1. j \in 1..Len(toClient')
          BY <1>4 DEF Added
        <5>2. j \in 1..Len(toClient) /\ toClient'[j] = toClient[j]
          BY <3>1, <5>1
        <5>3. j \in k + 1..Len(toClient)
          BY <5>2
        <5> QED
          BY <3>4, <5>2, <5>3 DEF Latest
      <4> QED
        BY <4>1, <4>2, <4>3 DEF Latest, Covers
    <3> QED
      BY <3>3, <3>4 DEF CanvasInv, ImageFollows
  <2> QED
    BY <2>2, <2>3
<1>7. ImageFollows'
  BY <1>2, <1>6 DEF ImageFollows, Covers
<1>8. Beginning'
  <2>1. changes' \in Nat \ {0}
    BY <1>2 DEF CanvasInv, Beginning
  <2>2. ASSUME NEW k \in 1..Len(toClient'), toClient'[k].type = "reactivate"
        PROVE  /\ DOMAIN railWindows' = {}
               /\ \A j \in 1..k - 1 : toClient'[j].type = "handshake"
               /\ k < Len(toClient') /\ \A p \in Positions : Covers(toClient'[k + 1], p)
    <3>1. k \in 1..Len(toClient) /\ toClient'[k] = toClient[k]
      BY <1>1, <1>4, <2>2 DEF Added
    <3>2. /\ DOMAIN railWindows = {} /\ \A j \in 1..k - 1 : toClient[j].type = "handshake"
          /\ k < Len(toClient) /\ \A p \in Positions : Covers(toClient[k + 1], p)
      BY <2>2, <3>1 DEF CanvasInv, Beginning
    <3>3. k + 1 \in 1..Len(toClient) /\ \A j \in 1..k - 1 : j \in 1..Len(toClient)
      BY <1>4, <3>1, <3>2
    <3> QED
      BY <1>2, <1>4, <3>2, <3>3 DEF Added
  <2> QED
    BY <2>1, <2>2 DEF Beginning, Covers
<1>9. Canvases(State, image)'
  BY <1>2, CanvasesKept DEF CanvasInv, Canvases, State
<1> QED
  BY <1>5, <1>7, <1>8, <1>9 DEF CanvasInv

LEMMA ReactivationDraws ==
  ASSUME OnDesktop, PagesInv, CanvasInv, ServerReactivates
  PROVE  CanvasInv'
<1> DEFINE m == [type |-> "reactivate"]
           n == [type |-> "graphics", left |-> 0, right |-> Width - 1, screen |-> screen]
           l == Len(toClient)
<1>1. /\ m.type = "reactivate" /\ n.type = "graphics" /\ n.screen = screen /\ n.left = 0 /\ n.right = Width - 1
      /\ toClient' = toClient \o <<m, n>> /\ IsSequence(toClient)
  BY DEF ServerReactivates, PagesInv, StreamOK
<1>2. /\ UNCHANGED <<server, screen, image, surfaces, inputs, railWindows>>
      /\ changes' = changes + 1 /\ changes = 0
  BY DEF ServerReactivates, Change, pageVars, OnDesktop
<1> HIDE DEF m, n
<1>3. /\ l \in Nat /\ Len(toClient') = l + 2 /\ toClient'[l + 1] = m /\ toClient'[l + 2] = n
      /\ \A k \in 1..l : toClient'[k] = toClient[k]
  <2>1. PICK S : toClient \in Seq(S)
    BY <1>1 DEF IsSequence
  <2>2. toClient \in Seq(S \cup {m, n}) /\ <<m, n>> \in Seq(S \cup {m, n}) /\ Len(<<m, n>>) = 2
        /\ <<m, n>>[1] = m /\ <<m, n>>[2] = n
    BY <2>1
  <2> HIDE DEF l
  <2>3. Len(toClient) \in Nat /\ Len(toClient \o <<m, n>>) = Len(toClient) + 2
    BY <2>2
  <2>4. \A k \in 1..Len(toClient) + 2 :
          (toClient \o <<m, n>>)[k] = IF k <= Len(toClient) THEN toClient[k] ELSE <<m, n>>[k - Len(toClient)]
    BY <2>2
  <2>5. toClient'[Len(toClient) + 1] = m /\ toClient'[Len(toClient) + 2] = n
    BY <1>1, <2>2, <2>3, <2>4
  <2> QED
    BY <1>1, <2>3, <2>4, <2>5 DEF l
<1>4. /\ DOMAIN server = {} /\ DOMAIN railWindows = {}
      /\ \A k \in 1..l : toClient[k].type = "handshake"
  BY <1>2 DEF CanvasInv, Beginning
<1> HIDE DEF l
<1>5. \A p \in Positions : Covers(n, p)
  BY <1>1 DEF Covers, Positions
<1>6. ASSUME NEW p \in Positions PROVE \E k \in Nat : Latest(k, p)'
  <2>1. PICK k \in Nat : k = l + 2
    BY <1>3
  <2>2. k \in 1..Len(toClient') /\ k + 1..Len(toClient') = {}
    BY <1>3, <2>1
  <2>3. Covers(toClient'[k], p) /\ toClient'[k].screen[p] = screen'[p]
    BY <1>1, <1>2, <1>3, <1>5, <2>1
  <2>4. Latest(k, p)'
    BY <2>2, <2>3 DEF Latest, Covers
  <2> QED
    BY <2>4
<1>7. ImageFollows'
  BY <1>6 DEF ImageFollows, Covers
<1>8. ASSUME NEW k \in 1..Len(toClient')
      PROVE  /\ toClient'[k].type # "orders"
             /\ toClient'[k].type = "reactivate" => k = l + 1
  <2>1. k \in 1..l \/ k = l + 1 \/ k = l + 2
    BY <1>3
  <2>2. CASE k \in 1..l
    BY <1>3, <1>4, <2>2
  <2>3. CASE k = l + 1
    BY <1>1, <1>3, <2>3
  <2>4. CASE k = l + 2
    BY <1>1, <1>3, <2>4
  <2> QED
    BY <2>1, <2>2, <2>3, <2>4
<1>9. StreamPlaced' /\ ServerPlaced'
  BY <1>2, <1>8 DEF StreamPlaced, CanvasInv, ServerPlaced
<1>10. Beginning'
  <2>1. changes' \in Nat \ {0}
    BY <1>2
  <2>2. ASSUME NEW k \in 1..Len(toClient'), toClient'[k].type = "reactivate"
        PROVE  /\ DOMAIN railWindows' = {}
               /\ \A j \in 1..k - 1 : toClient'[j].type = "handshake"
               /\ k < Len(toClient') /\ \A p \in Positions : Covers(toClient'[k + 1], p)
    <3>1. k = l + 1
      BY <1>8, <2>2
    <3>2. \A j \in 1..k - 1 : toClient'[j].type = "handshake"
      BY <1>3, <1>4, <3>1
    <3>3. k < Len(toClient') /\ k + 1 = l + 2
      BY <1>3, <3>1
    <3> QED
      BY <1>2, <1>3, <1>4, <1>5, <3>2, <3>3
  <2> QED
    BY <2>1, <2>2 DEF Beginning, Covers
<1>11. Canvases(State, image)'
  BY <1>2, CanvasesKept DEF CanvasInv, Canvases, State
<1> QED
  BY <1>7, <1>9, <1>10, <1>11 DEF CanvasInv

LEMMA CanvasesNext ==
  ASSUME IsSequence(inputs'), InPlace(railWindows'), Surfaced(railWindows', surfaces'), Sized(railWindows'),
         Repainting(inputs') \/ Showing(railWindows', image')
  PROVE  Canvases(State, image)'
<1>1. State'.inputs = inputs' /\ State'.windows = railWindows' /\ State'.surfaces = surfaces'
  BY DEF State
<1>2. Canvases(State', image')
  BY <1>1 DEF Canvases
<1> QED
  BY <1>2

-----------------------------------------------------------------------------
LEMMA FirstTaken ==
  ASSUME PagesInv, CanvasInv, toClient # << >>, toClient' = Tail(toClient), UNCHANGED <<server, changes>>,
         DOMAIN railWindows' = DOMAIN railWindows \/ Head(toClient).type = "orders"
  PROVE  Taken /\ StreamPlaced' /\ ServerPlaced' /\ Beginning'
<1>1. Taken
  BY TailTakes DEF PagesInv, StreamOK
<1> QED
  BY <1>1, TakenBegins, TakenPlaced DEF CanvasInv, ServerPlaced

LEMMA OrdersDrawn ==
  ASSUME PagesInv, CanvasInv, OnOrders
  PROVE  CanvasInv'
<1> DEFINE m == Head(toClient)
           s == Dispatched(State, parse(Payload(m.orders)))
<1>1. /\ toClient # << >> /\ m.type = "orders" /\ toClient' = Tail(toClient)
      /\ UNCHANGED <<server, changes, screen, image>>
      /\ railWindows' = s.windows /\ surfaces' = s.surfaces /\ inputs' = s.inputs
  BY DEF OnOrders, serverVars, Dispatched
<1>2. Taken /\ StreamPlaced' /\ ServerPlaced' /\ Beginning'
  BY <1>1, FirstTaken
<1>3. m = toClient[1] /\ 1 \in 1..Len(toClient)
  BY <1>2 DEF Taken
<1>4. AreOrders(m.orders) /\ \A k \in 1..Len(m.orders) : IsPlaced(m.orders[k])
  BY <1>1, <1>3 DEF PagesInv, StreamOK, IsUpdate, CanvasInv, StreamPlaced
<1>5. IsState(State) /\ Canvases(State, image)
  BY DEF PagesInv, PageOK, IsState, State, CanvasInv
<1> HIDE DEF m
<1>6. Canvases(s, image)
  BY <1>4, <1>5, UpdateDraws
<1> HIDE DEF s
<1>7. Canvases(State, image)'
  BY <1>1, <1>6 DEF Canvases, State, InPlace, Surfaced, Sized, Showing, Repainting, Visible, Surface, IsSequence
<1>8. \A p \in Positions : ~Covers(Head(toClient), p)
  BY <1>1 DEF Covers, m
<1>9. ImageFollows'
  BY <1>1, <1>2, <1>8, TakenFollows DEF CanvasInv
<1> QED
  BY <1>2, <1>7, <1>9 DEF CanvasInv

LEMMA GraphicsDrawn ==
  ASSUME PagesInv, CanvasInv, OnGraphics
  PROVE  CanvasInv'
<1> DEFINE m == Head(toClient)
           region == m.left..m.right
<1>1. /\ toClient # << >> /\ m.type = "graphics" /\ toClient' = Tail(toClient)
      /\ UNCHANGED <<server, changes, screen, surfaces, inputs>>
      /\ \A p \in Positions : image'[p] = IF p \in region THEN m.screen[p] ELSE image[p]
      /\ railWindows' = Painted(railWindows, surfaces, image', m.left, m.right)
  BY DEF OnGraphics, serverVars
<1> HIDE DEF m
<1>2. \A id \in DOMAIN railWindows : IsWindow(railWindows[id])
  BY DEF PagesInv, PageOK
<1>3. /\ IsSequence(inputs) /\ InPlace(railWindows) /\ Surfaced(railWindows, surfaces) /\ Sized(railWindows)
      /\ Repainting(inputs) \/ Showing(railWindows, image)
  BY DEF CanvasInv, Canvases, State
<1>4. InPlace(railWindows') /\ Surfaced(railWindows', surfaces) /\ Sized(railWindows')
  BY <1>1, <1>2, <1>3, PaintedColumns
<1>5. Showing(railWindows, image) => Showing(railWindows', image')
  BY <1>1, <1>2, <1>3, PaintedShowing
<1>6. Canvases(State, image)'
  <2>1. IsSequence(inputs') /\ (Repainting(inputs') \/ Showing(railWindows', image'))
    BY <1>1, <1>3, <1>5
  <2>2. Surfaced(railWindows', surfaces')
    BY <1>1, <1>4
  <2> QED
    BY <1>4, <2>1, <2>2, CanvasesNext
<1>7. DOMAIN railWindows' = DOMAIN railWindows
  BY <1>1 DEF Painted
<1>8. Taken /\ StreamPlaced' /\ ServerPlaced' /\ Beginning'
  BY <1>1, <1>7, FirstTaken DEF m
<1>9. ImageFollows'
  <2>1. ASSUME NEW p \in Positions
        PROVE  \/ ~Covers(m, p) /\ image'[p] = image[p]
               \/ Covers(m, p) /\ image'[p] = m.screen[p]
    BY <1>1 DEF Covers
  <2> QED
    BY <1>1, <1>8, <2>1, TakenFollows DEF CanvasInv, m
<1> QED
  BY <1>6, <1>8, <1>9 DEF CanvasInv

LEMMA ReactivatedDrawn ==
  ASSUME PagesInv, CanvasInv, OnReactivated
  PROVE  CanvasInv'
<1>1. /\ toClient # << >> /\ Head(toClient).type = "reactivate" /\ toClient' = Tail(toClient)
      /\ UNCHANGED <<server, changes, screen, inputs>>
  BY DEF OnReactivated, serverVars
<1>2. Taken
  BY <1>1, TailTakes DEF PagesInv, StreamOK
<1>3. DOMAIN railWindows = {} /\ 1 < Len(toClient) /\ \A p \in Positions : Covers(toClient[1 + 1], p)
  <2>1. 1 \in 1..Len(toClient) /\ toClient[1].type = "reactivate"
    BY <1>1, <1>2 DEF Taken
  <2> QED
    BY <2>1 DEF CanvasInv, Beginning
<1>4. surfaces = {}
  BY <1>3 DEF CanvasInv, Canvases, State, Surfaced, Visible
<1>5. UNCHANGED <<surfaces, railWindows>>
  BY <1>4, FS_EmptySet DEF OnReactivated
<1>6. StreamPlaced' /\ ServerPlaced' /\ Beginning'
  BY <1>1, <1>5, FirstTaken
<1>7. Visible(railWindows) = {}
  BY <1>3 DEF Visible
<1>8. Canvases(State, image)'
  BY <1>1, <1>5, <1>7
     DEF CanvasInv, Canvases, State, InPlace, Surfaced, Sized, Showing, Repainting, Visible, Surface, IsSequence
<1>9. ImageFollows'
  <2>1. \A p \in Positions : \E k \in 2..Len(toClient) : Covers(toClient[k], p)
    <3>1. 2 \in 2..Len(toClient)
      BY <1>2, <1>3 DEF Taken
    <3> QED
      BY <1>3, <3>1
  <2> QED
    BY <1>1, <1>2, <2>1, TakenFollows DEF CanvasInv
<1> QED
  BY <1>6, <1>8, <1>9 DEF CanvasInv

LEMMA HandshakeDrawn ==
  ASSUME PagesInv, CanvasInv, OnHandshake
  PROVE  CanvasInv'
<1>1. /\ toClient # << >> /\ Head(toClient).type = "handshake" /\ toClient' = Tail(toClient)
      /\ UNCHANGED <<server, changes, screen, image, surfaces, inputs, railWindows>>
  BY DEF OnHandshake, pageVars
<1>2. Taken /\ StreamPlaced' /\ ServerPlaced' /\ Beginning'
  BY <1>1, FirstTaken
<1>3. Canvases(State, image)'
  BY <1>1, CanvasesKept DEF CanvasInv, Canvases, State
<1>4. \A p \in Positions : ~Covers(Head(toClient), p)
  BY <1>1 DEF Covers
<1>5. ImageFollows'
  BY <1>1, <1>2, <1>4, TakenFollows DEF CanvasInv
<1> QED
  BY <1>2, <1>3, <1>5 DEF CanvasInv

LEMMA RepaintDraws ==
  ASSUME PagesInv, CanvasInv, OnRepaint
  PROVE  CanvasInv'
<1>1. /\ UNCHANGED <<server, changes, screen, image, surfaces, toClient>>
      /\ inputs # << >> /\ inputs' = Tail(inputs)
      /\ railWindows' = Painted(railWindows, surfaces, image, 0, Width - 1)
  BY DEF OnRepaint, serverVars
<1>2. \A id \in DOMAIN railWindows : IsWindow(railWindows[id])
  BY DEF PagesInv, PageOK
<1>3. /\ IsSequence(inputs) /\ InPlace(railWindows) /\ Surfaced(railWindows, surfaces) /\ Sized(railWindows)
  BY DEF CanvasInv, Canvases, State
<1>4. InPlace(railWindows') /\ Surfaced(railWindows', surfaces) /\ Sized(railWindows')
  BY <1>1, <1>2, <1>3, PaintedColumns
<1>5. Showing(railWindows', image)
  <2>1. 0 \in Int /\ Width - 1 \in Int /\ Positions \subseteq 0..Width - 1
    BY RailAssumption DEF Positions
  <2> QED
    BY <1>1, <1>2, <1>3, <2>1, PaintedShowing
<1>6. IsSequence(inputs')
  BY <1>1, <1>3, TailSequence
<1>7. Canvases(State, image)'
  <2>1. Showing(railWindows', image') /\ Surfaced(railWindows', surfaces')
    BY <1>1, <1>4, <1>5
  <2> QED
    BY <1>4, <1>6, <2>1, CanvasesNext
<1>8. DOMAIN railWindows' = DOMAIN railWindows
  BY <1>1 DEF Painted
<1> QED
  BY <1>1, <1>7, <1>8
     DEF CanvasInv, ServerPlaced, StreamPlaced, Beginning, ImageFollows, Latest, Covers, IsPlaced

\* A step that changes nothing but the inputs.
LEMMA InputStep ==
  ASSUME CanvasInv, UNCHANGED <<server, changes, screen, image, surfaces, toClient, railWindows>>,
         IsSequence(inputs'), Repainting(inputs) => Repainting(inputs')
  PROVE  CanvasInv'
<1>1. Canvases(State, image)'
  BY CanvasesKept DEF CanvasInv
<1> QED
  BY <1>1 DEF CanvasInv, ServerPlaced, StreamPlaced, Beginning, ImageFollows, Latest, Covers, IsPlaced

LEMMA CommandDraws ==
  ASSUME PagesInv, CanvasInv, OnCommand \/ OnExec
  PROVE  CanvasInv'
<1>0. IsSequence(inputs)
  BY DEF CanvasInv, Canvases, State
<1>1. /\ inputs # << >> /\ Head(inputs).type # "repaint" /\ inputs' = Tail(inputs)
      /\ UNCHANGED <<changes, screen, image, surfaces, railWindows>>
  BY DEF OnCommand, OnExec, pageVars
<1>2. IsSequence(inputs') /\ (Repainting(inputs) => Repainting(inputs'))
  BY <1>0, <1>1, InputsTaken
<1>3. CASE UNCHANGED <<server, toClient>>
  BY <1>1, <1>2, <1>3, InputStep
<1>4. CASE ~UNCHANGED <<server, toClient>>
  <2> DEFINE id == Head(inputs).id
             win == IF id \notin DOMAIN server THEN << >>
                    ELSE IF Head(inputs).type = "maximize" THEN [server[id] EXCEPT !.x = 0, !.w = Width]
                    ELSE IF Head(inputs).type = "restore" THEN [server[id] EXCEPT !.show = SW_SHOWNORMAL]
                    ELSE server[id]
             has == {"show", "offset", "size"}
  <2>1. /\ id \in DOMAIN server /\ server' = [server EXCEPT ![id] = win]
        /\ SendOrder(WindowOrder(id, FALSE, has, win))
    BY <1>4 DEF OnCommand, OnExec
  <2>2. server[id] \in ServerWindows /\ server[id].x \in 0..U16 - 1
    BY <2>1 DEF PagesInv, ServerOK, CanvasInv, ServerPlaced
  <2>3. win \in ServerWindows /\ win.x \in 0..U16 - 1
    <3> DEFINE old == server[id]
    <3>1. Width \in Nat /\ 0 \in Int \ {NoValue} /\ SW_SHOWNORMAL \in 0..2 /\ 0 \in 0..U16 - 1
      BY RailAssumption DEF NoValue, SW_SHOWNORMAL, U16
    <3>2. win \in {old, [old EXCEPT !.x = 0, !.w = Width], [old EXCEPT !.show = SW_SHOWNORMAL]}
      BY <2>1
    <3> HIDE DEF win
    <3> QED
      BY <2>2, <3>1, <3>2 DEF ServerWindows
  <2> HIDE DEF win, id
  <2>4. ServerPlaced' /\ IsPlaced(WindowOrder(id, FALSE, has, win))
    BY <2>1, <2>3, PlacedWindow DEF CanvasInv
  <2>5. changes' \in Nat \ {0}
    BY <1>1, <2>1 DEF CanvasInv, Beginning
  <2> QED
    BY <1>1, <1>2, <2>1, <2>4, <2>5, OrderKeeps
<1> QED
  BY <1>3, <1>4

LEMMA ClickDraws ==
  ASSUME CanvasInv, Launch \/ \E id \in Windows : PressWindow(id) \/ PressTaskButton(id)
  PROVE  CanvasInv'
<1>0. IsSequence(inputs)
  BY DEF CanvasInv, Canvases, State
<1>1. UNCHANGED <<server, changes, screen, image, surfaces, toClient, railWindows>>
  BY DEF Launch, PressWindow, PressTaskButton, serverVars, pageVars
<1>2. \/ \E m : inputs' = Append(inputs, m)
      \/ \E m, n : inputs' = inputs \o <<m>> \o <<n>>
      \/ \E m : inputs' = inputs \o <<m>> \o << >>
  BY DEF Launch, PressWindow, PressTaskButton
<1>3. IsSequence(inputs') /\ (Repainting(inputs) => Repainting(inputs'))
  <2>1. ASSUME NEW m, inputs' = Append(inputs, m)
        PROVE  IsSequence(inputs') /\ (Repainting(inputs) => Repainting(inputs'))
    BY <1>0, <2>1, InputsAppend
  <2>2. ASSUME NEW m
        PROVE  IsSequence(inputs \o <<m>>) /\ (Repainting(inputs) => Repainting(inputs \o <<m>>))
    BY <1>0, InputsGrow, PairSequence
  <2>3. ASSUME NEW m, NEW n, inputs' = inputs \o <<m>> \o <<n>>
        PROVE  IsSequence(inputs') /\ (Repainting(inputs) => Repainting(inputs'))
    BY <2>2, <2>3, InputsGrow, PairSequence
  <2>4. ASSUME NEW m, inputs' = inputs \o <<m>> \o << >>
        PROVE  IsSequence(inputs') /\ (Repainting(inputs) => Repainting(inputs'))
    <3>1. IsSequence(<< >>)
      BY DEF IsSequence
    <3> QED
      BY <2>2, <2>4, <3>1, InputsGrow
  <2> QED
    BY <1>2, <2>1, <2>3, <2>4
<1> QED
  BY <1>1, <1>3, InputStep

LEMMA CanvasInvariance ==
  ASSUME OnDesktop
  PROVE  Spec => []CanvasInv
<1>1. Init => CanvasInv
  <2> SUFFICES ASSUME Init PROVE CanvasInv
    OBVIOUS
  <2>1. /\ toClient = << >> /\ server = << >> /\ railWindows = << >> /\ inputs = << >> /\ surfaces = {}
        /\ changes = 0 /\ image = screen /\ DOMAIN << >> = {} /\ Len(<< >>) = 0
    BY DEF Init
  <2>2. Visible(railWindows) = {}
    BY <2>1 DEF Visible
  <2>3. Canvases(State, image)
    BY <2>1, <2>2 DEF Canvases, State, InPlace, Surfaced, Sized, Showing, IsSequence
  <2>4. ServerPlaced /\ StreamPlaced /\ Beginning /\ ImageFollows
    BY <2>1 DEF ServerPlaced, StreamPlaced, Beginning, ImageFollows
  <2> QED
    BY <2>3, <2>4 DEF CanvasInv
<1>2. PagesInv /\ CanvasInv /\ [Next]_vars => CanvasInv'
  <2> SUFFICES ASSUME PagesInv, CanvasInv, [Next]_vars PROVE CanvasInv'
    OBVIOUS
  <2>1. CASE UNCHANGED vars
    BY <2>1, InputStep DEF vars, serverVars, pageVars, CanvasInv, Canvases, State
  <2>2. CASE Next
    BY <2>2, ServerTurns, HandshakeAdds, Draws, ReactivationDraws, OrdersDrawn, GraphicsDrawn, ReactivatedDrawn,
       HandshakeDrawn, RepaintDraws, CommandDraws, ClickDraws DEF Next
  <2> QED
    BY <2>1, <2>2
<1> QED
  BY <1>1, <1>2, PagesInvariance, PTL DEF Spec

\* What can be seen of a window is what the server has drawn under it, once nothing is on its way: the
\* repaint that follows every change of the surfaces is never lost, and nothing drawn is drawn over.
\* A reactivation while windows are shown clears their surfaces and asks for no repaint, and a window
\* that starts left of the desktop is drawn at x % 2^16: neither is covered.
THEOREM CanvasesAlwaysShow ==
  ASSUME OnDesktop
  PROVE  Spec => []CanvasesShowDesktop
<1>1. CanvasInv => CanvasesShowDesktop
  <2> SUFFICES ASSUME CanvasInv, toClient = << >>, inputs = << >>, NEW id \in DOMAIN railWindows,
                      ~railWindows[id].hidden
               PROVE  LET win == railWindows[id]
                      IN  /\ DOMAIN win.canvas = 0..win.w - 1
                          /\ \A k \in DOMAIN win.canvas :
                               win.x + k \in Positions => win.canvas[k] = screen[win.x + k]
    BY DEF CanvasesShowDesktop
  <2>1. \A p \in Positions : image[p] = screen[p]
    BY DEF CanvasInv, ImageFollows, Latest
  <2>2. id \in Visible(railWindows)
    BY DEF Visible
  <2>3. ~Repainting(inputs)
    BY DEF Repainting
  <2>4. Sized(railWindows) /\ Showing(railWindows, image)
    BY <2>3 DEF CanvasInv, Canvases, State
  <2> QED
    BY <2>1, <2>2, <2>4 DEF Sized, Showing
<1> QED
  BY <1>1, CanvasInvariance, PTL
=============================================================================
