-------------------------- MODULE PduFramingProofs --------------------------
(* Theorems of PduFraming, for all PDUs, sizes of reads and queues.         *)
EXTENDS PduFraming, Integers, TLAPS

(***************************************************************************)
(* The header of every PDU tells its length, whatever the body holds.      *)
(***************************************************************************)
LEMMA Digits ==
  ASSUME NEW n \in Nat, NEW r \in Nat, r > 0
  PROVE  \E q, m \in Nat : q = n \div r /\ m = n % r /\ m < r /\ q * r + m = n
<1>1. PICK q \in Nat : q = n \div r
  OBVIOUS
<1>2. PICK m \in Nat : m = n % r
  OBVIOUS
<1>3. m < r
  BY <1>2
<1>4. q * r + m = n
  BY <1>1, <1>2
<1> QED
  BY <1>1, <1>2, <1>3, <1>4

LEMMA HighDigit ==
  ASSUME NEW q \in Nat, NEW m \in Nat, NEW r \in Nat, r > 0, NEW h \in Nat, q * r + m < h * r
  PROVE  q < h
<1>1. ASSUME q >= h PROVE FALSE
  <2>1. q * r >= h * r
    BY <1>1
  <2> QED
    BY <2>1
<1> QED
  BY <1>1

LEMMA LongFlag ==
  ASSUME NEW h \in Nat, NEW q \in Nat, q < h
  PROVE  (h + q) % h = q
OBVIOUS

\* What FramingAssumption says of a shape.
LegalShape(s) ==
  /\ s.form \in {"short", "long", "x224"}
  /\ s.len \in Nat /\ s.len >= HeaderLen[s.form]
  /\ s.form = "short" => s.len < Half
  /\ s.form = "long" => s.len < Half * Radix
  /\ s.form = "x224" => s.len < Radix * Radix

LEMMA HeaderOfLegal ==
  ASSUME NEW s, LegalShape(s), NEW b \in Seq(Nat), NEW h \in Seq(Nat), h = Header(s.form, s.len),
         Len(b) >= HeaderLen[s.form], \A i \in 1 .. HeaderLen[s.form] : b[i] = h[i]
  PROVE  PduLength(b) = s.len
<1>1. Half \in Nat /\ Half > 2 /\ Radix \in Nat /\ Radix > 0 /\ s.len \in Nat
  BY FramingAssumption DEF Radix, LegalShape
<1>5. PICK q, m \in Nat :
        q = s.len \div Radix /\ m = s.len % Radix /\ m < Radix /\ q * Radix + m = s.len
  BY <1>1, Digits
<1>2. CASE s.form = "short"
  <2>1. Len(b) >= 2 /\ b[1] = FastPath /\ b[2] = s.len /\ s.len < Half
    <3>1. HeaderLen[s.form] = 2
      BY <1>2 DEF HeaderLen
    <3>2. h = <<FastPath, s.len>>
      BY <1>2 DEF Header
    <3> QED
      BY <3>1, <3>2, <1>2 DEF LegalShape
  <2>2. HeaderNeeded(b) = 2
    BY <1>1, <2>1 DEF HeaderNeeded, FastPath, X224
  <2>3. ~(b[2] >= Half) /\ ~(Len(b) < 2)
    BY <1>1, <2>1
  <2> QED
    BY <2>1, <2>2, <2>3 DEF PduLength, FastPath, X224
<1>3. CASE s.form = "long"
  <2>1. Len(b) >= 3 /\ b[1] = FastPath /\ b[2] = Half + q /\ b[3] = m
    <3>1. HeaderLen[s.form] = 3
      BY <1>3 DEF HeaderLen
    <3>2. h = <<FastPath, Half + q, m>>
      BY <1>3, <1>5 DEF Header
    <3> QED
      BY <3>1, <3>2
  <2>2. q < Half
    <3>1. s.len < Half * Radix
      BY <1>3 DEF LegalShape
    <3>2. q * Radix + m < Half * Radix
      BY <1>5, <3>1
    <3>3. q \in Nat /\ m \in Nat /\ Radix \in Nat /\ Radix > 0 /\ Half \in Nat
      BY <1>1
    <3> QED
      BY <3>2, <3>3, HighDigit
  <2>3. b[2] % Half = q /\ b[2] >= Half
    <3>1. (Half + q) % Half = q
      BY <1>1, <2>2, LongFlag
    <3> QED
      BY <1>1, <2>1, <3>1
  <2>4. HeaderNeeded(b) = 3 /\ ~(Len(b) < 3)
    BY <2>1, <2>3 DEF HeaderNeeded, FastPath, X224
  <2>5. PduLength(b) = (b[2] % Half) * Radix + b[3]
    BY <2>1, <2>3, <2>4 DEF PduLength, FastPath, X224
  <2> QED
    BY <1>1, <1>5, <2>1, <2>3, <2>5
<1>4. CASE s.form = "x224"
  <2>1. Len(b) >= 4 /\ b[1] = X224 /\ b[3] = q /\ b[4] = m
    <3>1. HeaderLen[s.form] = 4
      BY <1>4 DEF HeaderLen
    <3>2. h = <<X224, 0, q, m>>
      BY <1>4, <1>5 DEF Header
    <3> QED
      BY <3>1, <3>2
  <2>3. HeaderNeeded(b) = 4 /\ ~(Len(b) < 4)
    BY <2>1 DEF HeaderNeeded
  <2>4. PduLength(b) = b[3] * Radix + b[4]
    BY <2>1, <2>3 DEF PduLength
  <2> QED
    BY <1>1, <1>5, <2>1, <2>4
<1> QED
  BY <1>2, <1>3, <1>4 DEF LegalShape

\* PduLength finds the length of every PDU in any buffer that holds its header, the
\* two-byte fast-path length and the TPKT length included.
THEOREM HeaderTells ==
  ASSUME NEW s \in Shapes, NEW b \in Seq(Nat), NEW h \in Seq(Nat), h = Header(s.form, s.len),
         Len(b) >= HeaderLen[s.form], \A i \in 1 .. HeaderLen[s.form] : b[i] = h[i]
  PROVE  PduLength(b) = s.len
<1>1. LegalShape(s)
  BY FramingAssumption DEF LegalShape
<1> QED
  BY <1>1, HeaderOfLegal

(***************************************************************************)
(* The bytes on the way are bytes.                                         *)
(***************************************************************************)
LEMMA EncodeType ==
  ASSUME NEW form \in {"short", "long", "x224"}, NEW len \in Nat, NEW fill \in Nat,
         len >= HeaderLen[form]
  PROVE  Encode([form |-> form, len |-> len], fill) \in Seq(Nat)
<1>1. Half \in Nat /\ Radix \in Nat /\ Radix > 0
  BY FramingAssumption DEF Radix
<1>2. PICK q \in Nat, m \in Nat : q = len \div Radix /\ m = len % Radix
  BY <1>1, Digits
<1>3. Header(form, len) \in Seq(Nat)
  <2>1. CASE form = "short"
    BY <2>1 DEF Header, FastPath
  <2>2. CASE form = "long"
    <3>1. Header(form, len) = <<FastPath, Half + q, m>>
      BY <1>2, <2>2 DEF Header
    <3> QED
      BY <1>1, <3>1 DEF FastPath
  <2>3. CASE form = "x224"
    <3>1. Header(form, len) = <<X224, 0, q, m>>
      BY <1>2, <2>3 DEF Header
    <3> QED
      BY <3>1 DEF X224
  <2> QED
    BY <2>1, <2>2, <2>3
<1>4. len - HeaderLen[form] \in Nat
  BY DEF HeaderLen
<1>5. [i \in 1 .. len - HeaderLen[form] |-> fill] \in Seq(Nat)
  BY <1>4
<1> QED
  BY <1>3, <1>5 DEF Encode

LEMMA UnitType == \A u \in Units : u \in Seq(Nat)
<1>1. Confirm \in Seq(Nat)
  BY EncodeType DEF Confirm, HeaderLen
<1>2. ASSUME NEW s \in Shapes, NEW fill \in {FastPath, X224} PROVE Encode(s, fill) \in Seq(Nat)
  <2>1. fill \in Nat
    BY DEF FastPath, X224
  <2>2. Encode([form |-> s.form, len |-> s.len], fill) \in Seq(Nat)
    BY <2>1, EncodeType, FramingAssumption
  <2>3. Encode([form |-> s.form, len |-> s.len], fill) = Encode(s, fill)
    BY DEF Encode
  <2> QED
    BY <2>2, <2>3
<1> QED
  BY <1>1, <1>2 DEF Units

(***************************************************************************)
(* The upgrade.  The proxy answers the one command, so there is at most    *)
(* one text message, none before the command, and the client has been      *)
(* waiting for it since then.                                              *)
(***************************************************************************)
Message == [text : BOOLEAN, ok : BOOLEAN, bytes : Seq(Nat)]

QueueOK == ws \in Seq(Message) /\ tcp \in Seq(Nat)

Upgrading ==
  /\ client = "confirm" => proxy # "tls" /\ ~command /\ \A i \in DOMAIN ws : ~ws[i].text
  /\ command => proxy = "raw" /\ client = "tls_ready"
  /\ proxy = "raw" => \A i \in DOMAIN ws : ~ws[i].text
  /\ \A i, j \in DOMAIN ws : ws[i].text /\ ws[j].text => i = j
  /\ TextFindsReader

LEMMA QueueInit == Init => QueueOK /\ Upgrading
BY DEF Init, QueueOK, Upgrading, TextFindsReader

LEMMA CutNat ==
  ASSUME NEW t \in Seq(Nat), NEW n \in Nat, 1 =< n, n =< Len(t)
  PROVE  SubSeq(t, 1, n) \in Seq(Nat) /\ SubSeq(t, n + 1, Len(t)) \in Seq(Nat)
OBVIOUS

LEMMA QueueStep == QueueOK /\ [Next]_vars => QueueOK'
<1> SUFFICES ASSUME QueueOK, [Next]_vars PROVE QueueOK'
  OBVIOUS
<1> USE DEF QueueOK
<1>1. ASSUME NEW u \in Units, ServerSends(u) PROVE QueueOK'
  BY <1>1, UnitType DEF ServerSends
<1>2. ASSUME NEW n \in 1 .. MaxRead, RelayRead(n) PROVE QueueOK'
  <2>0. tcp \in Seq(Nat) /\ n \in Nat /\ 1 =< n /\ n =< Len(tcp)
    BY <1>2, FramingAssumption DEF RelayRead
  <2>1. SubSeq(tcp, 1, n) \in Seq(Nat) /\ SubSeq(tcp, n + 1, Len(tcp)) \in Seq(Nat)
    BY <2>0, CutNat
  <2>2. Binary(SubSeq(tcp, 1, n)) \in Message
    BY <2>1 DEF Binary, Message
  <2> QED
    BY <1>2, <2>1, <2>2 DEF RelayRead
<1>3. ASSUME NEW ok \in BOOLEAN, TlsUpgrade(ok) PROVE QueueOK'
  <2>1. Text(ok) \in Message
    BY DEF Text, Message
  <2> QED
    BY <1>3, <2>1 DEF TlsUpgrade
<1>4. CASE ws # << >> /\ ws' = Tail(ws) /\ UNCHANGED tcp
  BY <1>4
<1>5. CASE UNCHANGED <<ws, tcp>>
  BY <1>5
<1> QED
  BY <1>1, <1>2, <1>3, <1>4, <1>5
     DEF Next, vars, RelayEnds, StartRead, FillBuf, ReadFails, Cancelled, ReadPdu, ReadConfirm,
         ReadTextMessage

LEMMA UpgradingStep == QueueOK /\ Upgrading /\ [Next]_vars => Upgrading'
<1> SUFFICES ASSUME QueueOK, Upgrading, [Next]_vars PROVE Upgrading'
  OBVIOUS
<1> USE DEF QueueOK, Upgrading, TextFindsReader
<1>1. ASSUME NEW u \in Units, ServerSends(u) PROVE Upgrading'
  BY <1>1 DEF ServerSends
<1>2. ASSUME NEW n \in 1 .. MaxRead, RelayRead(n) PROVE Upgrading'
  <2>1. Binary(SubSeq(tcp, 1, n)).text = FALSE
    BY DEF Binary
  <2>2. UNCHANGED <<proxy, command, client>> /\ ws' = Append(ws, Binary(SubSeq(tcp, 1, n)))
    BY <1>2 DEF RelayRead
  <2>3. \A i \in DOMAIN ws' : ws'[i].text => i \in DOMAIN ws /\ ws'[i] = ws[i]
    BY <2>1, <2>2
  <2> QED
    BY <2>2, <2>3
<1>3. ASSUME NEW ok \in BOOLEAN, TlsUpgrade(ok) PROVE Upgrading'
  <2>1. ws' = Append(ws, Text(ok)) /\ client = "tls_ready" /\ client' = client /\ ~command'
        /\ proxy' # "raw"
    BY <1>3 DEF TlsUpgrade
  <2>2. \A i \in DOMAIN ws : ~ws[i].text
    BY <1>3 DEF TlsUpgrade
  <2>3. \A i \in DOMAIN ws' : ws'[i].text => i = Len(ws) + 1
    BY <2>1, <2>2
  <2> QED
    BY <2>1, <2>3
<1>4. ASSUME ws # << >>, ws' = Tail(ws), UNCHANGED <<proxy, command>>,
             \/ client' = client
             \/ client = "tls_ready" /\ Head(ws).text /\ client' \in {"pdu", "failed"}
      PROVE  Upgrading'
  <2>1. \A i \in DOMAIN ws' : i + 1 \in DOMAIN ws /\ i + 1 # 1 /\ ws'[i] = ws[i + 1]
    BY <1>4
  <2>2. Head(ws) = ws[1] /\ 1 \in DOMAIN ws
    BY <1>4
  <2>3. CASE client' = client
    BY <1>4, <2>1, <2>3
  <2>4. CASE Head(ws).text /\ client = "tls_ready" /\ client' \in {"pdu", "failed"}
    <3>1. \A i \in DOMAIN ws' : ~ws'[i].text
      BY <2>1, <2>2, <2>4
    <3>2. ~command /\ proxy # "raw"
      BY <2>2, <2>4
    <3> QED
      BY <1>4, <2>4, <3>1, <3>2
  <2> QED
    BY <1>4, <2>3, <2>4
<1>5. CASE RelayEnds \/ StartRead \/ Cancelled \/ ReadPdu \/ UNCHANGED vars
  BY <1>5 DEF RelayEnds, StartRead, Cancelled, ReadPdu, vars
<1>6. CASE FillBuf
  BY <1>4, <1>6 DEF FillBuf
<1>7. CASE ReadFails
  <2>1. client' = "failed" /\ ~command /\ UNCHANGED <<proxy, command, ws>>
    BY <1>7 DEF ReadFails
  <2> QED
    BY <1>7, <2>1 DEF ReadFails
<1>8. CASE ReadConfirm
  BY <1>8 DEF ReadConfirm
<1>9. CASE ReadTextMessage
  BY <1>4, <1>9 DEF ReadTextMessage
<1> QED
  BY <1>1, <1>2, <1>3, <1>5, <1>6, <1>7, <1>8, <1>9 DEF Next

\* The text message that answers tls_upgrade is never thrown away by fill_buf: whenever
\* one is on its way, the client waits for it.
THEOREM TextAlwaysFindsReader == Spec => []TextFindsReader
<1>1. Init => QueueOK /\ Upgrading
  BY QueueInit
<1>2. QueueOK /\ Upgrading /\ [Next]_vars => (QueueOK /\ Upgrading)'
  BY QueueStep, UpgradingStep
<1>3. QueueOK /\ Upgrading => TextFindsReader
  BY DEF Upgrading
<1> QED
  BY <1>1, <1>2, <1>3, PTL DEF Spec

-----------------------------------------------------------------------------
(***************************************************************************)
(* The stream.  All that the server ever said is one sequence of bytes,    *)
(* all.  PDU i begins behind byte off[i], the buffer behind the last PDU   *)
(* handed on, message i of the WebSocket behind byte cut[i], and what the  *)
(* proxy has not read yet comes last.  Nothing in the program holds these  *)
(* numbers: the invariant says that there are such.                        *)
(***************************************************************************)

\* The bytes b stand in all behind byte p.
Slice(b, p, all) == \A j \in 1 .. Len(b) : b[j] = all[p + j]

SentIs(us, off, all) ==
  /\ Len(off) = Len(us) + 1
  /\ off[Len(us) + 1] = Len(all)
  /\ \A i \in 1 .. Len(us) + 1 : off[i] <= Len(all)
  /\ \A i \in 1 .. Len(us) : off[i + 1] = off[i] + Len(us[i])
  /\ \A i \in 1 .. Len(us) : Slice(us[i], off[i], all)

QueueIs(q, t, cut, all) ==
  /\ Len(cut) = Len(q) + 1
  /\ cut[Len(q) + 1] + Len(t) = Len(all)
  /\ \A i \in 1 .. Len(q) + 1 : cut[i] <= Len(all)
  /\ \A i \in 1 .. Len(q) : cut[i + 1] = cut[i] + Len(q[i].bytes)
  /\ \A i \in 1 .. Len(q) : Slice(q[i].bytes, cut[i], all)
  /\ Slice(t, cut[Len(q) + 1], all)

Flow(off, cut, all) ==
  /\ SentIs(sent, off, all)
  /\ Len(got) <= Len(sent)
  /\ Slice(buf, off[Len(got) + 1], all)
  /\ cut[1] = off[Len(got) + 1] + Len(buf)
  /\ QueueIs(ws, tcp, cut, all)

BytesOK ==
  /\ sent \in Seq(Units) /\ got \in Seq(Seq(Nat)) /\ buf \in Seq(Nat)
  /\ QueueOK

InOrder == BytesOK /\ \E off, cut, all \in Seq(Nat) : Flow(off, cut, all)

(***************************************************************************)
(* Slices.                                                                 *)
(***************************************************************************)
LEMMA ConcatAt ==
  ASSUME NEW a \in Seq(Nat), NEW b \in Seq(Nat)
  PROVE  /\ a \o b \in Seq(Nat) /\ Len(a \o b) = Len(a) + Len(b)
         /\ \A i \in 1 .. Len(a) : (a \o b)[i] = a[i]
OBVIOUS

LEMMA SliceEmpty ==
  ASSUME NEW p \in Nat, NEW all \in Seq(Nat)
  PROVE  Slice(<< >>, p, all)
BY DEF Slice

LEMMA SliceGrows ==
  ASSUME NEW b \in Seq(Nat), NEW p \in Nat, NEW all \in Seq(Nat), NEW u \in Seq(Nat),
         p + Len(b) <= Len(all), Slice(b, p, all)
  PROVE  Slice(b, p, all \o u)
BY DEF Slice

LEMMA SliceLast ==
  ASSUME NEW all \in Seq(Nat), NEW u \in Seq(Nat)
  PROVE  Slice(u, Len(all), all \o u)
BY DEF Slice

LEMMA SliceJoin ==
  ASSUME NEW a \in Seq(Nat), NEW b \in Seq(Nat), NEW p \in Nat, NEW q \in Nat,
         q = p + Len(a), NEW all \in Seq(Nat), Slice(a, p, all), Slice(b, q, all)
  PROVE  Slice(a \o b, p, all)
<1>1. Len(a \o b) = Len(a) + Len(b)
  OBVIOUS
<1>2. ASSUME NEW j \in 1 .. Len(a) + Len(b) PROVE (a \o b)[j] = all[p + j]
  <2>1. CASE j <= Len(a)
    BY <2>1 DEF Slice
  <2>2. CASE j > Len(a)
    <3>1. j - Len(a) \in 1 .. Len(b) /\ q + (j - Len(a)) = p + j
      BY <2>2
    <3>2. (a \o b)[j] = b[j - Len(a)]
      BY <2>2
    <3> QED
      BY <3>1, <3>2 DEF Slice
  <2> QED
    BY <2>1, <2>2
<1> QED
  BY <1>1, <1>2 DEF Slice

LEMMA SliceCut ==
  ASSUME NEW b \in Seq(Nat), NEW p \in Nat, NEW all \in Seq(Nat), NEW n \in Nat,
         n <= Len(b), Slice(b, p, all)
  PROVE  /\ SubSeq(b, 1, n) \in Seq(Nat) /\ Len(SubSeq(b, 1, n)) = n
         /\ SubSeq(b, n + 1, Len(b)) \in Seq(Nat) /\ Len(SubSeq(b, n + 1, Len(b))) = Len(b) - n
         /\ Slice(SubSeq(b, 1, n), p, all)
         /\ Slice(SubSeq(b, n + 1, Len(b)), p + n, all)
<1>1. /\ SubSeq(b, 1, n) \in Seq(Nat) /\ Len(SubSeq(b, 1, n)) = n
      /\ SubSeq(b, n + 1, Len(b)) \in Seq(Nat) /\ Len(SubSeq(b, n + 1, Len(b))) = Len(b) - n
  OBVIOUS
<1>2. Slice(SubSeq(b, 1, n), p, all)
  BY DEF Slice
<1>3. ASSUME NEW j \in 1 .. Len(b) - n
      PROVE  SubSeq(b, n + 1, Len(b))[j] = all[(p + n) + j]
  <2>1. SubSeq(b, n + 1, Len(b))[j] = b[n + j]
    OBVIOUS
  <2>2. n + j \in 1 .. Len(b) /\ p + (n + j) = (p + n) + j
    OBVIOUS
  <2> QED
    BY <2>1, <2>2 DEF Slice
<1> QED
  BY <1>1, <1>2, <1>3 DEF Slice

LEMMA SliceRest ==
  ASSUME NEW b, b \in Seq(Nat), NEW p, p \in Nat, NEW all \in Seq(Nat), NEW n, n \in Nat,
         n <= Len(b), Slice(b, p, all), NEW c, c = SubSeq(b, n + 1, Len(b))
  PROVE  c \in Seq(Nat) /\ Len(c) = Len(b) - n /\ Slice(c, p + n, all)
BY SliceCut

LEMMA SliceSame ==
  ASSUME NEW u \in Seq(Nat), NEW b \in Seq(Nat), NEW p \in Nat, NEW all \in Seq(Nat),
         Slice(u, p, all), Slice(b, p, all), Len(u) <= Len(b)
  PROVE  SubSeq(b, 1, Len(u)) = u
<1>1. \A j \in 1 .. Len(u) : b[j] = u[j]
  <2> TAKE j \in 1 .. Len(u)
  <2>1. j \in 1 .. Len(b)
    OBVIOUS
  <2> QED
    BY <2>1 DEF Slice
<1>2. Len(SubSeq(b, 1, Len(u))) = Len(u) /\ SubSeq(b, 1, Len(u)) \in Seq(Nat)
  OBVIOUS
<1>3. \A j \in 1 .. Len(u) : SubSeq(b, 1, Len(u))[j] = b[j]
  OBVIOUS
<1> QED
  BY <1>1, <1>2, <1>3

(***************************************************************************)
(* A PDU at the front of the buffer is recognised.                         *)
(***************************************************************************)
LEMMA UnitShape ==
  ASSUME NEW u \in Units
  PROVE  \E s, fill : LegalShape(s) /\ fill \in Nat /\ u = Encode(s, fill)
<1>1. CASE u = Confirm
  <2>1. LegalShape([form |-> "x224", len |-> 5])
    <3>1. Radix \in Nat /\ Radix >= 6
      BY FramingAssumption DEF Radix
    <3>2. Radix * Radix >= 6 * Radix
      BY <3>1
    <3> QED
      BY <3>1, <3>2 DEF LegalShape, HeaderLen
  <2> QED
    BY <1>1, <2>1 DEF Confirm
<1>2. ASSUME NEW s \in Shapes, NEW fill \in {FastPath, X224}, u = Encode(s, fill)
      PROVE  LegalShape(s) /\ fill \in Nat
  BY FramingAssumption DEF LegalShape, FastPath, X224
<1> QED
  BY <1>1, <1>2 DEF Units

LEMMA HeaderParts ==
  ASSUME NEW s, LegalShape(s)
  PROVE  /\ Header(s.form, s.len) \in Seq(Nat)
         /\ HeaderLen[s.form] \in Nat /\ HeaderLen[s.form] >= 2
         /\ Len(Header(s.form, s.len)) = HeaderLen[s.form]
<1>1. Half \in Nat /\ Radix \in Nat /\ Radix > 0 /\ s.len \in Nat
  BY FramingAssumption DEF Radix, LegalShape
<1>2. PICK q \in Nat, m \in Nat : q = s.len \div Radix /\ m = s.len % Radix
  BY <1>1, Digits
<1>3. CASE s.form = "short"
  <2>1. Header(s.form, s.len) = <<FastPath, s.len>> /\ HeaderLen[s.form] = 2
    BY <1>3 DEF Header, HeaderLen
  <2> QED
    BY <1>1, <2>1 DEF FastPath
<1>4. CASE s.form = "long"
  <2>1. Header(s.form, s.len) = <<FastPath, Half + q, m>> /\ HeaderLen[s.form] = 3
    BY <1>2, <1>4 DEF Header, HeaderLen
  <2> QED
    BY <1>1, <2>1 DEF FastPath
<1>5. CASE s.form = "x224"
  <2>1. Header(s.form, s.len) = <<X224, 0, q, m>> /\ HeaderLen[s.form] = 4
    BY <1>2, <1>5 DEF Header, HeaderLen
  <2> QED
    BY <2>1 DEF X224
<1> QED
  BY <1>3, <1>4, <1>5 DEF LegalShape

\* A PDU is as long as its header says, and begins with that header.
LEMMA EncodeParts ==
  ASSUME NEW s, LegalShape(s), NEW fill \in Nat
  PROVE  /\ Encode(s, fill) \in Seq(Nat)
         /\ Len(Encode(s, fill)) = s.len
         /\ \A i \in 1 .. HeaderLen[s.form] : Encode(s, fill)[i] = Header(s.form, s.len)[i]
<1> DEFINE h == Header(s.form, s.len)
           k == HeaderLen[s.form]
           body == [i \in 1 .. s.len - k |-> fill]
<1>1. h \in Seq(Nat) /\ k \in Nat /\ Len(h) = k /\ s.len - k \in Nat /\ s.len \in Nat
  BY HeaderParts DEF LegalShape
<1>2. body \in Seq(Nat) /\ Len(body) = s.len - k
  BY <1>1
<1>3. Encode(s, fill) = h \o body
  BY DEF Encode
<1> HIDE DEF h, k, body
<1>4. /\ h \o body \in Seq(Nat)
      /\ Len(h \o body) = s.len
      /\ \A i \in 1 .. k : (h \o body)[i] = h[i]
  <2>1. /\ h \o body \in Seq(Nat) /\ Len(h \o body) = Len(h) + Len(body)
        /\ \A i \in 1 .. Len(h) : (h \o body)[i] = h[i]
    BY <1>1, <1>2, ConcatAt
  <2>2. Len(h) + Len(body) = s.len
    BY <1>1, <1>2
  <2> QED
    BY <1>1, <2>1, <2>2
<1> QED
  BY <1>3, <1>4 DEF h, k

\* The first two bytes of a header tell how long the header is.
LEMMA HeaderTellsHeader ==
  ASSUME NEW s, LegalShape(s), NEW b \in Seq(Nat), NEW h, h = Header(s.form, s.len),
         Len(b) >= 2, b[1] = h[1], b[2] = h[2]
  PROVE  HeaderNeeded(b) = HeaderLen[s.form]
<1>1. Half \in Nat /\ Radix \in Nat /\ Radix > 0 /\ s.len \in Nat
  BY FramingAssumption DEF Radix, LegalShape
<1>2. PICK q \in Nat, m \in Nat : q = s.len \div Radix /\ m = s.len % Radix
  BY <1>1, Digits
<1>3. CASE s.form = "short"
  <2>1. h = <<FastPath, s.len>> /\ HeaderLen[s.form] = 2 /\ s.len < Half
    BY <1>3 DEF Header, HeaderLen, LegalShape
  <2>2. b[1] = 0 /\ b[2] < Half /\ b[2] \in Nat
    BY <1>1, <2>1 DEF FastPath
  <2> QED
    BY <1>1, <2>1, <2>2 DEF HeaderNeeded, X224
<1>4. CASE s.form = "long"
  <2>1. h = <<FastPath, Half + q, m>> /\ HeaderLen[s.form] = 3
    BY <1>2, <1>4 DEF Header, HeaderLen
  <2>2. b[1] = 0 /\ b[2] >= Half
    BY <1>1, <2>1 DEF FastPath
  <2> QED
    BY <2>1, <2>2 DEF HeaderNeeded, X224
<1>5. CASE s.form = "x224"
  <2>1. h = <<X224, 0, q, m>> /\ HeaderLen[s.form] = 4
    BY <1>2, <1>5 DEF Header, HeaderLen
  <2> QED
    BY <2>1 DEF HeaderNeeded
<1> QED
  BY <1>3, <1>4, <1>5 DEF LegalShape

\* A buffer that begins where a PDU begins, and in which the reader finds a whole PDU,
\* begins with that PDU.
LEMMA UnitAtFront ==
  ASSUME NEW u \in Units, NEW b \in Seq(Nat), NEW p \in Nat, NEW all \in Seq(Nat),
         Slice(u, p, all), Slice(b, p, all),
         PduLength(b) > 0, Len(b) >= PduLength(b)
  PROVE  PduLength(b) = Len(u) /\ SubSeq(b, 1, Len(u)) = u
<1>1. PICK s, fill : LegalShape(s) /\ fill \in Nat /\ u = Encode(s, fill)
  BY UnitShape
<1> DEFINE h == Header(s.form, s.len)
           k == HeaderLen[s.form]
<1>2. /\ h \in Seq(Nat) /\ k \in Nat /\ k >= 2 /\ Len(h) = k
      /\ u \in Seq(Nat) /\ Len(u) = s.len /\ s.len >= k
      /\ \A i \in 1 .. k : u[i] = h[i]
  BY <1>1, HeaderParts, EncodeParts DEF LegalShape
<1>3. Len(b) >= HeaderNeeded(b)
  <2>1. CASE Len(b) < HeaderNeeded(b)
    <3>1. PduLength(b) = 0
      BY <2>1 DEF PduLength
    <3> QED
      BY <3>1
  <2> QED
    BY <2>1 DEF HeaderNeeded
<1>4. Len(b) >= 2
  BY <1>3 DEF HeaderNeeded
<1> HIDE DEF h, k
<1>5. ASSUME NEW i \in 1 .. k, i <= Len(b) PROVE b[i] = h[i]
  <2>1. i \in 1 .. Len(u) /\ i \in 1 .. Len(b)
    BY <1>2, <1>5
  <2>2. u[i] = all[p + i] /\ b[i] = all[p + i]
    BY <2>1 DEF Slice
  <2> QED
    BY <1>2, <2>2
<1>6. b[1] = h[1] /\ b[2] = h[2]
  <2>1. 1 \in 1 .. k /\ 2 \in 1 .. k /\ 1 <= Len(b)
    BY <1>2, <1>4
  <2> QED
    BY <1>4, <1>5, <2>1
<1>7. HeaderNeeded(b) = k
  BY <1>1, <1>4, <1>6, HeaderTellsHeader DEF h, k
<1>8. ASSUME NEW i \in 1 .. k PROVE b[i] = h[i]
  <2>1. i <= Len(b)
    BY <1>2, <1>3, <1>7
  <2> QED
    BY <1>5, <2>1
<1>9. PduLength(b) = s.len
  BY <1>1, <1>2, <1>3, <1>7, <1>8, HeaderOfLegal DEF h, k
<1> QED
  BY <1>2, <1>9, SliceSame

(***************************************************************************)
(* What a step does to the pieces.                                         *)
(***************************************************************************)
LEMMA AppendAt ==
  ASSUME NEW S, NEW s \in Seq(S), NEW e \in S
  PROVE  /\ Append(s, e) \in Seq(S) /\ Len(Append(s, e)) = Len(s) + 1
         /\ \A i \in 1 .. Len(s) : Append(s, e)[i] = s[i]
         /\ Append(s, e)[Len(s) + 1] = e
OBVIOUS

LEMMA TailAt ==
  ASSUME NEW S, NEW s \in Seq(S), s # << >>
  PROVE  /\ Tail(s) \in Seq(S) /\ Len(Tail(s)) = Len(s) - 1 /\ Len(s) >= 1
         /\ \A i \in 1 .. Len(s) - 1 : Tail(s)[i] = s[i + 1]
         /\ Head(s) = s[1]
OBVIOUS

LEMMA Carry ==
  ASSUME NEW p \in Nat, NEW n \in Nat, NEW t \in Nat
  PROVE  (p + n) + (t - n) = p + t
OBVIOUS

LEMMA SentGrows ==
  ASSUME NEW us \in Seq(Units), NEW off \in Seq(Nat), NEW all \in Seq(Nat), NEW u \in Units,
         SentIs(us, off, all)
  PROVE  /\ SentIs(Append(us, u), Append(off, Len(all) + Len(u)), all \o u)
         /\ \A i \in 1 .. Len(us) + 1 : Append(off, Len(all) + Len(u))[i] = off[i]
<1> DEFINE e == Len(all) + Len(u)
           us2 == Append(us, u)
           off2 == Append(off, e)
           all2 == all \o u
<1>1. u \in Seq(Nat) /\ e \in Nat
  BY UnitType
<1>2. /\ Len(us2) = Len(us) + 1 /\ us2[Len(us) + 1] = u
      /\ \A i \in 1 .. Len(us) : us2[i] = us[i]
  BY AppendAt
<1>3. Len(off) = Len(us) + 1 /\ off[Len(us) + 1] = Len(all)
  BY DEF SentIs
<1>4. /\ Len(off2) = Len(us) + 2 /\ off2[Len(us) + 2] = e
      /\ \A i \in 1 .. Len(us) + 1 : off2[i] = off[i]
  BY <1>1, <1>3, AppendAt
<1>5. all2 \in Seq(Nat) /\ Len(all2) = e
  BY <1>1, ConcatAt
<1>6. \A i \in 1 .. Len(us) : us[i] \in Seq(Nat) /\ off[i] \in Nat /\ off[i + 1] \in Nat
  <2> TAKE i \in 1 .. Len(us)
  <2>1. us[i] \in Units
    OBVIOUS
  <2>2. i \in 1 .. Len(off) /\ i + 1 \in 1 .. Len(off)
    BY <1>3
  <2>3. off[i] \in Nat /\ off[i + 1] \in Nat
    BY <2>2
  <2>4. us[i] \in Seq(Nat)
    BY <2>1, UnitType
  <2> QED
    BY <2>3, <2>4
<1> HIDE DEF e, us2, off2, all2
<1>7. ASSUME NEW i \in 1 .. Len(us2) + 1 PROVE off2[i] <= Len(all2)
  <2>1. CASE i = Len(us) + 2
    BY <1>1, <1>4, <1>5, <2>1
  <2>2. CASE i \in 1 .. Len(us) + 1
    <3>1. off2[i] = off[i] /\ off[i] <= Len(all) /\ off[i] \in Nat
      BY <1>3, <1>4, <2>2 DEF SentIs
    <3> QED
      BY <1>1, <1>5, <3>1 DEF e
  <2> QED
    BY <1>2, <2>1, <2>2
<1>8. ASSUME NEW i \in 1 .. Len(us2)
      PROVE  off2[i + 1] = off2[i] + Len(us2[i]) /\ Slice(us2[i], off2[i], all2)
  <2>1. CASE i = Len(us) + 1
    <3>1. us2[i] = u /\ off2[i] = Len(all) /\ off2[i + 1] = e
      BY <1>2, <1>3, <1>4, <2>1
    <3>2. Slice(u, Len(all), all2)
      BY <1>1, SliceLast DEF all2
    <3> QED
      BY <3>1, <3>2 DEF e
  <2>2. CASE i \in 1 .. Len(us)
    <3>0. i \in 1 .. Len(us) + 1 /\ i + 1 \in 1 .. Len(us) + 1
      BY <2>2
    <3>1. us2[i] = us[i] /\ off2[i] = off[i] /\ off2[i + 1] = off[i + 1]
      BY <1>2, <1>4, <2>2, <3>0
    <3>2. off[i + 1] = off[i] + Len(us[i]) /\ off[i + 1] <= Len(all) /\ Slice(us[i], off[i], all)
      BY <2>2 DEF SentIs
    <3>3. off[i] + Len(us[i]) <= Len(all)
      BY <3>2
    <3>4. Slice(us[i], off[i], all2)
      BY <1>1, <1>6, <2>2, <3>2, <3>3, SliceGrows DEF all2
    <3> QED
      BY <3>1, <3>2, <3>4
  <2> QED
    BY <1>2, <2>1, <2>2
<1>9. SentIs(us2, off2, all2)
  <2>1. Len(us2) + 1 = Len(us) + 2
    BY <1>2
  <2> QED
    BY <1>2, <1>4, <1>5, <1>7, <1>8, <2>1 DEF SentIs
<1> QED
  BY <1>4, <1>9 DEF e, us2, off2, all2

LEMMA QueueTypes ==
  ASSUME NEW q \in Seq(Message), NEW t \in Seq(Nat), NEW cut \in Seq(Nat), NEW all \in Seq(Nat),
         QueueIs(q, t, cut, all)
  PROVE  /\ Len(q) \in Nat /\ Len(t) \in Nat /\ Len(all) \in Nat /\ Len(cut) = Len(q) + 1
         /\ \A i \in 1 .. Len(q) + 1 : cut[i] \in Nat
         /\ \A i \in 1 .. Len(q) : q[i].bytes \in Seq(Nat) /\ Len(q[i].bytes) \in Nat
<1>1. Len(cut) = Len(q) + 1
  BY DEF QueueIs
<1>2. \A m \in Message : m.bytes \in Seq(Nat)
  BY DEF Message
<1> QED
  BY <1>1, <1>2

LEMMA QueueGrows ==
  ASSUME NEW q \in Seq(Message), NEW t \in Seq(Nat), NEW cut \in Seq(Nat), NEW all \in Seq(Nat),
         NEW u \in Seq(Nat), QueueIs(q, t, cut, all)
  PROVE  QueueIs(q, t \o u, cut, all \o u)
<1>1. /\ Len(q) \in Nat /\ Len(t) \in Nat /\ Len(all) \in Nat /\ Len(cut) = Len(q) + 1
      /\ \A i \in 1 .. Len(q) + 1 : cut[i] \in Nat
      /\ \A i \in 1 .. Len(q) : q[i].bytes \in Seq(Nat) /\ Len(q[i].bytes) \in Nat
  BY QueueTypes
<1>2. /\ all \o u \in Seq(Nat) /\ Len(all \o u) = Len(all) + Len(u)
      /\ t \o u \in Seq(Nat) /\ Len(t \o u) = Len(t) + Len(u)
  BY ConcatAt
<1>3. cut[Len(q) + 1] \in Nat /\ cut[Len(q) + 1] + Len(t) = Len(all)
  BY <1>1 DEF QueueIs
<1>4. cut[Len(q) + 1] + Len(t \o u) = Len(all \o u)
  <2>1. Len(u) \in Nat
    OBVIOUS
  <2> QED
    BY <1>1, <1>2, <1>3, <2>1
<1>5. \A i \in 1 .. Len(q) + 1 : cut[i] <= Len(all \o u)
  <2>1. \A i \in 1 .. Len(q) + 1 : cut[i] <= Len(all)
    BY DEF QueueIs
  <2> QED
    BY <1>1, <1>2, <2>1
<1>6. ASSUME NEW i \in 1 .. Len(q) PROVE Slice(q[i].bytes, cut[i], all \o u)
  <2>1. Slice(q[i].bytes, cut[i], all)
    BY DEF QueueIs
  <2>2. cut[i + 1] = cut[i] + Len(q[i].bytes) /\ cut[i + 1] <= Len(all)
    BY <1>1 DEF QueueIs
  <2>3. cut[i] \in Nat /\ q[i].bytes \in Seq(Nat)
    BY <1>1
  <2> QED
    BY <2>1, <2>2, <2>3, SliceGrows
<1>7. Slice(t \o u, cut[Len(q) + 1], all \o u)
  <2>1. Slice(t, cut[Len(q) + 1], all \o u)
    BY <1>3, SliceGrows DEF QueueIs
  <2>2. Slice(u, Len(all), all \o u)
    BY SliceLast
  <2> QED
    BY <1>1, <1>2, <1>3, <2>1, <2>2, SliceJoin
<1> QED
  BY <1>1, <1>4, <1>5, <1>6, <1>7 DEF QueueIs

\* A message is queued behind the others; t2 is what the proxy has then still to read.
LEMMA QueuePush ==
  ASSUME NEW q \in Seq(Message), NEW t \in Seq(Nat), NEW cut \in Seq(Nat), NEW all \in Seq(Nat),
         QueueIs(q, t, cut, all),
         NEW m \in Message, NEW t2 \in Seq(Nat), NEW e \in Nat,
         e = cut[Len(q) + 1] + Len(m.bytes), e + Len(t2) = Len(all),
         Slice(m.bytes, cut[Len(q) + 1], all), Slice(t2, e, all)
  PROVE  /\ QueueIs(Append(q, m), t2, Append(cut, e), all)
         /\ Append(cut, e)[1] = cut[1]
<1> DEFINE q2 == Append(q, m)
           cut2 == Append(cut, e)
<1>1. /\ Len(q) \in Nat /\ Len(t) \in Nat /\ Len(all) \in Nat /\ Len(cut) = Len(q) + 1
      /\ \A i \in 1 .. Len(q) + 1 : cut[i] \in Nat
      /\ \A i \in 1 .. Len(q) : q[i].bytes \in Seq(Nat) /\ Len(q[i].bytes) \in Nat
  BY QueueTypes
<1>2. /\ Len(q2) = Len(q) + 1 /\ q2[Len(q) + 1] = m
      /\ \A i \in 1 .. Len(q) : q2[i] = q[i]
  BY AppendAt
<1>3. /\ Len(cut2) = Len(q) + 2 /\ cut2[Len(q) + 2] = e
      /\ \A i \in 1 .. Len(q) + 1 : cut2[i] = cut[i]
  BY <1>1, AppendAt
<1>4. e <= Len(all)
  BY <1>1
<1> HIDE DEF q2, cut2
<1>5. ASSUME NEW i \in 1 .. Len(q2) + 1 PROVE cut2[i] <= Len(all)
  <2>1. CASE i = Len(q) + 2
    BY <1>3, <1>4, <2>1
  <2>2. CASE i \in 1 .. Len(q) + 1
    BY <1>3, <2>2 DEF QueueIs
  <2> QED
    BY <1>1, <1>2, <2>1, <2>2
<1>6. ASSUME NEW i \in 1 .. Len(q2)
      PROVE  cut2[i + 1] = cut2[i] + Len(q2[i].bytes) /\ Slice(q2[i].bytes, cut2[i], all)
  <2>1. CASE i = Len(q) + 1
    <3>0. i \in 1 .. Len(q) + 1 /\ i + 1 = Len(q) + 2
      BY <1>1, <2>1
    <3>1. q2[i] = m /\ cut2[i] = cut[Len(q) + 1] /\ cut2[i + 1] = e
      BY <1>2, <1>3, <2>1, <3>0
    <3> QED
      BY <3>1
  <2>2. CASE i \in 1 .. Len(q)
    <3>0. i \in 1 .. Len(q) + 1 /\ i + 1 \in 1 .. Len(q) + 1
      BY <1>1, <2>2
    <3>1. q2[i] = q[i] /\ cut2[i] = cut[i] /\ cut2[i + 1] = cut[i + 1]
      BY <1>2, <1>3, <2>2, <3>0
    <3> QED
      BY <2>2, <3>1 DEF QueueIs
  <2> QED
    BY <1>1, <1>2, <2>1, <2>2
<1>7. QueueIs(q2, t2, cut2, all)
  <2>1. Len(q2) + 1 = Len(q) + 2
    BY <1>1, <1>2
  <2> QED
    BY <1>3, <1>5, <1>6, <2>1 DEF QueueIs
<1> QED
  BY <1>1, <1>3, <1>7 DEF q2, cut2

\* The first message is taken off.
LEMMA QueuePop ==
  ASSUME NEW q \in Seq(Message), NEW t \in Seq(Nat), NEW cut \in Seq(Nat), NEW all \in Seq(Nat),
         QueueIs(q, t, cut, all), q # << >>
  PROVE  /\ QueueIs(Tail(q), t, Tail(cut), all)
         /\ Tail(cut) \in Seq(Nat)
         /\ Head(q).bytes \in Seq(Nat) /\ cut[1] \in Nat
         /\ Tail(cut)[1] = cut[1] + Len(Head(q).bytes)
         /\ Slice(Head(q).bytes, cut[1], all)
<1> DEFINE q2 == Tail(q)
           cut2 == Tail(cut)
<1>1. /\ Len(q) \in Nat /\ Len(t) \in Nat /\ Len(all) \in Nat /\ Len(cut) = Len(q) + 1
      /\ \A i \in 1 .. Len(q) + 1 : cut[i] \in Nat
      /\ \A i \in 1 .. Len(q) : q[i].bytes \in Seq(Nat) /\ Len(q[i].bytes) \in Nat
  BY QueueTypes
<1>2. /\ Len(q2) = Len(q) - 1 /\ Len(q) >= 1 /\ Head(q) = q[1]
      /\ \A i \in 1 .. Len(q) - 1 : q2[i] = q[i + 1]
  BY TailAt
<1>3. cut # << >>
  BY <1>1
<1>4. /\ cut2 \in Seq(Nat) /\ Len(cut2) = Len(q)
      /\ \A i \in 1 .. Len(q) : cut2[i] = cut[i + 1]
  BY <1>1, <1>3, TailAt
<1> HIDE DEF q2, cut2
<1>5. cut2[Len(q)] = cut[Len(q) + 1] /\ Len(q2) + 1 = Len(q)
  <2>1. Len(q) \in Nat /\ Len(q) >= 1 /\ Len(q2) = Len(q) - 1
    BY <1>1, <1>2
  <2>2. Len(q) \in 1 .. Len(q) /\ Len(q2) + 1 = Len(q)
    BY <2>1
  <2>3. \A i \in 1 .. Len(q) : cut2[i] = cut[i + 1]
    BY <1>4
  <2> QED
    BY <2>2, <2>3
<1>6. ASSUME NEW i \in 1 .. Len(q) PROVE cut2[i] <= Len(all)
  <2>1. cut2[i] = cut[i + 1] /\ i + 1 \in 1 .. Len(q) + 1
    BY <1>4
  <2> QED
    BY <2>1 DEF QueueIs
<1>7. ASSUME NEW i \in 1 .. Len(q2)
      PROVE  cut2[i + 1] = cut2[i] + Len(q2[i].bytes) /\ Slice(q2[i].bytes, cut2[i], all)
  <2>1. i + 1 \in 1 .. Len(q) /\ i \in 1 .. Len(q) /\ i \in 1 .. Len(q) - 1
    BY <1>1, <1>2
  <2>2. q2[i] = q[i + 1] /\ cut2[i] = cut[i + 1] /\ cut2[i + 1] = cut[(i + 1) + 1]
    BY <1>2, <1>4, <2>1
  <2> QED
    BY <2>1, <2>2 DEF QueueIs
<1>8. QueueIs(q2, t, cut2, all)
  BY <1>4, <1>5, <1>6, <1>7 DEF QueueIs
<1>9. /\ 1 \in 1 .. Len(q) /\ cut2[1] = cut[2]
      /\ cut[2] = cut[1] + Len(q[1].bytes)
      /\ Slice(q[1].bytes, cut[1], all)
  <2>1. 1 \in 1 .. Len(q)
    BY <1>1, <1>2
  <2>2. cut2[1] = cut[1 + 1] /\ cut[1 + 1] = cut[1] + Len(q[1].bytes)
    BY <1>4, <2>1 DEF QueueIs
  <2> QED
    BY <2>1, <2>2 DEF QueueIs
<1> QED
  BY <1>1, <1>2, <1>4, <1>8, <1>9 DEF q2, cut2

(***************************************************************************)
(* The invariant, action by action.                                        *)
(***************************************************************************)
LEMMA InOrderInit == Init => InOrder
<1> SUFFICES ASSUME Init PROVE InOrder
  OBVIOUS
<1>1. sent = << >> /\ got = << >> /\ buf = << >> /\ ws = << >> /\ tcp = << >>
  BY DEF Init
<1>2. BytesOK
  BY <1>1 DEF BytesOK, QueueOK
<1> DEFINE none == << >>
           zero == <<0>>
<1>3. none \in Seq(Nat) /\ Len(none) = 0 /\ zero \in Seq(Nat) /\ Len(zero) = 1 /\ zero[1] = 0
  OBVIOUS
<1>4. Slice(<< >>, 0, none)
  BY <1>3, SliceEmpty
<1> HIDE DEF zero
<1>5. SentIs(<< >>, zero, none)
  BY <1>3 DEF SentIs
<1>6. QueueIs(<< >>, << >>, zero, none)
  BY <1>3, <1>4 DEF QueueIs
<1>7. Flow(zero, zero, none)
  BY <1>1, <1>3, <1>4, <1>5, <1>6 DEF Flow
<1> QED
  BY <1>2, <1>3, <1>7 DEF InOrder

\* Where the buffer begins and where the queue begins.
LEMMA FlowTypes ==
  ASSUME BytesOK, NEW off \in Seq(Nat), NEW cut \in Seq(Nat), NEW all \in Seq(Nat),
         Flow(off, cut, all)
  PROVE  /\ Len(got) \in Nat /\ Len(sent) \in Nat /\ Len(got) <= Len(sent)
         /\ Len(buf) \in Nat /\ Len(all) \in Nat
         /\ off[Len(got) + 1] \in Nat
         /\ cut[1] \in Nat /\ cut[1] <= Len(all)
         /\ cut[1] = off[Len(got) + 1] + Len(buf)
<1>1. /\ Len(got) \in Nat /\ Len(sent) \in Nat /\ Len(got) <= Len(sent)
      /\ Len(buf) \in Nat /\ Len(all) \in Nat /\ Len(ws) \in Nat
      /\ Len(off) = Len(sent) + 1 /\ Len(cut) = Len(ws) + 1
      /\ cut[1] = off[Len(got) + 1] + Len(buf)
  <2>1. /\ sent \in Seq(Units) /\ got \in Seq(Seq(Nat)) /\ buf \in Seq(Nat)
        /\ ws \in Seq(Message)
    BY DEF BytesOK, QueueOK
  <2>2. /\ Len(got) <= Len(sent)
        /\ Len(off) = Len(sent) + 1 /\ Len(cut) = Len(ws) + 1
        /\ cut[1] = off[Len(got) + 1] + Len(buf)
    BY Zenon DEF Flow, SentIs, QueueIs
  <2> QED
    BY <2>1, <2>2
<1>2. off[Len(got) + 1] \in Nat /\ cut[1] \in Nat
  <2>1. Len(got) + 1 \in 1 .. Len(off) /\ 1 \in 1 .. Len(cut)
    BY <1>1
  <2> QED
    BY <2>1
<1>3. 1 \in 1 .. Len(ws) + 1
  BY <1>1
<1>4. cut[1] <= Len(all)
  BY <1>3 DEF Flow, QueueIs
<1> QED
  BY <1>1, <1>2, <1>4

LEMMA SendInOrder ==
  ASSUME InOrder, QueueOK', NEW u \in Units, ServerSends(u)
  PROVE  InOrder'
<1>1. PICK off \in Seq(Nat), cut \in Seq(Nat), all \in Seq(Nat) : Flow(off, cut, all)
  BY DEF InOrder
<1>2. sent' = Append(sent, u) /\ tcp' = tcp \o u /\ UNCHANGED <<ws, buf, got>>
  BY DEF ServerSends
<1>3. BytesOK /\ u \in Seq(Nat) /\ sent \in Seq(Units) /\ ws \in Seq(Message) /\ tcp \in Seq(Nat)
  BY UnitType DEF InOrder, BytesOK, QueueOK
<1>4. /\ Len(got) \in Nat /\ Len(sent) \in Nat /\ Len(got) <= Len(sent)
      /\ Len(buf) \in Nat /\ Len(all) \in Nat
      /\ off[Len(got) + 1] \in Nat
      /\ cut[1] <= Len(all)
      /\ cut[1] = off[Len(got) + 1] + Len(buf)
  BY <1>1, <1>3, FlowTypes
<1> DEFINE off2 == Append(off, Len(all) + Len(u))
           all2 == all \o u
<1>5. SentIs(sent, off, all) /\ QueueIs(ws, tcp, cut, all) /\ Slice(buf, off[Len(got) + 1], all)
  BY <1>1 DEF Flow
<1>6. SentIs(sent', off2, all2) /\ \A i \in 1 .. Len(sent) + 1 : off2[i] = off[i]
  BY <1>2, <1>3, <1>5, SentGrows
<1>7. QueueIs(ws', tcp', cut, all2)
  BY <1>2, <1>3, <1>5, QueueGrows
<1>8. off2 \in Seq(Nat) /\ all2 \in Seq(Nat)
  <2>1. Len(all) + Len(u) \in Nat
    BY <1>3, <1>4
  <2> QED
    BY <1>3, <2>1, AppendAt, ConcatAt
<1> HIDE DEF off2, all2
<1>9. off2[Len(got) + 1] = off[Len(got) + 1] /\ Len(got) <= Len(sent')
  <2>1. Len(got) + 1 \in 1 .. Len(sent) + 1
    BY <1>4
  <2>2. Len(sent') = Len(sent) + 1
    BY <1>2, <1>3, AppendAt
  <2> QED
    BY <1>4, <1>6, <2>1, <2>2
<1>10. Slice(buf, off[Len(got) + 1], all2)
  <2>1. buf \in Seq(Nat)
    BY <1>3 DEF BytesOK
  <2> QED
    BY <1>3, <1>4, <1>5, <2>1, SliceGrows DEF all2
<1>11. Flow(off2, cut, all2)'
  BY <1>2, <1>4, <1>6, <1>7, <1>9, <1>10 DEF Flow
<1>12. BytesOK'
  BY <1>2, <1>3, AppendAt DEF BytesOK
<1> QED
  BY <1>8, <1>11, <1>12 DEF InOrder

\* The proxy queues a message: bytes it read, or the answer to the command.
LEMMA QueuedInOrder ==
  ASSUME InOrder, QueueOK', NEW m \in Message, ws' = Append(ws, m),
         UNCHANGED <<sent, got, buf>>,
         \/ m.bytes = << >> /\ tcp' = tcp
         \/ \E n \in Nat : /\ n <= Len(tcp)
                           /\ m.bytes = SubSeq(tcp, 1, n)
                           /\ tcp' = SubSeq(tcp, n + 1, Len(tcp))
  PROVE  InOrder'
<1>1. PICK off \in Seq(Nat), cut \in Seq(Nat), all \in Seq(Nat) : Flow(off, cut, all)
  BY DEF InOrder
<1>2. BytesOK /\ ws \in Seq(Message) /\ tcp \in Seq(Nat) /\ tcp' \in Seq(Nat)
  BY DEF InOrder, BytesOK, QueueOK
<1>3. QueueIs(ws, tcp, cut, all)
  BY <1>1 DEF Flow
<1> DEFINE p == cut[Len(ws) + 1]
           e == p + Len(m.bytes)
<1>4. p \in Nat /\ p + Len(tcp) = Len(all) /\ Slice(tcp, p, all)
  <2>1. Len(ws) \in Nat /\ \A i \in 1 .. Len(ws) + 1 : cut[i] \in Nat
    BY <1>2, <1>3, QueueTypes
  <2> QED
    BY <1>3, <2>1 DEF QueueIs
<1> HIDE DEF p
<1>5. /\ Len(m.bytes) \in Nat
      /\ e + Len(tcp') = Len(all)
      /\ Slice(m.bytes, p, all) /\ Slice(tcp', e, all)
  <2>1. CASE m.bytes = << >> /\ tcp' = tcp
    <3>1. Len(m.bytes) = 0 /\ e = p
      BY <1>4, <2>1
    <3>2. Slice(m.bytes, p, all)
      BY <1>4, <2>1, SliceEmpty
    <3> QED
      BY <1>4, <2>1, <3>1, <3>2
  <2>2. ASSUME NEW n \in Nat, n <= Len(tcp), m.bytes = SubSeq(tcp, 1, n),
               tcp' = SubSeq(tcp, n + 1, Len(tcp))
        PROVE  /\ Len(m.bytes) \in Nat
               /\ e + Len(tcp') = Len(all)
               /\ Slice(m.bytes, p, all) /\ Slice(tcp', e, all)
    <3>1. /\ Len(m.bytes) = n /\ Len(tcp') = Len(tcp) - n
          /\ Slice(m.bytes, p, all) /\ Slice(tcp', p + n, all)
      BY <1>2, <1>4, <2>2, SliceCut
    <3>2. Len(tcp) \in Nat /\ Len(all) \in Nat /\ e = p + n
      BY <1>2, <3>1
    <3>3. (p + n) + (Len(tcp) - n) = Len(all)
      <4>1. (p + n) + (Len(tcp) - n) = p + Len(tcp)
        BY <1>4, <3>2, Carry
      <4> QED
        BY <1>4, <4>1, Zenon
    <3>4. e + Len(tcp') = Len(all)
      BY <3>1, <3>2, <3>3, Zenon
    <3> HIDE DEF e
    <3> QED
      BY <2>2, <3>1, <3>2, <3>4
  <2> QED
    BY <2>1, <2>2
<1>6. e \in Nat
  BY <1>4, <1>5
<1> HIDE DEF e
<1>7. e = cut[Len(ws) + 1] + Len(m.bytes) /\ Slice(m.bytes, cut[Len(ws) + 1], all)
  BY <1>5 DEF e, p
<1>8. /\ QueueIs(ws', tcp', Append(cut, e), all) /\ Append(cut, e)[1] = cut[1]
      /\ Append(cut, e) \in Seq(Nat)
  BY <1>2, <1>3, <1>5, <1>6, <1>7, QueuePush, AppendAt
<1>9. PICK cut2 \in Seq(Nat) : QueueIs(ws', tcp', cut2, all) /\ cut2[1] = cut[1]
  BY <1>8
<1>10. Flow(off, cut2, all)'
  BY <1>1, <1>9 DEF Flow
<1>11. BytesOK'
  <2>1. sent \in Seq(Units) /\ got \in Seq(Seq(Nat)) /\ buf \in Seq(Nat)
    BY <1>2 DEF BytesOK
  <2>2. sent' = sent /\ got' = got /\ buf' = buf
    OBVIOUS
  <2> QED
    BY <2>1, <2>2 DEF BytesOK
<1> QED
  BY <1>10, <1>11 DEF InOrder

\* The client takes a message: its bytes go to the end of the buffer.
LEMMA TakenInOrder ==
  ASSUME InOrder, QueueOK', ws # << >>, ws' = Tail(ws), buf' = buf \o Head(ws).bytes,
         UNCHANGED <<sent, got, tcp>>
  PROVE  InOrder'
<1>1. PICK off \in Seq(Nat), cut \in Seq(Nat), all \in Seq(Nat) : Flow(off, cut, all)
  BY DEF InOrder
<1>2. BytesOK /\ ws \in Seq(Message) /\ tcp \in Seq(Nat) /\ buf \in Seq(Nat)
  BY DEF InOrder, BytesOK, QueueOK
<1>3. QueueIs(ws, tcp, cut, all) /\ Slice(buf, off[Len(got) + 1], all)
  BY <1>1 DEF Flow
<1> DEFINE d == Head(ws).bytes
           cut2 == Tail(cut)
<1>4. /\ QueueIs(ws', tcp', cut2, all)
      /\ cut2 \in Seq(Nat) /\ d \in Seq(Nat) /\ cut[1] \in Nat
      /\ cut2[1] = cut[1] + Len(d)
      /\ Slice(d, cut[1], all)
  BY <1>2, <1>3, QueuePop
<1>5. /\ Len(buf) \in Nat /\ off[Len(got) + 1] \in Nat
      /\ cut[1] = off[Len(got) + 1] + Len(buf)
  BY <1>1, <1>2, FlowTypes
<1> HIDE DEF d, cut2
<1>6. Slice(buf \o d, off[Len(got) + 1], all)
  BY <1>2, <1>3, <1>4, <1>5, SliceJoin
<1>7. buf \o d \in Seq(Nat) /\ Len(buf \o d) = Len(buf) + Len(d) /\ Len(d) \in Nat
  BY <1>2, <1>4, ConcatAt
<1>8. cut2[1] = off[Len(got) + 1] + Len(buf \o d)
  BY <1>4, <1>5, <1>7
<1>9. buf' = buf \o d
  BY DEF d
<1>10. Flow(off, cut2, all)'
  BY <1>1, <1>4, <1>6, <1>8, <1>9 DEF Flow
<1>11. BytesOK'
  BY <1>2, <1>7, <1>9 DEF BytesOK
<1> QED
  BY <1>4, <1>10, <1>11 DEF InOrder

\* A PDU is taken from the buffer: it is the next one the server sent.
LEMMA NextUnit ==
  ASSUME InOrder, Whole(PduLength(buf)),
         got' = Append(got, SubSeq(buf, 1, PduLength(buf))),
         buf' = SubSeq(buf, PduLength(buf) + 1, Len(buf)),
         UNCHANGED <<sent, ws, tcp>>
  PROVE  /\ Len(got) < Len(sent)
         /\ got' = Append(got, sent[Len(got) + 1])
         /\ InOrder'
<1>1. PICK off \in Seq(Nat), cut \in Seq(Nat), all \in Seq(Nat) : Flow(off, cut, all)
  BY DEF InOrder
<1>2. /\ BytesOK /\ QueueOK /\ buf \in Seq(Nat) /\ sent \in Seq(Units)
      /\ got \in Seq(Seq(Nat))
  BY DEF InOrder, BytesOK
<1>3. /\ Len(got) \in Nat /\ Len(sent) \in Nat /\ Len(got) <= Len(sent)
      /\ Len(buf) \in Nat /\ Len(all) \in Nat
      /\ off[Len(got) + 1] \in Nat
      /\ cut[1] \in Nat /\ cut[1] <= Len(all)
      /\ cut[1] = off[Len(got) + 1] + Len(buf)
  BY <1>1, <1>2, FlowTypes
<1> DEFINE k == Len(got) + 1
           u == sent[k]
           n == PduLength(buf)
<1>4. n > 0 /\ Len(buf) >= n
  BY DEF Whole
<1>5. Len(buf) > 0
  <2>1. Len(buf) >= 2
    <3>1. CASE Len(buf) < HeaderNeeded(buf)
      BY <1>4, <3>1 DEF PduLength
    <3>2. CASE ~(Len(buf) < HeaderNeeded(buf))
      BY <1>3, <3>2 DEF HeaderNeeded
    <3> QED
      BY <3>1, <3>2
  <2> QED
    BY <1>3, <2>1
<1>6. Len(got) < Len(sent)
  <2>1. CASE Len(got) = Len(sent)
    <3>1. off[Len(got) + 1] = Len(all)
      BY <1>1, <2>1 DEF Flow, SentIs
    <3> QED
      BY <1>3, <1>5, <3>1
  <2> QED
    BY <1>3, <2>1
<1>7. k \in 1 .. Len(sent) /\ k \in Nat /\ k = Len(got) + 1
  <2>1. Len(got) + 1 \in 1 .. Len(sent) /\ Len(got) + 1 \in Nat
    BY <1>3, <1>6
  <2> QED
    BY <2>1, Zenon
<1>8. u \in Units /\ u \in Seq(Nat) /\ Len(u) \in Nat
  BY <1>2, <1>7, UnitType
<1>9. Slice(u, off[k], all) /\ off[k + 1] = off[k] + Len(u) /\ Slice(buf, off[k], all)
  BY <1>1, <1>7 DEF Flow, SentIs
<1> HIDE DEF k, u, n
<1>10. n = Len(u) /\ SubSeq(buf, 1, Len(u)) = u
  BY <1>2, <1>3, <1>4, <1>7, <1>8, <1>9, UnitAtFront DEF n
<1>11. got' = Append(got, u) /\ buf' = SubSeq(buf, n + 1, Len(buf))
  BY <1>10 DEF n
<1>12. /\ buf' \in Seq(Nat) /\ Len(buf') = Len(buf) - n
       /\ Slice(buf', off[k] + n, all)
  <2>1. off[k] \in Nat /\ buf \in Seq(Nat)
    BY <1>2, <1>3, <1>7
  <2>3. n \in Nat
    BY <1>8, <1>10
  <2>4. n <= Len(buf)
    BY <1>3, <1>4, <2>3
  <2>2. buf' = SubSeq(buf, n + 1, Len(buf)) /\ Slice(buf, off[k], all)
    BY <1>9, <1>11
  <2> QED
    BY <2>1, <2>2, <2>3, <2>4, SliceRest, Zenon
<1>13. got' \in Seq(Seq(Nat)) /\ Len(got') = k
  <2>1. Append(got, u) \in Seq(Seq(Nat)) /\ Len(Append(got, u)) = Len(got) + 1
    BY <1>2, <1>8, AppendAt
  <2> QED
    BY <1>7, <1>11, <2>1
<1>14. off[Len(got') + 1] = off[k] + n /\ Len(got') <= Len(sent)
  BY <1>3, <1>7, <1>9, <1>10, <1>13
<1>15. cut[1] = off[Len(got') + 1] + Len(buf')
  <2>1. cut[1] = off[k] + Len(buf) /\ off[k] \in Nat /\ Len(buf) \in Nat
    BY <1>3, <1>7
  <2>2. n \in Nat
    BY <1>8, <1>10
  <2>3. (off[k] + n) + (Len(buf) - n) = off[k] + Len(buf)
    BY <2>1, <2>2, Carry
  <2> QED
    BY <1>12, <1>14, <2>1, <2>3, Zenon
<1>16. Flow(off, cut, all)'
  BY <1>1, <1>12, <1>14, <1>15 DEF Flow
<1>17. BytesOK'
  BY <1>2, <1>12, <1>13 DEF BytesOK, QueueOK
<1> QED
  BY <1>6, <1>11, <1>16, <1>17 DEF InOrder, u, k

LEMMA InOrderStep == InOrder /\ [Next]_vars => InOrder'
<1> SUFFICES ASSUME InOrder, [Next]_vars PROVE InOrder'
  OBVIOUS
<1>0. QueueOK /\ QueueOK'
  BY QueueStep DEF InOrder, BytesOK
<1>1. ASSUME NEW u \in Units, ServerSends(u) PROVE InOrder'
  BY <1>0, <1>1, SendInOrder
<1>2. ASSUME NEW n \in 1 .. MaxRead, RelayRead(n) PROVE InOrder'
  <2> DEFINE m == Binary(SubSeq(tcp, 1, n))
  <2>1. n \in Nat /\ 1 =< n /\ n <= Len(tcp) /\ tcp \in Seq(Nat)
    BY <1>0, <1>2, FramingAssumption DEF RelayRead, QueueOK
  <2>2. m.bytes = SubSeq(tcp, 1, n) /\ m \in Message
    <3>1. SubSeq(tcp, 1, n) \in Seq(Nat)
      BY <2>1, CutNat
    <3> QED
      BY <3>1 DEF Binary, Message
  <2>3. /\ ws' = Append(ws, m) /\ tcp' = SubSeq(tcp, n + 1, Len(tcp))
        /\ UNCHANGED <<sent, got, buf>>
    BY <1>2 DEF RelayRead
  <2> HIDE DEF m
  <2> QED
    BY <1>0, <2>1, <2>2, <2>3, QueuedInOrder
<1>3. ASSUME NEW ok \in BOOLEAN, TlsUpgrade(ok) PROVE InOrder'
  <2>1. Text(ok) \in Message /\ Text(ok).bytes = << >>
    BY DEF Text, Message
  <2>2. ws' = Append(ws, Text(ok)) /\ UNCHANGED <<sent, got, buf, tcp>>
    BY <1>3 DEF TlsUpgrade
  <2> QED
    BY <1>0, <2>1, <2>2, QueuedInOrder
<1>4. CASE FillBuf \/ ReadTextMessage
  <2>1. /\ ws # << >> /\ ws' = Tail(ws) /\ buf' = buf \o Head(ws).bytes
        /\ UNCHANGED <<sent, got, tcp>>
    BY <1>4 DEF FillBuf, ReadTextMessage
  <2> QED
    BY <1>0, <2>1, TakenInOrder
<1>5. CASE ReadPdu \/ ReadConfirm
  BY <1>5, NextUnit DEF ReadPdu, ReadConfirm
<1>6. CASE UNCHANGED <<sent, got, buf, ws, tcp>>
  BY <1>6 DEF InOrder, BytesOK, QueueOK, Flow
<1> QED
  BY <1>1, <1>2, <1>3, <1>4, <1>5, <1>6
     DEF Next, vars, RelayEnds, StartRead, ReadFails, Cancelled

\* Whatever PDUs the server sends, however the proxy cuts their bytes into messages, and
\* however often the select! drops a read: the client hands on exactly those PDUs, in
\* order, each of them once and whole.
THEOREM StreamImplemented == Spec => ImplementsStream
<1>1. Init => Stream!Init
  BY DEF Init, Stream!Init
<1>2. InOrder /\ [Next]_vars => [Stream!Next]_<<sent, got>>
  <2> SUFFICES ASSUME InOrder, [Next]_vars PROVE [Stream!Next]_<<sent, got>>
    OBVIOUS
  <2>1. ASSUME NEW u \in Units, ServerSends(u) PROVE Stream!Next
    BY <2>1 DEF ServerSends, Stream!Next, Stream!Send
  <2>2. CASE ReadPdu \/ ReadConfirm
    <3>1. Len(got) < Len(sent) /\ got' = Append(got, sent[Len(got) + 1]) /\ sent' = sent
      BY <2>2, NextUnit DEF ReadPdu, ReadConfirm
    <3> QED
      BY <3>1 DEF Stream!Next, Stream!Deliver
  <2>3. CASE UNCHANGED <<sent, got>>
    BY <2>3
  <2> QED
    BY <2>1, <2>2, <2>3
       DEF Next, vars, RelayRead, TlsUpgrade, RelayEnds, StartRead, FillBuf, ReadFails,
           Cancelled, ReadTextMessage
<1> QED
  BY <1>1, <1>2, InOrderInit, InOrderStep, PTL DEF Spec, ImplementsStream, Stream!Spec

(***************************************************************************)
(* Types: what is on the way are bytes, whatever the lengths.              *)
(***************************************************************************)
Byte == 0 .. Radix - 1

LEMMA EncodeBytes ==
  ASSUME NEW s, LegalShape(s), NEW fill \in Byte
  PROVE  Encode(s, fill) \in Seq(Byte)
<1>1. Half \in Nat /\ Half > 2 /\ Radix \in Nat /\ Radix > 5 /\ s.len \in Nat
  BY FramingAssumption DEF Radix, LegalShape
<1>0. Radix \in Nat /\ Radix > 0 /\ s.len \in Nat
  BY <1>1
<1>2. PICK q, m \in Nat :
        q = s.len \div Radix /\ m = s.len % Radix /\ m < Radix /\ q * Radix + m = s.len
  BY <1>0, Digits
<1>3. FastPath \in Byte /\ X224 \in Byte /\ m \in Byte
  BY <1>1, <1>2 DEF FastPath, X224, Byte
<1>4. Header(s.form, s.len) \in Seq(Byte)
  <2>1. CASE s.form = "short"
    <3>1. s.len \in Byte
      <4>1. s.len < Half /\ Half < Radix
        BY <2>1, FramingAssumption DEF LegalShape, Radix
      <4> QED
        BY <1>1, <4>1 DEF Byte
    <3>2. Header(s.form, s.len) = <<FastPath, s.len>>
      BY <2>1 DEF Header
    <3> QED
      BY <1>3, <3>1, <3>2
  <2>2. CASE s.form = "long"
    <3>1. q * Radix + m < Half * Radix
      BY <1>2, <2>2 DEF LegalShape
    <3>2. q < Half
      <4>1. Half \in Nat /\ Radix \in Nat /\ Radix > 0
        BY <1>1
      <4> QED
        BY <1>2, <3>1, <4>1, HighDigit
    <3>3. Half + q \in Byte
      <4>1. Half \in Nat /\ q \in Nat /\ Radix = Half + Half
        BY <1>1, <1>2 DEF Radix
      <4> QED
        BY <3>2, <4>1 DEF Byte
    <3>4. Header(s.form, s.len) = <<FastPath, Half + q, m>>
      BY <1>2, <2>2 DEF Header
    <3> QED
      BY <1>3, <3>3, <3>4
  <2>3. CASE s.form = "x224"
    <3>1. q * Radix + m < Radix * Radix
      BY <1>2, <2>3 DEF LegalShape
    <3>2. q < Radix
      <4>1. Radix \in Nat /\ Radix > 0
        BY <1>1
      <4> QED
        BY <1>2, <3>1, <4>1, HighDigit
    <3>3. q \in Byte /\ 0 \in Byte
      BY <1>1, <1>2, <3>2 DEF Byte
    <3>4. Header(s.form, s.len) = <<X224, 0, q, m>>
      BY <1>2, <2>3 DEF Header
    <3> QED
      BY <1>3, <3>3, <3>4
  <2> QED
    BY <2>1, <2>2, <2>3 DEF LegalShape
<1>5. [i \in 1 .. s.len - HeaderLen[s.form] |-> fill] \in Seq(Byte)
  <2>1. s.len - HeaderLen[s.form] \in Nat
    BY <1>1 DEF LegalShape, HeaderLen
  <2> QED
    BY <2>1
<1> QED
  BY <1>4, <1>5 DEF Encode

LEMMA UnitBytes == \A u \in Units : u \in Seq(Byte)
<1>0. FastPath \in Byte /\ X224 \in Byte /\ 1 \in Byte
  BY FramingAssumption DEF FastPath, X224, Byte, Radix
<1>1. Confirm \in Seq(Byte)
  <2> DEFINE s == [form |-> "x224", len |-> 5]
  <2>1. LegalShape(s)
    <3>1. 5 < Radix * Radix
      <4>1. Radix \in Nat /\ Radix > 5
        BY FramingAssumption DEF Radix
      <4>2. Radix * Radix >= Radix
        BY <4>1
      <4> QED
        BY <4>1, <4>2
    <3> QED
      BY <3>1 DEF LegalShape, HeaderLen
  <2> QED
    BY <1>0, <2>1, EncodeBytes DEF Confirm
<1>2. ASSUME NEW s \in Shapes, NEW fill \in {FastPath, X224} PROVE Encode(s, fill) \in Seq(Byte)
  <2>1. LegalShape(s)
    BY FramingAssumption DEF LegalShape
  <2> QED
    BY <1>0, <2>1, EncodeBytes
<1> QED
  BY <1>1, <1>2 DEF Units

Packets == [text : BOOLEAN, ok : BOOLEAN, bytes : Seq(Byte)]

Typed ==
  /\ sent \in Seq(Units) /\ got \in Seq(Seq(Byte))
  /\ tcp \in Seq(Byte) /\ buf \in Seq(Byte) /\ ws \in Seq(Packets)
  /\ proxy \in {"raw", "tls", "closed"} /\ command \in BOOLEAN
  /\ client \in {"confirm", "tls_ready", "pdu", "failed"}

\* A suspended read lacks bytes.
Suspended == pending \in BOOLEAN /\ (pending => client = "pdu" /\ ~Whole(PduLength(buf)))

LEMMA Cut ==
  ASSUME NEW S, NEW s \in Seq(S), NEW n \in Nat, n <= Len(s)
  PROVE  SubSeq(s, 1, n) \in Seq(S) /\ SubSeq(s, n + 1, Len(s)) \in Seq(S)
OBVIOUS

LEMMA Pushed == ASSUME NEW S, NEW s \in Seq(S), NEW e \in S PROVE Append(s, e) \in Seq(S)
OBVIOUS

LEMMA TypedStep == Typed /\ [Next]_vars => Typed'
<1> SUFFICES ASSUME Typed, [Next]_vars PROVE Typed'
  OBVIOUS
<1>1. ASSUME NEW u \in Units, ServerSends(u) PROVE Typed'
  BY <1>1, UnitBytes DEF ServerSends, Typed
<1>2. ASSUME NEW n \in 1 .. MaxRead, RelayRead(n) PROVE Typed'
  <2>1. n \in Nat /\ n <= Len(tcp)
    BY <1>2, FramingAssumption DEF RelayRead
  <2>2. SubSeq(tcp, 1, n) \in Seq(Byte) /\ tcp' \in Seq(Byte)
    BY <1>2, <2>1, Cut DEF RelayRead, Typed
  <2>3. Binary(SubSeq(tcp, 1, n)) \in Packets
    BY <2>2 DEF Binary, Packets
  <2> QED
    BY <1>2, <2>2, <2>3 DEF RelayRead, Typed
<1>3. ASSUME NEW ok \in BOOLEAN, TlsUpgrade(ok) PROVE Typed'
  <2>1. Text(ok) \in Packets
    BY DEF Text, Packets
  <2> QED
    BY <1>3, <2>1, Pushed DEF TlsUpgrade, Typed
<1>4. CASE FillBuf \/ ReadTextMessage
  <2>1. Head(ws) \in Packets /\ Tail(ws) \in Seq(Packets)
    BY <1>4 DEF FillBuf, ReadTextMessage, Typed
  <2>2. buf \o Head(ws).bytes \in Seq(Byte)
    BY <2>1 DEF Packets, Typed
  <2>3. client' \in {"confirm", "tls_ready", "pdu", "failed"}
    BY <1>4 DEF FillBuf, ReadTextMessage, Typed
  <2> QED
    BY <1>4, <2>1, <2>2, <2>3 DEF FillBuf, ReadTextMessage, Typed
<1>5. CASE ReadPdu \/ ReadConfirm
  <2>1. PduLength(buf) \in Nat /\ PduLength(buf) <= Len(buf)
    <3>1. /\ \A i \in 1 .. Len(buf) : buf[i] \in Nat
          /\ Half \in Nat /\ Half > 0 /\ Radix \in Nat /\ Len(buf) \in Nat
      BY FramingAssumption DEF Typed, Byte, Radix
    <3>2. Len(buf) >= HeaderNeeded(buf) => PduLength(buf) \in Nat
      <4> SUFFICES ASSUME Len(buf) >= HeaderNeeded(buf) PROVE PduLength(buf) \in Nat
        OBVIOUS
      <4>1. CASE buf[1] = X224
        <5>1. buf[3] \in Nat /\ buf[4] \in Nat /\ ~(Len(buf) < HeaderNeeded(buf))
          BY <3>1, <4>1 DEF HeaderNeeded
        <5>2. PduLength(buf) = buf[3] * Radix + buf[4]
          BY <4>1, <5>1 DEF PduLength
        <5>3. buf[3] * Radix \in Nat
          BY <3>1, <5>1
        <5> QED
          BY <5>1, <5>2, <5>3
      <4>2. CASE buf[1] # X224 /\ buf[2] >= Half
        <5>1. buf[2] \in Nat /\ buf[3] \in Nat /\ ~(Len(buf) < HeaderNeeded(buf))
          BY <3>1, <4>2 DEF HeaderNeeded
        <5>2. PduLength(buf) = (buf[2] % Half) * Radix + buf[3]
          BY <4>2, <5>1 DEF PduLength
        <5>3. buf[2] % Half \in Nat
          BY <3>1, <5>1
        <5>4. (buf[2] % Half) * Radix \in Nat
          BY <3>1, <5>3
        <5> QED
          BY <5>1, <5>2, <5>4
      <4>3. CASE buf[1] # X224 /\ ~(buf[2] >= Half)
        <5>1. buf[2] \in Nat /\ ~(Len(buf) < HeaderNeeded(buf))
          BY <3>1, <4>3 DEF HeaderNeeded
        <5> QED
          BY <4>3, <5>1 DEF PduLength
      <4> QED BY <4>1, <4>2, <4>3
    <3>3. Len(buf) < HeaderNeeded(buf) => PduLength(buf) = 0
      BY DEF PduLength
    <3>4. PduLength(buf) <= Len(buf)
      BY <1>5 DEF ReadPdu, ReadConfirm, Whole
    <3>5. HeaderNeeded(buf) \in Nat
      BY DEF HeaderNeeded
    <3> QED
      BY <3>1, <3>2, <3>3, <3>4, <3>5
  <2>2. SubSeq(buf, 1, PduLength(buf)) \in Seq(Byte) /\ buf' \in Seq(Byte)
    BY <1>5, <2>1, Cut DEF ReadPdu, ReadConfirm, Typed
  <2> QED
    BY <1>5, <2>2, Pushed DEF ReadPdu, ReadConfirm, Typed
<1>6. CASE RelayEnds \/ StartRead \/ ReadFails \/ Cancelled \/ UNCHANGED vars
  BY <1>6 DEF RelayEnds, StartRead, ReadFails, Cancelled, vars, Typed
<1> QED
  BY <1>1, <1>2, <1>3, <1>4, <1>5, <1>6 DEF Next

LEMMA SuspendedStep == Suspended /\ [Next]_vars => Suspended'
<1> SUFFICES ASSUME Suspended, [Next]_vars PROVE Suspended'
  OBVIOUS
<1>1. CASE UNCHANGED <<pending, client, buf>>
  BY <1>1 DEF Suspended, Whole, PduLength, HeaderNeeded
<1>2. CASE FillBuf
  BY <1>2, Zenon DEF FillBuf, Suspended
<1>3. CASE StartRead
  <2>1. buf' = buf /\ client' = "pdu" /\ pending' = TRUE /\ ~Whole(PduLength(buf))
    BY <1>3 DEF StartRead
  <2>2. ~Whole(PduLength(buf))'
    BY <2>1 DEF Whole, PduLength, HeaderNeeded
  <2> QED
    BY <2>1, <2>2 DEF Suspended
<1>4. CASE ReadFails \/ Cancelled
  BY <1>4 DEF ReadFails, Cancelled, Suspended
<1>5. CASE ReadPdu \/ ReadConfirm \/ ReadTextMessage
  <2>1. pending' = FALSE
    BY <1>5 DEF ReadPdu, ReadConfirm, ReadTextMessage, Suspended
  <2> QED
    BY <2>1 DEF Suspended
<1> QED
  BY <1>1, <1>2, <1>3, <1>4, <1>5
     DEF Next, vars, ServerSends, RelayRead, TlsUpgrade, RelayEnds

\* The variables keep their types, for PDUs of every length that their forms allow: all that
\* is on the way are bytes, and a read_pdu that waits in fill_buf does not have its PDU.
THEOREM TypeCorrect == Spec => []TypeOK
<1>1. Init => Typed /\ Suspended
  <2>1. \A S : << >> \in Seq(S)
    OBVIOUS
  <2> QED
    BY <2>1 DEF Init, Typed, Suspended
<1>2. Typed /\ Suspended => TypeOK
  BY DEF Typed, Suspended, TypeOK, Byte
<1> QED
  BY <1>1, <1>2, TypedStep, SuspendedStep, PTL DEF Spec
=============================================================================
