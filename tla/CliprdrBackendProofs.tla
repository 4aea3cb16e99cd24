------------------------ MODULE CliprdrBackendProofs ------------------------
(***************************************************************************)
(* Proofs about CliprdrBackend.  Whatever is copied, of any formats and    *)
(* any sizes, and however the remote answers, delays and cuts its answers  *)
(* over any number of sessions: as long as nothing is copied or offered    *)
(* while something else is being read (~Overlap), data is read as the      *)
(* format it was requested as, the page has the last copy once all is      *)
(* quiet, the remote reads the whole of the file it was offered, and a     *)
(* download saves the whole of its file.  CliprdrMisread.cfg,              *)
(* CliprdrLost.cfg and CliprdrTrap.cfg are the counterexamples without     *)
(* ~Overlap; the types need no such hypothesis.                            *)
(*                                                                         *)
(* Typed is the type invariant, with the rule that the remote waits for    *)
(* one range of our file at a time.  On it rest: Agree (one format is      *)
(* asked for at a time, and noted), CatchesUp (the last copy is in the     *)
(* queue, asked for, or there), Pulling (what the remote has read and what *)
(* is on its way join up), Listing (a file list comes while no file is     *)
(* downloaded) and Fetching (requests and answers fit their transfers).    *)
(***************************************************************************)
EXTENDS CliprdrBackend, SequenceTheorems, TLAPS

LEMMA MinOfTwo ==
  ASSUME NEW a \in Nat, NEW b \in Nat
  PROVE  Min({a, b}) = IF a <= b THEN a ELSE b
<1> DEFINE m == IF a <= b THEN a ELSE b
<1>1. m \in {a, b} /\ \A y \in {a, b} : m <= y
  OBVIOUS
<1>2. \A x \in {a, b} : (\A y \in {a, b} : x <= y) => x = m
  OBVIOUS
<1>3. QED
  BY <1>1, <1>2 DEF Min

LEMMA BytesType ==
  ASSUME NEW S, NEW f \in S, NEW a \in Nat, NEW b \in Nat, a <= b
  PROVE  Bytes(f, a, b) \in Seq(S \X Nat) /\ Len(Bytes(f, a, b)) = b - a
<1>1. b - a \in Nat
  OBVIOUS
<1>2. \A k \in 1 .. (b - a) : <<f, a + k>> \in S \X Nat
  OBVIOUS
<1>3. QED
  BY <1>1, <1>2 DEF Bytes

\* One read after the other is one read.
LEMMA BytesConcat ==
  ASSUME NEW f, NEW a \in Nat, NEW b \in Nat, NEW c \in Nat, a <= b, b <= c
  PROVE  Bytes(f, a, b) \o Bytes(f, b, c) = Bytes(f, a, c)
<1> DEFINE s == Bytes(f, a, b)
           t == Bytes(f, b, c)
           u == Bytes(f, a, c)
           w == s \o t
           T == {f} \X Nat
<1>1. /\ s \in Seq(T) /\ Len(s) = b - a
      /\ t \in Seq(T) /\ Len(t) = c - b
      /\ u \in Seq(T) /\ Len(u) = c - a
  <2>1. f \in {f} /\ a <= c
    OBVIOUS
  <2>2. s \in Seq(T) /\ Len(s) = b - a
    BY <2>1, BytesType
  <2>3. t \in Seq(T) /\ Len(t) = c - b
    BY <2>1, BytesType
  <2>4. u \in Seq(T) /\ Len(u) = c - a
    BY <2>1, BytesType
  <2> QED
    BY <2>2, <2>3, <2>4
<1>2. /\ \A k \in 1 .. (b - a) : s[k] = <<f, a + k>>
      /\ \A k \in 1 .. (c - b) : t[k] = <<f, b + k>>
      /\ \A k \in 1 .. (c - a) : u[k] = <<f, a + k>>
  BY DEF Bytes
<1> HIDE DEF s, t, u, T
<1>3. /\ w \in Seq(T) /\ Len(w) = Len(s) + Len(t)
      /\ \A k \in 1 .. Len(s) + Len(t) : w[k] = IF k <= Len(s) THEN s[k] ELSE t[k - Len(s)]
  BY <1>1, ConcatProperties, Zenon
<1> HIDE DEF w
<1>4. Len(s) + Len(t) = c - a /\ Len(w) = c - a
  BY <1>1, <1>3
<1>5. \A k \in 1 .. (c - a) : w[k] = u[k]
  <2> SUFFICES ASSUME NEW k \in 1 .. (c - a) PROVE w[k] = u[k]
    OBVIOUS
  <2>1. w[k] = IF k <= b - a THEN s[k] ELSE t[k - (b - a)]
    BY <1>1, <1>3, <1>4
  <2>2. CASE k <= b - a
    <3>1. k \in 1 .. (b - a)
      BY <2>2
    <3> QED
      BY <1>2, <2>1, <2>2, <3>1
  <2>3. CASE ~(k <= b - a)
    <3>1. k - (b - a) \in 1 .. (c - b)
      BY <2>3
    <3>2. t[k - (b - a)] = <<f, b + (k - (b - a))>>
      BY <1>2, <3>1
    <3>3. b + (k - (b - a)) = a + k
      OBVIOUS
    <3>4. w[k] = <<f, a + k>>
      BY <2>1, <2>3, <3>2, <3>3
    <3> QED
      BY <1>2, <3>4
  <2> QED
    BY <2>2, <2>3
<1>6. w = u
  BY <1>1, <1>3, <1>4, <1>5, SeqEqual
<1> QED
  BY <1>6 DEF s, t, u, w

-----------------------------------------------------------------------------
(***************************************************************************)
(* The two queues, as sets of messages and by position.                    *)
(***************************************************************************)
LEMMA RangeAppend ==
  ASSUME NEW T, NEW q \in Seq(T), NEW m \in T
  PROVE  Append(q, m) \in Seq(T) /\ Range(Append(q, m)) = Range(q) \cup {m}
<1>1. /\ Append(q, m) \in Seq(T) /\ Len(Append(q, m)) = Len(q) + 1 /\ Len(q) \in Nat
      /\ \A i \in 1 .. Len(q) : Append(q, m)[i] = q[i]
      /\ Append(q, m)[Len(q) + 1] = m
  BY AppendProperties
<1>2. DOMAIN q = 1 .. Len(q) /\ DOMAIN Append(q, m) = 1 .. Len(q) + 1
  BY <1>1
<1>3. \A i \in 1 .. Len(q) + 1 : i \in 1 .. Len(q) \/ i = Len(q) + 1
  BY <1>1
<1>4. Len(q) + 1 \in 1 .. Len(q) + 1 /\ \A i \in 1 .. Len(q) : i \in 1 .. Len(q) + 1
  BY <1>1
<1> QED
  BY <1>1, <1>2, <1>3, <1>4 DEF Range

LEMMA RangeTail ==
  ASSUME NEW T, NEW q \in Seq(T), q # << >>
  PROVE  Tail(q) \in Seq(T) /\ Head(q) \in T /\ Range(q) = Range(Tail(q)) \cup {Head(q)}
<1>1. /\ Tail(q) \in Seq(T) /\ Len(Tail(q)) = Len(q) - 1 /\ Head(q) \in T
      /\ \A i \in 1 .. Len(Tail(q)) : Tail(q)[i] = q[i + 1]
      /\ Len(q) \in Nat \ {0} /\ Head(q) = q[1]
  BY HeadTailProperties, EmptySeq
<1>2. DOMAIN q = 1 .. Len(q) /\ DOMAIN Tail(q) = 1 .. Len(q) - 1
  BY <1>1
<1>3. \A i \in 1 .. Len(q) - 1 : i + 1 \in 1 .. Len(q) /\ Tail(q)[i] = q[i + 1]
  BY <1>1
<1>4. \A i \in 1 .. Len(q) : i = 1 \/ (i - 1 \in 1 .. Len(q) - 1 /\ Tail(q)[i - 1] = q[i])
  BY <1>1
<1>5. 1 \in 1 .. Len(q)
  BY <1>1
<1>6. Range(q) \subseteq Range(Tail(q)) \cup {Head(q)}
  <2> SUFFICES ASSUME NEW i \in 1 .. Len(q) PROVE q[i] \in Range(Tail(q)) \cup {Head(q)}
    BY <1>2 DEF Range
  <2>1. CASE i = 1
    BY <1>1, <2>1
  <2>2. CASE i - 1 \in 1 .. Len(q) - 1 /\ Tail(q)[i - 1] = q[i]
    BY <1>2, <2>2 DEF Range
  <2> QED
    BY <1>4, <2>1, <2>2
<1>7. Range(Tail(q)) \cup {Head(q)} \subseteq Range(q)
  BY <1>1, <1>2, <1>3, <1>5 DEF Range
<1> QED
  BY <1>1, <1>6, <1>7

LEMMA RangeConcat ==
  ASSUME NEW T, NEW q \in Seq(T), NEW r \in Seq(T)
  PROVE  q \o r \in Seq(T) /\ Range(q \o r) = Range(q) \cup Range(r)
<1>1. /\ q \o r \in Seq(T) /\ Len(q \o r) = Len(q) + Len(r)
      /\ \A i \in 1 .. Len(q) + Len(r) : (q \o r)[i] = IF i <= Len(q) THEN q[i] ELSE r[i - Len(q)]
      /\ Len(q) \in Nat /\ Len(r) \in Nat
  BY ConcatProperties
<1>2. /\ DOMAIN q = 1 .. Len(q) /\ DOMAIN r = 1 .. Len(r)
      /\ DOMAIN (q \o r) = 1 .. Len(q) + Len(r)
  BY <1>1
<1>3. \A i \in 1 .. Len(q) : i \in 1 .. Len(q) + Len(r) /\ (q \o r)[i] = q[i]
  BY <1>1
<1>4. \A i \in 1 .. Len(r) :
        /\ Len(q) + i \in 1 .. Len(q) + Len(r)
        /\ (q \o r)[Len(q) + i] = r[i]
  <2> SUFFICES ASSUME NEW i \in 1 .. Len(r)
               PROVE  /\ Len(q) + i \in 1 .. Len(q) + Len(r)
                      /\ (q \o r)[Len(q) + i] = r[i]
    OBVIOUS
  <2>1. Len(q) + i \in 1 .. Len(q) + Len(r) /\ ~(Len(q) + i <= Len(q)) /\ Len(q) + i - Len(q) = i
    BY <1>1
  <2> QED
    BY <1>1, <2>1
<1>5. \A i \in 1 .. Len(q) + Len(r) :
        i \in 1 .. Len(q) \/ (i - Len(q) \in 1 .. Len(r) /\ i = Len(q) + (i - Len(q)))
  BY <1>1
<1>6. Range(q \o r) \subseteq Range(q) \cup Range(r)
  <2> SUFFICES ASSUME NEW i \in 1 .. Len(q) + Len(r) PROVE (q \o r)[i] \in Range(q) \cup Range(r)
    BY <1>2 DEF Range
  <2>1. CASE i \in 1 .. Len(q)
    BY <1>2, <1>3, <2>1 DEF Range
  <2>2. CASE i - Len(q) \in 1 .. Len(r) /\ i = Len(q) + (i - Len(q))
    BY <1>2, <1>4, <2>2 DEF Range
  <2> QED
    BY <1>5, <2>1, <2>2
<1>7. Range(q) \cup Range(r) \subseteq Range(q \o r)
  BY <1>2, <1>3, <1>4 DEF Range
<1> QED
  BY <1>1, <1>6, <1>7

LEMMA RangeEmpty == Range(<< >>) = {}
BY DEF Range

LEMMA RangeOne == ASSUME NEW m PROVE Range(<<m>>) = {m}
<1>1. DOMAIN <<m>> = {1} /\ <<m>>[1] = m
  OBVIOUS
<1> QED
  BY <1>1 DEF Range

(***************************************************************************)
(* The conversations of which there is at most one: the paste of our file, *)
(* and the request of a file list.                                         *)
(***************************************************************************)
Kind(m) ==
  IF m.type \in {"ask", "given", "refused"} THEN "pull"
  ELSE IF m.type = "filelist" \/ (m.type = "paste" /\ m.format = "files") THEN "list" ELSE "other"

None(q, kind) == \A i \in 1 .. Len(q) : Kind(q[i]) # kind
One(q, kind)  == \A i, j \in 1 .. Len(q) : Kind(q[i]) = kind /\ Kind(q[j]) = kind => i = j

Nowhere(kind) == None(toRemote, kind) /\ None(toClient, kind)
Alone(kind) ==
  /\ One(toRemote, kind) /\ One(toClient, kind)
  /\ None(toRemote, kind) \/ None(toClient, kind)

LEMMA NoneEmpty == ASSUME NEW kind PROVE None(<< >>, kind) /\ One(<< >>, kind)
BY DEF None, One

LEMMA NoneIsOne == ASSUME NEW q, NEW kind, None(q, kind) PROVE One(q, kind)
BY DEF None, One

LEMMA NoneAppend ==
  ASSUME NEW T, NEW q \in Seq(T), NEW m \in T, NEW kind, None(q, kind), Kind(m) # kind
  PROVE  None(Append(q, m), kind)
<1> DEFINE r == Append(q, m)
<1>1. /\ Len(r) = Len(q) + 1 /\ Len(q) \in Nat
      /\ \A i \in 1 .. Len(q) : r[i] = q[i]
      /\ r[Len(q) + 1] = m
  BY AppendProperties
<1> HIDE DEF r
<1> SUFFICES ASSUME NEW i \in 1 .. Len(r) PROVE Kind(r[i]) # kind
  BY DEF None, r
<1>2. i \in 1 .. Len(q) \/ i = Len(q) + 1
  BY <1>1
<1> QED
  BY <1>1, <1>2 DEF None

LEMMA OneAppend ==
  ASSUME NEW T, NEW q \in Seq(T), NEW m \in T, NEW kind, One(q, kind),
         None(q, kind) \/ Kind(m) # kind
  PROVE  One(Append(q, m), kind)
<1> DEFINE r == Append(q, m)
<1>1. /\ Len(r) = Len(q) + 1 /\ Len(q) \in Nat
      /\ \A i \in 1 .. Len(q) : r[i] = q[i]
      /\ r[Len(q) + 1] = m
  BY AppendProperties
<1> HIDE DEF r
<1> SUFFICES ASSUME NEW i \in 1 .. Len(r), NEW j \in 1 .. Len(r), Kind(r[i]) = kind, Kind(r[j]) = kind
             PROVE  i = j
  BY DEF One, r
<1>2. /\ i \in 1 .. Len(q) \/ i = Len(q) + 1
      /\ j \in 1 .. Len(q) \/ j = Len(q) + 1
  BY <1>1
<1>3. CASE Kind(m) # kind
  <2>1. i \in 1 .. Len(q) /\ j \in 1 .. Len(q)
    BY <1>1, <1>2, <1>3
  <2> QED
    BY <1>1, <2>1 DEF One
<1>4. CASE None(q, kind)
  <2>1. i = Len(q) + 1 /\ j = Len(q) + 1
    BY <1>1, <1>2, <1>4 DEF None
  <2> QED
    BY <2>1
<1> QED
  BY <1>3, <1>4

LEMMA NoneTail ==
  ASSUME NEW T, NEW q \in Seq(T), q # << >>, NEW kind
  PROVE  /\ None(q, kind) => None(Tail(q), kind) /\ Kind(Head(q)) # kind
         /\ One(q, kind) => One(Tail(q), kind)
         /\ One(q, kind) /\ Kind(Head(q)) = kind => None(Tail(q), kind)
         /\ None(Tail(q), kind) /\ Kind(Head(q)) # kind => None(q, kind)
<1> DEFINE r == Tail(q)
<1>1. /\ Len(r) = Len(q) - 1 /\ Len(q) \in Nat \ {0} /\ Head(q) = q[1]
      /\ \A i \in 1 .. Len(r) : r[i] = q[i + 1]
  BY HeadTailProperties, EmptySeq
<1> HIDE DEF r
<1>2. \A i \in 1 .. Len(r) : i + 1 \in 1 .. Len(q) /\ i + 1 # 1 /\ r[i] = q[i + 1]
  BY <1>1
<1>3. \A i \in 1 .. Len(q) : i = 1 \/ (i - 1 \in 1 .. Len(r) /\ r[i - 1] = q[i])
  BY <1>1
<1>4. 1 \in 1 .. Len(q)
  BY <1>1
<1>5. None(q, kind) => None(r, kind) /\ Kind(Head(q)) # kind
  BY <1>1, <1>2, <1>4 DEF None
<1>6. One(q, kind) => One(r, kind)
  <2> SUFFICES ASSUME One(q, kind), NEW i \in 1 .. Len(r), NEW j \in 1 .. Len(r),
                      Kind(r[i]) = kind, Kind(r[j]) = kind
               PROVE  i = j
    BY DEF One
  <2>1. i + 1 = j + 1
    BY <1>2 DEF One
  <2> QED
    BY <1>1, <2>1
<1>7. One(q, kind) /\ Kind(Head(q)) = kind => None(r, kind)
  BY <1>1, <1>2, <1>4 DEF One, None
<1>8. None(r, kind) /\ Kind(Head(q)) # kind => None(q, kind)
  BY <1>1, <1>3 DEF None
<1> QED
  BY <1>5, <1>6, <1>7, <1>8 DEF r

LEMMA NoneConcat ==
  ASSUME NEW T, NEW q \in Seq(T), NEW r \in Seq(T), NEW kind, None(r, kind)
  PROVE  (None(q, kind) => None(q \o r, kind)) /\ (One(q, kind) => One(q \o r, kind))
<1> DEFINE w == q \o r
<1>1. /\ Len(w) = Len(q) + Len(r)
      /\ \A i \in 1 .. Len(q) + Len(r) : w[i] = IF i <= Len(q) THEN q[i] ELSE r[i - Len(q)]
      /\ Len(q) \in Nat /\ Len(r) \in Nat
  BY ConcatProperties
<1> HIDE DEF w
<1>2. \A i \in 1 .. Len(w) : (i \in 1 .. Len(q) /\ w[i] = q[i])
                           \/ (i - Len(q) \in 1 .. Len(r) /\ w[i] = r[i - Len(q)])
  BY <1>1
<1>3. \A i \in 1 .. Len(w) : Kind(w[i]) = kind => i \in 1 .. Len(q) /\ w[i] = q[i]
  BY <1>2 DEF None
<1> QED
  BY <1>3 DEF None, One, w

-----------------------------------------------------------------------------
(***************************************************************************)
(* Types.                                                                  *)
(***************************************************************************)
HostFiles == 1 .. Len(HostSizes)
Texts     == {"text", "dibv5", "dib"}

FileAsks == [type : {"size", "range"}, id : Nat, index : Indices, position : Nat, size : Nat]

ToRemote ==
  [type : {"paste"}, format : Formats] \cup FileAsks \cup [type : {"offer"}, file : HostFiles]
  \cup [type : {"given"}, data : Seq(HostFiles \X Nat)] \cup [type : {"refused"}]

ToClient ==
  [type : {"copy"}, formats : SUBSET Formats]
  \cup [type : {"data"}, format : Formats, copy : 1 .. MaxCopies]
  \cup [type : {"error"}, format : Formats]
  \cup [type : {"filelist"}, format : {"files"}, copy : 1 .. MaxCopies]
  \cup [type : {"contents"}, id : Nat, data : Seq(Files \X Nat)]
  \cup [type : {"total"}, id : Nat, size : Nat] \cup [type : {"failed"}, id : Nat]
  \cup [type : {"ask"}, position : Nat, size : Nat]

Transfers == [size : BOOLEAN, file : Files, total : Nat, data : Seq(Files \X Nat)]
Pulls     == [file : HostFiles, data : Seq(HostFiles \X Nat)]

ClipOK ==
  /\ clip \in [n : 0 .. MaxCopies, formats : SUBSET Formats]
  /\ clip.formats # {} => clip.n > 0
OffersOK    == offer \in 0 .. Len(HostSizes) /\ pendingFile \in 0 .. Len(HostSizes)
ToRemoteOK  == toRemote \in Seq(ToRemote) /\ requests \subseteq FileAsks
ToClientOK  == toClient \in Seq(ToClient)
TransfersOK ==
  /\ nextStreamId \in Nat \ {0}
  /\ \A s \in DOMAIN fileTransfers :
       s \in Nat /\ s < nextStreamId /\ fileTransfers[s] \in Transfers
PullOK ==
  /\ pull = << >> \/ \E x \in Pulls : pull = <<x>>
  /\ pull = << >> => Nowhere("pull")
  /\ Alone("pull")
PageOK ==
  /\ pendingFormat \in {"none"} \cup Texts
  /\ cached.n \in 0 .. MaxCopies
  /\ hostClip \in [own : BOOLEAN, n : 0 .. MaxCopies]
  /\ {fileFormat, trapped, toast, retryWrite, retrying} \subseteq BOOLEAN

Typed == /\ ClipOK /\ OffersOK /\ ToRemoteOK /\ ToClientOK /\ TransfersOK /\ PullOK /\ PageOK

LEMMA TypedIsTypeOK == Typed => TypeOK
<1> SUFFICES ASSUME Typed PROVE TypeOK
  OBVIOUS
<1>1. clip.n \in 0 .. MaxCopies /\ clip.formats \subseteq Formats
  BY DEF Typed, ClipOK
<1>2. nextStreamId \in Nat \ {0}
      /\ \A s \in DOMAIN fileTransfers : s < nextStreamId /\ fileTransfers[s].file \in Files
  BY DEF Typed, TransfersOK, Transfers
<1> QED
  BY <1>1, <1>2 DEF Typed, TypeOK, OffersOK, PageOK, Texts

LEMMA ClientFields ==
  ASSUME NEW m \in ToClient
  PROVE  /\ m.type = "copy" => m.formats \in SUBSET Formats
         /\ m.type \in {"data", "filelist"} => m.copy \in 1 .. MaxCopies
         /\ m.type = "contents" => m.id \in Nat /\ m.data \in Seq(Files \X Nat)
         /\ m.type = "total" => m.id \in Nat /\ m.size \in Nat
         /\ m.type = "failed" => m.id \in Nat
         /\ m.type = "ask" => m.position \in Nat /\ m.size \in Nat
BY DEF ToClient

LEMMA RemoteFields ==
  ASSUME NEW m \in ToRemote
  PROVE  /\ m.type = "paste" => m.format \in Formats
         /\ m.type \in {"size", "range"} => m \in FileAsks
         /\ m.type = "offer" => m.file \in HostFiles
         /\ m.type = "given" => m.data \in Seq(HostFiles \X Nat)
BY DEF ToRemote, FileAsks

LEMMA Made ==
  /\ \A f \in Formats : Paste(f) \in ToRemote /\ Error(f) \in ToClient
  /\ \A s \in Nat, i \in Indices, p \in Nat, n \in Nat :
       FileSize(s, i) \in ToRemote /\ FileRange(s, i, p, n) \in ToRemote
  /\ \A h \in HostFiles : FileOffer(h) \in ToRemote
  /\ \A f \in Formats, c \in 1 .. MaxCopies : Data(f, c) \in ToClient /\ FileList(c) \in ToClient
  /\ \A s \in Nat : ContentsError(s) \in ToClient
  /\ \A s \in Nat, n \in Nat : ContentsSize(s, n) \in ToClient
  /\ \A s \in Nat, bs \in Seq(Files \X Nat) : Contents(s, bs) \in ToClient
  /\ \A p \in Nat : AskRange(p) \in ToClient
  /\ \A bs \in Seq(HostFiles \X Nat) : [type |-> "given", data |-> bs] \in ToRemote
  /\ [type |-> "refused"] \in ToRemote
  /\ \A fs \in SUBSET Formats : [type |-> "copy", formats |-> fs] \in ToClient
<1>1. \A f \in Formats : Paste(f) \in ToRemote /\ Error(f) \in ToClient
  BY DEF Paste, Error, ToRemote, ToClient
<1>2. \A s \in Nat, i \in Indices, p \in Nat, n \in Nat :
       FileSize(s, i) \in ToRemote /\ FileRange(s, i, p, n) \in ToRemote
  BY DEF FileSize, FileRange, ToRemote, FileAsks
<1>3. \A h \in HostFiles : FileOffer(h) \in ToRemote
  BY DEF FileOffer, ToRemote
<1>4. \A f \in Formats, c \in 1 .. MaxCopies : Data(f, c) \in ToClient /\ FileList(c) \in ToClient
  BY DEF Data, FileList, ToClient
<1>5. /\ \A s \in Nat : ContentsError(s) \in ToClient
      /\ \A s \in Nat, n \in Nat : ContentsSize(s, n) \in ToClient
      /\ \A s \in Nat, bs \in Seq(Files \X Nat) : Contents(s, bs) \in ToClient
  BY DEF ContentsSize, ContentsError, Contents, ToClient
<1>6. \A p \in Nat : AskRange(p) \in ToClient
  BY CliprdrAssumption DEF AskRange, ToClient
<1>7. /\ \A bs \in Seq(HostFiles \X Nat) : [type |-> "given", data |-> bs] \in ToRemote
      /\ [type |-> "refused"] \in ToRemote
  BY DEF ToRemote
<1>8. \A fs \in SUBSET Formats : [type |-> "copy", formats |-> fs] \in ToClient
  BY DEF ToClient
<1> QED
  BY <1>1, <1>2, <1>3, <1>4, <1>5, <1>6, <1>7, <1>8

LEMMA WantedIs == ASSUME NEW fs PROVE Wanted(fs) \in Texts \cup {"files", "none"}
BY DEF Wanted, Texts

LEMMA WantedIn == ASSUME NEW fs, Wanted(fs) # "none" PROVE Wanted(fs) \in fs
BY DEF Wanted

LEMMA InitTyped == Init => Typed
<1> SUFFICES ASSUME Init PROVE Typed
  OBVIOUS
<1>1. ClipOK /\ OffersOK
  BY CliprdrAssumption DEF Init, ClipOK, OffersOK
<1>2. ToRemoteOK /\ ToClientOK
  BY DEF Init, ToRemoteOK, ToClientOK
<1>3. TransfersOK
  BY DEF Init, TransfersOK
<1>4. PullOK
  BY NoneEmpty DEF Init, PullOK, Nowhere, Alone
<1>5. PageOK
  <2>1. cached.n = 0 /\ hostClip \in [own : BOOLEAN, n : 0 .. MaxCopies] /\ 0 \in 0 .. MaxCopies
    BY CliprdrAssumption DEF Init
  <2>2. {fileFormat, trapped, toast, retryWrite, retrying} \subseteq BOOLEAN
    BY DEF Init
  <2> QED
    BY <2>1, <2>2 DEF Init, PageOK
<1> QED
  BY <1>1, <1>2, <1>3, <1>4, <1>5 DEF Typed

LEMMA ClipStep == Typed /\ [Next]_vars => ClipOK'
<1> SUFFICES ASSUME Typed, [Next]_vars PROVE ClipOK'
  OBVIOUS
<1>1. ASSUME NEW formats \in Copies, RemoteCopies(formats) PROVE ClipOK'
  <2>1. formats \in SUBSET Formats /\ clip.n + 1 \in 0 .. MaxCopies
    BY <1>1, CliprdrAssumption DEF Typed, ClipOK, RemoteCopies
  <2>2. clip' = [n |-> clip.n + 1, formats |-> formats] /\ clip.n + 1 > 0
    BY <1>1, <2>1, CliprdrAssumption DEF RemoteCopies, Typed, ClipOK
  <2> QED
    BY <2>1, <2>2 DEF ClipOK
<1>2. CASE UNCHANGED clip
  BY <1>2 DEF Typed, ClipOK
<1> QED
  BY <1>1, <1>2
     DEF Next, vars, remoteVars, RemoteGivesData, RemoteTakes, RemoteGivesContents, OnRemoteCopy,
         OnFormatData, OnFormatError, OnRemoteFileList, OnFileContents, Download, RetryWrite,
         RetryWritten, HostCopies, HostOffersFile, RemoteTakesOffer, RemotePulls,
         OnFileContentsRequest, RemoteTakesRange, Reconnect

LEMMA OffersStep == Typed /\ [Next]_vars => OffersOK'
<1> SUFFICES ASSUME Typed, [Next]_vars PROVE OffersOK'
  OBVIOUS
<1>0. OffersOK /\ toRemote \in Seq(ToRemote)
  BY DEF Typed, ToRemoteOK
<1>1. ASSUME HostOffersFile PROVE OffersOK'
  BY <1>0, <1>1, CliprdrAssumption DEF HostOffersFile, OffersOK, remoteVars
<1>2. ASSUME RemoteTakesOffer PROVE OffersOK'
  <2>1. Head(toRemote) \in ToRemote /\ Head(toRemote).type = "offer"
    BY <1>0, <1>2, RangeTail DEF RemoteTakesOffer
  <2>2. Head(toRemote).file \in HostFiles
    BY <2>1, RemoteFields
  <2> QED
    BY <1>0, <1>2, <2>2, CliprdrAssumption DEF RemoteTakesOffer, OffersOK, HostFiles, lastingVars
<1>3. ASSUME Reconnect PROVE OffersOK'
  BY <1>0, <1>3, CliprdrAssumption DEF Reconnect, OffersOK, lastingVars
<1>4. CASE UNCHANGED <<offer, pendingFile>>
  BY <1>0, <1>4 DEF OffersOK
<1> QED
  BY <1>1, <1>2, <1>3, <1>4
     DEF Next, vars, remoteVars, lastingVars, RemoteCopies, RemoteGivesData, RemoteTakes,
         RemoteGivesContents, OnRemoteCopy, OnFormatData, OnFormatError, OnRemoteFileList,
         OnFileContents, Download, RetryWrite, RetryWritten, HostCopies, RemotePulls,
         OnFileContentsRequest, RemoteTakesRange

LEMMA HeadTyped ==
  ASSUME Typed
  PROVE  /\ toRemote # << >> => /\ Tail(toRemote) \in Seq(ToRemote) /\ Head(toRemote) \in ToRemote
                              /\ Head(toRemote) \in Range(toRemote)
         /\ toClient # << >> => /\ Tail(toClient) \in Seq(ToClient) /\ Head(toClient) \in ToClient
                              /\ Head(toClient) \in Range(toClient)
<1>1. toRemote \in Seq(ToRemote) /\ toClient \in Seq(ToClient)
  BY DEF Typed, ToRemoteOK, ToClientOK
<1>2. toRemote # << >> => /\ Tail(toRemote) \in Seq(ToRemote) /\ Head(toRemote) \in ToRemote
                          /\ Head(toRemote) \in Range(toRemote)
  BY <1>1, RangeTail
<1>3. toClient # << >> => /\ Tail(toClient) \in Seq(ToClient) /\ Head(toClient) \in ToClient
                          /\ Head(toClient) \in Range(toClient)
  BY <1>1, RangeTail
<1> QED
  BY <1>2, <1>3

LEMMA SendTyped ==
  ASSUME Typed
  PROVE  /\ \A m \in ToRemote : Append(toRemote, m) \in Seq(ToRemote)
         /\ \A m \in ToClient : Append(toClient, m) \in Seq(ToClient)
BY DEF Typed, ToRemoteOK, ToClientOK

LEMMA TailSendTyped ==
  ASSUME Typed
  PROVE  /\ toRemote # << >> => \A m \in ToRemote : Append(Tail(toRemote), m) \in Seq(ToRemote)
         /\ toClient # << >> => \A m \in ToClient : Append(Tail(toClient), m) \in Seq(ToClient)
BY HeadTyped

\* The end of a chunk.
LEMMA ChunkEnd ==
  ASSUME NEW total \in Nat, NEW len \in Nat
  PROVE  LET chunk == Min({total - Min({len, total}), CHUNK_SIZE})
         IN  /\ chunk \in Nat
             /\ len <= total => len + chunk <= total
             /\ chunk = 0 => len >= total
<1>1. CHUNK_SIZE \in Nat /\ CHUNK_SIZE # 0
  BY CliprdrAssumption
<1> DEFINE rest == total - Min({len, total})
           chunk == Min({rest, CHUNK_SIZE})
<1>2. Min({len, total}) = IF len <= total THEN len ELSE total
  BY MinOfTwo
<1>3. rest = IF len <= total THEN total - len ELSE 0
  BY <1>2
<1> HIDE DEF rest
<1>4. rest \in Nat
  BY <1>3
<1>5. chunk = IF rest <= CHUNK_SIZE THEN rest ELSE CHUNK_SIZE
  BY <1>1, <1>4, MinOfTwo
<1> HIDE DEF chunk
<1>6. chunk \in Nat /\ (len <= total => len + chunk <= total) /\ (chunk = 0 => len >= total)
  BY <1>1, <1>3, <1>4, <1>5
<1> QED
  BY <1>6 DEF chunk, rest

\* What becomes of a transfer whose answer came.
LEMMA ContinueTyped ==
  ASSUME Typed, NEW rest, NEW t \in Transfers, NEW total \in Nat, NEW data \in Seq(Files \X Nat),
         Continue(rest, t, total, data), DOMAIN rest \subseteq DOMAIN fileTransfers,
         \A s \in DOMAIN rest : rest[s] = fileTransfers[s]
  PROVE  toRemote' \in Seq(ToRemote) /\ TransfersOK'
<1> DEFINE chunk == Min({total - Min({Len(data), total}), CHUNK_SIZE})
<1>1. Len(data) \in Nat
  OBVIOUS
<1>2. chunk \in Nat
  BY <1>1, ChunkEnd
<1>3. /\ nextStreamId \in Nat \ {0}
      /\ \A s \in DOMAIN rest : s \in Nat /\ s < nextStreamId /\ rest[s] \in Transfers
  BY DEF Typed, TransfersOK
<1>4. t.file \in Files /\ t.file.index \in Indices
  BY DEF Transfers, Files
<1>5. CASE fileTransfers' = rest /\ UNCHANGED <<toRemote, nextStreamId>>
  BY <1>3, <1>5 DEF TransfersOK, Typed, ToRemoteOK
<1> DEFINE new == [size |-> FALSE, file |-> t.file, total |-> total, data |-> data]
<1>6. CASE /\ fileTransfers' = With(rest, nextStreamId, new) /\ nextStreamId' = nextStreamId + 1
           /\ SendToRemote(FileRange(nextStreamId, t.file.index, Len(data), chunk))
  <2>1. new \in Transfers
    BY <1>4 DEF Transfers
  <2> HIDE DEF new, chunk
  <2>2. toRemote' \in Seq(ToRemote)
    BY <1>1, <1>2, <1>3, <1>4, <1>6, Made, SendTyped DEF SendToRemote
  <2>3. /\ DOMAIN fileTransfers' = DOMAIN rest \cup {nextStreamId}
        /\ \A s \in DOMAIN fileTransfers' :
             fileTransfers'[s] = IF s = nextStreamId THEN new ELSE rest[s]
    BY <1>6 DEF With
  <2>4. TransfersOK'
    BY <1>3, <1>6, <2>1, <2>3 DEF TransfersOK
  <2> QED
    BY <2>2, <2>4
<1> QED
  BY <1>5, <1>6 DEF Continue

\* The requests for the sizes of the files of a list.
LEMMA SizeAsks ==
  ASSUME NEW next \in Nat \ {0}
  PROVE  LET asks == [i \in Indices |-> FileSize(next + i - 1, i)]
         IN  /\ asks \in Seq(ToRemote)
             /\ Range(asks) = {FileSize(next + i - 1, i) : i \in Indices}
             /\ \A kind \in {"pull", "list"} : None(asks, kind)
<1> DEFINE asks == [i \in Indices |-> FileSize(next + i - 1, i)]
<1>1. Indices = 1 .. Len(Sizes) /\ Len(Sizes) \in Nat
  BY CliprdrAssumption DEF Indices
<1>2. \A i \in Indices : next + i - 1 \in Nat /\ asks[i] = FileSize(next + i - 1, i)
  BY <1>1
<1>3. \A i \in Indices : asks[i] \in ToRemote
  BY <1>1, <1>2, Made
<1>4. DOMAIN asks = 1 .. Len(Sizes)
  BY <1>1
<1>5. Range(asks) = {FileSize(next + i - 1, i) : i \in Indices}
  BY <1>1, <1>2, <1>4 DEF Range
<1>6. asks = [i \in 1 .. Len(Sizes) |-> asks[i]]
  BY <1>1
<1>7. asks \in Seq(ToRemote) /\ Len(asks) = Len(Sizes)
  <2> HIDE DEF asks
  <2> QED
    BY <1>1, <1>3, <1>4, <1>6
<1>8. \A i \in Indices : Kind(asks[i]) = "other"
  BY <1>2 DEF Kind, FileSize
<1>9. \A kind \in {"pull", "list"} : None(asks, kind)
  <2> HIDE DEF asks
  <2> QED
    BY <1>1, <1>7, <1>8 DEF None
<1> QED
  BY <1>5, <1>7, <1>9

\* What the remote is answered when it asks for a range of our file.
LEMMA GivenTyped ==
  ASSUME Typed, NEW start \in Nat, NEW size \in Nat, pendingFile # 0
  PROVE  LET end == Min({start + size, HostSizes[pendingFile]})
         IN  /\ end \in Nat /\ pendingFile \in HostFiles
             /\ end = IF start + size <= HostSizes[pendingFile] THEN start + size
                      ELSE HostSizes[pendingFile]
             /\ ~(start > end) => [type |-> "given", data |-> Bytes(pendingFile, start, end)] \in ToRemote
<1> DEFINE end == Min({start + size, HostSizes[pendingFile]})
<1>1. pendingFile \in HostFiles /\ HostSizes[pendingFile] \in Nat
  BY CliprdrAssumption DEF Typed, OffersOK, HostFiles
<1>2. end = IF start + size <= HostSizes[pendingFile] THEN start + size ELSE HostSizes[pendingFile]
  BY <1>1, MinOfTwo
<1> HIDE DEF end
<1>3. end \in Nat
  BY <1>1, <1>2
<1>4. ASSUME ~(start > end) PROVE [type |-> "given", data |-> Bytes(pendingFile, start, end)] \in ToRemote
  <2>1. start <= end
    BY <1>3, <1>4
  <2> QED
    BY <1>1, <1>3, <2>1, BytesType, Made
<1> QED
  BY <1>1, <1>2, <1>3, <1>4 DEF end

\* The transfer an answer belongs to, if there is one.
LEMMA AnswerTyped ==
  ASSUME Typed, OnFileContents
  PROVE  LET m == Head(toClient)
             rest == Restrict(fileTransfers, DOMAIN fileTransfers \ {m.id})
             t == fileTransfers[m.id]
         IN  /\ DOMAIN rest = DOMAIN fileTransfers \ {m.id}
             /\ \A s \in DOMAIN rest : rest[s] = fileTransfers[s]
             /\ m.id \in Nat
             /\ m.type = "total" => m.size \in Nat /\ << >> \in Seq(Files \X Nat)
             /\ m.id \in DOMAIN fileTransfers => t \in Transfers
             /\ m.type = "contents" /\ m.id \in DOMAIN fileTransfers
                  => t.total \in Nat /\ t.data \o m.data \in Seq(Files \X Nat)
<1> DEFINE m == Head(toClient)
           rest == Restrict(fileTransfers, DOMAIN fileTransfers \ {m.id})
           t == fileTransfers[m.id]
<1>1. m \in ToClient /\ m.type \in {"contents", "total", "failed"}
  BY HeadTyped DEF OnFileContents
<1>2. m.id \in Nat /\ (m.type = "total" => m.size \in Nat)
      /\ (m.type = "contents" => m.data \in Seq(Files \X Nat))
  BY <1>1, ClientFields
<1>3. DOMAIN rest = DOMAIN fileTransfers \ {m.id} /\ \A s \in DOMAIN rest : rest[s] = fileTransfers[s]
  BY DEF Restrict
<1>4. m.id \in DOMAIN fileTransfers => t \in Transfers
  BY DEF Typed, TransfersOK
<1>5. t \in Transfers => t.total \in Nat /\ t.data \in Seq(Files \X Nat)
  BY DEF Transfers
<1> HIDE DEF m, rest, t
<1>6. m.type = "contents" /\ m.id \in DOMAIN fileTransfers
        => t.total \in Nat /\ t.data \o m.data \in Seq(Files \X Nat)
  BY <1>2, <1>4, <1>5, ConcatProperties
<1>7. << >> \in Seq(Files \X Nat)
  OBVIOUS
<1> QED
  BY <1>2, <1>3, <1>4, <1>6, <1>7 DEF m, rest, t

LEMMA AnswerStep == Typed /\ OnFileContents => toRemote' \in Seq(ToRemote) /\ TransfersOK'
<1> SUFFICES ASSUME Typed, OnFileContents PROVE toRemote' \in Seq(ToRemote) /\ TransfersOK'
  OBVIOUS
<1> DEFINE m == Head(toClient)
           rest == Restrict(fileTransfers, DOMAIN fileTransfers \ {m.id})
           t == fileTransfers[m.id]
<1>1. /\ DOMAIN rest = DOMAIN fileTransfers \ {m.id}
      /\ \A s \in DOMAIN rest : rest[s] = fileTransfers[s]
      /\ m.type = "total" => m.size \in Nat /\ << >> \in Seq(Files \X Nat)
      /\ m.id \in DOMAIN fileTransfers => t \in Transfers
      /\ m.type = "contents" /\ m.id \in DOMAIN fileTransfers
           => t.total \in Nat /\ t.data \o m.data \in Seq(Files \X Nat)
  BY AnswerTyped, Zenon
<1>2. \/ fileTransfers' = rest /\ UNCHANGED <<toRemote, nextStreamId>>
      \/ m.id \in DOMAIN fileTransfers /\ m.type = "total" /\ Continue(rest, t, m.size, << >>)
      \/ m.id \in DOMAIN fileTransfers /\ m.type = "contents" /\ Continue(rest, t, t.total, t.data \o m.data)
  BY DEF OnFileContents
<1>3. DOMAIN rest \subseteq DOMAIN fileTransfers
  BY <1>1
<1> HIDE DEF m, rest, t
<1>4. CASE fileTransfers' = rest /\ UNCHANGED <<toRemote, nextStreamId>>
  BY <1>1, <1>3, <1>4 DEF Typed, TransfersOK, ToRemoteOK
<1>5. CASE m.id \in DOMAIN fileTransfers /\ m.type = "total" /\ Continue(rest, t, m.size, << >>)
  BY <1>1, <1>3, <1>5, ContinueTyped
<1>6. CASE m.id \in DOMAIN fileTransfers /\ m.type = "contents" /\ Continue(rest, t, t.total, t.data \o m.data)
  BY <1>1, <1>3, <1>6, ContinueTyped
<1> QED
  BY <1>2, <1>4, <1>5, <1>6

LEMMA ToRemoteStep == Typed /\ [Next]_vars => ToRemoteOK'
<1> SUFFICES ASSUME Typed, [Next]_vars PROVE ToRemoteOK'
  OBVIOUS
<1>0. toRemote \in Seq(ToRemote) /\ requests \subseteq FileAsks
  BY DEF Typed, ToRemoteOK
<1>1. CASE UNCHANGED <<toRemote, requests>>
  BY <1>0, <1>1 DEF ToRemoteOK
<1>2. ASSUME RemoteGivesData \/ RemoteTakesOffer \/ RemoteTakesRange PROVE ToRemoteOK'
  <2>1. toRemote' = Tail(toRemote) /\ toRemote # << >> /\ UNCHANGED requests
    BY <1>2 DEF RemoteGivesData, RemoteTakesOffer, RemoteTakesRange, remoteVars
  <2> QED
    BY <1>0, <2>1, HeadTyped DEF ToRemoteOK
<1>3. ASSUME RemoteTakes PROVE ToRemoteOK'
  <2>1. toRemote' = Tail(toRemote) /\ toRemote # << >> /\ Head(toRemote).type \in {"size", "range"}
        /\ requests' = requests \cup {Head(toRemote)}
    BY <1>3 DEF RemoteTakes
  <2> QED
    BY <1>0, <2>1, HeadTyped, RemoteFields DEF ToRemoteOK
<1>4. ASSUME NEW r \in requests, RemoteGivesContents(r) PROVE ToRemoteOK'
  BY <1>0, <1>4 DEF RemoteGivesContents, ToRemoteOK
<1>5. ASSUME OnRemoteCopy PROVE ToRemoteOK'
  <2> DEFINE want == Wanted(Head(toClient).formats)
  <2>1. UNCHANGED requests /\ (UNCHANGED toRemote \/ (want \in Texts /\ SendToRemote(Paste(want))))
    BY <1>5 DEF OnRemoteCopy, remoteVars, Texts
  <2> HIDE DEF want
  <2>2. Texts \subseteq Formats
    BY DEF Texts, Formats
  <2> QED
    BY <1>0, <2>1, <2>2, Made, SendTyped DEF SendToRemote, ToRemoteOK
<1>6. ASSUME Download PROVE ToRemoteOK'
  <2>1. "files" \in Formats
    BY DEF Formats
  <2> QED
    BY <1>0, <1>6, <2>1, Made, SendTyped DEF Download, SendToRemote, ToRemoteOK, remoteVars
<1>7. ASSUME OnRemoteFileList PROVE ToRemoteOK'
  <2>1. UNCHANGED requests
        /\ toRemote' = toRemote \o [i \in Indices |-> FileSize(nextStreamId + i - 1, i)]
    BY <1>7 DEF OnRemoteFileList, remoteVars
  <2>2. [i \in Indices |-> FileSize(nextStreamId + i - 1, i)] \in Seq(ToRemote)
    BY SizeAsks DEF Typed, TransfersOK
  <2> QED
    BY <1>0, <2>1, <2>2, RangeConcat DEF ToRemoteOK
<1>8. ASSUME OnFileContents PROVE ToRemoteOK'
  <2>1. UNCHANGED requests
    BY <1>8 DEF OnFileContents, remoteVars
  <2> QED
    BY <1>0, <1>8, <2>1, AnswerStep DEF ToRemoteOK
<1>9. ASSUME HostOffersFile PROVE ToRemoteOK'
  <2>1. UNCHANGED requests /\ toRemote' = Append(toRemote, FileOffer(pendingFile + 1))
        /\ pendingFile < Len(HostSizes)
    BY <1>9 DEF HostOffersFile, remoteVars, SendToRemote, FileOffer
  <2>2. pendingFile + 1 \in HostFiles
    BY <2>1, CliprdrAssumption DEF Typed, OffersOK, HostFiles
  <2> QED
    BY <1>0, <2>1, <2>2, Made, SendTyped DEF ToRemoteOK
<1>10. ASSUME OnFileContentsRequest PROVE ToRemoteOK'
  <2> DEFINE m == Head(toClient)
             end == Min({m.position + m.size, HostSizes[pendingFile]})
  <2>1. m \in ToClient /\ m.type = "ask"
    BY <1>10, HeadTyped DEF OnFileContentsRequest
  <2>2. m.position \in Nat /\ m.size \in Nat
    BY <2>1, ClientFields
  <2>3. UNCHANGED requests
        /\ (\/ UNCHANGED toRemote
            \/ SendToRemote([type |-> "refused"])
            \/ /\ pendingFile # 0 /\ ~(m.position > end)
               /\ SendToRemote([type |-> "given", data |-> Bytes(pendingFile, m.position, end)]))
    BY <1>10 DEF OnFileContentsRequest, remoteVars
  <2> HIDE DEF m
  <2>4. pendingFile # 0 /\ ~(m.position > end)
          => [type |-> "given", data |-> Bytes(pendingFile, m.position, end)] \in ToRemote
    BY <2>2, GivenTyped
  <2> HIDE DEF end
  <2> QED
    BY <1>0, <2>3, <2>4, Made, SendTyped DEF SendToRemote, ToRemoteOK
<1>11. ASSUME Reconnect PROVE ToRemoteOK'
  BY <1>11 DEF Reconnect, ToRemoteOK
<1> QED
  BY <1>1, <1>2, <1>3, <1>4, <1>5, <1>6, <1>7, <1>8, <1>9, <1>10, <1>11
     DEF Next, vars, remoteVars, RemoteCopies, OnFormatData, OnFormatError, RetryWrite,
         RetryWritten, HostCopies, RemotePulls

\* What the remote answers to a FileContents request.
LEMMA ContentsGiven ==
  ASSUME Typed, NEW r \in requests, RemoteGivesContents(r)
  PROVE  \E m \in ToClient :
           /\ toClient' = Append(toClient, m)
           /\ m.id = r.id
           /\ \/ m.type = "failed"
              \/ m.type = "total" /\ r.type = "size" /\ m.size = Sizes[r.index]
              \/ /\ m.type = "contents" /\ r.type = "range"
                 /\ \/ m.data = << >> /\ r.position >= Sizes[r.index]
                    \/ \E to \in Nat : /\ r.position < to /\ to <= r.position + r.size
                                       /\ to <= Sizes[r.index]
                                       /\ m.data = Bytes(File(clip.n, r.index), r.position, to)
<1>1. /\ r.id \in Nat /\ r.index \in Indices /\ r.position \in Nat /\ r.size \in Nat
      /\ Sizes[r.index] \in Nat
  <2>1. r \in FileAsks
    BY DEF Typed, ToRemoteOK
  <2>2. r.id \in Nat /\ r.index \in Indices /\ r.position \in Nat /\ r.size \in Nat
    BY <2>1 DEF FileAsks
  <2> QED
    BY <2>2, CliprdrAssumption DEF Indices
<1>2. CASE SendToClient(ContentsError(r.id))
  <2>1. /\ ContentsError(r.id) \in ToClient /\ ContentsError(r.id).id = r.id
        /\ ContentsError(r.id).type = "failed"
    BY <1>1, Made DEF ContentsError
  <2> QED
    BY <1>2, <2>1 DEF SendToClient
<1>3. CASE r.type = "size" /\ SendToClient(ContentsSize(r.id, Sizes[r.index]))
  <2> DEFINE m == ContentsSize(r.id, Sizes[r.index])
  <2>1. m \in ToClient /\ m.id = r.id /\ m.type = "total" /\ m.size = Sizes[r.index]
    BY <1>1, Made DEF ContentsSize
  <2> QED
    BY <1>3, <2>1 DEF SendToClient
<1>4. ASSUME "files" \in clip.formats, r.type = "range", r.position < Sizes[r.index],
             NEW to \in r.position + 1 .. Min({r.position + r.size, Sizes[r.index]}),
             SendToClient(Contents(r.id, Bytes(File(clip.n, r.index), r.position, to)))
      PROVE  \E m \in ToClient :
               /\ toClient' = Append(toClient, m)
               /\ m.id = r.id /\ m.type = "contents"
               /\ \E to2 \in Nat : /\ r.position < to2 /\ to2 <= r.position + r.size
                                   /\ to2 <= Sizes[r.index]
                                   /\ m.data = Bytes(File(clip.n, r.index), r.position, to2)
  <2> DEFINE bs == Bytes(File(clip.n, r.index), r.position, to)
             m == Contents(r.id, bs)
  <2>1. Min({r.position + r.size, Sizes[r.index]}) \in Nat
        /\ Min({r.position + r.size, Sizes[r.index]}) <= r.position + r.size
        /\ Min({r.position + r.size, Sizes[r.index]}) <= Sizes[r.index]
    BY <1>1, MinOfTwo
  <2>2. to \in Nat /\ r.position < to /\ to <= r.position + r.size /\ to <= Sizes[r.index]
    BY <1>1, <2>1
  <2>3. clip.n \in 1 .. MaxCopies
    BY <1>4, CliprdrAssumption DEF Typed, ClipOK
  <2>4. File(clip.n, r.index) \in Files
    BY <1>1, <2>3 DEF File, Files
  <2>5. bs \in Seq(Files \X Nat)
    BY <1>1, <2>2, <2>4, BytesType
  <2> HIDE DEF bs
  <2>6. m \in ToClient /\ m.id = r.id /\ m.type = "contents" /\ m.data = bs
    BY <1>1, <2>5, Made DEF Contents
  <2> HIDE DEF m
  <2>7. toClient' = Append(toClient, m)
    BY <1>4 DEF SendToClient, m, bs
  <2> QED
    BY <2>2, <2>6, <2>7 DEF bs
<1>5. CASE r.type = "range" /\ r.position >= Sizes[r.index] /\ SendToClient(Contents(r.id, << >>))
  <2> DEFINE m == Contents(r.id, << >>)
  <2>1. << >> \in Seq(Files \X Nat)
    OBVIOUS
  <2>2. m \in ToClient /\ m.id = r.id /\ m.type = "contents" /\ m.data = << >>
    BY <1>1, <2>1, Made DEF Contents
  <2> QED
    BY <1>5, <2>2 DEF SendToClient
<1>6. \/ SendToClient(ContentsError(r.id))
      \/ r.type = "size" /\ SendToClient(ContentsSize(r.id, Sizes[r.index]))
      \/ /\ "files" \in clip.formats /\ r.type = "range" /\ r.position < Sizes[r.index]
         /\ \E to \in r.position + 1 .. Min({r.position + r.size, Sizes[r.index]}) :
              SendToClient(Contents(r.id, Bytes(File(clip.n, r.index), r.position, to)))
      \/ r.type = "range" /\ r.position >= Sizes[r.index] /\ SendToClient(Contents(r.id, << >>))
  BY DEF RemoteGivesContents
<1>7. CASE /\ "files" \in clip.formats /\ r.type = "range" /\ r.position < Sizes[r.index]
           /\ \E to \in r.position + 1 .. Min({r.position + r.size, Sizes[r.index]}) :
                SendToClient(Contents(r.id, Bytes(File(clip.n, r.index), r.position, to)))
  <2>1. PICK to \in r.position + 1 .. Min({r.position + r.size, Sizes[r.index]}) :
          SendToClient(Contents(r.id, Bytes(File(clip.n, r.index), r.position, to)))
    BY <1>7
  <2> QED
    BY <1>4, <1>7, <2>1
<1> QED
  BY <1>2, <1>3, <1>5, <1>6, <1>7

\* What the remote answers to a FormatData request.
LEMMA DataGiven ==
  ASSUME Typed, RemoteGivesData
  PROVE  LET f == Head(toRemote).format
             m == IF f \notin clip.formats THEN Error(f)
                  ELSE IF f = "files" THEN FileList(clip.n) ELSE Data(f, clip.n)
         IN  f \in Formats /\ m \in ToClient /\ toClient' = Append(toClient, m)
             /\ (f \in clip.formats => clip.n \in 1 .. MaxCopies)
<1> DEFINE f == Head(toRemote).format
           m == IF f \notin clip.formats THEN Error(f)
                ELSE IF f = "files" THEN FileList(clip.n) ELSE Data(f, clip.n)
<1>1. f \in Formats
  BY HeadTyped, RemoteFields DEF RemoteGivesData
<1>2. f \in clip.formats => clip.n \in 1 .. MaxCopies
  BY CliprdrAssumption DEF Typed, ClipOK
<1>3. toClient' = Append(toClient, m)
  BY DEF RemoteGivesData, SendToClient
<1>4. m \in ToClient
  BY <1>1, <1>2, Made
<1> QED
  BY <1>1, <1>2, <1>3, <1>4

\* The answer of our file: a paste goes on, ends or is given up.
LEMMA RangeTaken ==
  ASSUME Typed, RemoteTakesRange
  PROVE  LET m == Head(toRemote)
             data == pull[1].data \o m.data
         IN  /\ toRemote # << >> /\ m \in ToRemote /\ Kind(m) = "pull" /\ m.type \in {"given", "refused"}
             /\ pull # << >> /\ pull[1] \in Pulls /\ pull = <<pull[1]>>
             /\ m.type = "given" => data \in Seq(HostFiles \X Nat) /\ Len(data) \in Nat
<1> DEFINE m == Head(toRemote)
           data == pull[1].data \o m.data
<1>1. toRemote # << >> /\ m \in ToRemote /\ m.type \in {"given", "refused"}
  BY HeadTyped DEF RemoteTakesRange
<1>2. Kind(m) = "pull"
  BY <1>1 DEF Kind
<1>3. pull # << >>
  <2>1. ~None(toRemote, "pull")
    BY <1>1, <1>2, NoneTail DEF Typed, ToRemoteOK
  <2> QED
    BY <2>1 DEF Typed, PullOK, Nowhere
<1>4. PICK x \in Pulls : pull = <<x>>
  BY <1>3 DEF Typed, PullOK
<1>5. pull[1] = x
  BY <1>4
<1>6. x.data \in Seq(HostFiles \X Nat)
  BY DEF Pulls
<1>7. m.type = "given" => m.data \in Seq(HostFiles \X Nat)
  BY <1>1, RemoteFields
<1> HIDE DEF m
<1>8. m.type = "given" => data \in Seq(HostFiles \X Nat)
  BY <1>5, <1>6, <1>7, ConcatProperties
<1> HIDE DEF data
<1>9. m.type = "given" => Len(data) \in Nat
  BY <1>8
<1> QED
  BY <1>1, <1>2, <1>3, <1>4, <1>5, <1>8, <1>9 DEF m, data

LEMMA ToClientStep == Typed /\ [Next]_vars => ToClientOK'
<1> SUFFICES ASSUME Typed, [Next]_vars PROVE ToClientOK'
  OBVIOUS
<1>0. toClient \in Seq(ToClient)
  BY DEF Typed, ToClientOK
<1>1. CASE UNCHANGED toClient
  BY <1>0, <1>1 DEF ToClientOK
<1>2. ASSUME OnRemoteCopy \/ OnFormatData \/ OnFormatError \/ OnRemoteFileList \/ OnFileContents
             \/ OnFileContentsRequest
      PROVE  ToClientOK'
  <2>1. toClient' = Tail(toClient) /\ toClient # << >>
    BY <1>2 DEF OnRemoteCopy, OnFormatData, OnFormatError, OnRemoteFileList, OnFileContents,
                OnFileContentsRequest
  <2> QED
    BY <2>1, HeadTyped DEF ToClientOK
<1>3. ASSUME NEW formats \in Copies, RemoteCopies(formats) PROVE ToClientOK'
  <2>1. toClient' = Append(toClient, [type |-> "copy", formats |-> formats])
    BY <1>3 DEF RemoteCopies, SendToClient, RemoteCopy
  <2>2. formats \in SUBSET Formats
    BY CliprdrAssumption
  <2> QED
    BY <2>1, <2>2, Made, SendTyped DEF ToClientOK
<1>4. ASSUME RemoteGivesData PROVE ToClientOK'
  BY <1>4, DataGiven, SendTyped DEF ToClientOK
<1>5. ASSUME NEW r \in requests, RemoteGivesContents(r) PROVE ToClientOK'
  BY <1>5, ContentsGiven, SendTyped DEF ToClientOK
<1>6. ASSUME RemotePulls PROVE ToClientOK'
  <2>1. toClient' = Append(toClient, AskRange(0))
    BY <1>6 DEF RemotePulls, SendToClient
  <2> QED
    BY <2>1, Made, SendTyped DEF ToClientOK
<1>7. ASSUME RemoteTakesRange PROVE ToClientOK'
  <2> DEFINE data == pull[1].data \o Head(toRemote).data
  <2>1. \/ UNCHANGED toClient
        \/ Head(toRemote).type = "given" /\ toClient' = Append(toClient, AskRange(Len(data)))
    BY <1>7 DEF RemoteTakesRange, SendToClient
  <2>2. Head(toRemote).type = "given" => Len(data) \in Nat
    BY <1>7, RangeTaken
  <2> HIDE DEF data
  <2> QED
    BY <1>0, <2>1, <2>2, Made, SendTyped DEF ToClientOK
<1>8. ASSUME Reconnect PROVE ToClientOK'
  <2>1. toClient' = << >> \/ toClient' = <<[type |-> "copy", formats |-> clip'.formats]>>
    BY <1>8 DEF Reconnect, RemoteCopy
  <2>2. clip' = clip /\ clip.formats \in SUBSET Formats
    BY <1>8 DEF Reconnect, Typed, ClipOK
  <2>3. [type |-> "copy", formats |-> clip'.formats] \in ToClient
    BY <2>2, Made
  <2>4. << >> \in Seq(ToClient)
    OBVIOUS
  <2>5. \A m \in ToClient : <<m>> \in Seq(ToClient)
    OBVIOUS
  <2>6. <<[type |-> "copy", formats |-> clip'.formats]>> \in Seq(ToClient)
    BY <2>3, <2>5, Zenon
  <2> QED
    BY <2>1, <2>4, <2>6 DEF ToClientOK
<1> QED
  BY <1>1, <1>2, <1>3, <1>4, <1>5, <1>6, <1>7, <1>8
     DEF Next, vars, RemoteTakes, Download, RetryWrite, RetryWritten, HostCopies, HostOffersFile,
         RemoteTakesOffer

LEMMA TransfersStep == Typed /\ [Next]_vars => TransfersOK'
<1> SUFFICES ASSUME Typed, [Next]_vars PROVE TransfersOK'
  OBVIOUS
<1>0. TransfersOK
  BY DEF Typed
<1>1. CASE UNCHANGED <<nextStreamId, fileTransfers>>
  BY <1>0, <1>1 DEF TransfersOK
<1>2. ASSUME OnFileContents PROVE TransfersOK'
  BY <1>2, AnswerStep
<1>3. ASSUME OnRemoteFileList PROVE TransfersOK'
  <2> DEFINE c == Head(toClient).copy
             next == nextStreamId + Len(Sizes)
             New(s) == [size |-> TRUE, file |-> File(c, s - nextStreamId + 1), total |-> 0, data |-> << >>]
  <2>1. /\ fileTransfers' = [s \in DOMAIN fileTransfers \cup (nextStreamId .. next - 1) |->
                               IF s \in nextStreamId .. next - 1 THEN New(s) ELSE fileTransfers[s]]
        /\ nextStreamId' = next
    BY <1>3 DEF OnRemoteFileList
  <2>2. c \in 1 .. MaxCopies
    BY <1>3, HeadTyped, ClientFields DEF OnRemoteFileList
  <2>3. Indices = 1 .. Len(Sizes) /\ Len(Sizes) \in Nat
    BY CliprdrAssumption DEF Indices
  <2>4. nextStreamId \in Nat \ {0} /\ next \in Nat \ {0} /\ nextStreamId <= next
    BY <1>0, <2>3 DEF TransfersOK
  <2>5. ASSUME NEW s \in nextStreamId .. next - 1 PROVE New(s) \in Transfers /\ s \in Nat /\ s < next
    <3>1. s \in Nat /\ s < next /\ s - nextStreamId + 1 \in Indices
      BY <2>3, <2>4
    <3>2. File(c, s - nextStreamId + 1) \in Files /\ << >> \in Seq(Files \X Nat)
      BY <2>2, <3>1 DEF File, Files
    <3> QED
      BY <3>1, <3>2 DEF Transfers
  <2> HIDE DEF New
  <2>6. \A s \in DOMAIN fileTransfers : s \in Nat /\ s < next /\ fileTransfers[s] \in Transfers
    BY <1>0, <2>4 DEF TransfersOK
  <2> HIDE DEF next
  <2>7. DOMAIN fileTransfers' = DOMAIN fileTransfers \cup (nextStreamId .. next - 1)
        /\ \A s \in DOMAIN fileTransfers' :
             fileTransfers'[s] = IF s \in nextStreamId .. next - 1 THEN New(s) ELSE fileTransfers[s]
    BY <2>1
  <2> QED
    BY <2>1, <2>4, <2>5, <2>6, <2>7 DEF TransfersOK
<1>4. ASSUME Reconnect PROVE TransfersOK'
  BY <1>4 DEF Reconnect, TransfersOK
<1> QED
  BY <1>1, <1>2, <1>3, <1>4
     DEF Next, vars, backendVars, RemoteCopies, RemoteGivesData, RemoteTakes, RemoteGivesContents,
         OnRemoteCopy, OnFormatData, OnFormatError, Download, RetryWrite, RetryWritten, HostCopies,
         HostOffersFile, RemoteTakesOffer, RemotePulls, OnFileContentsRequest, RemoteTakesRange

Keeps(q, r, kind) == (None(q, kind) => None(r, kind)) /\ (One(q, kind) => One(r, kind))

LEMMA KeepsSame == ASSUME NEW q, NEW kind PROVE Keeps(q, q, kind)
BY DEF Keeps

LEMMA KeepsTail ==
  ASSUME NEW T, NEW q \in Seq(T), q # << >>, NEW kind PROVE Keeps(q, Tail(q), kind)
BY NoneTail DEF Keeps

LEMMA KeepsAppend ==
  ASSUME NEW T, NEW q \in Seq(T), NEW m \in T, NEW kind, Kind(m) # kind
  PROVE  Keeps(q, Append(q, m), kind)
BY NoneAppend, OneAppend DEF Keeps

LEMMA AloneKept ==
  ASSUME NEW kind, Keeps(toRemote, toRemote', kind), Keeps(toClient, toClient', kind)
  PROVE  (Nowhere(kind) => Nowhere(kind)') /\ (Alone(kind) => Alone(kind)')
<1>1. Nowhere(kind) => None(toRemote', kind) /\ None(toClient', kind)
  BY DEF Nowhere, Keeps
<1>2. Alone(kind) => /\ One(toRemote', kind) /\ One(toClient', kind)
                     /\ None(toRemote', kind) \/ None(toClient', kind)
  BY DEF Alone, Keeps
<1> QED
  BY <1>1, <1>2 DEF Nowhere, Alone, None, One

\* Both queues after a step, with the primes on the queues.
LEMMA NowhereNow ==
  ASSUME NEW kind
  PROVE  /\ Nowhere(kind)' <=> None(toRemote', kind) /\ None(toClient', kind)
         /\ Alone(kind)' <=> /\ One(toRemote', kind) /\ One(toClient', kind)
                             /\ None(toRemote', kind) \/ None(toClient', kind)
BY DEF Nowhere, Alone, None, One

LEMMA KindOf ==
  /\ \A f : /\ Kind(Paste(f)) = IF f = "files" THEN "list" ELSE "other"
            /\ Kind(Error(f)) = "other"
  /\ \A f, c : Kind(Data(f, c)) = "other" /\ Kind(FileList(c)) = "list"
  /\ \A s, i, p, n : Kind(FileRange(s, i, p, n)) = "other"
  /\ \A h : Kind(FileOffer(h)) = "other"
  /\ \A p : Kind(AskRange(p)) = "pull"
  /\ \A bs : Kind([type |-> "given", data |-> bs]) = "pull"
  /\ Kind([type |-> "refused"]) = "pull"
  /\ \A fs : Kind([type |-> "copy", formats |-> fs]) = "other"
  /\ \A m : m.type \in {"contents", "total", "failed"} => Kind(m) = "other"
<1>1. \A f : /\ Kind(Paste(f)) = IF f = "files" THEN "list" ELSE "other"
             /\ Kind(Error(f)) = "other"
  BY DEF Kind, Paste, Error
<1>2. \A f, c : Kind(Data(f, c)) = "other" /\ Kind(FileList(c)) = "list"
  BY DEF Kind, Data, FileList
<1>3. \A s, i, p, n : Kind(FileRange(s, i, p, n)) = "other"
  BY DEF Kind, FileRange
<1>4. \A h : Kind(FileOffer(h)) = "other"
  BY DEF Kind, FileOffer
<1>5. \A p : Kind(AskRange(p)) = "pull"
  BY DEF Kind, AskRange
<1>6. /\ \A bs : Kind([type |-> "given", data |-> bs]) = "pull"
      /\ Kind([type |-> "refused"]) = "pull"
      /\ \A fs : Kind([type |-> "copy", formats |-> fs]) = "other"
      /\ \A m : m.type \in {"contents", "total", "failed"} => Kind(m) = "other"
  BY DEF Kind
<1> QED
  BY <1>1, <1>2, <1>3, <1>4, <1>5, <1>6

\* Which steps disturb which conversation.
LEMMA QueuesKeep ==
  ASSUME Typed, [Next]_vars, NEW kind \in {"pull", "list"}
  PROVE  \/ Keeps(toRemote, toRemote', kind) /\ Keeps(toClient, toClient', kind)
         \/ Reconnect
         \/ kind = "pull" /\ (RemotePulls \/ OnFileContentsRequest \/ RemoteTakesRange)
         \/ kind = "list" /\ (Download \/ RemoteGivesData)
<1> DEFINE Kept == Keeps(toRemote, toRemote', kind) /\ Keeps(toClient, toClient', kind)
<1>0. toRemote \in Seq(ToRemote) /\ toClient \in Seq(ToClient) /\ nextStreamId \in Nat \ {0}
  BY DEF Typed, ToRemoteOK, ToClientOK, TransfersOK
<1>1. toRemote' = toRemote => Keeps(toRemote, toRemote', kind)
  BY KeepsSame
<1>2. toClient' = toClient => Keeps(toClient, toClient', kind)
  BY KeepsSame
<1>3. toRemote # << >> /\ toRemote' = Tail(toRemote) => Keeps(toRemote, toRemote', kind)
  BY <1>0, KeepsTail
<1>4. toClient # << >> /\ toClient' = Tail(toClient) => Keeps(toClient, toClient', kind)
  BY <1>0, KeepsTail
<1>5. \A m \in ToRemote : toRemote' = Append(toRemote, m) /\ Kind(m) # kind
        => Keeps(toRemote, toRemote', kind)
  BY <1>0, KeepsAppend
<1>6. \A m \in ToClient : toClient' = Append(toClient, m) /\ Kind(m) # kind
        => Keeps(toClient, toClient', kind)
  BY <1>0, KeepsAppend
<1>7. CASE UNCHANGED <<toRemote, toClient>>
  BY <1>1, <1>2, <1>7
<1>8. ASSUME NEW formats \in Copies, RemoteCopies(formats) PROVE Kept
  <2> DEFINE m == [type |-> "copy", formats |-> formats]
  <2>1. m \in ToClient /\ Kind(m) = "other"
    BY Made, KindOf, CliprdrAssumption
  <2>2. toClient' = Append(toClient, m) /\ UNCHANGED toRemote
    BY <1>8 DEF RemoteCopies, SendToClient, RemoteCopy
  <2> HIDE DEF m
  <2> QED
    BY <1>1, <1>6, <2>1, <2>2
<1>9. ASSUME RemoteGivesData, kind = "pull" PROVE Kept
  <2>1. toRemote # << >> /\ toRemote' = Tail(toRemote)
    BY <1>9 DEF RemoteGivesData
  <2> DEFINE f == Head(toRemote).format
             m == IF f \notin clip.formats THEN Error(f)
                  ELSE IF f = "files" THEN FileList(clip.n) ELSE Data(f, clip.n)
  <2>2. m \in ToClient /\ toClient' = Append(toClient, m)
    BY <1>9, DataGiven
  <2>3. Kind(m) # "pull"
    BY KindOf
  <2> HIDE DEF m
  <2> QED
    BY <1>3, <1>6, <1>9, <2>1, <2>2, <2>3
<1>10. ASSUME RemoteTakes \/ RemoteTakesOffer PROVE Kept
  <2>1. toRemote # << >> /\ toRemote' = Tail(toRemote) /\ UNCHANGED toClient
    BY <1>10 DEF RemoteTakes, RemoteTakesOffer
  <2> QED
    BY <1>2, <1>3, <2>1
<1>11. ASSUME NEW r \in requests, RemoteGivesContents(r) PROVE Kept
  <2>1. PICK m \in ToClient : toClient' = Append(toClient, m) /\ m.type \in {"failed", "total", "contents"}
    BY <1>11, ContentsGiven
  <2>2. Kind(m) = "other"
    BY <2>1, KindOf
  <2>3. UNCHANGED toRemote
    BY <1>11 DEF RemoteGivesContents
  <2> QED
    BY <1>1, <1>6, <2>1, <2>2, <2>3
<1>12. ASSUME OnRemoteCopy PROVE Kept
  <2> DEFINE want == Wanted(Head(toClient).formats)
  <2>1. toClient # << >> /\ toClient' = Tail(toClient)
        /\ (UNCHANGED toRemote \/ (want \in Texts /\ toRemote' = Append(toRemote, Paste(want))))
    BY <1>12 DEF OnRemoteCopy, Texts, SendToRemote
  <2> HIDE DEF want
  <2>2. want \in Texts => Paste(want) \in ToRemote /\ Kind(Paste(want)) = "other"
    BY Made, KindOf DEF Texts, Formats
  <2>3. Keeps(toRemote, toRemote', kind)
    BY <1>1, <1>5, <2>1, <2>2
  <2> QED
    BY <1>4, <2>1, <2>3
<1>13. ASSUME OnFormatData \/ OnFormatError PROVE Kept
  <2>1. toClient # << >> /\ toClient' = Tail(toClient) /\ UNCHANGED toRemote
    BY <1>13 DEF OnFormatData, OnFormatError
  <2> QED
    BY <1>1, <1>4, <2>1
<1>14. ASSUME OnRemoteFileList PROVE Kept
  <2> DEFINE asks == [i \in Indices |-> FileSize(nextStreamId + i - 1, i)]
  <2>1. toClient # << >> /\ toClient' = Tail(toClient) /\ toRemote' = toRemote \o asks
    BY <1>14 DEF OnRemoteFileList
  <2>2. asks \in Seq(ToRemote) /\ None(asks, kind)
    BY <1>0, SizeAsks
  <2> HIDE DEF asks
  <2>3. Keeps(toRemote, toRemote', kind)
    BY <1>0, <2>1, <2>2, NoneConcat DEF Keeps
  <2> QED
    BY <1>4, <2>1, <2>3
<1>15. ASSUME OnFileContents PROVE Kept
  <2>1. toClient # << >> /\ toClient' = Tail(toClient)
    BY <1>15 DEF OnFileContents
  <2>2. UNCHANGED toRemote \/ \E i, p, n : toRemote' = Append(toRemote, FileRange(nextStreamId, i, p, n))
    <3> DEFINE m == Head(toClient)
               rest == Restrict(fileTransfers, DOMAIN fileTransfers \ {m.id})
               t == fileTransfers[m.id]
    <3>1. \/ UNCHANGED toRemote
          \/ Continue(rest, t, m.size, << >>)
          \/ Continue(rest, t, t.total, t.data \o m.data)
      BY <1>15 DEF OnFileContents
    <3> HIDE DEF m, rest, t
    <3>2. ASSUME NEW total, NEW data, Continue(rest, t, total, data)
          PROVE  \/ UNCHANGED toRemote
                 \/ \E i, p, n : toRemote' = Append(toRemote, FileRange(nextStreamId, i, p, n))
      BY <3>2 DEF Continue, SendToRemote
    <3> QED
      BY <3>1, <3>2
  <2>3. toRemote' \in Seq(ToRemote)
    BY <1>15, AnswerStep
  <2>4. ASSUME NEW i, NEW p, NEW n, toRemote' = Append(toRemote, FileRange(nextStreamId, i, p, n))
        PROVE  Keeps(toRemote, toRemote', kind)
    <3> DEFINE m == FileRange(nextStreamId, i, p, n)
    <3>1. Kind(m) = "other"
      BY KindOf
    <3> HIDE DEF m
    <3>2. toRemote \in Seq(ToRemote \cup {m}) /\ m \in ToRemote \cup {m}
      BY <1>0
    <3> QED
      BY <2>4, <3>1, <3>2, KeepsAppend DEF m
  <2> QED
    BY <1>1, <1>4, <2>1, <2>2, <2>4
<1>16. ASSUME Download, kind = "pull" PROVE Kept
  <2>1. UNCHANGED toClient /\ (UNCHANGED toRemote \/ toRemote' = Append(toRemote, Paste("files")))
    BY <1>16 DEF Download, SendToRemote
  <2>2. Paste("files") \in ToRemote /\ Kind(Paste("files")) = "list"
    BY Made, KindOf DEF Formats
  <2> QED
    BY <1>1, <1>2, <1>5, <1>16, <2>1, <2>2
<1>17. ASSUME HostOffersFile PROVE Kept
  <2>1. UNCHANGED toClient /\ toRemote' = Append(toRemote, FileOffer(pendingFile + 1))
        /\ pendingFile < Len(HostSizes)
    BY <1>17 DEF HostOffersFile, SendToRemote, FileOffer
  <2>2. pendingFile + 1 \in HostFiles
    BY <2>1, CliprdrAssumption DEF Typed, OffersOK, HostFiles
  <2> QED
    BY <1>2, <1>5, <2>1, <2>2, Made, KindOf
<1>18. ASSUME RemotePulls, kind = "list" PROVE Kept
  <2>1. UNCHANGED toRemote /\ toClient' = Append(toClient, AskRange(0))
    BY <1>18 DEF RemotePulls, SendToClient
  <2> QED
    BY <1>1, <1>6, <1>18, <2>1, Made, KindOf
<1>19. ASSUME OnFileContentsRequest, kind = "list" PROVE Kept
  <2>1. toClient # << >> /\ toClient' = Tail(toClient)
    BY <1>19 DEF OnFileContentsRequest
  <2>2. \/ UNCHANGED toRemote
        \/ toRemote' = Append(toRemote, [type |-> "refused"])
        \/ \E bs : toRemote' = Append(toRemote, [type |-> "given", data |-> bs])
    BY <1>19 DEF OnFileContentsRequest, SendToRemote
  <2>3. ASSUME NEW m, Kind(m) = "pull", toRemote' = Append(toRemote, m) PROVE Keeps(toRemote, toRemote', kind)
    <3>1. toRemote \in Seq(ToRemote \cup {m}) /\ m \in ToRemote \cup {m}
      BY <1>0
    <3> QED
      BY <1>19, <2>3, <3>1, KeepsAppend
  <2> QED
    BY <1>1, <1>4, <2>1, <2>2, <2>3, KindOf
<1>20. ASSUME RemoteTakesRange, kind = "list" PROVE Kept
  <2> DEFINE data == pull[1].data \o Head(toRemote).data
  <2>1. toRemote # << >> /\ toRemote' = Tail(toRemote)
        /\ \/ UNCHANGED toClient
           \/ Head(toRemote).type = "given" /\ toClient' = Append(toClient, AskRange(Len(data)))
    BY <1>20 DEF RemoteTakesRange, SendToClient
  <2>2. Head(toRemote).type = "given" => Len(data) \in Nat
    BY <1>20, RangeTaken
  <2> HIDE DEF data
  <2>3. Keeps(toClient, toClient', kind)
    BY <1>2, <1>6, <1>20, <2>1, <2>2, Made, KindOf
  <2> QED
    BY <1>3, <2>1, <2>3
<1> HIDE DEF Kept
<1>21. Kept \/ Reconnect
       \/ (kind = "pull" /\ (RemotePulls \/ OnFileContentsRequest \/ RemoteTakesRange))
       \/ (kind = "list" /\ (Download \/ RemoteGivesData))
  <2>1. CASE UNCHANGED vars \/ RetryWrite \/ RetryWritten \/ HostCopies
    BY <1>7, <2>1 DEF vars, RetryWrite, RetryWritten, HostCopies, Kept
  <2> QED
    BY <1>8, <1>9, <1>10, <1>11, <1>12, <1>13, <1>14, <1>15, <1>16, <1>17, <1>18, <1>19, <1>20,
       <2>1 DEF Next
<1> QED
  BY <1>21 DEF Kept

LEMMA PullStep == Typed /\ [Next]_vars => PullOK'
<1> SUFFICES ASSUME Typed, [Next]_vars PROVE PullOK'
  OBVIOUS
<1>0. /\ PullOK /\ toRemote \in Seq(ToRemote) /\ toClient \in Seq(ToClient)
      /\ offer \in 0 .. Len(HostSizes)
  BY DEF Typed, ToRemoteOK, ToClientOK, OffersOK
<1>1. ASSUME Keeps(toRemote, toRemote', "pull"), Keeps(toClient, toClient', "pull"), UNCHANGED pull
      PROVE  PullOK'
  <2>1. (Nowhere("pull") => Nowhere("pull")') /\ (Alone("pull") => Alone("pull")')
    BY <1>1, AloneKept
  <2> QED
    BY <1>0, <1>1, <2>1 DEF PullOK
<1>2. ASSUME Reconnect PROVE PullOK'
  <2>1. toRemote' = << >> /\ pull' = << >>
        /\ (toClient' = << >> \/ toClient' = <<[type |-> "copy", formats |-> clip'.formats]>>)
    BY <1>2 DEF Reconnect, RemoteCopy
  <2> DEFINE m == [type |-> "copy", formats |-> clip'.formats]
  <2>2. Kind(m) = "other"
    BY KindOf
  <2> HIDE DEF m
  <2>3. None(<<m>>, "pull") /\ None(<< >>, "pull") /\ One(<< >>, "pull")
    BY <2>2 DEF None, One
  <2>4. None(toClient', "pull") /\ None(toRemote', "pull") /\ One(toRemote', "pull") /\ One(toClient', "pull")
    BY <2>1, <2>3, NoneIsOne DEF m
  <2>5. Nowhere("pull")' /\ Alone("pull")'
    BY <2>4, NowhereNow
  <2> QED
    BY <2>1, <2>5 DEF PullOK
<1>3. ASSUME RemotePulls PROVE PullOK'
  <2>1. /\ offer # 0 /\ pull = << >> /\ UNCHANGED toRemote
        /\ pull' = <<[file |-> offer, data |-> << >>]>> /\ toClient' = Append(toClient, AskRange(0))
    BY <1>3 DEF RemotePulls, SendToClient
  <2>2. None(toRemote, "pull") /\ None(toClient, "pull") /\ One(toClient, "pull") /\ One(toRemote, "pull")
    BY <1>0, <2>1, NoneIsOne DEF PullOK, Nowhere
  <2>3. One(toClient', "pull")
    BY <1>0, <2>1, <2>2, OneAppend, Made
  <2>4. Alone("pull")'
    BY <2>1, <2>2, <2>3, NowhereNow
  <2>5. [file |-> offer, data |-> << >>] \in Pulls
    BY <1>0, <2>1 DEF Pulls, HostFiles
  <2>6. pull' # << >>
    BY <2>1
  <2> QED
    BY <2>1, <2>4, <2>5, <2>6 DEF PullOK
<1>4. ASSUME OnFileContentsRequest PROVE PullOK'
  <2>1. /\ toClient # << >> /\ toClient' = Tail(toClient) /\ UNCHANGED pull
        /\ Head(toClient).type = "ask"
    BY <1>4 DEF OnFileContentsRequest, remoteVars
  <2>2. Kind(Head(toClient)) = "pull"
    BY <2>1 DEF Kind
  <2>3. None(toClient', "pull") /\ One(toClient', "pull") /\ ~None(toClient, "pull")
    BY <1>0, <2>1, <2>2, NoneTail, NoneIsOne DEF PullOK, Alone
  <2>4. None(toRemote, "pull") /\ pull # << >>
    BY <1>0, <2>3 DEF PullOK, Alone, Nowhere
  <2>5. \/ UNCHANGED toRemote
        \/ toRemote' = Append(toRemote, [type |-> "refused"])
        \/ \E bs : toRemote' = Append(toRemote, [type |-> "given", data |-> bs])
    BY <1>4 DEF OnFileContentsRequest, SendToRemote
  <2>6. ASSUME NEW m, toRemote' = Append(toRemote, m) PROVE One(toRemote', "pull")
    <3>1. toRemote \in Seq(ToRemote \cup {m}) /\ m \in ToRemote \cup {m}
      BY <1>0
    <3> QED
      BY <2>4, <2>6, <3>1, OneAppend, NoneIsOne
  <2>7. One(toRemote', "pull")
    BY <2>4, <2>5, <2>6, NoneIsOne
  <2>8. Alone("pull")'
    BY <2>3, <2>7, NowhereNow
  <2> QED
    BY <1>0, <2>1, <2>4, <2>8 DEF PullOK
<1>5. ASSUME RemoteTakesRange PROVE PullOK'
  <2> DEFINE m == Head(toRemote)
             data == pull[1].data \o m.data
  <2>1. /\ toRemote # << >> /\ Kind(m) = "pull" /\ pull[1] \in Pulls /\ pull # << >>
        /\ m.type \in {"given", "refused"}
        /\ m.type = "given" => data \in Seq(HostFiles \X Nat) /\ Len(data) \in Nat
    BY <1>5, RangeTaken
  <2>2. /\ toRemote' = Tail(toRemote)
        /\ \/ pull' = << >> /\ UNCHANGED toClient
           \/ /\ m.type = "given" /\ pull' = <<[pull[1] EXCEPT !.data = data]>>
              /\ toClient' = Append(toClient, AskRange(Len(data)))
    BY <1>5 DEF RemoteTakesRange, SendToClient
  <2>3. m.type = "given" => [pull[1] EXCEPT !.data = data] \in Pulls
    BY <2>1 DEF Pulls
  <2> HIDE DEF m, data
  <2>4. None(toRemote', "pull") /\ One(toRemote', "pull") /\ ~None(toRemote, "pull")
    BY <1>0, <2>1, <2>2, NoneTail, NoneIsOne DEF PullOK, Alone, m
  <2>5. None(toClient, "pull") /\ One(toClient, "pull")
    BY <1>0, <2>4, NoneIsOne DEF PullOK, Alone
  <2>6. CASE pull' = << >> /\ UNCHANGED toClient
    <3>1. Nowhere("pull")' /\ Alone("pull")'
      BY <2>4, <2>5, <2>6, NowhereNow
    <3> QED
      BY <2>6, <3>1 DEF PullOK
  <2>7. CASE /\ m.type = "given" /\ pull' = <<[pull[1] EXCEPT !.data = data]>>
             /\ toClient' = Append(toClient, AskRange(Len(data)))
    <3>1. One(toClient', "pull")
      BY <1>0, <2>1, <2>5, <2>7, OneAppend, Made
    <3>2. Alone("pull")'
      BY <2>4, <3>1, NowhereNow
    <3>3. pull' # << >>
      BY <2>7
    <3> QED
      BY <2>3, <2>7, <3>2, <3>3 DEF PullOK
  <2> QED
    BY <2>2, <2>6, <2>7
<1>6. UNCHANGED pull \/ Reconnect \/ RemotePulls \/ RemoteTakesRange
  BY DEF Next, vars, remoteVars, RemoteCopies, RemoteGivesData, RemoteTakes, RemoteGivesContents,
         OnRemoteCopy, OnFormatData, OnFormatError, OnRemoteFileList, OnFileContents, Download,
         RetryWrite, RetryWritten, HostCopies, HostOffersFile, RemoteTakesOffer,
         OnFileContentsRequest
<1> QED
  BY <1>1, <1>2, <1>3, <1>4, <1>5, <1>6, QueuesKeep

LEMMA PageStep == Typed /\ [Next]_vars => PageOK'
<1> SUFFICES ASSUME Typed, [Next]_vars PROVE PageOK'
  OBVIOUS
<1> DEFINE Flags == {fileFormat, trapped, toast, retryWrite, retrying} \subseteq BOOLEAN
<1>0. /\ pendingFormat \in {"none"} \cup Texts /\ cached.n \in 0 .. MaxCopies
      /\ hostClip \in [own : BOOLEAN, n : 0 .. MaxCopies] /\ Flags
  BY DEF Typed, PageOK
<1>1. Flags' => {fileFormat', trapped', toast', retryWrite', retrying'} \subseteq BOOLEAN
  OBVIOUS
<1>2. pendingFormat' \in {"none"} \cup Texts
  <2>1. CASE UNCHANGED pendingFormat
    BY <1>0, <2>1
  <2>2. ASSUME OnRemoteCopy PROVE pendingFormat' \in {"none"} \cup Texts
    BY <1>0, <2>2 DEF OnRemoteCopy, Texts
  <2>3. ASSUME OnFormatData \/ OnFormatError \/ Reconnect PROVE pendingFormat' \in {"none"} \cup Texts
    BY <2>3 DEF OnFormatData, OnFormatError, Reconnect
  <2> QED
    BY <2>1, <2>2, <2>3
       DEF Next, vars, backendVars, RemoteCopies, RemoteGivesData, RemoteTakes,
           RemoteGivesContents, OnRemoteFileList, OnFileContents, Download, RetryWrite,
           RetryWritten, HostCopies, HostOffersFile, RemoteTakesOffer, RemotePulls,
           OnFileContentsRequest, RemoteTakesRange
<1>3. ASSUME OnFormatData
      PROVE  /\ cached'.n \in 0 .. MaxCopies /\ hostClip' \in [own : BOOLEAN, n : 0 .. MaxCopies]
             /\ retryWrite' \in BOOLEAN
  <2> DEFINE m == Head(toClient)
  <2>1. m.copy \in 0 .. MaxCopies
    <3>1. m \in ToClient /\ m.type = "data"
      BY <1>3, HeadTyped DEF OnFormatData
    <3>2. m.copy \in 1 .. MaxCopies
      BY <3>1, ClientFields
    <3> QED
      BY <3>2, CliprdrAssumption
  <2>2. \/ WriteHost(m.copy, pendingFormat, pendingFormat = m.format)
        \/ UNCHANGED <<cached, retryWrite, hostClip>>
    BY <1>3 DEF OnFormatData
  <2> HIDE DEF m
  <2>3. CASE UNCHANGED <<cached, retryWrite, hostClip>>
    <3>1. retryWrite \in BOOLEAN
      BY <1>0
    <3> QED
      BY <1>0, <2>3, <3>1
  <2>4. CASE WriteHost(m.copy, pendingFormat, pendingFormat = m.format)
    <3>1. cached'.n = m.copy
      BY <2>4 DEF WriteHost
    <3>2. hostClip' = [own |-> FALSE, n |-> m.copy] \/ UNCHANGED hostClip
      BY <2>4 DEF WriteHost
    <3>3. retryWrite \in BOOLEAN
      BY <1>0
    <3>4. retryWrite' \in BOOLEAN
      BY <2>4, <3>3, Zenon DEF WriteHost
    <3>5. [own |-> FALSE, n |-> m.copy] \in [own : BOOLEAN, n : 0 .. MaxCopies]
      BY <2>1
    <3>6. hostClip' \in [own : BOOLEAN, n : 0 .. MaxCopies]
      BY <1>0, <3>2, <3>5, Zenon
    <3>7. cached'.n \in 0 .. MaxCopies
      BY <2>1, <3>1
    <3> QED
      BY <3>4, <3>6, <3>7, Zenon
  <2> QED
    BY <2>2, <2>3, <2>4
<1>4. cached'.n \in 0 .. MaxCopies /\ hostClip' \in [own : BOOLEAN, n : 0 .. MaxCopies]
  <2>1. CASE UNCHANGED <<cached, hostClip>>
    BY <1>0, <2>1
  <2>2. ASSUME RetryWrite \/ HostCopies
        PROVE  cached'.n \in 0 .. MaxCopies /\ hostClip' \in [own : BOOLEAN, n : 0 .. MaxCopies]
    <3>1. cached' = cached /\ (\/ hostClip' = [own |-> FALSE, n |-> cached.n]
                              \/ hostClip' = [own |-> TRUE, n |-> cached.n])
      BY <2>2 DEF RetryWrite, HostCopies
    <3>2. /\ [own |-> FALSE, n |-> cached.n] \in [own : BOOLEAN, n : 0 .. MaxCopies]
          /\ [own |-> TRUE, n |-> cached.n] \in [own : BOOLEAN, n : 0 .. MaxCopies]
      BY <1>0
    <3> QED
      BY <1>0, <3>1, <3>2, Zenon
  <2> QED
    BY <1>3, <2>1, <2>2
       DEF Next, vars, pageVars, RemoteCopies, RemoteGivesData, RemoteTakes, RemoteGivesContents,
           OnRemoteCopy, OnFormatError, OnRemoteFileList, OnFileContents, Download, RetryWritten,
           HostOffersFile, RemoteTakesOffer, RemotePulls, OnFileContentsRequest, RemoteTakesRange,
           Reconnect
<1>5. {fileFormat', trapped', toast', retryWrite', retrying'} \subseteq BOOLEAN
  <2>1. /\ fileFormat \in BOOLEAN /\ trapped \in BOOLEAN /\ toast \in BOOLEAN
        /\ retryWrite \in BOOLEAN /\ retrying \in BOOLEAN
    BY <1>0
  <2>2. retryWrite' \in BOOLEAN
    <3>1. CASE UNCHANGED retryWrite
      BY <2>1, <3>1
    <3>2. ASSUME RetryWritten PROVE retryWrite' \in BOOLEAN
      BY <3>2 DEF RetryWritten
    <3> QED
      BY <1>3, <3>1, <3>2
         DEF Next, vars, pageVars, RemoteCopies, RemoteGivesData, RemoteTakes, RemoteGivesContents,
             OnRemoteCopy, OnFormatError, OnRemoteFileList, OnFileContents, Download, RetryWrite,
             HostCopies, HostOffersFile, RemoteTakesOffer, RemotePulls, OnFileContentsRequest,
             RemoteTakesRange, Reconnect
  <2>3. retrying' \in BOOLEAN
    <3>1. CASE UNCHANGED retrying
      BY <2>1, <3>1
    <3>2. ASSUME RetryWritten \/ RetryWrite PROVE retrying' \in BOOLEAN
      BY <3>2 DEF RetryWritten, RetryWrite
    <3> QED
      BY <3>1, <3>2
         DEF Next, vars, pageVars, RemoteCopies, RemoteGivesData, RemoteTakes, RemoteGivesContents,
             OnRemoteCopy, OnFormatData, OnFormatError, OnRemoteFileList, OnFileContents, Download,
             HostCopies, HostOffersFile, RemoteTakesOffer, RemotePulls, OnFileContentsRequest,
             RemoteTakesRange, Reconnect
  <2>4. toast' \in BOOLEAN /\ fileFormat' \in BOOLEAN
    <3>1. CASE UNCHANGED <<toast, fileFormat>>
      BY <2>1, <3>1
    <3>2. ASSUME OnRemoteCopy \/ Download PROVE toast' \in BOOLEAN /\ fileFormat' \in BOOLEAN
      BY <2>1, <3>2, Zenon DEF OnRemoteCopy, Download, lastingVars
    <3> QED
      BY <3>1, <3>2
         DEF Next, vars, pageVars, lastingVars, RemoteCopies, RemoteGivesData, RemoteTakes,
             RemoteGivesContents, OnFormatData, OnFormatError, OnRemoteFileList, OnFileContents,
             RetryWrite, RetryWritten, HostCopies, HostOffersFile, RemoteTakesOffer, RemotePulls,
             OnFileContentsRequest, RemoteTakesRange, Reconnect
  <2>5. trapped' \in BOOLEAN
    <3>1. CASE UNCHANGED trapped
      BY <2>1, <3>1
    <3>2. ASSUME OnFileContentsRequest PROVE trapped' \in BOOLEAN
      <4> DEFINE late == Head(toClient).position
                         > Min({Head(toClient).position + Head(toClient).size, HostSizes[pendingFile]})
      <4>1. late \in BOOLEAN
        OBVIOUS
      <4>2. trapped' = late \/ trapped' = trapped
        BY <3>2, Zenon DEF OnFileContentsRequest
      <4> HIDE DEF late
      <4> QED
        BY <2>1, <4>1, <4>2, Zenon
    <3> QED
      BY <3>1, <3>2
         DEF Next, vars, lastingVars, RemoteCopies, RemoteGivesData, RemoteTakes,
             RemoteGivesContents, OnRemoteCopy, OnFormatData, OnFormatError, OnRemoteFileList,
             OnFileContents, Download, RetryWrite, RetryWritten, HostCopies, HostOffersFile,
             RemoteTakesOffer, RemotePulls, RemoteTakesRange, Reconnect
  <2> QED
    BY <2>2, <2>3, <2>4, <2>5
<1> QED
  BY <1>2, <1>4, <1>5 DEF PageOK

LEMMA TypedStep == Typed /\ [Next]_vars => Typed'
BY ClipStep, OffersStep, ToRemoteStep, ToClientStep, TransfersStep, PullStep, PageStep DEF Typed

\* For any copies, sizes and bounds, and however copies, pastes and downloads overlap: every
\* reachable state is well typed, stream ids are those handed out, a transfer is of a file
\* that was copied, and the remote waits for one range of our file at a time.
THEOREM TypeCorrect == Spec => []TypeOK
<1>1. Spec => []Typed
  BY InitTyped, TypedStep, PTL DEF Spec
<1> QED
  BY <1>1, TypedIsTypeOK, PTL

-----------------------------------------------------------------------------
(***************************************************************************)
(* Without overlap one format at most is asked for, and it is the one      *)
(* noted: what CatchingUp needs to follow the last copy.                   *)
(***************************************************************************)
\* The format of which a message asks for the data, or brings it.
Wants(m) ==
  IF m.type \in {"paste", "data", "error", "filelist"} THEN {m.format}
  ELSE IF m.type = "copy" THEN {Wanted(m.formats)} \ {"files", "none"} ELSE {}

Asked(tr, tc) == {f \in Formats : \E m \in Range(tr) \cup Range(tc) : f \in Wants(m)}

\* The messages of downloads and of pastes of our file.
Side(m) == m.type \in {"size", "range", "offer", "given", "refused", "ask", "contents", "total", "failed"}

LEMMA SideWants == ASSUME NEW m, Side(m) PROVE Wants(m) = {}
BY DEF Side, Wants

LEMMA WantsOf ==
  /\ \A f : Wants(Paste(f)) = {f} /\ Wants(Error(f)) = {f}
  /\ \A f, c : Wants(Data(f, c)) = {f} /\ Wants(FileList(c)) = {"files"}
  /\ \A fs : Wants([type |-> "copy", formats |-> fs]) = {Wanted(fs)} \ {"files", "none"}
<1>1. \A f : Wants(Paste(f)) = {f} /\ Wants(Error(f)) = {f}
  BY DEF Wants, Paste, Error
<1>2. \A f, c : Wants(Data(f, c)) = {f} /\ Wants(FileList(c)) = {"files"}
  BY DEF Wants, Data, FileList
<1>3. \A fs : Wants([type |-> "copy", formats |-> fs]) = {Wanted(fs)} \ {"files", "none"}
  BY DEF Wants
<1> QED
  BY <1>1, <1>2, <1>3

LEMMA SideOf ==
  /\ \A s, i, p, n : Side(FileSize(s, i)) /\ Side(FileRange(s, i, p, n))
  /\ \A h : Side(FileOffer(h))
  /\ \A p : Side(AskRange(p))
  /\ \A bs : Side([type |-> "given", data |-> bs])
  /\ Side([type |-> "refused"])
<1>1. \A s, i, p, n : Side(FileSize(s, i)) /\ Side(FileRange(s, i, p, n))
  BY DEF Side, FileSize, FileRange
<1>2. \A h : Side(FileOffer(h))
  BY DEF Side, FileOffer
<1>3. \A p : Side(AskRange(p))
  BY DEF Side, AskRange
<1>4. /\ \A bs : Side([type |-> "given", data |-> bs])
      /\ Side([type |-> "refused"])
  BY DEF Side
<1> QED
  BY <1>1, <1>2, <1>3, <1>4

LEMMA WantsFormat ==
  /\ \A m \in ToRemote : Wants(m) \subseteq Formats
  /\ \A m \in ToClient : Wants(m) \subseteq Formats
<1>1. \A m \in ToRemote : Wants(m) \subseteq Formats
  <2> SUFFICES ASSUME NEW m \in ToRemote PROVE Wants(m) \subseteq Formats
    OBVIOUS
  <2>1. m.type = "paste" \/ Side(m)
    BY DEF ToRemote, FileAsks, Side
  <2> QED
    BY <2>1, SideWants, RemoteFields DEF Wants
<1>2. \A m \in ToClient : Wants(m) \subseteq Formats
  <2> SUFFICES ASSUME NEW m \in ToClient PROVE Wants(m) \subseteq Formats
    OBVIOUS
  <2>1. /\ m.type \in {"copy", "data", "error", "filelist"} \/ Side(m)
        /\ m.type \in {"data", "error", "filelist"} => m.format \in Formats
    BY DEF ToClient, Side, Formats
  <2>2. CASE m.type = "copy"
    <3>1. Wanted(m.formats) \in Formats \cup {"none"}
      BY WantedIs DEF Texts, Formats
    <3>2. Wants(m) = {Wanted(m.formats)} \ {"files", "none"}
      BY <2>2 DEF Wants
    <3> QED
      BY <3>1, <3>2
  <2>3. CASE m.type \in {"data", "error", "filelist"}
    BY <2>1, <2>3 DEF Wants
  <2>4. CASE Side(m)
    BY <2>4, SideWants
  <2> QED
    BY <2>1, <2>2, <2>3, <2>4
<1> QED
  BY <1>1, <1>2

LEMMA UnansweredIs ==
  ASSUME NEW tr \in Seq(ToRemote), NEW tc \in Seq(ToClient)
  PROVE  LET Of(queue, types) == {m.format : m \in {x \in Range(queue) : x.type \in types}}
             copies == {m \in Range(tc) : m.type = "copy"}
         IN  Of(tr, {"paste"}) \cup Of(tc, {"data", "error", "filelist"})
             \cup ({Wanted(m.formats) : m \in copies} \ {"files", "none"})  =  Asked(tr, tc)
<1> DEFINE A == {m.format : m \in {x \in Range(tr) : x.type \in {"paste"}}}
           B == {m.format : m \in {x \in Range(tc) : x.type \in {"data", "error", "filelist"}}}
           C == {Wanted(m.formats) : m \in {x \in Range(tc) : x.type = "copy"}} \ {"files", "none"}
<1>1. (\A m \in Range(tr) : m \in ToRemote) /\ (\A m \in Range(tc) : m \in ToClient)
  BY DEF Range
<1>2. \A m \in Range(tr) : m.type = "paste" \/ Side(m)
  BY <1>1 DEF ToRemote, FileAsks, Side
<1>3. \A m \in Range(tc) : m.type \in {"copy", "data", "error", "filelist"} \/ Side(m)
  BY <1>1 DEF ToClient, Side
<1>4. \A m \in Range(tr) \cup Range(tc) : Wants(m) \subseteq Formats
  BY <1>1, WantsFormat
<1>5. ASSUME NEW f PROVE f \in A <=> \E m \in Range(tr) : f \in Wants(m)
  <2>1. ASSUME f \in A PROVE \E m \in Range(tr) : f \in Wants(m)
    <3>1. PICK m \in Range(tr) : m.type = "paste" /\ f = m.format
      BY <2>1
    <3>2. f \in Wants(m)
      BY <3>1 DEF Wants
    <3> QED
      BY <3>2
  <2>2. ASSUME NEW m \in Range(tr), f \in Wants(m) PROVE f \in A
    <3>1. m.type = "paste"
      BY <1>2, <2>2, SideWants
    <3>2. f = m.format
      BY <2>2, <3>1 DEF Wants
    <3> QED
      BY <3>1, <3>2
  <2> QED
    BY <2>1, <2>2
<1>6. ASSUME NEW f PROVE f \in B \cup C <=> \E m \in Range(tc) : f \in Wants(m)
  <2>1. ASSUME f \in B PROVE \E m \in Range(tc) : f \in Wants(m)
    <3>1. PICK m \in Range(tc) : m.type \in {"data", "error", "filelist"} /\ f = m.format
      BY <2>1
    <3>2. f \in Wants(m)
      BY <3>1 DEF Wants
    <3> QED
      BY <3>2
  <2>2. ASSUME f \in C PROVE \E m \in Range(tc) : f \in Wants(m)
    <3>1. PICK m \in Range(tc) : m.type = "copy" /\ f = Wanted(m.formats) /\ f \notin {"files", "none"}
      BY <2>2
    <3>2. f \in Wants(m)
      BY <3>1 DEF Wants
    <3> QED
      BY <3>2
  <2>3. ASSUME NEW m \in Range(tc), f \in Wants(m) PROVE f \in B \cup C
    <3>1. m.type \in {"copy", "data", "error", "filelist"}
      BY <1>3, <2>3, SideWants
    <3>2. CASE m.type = "copy"
      <4>1. f = Wanted(m.formats) /\ f \notin {"files", "none"}
        BY <2>3, <3>2 DEF Wants
      <4> QED
        BY <3>2, <4>1
    <3>3. CASE m.type \in {"data", "error", "filelist"}
      <4>1. f = m.format
        BY <2>3, <3>3 DEF Wants
      <4> QED
        BY <3>3, <4>1
    <3> QED
      BY <3>1, <3>2, <3>3
  <2> QED
    BY <2>1, <2>2, <2>3
<1> HIDE DEF A, B, C
<1>7. A \cup (B \cup C) = Asked(tr, tc)
  BY <1>4, <1>5, <1>6 DEF Asked
<1>8. A \cup B \cup C = Asked(tr, tc)
  BY <1>7
<1> QED
  BY <1>8 DEF A, B, C

\* What the queues ask for, as messages are sent and taken.
LEMMA AskedSend ==
  ASSUME NEW tr \in Seq(ToRemote), NEW tc \in Seq(ToClient)
  PROVE  /\ \A m \in ToRemote : Asked(Append(tr, m), tc) = Asked(tr, tc) \cup Wants(m)
         /\ \A m \in ToClient : Asked(tr, Append(tc, m)) = Asked(tr, tc) \cup Wants(m)
<1>1. ASSUME NEW m \in ToRemote PROVE Asked(Append(tr, m), tc) = Asked(tr, tc) \cup Wants(m)
  <2>1. Range(Append(tr, m)) = Range(tr) \cup {m}
    BY RangeAppend
  <2>2. Wants(m) \subseteq Formats
    BY WantsFormat
  <2> QED
    BY <2>1, <2>2 DEF Asked
<1>2. ASSUME NEW m \in ToClient PROVE Asked(tr, Append(tc, m)) = Asked(tr, tc) \cup Wants(m)
  <2>1. Range(Append(tc, m)) = Range(tc) \cup {m}
    BY RangeAppend
  <2>2. Wants(m) \subseteq Formats
    BY WantsFormat
  <2> QED
    BY <2>1, <2>2 DEF Asked
<1> QED
  BY <1>1, <1>2

LEMMA AskedTake ==
  ASSUME NEW tr \in Seq(ToRemote), NEW tc \in Seq(ToClient)
  PROVE  /\ tr # << >> => Asked(tr, tc) = Asked(Tail(tr), tc) \cup Wants(Head(tr))
         /\ tc # << >> => Asked(tr, tc) = Asked(tr, Tail(tc)) \cup Wants(Head(tc))
<1>1. ASSUME tr # << >> PROVE Asked(tr, tc) = Asked(Tail(tr), tc) \cup Wants(Head(tr))
  <2>1. Range(tr) = Range(Tail(tr)) \cup {Head(tr)} /\ Head(tr) \in ToRemote
    BY <1>1, RangeTail
  <2>2. Wants(Head(tr)) \subseteq Formats
    BY <2>1, WantsFormat
  <2> QED
    BY <2>1, <2>2 DEF Asked
<1>2. ASSUME tc # << >> PROVE Asked(tr, tc) = Asked(tr, Tail(tc)) \cup Wants(Head(tc))
  <2>1. Range(tc) = Range(Tail(tc)) \cup {Head(tc)} /\ Head(tc) \in ToClient
    BY <1>2, RangeTail
  <2>2. Wants(Head(tc)) \subseteq Formats
    BY <2>1, WantsFormat
  <2> QED
    BY <2>1, <2>2 DEF Asked
<1> QED
  BY <1>1, <1>2

LEMMA AskedSizes ==
  ASSUME NEW tr \in Seq(ToRemote), NEW tc \in Seq(ToClient), NEW next \in Nat \ {0}
  PROVE  Asked(tr \o [i \in Indices |-> FileSize(next + i - 1, i)], tc) = Asked(tr, tc)
<1> DEFINE asks == [i \in Indices |-> FileSize(next + i - 1, i)]
<1>1. asks \in Seq(ToRemote) /\ Range(asks) = {FileSize(next + i - 1, i) : i \in Indices}
  BY SizeAsks
<1> HIDE DEF asks
<1>2. \A m \in Range(asks) : Wants(m) = {}
  BY <1>1, SideOf, SideWants
<1>3. Range(tr \o asks) = Range(tr) \cup Range(asks)
  BY <1>1, RangeConcat
<1> QED
  BY <1>2, <1>3 DEF Asked, asks

\* A queue after a step that sends, takes or leaves messages of other conversations.
SideStep(q, r, T) ==
  \/ r = q
  \/ q # << >> /\ Side(Head(q)) /\ r = Tail(q)
  \/ \E m \in T : Side(m) /\ r = Append(q, m)

LEMMA SideAsked ==
  ASSUME NEW tr \in Seq(ToRemote), NEW tc \in Seq(ToClient),
         NEW tr2 \in Seq(ToRemote), NEW tc2 \in Seq(ToClient),
         SideStep(tr, tr2, ToRemote), SideStep(tc, tc2, ToClient)
  PROVE  Asked(tr2, tc2) = Asked(tr, tc)
<1>1. Asked(tr2, tc) = Asked(tr, tc)
  <2>1. ASSUME tr # << >>, Side(Head(tr)), tr2 = Tail(tr) PROVE Asked(tr2, tc) = Asked(tr, tc)
    <3>1. Wants(Head(tr)) = {}
      BY <2>1, SideWants
    <3>2. Asked(tr, tc) = Asked(tr2, tc) \cup Wants(Head(tr))
      BY <2>1, AskedTake
    <3> QED
      BY <3>1, <3>2
  <2>2. ASSUME NEW m \in ToRemote, Side(m), tr2 = Append(tr, m) PROVE Asked(tr2, tc) = Asked(tr, tc)
    <3>1. Asked(tr2, tc) = Asked(tr, tc) \cup Wants(m)
      BY <2>2, AskedSend
    <3>2. Wants(m) = {}
      BY <2>2, SideWants
    <3> QED
      BY <3>1, <3>2
  <2> QED
    BY <2>1, <2>2 DEF SideStep
<1>2. Asked(tr2, tc2) = Asked(tr2, tc)
  <2>1. ASSUME tc # << >>, Side(Head(tc)), tc2 = Tail(tc) PROVE Asked(tr2, tc2) = Asked(tr2, tc)
    <3>1. Wants(Head(tc)) = {}
      BY <2>1, SideWants
    <3>2. Asked(tr2, tc) = Asked(tr2, tc2) \cup Wants(Head(tc))
      BY <2>1, AskedTake
    <3> QED
      BY <3>1, <3>2
  <2>2. ASSUME NEW m \in ToClient, Side(m), tc2 = Append(tc, m) PROVE Asked(tr2, tc2) = Asked(tr2, tc)
    <3>1. Asked(tr2, tc2) = Asked(tr2, tc) \cup Wants(m)
      BY <2>2, AskedSend
    <3>2. Wants(m) = {}
      BY <2>2, SideWants
    <3> QED
      BY <3>1, <3>2
  <2> QED
    BY <2>1, <2>2 DEF SideStep
<1> QED
  BY <1>1, <1>2

\* Every step but those of a copy, of a request of data and its answer leaves these alone.
LEMMA OtherSteps ==
  ASSUME Typed, [Next]_vars
  PROVE  \/ \E formats \in Copies : RemoteCopies(formats)
         \/ RemoteGivesData \/ OnRemoteCopy \/ OnFormatData \/ OnFormatError \/ OnRemoteFileList
         \/ Download \/ Reconnect
         \/ /\ SideStep(toRemote, toRemote', ToRemote) /\ SideStep(toClient, toClient', ToClient)
            /\ UNCHANGED <<clip, pendingFormat, cached>>
<1> DEFINE SideSteps == /\ SideStep(toRemote, toRemote', ToRemote) /\ SideStep(toClient, toClient', ToClient)
                        /\ UNCHANGED <<clip, pendingFormat, cached>>
<1>0. toRemote \in Seq(ToRemote) /\ toClient \in Seq(ToClient)
  BY DEF Typed, ToRemoteOK, ToClientOK
<1>1. CASE UNCHANGED vars \/ RetryWrite \/ RetryWritten \/ HostCopies
  BY <1>1 DEF vars, remoteVars, backendVars, pageVars, RetryWrite, RetryWritten, HostCopies, SideStep
<1>2. ASSUME RemoteTakes \/ RemoteTakesOffer PROVE SideSteps
  <2>1. /\ toRemote # << >> /\ Head(toRemote).type \in {"size", "range", "offer"}
        /\ toRemote' = Tail(toRemote) /\ UNCHANGED <<toClient, clip, pendingFormat, cached>>
    BY <1>2 DEF RemoteTakes, RemoteTakesOffer, remoteVars, backendVars, pageVars
  <2> QED
    BY <2>1 DEF SideStep, Side
<1>3. ASSUME NEW r \in requests, RemoteGivesContents(r) PROVE SideSteps
  <2>1. PICK m \in ToClient : toClient' = Append(toClient, m) /\ m.type \in {"failed", "total", "contents"}
    BY <1>3, ContentsGiven
  <2>2. UNCHANGED <<toRemote, clip, pendingFormat, cached>>
    BY <1>3 DEF RemoteGivesContents, backendVars, pageVars
  <2>3. Side(m)
    BY <2>1 DEF Side
  <2> QED
    BY <2>1, <2>2, <2>3 DEF SideStep
<1>4. ASSUME OnFileContents PROVE SideSteps
  <2>1. /\ toClient # << >> /\ Head(toClient).type \in {"contents", "total", "failed"}
        /\ toClient' = Tail(toClient) /\ UNCHANGED <<clip, pendingFormat, cached>>
    BY <1>4 DEF OnFileContents, remoteVars
  <2>2. toRemote' = toRemote \/ \E m \in ToRemote : Side(m) /\ toRemote' = Append(toRemote, m)
    <3> DEFINE m == Head(toClient)
               rest == Restrict(fileTransfers, DOMAIN fileTransfers \ {m.id})
               t == fileTransfers[m.id]
    <3>1. /\ m.type = "total" => m.size \in Nat /\ << >> \in Seq(Files \X Nat)
          /\ m.id \in DOMAIN fileTransfers => t \in Transfers
          /\ m.type = "contents" /\ m.id \in DOMAIN fileTransfers
               => t.total \in Nat /\ t.data \o m.data \in Seq(Files \X Nat)
      BY <1>4, AnswerTyped, Zenon
    <3>2. \/ UNCHANGED toRemote
          \/ m.id \in DOMAIN fileTransfers /\ m.type = "total" /\ Continue(rest, t, m.size, << >>)
          \/ m.id \in DOMAIN fileTransfers /\ m.type = "contents" /\ Continue(rest, t, t.total, t.data \o m.data)
      BY <1>4 DEF OnFileContents
    <3> HIDE DEF m, rest, t
    <3>3. ASSUME NEW total \in Nat, NEW data \in Seq(Files \X Nat), t \in Transfers,
                 Continue(rest, t, total, data)
          PROVE  toRemote' = toRemote \/ \E x \in ToRemote : Side(x) /\ toRemote' = Append(toRemote, x)
      <4> DEFINE chunk == Min({total - Min({Len(data), total}), CHUNK_SIZE})
                 x == FileRange(nextStreamId, t.file.index, Len(data), chunk)
      <4>1. Len(data) \in Nat
        OBVIOUS
      <4>2. chunk \in Nat
        BY <4>1, ChunkEnd
      <4>3. toRemote' = toRemote \/ toRemote' = Append(toRemote, x)
        BY <3>3 DEF Continue, SendToRemote
      <4> HIDE DEF chunk
      <4>4. t.file.index \in Indices /\ nextStreamId \in Nat
        BY <3>3 DEF Transfers, Files, Typed, TransfersOK
      <4>5. x \in ToRemote /\ Side(x)
        BY <4>1, <4>2, <4>4, Made, SideOf
      <4> HIDE DEF x
      <4> QED
        BY <4>3, <4>5
    <3> QED
      BY <3>1, <3>2, <3>3
  <2> QED
    BY <2>1, <2>2 DEF SideStep, Side
<1>5. ASSUME HostOffersFile PROVE SideSteps
  <2>1. UNCHANGED <<toClient, clip, pendingFormat, cached>>
        /\ toRemote' = Append(toRemote, FileOffer(pendingFile + 1)) /\ pendingFile < Len(HostSizes)
    BY <1>5 DEF HostOffersFile, SendToRemote, FileOffer, remoteVars, backendVars, pageVars
  <2>2. pendingFile + 1 \in HostFiles
    BY <2>1, CliprdrAssumption DEF Typed, OffersOK, HostFiles
  <2>3. FileOffer(pendingFile + 1) \in ToRemote /\ Side(FileOffer(pendingFile + 1))
    BY <2>2, Made, SideOf
  <2> QED
    BY <2>1, <2>3 DEF SideStep
<1>6. ASSUME RemotePulls PROVE SideSteps
  <2>1. UNCHANGED <<toRemote, clip, pendingFormat, cached>> /\ toClient' = Append(toClient, AskRange(0))
    BY <1>6 DEF RemotePulls, SendToClient, backendVars, pageVars
  <2>2. AskRange(0) \in ToClient /\ Side(AskRange(0))
    BY Made, SideOf
  <2> QED
    BY <2>1, <2>2 DEF SideStep
<1>7. ASSUME OnFileContentsRequest PROVE SideSteps
  <2>1. /\ toClient # << >> /\ Head(toClient).type = "ask" /\ toClient' = Tail(toClient)
        /\ UNCHANGED <<clip, pendingFormat, cached>>
    BY <1>7 DEF OnFileContentsRequest, remoteVars, backendVars, pageVars
  <2> DEFINE m == Head(toClient)
             end == Min({m.position + m.size, HostSizes[pendingFile]})
             given == [type |-> "given", data |-> Bytes(pendingFile, m.position, end)]
  <2>2. m.position \in Nat /\ m.size \in Nat
    BY <2>1, HeadTyped, ClientFields
  <2>3. \/ UNCHANGED toRemote
        \/ toRemote' = Append(toRemote, [type |-> "refused"])
        \/ pendingFile # 0 /\ ~(m.position > end) /\ toRemote' = Append(toRemote, given)
    BY <1>7 DEF OnFileContentsRequest, SendToRemote
  <2>4. pendingFile # 0 /\ ~(m.position > end) => given \in ToRemote
    BY <2>2, GivenTyped
  <2>5. Side(given) /\ Side([type |-> "refused"]) /\ [type |-> "refused"] \in ToRemote
    BY SideOf, Made
  <2> HIDE DEF given, end
  <2>6. SideStep(toRemote, toRemote', ToRemote)
    BY <2>3, <2>4, <2>5 DEF SideStep
  <2>7. SideStep(toClient, toClient', ToClient)
    BY <2>1 DEF SideStep, Side
  <2> QED
    BY <2>1, <2>6, <2>7
<1>8. ASSUME RemoteTakesRange PROVE SideSteps
  <2> DEFINE data == pull[1].data \o Head(toRemote).data
  <2>1. /\ toRemote # << >> /\ toRemote' = Tail(toRemote) /\ Head(toRemote).type \in {"given", "refused"}
        /\ UNCHANGED <<clip, pendingFormat, cached>>
        /\ \/ UNCHANGED toClient
           \/ Head(toRemote).type = "given" /\ toClient' = Append(toClient, AskRange(Len(data)))
    BY <1>8 DEF RemoteTakesRange, SendToClient, backendVars, pageVars
  <2>2. Head(toRemote).type = "given" => Len(data) \in Nat
    BY <1>8, RangeTaken
  <2> HIDE DEF data
  <2>3. Head(toRemote).type = "given" => AskRange(Len(data)) \in ToClient /\ Side(AskRange(Len(data)))
    BY <2>2, Made, SideOf
  <2>4. SideStep(toClient, toClient', ToClient)
    BY <2>1, <2>3 DEF SideStep
  <2>5. SideStep(toRemote, toRemote', ToRemote)
    BY <2>1 DEF SideStep, Side
  <2> QED
    BY <2>1, <2>4, <2>5
<1> HIDE DEF SideSteps
<1> QED
  BY <1>1, <1>2, <1>3, <1>4, <1>5, <1>6, <1>7, <1>8 DEF Next, SideSteps

\* At most one format is asked for at a time, and it is what the backend notes.
Agree ==
  /\ cached.sound
  /\ \A f, g \in Unanswered : f = g
  /\ pendingFormat # "none" => pendingFormat \in Unanswered

LEMMA AgreeStep == Typed /\ Agree /\ ~Overlap /\ [Next]_vars => Agree'
<1> SUFFICES ASSUME Typed, Agree, ~Overlap, [Next]_vars PROVE Agree'
  OBVIOUS
<1> DEFINE U == Asked(toRemote, toClient)
           V == Asked(toRemote', toClient')
<1>0. /\ toRemote \in Seq(ToRemote) /\ toClient \in Seq(ToClient)
      /\ toRemote' \in Seq(ToRemote) /\ toClient' \in Seq(ToClient)
      /\ nextStreamId \in Nat \ {0} /\ pendingFormat \in {"none"} \cup Texts
  BY ToRemoteStep, ToClientStep DEF Typed, ToRemoteOK, ToClientOK, TransfersOK, PageOK
<1>1. Unanswered = U
  BY <1>0, UnansweredIs DEF Unanswered
<1>2. Unanswered' = V
  BY <1>0, UnansweredIs DEF Unanswered
<1> HIDE DEF U, V
<1>3. /\ cached.sound /\ \A f, g \in U : f = g
      /\ pendingFormat # "none" => pendingFormat \in U
  BY <1>1 DEF Agree
<1> SUFFICES /\ cached'.sound /\ \A f, g \in V : f = g
             /\ pendingFormat' # "none" => pendingFormat' \in V
  BY <1>2 DEF Agree
<1>4. CASE V = U /\ UNCHANGED <<pendingFormat, cached>>
  BY <1>3, <1>4
<1>5. ASSUME NEW formats \in Copies, RemoteCopies(formats)
      PROVE  /\ cached'.sound /\ \A f, g \in V : f = g
             /\ pendingFormat' # "none" => pendingFormat' \in V
  <2> DEFINE m == [type |-> "copy", formats |-> formats]
             w == Wanted(formats)
  <2>1. UNCHANGED <<toRemote, pendingFormat, cached>> /\ toClient' = Append(toClient, m)
    BY <1>5 DEF RemoteCopies, SendToClient, RemoteCopy, backendVars, pageVars
  <2>2. m \in ToClient /\ Wants(m) = {w} \ {"files", "none"}
    BY Made, WantsOf, CliprdrAssumption
  <2>3. w \in {"files", "none"} \/ U \subseteq {w}
    BY <1>1, <1>5 DEF RemoteCopies, Undisturbed
  <2> HIDE DEF m, w
  <2>4. V = U \cup ({w} \ {"files", "none"})
    BY <1>0, <2>1, <2>2, AskedSend DEF U, V
  <2> QED
    BY <1>3, <2>1, <2>3, <2>4
<1>6. ASSUME RemoteGivesData PROVE V = U /\ UNCHANGED <<pendingFormat, cached>>
  <2> DEFINE f == Head(toRemote).format
             m == IF f \notin clip.formats THEN Error(f)
                  ELSE IF f = "files" THEN FileList(clip.n) ELSE Data(f, clip.n)
             W == Asked(Tail(toRemote), toClient)
  <2>1. /\ toRemote # << >> /\ Head(toRemote).type = "paste" /\ toRemote' = Tail(toRemote)
        /\ UNCHANGED <<pendingFormat, cached>>
    BY <1>6 DEF RemoteGivesData, backendVars, pageVars
  <2>2. m \in ToClient /\ toClient' = Append(toClient, m)
    BY <1>6, DataGiven
  <2>3. Wants(m) = {f} /\ Wants(Head(toRemote)) = {f}
    <3>1. Wants(Head(toRemote)) = {f}
      BY <2>1 DEF Wants
    <3>2. Wants(Error(f)) = {f} /\ Wants(Data(f, clip.n)) = {f} /\ Wants(FileList(clip.n)) = {"files"}
      BY WantsOf
    <3>3. CASE f \notin clip.formats
      <4>1. m = Error(f)
        BY <3>3
      <4> QED
        BY <3>1, <3>2, <4>1
    <3>4. CASE f \in clip.formats /\ f = "files"
      <4>1. m = FileList(clip.n)
        BY <3>4
      <4> QED
        BY <3>1, <3>2, <3>4, <4>1
    <3>5. CASE f \in clip.formats /\ f # "files"
      <4>1. m = Data(f, clip.n)
        BY <3>5
      <4> QED
        BY <3>1, <3>2, <4>1
    <3> QED
      BY <3>3, <3>4, <3>5
  <2>4. U = W \cup {f}
    BY <1>0, <2>1, <2>3, AskedTake DEF U
  <2> HIDE DEF m
  <2>5. V = W \cup Wants(m)
    <3>1. V = Asked(Tail(toRemote), Append(toClient, m)) /\ Tail(toRemote) \in Seq(ToRemote)
      BY <1>0, <2>1, <2>2 DEF V
    <3>2. \A x \in ToClient : Asked(Tail(toRemote), Append(toClient, x))
                              = Asked(Tail(toRemote), toClient) \cup Wants(x)
      BY <1>0, <3>1, AskedSend, Zenon
    <3>3. Asked(Tail(toRemote), Append(toClient, m)) = W \cup Wants(m)
      BY <2>2, <3>2
    <3> QED
      BY <3>1, <3>3
  <2> QED
    BY <2>1, <2>3, <2>4, <2>5
<1>7. ASSUME OnRemoteCopy
      PROVE  /\ cached'.sound /\ V = U
             /\ pendingFormat' # "none" => pendingFormat' \in V
  <2> DEFINE want == Wanted(Head(toClient).formats)
             W == Asked(toRemote, Tail(toClient))
  <2>1. /\ toClient # << >> /\ Head(toClient).type = "copy" /\ toClient' = Tail(toClient)
        /\ UNCHANGED cached
        /\ \/ want \in Texts /\ pendingFormat' = want /\ toRemote' = Append(toRemote, Paste(want))
           \/ want \in {"files", "none"} /\ UNCHANGED <<pendingFormat, toRemote>>
    BY <1>7 DEF OnRemoteCopy, SendToRemote, Texts
  <2>2. Wants(Head(toClient)) = {want} \ {"files", "none"}
    BY <2>1 DEF Wants
  <2>3. U = W \cup ({want} \ {"files", "none"})
    BY <1>0, <2>1, <2>2, AskedTake DEF U
  <2> HIDE DEF want
  <2>4. ASSUME want \in Texts, pendingFormat' = want, toRemote' = Append(toRemote, Paste(want))
        PROVE  V = U /\ pendingFormat' \in V
    <3>1. Paste(want) \in ToRemote /\ Wants(Paste(want)) = {want}
      BY <2>4, Made, WantsOf DEF Texts, Formats
    <3>2. V = W \cup {want}
      <4>1. V = Asked(Append(toRemote, Paste(want)), Tail(toClient)) /\ Tail(toClient) \in Seq(ToClient)
        BY <1>0, <2>1, <2>4 DEF V
      <4>2. \A x \in ToRemote : Asked(Append(toRemote, x), Tail(toClient))
                                = Asked(toRemote, Tail(toClient)) \cup Wants(x)
        BY <1>0, <4>1, AskedSend, Zenon
      <4>3. Asked(Append(toRemote, Paste(want)), Tail(toClient)) = W \cup Wants(Paste(want))
        BY <3>1, <4>2
      <4> QED
        BY <3>1, <4>1, <4>3
    <3> QED
      BY <2>3, <2>4, <3>2 DEF Texts
  <2>5. ASSUME want \in {"files", "none"}, UNCHANGED <<pendingFormat, toRemote>> PROVE V = U
    BY <2>1, <2>3, <2>5 DEF V
  <2> QED
    BY <1>3, <2>1, <2>4, <2>5
<1>8. ASSUME OnFormatData \/ OnFormatError
      PROVE  /\ cached'.sound /\ V \subseteq U
             /\ pendingFormat' = "none"
  <2> DEFINE m == Head(toClient)
  <2>1. /\ toClient # << >> /\ toClient' = Tail(toClient) /\ UNCHANGED toRemote
        /\ pendingFormat' = "none"
    BY <1>8 DEF OnFormatData, OnFormatError
  <2>2. U = V \cup Wants(m)
    BY <1>0, <2>1, AskedTake DEF U, V
  <2>3. ASSUME OnFormatData PROVE cached'.sound
    <3>1. CASE UNCHANGED cached
      BY <1>3, <3>1
    <3>2. CASE pendingFormat # "none" /\ WriteHost(m.copy, pendingFormat, pendingFormat = m.format)
      <4>1. Wants(m) = {m.format}
        BY <2>3 DEF OnFormatData, Wants
      <4>2. pendingFormat = m.format
        BY <1>3, <2>2, <3>2, <4>1
      <4>3. cached' = [n |-> m.copy, as |-> pendingFormat, sound |-> pendingFormat = m.format]
        BY <3>2 DEF WriteHost
      <4>4. cached'.sound = (pendingFormat = m.format)
        BY <4>3, Zenon
      <4> QED
        BY <4>2, <4>4
    <3> QED
      BY <2>3, <3>1, <3>2 DEF OnFormatData
  <2>4. ASSUME OnFormatError PROVE cached'.sound
    BY <1>3, <2>4 DEF OnFormatError, pageVars
  <2> QED
    BY <1>8, <2>1, <2>2, <2>3, <2>4
<1>9. ASSUME OnRemoteFileList
      PROVE  cached'.sound /\ V \subseteq U /\ pendingFormat' = "none"
  <2> DEFINE W == Asked(toRemote, Tail(toClient))
  <2>1. /\ toClient # << >> /\ Head(toClient).type = "filelist" /\ toClient' = Tail(toClient)
        /\ toRemote' = toRemote \o [i \in Indices |-> FileSize(nextStreamId + i - 1, i)]
        /\ UNCHANGED <<cached, pendingFormat>>
    BY <1>9 DEF OnRemoteFileList, pageVars
  <2>2. V = W
    BY <1>0, <2>1, HeadTyped, AskedSizes DEF V
  <2>3. Head(toClient) \in ToClient
    BY <2>1, HeadTyped
  <2>4. Wants(Head(toClient)) = {"files"}
    BY <2>1, <2>3 DEF Wants, ToClient
  <2>5. U = W \cup {"files"}
    BY <1>0, <2>1, <2>4, AskedTake DEF U
  <2>6. pendingFormat = "none"
    BY <1>0, <1>3, <2>5 DEF Texts
  <2> QED
    BY <1>3, <2>1, <2>2, <2>5, <2>6
<1>10. ASSUME Download
       PROVE  /\ cached'.sound /\ \A f, g \in V : f = g
              /\ pendingFormat' # "none" => pendingFormat' \in V
  <2>1. /\ U = {} /\ UNCHANGED <<toClient, pendingFormat, cached>>
        /\ UNCHANGED toRemote \/ toRemote' = Append(toRemote, Paste("files"))
    BY <1>1, <1>10 DEF Download, SendToRemote, backendVars
  <2>2. Paste("files") \in ToRemote /\ Wants(Paste("files")) = {"files"}
    BY Made, WantsOf DEF Formats
  <2>3. V = {} \/ V = {"files"}
    <3>1. V = Asked(toRemote', toClient)
      BY <2>1 DEF V
    <3>2. CASE UNCHANGED toRemote
      BY <2>1, <3>1, <3>2 DEF U
    <3>3. CASE toRemote' = Append(toRemote, Paste("files"))
      <4>1. V = U \cup Wants(Paste("files"))
        BY <1>0, <2>2, <3>1, <3>3, AskedSend DEF U
      <4> QED
        BY <2>1, <2>2, <4>1
    <3> QED
      BY <2>1, <3>2, <3>3
  <2> QED
    BY <1>3, <2>1, <2>3
<1>11. ASSUME Reconnect
       PROVE  cached'.sound /\ (\A f, g \in V : f = g) /\ pendingFormat' = "none"
  <2> DEFINE m == [type |-> "copy", formats |-> clip'.formats]
  <2>1. /\ toRemote' = << >> /\ pendingFormat' = "none" /\ UNCHANGED cached
        /\ toClient' = << >> \/ toClient' = <<m>>
    BY <1>11 DEF Reconnect, RemoteCopy, pageVars
  <2>2. Wants(m) = {Wanted(clip'.formats)} \ {"files", "none"}
    BY WantsOf
  <2> HIDE DEF m
  <2>3. Range(toClient') \subseteq {m} /\ Range(toRemote') = {}
    BY <2>1, RangeEmpty, RangeOne
  <2>4. V \subseteq {Wanted(clip'.formats)}
    BY <2>2, <2>3 DEF V, Asked
  <2> QED
    BY <1>3, <2>1, <2>4
<1>12. CASE /\ SideStep(toRemote, toRemote', ToRemote) /\ SideStep(toClient, toClient', ToClient)
            /\ UNCHANGED <<clip, pendingFormat, cached>>
  <2>1. V = U
    BY <1>0, <1>12, SideAsked DEF U, V
  <2> QED
    BY <1>4, <1>12, <2>1
<1> QED
  BY <1>3, <1>4, <1>5, <1>6, <1>7, <1>8, <1>9, <1>10, <1>11, <1>12, OtherSteps

LEMMA InitAgree == Init => Agree
<1> SUFFICES ASSUME Init PROVE Agree
  OBVIOUS
<1>1. cached.sound /\ pendingFormat = "none" /\ toRemote = << >> /\ toClient = << >>
  BY DEF Init
<1>2. Unanswered = {}
  BY <1>1, RangeEmpty DEF Unanswered
<1> QED
  BY <1>1, <1>2 DEF Agree

-----------------------------------------------------------------------------
(***************************************************************************)
(* What was copied last reaches the page.                                  *)
(***************************************************************************)
Copied(fs) == [type |-> "copy", formats |-> fs]

\* A message sent since copy n, of which the backend asks for w.
Fresh(m, w, n) ==
  /\ m.type # "copy"
  /\ m.type = "data" => m.format = w /\ m.copy = n
  /\ m.type = "error" => m.format # w

\* The k-th message of the queue tells of the last copy, or all were sent since, if k = 0.
Coming(q, k, fs, n) ==
  /\ k \in 0 .. Len(q)
  /\ \A j \in 1 .. Len(q) : j > k => Fresh(q[j], Wanted(fs), n)
  /\ k > 0 => q[k] = Copied(fs)

LEMMA ComingAppend ==
  ASSUME NEW T, NEW q \in Seq(T), NEW m \in T, NEW k \in Nat, NEW fs, NEW n,
         Coming(q, k, fs, n), Fresh(m, Wanted(fs), n)
  PROVE  Coming(Append(q, m), k, fs, n)
<1> DEFINE r == Append(q, m)
<1>1. /\ Len(r) = Len(q) + 1 /\ Len(q) \in Nat
      /\ \A i \in 1 .. Len(q) : r[i] = q[i]
      /\ r[Len(q) + 1] = m
  BY AppendProperties
<1> HIDE DEF r
<1>2. k \in 0 .. Len(r) /\ (k > 0 => k \in 1 .. Len(q))
  BY <1>1 DEF Coming
<1>3. ASSUME NEW j \in 1 .. Len(r), j > k PROVE Fresh(r[j], Wanted(fs), n)
  <2>1. j \in 1 .. Len(q) \/ j = Len(q) + 1
    BY <1>1
  <2> QED
    BY <1>1, <1>3, <2>1 DEF Coming
<1> QED
  BY <1>1, <1>2, <1>3 DEF Coming, r

LEMMA ComingTail ==
  ASSUME NEW T, NEW q \in Seq(T), q # << >>, NEW k \in Nat, NEW fs, NEW n, Coming(q, k, fs, n)
  PROVE  /\ k = 0 => Fresh(Head(q), Wanted(fs), n) /\ Coming(Tail(q), 0, fs, n)
         /\ k = 1 => Head(q) = Copied(fs) /\ Coming(Tail(q), 0, fs, n)
         /\ k > 1 => Coming(Tail(q), k - 1, fs, n)
<1> DEFINE r == Tail(q)
<1>1. /\ Len(r) = Len(q) - 1 /\ Len(q) \in Nat \ {0} /\ Head(q) = q[1]
      /\ \A i \in 1 .. Len(r) : r[i] = q[i + 1]
  BY HeadTailProperties, EmptySeq
<1> HIDE DEF r
<1>2. \A i \in 1 .. Len(r) : i + 1 \in 1 .. Len(q) /\ r[i] = q[i + 1]
  BY <1>1
<1>3. k = 0 => Fresh(Head(q), Wanted(fs), n)
  <2>1. 1 \in 1 .. Len(q)
    BY <1>1
  <2> QED
    BY <1>1, <2>1 DEF Coming
<1>4. k = 1 => Head(q) = Copied(fs)
  BY <1>1 DEF Coming
<1>5. ASSUME k <= 1 PROVE Coming(r, 0, fs, n)
  <2>1. 0 \in 0 .. Len(r)
    BY <1>1
  <2>2. ASSUME NEW j \in 1 .. Len(r) PROVE Fresh(r[j], Wanted(fs), n)
    <3>1. j + 1 > k
      BY <1>1, <1>5
    <3> QED
      BY <1>2, <3>1 DEF Coming
  <2> QED
    BY <2>1, <2>2 DEF Coming
<1>6. ASSUME k > 1 PROVE Coming(r, k - 1, fs, n)
  <2>1. k - 1 \in 1 .. Len(r) /\ k - 1 + 1 = k /\ k - 1 \in 0 .. Len(r)
    BY <1>1, <1>6 DEF Coming
  <2>2. r[k - 1] = Copied(fs)
    BY <1>2, <1>6, <2>1 DEF Coming
  <2>3. ASSUME NEW j \in 1 .. Len(r), j > k - 1 PROVE Fresh(r[j], Wanted(fs), n)
    <3>1. j + 1 > k
      BY <1>1, <2>3
    <3> QED
      BY <1>2, <3>1 DEF Coming
  <2> QED
    BY <2>1, <2>2, <2>3 DEF Coming
<1> QED
  BY <1>3, <1>4, <1>5, <1>6 DEF r

LEMMA ComingNew ==
  ASSUME NEW T, NEW q \in Seq(T), NEW fs, NEW n, Copied(fs) \in T
  PROVE  Coming(Append(q, Copied(fs)), Len(q) + 1, fs, n) /\ Len(q) + 1 \in Nat \ {0}
<1> DEFINE r == Append(q, Copied(fs))
<1>1. /\ Len(r) = Len(q) + 1 /\ Len(q) \in Nat
      /\ r[Len(q) + 1] = Copied(fs)
  BY AppendProperties
<1> HIDE DEF r
<1>2. \A j \in 1 .. Len(r) : ~(j > Len(q) + 1)
  BY <1>1
<1> QED
  BY <1>1, <1>2 DEF Coming, r

LEMMA SideComing ==
  ASSUME NEW T, NEW q \in Seq(T), NEW r, SideStep(q, r, T), NEW k \in Nat, NEW fs, NEW n,
         Coming(q, k, fs, n)
  PROVE  \E j \in Nat : Coming(r, j, fs, n) /\ (j = 0 => k = 0)
<1>1. CASE r = q
  BY <1>1
<1>2. ASSUME q # << >>, Side(Head(q)), r = Tail(q)
      PROVE  \E j \in Nat : Coming(r, j, fs, n) /\ (j = 0 => k = 0)
  <2>1. Head(q) # Copied(fs)
    BY <1>2 DEF Side, Copied
  <2>2. k # 1
    BY <1>2, <2>1, ComingTail
  <2>3. CASE k = 0
    <3>1. Coming(r, 0, fs, n)
      BY <1>2, <2>3, ComingTail
    <3> QED
      BY <2>3, <3>1
  <2>4. CASE k > 1
    <3>1. Coming(r, k - 1, fs, n)
      BY <1>2, <2>4, ComingTail
    <3>2. k - 1 \in Nat /\ k - 1 # 0
      BY <2>4
    <3> QED
      BY <3>1, <3>2
  <2> QED
    BY <2>2, <2>3, <2>4
<1>3. ASSUME NEW m \in T, Side(m), r = Append(q, m)
      PROVE  \E j \in Nat : Coming(r, j, fs, n) /\ (j = 0 => k = 0)
  <2>1. Fresh(m, Wanted(fs), n)
    BY <1>3 DEF Side, Fresh
  <2>2. Coming(r, k, fs, n)
    BY <1>3, <2>1, ComingAppend
  <2> QED
    BY <2>2
<1> QED
  BY <1>1, <1>2, <1>3 DEF SideStep

\* What is asked of the remote after a step.
LEMMA SidePastes ==
  ASSUME NEW T, NEW q \in Seq(T), NEW r, SideStep(q, r, T)
  PROVE  \A m \in Range(r) : m.type = "paste" => m \in Range(q)
<1>1. ASSUME q # << >>, r = Tail(q) PROVE \A m \in Range(r) : m.type = "paste" => m \in Range(q)
  BY <1>1, RangeTail
<1>2. ASSUME NEW x \in T, Side(x), r = Append(q, x)
      PROVE  \A m \in Range(r) : m.type = "paste" => m \in Range(q)
  BY <1>2, RangeAppend DEF Side
<1> QED
  BY <1>1, <1>2 DEF SideStep

\* The copy made last is on its way, or asked for, or there; and nothing else is asked for.
CatchesUp ==
  clip.n > 0 /\ Wanted(clip.formats) \in Texts =>
    /\ \A m \in Range(toRemote) : m.type = "paste" => m.format \in {Wanted(clip.formats), "files"}
    /\ \E k \in Nat :
         /\ Coming(toClient, k, clip.formats, clip.n)
         /\ k = 0 => \/ cached = [n |-> clip.n, as |-> Wanted(clip.formats), sound |-> TRUE]
                     \/ pendingFormat = Wanted(clip.formats)

\* What a message in the queues asks for is asked for.
LEMMA InFlight ==
  ASSUME Typed
  PROVE  /\ \A m \in Range(toRemote), f \in Formats : f \in Wants(m) => f \in Unanswered
         /\ \A m \in Range(toClient), f \in Formats : f \in Wants(m) => f \in Unanswered
<1>1. Unanswered = Asked(toRemote, toClient)
  BY UnansweredIs DEF Unanswered, Typed, ToRemoteOK, ToClientOK
<1> QED
  BY <1>1 DEF Asked

LEMMA CatchesUpCopy ==
  ASSUME Typed, ~Overlap, NEW formats \in Copies, RemoteCopies(formats) PROVE CatchesUp'
<1> DEFINE w == Wanted(formats)
<1>1. /\ clip' = [n |-> clip.n + 1, formats |-> formats] /\ UNCHANGED toRemote
      /\ toClient' = Append(toClient, Copied(formats))
  BY DEF RemoteCopies, SendToClient, RemoteCopy, Copied
<1>2. clip'.formats = formats
  BY <1>1
<1>3. w \in {"files", "none"} \/ Unanswered \subseteq {w}
  BY DEF RemoteCopies, Undisturbed
<1> HIDE DEF w
<1>4. ASSUME w \in Texts
      PROVE  \A m \in Range(toRemote') : m.type = "paste" => m.format \in {w, "files"}
  <2> SUFFICES ASSUME NEW m \in Range(toRemote), m.type = "paste" PROVE m.format = w
    BY <1>1
  <2>1. Wants(m) = {m.format}
    BY DEF Wants
  <2>2. m.format \in Formats
    BY RemoteFields DEF Typed, ToRemoteOK, Range
  <2>3. m.format \in Unanswered
    BY <2>1, <2>2, InFlight
  <2> QED
    BY <1>3, <1>4, <2>3 DEF Texts
<1>5. /\ Coming(toClient', Len(toClient) + 1, clip'.formats, clip'.n)
      /\ Len(toClient) + 1 \in Nat \ {0}
  <2>1. Copied(formats) \in ToClient
    BY Made, CliprdrAssumption DEF Copied
  <2>2. toClient \in Seq(ToClient)
    BY DEF Typed, ToClientOK
  <2> QED
    BY <1>1, <1>2, <2>1, <2>2, ComingNew
<1>6. w = Wanted(clip'.formats)
  BY <1>2 DEF w
<1> HIDE DEF w
<1>7. w \in Texts => \E k \in Nat : Coming(toClient', k, clip'.formats, clip'.n) /\ k # 0
  BY <1>5
<1> QED
  BY <1>4, <1>6, <1>7 DEF CatchesUp, Coming, Fresh, Wanted, Copied
LEMMA CatchesUpLater ==
  ASSUME Typed, Agree, CatchesUp, [Next]_vars, UNCHANGED clip PROVE CatchesUp'
<1> DEFINE fs == clip.formats
           n == clip.n
           w == Wanted(fs)
           last == [n |-> n, as |-> w, sound |-> TRUE]
           Pastes(q) == \A m \in Range(q) : m.type = "paste" => m.format \in {w, "files"}
           There(k) == k = 0 => cached' = last \/ pendingFormat' = w
           Ahead == \E k \in Nat : Coming(toClient', k, fs, n) /\ There(k)
<1>0. /\ toRemote \in Seq(ToRemote) /\ toClient \in Seq(ToClient)
      /\ toRemote' \in Seq(ToRemote) /\ toClient' \in Seq(ToClient)
      /\ nextStreamId \in Nat \ {0} /\ fs \in SUBSET Formats /\ Texts \subseteq Formats
  BY ToRemoteStep, ToClientStep DEF Typed, ToRemoteOK, ToClientOK, TransfersOK, ClipOK, Texts, Formats
<1>1. SUFFICES ASSUME n > 0, w \in Texts PROVE Pastes(toRemote') /\ Ahead
  <2>1. clip'.formats = fs /\ clip'.n = n
    OBVIOUS
  <2> QED
    BY <2>1 DEF CatchesUp, Coming, Fresh, Wanted, Copied
<1>2. PICK k \in Nat :
        /\ Pastes(toRemote)
        /\ Coming(toClient, k, fs, n)
        /\ k = 0 => cached = last \/ pendingFormat = w
  BY <1>1 DEF CatchesUp
<1>3. w \in fs /\ w # "files"
  BY <1>1, WantedIn DEF Texts
<1>4. \A f, g \in Unanswered : f = g
  BY DEF Agree
<1>5. pendingFormat = w => w \in Unanswered
  BY <1>1 DEF Agree, Texts
<1> HIDE DEF fs, n, w, last, Pastes, There
\* Taking the head of the queue.
<1>6. ASSUME toClient # << >>, toClient' = Tail(toClient)
      PROVE  /\ k = 0 => Fresh(Head(toClient), w, n) /\ Coming(toClient', 0, fs, n)
             /\ k = 1 => Head(toClient) = Copied(fs) /\ Coming(toClient', 0, fs, n)
             /\ k > 1 => Coming(toClient', k - 1, fs, n) /\ k - 1 \in Nat /\ There(k - 1)
  <2>1. /\ k = 0 => Fresh(Head(toClient), Wanted(fs), n) /\ Coming(toClient', 0, fs, n)
        /\ k = 1 => Head(toClient) = Copied(fs) /\ Coming(toClient', 0, fs, n)
        /\ k > 1 => Coming(toClient', k - 1, fs, n)
    BY <1>0, <1>2, <1>6, ComingTail
  <2>2. k > 1 => k - 1 \in Nat /\ k - 1 # 0
    OBVIOUS
  <2> QED
    BY <2>1, <2>2 DEF There, w
<1>7. ASSUME toClient # << >>, toClient' = Tail(toClient), Head(toClient).type # "copy", k = 0 => There(0)
      PROVE  Ahead
  <2>1. Head(toClient) # Copied(fs)
    BY <1>7 DEF Copied
  <2>2. k = 0 \/ k = 1 \/ k > 1
    OBVIOUS
  <2>3. 0 \in Nat
    OBVIOUS
  <2>4. CASE k = 0
    BY <1>6, <1>7, <2>3, <2>4
  <2>5. CASE k > 1
    BY <1>6, <1>7, <2>5
  <2> QED
    BY <1>6, <1>7, <2>1, <2>2, <2>4, <2>5
<1>8. CASE /\ SideStep(toRemote, toRemote', ToRemote) /\ SideStep(toClient, toClient', ToClient)
           /\ UNCHANGED <<clip, pendingFormat, cached>>
  <2>1. Pastes(toRemote')
    BY <1>0, <1>2, <1>8, SidePastes DEF Pastes
  <2>2. PICK j \in Nat : Coming(toClient', j, fs, n) /\ (j = 0 => k = 0)
    BY <1>0, <1>2, <1>8, SideComing
  <2>3. There(j)
    BY <1>2, <1>8, <2>2 DEF There
  <2> QED
    BY <2>1, <2>2, <2>3
<1>9. ASSUME RemoteGivesData PROVE Pastes(toRemote') /\ Ahead
  <2> DEFINE f == Head(toRemote).format
             m == IF f \notin clip.formats THEN Error(f)
                  ELSE IF f = "files" THEN FileList(clip.n) ELSE Data(f, clip.n)
  <2>1. /\ toRemote # << >> /\ Head(toRemote).type = "paste" /\ toRemote' = Tail(toRemote)
        /\ UNCHANGED <<pendingFormat, cached>>
    BY <1>9 DEF RemoteGivesData, backendVars, pageVars
  <2>2. m \in ToClient /\ toClient' = Append(toClient, m)
    BY <1>9, DataGiven
  <2>3. f \in {w, "files"} /\ Pastes(toRemote')
    BY <1>0, <1>2, <2>1, RangeTail DEF Pastes
  <2>4. Fresh(m, w, n)
    <3>1. CASE f \notin clip.formats
      <4>1. m = Error(f) /\ f # w
        BY <1>3, <3>1 DEF fs
      <4> QED
        BY <4>1 DEF Fresh, Error
    <3>2. CASE f \in clip.formats /\ f = "files"
      <4>1. m = FileList(clip.n)
        BY <3>2
      <4> QED
        BY <4>1 DEF Fresh, FileList
    <3>3. CASE f \in clip.formats /\ f # "files"
      <4>1. m = Data(w, n)
        BY <2>3, <3>3 DEF n
      <4> QED
        BY <4>1 DEF Fresh, Data
    <3> QED
      BY <3>1, <3>2, <3>3
  <2> HIDE DEF m
  <2>5. Coming(toClient', k, fs, n)
    BY <1>0, <1>2, <2>2, <2>4, ComingAppend DEF w
  <2>6. There(k)
    BY <1>2, <2>1 DEF There
  <2> QED
    BY <2>3, <2>5, <2>6
<1>10. ASSUME OnRemoteCopy PROVE Pastes(toRemote') /\ Ahead
  <2> DEFINE m == Head(toClient)
             want == Wanted(m.formats)
  <2>1. /\ toClient # << >> /\ m.type = "copy" /\ toClient' = Tail(toClient) /\ UNCHANGED cached
        /\ \/ want \in Texts /\ pendingFormat' = want /\ toRemote' = Append(toRemote, Paste(want))
           \/ want \in {"files", "none"} /\ UNCHANGED <<pendingFormat, toRemote>>
    BY <1>10 DEF OnRemoteCopy, SendToRemote, Texts
  <2>2. Wants(m) = {want} \ {"files", "none"} /\ m \in Range(toClient)
    BY <2>1, HeadTyped DEF Wants
  <2>3. k # 0
    <3>1. ~Fresh(m, w, n)
      BY <2>1 DEF Fresh
    <3> QED
      BY <1>6, <2>1, <3>1
  <2>4. w \in Unanswered
    <3>1. k \in 1 .. Len(toClient) /\ toClient[k] = Copied(fs)
      BY <1>2, <2>3 DEF Coming
    <3>2. Copied(fs) \in Range(toClient)
      BY <1>0, <3>1 DEF Range
    <3>3. Wants(Copied(fs)) = {w} \ {"files", "none"}
      BY WantsOf DEF Copied, w
    <3> QED
      BY <1>0, <1>1, <3>2, <3>3, InFlight DEF Texts
  <2>5. want \in Texts => want = w
    <3>1. want \in Texts => want \in Wants(m) /\ want \in Formats
      BY <1>0, <2>2 DEF Texts
    <3>2. want \in Texts => want \in Unanswered
      BY <2>2, <3>1, InFlight
    <3> QED
      BY <1>4, <2>4, <3>2
  <2>6. k = 1 => want = w
    BY <1>6, <2>1 DEF Copied, w
  <2> HIDE DEF want
  <2>7. Pastes(toRemote')
    <3>1. CASE UNCHANGED toRemote
      BY <1>2, <3>1
    <3>2. CASE want \in Texts /\ toRemote' = Append(toRemote, Paste(want))
      <4>1. Paste(w) \in ToRemote /\ Paste(w).format = w
        BY <1>0, <1>1, Made DEF Paste
      <4>2. Range(toRemote') = Range(toRemote) \cup {Paste(w)}
        BY <1>0, <2>5, <3>2, <4>1, RangeAppend
      <4> QED
        BY <1>2, <4>1, <4>2 DEF Pastes
    <3> QED
      BY <2>1, <3>1, <3>2
  <2>8. CASE k = 1
    <3>1. Coming(toClient', 0, fs, n) /\ 0 \in Nat
      BY <1>6, <2>1, <2>8
    <3>2. There(0)
      BY <1>1, <2>1, <2>6, <2>8 DEF There, Texts
    <3> QED
      BY <2>7, <3>1, <3>2
  <2>9. CASE k > 1
    BY <1>6, <2>1, <2>7, <2>9
  <2> QED
    BY <2>3, <2>8, <2>9
<1>11. ASSUME OnFormatData PROVE Pastes(toRemote') /\ Ahead
  <2> DEFINE m == Head(toClient)
  <2>1. toClient # << >> /\ m.type = "data" /\ toClient' = Tail(toClient) /\ UNCHANGED toRemote
    BY <1>11 DEF OnFormatData
  <2>2. ASSUME k = 0 PROVE cached' = last
    <3>1. m.format = w /\ m.copy = n
      BY <1>6, <2>1, <2>2 DEF Fresh
    <3>2. Wants(m) = {m.format} /\ m \in Range(toClient)
      BY <2>1, HeadTyped DEF Wants
    <3>3. w \in Unanswered
      BY <1>0, <1>1, <3>1, <3>2, InFlight
    <3>4. pendingFormat # "none" => pendingFormat = w
      BY <1>4, <3>3 DEF Agree
    <3>5. CASE pendingFormat # "none" /\ WriteHost(m.copy, pendingFormat, pendingFormat = m.format)
      <4>1. cached' = [n |-> n, as |-> w, sound |-> w = w]
        BY <3>1, <3>4, <3>5 DEF WriteHost
      <4> QED
        BY <4>1 DEF last
    <3>6. CASE pendingFormat \notin {"text", m.format} /\ UNCHANGED cached
      BY <1>2, <2>2, <3>1, <3>6
    <3> QED
      BY <1>11, <3>5, <3>6 DEF OnFormatData
  <2>3. k = 0 => There(0)
    BY <2>2 DEF There
  <2>4. m.type # "copy"
    BY <2>1
  <2> QED
    BY <1>2, <1>7, <2>1, <2>3, <2>4
<1>12. ASSUME OnFormatError PROVE Pastes(toRemote') /\ Ahead
  <2> DEFINE m == Head(toClient)
  <2>1. /\ toClient # << >> /\ m.type = "error" /\ toClient' = Tail(toClient)
        /\ UNCHANGED <<toRemote, cached>>
    BY <1>12 DEF OnFormatError, pageVars
  <2>2. ASSUME k = 0 PROVE cached' = last
    <3>1. m.format # w
      BY <1>6, <2>1, <2>2 DEF Fresh
    <3>2. Wants(m) = {m.format} /\ m \in Range(toClient) /\ m \in ToClient
      BY <2>1, HeadTyped DEF Wants
    <3>3. m.format \in Formats
      BY <3>2, WantsFormat
    <3>4. m.format \in Unanswered
      BY <3>2, <3>3, InFlight
    <3>5. pendingFormat # w
      BY <1>4, <1>5, <3>1, <3>4
    <3> QED
      BY <1>2, <2>1, <2>2, <3>5
  <2>3. k = 0 => There(0)
    BY <2>2 DEF There
  <2>4. m.type # "copy"
    BY <2>1
  <2> QED
    BY <1>2, <1>7, <2>1, <2>3, <2>4
<1>13. ASSUME OnRemoteFileList PROVE Pastes(toRemote') /\ Ahead
  <2> DEFINE asks == [i \in Indices |-> FileSize(nextStreamId + i - 1, i)]
  <2>1. /\ toClient # << >> /\ Head(toClient).type = "filelist" /\ toClient' = Tail(toClient)
        /\ toRemote' = toRemote \o asks /\ UNCHANGED <<cached, pendingFormat>>
    BY <1>13 DEF OnRemoteFileList, pageVars
  <2>2. asks \in Seq(ToRemote) /\ Range(asks) = {FileSize(nextStreamId + i - 1, i) : i \in Indices}
    BY <1>0, SizeAsks
  <2> HIDE DEF asks
  <2>3. Range(toRemote') = Range(toRemote) \cup Range(asks)
    BY <1>0, <2>1, <2>2, RangeConcat
  <2>4. \A m \in Range(asks) : m.type # "paste"
    BY <2>2 DEF FileSize
  <2>5. Pastes(toRemote')
    BY <1>2, <2>3, <2>4 DEF Pastes
  <2>6. k = 0 => There(0)
    BY <1>2, <2>1 DEF There
  <2>7. Head(toClient).type # "copy"
    BY <2>1
  <2> QED
    BY <1>7, <2>1, <2>5, <2>6, <2>7
<1>14. ASSUME Download PROVE Pastes(toRemote') /\ Ahead
  <2>1. UNCHANGED <<toClient, pendingFormat, cached>>
        /\ (UNCHANGED toRemote \/ toRemote' = Append(toRemote, Paste("files")))
    BY <1>14 DEF Download, SendToRemote, backendVars
  <2>2. Paste("files") \in ToRemote /\ Paste("files").format = "files"
    BY Made DEF Formats, Paste
  <2>3. toRemote' = Append(toRemote, Paste("files"))
          => Range(toRemote') = Range(toRemote) \cup {Paste("files")}
    BY <1>0, <2>2, RangeAppend
  <2>4. Pastes(toRemote')
    BY <1>2, <2>1, <2>2, <2>3 DEF Pastes
  <2>5. There(k) /\ Coming(toClient', k, fs, n)
    BY <1>2, <2>1 DEF There
  <2> QED
    BY <2>4, <2>5
<1>15. ASSUME Reconnect PROVE Pastes(toRemote') /\ Ahead
  <2>1. /\ toRemote' = << >> /\ toClient' = IF n = 0 THEN << >> ELSE <<Copied(fs)>>
    BY <1>15 DEF Reconnect, RemoteCopy, Copied, n, fs
  <2>2. toClient' = Append(<< >>, Copied(fs))
    BY <1>1, <2>1
  <2>3. Copied(fs) \in ToClient /\ << >> \in Seq(ToClient) /\ Len(<< >>) + 1 \in Nat \ {0}
    BY <1>0, Made DEF Copied
  <2>4. Coming(toClient', Len(<< >>) + 1, fs, n)
    BY <2>2, <2>3, ComingNew
  <2>5. Pastes(toRemote')
    BY <2>1, RangeEmpty DEF Pastes
  <2>6. There(Len(<< >>) + 1)
    BY <2>3 DEF There
  <2> QED
    BY <2>3, <2>4, <2>5, <2>6
<1>16. ~ \E formats \in Copies : RemoteCopies(formats)
  <2> SUFFICES ASSUME NEW formats \in Copies, RemoteCopies(formats) PROVE FALSE
    OBVIOUS
  <2>1. clip' = clip /\ clip'.n = clip.n + 1 /\ clip.n \in 0 .. MaxCopies
    BY DEF RemoteCopies, Typed, ClipOK
  <2> QED
    BY <2>1, CliprdrAssumption
<1> QED
  BY <1>8, <1>9, <1>10, <1>11, <1>12, <1>13, <1>14, <1>15, <1>16, OtherSteps

LEMMA CatchesUpStep == Typed /\ Agree /\ CatchesUp /\ ~Overlap /\ [Next]_vars => CatchesUp'
<1>1. [Next]_vars => UNCHANGED clip \/ (\E formats \in Copies : RemoteCopies(formats))
  BY DEF Next, vars, remoteVars, RemoteGivesData, RemoteTakes, RemoteGivesContents, OnRemoteCopy,
         OnFormatData, OnFormatError, OnRemoteFileList, OnFileContents, Download, RetryWrite,
         RetryWritten, HostCopies, HostOffersFile, RemoteTakesOffer, RemotePulls,
         OnFileContentsRequest, RemoteTakesRange, Reconnect
<1> QED
  BY <1>1, CatchesUpCopy, CatchesUpLater

\* on_remote_copy and on_format_data_response bring the last copy to the page: once both
\* queues are empty it is cached there, as what it is, whatever was answered before it and
\* whether or not the host clipboard could be written.
THEOREM CatchingUp == ~Overlap => (Spec => []HostCatchesUp)
<1> SUFFICES ASSUME ~Overlap PROVE Spec => []HostCatchesUp
  OBVIOUS
<1> DEFINE IInv == Typed /\ Agree /\ CatchesUp
<1>1. Init => IInv
  <2>1. Init => CatchesUp
    BY DEF Init, CatchesUp
  <2> QED
    BY <2>1, InitTyped, InitAgree
<1>2. IInv /\ [Next]_vars => IInv'
  BY TypedStep, AgreeStep, CatchesUpStep
<1>3. IInv => HostCatchesUp
  <2> SUFFICES ASSUME IInv, toRemote = << >>, toClient = << >>, clip.n > 0,
                      Wanted(clip.formats) \notin {"files", "none"}
               PROVE  cached = [n |-> clip.n, as |-> Wanted(clip.formats), sound |-> TRUE]
    BY DEF HostCatchesUp
  <2>1. Wanted(clip.formats) \in Texts
    BY WantedIs
  <2>2. PICK k \in Nat :
          /\ Coming(toClient, k, clip.formats, clip.n)
          /\ k = 0 => \/ cached = [n |-> clip.n, as |-> Wanted(clip.formats), sound |-> TRUE]
                      \/ pendingFormat = Wanted(clip.formats)
    BY <2>1 DEF CatchesUp
  <2>3. k = 0
    BY <2>2 DEF Coming
  <2>4. Unanswered = {}
    BY RangeEmpty DEF Unanswered
  <2>5. pendingFormat = "none"
    BY <2>4 DEF Agree
  <2> QED
    BY <2>2, <2>3, <2>5
<1> HIDE DEF IInv
<1> QED
  BY <1>1, <1>2, <1>3, PTL DEF Spec

-----------------------------------------------------------------------------
(***************************************************************************)
(* A paste of our file.                                                    *)
(***************************************************************************)
\* A step sends and takes no message of these types.
Leaves(q, r, types) == \A m : m.type \in types => (m \in Range(q) <=> m \in Range(r))

LEMMA LeavesTail ==
  ASSUME NEW T, NEW q \in Seq(T), q # << >>, NEW types, Head(q).type \notin types
  PROVE  Leaves(q, Tail(q), types)
BY RangeTail DEF Leaves

LEMMA LeavesAppend ==
  ASSUME NEW T, NEW q \in Seq(T), NEW m \in T, NEW types, m.type \notin types
  PROVE  Leaves(q, Append(q, m), types)
BY RangeAppend DEF Leaves

LEMMA LeavesSame == ASSUME NEW q, NEW types PROVE Leaves(q, q, types)
BY DEF Leaves

LEMMA TypeOf ==
  /\ \A f : Paste(f).type = "paste" /\ Error(f).type = "error"
  /\ \A f, c : Data(f, c).type = "data" /\ FileList(c).type = "filelist"
  /\ \A s, i, p, n : FileSize(s, i).type = "size" /\ FileRange(s, i, p, n).type = "range"
  /\ \A h : FileOffer(h).type = "offer" /\ FileOffer(h).file = h
  /\ \A p : AskRange(p).type = "ask" /\ AskRange(p).position = p /\ AskRange(p).size = CHUNK_SIZE
BY DEF Paste, Error, Data, FileList, FileSize, FileRange, FileOffer, AskRange

\* What the backend sends for an answer to a download.
LEMMA ContinueSends ==
  ASSUME Typed, OnFileContents
  PROVE  toRemote' = toRemote \/ \E m \in ToRemote : m.type = "range" /\ toRemote' = Append(toRemote, m)
<1> DEFINE m == Head(toClient)
           rest == Restrict(fileTransfers, DOMAIN fileTransfers \ {m.id})
           t == fileTransfers[m.id]
<1>1. /\ m.type = "total" => m.size \in Nat /\ << >> \in Seq(Files \X Nat)
      /\ m.id \in DOMAIN fileTransfers => t \in Transfers
      /\ m.type = "contents" /\ m.id \in DOMAIN fileTransfers
           => t.total \in Nat /\ t.data \o m.data \in Seq(Files \X Nat)
  BY AnswerTyped, Zenon
<1>2. \/ UNCHANGED toRemote
      \/ m.id \in DOMAIN fileTransfers /\ m.type = "total" /\ Continue(rest, t, m.size, << >>)
      \/ m.id \in DOMAIN fileTransfers /\ m.type = "contents" /\ Continue(rest, t, t.total, t.data \o m.data)
  BY DEF OnFileContents
<1> HIDE DEF m, rest, t
<1>3. ASSUME NEW total \in Nat, NEW data \in Seq(Files \X Nat), t \in Transfers,
             Continue(rest, t, total, data)
      PROVE  toRemote' = toRemote \/ \E x \in ToRemote : x.type = "range" /\ toRemote' = Append(toRemote, x)
  <2> DEFINE chunk == Min({total - Min({Len(data), total}), CHUNK_SIZE})
             x == FileRange(nextStreamId, t.file.index, Len(data), chunk)
  <2>1. Len(data) \in Nat
    OBVIOUS
  <2>2. chunk \in Nat
    BY <2>1, ChunkEnd
  <2>3. toRemote' = toRemote \/ toRemote' = Append(toRemote, x)
    BY <1>3 DEF Continue, SendToRemote
  <2> HIDE DEF chunk
  <2>4. t.file.index \in Indices /\ nextStreamId \in Nat
    BY <1>3 DEF Transfers, Files, Typed, TransfersOK
  <2>5. x \in ToRemote /\ x.type = "range"
    BY <2>1, <2>2, <2>4, Made, TypeOf
  <2> HIDE DEF x
  <2> QED
    BY <2>3, <2>5
<1> QED
  BY <1>1, <1>2, <1>3

PullTypes == {"offer", "given", "refused", "ask"}

LEMMA PullOthers ==
  ASSUME Typed, [Next]_vars
  PROVE  \/ HostOffersFile \/ RemoteTakesOffer \/ RemotePulls \/ OnFileContentsRequest
         \/ RemoteTakesRange \/ Reconnect
         \/ /\ Leaves(toRemote, toRemote', PullTypes) /\ Leaves(toClient, toClient', PullTypes)
            /\ UNCHANGED <<offer, pull, pulled, pendingFile, trapped>>
<1> DEFINE Left == /\ Leaves(toRemote, toRemote', PullTypes) /\ Leaves(toClient, toClient', PullTypes)
                   /\ UNCHANGED <<offer, pull, pulled, pendingFile, trapped>>
<1>0. /\ toRemote \in Seq(ToRemote) /\ toClient \in Seq(ToClient) /\ nextStreamId \in Nat \ {0}
      /\ clip.formats \in SUBSET Formats
  BY DEF Typed, ToRemoteOK, ToClientOK, TransfersOK, ClipOK
<1>1. CASE UNCHANGED vars \/ RetryWrite \/ RetryWritten \/ HostCopies
  BY <1>1, LeavesSame DEF vars, remoteVars, lastingVars, RetryWrite, RetryWritten, HostCopies
<1>2. ASSUME NEW formats \in Copies, RemoteCopies(formats) PROVE Left
  <2> DEFINE m == [type |-> "copy", formats |-> formats]
  <2>1. m \in ToClient /\ m.type \notin PullTypes
    BY Made, CliprdrAssumption DEF PullTypes
  <2>2. toClient' = Append(toClient, m) /\ UNCHANGED <<toRemote, offer, pull, pulled, pendingFile, trapped>>
    BY <1>2 DEF RemoteCopies, SendToClient, RemoteCopy, lastingVars
  <2> HIDE DEF m
  <2> QED
    BY <1>0, <2>1, <2>2, LeavesSame, LeavesAppend
<1>3. ASSUME RemoteGivesData PROVE Left
  <2> DEFINE f == Head(toRemote).format
             m == IF f \notin clip.formats THEN Error(f)
                  ELSE IF f = "files" THEN FileList(clip.n) ELSE Data(f, clip.n)
  <2>1. /\ toRemote # << >> /\ Head(toRemote).type = "paste" /\ toRemote' = Tail(toRemote)
        /\ UNCHANGED <<offer, pull, pulled, pendingFile, trapped>>
    BY <1>3 DEF RemoteGivesData, remoteVars, lastingVars
  <2>2. m \in ToClient /\ toClient' = Append(toClient, m)
    BY <1>3, DataGiven
  <2>3. m.type \notin PullTypes
    BY TypeOf DEF PullTypes
  <2> HIDE DEF m
  <2>4. Leaves(toRemote, toRemote', PullTypes)
    BY <1>0, <2>1, LeavesTail DEF PullTypes
  <2>5. Leaves(toClient, toClient', PullTypes)
    BY <1>0, <2>2, <2>3, LeavesAppend
  <2> QED
    BY <2>1, <2>4, <2>5
<1>4. ASSUME RemoteTakes PROVE Left
  <2>1. /\ toRemote # << >> /\ Head(toRemote).type \in {"size", "range"} /\ toRemote' = Tail(toRemote)
        /\ UNCHANGED <<toClient, offer, pull, pulled, pendingFile, trapped>>
    BY <1>4 DEF RemoteTakes, lastingVars
  <2>2. Head(toRemote).type \notin PullTypes
    BY <2>1 DEF PullTypes
  <2> QED
    BY <1>0, <2>1, <2>2, LeavesSame, LeavesTail
<1>5. ASSUME NEW r \in requests, RemoteGivesContents(r) PROVE Left
  <2>1. PICK m \in ToClient : toClient' = Append(toClient, m) /\ m.type \in {"failed", "total", "contents"}
    BY <1>5, ContentsGiven
  <2>2. UNCHANGED <<toRemote, offer, pull, pulled, pendingFile, trapped>>
    BY <1>5 DEF RemoteGivesContents, lastingVars
  <2>3. m.type \notin PullTypes
    BY <2>1 DEF PullTypes
  <2> QED
    BY <1>0, <2>1, <2>2, <2>3, LeavesSame, LeavesAppend
<1>6. ASSUME OnRemoteCopy \/ OnFormatData \/ OnFormatError \/ OnRemoteFileList \/ OnFileContents
      PROVE  Leaves(toClient, toClient', PullTypes) /\ UNCHANGED <<offer, pull, pulled, pendingFile, trapped>>
  <2>1. /\ toClient # << >> /\ toClient' = Tail(toClient)
        /\ Head(toClient).type \in {"copy", "data", "error", "filelist", "contents", "total", "failed"}
        /\ UNCHANGED <<offer, pull, pulled, pendingFile, trapped>>
    BY <1>6 DEF OnRemoteCopy, OnFormatData, OnFormatError, OnRemoteFileList, OnFileContents,
                remoteVars, lastingVars
  <2>2. Head(toClient).type \notin PullTypes
    BY <2>1 DEF PullTypes
  <2> QED
    BY <1>0, <2>1, <2>2, LeavesTail
<1>7. ASSUME OnRemoteCopy PROVE Leaves(toRemote, toRemote', PullTypes)
  <2> DEFINE want == Wanted(Head(toClient).formats)
  <2>1. UNCHANGED toRemote \/ (want \in Texts /\ toRemote' = Append(toRemote, Paste(want)))
    BY <1>7 DEF OnRemoteCopy, SendToRemote, Texts
  <2> HIDE DEF want
  <2>2. want \in Texts => Paste(want) \in ToRemote /\ Paste(want).type \notin PullTypes
    BY Made, TypeOf DEF Texts, Formats, PullTypes
  <2> QED
    BY <1>0, <2>1, <2>2, LeavesSame, LeavesAppend
<1>8. ASSUME OnFormatData \/ OnFormatError PROVE Leaves(toRemote, toRemote', PullTypes)
  BY <1>8, LeavesSame DEF OnFormatData, OnFormatError
<1>9. ASSUME OnRemoteFileList PROVE Leaves(toRemote, toRemote', PullTypes)
  <2> DEFINE asks == [i \in Indices |-> FileSize(nextStreamId + i - 1, i)]
  <2>1. toRemote' = toRemote \o asks
    BY <1>9 DEF OnRemoteFileList
  <2>2. asks \in Seq(ToRemote) /\ Range(asks) = {FileSize(nextStreamId + i - 1, i) : i \in Indices}
    BY <1>0, SizeAsks
  <2> HIDE DEF asks
  <2>3. Range(toRemote') = Range(toRemote) \cup Range(asks)
    BY <1>0, <2>1, <2>2, RangeConcat
  <2>4. \A m \in Range(asks) : m.type \notin PullTypes
    BY <2>2, TypeOf DEF PullTypes
  <2> QED
    BY <2>3, <2>4 DEF Leaves
<1>10. ASSUME OnFileContents PROVE Leaves(toRemote, toRemote', PullTypes)
  <2>1. "range" \notin PullTypes
    BY DEF PullTypes
  <2> QED
    BY <1>0, <1>10, <2>1, ContinueSends, LeavesSame, LeavesAppend
<1>11. ASSUME Download PROVE Left
  <2>1. UNCHANGED <<toClient, offer, pull, pulled, pendingFile, trapped>>
        /\ (UNCHANGED toRemote \/ toRemote' = Append(toRemote, Paste("files")))
    BY <1>11 DEF Download, SendToRemote, remoteVars, lastingVars
  <2>2. Paste("files") \in ToRemote /\ Paste("files").type \notin PullTypes
    BY Made, TypeOf DEF Formats, PullTypes
  <2> QED
    BY <1>0, <2>1, <2>2, LeavesSame, LeavesAppend
<1> HIDE DEF Left
<1>12. ASSUME OnRemoteCopy \/ OnFormatData \/ OnFormatError \/ OnRemoteFileList \/ OnFileContents
       PROVE  Left
  BY <1>6, <1>7, <1>8, <1>9, <1>10, <1>12 DEF Left
<1> QED
  BY <1>1, <1>2, <1>3, <1>4, <1>5, <1>11, <1>12 DEF Next, Left

\* An offer on its way is of the file in the slot, and so is what the remote knows of.
Offering ==
  /\ \A m \in Range(toRemote) : m.type = "offer" => m.file = pendingFile
  /\ (\A m \in Range(toRemote) : m.type # "offer") => offer \in {0, pendingFile}

\* The next range of a paste that has read p bytes.
Slice(h, p) == Bytes(h, p, Min({p + CHUNK_SIZE, HostSizes[h]}))

\* A paste has read the first p bytes of file h, and waits for the next ones.
ReadTo(s, tr, tc, h, p) ==
  /\ h # 0 /\ p \in 0 .. HostSizes[h]
  /\ s = <<[file |-> h, data |-> Bytes(h, 0, p)]>>
  /\ \A m \in Range(tc) : m.type = "ask" => m = AskRange(p)
  /\ \A m \in Range(tr) : m.type = "given" => m.data = Slice(h, p)

Pulling ==
  /\ Offering
  /\ pull # << >> => \E p \in Nat : ReadTo(pull, toRemote, toClient, pendingFile, p)
  /\ PulledWhole
  /\ ~trapped

LEMMA SliceEnd ==
  ASSUME NEW h \in HostFiles, NEW p \in Nat, p <= HostSizes[h]
  PROVE  LET e == Min({p + CHUNK_SIZE, HostSizes[h]})
         IN  /\ e \in Nat /\ p <= e /\ e <= HostSizes[h] /\ HostSizes[h] \in Nat
             /\ e = p => p = HostSizes[h]
             /\ Len(Slice(h, p)) = e - p
             /\ Bytes(h, 0, p) \o Slice(h, p) = Bytes(h, 0, e)
             /\ Len(Bytes(h, 0, e)) = e
<1> DEFINE e == Min({p + CHUNK_SIZE, HostSizes[h]})
<1>1. HostSizes[h] \in Nat /\ CHUNK_SIZE \in Nat \ {0}
  BY CliprdrAssumption DEF HostFiles
<1>2. e = IF p + CHUNK_SIZE <= HostSizes[h] THEN p + CHUNK_SIZE ELSE HostSizes[h]
  BY <1>1, MinOfTwo
<1>3. Slice(h, p) = Bytes(h, p, e)
  BY DEF Slice
<1> HIDE DEF e
<1>4. e \in Nat /\ p <= e /\ e <= HostSizes[h] /\ (e = p => p = HostSizes[h]) /\ 0 <= p /\ 0 <= e
  BY <1>1, <1>2
<1>5. Len(Bytes(h, p, e)) = e - p
  BY <1>4, BytesType
<1>6. Len(Bytes(h, 0, e)) = e - 0
  BY <1>4, BytesType
<1>7. Bytes(h, 0, p) \o Bytes(h, p, e) = Bytes(h, 0, e)
  BY <1>4, BytesConcat
<1>8. /\ e \in Nat /\ p <= e /\ e <= HostSizes[h] /\ HostSizes[h] \in Nat
      /\ e = p => p = HostSizes[h]
      /\ Len(Slice(h, p)) = e - p
      /\ Bytes(h, 0, p) \o Slice(h, p) = Bytes(h, 0, e)
      /\ Len(Bytes(h, 0, e)) = e
  <2>1. Len(Slice(h, p)) = e - p
    BY <1>3, <1>5
  <2>2. Bytes(h, 0, p) \o Slice(h, p) = Bytes(h, 0, e)
    BY <1>3, <1>7
  <2>3. Len(Bytes(h, 0, e)) = e
    BY <1>4, <1>6
  <2> QED
    BY <1>1, <1>4, <2>1, <2>2, <2>3
<1> QED
  BY <1>8, Zenon DEF e

LEMMA InitPulling == Init => Pulling
BY RangeEmpty DEF Init, Pulling, Offering, PulledWhole

LEMMA RangeFirst == ASSUME NEW m PROVE Range(Append(<< >>, m)) = {m}
<1>1. Append(<< >>, m) = <<m>>
  OBVIOUS
<1> QED
  BY <1>1, RangeOne

LEMMA OfferingStep == Typed /\ Offering /\ ~Overlap /\ [Next]_vars => Offering'
<1> SUFFICES ASSUME Typed, Offering, ~Overlap, [Next]_vars PROVE Offering'
  OBVIOUS
<1>0. toRemote \in Seq(ToRemote) /\ pendingFile \in 0 .. Len(HostSizes)
  BY DEF Typed, ToRemoteOK, OffersOK
<1>1. CASE Leaves(toRemote, toRemote', PullTypes) /\ UNCHANGED <<offer, pendingFile>>
  BY <1>1 DEF Offering, Leaves, PullTypes
<1>2. ASSUME HostOffersFile PROVE Offering'
  <2>1. /\ toRemote = << >> /\ toRemote' = Append(toRemote, FileOffer(pendingFile'))
        /\ pendingFile' = pendingFile + 1 /\ pendingFile < Len(HostSizes)
    BY <1>2 DEF HostOffersFile, Quiet, SendToRemote
  <2>2. Range(toRemote') = {FileOffer(pendingFile')}
    BY <2>1, RangeFirst
  <2> QED
    BY <2>2, TypeOf DEF Offering
<1>3. ASSUME RemoteTakesOffer PROVE Offering'
  <2>1. /\ toRemote # << >> /\ Head(toRemote).type = "offer" /\ toRemote' = Tail(toRemote)
        /\ offer' = Head(toRemote).file /\ pendingFile' = pendingFile
    BY <1>3 DEF RemoteTakesOffer, lastingVars
  <2>2. Range(toRemote) = Range(toRemote') \cup {Head(toRemote)}
    BY <1>0, <2>1, RangeTail
  <2> QED
    BY <2>1, <2>2 DEF Offering
<1>4. ASSUME RemotePulls PROVE Offering'
  BY <1>4 DEF RemotePulls, Offering, lastingVars
<1>5. ASSUME OnFileContentsRequest PROVE Offering'
  <2>1. /\ UNCHANGED <<offer, pendingFile>>
        /\ \/ UNCHANGED toRemote
           \/ toRemote' = Append(toRemote, [type |-> "refused"])
           \/ \E bs : toRemote' = Append(toRemote, [type |-> "given", data |-> bs])
    BY <1>5 DEF OnFileContentsRequest, SendToRemote, remoteVars
  <2>2. ASSUME NEW m, m.type # "offer", toRemote' = Append(toRemote, m)
        PROVE  Range(toRemote') = Range(toRemote) \cup {m}
    <3>1. toRemote \in Seq(ToRemote \cup {m}) /\ m \in ToRemote \cup {m}
      BY <1>0
    <3> QED
      BY <2>2, <3>1, RangeAppend
  <2>3. ASSUME NEW m, m.type # "offer", toRemote' = Append(toRemote, m) PROVE Offering'
    BY <2>1, <2>2, <2>3 DEF Offering
  <2>4. ASSUME UNCHANGED toRemote PROVE Offering'
    BY <2>1, <2>4 DEF Offering
  <2> QED
    BY <2>1, <2>3, <2>4
<1>6. ASSUME RemoteTakesRange PROVE Offering'
  <2>1. /\ toRemote # << >> /\ Head(toRemote).type \in {"given", "refused"} /\ toRemote' = Tail(toRemote)
        /\ UNCHANGED <<offer, pendingFile>>
    BY <1>6 DEF RemoteTakesRange, lastingVars
  <2>2. Range(toRemote) = Range(toRemote') \cup {Head(toRemote)}
    BY <1>0, <2>1, RangeTail
  <2> QED
    BY <2>1, <2>2 DEF Offering
<1>7. ASSUME Reconnect PROVE Offering'
  <2>1. toRemote' = << >> /\ offer' = 0
    BY <1>7 DEF Reconnect
  <2> QED
    BY <2>1, RangeEmpty DEF Offering
<1> QED
  BY <1>1, <1>2, <1>3, <1>4, <1>5, <1>6, <1>7, PullOthers

LEMMA PullingStep == Typed /\ Pulling /\ ~Overlap /\ [Next]_vars => Pulling'
<1> SUFFICES ASSUME Typed, Pulling, ~Overlap, [Next]_vars PROVE Pulling'
  OBVIOUS
<1> DEFINE Reading == \E p \in Nat : ReadTo(pull', toRemote', toClient', pendingFile', p)
           Good == (pull' # << >> => Reading) /\ PulledWhole' /\ ~trapped'
<1>0. /\ toRemote \in Seq(ToRemote) /\ toClient \in Seq(ToClient)
      /\ pendingFile \in 0 .. Len(HostSizes) /\ PulledWhole /\ ~trapped /\ Offering
  BY DEF Typed, ToRemoteOK, ToClientOK, OffersOK, Pulling
<1>1. SUFFICES Good
  BY <1>0, OfferingStep DEF Pulling, ReadTo, Slice, AskRange, Bytes
<1>2. UNCHANGED pulled => PulledWhole'
  BY <1>0 DEF PulledWhole
<1>3. CASE /\ Leaves(toRemote, toRemote', PullTypes) /\ Leaves(toClient, toClient', PullTypes)
           /\ UNCHANGED <<pull, pulled, pendingFile, trapped>>
  <2>1. ASSUME NEW p \in Nat, ReadTo(pull, toRemote, toClient, pendingFile, p) PROVE Reading
    <3>1. ReadTo(pull', toRemote', toClient', pendingFile', p)
      BY <1>3, <2>1 DEF ReadTo, Leaves, PullTypes
    <3> QED
      BY <3>1
  <2> QED
    BY <1>0, <1>2, <1>3, <2>1 DEF Pulling
<1>4. ASSUME HostOffersFile PROVE Good
  <2>1. pull' = << >> /\ UNCHANGED <<pulled, trapped>>
    BY <1>4 DEF HostOffersFile, Quiet, remoteVars
  <2> QED
    BY <1>0, <1>2, <2>1
<1>5. ASSUME RemoteTakesOffer PROVE Good
  <2>1. /\ toRemote # << >> /\ toRemote' = Tail(toRemote)
        /\ UNCHANGED <<toClient, pull, pulled, pendingFile, trapped>>
    BY <1>5 DEF RemoteTakesOffer, lastingVars
  <2>2. Range(toRemote') \subseteq Range(toRemote)
    BY <1>0, <2>1, RangeTail
  <2>3. ASSUME NEW p \in Nat, ReadTo(pull, toRemote, toClient, pendingFile, p) PROVE Reading
    <3>1. ReadTo(pull', toRemote', toClient', pendingFile', p)
      BY <2>1, <2>2, <2>3 DEF ReadTo
    <3> QED
      BY <3>1
  <2> QED
    BY <1>0, <1>2, <2>1, <2>3 DEF Pulling
<1>6. ASSUME RemotePulls PROVE Good
  <2>1. /\ offer # 0 /\ toRemote = << >> /\ toClient = << >>
        /\ pull' = <<[file |-> offer, data |-> << >>]>>
        /\ toClient' = Append(toClient, AskRange(0))
        /\ UNCHANGED <<pulled, toRemote, pendingFile, trapped>>
    BY <1>6 DEF RemotePulls, Quiet, SendToClient, lastingVars
  <2>2. offer = pendingFile
    BY <1>0, <2>1, RangeEmpty DEF Offering
  <2>3. pendingFile \in HostFiles /\ HostSizes[pendingFile] \in Nat
    BY <1>0, <2>1, <2>2, CliprdrAssumption DEF HostFiles
  <2>4. Bytes(pendingFile, 0, 0) = << >>
    BY DEF Bytes
  <2>5. Range(toClient') = {AskRange(0)} /\ Range(toRemote') = {}
    BY <2>1, RangeFirst, RangeEmpty
  <2>6. ReadTo(pull', toRemote', toClient', pendingFile', 0)
    BY <2>1, <2>2, <2>3, <2>4, <2>5 DEF ReadTo
  <2> QED
    BY <1>0, <1>2, <2>1, <2>6
<1>7. ASSUME OnFileContentsRequest PROVE Good
  <2> DEFINE m == Head(toClient)
             h == pendingFile
             end == Min({m.position + m.size, HostSizes[h]})
  <2>1. /\ toClient # << >> /\ m.type = "ask" /\ toClient' = Tail(toClient)
        /\ UNCHANGED <<pull, pulled, pendingFile>>
        /\ \/ toRemote' = Append(toRemote, [type |-> "refused"]) /\ UNCHANGED trapped
           \/ /\ h # 0 /\ trapped' = (m.position > end)
              /\ ~(m.position > end)
                   => toRemote' = Append(toRemote, [type |-> "given", data |-> Bytes(h, m.position, end)])
    BY <1>7 DEF OnFileContentsRequest, SendToRemote, remoteVars
  <2>2. pull # << >>
    <3>1. Kind(m) = "pull"
      BY <2>1 DEF Kind
    <3>2. ~None(toClient, "pull")
      BY <1>0, <2>1, <3>1, NoneTail
    <3> QED
      BY <3>2 DEF Typed, PullOK, Nowhere
  <2>3. PICK p \in Nat : ReadTo(pull, toRemote, toClient, h, p)
    BY <2>2 DEF Pulling
  <2>4. h \in HostFiles /\ HostSizes[h] \in Nat /\ p <= HostSizes[h]
    BY <1>0, <2>3, CliprdrAssumption DEF HostFiles, ReadTo
  <2>5. m.position = p /\ m.size = CHUNK_SIZE
    <3>1. m = AskRange(p)
      BY <2>1, <2>3, HeadTyped DEF ReadTo
    <3> QED
      BY <3>1, TypeOf
  <2>6. end \in Nat /\ p <= end /\ Bytes(h, p, end) = Slice(h, p)
    BY <2>4, <2>5, SliceEnd DEF Slice
  <2>7. Range(toClient') \subseteq Range(toClient)
    BY <1>0, <2>1, RangeTail
  <2> HIDE DEF end, m
  <2>8. ~(m.position > end)
    BY <2>5, <2>6
  <2>9. \/ toRemote' = Append(toRemote, [type |-> "refused"])
        \/ toRemote' = Append(toRemote, [type |-> "given", data |-> Slice(h, p)])
    BY <2>1, <2>5, <2>6, <2>8
  <2>10. ~trapped'
    BY <1>0, <2>1, <2>8, Zenon
  <2>11. ASSUME NEW x, toRemote' = Append(toRemote, x) PROVE Range(toRemote') = Range(toRemote) \cup {x}
    <3>1. toRemote \in Seq(ToRemote \cup {x}) /\ x \in ToRemote \cup {x}
      BY <1>0
    <3> QED
      BY <2>11, <3>1, RangeAppend
  <2>12. \A x \in Range(toRemote') : x.type = "given" => x.data = Slice(h, p)
    <3>1. \A x \in Range(toRemote) : x.type = "given" => x.data = Slice(h, p)
      BY <2>3 DEF ReadTo
    <3>2. CASE toRemote' = Append(toRemote, [type |-> "refused"])
      BY <2>11, <3>1, <3>2
    <3>3. CASE toRemote' = Append(toRemote, [type |-> "given", data |-> Slice(h, p)])
      BY <2>11, <3>1, <3>3
    <3> QED
      BY <2>9, <3>2, <3>3
  <2>13. ReadTo(pull', toRemote', toClient', pendingFile', p)
    BY <2>1, <2>3, <2>7, <2>12 DEF ReadTo
  <2> QED
    BY <1>2, <2>1, <2>10, <2>13
<1>8. ASSUME RemoteTakesRange PROVE Good
  <2> DEFINE m == Head(toRemote)
             h == pendingFile
             data == pull[1].data \o m.data
  <2>1. /\ toRemote # << >> /\ Kind(m) = "pull" /\ pull # << >>
        /\ toRemote' = Tail(toRemote) /\ UNCHANGED <<pendingFile, trapped>>
    BY <1>8, RangeTaken DEF RemoteTakesRange, lastingVars
  <2>2. CASE pull' = << >> /\ UNCHANGED pulled
    BY <1>0, <1>2, <2>1, <2>2
  <2>3. ASSUME m.type = "given" PROVE Good
    <3>1. PICK p \in Nat : ReadTo(pull, toRemote, toClient, h, p)
      BY <2>1 DEF Pulling
    <3> DEFINE e == Min({p + CHUNK_SIZE, HostSizes[h]})
    <3>2. h \in HostFiles /\ p <= HostSizes[h]
      BY <1>0, <3>1, CliprdrAssumption DEF HostFiles, ReadTo
    <3>3. m.data = Slice(h, p)
      BY <2>1, <2>3, <3>1, HeadTyped DEF ReadTo
    <3>4. pull[1] = [file |-> h, data |-> Bytes(h, 0, p)]
      BY <3>1 DEF ReadTo
    <3> HIDE DEF m
    <3>5. LET d == Min({p + CHUNK_SIZE, HostSizes[h]})
           IN  /\ d \in Nat /\ p <= d /\ d <= HostSizes[h] /\ HostSizes[h] \in Nat
               /\ d = p => p = HostSizes[h]
               /\ Len(Slice(h, p)) = d - p
               /\ Bytes(h, 0, p) \o Slice(h, p) = Bytes(h, 0, d)
               /\ Len(Bytes(h, 0, d)) = d
      BY <3>2, SliceEnd, Zenon
    <3>6. data = Bytes(h, 0, p) \o Slice(h, p)
      BY <3>3, <3>4
    <3> HIDE DEF data
    <3>7. /\ e \in Nat /\ p <= e /\ e <= HostSizes[h] /\ HostSizes[h] \in Nat
          /\ e = p => p = HostSizes[h]
          /\ Len(m.data) = e - p
          /\ data = Bytes(h, 0, e) /\ Len(Bytes(h, 0, e)) = e
      BY <3>3, <3>5, <3>6
    <3> HIDE DEF e
    <3>8. m.data = << >> => e = p
      BY <3>7
    <3>9. [pull[1] EXCEPT !.data = data] = [file |-> h, data |-> Bytes(h, 0, e)] /\ pull[1].file = h
      BY <3>4, <3>7
    <3>10. \/ /\ m.data = << >> \/ Len(data) >= HostSizes[pull[1].file]
              /\ pull' = << >> /\ pulled' = <<[pull[1] EXCEPT !.data = data]>>
           \/ /\ m.data # << >> /\ Len(data) < HostSizes[pull[1].file]
              /\ pull' = <<[pull[1] EXCEPT !.data = data]>>
              /\ toClient' = Append(toClient, AskRange(Len(data)))
              /\ UNCHANGED pulled
      BY <1>8, <2>3 DEF RemoteTakesRange, SendToClient, m, data
    <3>11. ASSUME m.data = << >> \/ Len(data) >= HostSizes[pull[1].file],
                 pull' = << >>, pulled' = <<[pull[1] EXCEPT !.data = data]>>
          PROVE  Good
      <4>1. e = HostSizes[h]
        BY <3>7, <3>8, <3>9, <3>11
      <4>2. pulled' = <<[file |-> h, data |-> WholeHost(h)]>>
        BY <3>9, <3>11, <4>1 DEF WholeHost
      <4>3. PulledWhole'
        <5> DEFINE x == [file |-> h, data |-> WholeHost(h)]
        <5>1. x.data = WholeHost(h) /\ x.file = h
          OBVIOUS
        <5> HIDE DEF x
        <5>2. \A k \in DOMAIN pulled' : pulled'[k] = x
          BY <4>2 DEF x
        <5>3. \A k \in DOMAIN pulled' : pulled'[k].data = WholeHost(pulled'[k].file)
          BY <5>1, <5>2
        <5> QED
          BY <5>3 DEF PulledWhole, WholeHost, Bytes
      <4> QED
        BY <1>0, <2>1, <3>11, <4>3
    <3>12. ASSUME pull' = <<[pull[1] EXCEPT !.data = data]>>, UNCHANGED pulled,
                  toClient' = Append(toClient, AskRange(Len(data)))
           PROVE  Good
      <4>1. toClient' = Append(toClient, AskRange(e)) /\ pull' = <<[file |-> h, data |-> Bytes(h, 0, e)]>>
        BY <3>7, <3>9, <3>12
      <4>2. Range(toClient') = Range(toClient) \cup {AskRange(e)}
        BY <1>0, <3>7, <4>1, Made, RangeAppend
      <4>3. None(toRemote', "pull") /\ None(toClient, "pull")
        <5>1. One(toRemote, "pull") /\ (None(toRemote, "pull") \/ None(toClient, "pull"))
          BY DEF Typed, PullOK, Alone
        <5>2. ~None(toRemote, "pull") /\ None(toRemote', "pull")
          BY <1>0, <2>1, <5>1, NoneTail DEF m
        <5> QED
          BY <5>1, <5>2
      <4>4. \A x \in Range(toClient) : x.type # "ask"
        BY <1>0, <4>3 DEF Range, None, Kind
      <4>5. \A x \in Range(toRemote') : x.type # "given"
        <5>1. toRemote' \in Seq(ToRemote)
          BY <1>0, <2>1, RangeTail
        <5> QED
          BY <4>3, <5>1 DEF Range, None, Kind
      <4>6. ReadTo(pull', toRemote', toClient', pendingFile', e)
        BY <2>1, <3>1, <3>7, <4>1, <4>2, <4>4, <4>5 DEF ReadTo
      <4> QED
        BY <1>0, <1>2, <2>1, <3>7, <3>12, <4>6
    <3> QED
      BY <3>10, <3>11, <3>12
  <2>4. (pull' = << >> /\ UNCHANGED pulled) \/ m.type = "given"
    BY <1>8 DEF RemoteTakesRange
  <2> QED
    BY <2>2, <2>3, <2>4
<1>9. ASSUME Reconnect PROVE Good
  <2>1. pull' = << >> /\ UNCHANGED <<pulled, trapped>>
    BY <1>9 DEF Reconnect, lastingVars
  <2> QED
    BY <1>0, <1>2, <2>1
<1> HIDE DEF Good
<1> QED
  BY <1>3, <1>4, <1>5, <1>6, <1>7, <1>8, <1>9, PullOthers

\* on_file_contents_request slices the file that the remote was offered: what the remote
\* has read at the end is all of it, and no slice ends before it starts, which would panic.
THEOREM PastesAreWhole == ~Overlap => (Spec => [](PulledWhole /\ NeverTraps))
<1> SUFFICES ASSUME ~Overlap PROVE Spec => [](PulledWhole /\ NeverTraps)
  OBVIOUS
<1>1. Init => Typed /\ Pulling
  BY InitTyped, InitPulling
<1>2. Typed /\ Pulling /\ [Next]_vars => (Typed /\ Pulling)'
  BY TypedStep, PullingStep
<1>3. Typed /\ Pulling => PulledWhole /\ NeverTraps
  BY DEF Pulling, NeverTraps
<1> QED
  BY <1>1, <1>2, <1>3, PTL DEF Spec

-----------------------------------------------------------------------------
(***************************************************************************)
(* Downloads.                                                              *)
(***************************************************************************)
\* At most one file list is asked for or on its way, of the last copy, and then no file is
\* being downloaded.
Listing ==
  /\ Alone("list")
  /\ Nowhere("list") \/ DOMAIN fileTransfers = {}
  /\ \A m \in Range(toClient) : m.type = "filelist" => m.copy = clip.n

\* A message that has to do with a file list asks for one.
LEMMA NoListing ==
  ASSUME Typed, "files" \notin Unanswered
  PROVE  /\ Nowhere("list")
         /\ \A m \in Range(toClient) : m.type # "filelist"
<1>0. /\ toRemote \in Seq(ToRemote) /\ toClient \in Seq(ToClient) /\ "files" \in Formats
      /\ \A m \in Range(toRemote) : m \in ToRemote
      /\ \A m \in Range(toClient) : m \in ToClient
  BY DEF Typed, ToRemoteOK, ToClientOK, Formats, Range
<1>1. ASSUME NEW m \in ToRemote, Kind(m) = "list" PROVE "files" \in Wants(m)
  <2>1. m.type = "paste" /\ m.format = "files"
    BY <1>1 DEF Kind, ToRemote, FileAsks
  <2> QED
    BY <2>1 DEF Wants
<1>2. ASSUME NEW m \in ToClient, Kind(m) = "list" PROVE "files" \in Wants(m)
  <2>1. m.type = "filelist" /\ m.format = "files"
    BY <1>2 DEF Kind, ToClient
  <2> QED
    BY <2>1 DEF Wants
<1>3. \A m \in Range(toRemote) : Kind(m) # "list"
  BY <1>0, <1>1, InFlight
<1>4. \A m \in Range(toClient) : Kind(m) # "list"
  BY <1>0, <1>2, InFlight
<1>5. None(toRemote, "list") /\ None(toClient, "list")
  <2>1. \A i \in 1 .. Len(toRemote) : toRemote[i] \in Range(toRemote)
    BY <1>0 DEF Range
  <2>2. \A i \in 1 .. Len(toClient) : toClient[i] \in Range(toClient)
    BY <1>0 DEF Range
  <2> QED
    BY <1>3, <1>4, <2>1, <2>2 DEF None
<1>6. \A m : m.type = "filelist" => Kind(m) = "list"
  BY DEF Kind
<1> QED
  BY <1>4, <1>5, <1>6 DEF Nowhere

\* A list that comes in, or is answered, leaves none behind.
LEMMA ListTaken ==
  ASSUME Typed, Listing
  PROVE  /\ toClient # << >> /\ Kind(Head(toClient)) = "list"
              => /\ DOMAIN fileTransfers = {} /\ None(toRemote, "list") /\ None(Tail(toClient), "list")
         /\ toRemote # << >> /\ Kind(Head(toRemote)) = "list"
              => /\ DOMAIN fileTransfers = {} /\ None(Tail(toRemote), "list") /\ None(toClient, "list")
<1>0. toRemote \in Seq(ToRemote) /\ toClient \in Seq(ToClient)
  BY DEF Typed, ToRemoteOK, ToClientOK
<1>1. ASSUME toClient # << >>, Kind(Head(toClient)) = "list"
      PROVE  /\ DOMAIN fileTransfers = {} /\ None(toRemote, "list") /\ None(Tail(toClient), "list")
  <2>1. ~None(toClient, "list") /\ (One(toClient, "list") => None(Tail(toClient), "list"))
    BY <1>0, <1>1, NoneTail
  <2> QED
    BY <2>1 DEF Listing, Nowhere, Alone
<1>2. ASSUME toRemote # << >>, Kind(Head(toRemote)) = "list"
      PROVE  /\ DOMAIN fileTransfers = {} /\ None(Tail(toRemote), "list") /\ None(toClient, "list")
  <2>1. ~None(toRemote, "list") /\ (One(toRemote, "list") => None(Tail(toRemote), "list"))
    BY <1>0, <1>2, NoneTail
  <2> QED
    BY <2>1 DEF Listing, Nowhere, Alone
<1> QED
  BY <1>1, <1>2

LEMMA ListsKept ==
  ASSUME Typed, [Next]_vars
  PROVE  RemoteGivesData \/ \A m \in Range(toClient') : m.type = "filelist" => m \in Range(toClient)
<1> DEFINE Kept == \A m \in Range(toClient') : m.type = "filelist" => m \in Range(toClient)
<1>0. toClient \in Seq(ToClient)
  BY DEF Typed, ToClientOK
<1>1. ASSUME toClient # << >>, toClient' = Tail(toClient) PROVE Kept
  BY <1>0, <1>1, RangeTail
<1>2. ASSUME NEW x \in ToClient, x.type # "filelist", toClient' = Append(toClient, x) PROVE Kept
  BY <1>0, <1>2, RangeAppend
<1>3. ASSUME SideStep(toClient, toClient', ToClient) PROVE Kept
  BY <1>1, <1>2, <1>3 DEF SideStep, Side
<1>4. ASSUME OnRemoteCopy \/ OnFormatData \/ OnFormatError \/ OnRemoteFileList PROVE Kept
  <2>1. toClient # << >> /\ toClient' = Tail(toClient)
    BY <1>4 DEF OnRemoteCopy, OnFormatData, OnFormatError, OnRemoteFileList
  <2> QED
    BY <1>1, <2>1
<1>5. ASSUME NEW formats \in Copies, RemoteCopies(formats) PROVE Kept
  <2> DEFINE m == [type |-> "copy", formats |-> formats]
  <2>1. m \in ToClient /\ m.type # "filelist"
    BY Made, CliprdrAssumption
  <2>2. toClient' = Append(toClient, m)
    BY <1>5 DEF RemoteCopies, SendToClient, RemoteCopy
  <2> HIDE DEF m
  <2> QED
    BY <1>2, <2>1, <2>2
<1>6. ASSUME Download PROVE Kept
  BY <1>6 DEF Download
<1>7. ASSUME Reconnect PROVE Kept
  <2> DEFINE m == [type |-> "copy", formats |-> clip'.formats]
  <2>1. m.type # "filelist" /\ (toClient' = << >> \/ toClient' = <<m>>)
    BY <1>7 DEF Reconnect, RemoteCopy
  <2> HIDE DEF m
  <2>2. Range(toClient') \subseteq {m}
    BY <2>1, RangeEmpty, RangeOne
  <2> QED
    BY <2>1, <2>2
<1> HIDE DEF Kept
<1>8. RemoteGivesData \/ Kept
  BY <1>3, <1>4, <1>5, <1>6, <1>7, OtherSteps
<1> QED
  BY <1>8 DEF Kept

LEMMA ListingStep == Typed /\ Listing /\ ~Overlap /\ [Next]_vars => Listing'
<1> SUFFICES ASSUME Typed, Listing, ~Overlap, [Next]_vars PROVE Listing'
  OBVIOUS
<1>0. toRemote \in Seq(ToRemote) /\ toClient \in Seq(ToClient)
  BY DEF Typed, ToRemoteOK, ToClientOK
<1>1. \A m \in Range(toClient') : m.type = "filelist" => m.copy = clip'.n
  <2>1. ASSUME RemoteGivesData PROVE \A m \in Range(toClient') : m.type = "filelist" => m.copy = clip'.n
    <3> DEFINE f == Head(toRemote).format
               m == IF f \notin clip.formats THEN Error(f)
                    ELSE IF f = "files" THEN FileList(clip.n) ELSE Data(f, clip.n)
    <3>1. m \in ToClient /\ toClient' = Append(toClient, m)
      BY <2>1, DataGiven
    <3>2. m.type = "filelist" => m.copy = clip.n
      <4>1. m = Error(f) \/ m = FileList(clip.n) \/ m = Data(f, clip.n)
        OBVIOUS
      <4>2. FileList(clip.n).copy = clip.n
        BY DEF FileList
      <4> HIDE DEF m
      <4> QED
        BY <4>1, <4>2, TypeOf
    <3>3. clip' = clip
      BY <2>1 DEF RemoteGivesData, remoteVars
    <3> HIDE DEF m
    <3>4. Range(toClient') = Range(toClient) \cup {m}
      BY <1>0, <3>1, RangeAppend
    <3> QED
      BY <3>2, <3>3, <3>4 DEF Listing
  <2>2. ASSUME NEW formats \in Copies, RemoteCopies(formats)
        PROVE  \A m \in Range(toClient') : m.type = "filelist" => m.copy = clip'.n
    <3>1. "files" \notin Unanswered
      BY <2>2 DEF RemoteCopies, Undisturbed
    <3>2. \A m \in Range(toClient) : m.type # "filelist"
      BY <3>1, NoListing
    <3>3. ~RemoteGivesData
      <4>1. RemoteGivesData => clip' = clip
        BY DEF RemoteGivesData, remoteVars
      <4>2. clip'.n = clip.n + 1 /\ clip.n \in Nat
        BY <2>2, CliprdrAssumption DEF RemoteCopies, Typed, ClipOK
      <4> QED
        BY <4>1, <4>2
    <3> QED
      BY <3>2, <3>3, ListsKept
  <2>3. (\E formats \in Copies : RemoteCopies(formats)) \/ UNCHANGED clip
    BY DEF Next, vars, remoteVars, RemoteGivesData, RemoteTakes, RemoteGivesContents, OnRemoteCopy,
           OnFormatData, OnFormatError, OnRemoteFileList, OnFileContents, Download, RetryWrite,
           RetryWritten, HostCopies, HostOffersFile, RemoteTakesOffer, RemotePulls,
           OnFileContentsRequest, RemoteTakesRange, Reconnect
  <2> QED
    BY <2>1, <2>2, <2>3, ListsKept DEF Listing
<1>2. ASSUME Keeps(toRemote, toRemote', "list"), Keeps(toClient, toClient', "list") PROVE Listing'
  <2>1. (Nowhere("list") => Nowhere("list")') /\ (Alone("list") => Alone("list")')
    BY <1>2, AloneKept
  <2>2. Nowhere("list")' \/ DOMAIN fileTransfers' = {}
    <3>1. CASE UNCHANGED fileTransfers
      BY <2>1, <3>1 DEF Listing
    <3>2. ASSUME OnRemoteFileList PROVE Nowhere("list")'
      <4>1. /\ toClient # << >> /\ Head(toClient).type = "filelist" /\ toClient' = Tail(toClient)
        BY <3>2 DEF OnRemoteFileList
      <4>2. Kind(Head(toClient)) = "list"
        BY <4>1 DEF Kind
      <4>3. None(toRemote, "list") /\ None(toClient', "list")
        BY <4>1, <4>2, ListTaken
      <4>4. None(toRemote', "list")
        BY <1>2, <4>3 DEF Keeps
      <4> QED
        BY <4>3, <4>4, NowhereNow
    <3>3. ASSUME OnFileContents, DOMAIN fileTransfers = {} PROVE DOMAIN fileTransfers' = {}
      <4> DEFINE m == Head(toClient)
                 rest == Restrict(fileTransfers, DOMAIN fileTransfers \ {m.id})
      <4>1. DOMAIN rest = {}
        BY <3>3 DEF Restrict
      <4>2. fileTransfers' = rest
        BY <3>3 DEF OnFileContents
      <4> QED
        BY <4>1, <4>2
    <3>4. ASSUME Reconnect PROVE DOMAIN fileTransfers' = {}
      BY <3>4 DEF Reconnect
    <3>5. UNCHANGED fileTransfers \/ OnRemoteFileList \/ OnFileContents \/ Reconnect
      BY DEF Next, vars, backendVars, RemoteCopies, RemoteGivesData, RemoteTakes,
             RemoteGivesContents, OnRemoteCopy, OnFormatData, OnFormatError, Download, RetryWrite,
             RetryWritten, HostCopies, HostOffersFile, RemoteTakesOffer, RemotePulls,
             OnFileContentsRequest, RemoteTakesRange
    <3> QED
      BY <2>1, <3>1, <3>2, <3>3, <3>4, <3>5 DEF Listing
  <2> QED
    BY <1>1, <2>1, <2>2 DEF Listing
<1>3. ASSUME Reconnect PROVE Listing'
  <2> DEFINE m == [type |-> "copy", formats |-> clip'.formats]
  <2>1. toRemote' = << >> /\ DOMAIN fileTransfers' = {} /\ (toClient' = << >> \/ toClient' = <<m>>)
    BY <1>3 DEF Reconnect, RemoteCopy
  <2>2. Kind(m) = "other"
    BY KindOf
  <2> HIDE DEF m
  <2>3. None(<<m>>, "list") /\ None(<< >>, "list")
    BY <2>2 DEF None
  <2>4. None(toClient', "list") /\ None(toRemote', "list") /\ One(toRemote', "list") /\ One(toClient', "list")
    BY <2>1, <2>3, NoneIsOne
  <2>5. Alone("list")'
    BY <2>4, NowhereNow
  <2> QED
    BY <1>1, <2>1, <2>5 DEF Listing
<1>4. ASSUME Download PROVE Listing'
  <2>1. /\ Unanswered = {} /\ DOMAIN fileTransfers = {} /\ UNCHANGED <<toClient, fileTransfers>>
        /\ UNCHANGED toRemote \/ toRemote' = Append(toRemote, Paste("files"))
    BY <1>4 DEF Download, SendToRemote, backendVars
  <2>2. None(toRemote, "list") /\ None(toClient, "list") /\ One(toRemote, "list") /\ One(toClient, "list")
    BY <2>1, NoListing, NoneIsOne DEF Nowhere
  <2>3. One(toRemote', "list")
    <3>1. Paste("files") \in ToRemote
      BY Made DEF Formats
    <3> QED
      BY <1>0, <2>1, <2>2, <3>1, OneAppend
  <2>4. Alone("list")'
    BY <2>1, <2>2, <2>3, NowhereNow
  <2> QED
    BY <1>1, <2>1, <2>4 DEF Listing
<1>5. ASSUME RemoteGivesData PROVE Listing'
  <2> DEFINE f == Head(toRemote).format
             m == IF f \notin clip.formats THEN Error(f)
                  ELSE IF f = "files" THEN FileList(clip.n) ELSE Data(f, clip.n)
  <2>1. /\ toRemote # << >> /\ Head(toRemote).type = "paste" /\ toRemote' = Tail(toRemote)
        /\ UNCHANGED fileTransfers
    BY <1>5 DEF RemoteGivesData, backendVars
  <2>2. m \in ToClient /\ toClient' = Append(toClient, m)
    BY <1>5, DataGiven
  <2>3. CASE f = "files"
    <3>1. Kind(Head(toRemote)) = "list"
      BY <2>1, <2>3 DEF Kind
    <3>2. DOMAIN fileTransfers = {} /\ None(toRemote', "list") /\ None(toClient, "list")
      BY <2>1, <3>1, ListTaken
    <3> HIDE DEF m
    <3>3. One(toClient', "list") /\ One(toRemote', "list")
      BY <1>0, <2>2, <3>2, OneAppend, NoneIsOne
    <3>4. Alone("list")'
      BY <3>2, <3>3, NowhereNow
    <3> QED
      BY <1>1, <2>1, <3>2, <3>4 DEF Listing
  <2>4. CASE f # "files"
    <3>1. Kind(m) # "list"
      BY <2>4, KindOf
    <3> HIDE DEF m
    <3>2. Keeps(toRemote, toRemote', "list") /\ Keeps(toClient, toClient', "list")
      BY <1>0, <2>1, <2>2, <3>1, KeepsTail, KeepsAppend
    <3> QED
      BY <1>2, <3>2
  <2> QED
    BY <2>3, <2>4
<1> QED
  BY <1>2, <1>3, <1>4, <1>5, QueuesKeep

\* A request and an answer fit the transfer they are for, if it is still there.
AskFits(m, ft, next) ==
  /\ m.id < next
  /\ m.id \in DOMAIN ft =>
       /\ m.index = ft[m.id].file.index
       /\ m.type = "size" => ft[m.id].size
       /\ m.type = "range" => /\ ~ft[m.id].size /\ m.position = Len(ft[m.id].data)
                              /\ m.position + m.size <= ft[m.id].total

AnswerFits(m, ft, next) ==
  /\ m.id < next
  /\ m.id \in DOMAIN ft =>
       /\ m.type = "total" => ft[m.id].size /\ m.size = Sizes[ft[m.id].file.index]
       /\ m.type = "contents" =>
            /\ ~ft[m.id].size
            /\ \E to \in Nat : /\ Len(ft[m.id].data) <= to /\ to <= ft[m.id].total
                               /\ m.data = Bytes(ft[m.id].file, Len(ft[m.id].data), to)

\* A transfer is of the last copy, and has the first bytes of its file.
TransferFits(t, n) ==
  /\ t.file.copy = n
  /\ ~t.size => /\ t.total = Sizes[t.file.index] /\ Len(t.data) <= t.total
                /\ t.data = Bytes(t.file, 0, Len(t.data))

Transferring(ft, n) ==
  /\ \A s \in DOMAIN ft : TransferFits(ft[s], n)
  /\ \A s, u \in DOMAIN ft : ft[s].file = ft[u].file => s = u

Answers == {"total", "contents", "failed"}
Fitting(tr, tc, rq, ft, next) ==
  /\ \A m \in rq : AskFits(m, ft, next)
  /\ \A m \in Range(tr) : m.type \in {"size", "range"} => AskFits(m, ft, next)
  /\ \A m \in Range(tc) : m.type \in Answers => AnswerFits(m, ft, next)

Fetching ==
  /\ Fitting(toRemote, toClient, requests, fileTransfers, nextStreamId)
  /\ Transferring(fileTransfers, clip.n)
  /\ SavedWhole

\* Transfers only begin under new ids.
Later(ft, next, ft2, next2) ==
  /\ next <= next2
  /\ \A s \in DOMAIN ft2 : s < next => s \in DOMAIN ft /\ ft2[s] = ft[s]

LEMMA FitsLater ==
  ASSUME NEW tr \in Seq(ToRemote), NEW tc \in Seq(ToClient), NEW rq \in SUBSET FileAsks,
         NEW ft, NEW next \in Nat, NEW ft2, NEW next2 \in Nat,
         Later(ft, next, ft2, next2), Fitting(tr, tc, rq, ft, next)
  PROVE  Fitting(tr, tc, rq, ft2, next2)
<1>1. ASSUME NEW m, m.id \in Nat, AskFits(m, ft, next) PROVE AskFits(m, ft2, next2)
  <2>1. m.id < next2
    BY <1>1 DEF AskFits, Later
  <2>2. m.id \in DOMAIN ft2 => m.id \in DOMAIN ft /\ ft2[m.id] = ft[m.id]
    BY <1>1 DEF AskFits, Later
  <2> QED
    BY <1>1, <2>1, <2>2 DEF AskFits
<1>2. ASSUME NEW m, m.id \in Nat, AnswerFits(m, ft, next) PROVE AnswerFits(m, ft2, next2)
  <2>1. m.id < next2
    BY <1>2 DEF AnswerFits, Later
  <2>2. m.id \in DOMAIN ft2 => m.id \in DOMAIN ft /\ ft2[m.id] = ft[m.id]
    BY <1>2 DEF AnswerFits, Later
  <2> QED
    BY <1>2, <2>1, <2>2 DEF AnswerFits
<1>3. \A m \in rq : m.id \in Nat
  BY DEF FileAsks
<1>4. \A m \in Range(tr) : m.type \in {"size", "range"} => m.id \in Nat
  <2>1. \A m \in FileAsks : m.id \in Nat
    BY DEF FileAsks
  <2>2. \A m \in Range(tr) : m \in ToRemote
    BY DEF Range
  <2> QED
    BY <2>1, <2>2, RemoteFields
<1>5. \A m \in Range(tc) : m.type \in Answers => m.id \in Nat
  <2>1. \A m \in Range(tc) : m \in ToClient
    BY DEF Range
  <2> QED
    BY <2>1, ClientFields DEF Answers
<1> QED
  BY <1>1, <1>2, <1>3, <1>4, <1>5 DEF Fitting

\* Fewer messages.
LEMMA FitsFewer ==
  ASSUME NEW tr, NEW tc, NEW rq, NEW ft, NEW next, NEW tr2, NEW tc2, NEW rq2,
         Fitting(tr, tc, rq, ft, next), rq2 \subseteq rq,
         \A m \in Range(tr2) : m.type \in {"size", "range"} => m \in Range(tr),
         \A m \in Range(tc2) : m.type \in Answers => m \in Range(tc)
  PROVE  Fitting(tr2, tc2, rq2, ft, next)
BY DEF Fitting

\* The end of one transfer.
LEMMA TransferEnds ==
  ASSUME NEW ft, NEW rest, NEW id, NEW n, Transferring(ft, n),
         DOMAIN rest = DOMAIN ft \ {id}, \A s \in DOMAIN rest : rest[s] = ft[s]
  PROVE  /\ Transferring(rest, n)
         /\ id \in DOMAIN ft => \A s \in DOMAIN rest : rest[s].file # ft[id].file
BY DEF Transferring

\* The bytes so far and those of an answer.
LEMMA TransferGrows ==
  ASSUME NEW t \in Transfers, NEW n, TransferFits(t, n), ~t.size, NEW to \in Nat,
         Len(t.data) <= to, to <= t.total
  PROVE  LET data == t.data \o Bytes(t.file, Len(t.data), to)
         IN  data = Bytes(t.file, 0, to) /\ Len(data) = to /\ t.total = Sizes[t.file.index]
<1> DEFINE d == Len(t.data)
<1>1. t.data = Bytes(t.file, 0, d) /\ t.total = Sizes[t.file.index] /\ d \in Nat
  BY DEF TransferFits, Transfers
<1> HIDE DEF d
<1>2. 0 <= d /\ d <= to /\ 0 <= to
  BY <1>1 DEF d
<1>3. Bytes(t.file, 0, d) \o Bytes(t.file, d, to) = Bytes(t.file, 0, to)
  BY <1>1, <1>2, BytesConcat
<1>4. Len(Bytes(t.file, 0, to)) = to - 0
  BY <1>2, BytesType
<1>5. t.data \o Bytes(t.file, d, to) = Bytes(t.file, 0, to)
  BY <1>1, <1>3
<1>6. Len(t.data \o Bytes(t.file, d, to)) = to
  BY <1>4, <1>5
<1> QED
  BY <1>1, <1>5, <1>6 DEF d

FetchTypes == {"size", "range"} \cup Answers

LEMMA FetchOthers ==
  ASSUME Typed, [Next]_vars
  PROVE  \/ RemoteTakes \/ OnRemoteFileList \/ OnFileContents \/ Reconnect
         \/ \E r \in requests : RemoteGivesContents(r)
         \/ /\ Leaves(toRemote, toRemote', FetchTypes) /\ Leaves(toClient, toClient', FetchTypes)
            /\ UNCHANGED <<requests, fileTransfers, nextStreamId, saved>>
<1> DEFINE Left == /\ Leaves(toRemote, toRemote', FetchTypes) /\ Leaves(toClient, toClient', FetchTypes)
                   /\ UNCHANGED <<requests, fileTransfers, nextStreamId, saved>>
<1>0. toRemote \in Seq(ToRemote) /\ toClient \in Seq(ToClient)
  BY DEF Typed, ToRemoteOK, ToClientOK
<1>1. ASSUME UNCHANGED vars \/ RetryWrite \/ RetryWritten \/ HostCopies PROVE Left
  BY <1>1, LeavesSame DEF vars, remoteVars, backendVars, pageVars, RetryWrite, RetryWritten, HostCopies
<1>2. ASSUME NEW formats \in Copies, RemoteCopies(formats) PROVE Left
  <2> DEFINE m == [type |-> "copy", formats |-> formats]
  <2>1. m \in ToClient /\ m.type \notin FetchTypes
    BY Made, CliprdrAssumption DEF FetchTypes, Answers
  <2>2. /\ toClient' = Append(toClient, m)
        /\ UNCHANGED <<toRemote, requests, fileTransfers, nextStreamId, saved>>
    BY <1>2 DEF RemoteCopies, SendToClient, RemoteCopy, backendVars, pageVars
  <2> HIDE DEF m
  <2> QED
    BY <1>0, <2>1, <2>2, LeavesSame, LeavesAppend
<1>3. ASSUME RemoteGivesData PROVE Left
  <2> DEFINE f == Head(toRemote).format
             m == IF f \notin clip.formats THEN Error(f)
                  ELSE IF f = "files" THEN FileList(clip.n) ELSE Data(f, clip.n)
  <2>1. /\ toRemote # << >> /\ Head(toRemote).type = "paste" /\ toRemote' = Tail(toRemote)
        /\ UNCHANGED <<requests, fileTransfers, nextStreamId, saved>>
    BY <1>3 DEF RemoteGivesData, remoteVars, backendVars, pageVars
  <2>2. m \in ToClient /\ toClient' = Append(toClient, m)
    BY <1>3, DataGiven
  <2>3. m.type \notin FetchTypes
    BY TypeOf DEF FetchTypes, Answers
  <2> HIDE DEF m
  <2>4. Leaves(toRemote, toRemote', FetchTypes)
    BY <1>0, <2>1, LeavesTail DEF FetchTypes, Answers
  <2>5. Leaves(toClient, toClient', FetchTypes)
    BY <1>0, <2>2, <2>3, LeavesAppend
  <2> QED
    BY <2>1, <2>4, <2>5
<1>4. ASSUME OnRemoteCopy PROVE Left
  <2> DEFINE want == Wanted(Head(toClient).formats)
  <2>1. /\ toClient # << >> /\ Head(toClient).type = "copy" /\ toClient' = Tail(toClient)
        /\ UNCHANGED <<requests, fileTransfers, nextStreamId, saved>>
        /\ UNCHANGED toRemote \/ (want \in Texts /\ toRemote' = Append(toRemote, Paste(want)))
    BY <1>4 DEF OnRemoteCopy, SendToRemote, Texts, remoteVars
  <2> HIDE DEF want
  <2>2. want \in Texts => Paste(want) \in ToRemote /\ Paste(want).type \notin FetchTypes
    BY Made, TypeOf DEF Texts, Formats, FetchTypes, Answers
  <2>3. Leaves(toRemote, toRemote', FetchTypes)
    BY <1>0, <2>1, <2>2, LeavesSame, LeavesAppend
  <2>4. Leaves(toClient, toClient', FetchTypes)
    BY <1>0, <2>1, LeavesTail DEF FetchTypes, Answers
  <2> QED
    BY <2>1, <2>3, <2>4
<1>5. ASSUME OnFormatData \/ OnFormatError PROVE Left
  <2>1. /\ toClient # << >> /\ Head(toClient).type \in {"data", "error"} /\ toClient' = Tail(toClient)
        /\ UNCHANGED <<toRemote, requests, fileTransfers, nextStreamId, saved>>
    BY <1>5 DEF OnFormatData, OnFormatError, remoteVars, pageVars
  <2>2. Leaves(toClient, toClient', FetchTypes)
    BY <1>0, <2>1, LeavesTail DEF FetchTypes, Answers
  <2> QED
    BY <2>1, <2>2, LeavesSame
<1>6. ASSUME Download PROVE Left
  <2>1. /\ UNCHANGED <<toClient, requests, fileTransfers, nextStreamId, saved>>
        /\ UNCHANGED toRemote \/ toRemote' = Append(toRemote, Paste("files"))
    BY <1>6 DEF Download, SendToRemote, remoteVars, backendVars
  <2>2. Paste("files") \in ToRemote /\ Paste("files").type \notin FetchTypes
    BY Made, TypeOf DEF Formats, FetchTypes, Answers
  <2> QED
    BY <1>0, <2>1, <2>2, LeavesSame, LeavesAppend
<1>7. ASSUME HostOffersFile PROVE Left
  <2>1. /\ toRemote' = Append(toRemote, FileOffer(pendingFile + 1)) /\ pendingFile < Len(HostSizes)
        /\ UNCHANGED <<toClient, requests, fileTransfers, nextStreamId, saved>>
    BY <1>7 DEF HostOffersFile, SendToRemote, FileOffer, remoteVars, backendVars, pageVars
  <2>2. pendingFile + 1 \in HostFiles
    BY <2>1, CliprdrAssumption DEF Typed, OffersOK, HostFiles
  <2>3. FileOffer(pendingFile + 1) \in ToRemote /\ FileOffer(pendingFile + 1).type \notin FetchTypes
    BY <2>2, Made, TypeOf DEF FetchTypes, Answers
  <2> QED
    BY <1>0, <2>1, <2>3, LeavesSame, LeavesAppend
<1>8. ASSUME RemoteTakesOffer PROVE Left
  <2>1. /\ toRemote # << >> /\ Head(toRemote).type = "offer" /\ toRemote' = Tail(toRemote)
        /\ UNCHANGED <<toClient, requests, fileTransfers, nextStreamId, saved>>
    BY <1>8 DEF RemoteTakesOffer, backendVars, pageVars
  <2>2. Leaves(toRemote, toRemote', FetchTypes)
    BY <1>0, <2>1, LeavesTail DEF FetchTypes, Answers
  <2> QED
    BY <2>1, <2>2, LeavesSame
<1>9. ASSUME RemotePulls PROVE Left
  <2>1. /\ toClient' = Append(toClient, AskRange(0))
        /\ UNCHANGED <<toRemote, requests, fileTransfers, nextStreamId, saved>>
    BY <1>9 DEF RemotePulls, SendToClient, backendVars, pageVars
  <2>2. AskRange(0) \in ToClient /\ AskRange(0).type \notin FetchTypes
    BY Made, TypeOf DEF FetchTypes, Answers
  <2> QED
    BY <1>0, <2>1, <2>2, LeavesSame, LeavesAppend
<1>10. ASSUME OnFileContentsRequest PROVE Left
  <2>1. /\ toClient # << >> /\ Head(toClient).type = "ask" /\ toClient' = Tail(toClient)
        /\ UNCHANGED <<requests, fileTransfers, nextStreamId, saved>>
        /\ \/ UNCHANGED toRemote
           \/ toRemote' = Append(toRemote, [type |-> "refused"])
           \/ \E bs : toRemote' = Append(toRemote, [type |-> "given", data |-> bs])
    BY <1>10 DEF OnFileContentsRequest, SendToRemote, remoteVars, backendVars, pageVars
  <2>2. ASSUME NEW m, m.type \notin FetchTypes, toRemote' = Append(toRemote, m)
        PROVE  Leaves(toRemote, toRemote', FetchTypes)
    <3>1. toRemote \in Seq(ToRemote \cup {m}) /\ m \in ToRemote \cup {m}
      BY <1>0
    <3> QED
      BY <2>2, <3>1, LeavesAppend
  <2>3. "refused" \notin FetchTypes /\ "given" \notin FetchTypes
    BY DEF FetchTypes, Answers
  <2>4. Leaves(toRemote, toRemote', FetchTypes)
    BY <2>1, <2>2, <2>3, LeavesSame
  <2>5. Leaves(toClient, toClient', FetchTypes)
    BY <1>0, <2>1, LeavesTail DEF FetchTypes, Answers
  <2> QED
    BY <2>1, <2>4, <2>5
<1>11. ASSUME RemoteTakesRange PROVE Left
  <2> DEFINE data == pull[1].data \o Head(toRemote).data
  <2>1. /\ toRemote # << >> /\ toRemote' = Tail(toRemote) /\ Head(toRemote).type \in {"given", "refused"}
        /\ UNCHANGED <<requests, fileTransfers, nextStreamId, saved>>
        /\ \/ UNCHANGED toClient
           \/ Head(toRemote).type = "given" /\ toClient' = Append(toClient, AskRange(Len(data)))
    BY <1>11 DEF RemoteTakesRange, SendToClient, backendVars, pageVars
  <2>2. Head(toRemote).type = "given" => Len(data) \in Nat
    BY <1>11, RangeTaken
  <2> HIDE DEF data
  <2>3. Head(toRemote).type = "given"
          => AskRange(Len(data)) \in ToClient /\ AskRange(Len(data)).type \notin FetchTypes
    BY <2>2, Made, TypeOf DEF FetchTypes, Answers
  <2>4. Leaves(toClient, toClient', FetchTypes)
    BY <1>0, <2>1, <2>3, LeavesSame, LeavesAppend
  <2>5. Leaves(toRemote, toRemote', FetchTypes)
    BY <1>0, <2>1, LeavesTail DEF FetchTypes, Answers
  <2> QED
    BY <2>1, <2>4, <2>5
<1> HIDE DEF Left
<1>12. \/ RemoteTakes \/ OnRemoteFileList \/ OnFileContents \/ Reconnect
       \/ \E r \in requests : RemoteGivesContents(r)
       \/ Left
  BY <1>1, <1>2, <1>3, <1>4, <1>5, <1>6, <1>7, <1>8, <1>9, <1>10, <1>11 DEF Next
<1> QED
  BY <1>12 DEF Left

\* What an answer leads to: nothing, the whole file saved, or the next range asked for.
Dropped(rest) == fileTransfers' = rest /\ UNCHANGED <<toRemote, nextStreamId, saved>>
Finished(rest, t) ==
  /\ fileTransfers' = rest /\ UNCHANGED <<toRemote, nextStreamId>>
  /\ saved' = saved \cup {[file |-> t.file, data |-> Whole(t.file)]}
GoesOn(rest, t) ==
  \E u \in Transfers, n \in Nat :
    /\ ~u.size /\ u.file = t.file /\ TransferFits(u, clip.n) /\ Len(u.data) + n <= u.total
    /\ fileTransfers' = With(rest, nextStreamId, u)
    /\ nextStreamId' = nextStreamId + 1
    /\ toRemote' = Append(toRemote, FileRange(nextStreamId, t.file.index, Len(u.data), n))
    /\ UNCHANGED saved

LEMMA ContinueFits ==
  ASSUME Typed, NEW rest, NEW t \in Transfers, t.file.copy = clip.n,
         NEW total, total = Sizes[t.file.index],
         NEW to \in Nat, to <= total, NEW data, data = Bytes(t.file, 0, to),
         Continue(rest, t, total, data)
  PROVE  Finished(rest, t) \/ GoesOn(rest, t)
<1> DEFINE chunk == Min({total - Min({Len(data), total}), CHUNK_SIZE})
           u == [size |-> FALSE, file |-> t.file, total |-> total, data |-> data]
<1>1. t.file \in Files /\ t.file.index \in Indices /\ total \in Nat
  BY CliprdrAssumption DEF Transfers, Files, Indices
<1>2. data \in Seq(Files \X Nat) /\ Len(data) = to
  <2>1. 0 <= to /\ to - 0 = to
    OBVIOUS
  <2> QED
    BY <1>1, <2>1, BytesType
<1>3. chunk \in Nat /\ to + chunk <= total /\ (chunk = 0 => to >= total)
  BY <1>1, <1>2, ChunkEnd
<1>4. \/ /\ chunk = 0
         /\ saved' = saved \cup {[file |-> t.file, data |-> data]}
         /\ fileTransfers' = rest
         /\ UNCHANGED <<toRemote, nextStreamId>>
      \/ /\ fileTransfers' = With(rest, nextStreamId, u)
         /\ nextStreamId' = nextStreamId + 1
         /\ toRemote' = Append(toRemote, FileRange(nextStreamId, t.file.index, Len(data), chunk))
         /\ UNCHANGED saved
  BY DEF Continue, SendToRemote
<1> HIDE DEF chunk
<1>5. chunk = 0 => data = Whole(t.file)
  <2>1. chunk = 0 => to = total
    BY <1>1, <1>3
  <2> QED
    BY <2>1 DEF Whole
<1>6. /\ u \in Transfers /\ ~u.size /\ u.file = t.file /\ u.total = total /\ u.data = data
      /\ TransferFits(u, clip.n)
  <2>1. u \in Transfers /\ ~u.size /\ u.file = t.file /\ u.total = total /\ u.data = data
    BY <1>1, <1>2 DEF Transfers
  <2> HIDE DEF u
  <2>2. TransferFits(u, clip.n)
    BY <1>2, <2>1 DEF TransferFits
  <2> QED
    BY <2>1, <2>2
<1> HIDE DEF u
<1>7. CASE chunk = 0 /\ saved' = saved \cup {[file |-> t.file, data |-> data]}
           /\ fileTransfers' = rest /\ UNCHANGED <<toRemote, nextStreamId>>
  BY <1>5, <1>7 DEF Finished
<1>8. CASE /\ fileTransfers' = With(rest, nextStreamId, u)
           /\ nextStreamId' = nextStreamId + 1
           /\ toRemote' = Append(toRemote, FileRange(nextStreamId, t.file.index, Len(data), chunk))
           /\ UNCHANGED saved
  <2>1. Len(u.data) + chunk <= u.total
    BY <1>2, <1>3, <1>6
  <2> QED
    BY <1>3, <1>6, <1>8, <2>1 DEF GoesOn
<1> QED
  BY <1>4, <1>7, <1>8

LEMMA AnswerGiven ==
  ASSUME Typed, Fetching, OnFileContents
  PROVE  LET m == Head(toClient)
             rest == Restrict(fileTransfers, DOMAIN fileTransfers \ {m.id})
             t == fileTransfers[m.id]
         IN  \/ Dropped(rest)
             \/ m.id \in DOMAIN fileTransfers /\ (Finished(rest, t) \/ GoesOn(rest, t))
<1> DEFINE m == Head(toClient)
           rest == Restrict(fileTransfers, DOMAIN fileTransfers \ {m.id})
           t == fileTransfers[m.id]
<1>1. m.id \in DOMAIN fileTransfers => t \in Transfers
  BY DEF Typed, TransfersOK
<1>2. m \in Range(toClient) /\ m.type \in Answers
  BY HeadTyped DEF OnFileContents, Answers
<1>3. m.id \in DOMAIN fileTransfers => TransferFits(t, clip.n)
  BY DEF Fetching, Transferring
<1>4. AnswerFits(m, fileTransfers, nextStreamId)
  BY <1>2 DEF Fetching, Fitting
<1>5. m.id \in DOMAIN fileTransfers =>
        /\ m.type = "total" => t.size /\ m.size = Sizes[t.file.index]
        /\ m.type = "contents" =>
             /\ ~t.size
             /\ \E to \in Nat : /\ Len(t.data) <= to /\ to <= t.total
                                /\ m.data = Bytes(t.file, Len(t.data), to)
  BY <1>4 DEF AnswerFits
<1>6. \/ Dropped(rest)
      \/ m.id \in DOMAIN fileTransfers /\ m.type = "total" /\ Continue(rest, t, m.size, << >>)
      \/ m.id \in DOMAIN fileTransfers /\ m.type = "contents" /\ Continue(rest, t, t.total, t.data \o m.data)
  BY DEF OnFileContents, Dropped
<1> HIDE DEF m, rest, t
<1>7. ASSUME m.id \in DOMAIN fileTransfers, m.type = "total", Continue(rest, t, m.size, << >>)
      PROVE  Finished(rest, t) \/ GoesOn(rest, t)
  <2>1. t \in Transfers /\ t.file.copy = clip.n /\ m.size = Sizes[t.file.index]
    BY <1>1, <1>3, <1>5, <1>7 DEF TransferFits
  <2>2. m.size \in Nat
    BY <2>1, CliprdrAssumption DEF Transfers, Files, Indices
  <2>3. << >> = Bytes(t.file, 0, 0) /\ 0 \in Nat /\ 0 <= m.size
    <3>1. Bytes(t.file, 0, 0) \in Seq({t.file} \X Nat) /\ Len(Bytes(t.file, 0, 0)) = 0
      <4>1. t.file \in {t.file} /\ 0 <= 0 /\ 0 - 0 = 0
        OBVIOUS
      <4> QED
        BY <4>1, BytesType
    <3> QED
      BY <2>2, <3>1, EmptySeq
  <2> QED
    BY <1>7, <2>1, <2>3, ContinueFits
<1>8. ASSUME m.id \in DOMAIN fileTransfers, m.type = "contents", Continue(rest, t, t.total, t.data \o m.data)
      PROVE  Finished(rest, t) \/ GoesOn(rest, t)
  <2>1. t \in Transfers /\ TransferFits(t, clip.n) /\ ~t.size /\ t.file.copy = clip.n
    BY <1>1, <1>3, <1>5, <1>8 DEF TransferFits
  <2>2. PICK to \in Nat : /\ Len(t.data) <= to /\ to <= t.total
                          /\ m.data = Bytes(t.file, Len(t.data), to)
    BY <1>5, <1>8
  <2>3. t.data \o m.data = Bytes(t.file, 0, to) /\ t.total = Sizes[t.file.index]
    BY <2>1, <2>2, TransferGrows
  <2> QED
    BY <1>8, <2>1, <2>2, <2>3, ContinueFits
<1> QED
  BY <1>6, <1>7, <1>8 DEF m, rest, t

Fits(n) ==
  /\ Fitting(toRemote', toClient', requests', fileTransfers', nextStreamId')
  /\ Transferring(fileTransfers', n)
  /\ SavedWhole'

LEMMA FitsNow == ASSUME Fits(clip'.n) PROVE Fetching'
BY DEF Fits, Fetching, Fitting, Transferring, AskFits, AnswerFits, TransferFits, Bytes

\* What a file list begins: a transfer of each file, under the next ids, of which the size
\* is asked.
LEMMA ListBegins ==
  ASSUME Typed, Listing, OnRemoteFileList
  PROVE  /\ DOMAIN fileTransfers = {} /\ nextStreamId' = nextStreamId + Len(Sizes) /\ nextStreamId' \in Nat
         /\ DOMAIN fileTransfers' = nextStreamId .. nextStreamId' - 1
         /\ \A s \in DOMAIN fileTransfers' :
              /\ fileTransfers'[s].size
              /\ fileTransfers'[s].file = File(clip.n, s - nextStreamId + 1)
              /\ s - nextStreamId + 1 \in Indices
         /\ toRemote' = toRemote \o [i \in Indices |-> FileSize(nextStreamId + i - 1, i)]
         /\ toClient' = Tail(toClient) /\ toClient # << >>
         /\ UNCHANGED <<requests, saved, clip>>
<1>1. /\ toClient # << >> /\ Head(toClient).type = "filelist" /\ toClient' = Tail(toClient)
      /\ toRemote' = toRemote \o [i \in Indices |-> FileSize(nextStreamId + i - 1, i)]
      /\ UNCHANGED <<requests, saved, clip>>
  BY DEF OnRemoteFileList, remoteVars, pageVars
<1>2. Head(toClient).copy = clip.n
  BY <1>1, HeadTyped DEF Listing
<1>3. Kind(Head(toClient)) = "list"
  BY <1>1 DEF Kind
<1>4. DOMAIN fileTransfers = {}
  BY <1>1, <1>3, ListTaken
<1> DEFINE next == nextStreamId + Len(Sizes)
           New(s) == [size |-> TRUE, file |-> File(clip.n, s - nextStreamId + 1), total |-> 0, data |-> << >>]
<1>5. /\ nextStreamId' = next
      /\ fileTransfers' = [s \in DOMAIN fileTransfers \cup (nextStreamId .. next - 1) |->
                             IF s \in nextStreamId .. next - 1 THEN New(s) ELSE fileTransfers[s]]
  BY <1>2 DEF OnRemoteFileList
<1>6. /\ nextStreamId \in Nat /\ next \in Nat /\ Len(Sizes) \in Nat /\ Indices = 1 .. Len(Sizes)
  BY CliprdrAssumption DEF Typed, TransfersOK, Indices
<1>7. \A s \in nextStreamId .. next - 1 : s - nextStreamId + 1 \in Indices
  BY <1>6
<1> HIDE DEF next
<1>8. /\ DOMAIN fileTransfers' = nextStreamId .. next - 1
      /\ \A s \in nextStreamId .. next - 1 : fileTransfers'[s] = New(s)
  BY <1>4, <1>5
<1>9. \A s : New(s).size /\ New(s).file = File(clip.n, s - nextStreamId + 1)
  OBVIOUS
<1> HIDE DEF New
<1>10. next = nextStreamId + Len(Sizes)
  BY DEF next
<1> QED
  BY <1>1, <1>4, <1>5, <1>6, <1>7, <1>8, <1>9, <1>10

LEMMA ListFits ==
  ASSUME Typed, Listing, Fetching, OnRemoteFileList
  PROVE  Fits(clip.n)
<1> DEFINE asks == [i \in Indices |-> FileSize(nextStreamId + i - 1, i)]
<1>1. /\ DOMAIN fileTransfers = {} /\ nextStreamId' = nextStreamId + Len(Sizes) /\ nextStreamId' \in Nat
      /\ DOMAIN fileTransfers' = nextStreamId .. nextStreamId' - 1
      /\ \A s \in DOMAIN fileTransfers' :
           /\ fileTransfers'[s].size
           /\ fileTransfers'[s].file = File(clip.n, s - nextStreamId + 1)
           /\ s - nextStreamId + 1 \in Indices
      /\ toRemote' = toRemote \o asks
      /\ toClient' = Tail(toClient) /\ toClient # << >>
      /\ UNCHANGED <<requests, saved, clip>>
  BY ListBegins
<1> DEFINE Times == nextStreamId .. nextStreamId' - 1
<1>a. DOMAIN fileTransfers' = Times /\ \A s \in Times : fileTransfers'[s].size
  BY <1>1, Zenon
<1>b. \A s \in Times : /\ fileTransfers'[s].file.copy = clip.n
                      /\ fileTransfers'[s].file.index = s - nextStreamId + 1
  <2>1. \A s \in Times : fileTransfers'[s].file = File(clip.n, s - nextStreamId + 1)
    BY <1>1, Zenon
  <2>2. \A c, i : File(c, i).copy = c /\ File(c, i).index = i
    BY DEF File
  <2> QED
    BY <2>1, <2>2
<1>2. /\ toRemote \in Seq(ToRemote) /\ toClient \in Seq(ToClient) /\ requests \in SUBSET FileAsks
      /\ nextStreamId \in Nat \ {0} /\ Len(Sizes) \in Nat /\ Indices = 1 .. Len(Sizes)
  BY CliprdrAssumption DEF Typed, ToRemoteOK, ToClientOK, TransfersOK, Indices
<1>3. asks \in Seq(ToRemote) /\ Range(asks) = {FileSize(nextStreamId + i - 1, i) : i \in Indices}
  BY <1>2, SizeAsks
<1> HIDE DEF asks
<1>4. Later(fileTransfers, nextStreamId, fileTransfers', nextStreamId')
  BY <1>1, <1>2 DEF Later
<1>5. Fitting(toRemote, toClient, requests, fileTransfers', nextStreamId')
  BY <1>1, <1>2, <1>4, FitsLater DEF Fetching
<1>6. ASSUME NEW i \in Indices PROVE AskFits(FileSize(nextStreamId + i - 1, i), fileTransfers', nextStreamId')
  <2> DEFINE s == nextStreamId + i - 1
  <2>1. s \in nextStreamId .. nextStreamId' - 1 /\ s < nextStreamId' /\ s - nextStreamId + 1 = i
    BY <1>1, <1>2
  <2> HIDE DEF s
  <2>2. fileTransfers'[s].size /\ fileTransfers'[s].file.index = i
    BY <1>a, <1>b, <2>1
  <2>3. AskFits(FileSize(s, i), fileTransfers', nextStreamId')
    BY <2>1, <2>2 DEF AskFits, FileSize
  <2> QED
    BY <2>3 DEF s
<1>7. Range(toRemote') = Range(toRemote) \cup Range(asks)
  BY <1>1, <1>2, <1>3, RangeConcat
<1>8. Range(toClient') \subseteq Range(toClient)
  BY <1>1, <1>2, RangeTail
<1>9. Fitting(toRemote', toClient', requests', fileTransfers', nextStreamId')
  BY <1>1, <1>3, <1>5, <1>6, <1>7, <1>8 DEF Fitting
<1>10. \A s \in DOMAIN fileTransfers' : TransferFits(fileTransfers'[s], clip.n)
  BY <1>a, <1>b DEF TransferFits
<1>11. ASSUME NEW s \in DOMAIN fileTransfers', NEW u \in DOMAIN fileTransfers',
              fileTransfers'[s].file = fileTransfers'[u].file
       PROVE  s = u
  <2>1. s - nextStreamId + 1 = u - nextStreamId + 1
    BY <1>a, <1>b, <1>11
  <2>2. s \in Times /\ u \in Times
    BY <1>a
  <2> QED
    BY <1>1, <1>2, <2>1, <2>2
<1>12. SavedWhole'
  BY <1>1 DEF Fetching, SavedWhole
<1> QED
  BY <1>9, <1>10, <1>11, <1>12 DEF Fits, Transferring

\* The answer that the remote gives fits the transfer it is for.
LEMMA GivenFits ==
  ASSUME Typed, Fetching, NEW r \in requests, RemoteGivesContents(r)
  PROVE  Fits(clip.n)
<1>1. PICK m \in ToClient :
           /\ toClient' = Append(toClient, m)
           /\ m.id = r.id
           /\ \/ m.type = "failed"
              \/ m.type = "total" /\ r.type = "size" /\ m.size = Sizes[r.index]
              \/ /\ m.type = "contents" /\ r.type = "range"
                 /\ \/ m.data = << >> /\ r.position >= Sizes[r.index]
                    \/ \E to \in Nat : /\ r.position < to /\ to <= r.position + r.size
                                       /\ to <= Sizes[r.index]
                                       /\ m.data = Bytes(File(clip.n, r.index), r.position, to)
  BY ContentsGiven
<1>2. /\ requests' = requests \ {r} /\ UNCHANGED <<toRemote, fileTransfers, nextStreamId, saved>>
  BY DEF RemoteGivesContents, backendVars, pageVars
<1>3. /\ toClient \in Seq(ToClient) /\ r \in FileAsks /\ AskFits(r, fileTransfers, nextStreamId)
      /\ Fitting(toRemote, toClient, requests, fileTransfers, nextStreamId)
      /\ Transferring(fileTransfers, clip.n)
  BY DEF Typed, ToRemoteOK, ToClientOK, Fetching, Fitting
<1>4. AnswerFits(m, fileTransfers, nextStreamId)
  <2> SUFFICES ASSUME m.id \in DOMAIN fileTransfers
               PROVE  /\ m.type = "total" => fileTransfers[m.id].size
                                             /\ m.size = Sizes[fileTransfers[m.id].file.index]
                      /\ m.type = "contents" =>
                           /\ ~fileTransfers[m.id].size
                           /\ \E to \in Nat : /\ Len(fileTransfers[m.id].data) <= to
                                              /\ to <= fileTransfers[m.id].total
                                              /\ m.data = Bytes(fileTransfers[m.id].file,
                                                                Len(fileTransfers[m.id].data), to)
    BY <1>1, <1>3 DEF AskFits, AnswerFits
  <2> DEFINE t == fileTransfers[m.id]
             p == Len(t.data)
  <2>1. t \in Transfers /\ TransferFits(t, clip.n)
    BY <1>3 DEF Typed, TransfersOK, Transferring
  <2>2. /\ r.index = t.file.index
        /\ r.type = "size" => t.size
        /\ r.type = "range" => ~t.size /\ r.position = p /\ r.position + r.size <= t.total
    BY <1>1, <1>3 DEF AskFits
  <2>3. t.file = File(clip.n, r.index) /\ p \in Nat /\ t.total \in Nat /\ Sizes[r.index] \in Nat
    <3>1. t.file \in Files /\ t.file.copy = clip.n /\ t.data \in Seq(Files \X Nat) /\ t.total \in Nat
      BY <2>1 DEF Transfers, TransferFits
    <3>2. t.file = [copy |-> t.file.copy, index |-> t.file.index] /\ t.file.index \in Indices
      BY <3>1 DEF Files
    <3>3. Sizes[t.file.index] \in Nat
      BY <3>2, CliprdrAssumption DEF Indices
    <3> QED
      BY <2>2, <3>1, <3>2, <3>3 DEF File
  <2>4. ~t.size => t.total = Sizes[r.index]
    BY <2>1, <2>2 DEF TransferFits
  <2>5. r.position \in Nat /\ r.size \in Nat
    BY <1>3 DEF FileAsks
  <2> HIDE DEF t, p
  <2>6. ASSUME m.type = "contents"
        PROVE  ~t.size /\ \E to \in Nat : p <= to /\ to <= t.total /\ m.data = Bytes(t.file, p, to)
    <3>1. r.type = "range" /\ ~t.size /\ r.position = p /\ p + r.size <= t.total /\ t.total = Sizes[r.index]
      BY <1>1, <2>2, <2>4, <2>6
    <3>2. CASE m.data = << >> /\ r.position >= Sizes[r.index]
      <4>1. p <= t.total
        BY <2>3, <2>5, <3>1
      <4>2. Bytes(t.file, p, p) = << >>
        <5>1. t.file \in {t.file} /\ p <= p /\ p - p = 0
          BY <2>3
        <5>2. Bytes(t.file, p, p) \in Seq({t.file} \X Nat) /\ Len(Bytes(t.file, p, p)) = 0
          BY <2>3, <5>1, BytesType
        <5> QED
          BY <5>2, EmptySeq
      <4> QED
        BY <2>3, <3>1, <3>2, <4>1, <4>2
    <3>3. ASSUME NEW to \in Nat, r.position < to, to <= Sizes[r.index],
                 m.data = Bytes(File(clip.n, r.index), r.position, to)
          PROVE  \E x \in Nat : p <= x /\ x <= t.total /\ m.data = Bytes(t.file, p, x)
      <4>1. p <= to /\ to <= t.total /\ m.data = Bytes(t.file, p, to)
        BY <2>3, <3>1, <3>3
      <4> QED
        BY <4>1
    <3> QED
      BY <1>1, <2>6, <3>1, <3>2, <3>3
  <2>7. m.type = "total" => t.size /\ m.size = Sizes[t.file.index]
    BY <1>1, <2>2
  <2> QED
    BY <2>6, <2>7 DEF t, p
<1>5. Range(toClient') = Range(toClient) \cup {m}
  BY <1>1, <1>3, RangeAppend
<1>6. Fitting(toRemote', toClient', requests', fileTransfers', nextStreamId')
  BY <1>2, <1>3, <1>4, <1>5 DEF Fitting
<1>7. SavedWhole'
  BY <1>2 DEF Fetching, SavedWhole
<1> QED
  BY <1>2, <1>3, <1>6, <1>7 DEF Fits

\* What is left of the transfers after an answer, and what is asked next, fit.
LEMMA AnswerFitsOn ==
  ASSUME Typed, Fetching, OnFileContents
  PROVE  Fits(clip.n)
<1> DEFINE m == Head(toClient)
           rest == Restrict(fileTransfers, DOMAIN fileTransfers \ {m.id})
           t == fileTransfers[m.id]
<1>1. /\ DOMAIN rest = DOMAIN fileTransfers \ {m.id}
      /\ \A s \in DOMAIN rest : rest[s] = fileTransfers[s]
      /\ m.id \in DOMAIN fileTransfers => t \in Transfers
  BY AnswerTyped, Zenon
<1>2. \/ Dropped(rest)
      \/ m.id \in DOMAIN fileTransfers /\ (Finished(rest, t) \/ GoesOn(rest, t))
  BY AnswerGiven
<1>3. /\ toClient # << >> /\ toClient' = Tail(toClient) /\ UNCHANGED requests
  BY DEF OnFileContents, remoteVars
<1>4. /\ toRemote \in Seq(ToRemote) /\ toClient \in Seq(ToClient) /\ requests \in SUBSET FileAsks
      /\ nextStreamId \in Nat \ {0}
      /\ \A s \in DOMAIN fileTransfers : s \in Nat /\ s < nextStreamId
      /\ Fitting(toRemote, toClient, requests, fileTransfers, nextStreamId)
      /\ Transferring(fileTransfers, clip.n) /\ SavedWhole
  BY DEF Typed, ToRemoteOK, ToClientOK, TransfersOK, Fetching
<1>5. Range(toClient') \subseteq Range(toClient)
  BY <1>3, <1>4, RangeTail
<1> DEFINE id == m.id
<1> HIDE DEF m, rest
<1>6. /\ Transferring(rest, clip.n)
      /\ id \in DOMAIN fileTransfers => \A s \in DOMAIN rest : rest[s].file # t.file
  <2> HIDE DEF id
  <2>1. /\ Transferring(rest, clip.n)
        /\ id \in DOMAIN fileTransfers => \A s \in DOMAIN rest : rest[s].file # fileTransfers[id].file
    <3>1. DOMAIN rest = DOMAIN fileTransfers \ {id}
      BY <1>1 DEF id
    <3> QED
      BY <1>1, <1>4, <3>1, TransferEnds
  <2> QED
    BY <2>1 DEF id
<1> HIDE DEF t
<1>7. ASSUME nextStreamId' = nextStreamId, fileTransfers' = rest, toRemote' = toRemote
      PROVE  /\ Fitting(toRemote', toClient', requests', fileTransfers', nextStreamId')
             /\ Transferring(fileTransfers', clip.n)
  <2>1. Later(fileTransfers, nextStreamId, rest, nextStreamId)
    BY <1>1, <1>4 DEF Later
  <2>2. Fitting(toRemote, toClient, requests, rest, nextStreamId)
    BY <1>4, <2>1, FitsLater
  <2>3. Fitting(toRemote', toClient', requests', fileTransfers', nextStreamId')
    BY <1>3, <1>5, <1>7, <2>2 DEF Fitting
  <2> QED
    BY <1>6, <1>7, <2>3
<1>8. ASSUME Dropped(rest) PROVE Fits(clip.n)
  BY <1>4, <1>7, <1>8 DEF Dropped, Fits, SavedWhole
<1>9. ASSUME Finished(rest, t) PROVE Fits(clip.n)
  <2>1. SavedWhole'
    BY <1>4, <1>9 DEF Finished, SavedWhole
  <2> QED
    BY <1>7, <1>9, <2>1 DEF Finished, Fits
<1>10. ASSUME id \in DOMAIN fileTransfers, GoesOn(rest, t) PROVE Fits(clip.n)
  <2>1. PICK u \in Transfers, n \in Nat :
          /\ ~u.size /\ u.file = t.file /\ TransferFits(u, clip.n) /\ Len(u.data) + n <= u.total
          /\ fileTransfers' = With(rest, nextStreamId, u)
          /\ nextStreamId' = nextStreamId + 1
          /\ toRemote' = Append(toRemote, FileRange(nextStreamId, t.file.index, Len(u.data), n))
          /\ UNCHANGED saved
    BY <1>10 DEF GoesOn
  <2> DEFINE ask == FileRange(nextStreamId, t.file.index, Len(u.data), n)
  <2>2. /\ DOMAIN fileTransfers' = DOMAIN rest \cup {nextStreamId}
        /\ fileTransfers'[nextStreamId] = u
        /\ \A s \in DOMAIN rest : s # nextStreamId => fileTransfers'[s] = rest[s]
    BY <2>1 DEF With
  <2>3. \A s \in DOMAIN rest : s \in Nat /\ s < nextStreamId
    BY <1>1, <1>4
  <2>4. \A s \in DOMAIN rest : fileTransfers'[s] = rest[s] /\ s # nextStreamId
    BY <1>4, <2>2, <2>3
  <2>5. Later(fileTransfers, nextStreamId, fileTransfers', nextStreamId')
    BY <1>1, <1>4, <2>1, <2>2, <2>4 DEF Later
  <2>6. nextStreamId' \in Nat
    BY <1>4, <2>1
  <2>7. Fitting(toRemote, toClient, requests, fileTransfers', nextStreamId')
    BY <1>4, <2>5, <2>6, FitsLater
  <2>8. t.file.index \in Indices /\ Len(u.data) \in Nat
    BY <1>1, <1>10 DEF id, Transfers, Files
  <2>9. ask \in ToRemote /\ AskFits(ask, fileTransfers', nextStreamId')
    <3>1. ask \in ToRemote
      BY <1>4, <2>1, <2>8, Made
    <3>2. /\ ask.type = "range" /\ ask.id = nextStreamId /\ ask.index = t.file.index
          /\ ask.position = Len(u.data) /\ ask.size = n
      BY DEF FileRange
    <3>3. ask.id < nextStreamId'
      BY <1>4, <2>1, <3>2
    <3> HIDE DEF ask
    <3> QED
      BY <2>1, <2>2, <3>1, <3>2, <3>3 DEF AskFits
  <2> HIDE DEF ask
  <2>10. Range(toRemote') = Range(toRemote) \cup {ask}
    BY <1>4, <2>1, <2>9, RangeAppend DEF ask
  <2>11. Fitting(toRemote', toClient', requests', fileTransfers', nextStreamId')
    BY <1>3, <1>5, <2>7, <2>9, <2>10 DEF Fitting
  <2>12. Transferring(fileTransfers', clip.n)
    <3>1. \A s \in DOMAIN fileTransfers' : TransferFits(fileTransfers'[s], clip.n)
      BY <1>6, <2>1, <2>2, <2>4 DEF Transferring
    <3>2. \A s \in DOMAIN rest : fileTransfers'[s].file # u.file
      BY <1>6, <1>10, <2>1, <2>4
    <3>3. ASSUME NEW s \in DOMAIN fileTransfers', NEW v \in DOMAIN fileTransfers',
                 fileTransfers'[s].file = fileTransfers'[v].file
          PROVE  s = v
      <4>1. CASE s \in DOMAIN rest /\ v \in DOMAIN rest
        <5>1. rest[s].file = rest[v].file
          BY <2>4, <3>3, <4>1
        <5> QED
          BY <1>6, <4>1, <5>1 DEF Transferring
      <4>2. CASE s \in DOMAIN rest /\ v = nextStreamId
        BY <2>2, <3>2, <3>3, <4>2
      <4>3. CASE s = nextStreamId /\ v \in DOMAIN rest
        BY <2>2, <3>2, <3>3, <4>3
      <4>4. CASE s = nextStreamId /\ v = nextStreamId
        BY <4>4
      <4> QED
        BY <2>2, <4>1, <4>2, <4>3, <4>4
    <3> QED
      BY <3>1, <3>3 DEF Transferring
  <2>13. SavedWhole'
    BY <1>4, <2>1 DEF SavedWhole
  <2> QED
    BY <2>11, <2>12, <2>13 DEF Fits
<1> QED
  BY <1>2, <1>8, <1>9, <1>10 DEF id

LEMMA FetchingStep == Typed /\ Listing /\ Fetching /\ ~Overlap /\ [Next]_vars => Fetching'
<1> SUFFICES ASSUME Typed, Listing, Fetching, ~Overlap, [Next]_vars PROVE Fetching'
  OBVIOUS
<1>0. /\ toRemote \in Seq(ToRemote) /\ toClient \in Seq(ToClient)
      /\ Fitting(toRemote, toClient, requests, fileTransfers, nextStreamId)
      /\ Transferring(fileTransfers, clip.n) /\ SavedWhole
  BY DEF Typed, ToRemoteOK, ToClientOK, Fetching
<1>1. UNCHANGED saved => SavedWhole'
  BY <1>0 DEF SavedWhole
<1>2. ASSUME OnRemoteFileList \/ OnFileContents \/ \E r \in requests : RemoteGivesContents(r)
      PROVE  Fetching'
  <2>1. Fits(clip.n)
    BY <1>2, ListFits, GivenFits, AnswerFitsOn
  <2>2. UNCHANGED clip
    BY <1>2 DEF OnRemoteFileList, OnFileContents, RemoteGivesContents, remoteVars
  <2> QED
    BY <2>1, <2>2, FitsNow
<1>3. ASSUME RemoteTakes PROVE Fetching'
  <2>1. /\ toRemote # << >> /\ Head(toRemote).type \in {"size", "range"}
        /\ requests' = requests \cup {Head(toRemote)} /\ toRemote' = Tail(toRemote)
        /\ UNCHANGED <<toClient, fileTransfers, nextStreamId, clip, saved>>
    BY <1>3 DEF RemoteTakes, backendVars, pageVars
  <2>2. Range(toRemote) = Range(toRemote') \cup {Head(toRemote)}
    BY <1>0, <2>1, RangeTail
  <2>3. Fitting(toRemote', toClient', requests', fileTransfers', nextStreamId')
    BY <1>0, <2>1, <2>2 DEF Fitting
  <2> QED
    BY <1>0, <1>1, <2>1, <2>3, FitsNow DEF Fits
<1>4. ASSUME Reconnect PROVE Fetching'
  <2> DEFINE c == [type |-> "copy", formats |-> clip'.formats]
  <2>1. /\ requests' = {} /\ toRemote' = << >> /\ DOMAIN fileTransfers' = {} /\ UNCHANGED saved
        /\ toClient' = << >> \/ toClient' = <<c>>
    BY <1>4 DEF Reconnect, RemoteCopy, pageVars
  <2>2. c.type \notin Answers
    BY DEF Answers
  <2> HIDE DEF c
  <2>3. Range(toClient') \subseteq {c} /\ Range(toRemote') = {}
    BY <2>1, RangeEmpty, RangeOne
  <2>4. Fitting(toRemote', toClient', requests', fileTransfers', nextStreamId')
    BY <2>1, <2>2, <2>3 DEF Fitting
  <2>5. Transferring(fileTransfers', clip'.n)
    BY <2>1 DEF Transferring
  <2> QED
    BY <1>1, <2>1, <2>4, <2>5, FitsNow DEF Fits
<1>5. ASSUME Leaves(toRemote, toRemote', FetchTypes), Leaves(toClient, toClient', FetchTypes),
             UNCHANGED <<requests, fileTransfers, nextStreamId, saved>>
      PROVE  Fetching'
  <2>1. /\ \A m \in Range(toRemote') : m.type \in {"size", "range"} => m \in Range(toRemote)
        /\ \A m \in Range(toClient') : m.type \in Answers => m \in Range(toClient)
    BY <1>5 DEF Leaves, FetchTypes
  <2>2. Fitting(toRemote', toClient', requests', fileTransfers', nextStreamId')
    BY <1>0, <1>5, <2>1 DEF Fitting
  <2>3. UNCHANGED clip \/ DOMAIN fileTransfers = {}
    BY DEF Next, vars, remoteVars, RemoteCopies, Undisturbed, RemoteGivesData, RemoteTakes,
           RemoteGivesContents, OnRemoteCopy, OnFormatData, OnFormatError, OnRemoteFileList,
           OnFileContents, Download, RetryWrite, RetryWritten, HostCopies, HostOffersFile,
           RemoteTakesOffer, RemotePulls, OnFileContentsRequest, RemoteTakesRange, Reconnect
  <2>4. Transferring(fileTransfers', clip'.n)
    BY <1>0, <1>5, <2>3 DEF Transferring
  <2> QED
    BY <1>1, <1>5, <2>2, <2>4, FitsNow DEF Fits
<1> QED
  BY <1>2, <1>3, <1>4, <1>5, FetchOthers

LEMMA InitFetching == Init => Typed /\ Listing /\ Fetching
<1> SUFFICES ASSUME Init PROVE Typed /\ Listing /\ Fetching
  OBVIOUS
<1>1. /\ toRemote = << >> /\ toClient = << >> /\ requests = {} /\ DOMAIN fileTransfers = {} /\ saved = {}
  BY DEF Init
<1>2. Range(toRemote) = {} /\ Range(toClient) = {}
  BY <1>1, RangeEmpty
<1>3. None(toRemote, "list") /\ None(toClient, "list") /\ One(toRemote, "list") /\ One(toClient, "list")
  BY <1>1, NoneEmpty
<1>4. Listing
  BY <1>1, <1>2, <1>3 DEF Listing, Alone, Nowhere
<1>5. Fetching
  BY <1>1, <1>2 DEF Fetching, Fitting, Transferring, SavedWhole
<1> QED
  BY <1>4, <1>5, InitTyped

Downloads == Typed /\ Listing /\ Fetching
LEMMA DownloadsStep == Downloads /\ ~Overlap /\ [Next]_vars => Downloads'
BY TypedStep, ListingStep, FetchingStep DEF Downloads

\* download_file is given whole files: the ranges that request_file_range asks for one
\* after the other, answered as short as the remote likes and interleaved with those of
\* other files, are put together to the bytes of one file of one copy.
THEOREM SavesAreWhole == ~Overlap => (Spec => []SavedWhole)
<1> SUFFICES ASSUME ~Overlap PROVE Spec => []SavedWhole
  OBVIOUS
<1>1. Init => Downloads
  BY InitFetching DEF Downloads
<1>2. Downloads /\ [Next]_vars => Downloads'
  BY DownloadsStep
<1>3. Downloads => SavedWhole
  BY DEF Downloads, Fetching
<1> QED
  BY <1>1, <1>2, <1>3, PTL DEF Spec

(***************************************************************************)
(* What downloading promises.  The files that FileFetch has as asked for   *)
(* are those of the transfers.                                             *)
(***************************************************************************)
FilesOf(ft) == {ft[s].file : s \in DOMAIN ft}

LEMMA FilesLeft ==
  ASSUME NEW ft, NEW n, NEW rest, NEW id, Transferring(ft, n),
         DOMAIN rest = DOMAIN ft \ {id}, \A s \in DOMAIN rest : rest[s] = ft[s]
  PROVE  /\ id \notin DOMAIN ft => FilesOf(rest) = FilesOf(ft)
         /\ id \in DOMAIN ft => ft[id].file \in FilesOf(ft) /\ FilesOf(rest) = FilesOf(ft) \ {ft[id].file}
<1>1. ASSUME id \notin DOMAIN ft PROVE FilesOf(rest) = FilesOf(ft)
  BY <1>1 DEF FilesOf
<1>2. ASSUME id \in DOMAIN ft
      PROVE  ft[id].file \in FilesOf(ft) /\ FilesOf(rest) = FilesOf(ft) \ {ft[id].file}
  <2>1. \A s \in DOMAIN rest : rest[s].file # ft[id].file
    BY <1>2, TransferEnds
  <2>2. FilesOf(rest) \subseteq FilesOf(ft) \ {ft[id].file}
    BY <2>1 DEF FilesOf
  <2>3. FilesOf(ft) \ {ft[id].file} \subseteq FilesOf(rest)
    <3> SUFFICES ASSUME NEW s \in DOMAIN ft, ft[s].file # ft[id].file PROVE ft[s].file \in FilesOf(rest)
      BY DEF FilesOf
    <3>1. s \in DOMAIN rest /\ rest[s] = ft[s]
      OBVIOUS
    <3> QED
      BY <3>1 DEF FilesOf
  <2>4. ft[id].file \in FilesOf(ft)
    BY <1>2 DEF FilesOf
  <2> QED
    BY <2>2, <2>3, <2>4
<1> QED
  BY <1>1, <1>2

LEMMA FilesWith ==
  ASSUME NEW rest, NEW s, s \notin DOMAIN rest, NEW u
  PROVE  FilesOf(With(rest, s, u)) = FilesOf(rest) \cup {u.file}
<1> DEFINE w == With(rest, s, u)
<1>1. /\ DOMAIN w = DOMAIN rest \cup {s} /\ w[s] = u
      /\ \A x \in DOMAIN rest : w[x] = rest[x]
  BY DEF With
<1> HIDE DEF w
<1>2. FilesOf(w) = FilesOf(rest) \cup {u.file}
  BY <1>1 DEF FilesOf
<1> QED
  BY <1>2 DEF w

\* The steps of FileFetch, of the files of the transfers.
Promised(asked, asked2) ==
  \/ asked2 = asked /\ UNCHANGED saved
  \/ asked2 \subseteq Files /\ (asked = {} \/ asked2 = {}) /\ UNCHANGED saved
  \/ \E f \in asked : /\ f \in Files /\ asked2 = asked \ {f}
                      /\ UNCHANGED saved \/ saved' = saved \cup {[file |-> f, data |-> Whole(f)]}

LEMMA PromisedStep ==
  ASSUME Downloads, ~Overlap, [Next]_vars
  PROVE  Promised(FilesOf(fileTransfers), FilesOf(fileTransfers'))
<1>0. /\ Typed /\ Listing /\ Fetching /\ Transferring(fileTransfers, clip.n)
      /\ nextStreamId \in Nat
      /\ \A s \in DOMAIN fileTransfers : s \in Nat /\ s < nextStreamId /\ fileTransfers[s] \in Transfers
  BY DEF Downloads, Fetching, Typed, TransfersOK
<1>1. ASSUME UNCHANGED <<fileTransfers, saved>>
      PROVE  Promised(FilesOf(fileTransfers), FilesOf(fileTransfers'))
  BY <1>1 DEF Promised
<1>2. ASSUME OnRemoteFileList PROVE Promised(FilesOf(fileTransfers), FilesOf(fileTransfers'))
  <2>1. DOMAIN fileTransfers = {} /\ UNCHANGED saved
    BY <1>0, <1>2, ListBegins
  <2>2. \A s \in DOMAIN fileTransfers' : fileTransfers'[s].file \in Files
    BY <1>0, TransfersStep DEF TransfersOK, Transfers
  <2>3. FilesOf(fileTransfers) = {} /\ FilesOf(fileTransfers') \subseteq Files
    BY <2>1, <2>2 DEF FilesOf
  <2> QED
    BY <2>1, <2>3 DEF Promised
<1>3. ASSUME OnFileContents PROVE Promised(FilesOf(fileTransfers), FilesOf(fileTransfers'))
  <2> DEFINE id == Head(toClient).id
             rest == Restrict(fileTransfers, DOMAIN fileTransfers \ {id})
             t == fileTransfers[id]
  <2>1. /\ DOMAIN rest = DOMAIN fileTransfers \ {id}
        /\ \A s \in DOMAIN rest : rest[s] = fileTransfers[s]
        /\ id \in DOMAIN fileTransfers => t \in Transfers
    BY <1>0, <1>3, AnswerTyped, Zenon
  <2>2. \/ Dropped(rest)
        \/ id \in DOMAIN fileTransfers /\ (Finished(rest, t) \/ GoesOn(rest, t))
    BY <1>0, <1>3, AnswerGiven
  <2> HIDE DEF id, rest
  <2>3. /\ id \notin DOMAIN fileTransfers => FilesOf(rest) = FilesOf(fileTransfers)
        /\ id \in DOMAIN fileTransfers => /\ t.file \in FilesOf(fileTransfers)
                                          /\ FilesOf(rest) = FilesOf(fileTransfers) \ {t.file}
    BY <1>0, <2>1, FilesLeft
  <2> HIDE DEF t
  <2>4. id \in DOMAIN fileTransfers => t.file \in Files
    BY <2>1 DEF Transfers
  <2>5. CASE Dropped(rest)
    BY <2>3, <2>4, <2>5 DEF Dropped, Promised
  <2>6. CASE id \in DOMAIN fileTransfers /\ Finished(rest, t)
    BY <2>3, <2>4, <2>6 DEF Finished, Promised
  <2>7. CASE id \in DOMAIN fileTransfers /\ GoesOn(rest, t)
    <3>1. PICK u \in Transfers, n \in Nat :
            /\ u.file = t.file /\ fileTransfers' = With(rest, nextStreamId, u) /\ UNCHANGED saved
      BY <2>7 DEF GoesOn
    <3>2. nextStreamId \notin DOMAIN rest
      BY <1>0, <2>1
    <3>3. FilesOf(fileTransfers') = FilesOf(rest) \cup {t.file}
      BY <3>1, <3>2, FilesWith
    <3>4. FilesOf(fileTransfers') = FilesOf(fileTransfers)
      BY <2>3, <2>7, <3>3
    <3> QED
      BY <3>1, <3>4 DEF Promised
  <2> QED
    BY <2>2, <2>5, <2>6, <2>7
<1>4. ASSUME Reconnect PROVE Promised(FilesOf(fileTransfers), FilesOf(fileTransfers'))
  <2>1. FilesOf(fileTransfers') = {} /\ UNCHANGED saved
    BY <1>4 DEF Reconnect, pageVars, FilesOf
  <2> QED
    BY <2>1 DEF Promised
<1>5. (\E r \in requests : RemoteGivesContents(r)) \/ RemoteTakes => UNCHANGED <<fileTransfers, saved>>
  BY DEF RemoteGivesContents, RemoteTakes, backendVars, pageVars
<1> QED
  BY <1>0, <1>1, <1>2, <1>3, <1>4, <1>5, FetchOthers

\* Downloading keeps the promise of FileFetch: a file is saved with its own bytes, all of
\* them, or it is given up, and nothing is saved that was not asked for.  Of on_remote_file_list and on_file_contents_response, whatever
\* the remote answers and in whatever order; that each download ends is model-checked.
THEOREM DownloadsImplementFetch == ~Overlap => (Spec => Fetch!Spec)
<1> SUFFICES ASSUME ~Overlap PROVE Spec => Fetch!Spec
  OBVIOUS
<1>1. Init => Fetch!Init
  <2> SUFFICES ASSUME Init PROVE Fetch!Init
    OBVIOUS
  <2>1. DOMAIN fileTransfers = {} /\ saved = {}
    BY DEF Init
  <2>2. {fileTransfers[s].file : s \in DOMAIN fileTransfers} = {}
    BY <2>1
  <2> QED
    BY <2>1, <2>2 DEF Fetch!Init
<1>2. Downloads /\ [Next]_vars
        => [Fetch!Next]_<<{fileTransfers[s].file : s \in DOMAIN fileTransfers}, saved>>
  <2> SUFFICES ASSUME Downloads, [Next]_vars
               PROVE  [Fetch!Next]_<<{fileTransfers[s].file : s \in DOMAIN fileTransfers}, saved>>
    OBVIOUS
  <2> DEFINE asked == {fileTransfers[s].file : s \in DOMAIN fileTransfers}
  <2>1. asked = FilesOf(fileTransfers) /\ asked' = FilesOf(fileTransfers')
    BY DEF FilesOf
  <2>2. Promised(asked, asked')
    BY <2>1, PromisedStep
  <2>3. CASE UNCHANGED <<asked, saved>>
    BY <2>3
  <2>4. CASE asked' \subseteq Files /\ asked = {} /\ UNCHANGED saved
    <3>1. PICK fs \in SUBSET Files : fs = asked' /\ asked' = asked \cup fs
      BY <2>4
    <3>2. Fetch!Ask(fs)
      BY <2>4, <3>1 DEF Fetch!Ask
    <3> QED
      BY <3>1, <3>2 DEF Fetch!Next
  <2>5. CASE asked' = {} /\ UNCHANGED saved
    BY <2>5 DEF Fetch!Next, Fetch!EndSession
  <2>6. ASSUME NEW f \in asked, f \in Files, asked' = asked \ {f},
               UNCHANGED saved \/ saved' = saved \cup {[file |-> f, data |-> Whole(f)]}
        PROVE  Fetch!Next
    <3>1. Fetch!Save(f) \/ Fetch!GiveUp(f)
      BY <2>6 DEF Fetch!Save, Fetch!GiveUp
    <3> QED
      BY <2>6, <3>1 DEF Fetch!Next
  <2> QED
    BY <2>2, <2>3, <2>4, <2>5, <2>6 DEF Promised
<1>3. Init => Downloads
  BY InitFetching DEF Downloads
<1>4. Downloads /\ [Next]_vars => Downloads'
  BY DownloadsStep
<1> QED
  BY <1>1, <1>2, <1>3, <1>4, PTL DEF Spec, Fetch!Spec
=============================================================================
