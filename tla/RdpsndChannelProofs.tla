------------------------ MODULE RdpsndChannelProofs ------------------------
(***************************************************************************)
(* Neither side of the audio channel is ever stopped, and what is heard is *)
(* what was sent, for any formats, versions, offers and servers.           *)
(***************************************************************************)
EXTENDS RdpsndChannel, TLAPS

At(c, i, types) == c[i].type \in types

\* Waves may be on their way: the server is ready, or was before it negotiated again.
Streaming == server = "Ready" \/ "negotiate again" \in Peer

Answered == {"WaitingForQualityMode", "WaitingForTrainingConfirm", "Ready"}

\* Types, as far as the proofs need them
Shapes ==
  /\ toClient \in Seq(ServerPdus) /\ toServer \in Seq(ClientPdus)
  /\ negotiated \in Seq(Formats) /\ clientFormats \in Seq(Formats)
  /\ serverVersion \in Versions \cup {0} /\ clientVersion \in Versions \cup {0}
  /\ formatNo \in 0 .. Len(clientFormats)
  /\ waveInfo = << >> \/ waveInfo \in [{1} -> ServerPdus]
  /\ sent \in Seq(Waves) /\ heard \in Seq(Waves)

\* Where the two state machines stand
States ==
  /\ client \in {"Start", "WaitingForTraining", "Ready"} /\ failed = FALSE
  /\ server \in Answered \cup {"Start", "WaitingForClientFormats"}
  /\ server = "Start" => client = "Start" /\ toClient = << >>
  /\ client = "Start" =>
       /\ toServer = << >> /\ waveInfo = << >> /\ clientVersion = 0
       /\ server \notin Answered
       /\ server # "Start" => toClient # << >> /\ At(toClient, 1, {"formats"})
  /\ server \in Answered => clientFormats = negotiated /\ clientVersion = serverVersion
  /\ formatNo # 0 => server = "Ready"
  /\ waveInfo # << >> => Streaming

\* The server's formats: once, with nothing of the new negotiation behind them
FormatsInFlight ==
  \A i \in DOMAIN toClient : At(toClient, i, {"formats"}) =>
    /\ server = "WaitingForClientFormats"
    /\ \A j \in DOMAIN toClient : j > i => At(toClient, j, {"volume", "close"})
    /\ \A j \in DOMAIN toServer : At(toServer, j, {"wave confirm"})

TrainingInFlight ==
  \A i \in DOMAIN toClient : At(toClient, i, {"training"}) =>
    /\ server = "WaitingForTrainingConfirm"
    /\ \A j \in DOMAIN toClient : At(toClient, j, {"training"}) => j = i
    /\ \A j \in DOMAIN toServer : At(toServer, j, {"wave confirm"})

\* The client's answers, each in its turn
AnswersOf(c, state, version, formats, streaming) ==
  \A i \in DOMAIN c :
    /\ At(c, i, {"wave confirm"}) => streaming
    /\ At(c, i, {"formats"}) =>
         /\ state = "WaitingForClientFormats"
         /\ c[i].version = version /\ c[i].formats = formats
         /\ \A j \in DOMAIN c : At(c, j, {"formats"}) => j = i
    /\ At(c, i, {"quality"}) =>
         /\ version >= 6
         /\ \/ state = "WaitingForQualityMode"
            \/ /\ state = "WaitingForClientFormats"
               /\ \E j \in DOMAIN c : j < i /\ At(c, j, {"formats"})
         /\ \A j \in DOMAIN c : At(c, j, {"quality"}) => j = i
    /\ At(c, i, {"training confirm"}) =>
         /\ state = "WaitingForTrainingConfirm"
         /\ \A j \in DOMAIN c : At(c, j, {"training confirm"}) => j = i

AnswersInFlight == AnswersOf(toServer, server, serverVersion, negotiated, Streaming)

OnlyConfirms == \A i \in DOMAIN toServer : At(toServer, i, {"wave confirm"})

Handshake == States /\ FormatsInFlight /\ TrainingInFlight /\ AnswersInFlight

\* The wave that PDU m begins is one that was sent, in a format of the client's list.
Decodable(m) ==
  /\ m.n \in DOMAIN sent /\ m.no \in DOMAIN negotiated
  /\ sent[m.n] = Wave(m.n, negotiated[m.no])

Base == Len(heard) + Len(waveInfo)

\* Every wave on its way is decodable when it arrives, and its parts follow each other.
WavesInFlight ==
  /\ \A i \in DOMAIN toClient :
       /\ At(toClient, i, Starts) => Streaming /\ Decodable(toClient[i])
       /\ At(toClient, i, {"wave data"}) =>
            \/ i = 1 /\ waveInfo # << >>
            \/ i > 1 /\ At(toClient, i - 1, {"wave info"})
       /\ At(toClient, i, {"wave info"}) =>
            /\ i + 1 \in DOMAIN toClient /\ At(toClient, i + 1, {"wave data"})
            /\ toClient[i + 1].n = toClient[i].n
  /\ waveInfo # << >> =>
       /\ toClient # << >> /\ At(toClient, 1, {"wave data"})
       /\ toClient[1].n = waveInfo[1].n
       /\ Decodable(waveInfo[1]) /\ waveInfo[1].n = Base

\* The waves not yet heard are on their way, in order.
Unheard ==
  /\ Base <= Len(sent)
  /\ \A i \in DOMAIN toClient : At(toClient, i, Starts) =>
       /\ toClient[i].n > Base
       /\ \A j \in DOMAIN toClient : j > i /\ At(toClient, j, Starts) => toClient[j].n > toClient[i].n
  /\ \A n \in DOMAIN sent : n > Base =>
       \E i \in DOMAIN toClient : At(toClient, i, Starts) /\ toClient[i].n = n

Inv == Shapes /\ Handshake /\ WavesInFlight /\ Unheard
-----------------------------------------------------------------------------
(* A channel that takes a message in, or lets one out.                     *)

\* t is s without its first message.
Popped(S, s, t) ==
  /\ DOMAIN s = 1 .. Len(s) /\ Len(s) \in Nat /\ 1 \in DOMAIN s
  /\ Head(s) = s[1] /\ s[1] \in S
  /\ t \in Seq(S) /\ DOMAIN t = 1 .. Len(s) - 1 /\ (t # << >> => 1 \in DOMAIN t)
  /\ (2 \in DOMAIN s => t # << >>)
  /\ \A i \in DOMAIN t : i + 1 \in DOMAIN s /\ t[i] = s[i + 1]

\* t is s with m behind it.
Pushed(S, s, t, m) ==
  /\ DOMAIN s = 1 .. Len(s) /\ Len(s) \in Nat /\ (s # << >> => 1 \in DOMAIN s)
  /\ t \in Seq(S) /\ t # << >> /\ DOMAIN t = 1 .. Len(s) + 1
  /\ \A i \in DOMAIN s : t[i] = s[i]
  /\ t[Len(s) + 1] = m

\* A channel without its first message
LEMMA Pop ==
  ASSUME NEW S, NEW s \in Seq(S), s # << >>, NEW t, t = Tail(s)
  PROVE  Popped(S, s, t)
<1>1. DOMAIN s = 1 .. Len(s) /\ Len(s) \in Nat /\ 1 \in DOMAIN s /\ Head(s) = s[1] /\ s[1] \in S
  OBVIOUS
<1>2. t \in Seq(S) /\ Len(t) = Len(s) - 1 /\ DOMAIN t = 1 .. Len(t) /\ Len(t) \in Nat
  OBVIOUS
<1>3. t # << >> => 1 \in DOMAIN t
  BY <1>2
<1>4. 2 \in DOMAIN s => t # << >>
  BY <1>1, <1>2
<1>5. \A i \in DOMAIN t : i + 1 \in DOMAIN s /\ t[i] = s[i + 1]
  BY <1>1, <1>2
<1> QED BY <1>1, <1>3, <1>4, <1>5 DEF Popped

\* A channel with a message behind it
LEMMA Push ==
  ASSUME NEW S, NEW s \in Seq(S), NEW m \in S, NEW t, t = s \o <<m>>
  PROVE  Pushed(S, s, t, m)
  BY DEF Pushed

\* With two: one, then the other
LEMMA PushTwo ==
  ASSUME NEW S, NEW s \in Seq(S), NEW m \in S, NEW k \in S, NEW t, t = s \o <<m, k>>
  PROVE  \E u : Pushed(S, s, u, m) /\ Pushed(S, u, t, k)
<1> DEFINE u == s \o <<m>>
<1>1. /\ DOMAIN t = 1 .. Len(s) + 2 /\ t \in Seq(S) /\ Len(s) \in Nat
      /\ DOMAIN u = 1 .. Len(s) + 1 /\ Len(u) = Len(s) + 1 /\ u \in Seq(S)
  OBVIOUS
<1>2. \A i \in DOMAIN u : t[i] = u[i]
  OBVIOUS
<1>3. t[Len(s) + 2] = k
  OBVIOUS
<1>4. t # << >> /\ (u # << >> => 1 \in DOMAIN u)
  BY <1>1
<1>5. Pushed(S, s, u, m)
  BY Push
<1>6. Pushed(S, u, t, k)
  BY <1>1, <1>3, <1>4 DEF Pushed
<1> QED BY <1>5, <1>6

Silent(m) == m.type \notin Starts \cup {"wave data"}

\* A message that carries no wave changes nothing about the waves.
LEMMA PushOther ==
  ASSUME Inv, NEW m, Silent(m), Pushed(ServerPdus, toClient, toClient', m),
         Streaming => Streaming',
         UNCHANGED <<sent, heard, waveInfo, negotiated>>
  PROVE  WavesInFlight' /\ Unheard'
<1>1. WavesInFlight /\ Unheard
  BY DEF Inv
<1>2. \A i \in DOMAIN toClient : i \in DOMAIN toClient' /\ toClient'[i] = toClient[i]
  BY DEF Pushed
<1>3. \A i \in DOMAIN toClient' : i \in DOMAIN toClient \/ toClient'[i] = m
  BY DEF Pushed
<1>4. \A i \in DOMAIN toClient' : \A types : 
         types \subseteq Starts \cup {"wave data"} /\ At(toClient', i, types)
           => i \in DOMAIN toClient /\ At(toClient, i, types)
  BY <1>2, <1>3 DEF At, Silent
<1>5. \A i \in DOMAIN toClient : \A types : At(toClient', i, types) <=> At(toClient, i, types)
  BY <1>2 DEF At
<1>6. Base' = Base /\ (waveInfo # << >> => (Decodable(waveInfo[1])' <=> Decodable(waveInfo[1])))
  BY DEF Base, Decodable
<1>7. Starts \subseteq Starts \cup {"wave data"} /\ {"wave info"} \subseteq Starts \cup {"wave data"}
      /\ {"wave data"} \subseteq Starts \cup {"wave data"}
  BY DEF Starts
<1>8. \A i \in DOMAIN toClient : i > 1 => i - 1 \in DOMAIN toClient
  BY DEF Pushed
<1>9. toClient # << >> => 1 \in DOMAIN toClient
  BY DEF Pushed
<1>10. toClient' # << >>
  BY DEF Pushed
<1>11. WavesInFlight'
  <2>1. ASSUME NEW i \in DOMAIN toClient', At(toClient', i, Starts)
        PROVE  Streaming' /\ Decodable(toClient[i])'
    BY <1>1, <1>2, <1>4, <1>7, <2>1 DEF WavesInFlight, Decodable
  <2>2. ASSUME NEW i \in DOMAIN toClient', At(toClient', i, {"wave data"})
        PROVE  \/ i = 1 /\ waveInfo' # << >>
               \/ i > 1 /\ At(toClient', i - 1, {"wave info"})
    BY <1>1, <1>4, <1>5, <1>7, <1>8, <2>2 DEF WavesInFlight
  <2>3. ASSUME NEW i \in DOMAIN toClient', At(toClient', i, {"wave info"})
        PROVE  /\ i + 1 \in DOMAIN toClient' /\ At(toClient', i + 1, {"wave data"})
               /\ toClient'[i + 1].n = toClient'[i].n
    BY <1>1, <1>2, <1>4, <1>5, <1>7, <2>3 DEF WavesInFlight
  <2>4. waveInfo' # << >> =>
          /\ toClient' # << >> /\ At(toClient', 1, {"wave data"})
          /\ toClient'[1].n = waveInfo'[1].n
          /\ Decodable(waveInfo[1])' /\ waveInfo'[1].n = Base'
    BY <1>1, <1>2, <1>5, <1>6, <1>9, <1>10 DEF WavesInFlight
  <2> QED BY <2>1, <2>2, <2>3, <2>4 DEF WavesInFlight
<1>12. Unheard'
  BY <1>1, <1>2, <1>4, <1>5, <1>6, <1>7 DEF Unheard
<1> QED BY <1>11, <1>12


\* What the messages behind the first keep when the first is taken.
LEMMA PopShift ==
  ASSUME Inv, Popped(ServerPdus, toClient, toClient'),
         Streaming => Streaming', UNCHANGED <<sent, negotiated>>
  PROVE  /\ \A i \in DOMAIN toClient' : \A types : At(toClient', i, types) <=> At(toClient, i + 1, types)
         /\ \A i \in DOMAIN toClient' : At(toClient', i, Starts) => Streaming' /\ Decodable(toClient[i])'
         /\ \A i \in DOMAIN toClient' : At(toClient', i, {"wave data"}) =>
              \/ i = 1 /\ At(toClient, 1, {"wave info"})
              \/ i > 1 /\ At(toClient', i - 1, {"wave info"})
         /\ \A i \in DOMAIN toClient' : At(toClient', i, {"wave info"}) =>
              /\ i + 1 \in DOMAIN toClient' /\ At(toClient', i + 1, {"wave data"})
              /\ toClient'[i + 1].n = toClient'[i].n
         /\ \A i \in DOMAIN toClient' : At(toClient', i, Starts) =>
              /\ toClient'[i].n > Base
              /\ At(toClient, 1, Starts) => toClient'[i].n > toClient[1].n
              /\ \A j \in DOMAIN toClient' :
                   j > i /\ At(toClient', j, Starts) => toClient'[j].n > toClient'[i].n
<1>1. WavesInFlight /\ Unheard
  BY DEF Inv
<1>2. \A i \in DOMAIN toClient' :
         /\ i \in Nat /\ i >= 1 /\ i + 1 \in DOMAIN toClient /\ toClient'[i] = toClient[i + 1]
  BY DEF Popped
<1>3. \A i \in DOMAIN toClient' : \A types : At(toClient', i, types) <=> At(toClient, i + 1, types)
  BY <1>2 DEF At
<1>4. 1 \in DOMAIN toClient
  BY DEF Popped
<1>5. \A i \in Nat : i >= 1 /\ i + 1 \in DOMAIN toClient => i \in DOMAIN toClient'
  BY DEF Popped
<1>6. ASSUME NEW i \in DOMAIN toClient', At(toClient', i, Starts)
      PROVE  Streaming' /\ Decodable(toClient[i])'
  BY <1>1, <1>2, <1>3, <1>6 DEF WavesInFlight, Decodable
<1>7. ASSUME NEW i \in DOMAIN toClient', At(toClient', i, {"wave data"})
      PROVE  \/ i = 1 /\ At(toClient, 1, {"wave info"})
             \/ i > 1 /\ At(toClient', i - 1, {"wave info"})
  <2>0. i + 1 \in DOMAIN toClient /\ i \in Nat /\ i >= 1
    BY <1>2
  <2>1. At(toClient, i + 1, {"wave data"})
    BY <1>3, <1>7
  <2>2. i + 1 > 1 /\ (i + 1) - 1 = i /\ i + 1 # 1
    BY <2>0
  <2>3. At(toClient, i, {"wave info"})
    BY <1>1, <2>0, <2>1, <2>2 DEF WavesInFlight
  <2>4. CASE i = 1
    BY <2>3, <2>4
  <2>5. CASE i # 1
    <3>1. i > 1 /\ i - 1 \in Nat /\ i - 1 >= 1 /\ (i - 1) + 1 = i
      BY <2>0, <2>5
    <3>2. i \in DOMAIN toClient
      BY <2>0 DEF Popped
    <3>3. i - 1 \in DOMAIN toClient'
      BY <1>5, <3>1, <3>2
    <3> QED BY <1>3, <2>3, <3>1, <3>3
  <2> QED BY <2>4, <2>5
<1>8. ASSUME NEW i \in DOMAIN toClient', At(toClient', i, {"wave info"})
      PROVE  /\ i + 1 \in DOMAIN toClient' /\ At(toClient', i + 1, {"wave data"})
             /\ toClient'[i + 1].n = toClient'[i].n
  <2>1. /\ i + 1 \in DOMAIN toClient /\ i \in Nat /\ i >= 1 /\ i + 1 \in Nat /\ i + 1 >= 1
        /\ toClient'[i] = toClient[i + 1]
    BY <1>2
  <2>2. At(toClient, i + 1, {"wave info"})
    BY <1>3, <1>8
  <2>3. /\ (i + 1) + 1 \in DOMAIN toClient /\ At(toClient, (i + 1) + 1, {"wave data"})
        /\ toClient[(i + 1) + 1].n = toClient[i + 1].n
    BY <1>1, <2>1, <2>2 DEF WavesInFlight
  <2>4. i + 1 \in DOMAIN toClient'
    BY <1>5, <2>1, <2>3
  <2> QED BY <1>2, <1>3, <2>1, <2>3, <2>4
<1>9. ASSUME NEW i \in DOMAIN toClient', At(toClient', i, Starts)
      PROVE  /\ toClient'[i].n > Base
             /\ At(toClient, 1, Starts) => toClient'[i].n > toClient[1].n
             /\ \A j \in DOMAIN toClient' :
                  j > i /\ At(toClient', j, Starts) => toClient'[j].n > toClient'[i].n
  <2>1. i + 1 \in DOMAIN toClient /\ i + 1 > 1 /\ toClient'[i] = toClient[i + 1]
    BY <1>2
  <2>2. At(toClient, i + 1, Starts)
    BY <1>3, <1>9
  <2>3. toClient[i + 1].n > Base /\ (At(toClient, 1, Starts) => toClient[i + 1].n > toClient[1].n)
    BY <1>1, <1>4, <2>1, <2>2 DEF Unheard
  <2>4. ASSUME NEW j \in DOMAIN toClient', j > i, At(toClient', j, Starts)
        PROVE  toClient'[j].n > toClient'[i].n
    <3>1. j + 1 \in DOMAIN toClient /\ j + 1 > i + 1 /\ toClient'[j] = toClient[j + 1]
      BY <1>2, <2>4
    <3>2. At(toClient, j + 1, Starts)
      BY <1>3, <2>4
    <3> QED BY <1>1, <2>1, <2>2, <3>1, <3>2 DEF Unheard
  <2> QED BY <2>1, <2>3, <2>4
<1> QED BY <1>3, <1>6, <1>7, <1>8, <1>9

\* The first wave on its way is the next to be heard.
LEMMA FirstIsNext ==
  ASSUME Inv, waveInfo = << >>, 1 \in DOMAIN toClient, At(toClient, 1, Starts)
  PROVE  Base = Len(heard) /\ toClient[1].n = Len(heard) + 1 /\ Decodable(toClient[1])
<1>1. WavesInFlight /\ Unheard /\ Shapes
  BY DEF Inv
<1>2. Decodable(toClient[1]) /\ toClient[1].n \in DOMAIN sent
  BY <1>1 DEF WavesInFlight, Decodable
<1>3. Base = Len(heard) /\ Len(heard) \in Nat
  BY <1>1 DEF Base, Shapes
<1>4. DOMAIN sent = 1 .. Len(sent) /\ Len(sent) \in Nat
  BY <1>1 DEF Shapes
<1>5. toClient[1].n > Base
  BY <1>1 DEF Unheard
<1> DEFINE n == toClient[1].n
<1>6. n \in Nat /\ Base + 1 \in DOMAIN sent /\ Base + 1 > Base /\ Base + 1 <= n
  <2> HIDE DEF n
  <2>1. n \in DOMAIN sent /\ n > Base
    BY <1>2, <1>5 DEF n
  <2> QED BY <1>3, <1>4, <2>1
<1>7. PICK i \in DOMAIN toClient : At(toClient, i, Starts) /\ toClient[i].n = Base + 1
  BY <1>1, <1>6 DEF Unheard
<1>8. DOMAIN toClient = 1 .. Len(toClient) /\ Len(toClient) \in Nat
  BY <1>1 DEF Shapes
<1>9. i = 1 \/ i > 1
  <2> HIDE DEF n
  <2> QED BY <1>8
<1>10. i > 1 => Base + 1 > n
  BY <1>1, <1>7 DEF Unheard
<1>11. ~ (i > 1)
  <2> HIDE DEF n
  <2> QED BY <1>3, <1>6, <1>10
<1> QED BY <1>2, <1>3, <1>7, <1>9, <1>11

\* A message that carries no wave is taken.
LEMMA PopOther ==
  ASSUME Inv, Popped(ServerPdus, toClient, toClient'), waveInfo = << >>, Silent(toClient[1]),
         Streaming => Streaming', UNCHANGED <<sent, heard, waveInfo, negotiated>>
  PROVE  WavesInFlight' /\ Unheard'
<1>1. WavesInFlight /\ Unheard
  BY DEF Inv
<1>2. Base' = Base
  BY DEF Base
<1>3. ~ At(toClient, 1, Starts) /\ ~ At(toClient, 1, {"wave info"})
  BY DEF At, Silent, Starts
<1>4. WavesInFlight'
  BY <1>3, PopShift DEF WavesInFlight
<1>5. ASSUME NEW n \in DOMAIN sent, n > Base
      PROVE  \E i \in DOMAIN toClient' : At(toClient', i, Starts) /\ toClient'[i].n = n
  <2>1. PICK i \in DOMAIN toClient : At(toClient, i, Starts) /\ toClient[i].n = n
    BY <1>1, <1>5 DEF Unheard
  <2>2. i # 1
    BY <1>3, <2>1
  <2>3. i - 1 \in DOMAIN toClient' /\ (i - 1) + 1 = i
    BY <2>2 DEF Popped
  <2>4. toClient'[i - 1] = toClient[i]
    BY <2>3 DEF Popped
  <2> QED BY <2>1, <2>3, <2>4, PopShift
<1>6. Unheard'
  BY <1>1, <1>2, <1>5, PopShift DEF Unheard
<1> QED BY <1>4, <1>6

\* A wave is begun: it leaves the channel, and the base passes it.
LEMMA PopStart ==
  ASSUME Inv, Popped(ServerPdus, toClient, toClient'), waveInfo = << >>,
         At(toClient, 1, Starts), Base' = Base + 1,
         Streaming => Streaming', UNCHANGED <<sent, negotiated>>
  PROVE  Unheard'
<1>1. Unheard /\ Shapes
  BY DEF Inv
<1>2. 1 \in DOMAIN toClient
  BY DEF Popped
<1>3. toClient[1].n = Base + 1
  BY <1>2, FirstIsNext
<1>4. ASSUME NEW i \in DOMAIN toClient', At(toClient', i, Starts)
      PROVE  /\ toClient'[i].n > Base'
             /\ \A j \in DOMAIN toClient' :
                  j > i /\ At(toClient', j, Starts) => toClient'[j].n > toClient'[i].n
  BY <1>3, <1>4, PopShift
<1>5. Base \in Nat /\ \A n \in DOMAIN sent : n \in Nat
  <2>1. heard \in Seq(Waves) /\ sent \in Seq(Waves) /\ waveInfo = << >>
    BY <1>1 DEF Shapes
  <2> QED BY <2>1 DEF Base
<1>6. \A n \in DOMAIN sent : n > Base' => n > Base /\ n # Base + 1
  BY <1>5
<1>7. ASSUME NEW n \in DOMAIN sent, n > Base'
      PROVE  \E i \in DOMAIN toClient' : At(toClient', i, Starts) /\ toClient'[i].n = n
  <2>1. PICK i \in DOMAIN toClient : At(toClient, i, Starts) /\ toClient[i].n = n
    BY <1>1, <1>6, <1>7 DEF Unheard
  <2>2. i # 1
    BY <1>3, <1>6, <1>7, <2>1
  <2>3. i - 1 \in DOMAIN toClient' /\ (i - 1) + 1 = i
    BY <2>2 DEF Popped
  <2>4. toClient'[i - 1] = toClient[i]
    BY <2>3 DEF Popped
  <2> QED BY <2>1, <2>3, <2>4, PopShift
<1>8. Base' <= Len(sent)
  <2>1. toClient[1].n \in DOMAIN sent
    BY <1>2, FirstIsNext DEF Decodable
  <2>2. DOMAIN sent = 1 .. Len(sent)
    BY <1>1 DEF Shapes
  <2> QED BY <1>3, <2>1, <2>2
<1> QED BY <1>4, <1>7, <1>8 DEF Unheard

\* A wave of one message
LEMMA PopWhole ==
  ASSUME Inv, Popped(ServerPdus, toClient, toClient'), waveInfo = << >>,
         At(toClient, 1, {"wave", "wave2"}), Len(heard') = Len(heard) + 1,
         Streaming => Streaming', UNCHANGED <<sent, waveInfo, negotiated>>
  PROVE  WavesInFlight' /\ Unheard'
<1>1. At(toClient, 1, Starts) /\ ~ At(toClient, 1, {"wave info"})
  BY DEF At, Starts
<1>2. Base' = Base + 1
  <2>1. heard \in Seq(Waves)
    BY DEF Inv, Shapes
  <2> QED BY <2>1 DEF Base
<1>3. Unheard'
  BY <1>1, <1>2, PopStart
<1>4. WavesInFlight'
  BY <1>1, PopShift DEF WavesInFlight
<1> QED BY <1>3, <1>4

\* The first message, a WaveInfo, is put into the option.
InfoIsKept ==
  /\ At(toClient, 1, {"wave info"})
  /\ waveInfo' # << >> /\ Len(waveInfo') = 1 /\ waveInfo'[1] = toClient[1]

\* The first message of a wave of two
LEMMA PopInfo ==
  ASSUME Inv, Popped(ServerPdus, toClient, toClient'), waveInfo = << >>, InfoIsKept,
         Streaming => Streaming', UNCHANGED <<sent, heard, negotiated>>
  PROVE  WavesInFlight' /\ Unheard'
<1>1. At(toClient, 1, Starts) /\ 1 \in DOMAIN toClient
  BY DEF InfoIsKept, At, Starts, Popped
<1>2. Base' = Base + 1
  <2>1. Len(heard) \in Nat
    BY DEF Inv, Shapes
  <2>2. Len(waveInfo') = 1 /\ Len(waveInfo) = 0
    BY DEF InfoIsKept
  <2> QED BY <2>1, <2>2 DEF Base
<1>3. Unheard'
  BY <1>1, <1>2, PopStart
<1>4. toClient[1].n = Base' /\ Decodable(toClient[1])
  <2>1. Base = Len(heard) /\ toClient[1].n = Len(heard) + 1 /\ Decodable(toClient[1])
    BY <1>1, FirstIsNext
  <2> QED BY <1>2, <2>1
<1>5. WavesInFlight
  BY DEF Inv
<1>6. 1 + 1 = 2
  OBVIOUS
<1>7. 2 \in DOMAIN toClient /\ At(toClient, 2, {"wave data"}) /\ toClient[2].n = toClient[1].n
  BY <1>1, <1>5, <1>6 DEF WavesInFlight, InfoIsKept
<1>8. toClient' # << >> /\ 1 \in DOMAIN toClient' /\ toClient'[1] = toClient[2]
  BY <1>6, <1>7 DEF Popped
<1>9. /\ toClient' # << >> /\ At(toClient', 1, {"wave data"})
      /\ toClient'[1].n = waveInfo'[1].n
      /\ Decodable(waveInfo[1])' /\ waveInfo'[1].n = Base'
  BY <1>4, <1>7, <1>8 DEF At, Decodable, InfoIsKept
<1>10. WavesInFlight'
  <2>1. ~ (waveInfo' = << >>)
    BY DEF InfoIsKept
  <2> QED BY <1>9, <2>1, PopShift DEF WavesInFlight
<1> QED BY <1>3, <1>10

\* The second: its wave was begun before.
LEMMA PopData ==
  ASSUME Inv, Popped(ServerPdus, toClient, toClient'), waveInfo # << >>, waveInfo' = << >>,
         Len(heard') = Len(heard) + 1,
         Streaming => Streaming', UNCHANGED <<sent, negotiated>>
  PROVE  WavesInFlight' /\ Unheard'
<1>1. WavesInFlight /\ Unheard /\ Shapes
  BY DEF Inv
<1>2. ~ At(toClient, 1, Starts) /\ ~ At(toClient, 1, {"wave info"})
  BY <1>1 DEF WavesInFlight, At, Starts
<1>3. Base' = Base
  <2>1. heard \in Seq(Waves) /\ waveInfo \in [{1} -> ServerPdus]
    BY <1>1 DEF Shapes
  <2>2. Len(waveInfo) = 1 /\ Len(waveInfo') = 0
    BY <2>1
  <2> QED BY <2>1, <2>2 DEF Base
<1>4. WavesInFlight'
  BY <1>2, PopShift DEF WavesInFlight
<1>5. ASSUME NEW n \in DOMAIN sent, n > Base
      PROVE  \E i \in DOMAIN toClient' : At(toClient', i, Starts) /\ toClient'[i].n = n
  <2>1. PICK i \in DOMAIN toClient : At(toClient, i, Starts) /\ toClient[i].n = n
    BY <1>1, <1>5 DEF Unheard
  <2>2. i # 1
    BY <1>2, <2>1
  <2>3. i - 1 \in DOMAIN toClient' /\ (i - 1) + 1 = i
    BY <2>2 DEF Popped
  <2>4. toClient'[i - 1] = toClient[i]
    BY <2>3 DEF Popped
  <2> QED BY <2>1, <2>3, <2>4, PopShift
<1>6. Unheard'
  BY <1>1, <1>3, <1>5, PopShift DEF Unheard
<1> QED BY <1>4, <1>6

\* t is toClient with the wave that m begins behind it, in one message or in two.
Extended(t, m) ==
  /\ t \in Seq(ServerPdus) /\ (toClient # << >> => 1 \in DOMAIN toClient)
  /\ t # << >> /\ DOMAIN toClient \subseteq 1 .. Len(toClient) /\ Len(toClient) \in Nat
  /\ \A i \in DOMAIN toClient : i \in DOMAIN t /\ t[i] = toClient[i]
  /\ Len(toClient) + 1 \in DOMAIN t /\ t[Len(toClient) + 1] = m
  /\ \A i \in DOMAIN t :
       \/ i \in DOMAIN toClient
       \/ i = Len(toClient) + 1
       \/ i = Len(toClient) + 2 /\ m.type = "wave info" /\ At(t, i, {"wave data"})
  /\ m.type = "wave info" =>
       /\ Len(toClient) + 2 \in DOMAIN t /\ At(t, Len(toClient) + 2, {"wave data"})
       /\ t[Len(toClient) + 2].n = m.n

\* The PDU of the wave that is sent now
Begins(m) ==
  /\ m.type \in Starts /\ m.n = Len(sent) + 1 /\ m.no \in DOMAIN negotiated
  /\ sent' = Append(sent, Wave(Len(sent) + 1, negotiated[m.no]))

\* What a wave that is sent leaves true of the waves before it
LEMMA SentGrows ==
  ASSUME Inv, NEW m, Begins(m), UNCHANGED negotiated
  PROVE  /\ Decodable(m)' /\ \A k : Decodable(k) => Decodable(k)'
         /\ \A k : Decodable(k) => k.n \in Nat /\ k.n < m.n
         /\ Base <= Len(sent) /\ Len(sent) \in Nat /\ m.n = Len(sent) + 1 /\ Len(sent') = Len(sent) + 1
         /\ \A n \in DOMAIN sent' : n \in DOMAIN sent \/ n = m.n
<1> DEFINE w == Wave(Len(sent) + 1, negotiated[m.no])
<1>1. sent \in Seq(Waves) /\ Base <= Len(sent)
  BY DEF Inv, Shapes, Unheard
<1>2. sent' = Append(sent, w) /\ m.n = Len(sent) + 1 /\ m.no \in DOMAIN negotiated
  BY DEF Begins
<1>3. w \in Waves
  <2>1. negotiated[m.no] \in Formats
    BY <1>2 DEF Inv, Shapes
  <2>2. Len(sent) + 1 \in Nat
    BY <1>1
  <2> QED BY <2>1, <2>2 DEF Waves, Wave
<1> HIDE DEF w
<1>4. /\ DOMAIN sent' = 1 .. Len(sent) + 1 /\ DOMAIN sent = 1 .. Len(sent) /\ Len(sent) \in Nat
      /\ Len(sent') = Len(sent) + 1
      /\ sent'[Len(sent) + 1] = w /\ \A n \in DOMAIN sent : sent'[n] = sent[n]
  <2>1. sent' = Append(sent, w)
    BY <1>2
  <2> QED BY <1>1, <1>3, <2>1
<1>5. Len(sent) + 1 \in DOMAIN sent' /\ \A n \in DOMAIN sent : n \in DOMAIN sent' /\ n \in Nat /\ n < Len(sent) + 1
  BY <1>4
<1>6. \A n \in DOMAIN sent' : n \in DOMAIN sent \/ n = Len(sent) + 1
  BY <1>4
<1>7. Decodable(m)'
  BY <1>2, <1>4, <1>5 DEF Decodable, w
<1>8. \A k : Decodable(k) => Decodable(k)'
  BY <1>4, <1>5 DEF Decodable
<1>9. \A k : Decodable(k) => k.n \in Nat /\ k.n < m.n
  BY <1>2, <1>5 DEF Decodable
<1> QED BY <1>1, <1>2, <1>4, <1>6, <1>7, <1>8, <1>9

\* A wave is sent.
LEMMA PushWave ==
  ASSUME Inv, NEW m, Begins(m), Extended(toClient', m), Streaming, Streaming',
         UNCHANGED <<heard, waveInfo, negotiated>>
  PROVE  WavesInFlight' /\ Unheard'
<1>1. WavesInFlight /\ Unheard
  BY DEF Inv
<1>2. m.type \in Starts /\ m.type # "wave data"
  BY DEF Begins, Starts
<1> DEFINE e == Len(toClient) + 1
           f == Len(toClient) + 2
<1>3. /\ e \in DOMAIN toClient' /\ toClient'[e] = m /\ At(toClient', e, Starts)
      /\ ~ At(toClient', e, {"wave data"})
  BY <1>2 DEF Extended, At
<1>4. \A i \in DOMAIN toClient : \A types :
         i \in DOMAIN toClient' /\ toClient'[i] = toClient[i]
         /\ (At(toClient', i, types) <=> At(toClient, i, types))
  BY DEF Extended, At
<1>5. \A i \in DOMAIN toClient' : At(toClient', i, Starts) => i \in DOMAIN toClient \/ i = e
  BY DEF Extended, At, Starts
<1>6. \A i \in DOMAIN toClient' : At(toClient', i, {"wave info"}) => i \in DOMAIN toClient \/ i = e
  BY DEF Extended, At
<1>7. \A i \in DOMAIN toClient' :
         At(toClient', i, {"wave data"}) => i \in DOMAIN toClient \/ (i = f /\ m.type = "wave info")
  BY <1>3 DEF Extended
<1>8. m.type = "wave info" =>
        f \in DOMAIN toClient' /\ At(toClient', f, {"wave data"}) /\ toClient'[f].n = m.n
  BY DEF Extended
<1>9. /\ f = e + 1 /\ f > 1 /\ f - 1 = e
      /\ \A i \in DOMAIN toClient : i < e /\ ~ (i > e) /\ (i > 1 => i - 1 \in DOMAIN toClient)
  <2>1. DOMAIN toClient = 1 .. Len(toClient) /\ Len(toClient) \in Nat
    BY DEF Inv, Shapes
  <2> QED BY <2>1
<1> HIDE DEF e, f
<1>10. At(toClient', e, {"wave info"}) => m.type = "wave info"
  BY <1>3 DEF At
<1>11. m.type = "wave info" => At(toClient', e, {"wave info"})
  BY <1>3 DEF At
<1>12. WavesInFlight'
  <2>1. ASSUME NEW i \in DOMAIN toClient', At(toClient', i, Starts)
        PROVE  Streaming' /\ Decodable(toClient[i])'
    <3>1. CASE i \in DOMAIN toClient
      BY <1>1, <1>4, <2>1, <3>1, SentGrows DEF WavesInFlight, Decodable
    <3>2. CASE i = e
      BY <1>3, <3>2, SentGrows DEF Decodable
    <3> QED BY <1>5, <2>1, <3>1, <3>2
  <2>2. ASSUME NEW i \in DOMAIN toClient', At(toClient', i, {"wave data"})
        PROVE  \/ i = 1 /\ waveInfo' # << >>
               \/ i > 1 /\ At(toClient', i - 1, {"wave info"})
    BY <1>1, <1>4, <1>7, <1>9, <1>11, <2>2 DEF WavesInFlight
  <2>3. ASSUME NEW i \in DOMAIN toClient', At(toClient', i, {"wave info"})
        PROVE  /\ i + 1 \in DOMAIN toClient' /\ At(toClient', i + 1, {"wave data"})
               /\ toClient'[i + 1].n = toClient'[i].n
    BY <1>1, <1>3, <1>4, <1>6, <1>8, <1>9, <1>10, <2>3 DEF WavesInFlight
  <2>4. waveInfo' # << >> =>
          /\ toClient' # << >> /\ At(toClient', 1, {"wave data"})
          /\ toClient'[1].n = waveInfo'[1].n
          /\ Decodable(waveInfo[1])' /\ waveInfo'[1].n = Base'
    <3>1. toClient' # << >> /\ (toClient # << >> => 1 \in DOMAIN toClient) /\ Base' = Base
      BY DEF Extended, Base
    <3>2. Decodable(waveInfo[1]) => Decodable(waveInfo[1])'
      BY SentGrows DEF Decodable
    <3> QED BY <1>1, <1>4, <3>1, <3>2 DEF WavesInFlight
  <2> QED BY <2>1, <2>2, <2>3, <2>4 DEF WavesInFlight
<1>13. Unheard'
  <2>1. /\ Base' = Base /\ Base <= Len(sent) /\ Len(sent) \in Nat /\ m.n = Len(sent) + 1
        /\ Len(sent') = Len(sent) + 1
    BY SentGrows DEF Base
  <2>2. Base \in Nat
    <3>1. heard \in Seq(Waves) /\ (waveInfo = << >> \/ waveInfo \in [{1} -> ServerPdus])
      BY DEF Inv, Shapes
    <3>2. Len(waveInfo) \in Nat
      BY <3>1
    <3> QED BY <3>1, <3>2 DEF Base
  <2>3. Base' <= Len(sent') /\ m.n > Base'
    <3> DEFINE n == m.n
    <3> HIDE DEF n
    <3>1. n = Len(sent) + 1
      BY <2>1 DEF n
    <3>2. Base' <= Len(sent') /\ n > Base'
      BY <2>1, <2>2, <3>1
    <3> QED BY <3>2 DEF n
  <2>4. \A i \in DOMAIN toClient : At(toClient, i, Starts) => m.n > toClient[i].n
    BY <1>1, SentGrows DEF WavesInFlight
  <2>5. ASSUME NEW i \in DOMAIN toClient', At(toClient', i, Starts)
        PROVE  /\ toClient'[i].n > Base'
               /\ \A j \in DOMAIN toClient' :
                    j > i /\ At(toClient', j, Starts) => toClient'[j].n > toClient'[i].n
    <3>1. CASE i \in DOMAIN toClient
      BY <1>1, <1>3, <1>4, <1>5, <2>1, <2>4, <2>5, <3>1 DEF Unheard
    <3>2. CASE i = e
      <4>1. \A j \in DOMAIN toClient' : At(toClient', j, Starts) => ~ (j > i)
        BY <1>5, <1>9, <3>2
      <4> QED BY <1>3, <2>3, <3>2, <4>1
    <3> QED BY <1>5, <2>5, <3>1, <3>2
  <2>6. ASSUME NEW n \in DOMAIN sent', n > Base'
        PROVE  \E i \in DOMAIN toClient' : At(toClient', i, Starts) /\ toClient'[i].n = n
    <3>1. n \in DOMAIN sent \/ n = m.n
      BY SentGrows
    <3>2. CASE n = m.n
      BY <1>3, <3>2
    <3>3. CASE n \in DOMAIN sent
      BY <1>1, <1>4, <2>1, <2>6, <3>3 DEF Unheard
    <3> QED BY <3>1, <3>2, <3>3
  <2> QED BY <2>3, <2>5, <2>6 DEF Unheard
<1> QED BY <1>12, <1>13

-----------------------------------------------------------------------------
(* The handshake.                                                          *)

\* Every PDU of the client is of one of four types.
LEMMA AnswerTypes ==
  ASSUME toServer \in Seq(ClientPdus), NEW i \in DOMAIN toServer
  PROVE  \/ At(toServer, i, {"formats"}) \/ At(toServer, i, {"quality"})
         \/ At(toServer, i, {"training confirm"}) \/ At(toServer, i, {"wave confirm"})
<1>1. toServer[i] \in ClientPdus
  OBVIOUS
<1> QED BY <1>1 DEF ClientPdus, At

\* What is not a confirmation has the channel to the client free of formats and training.
LEMMA AnswerIsAlone ==
  ASSUME Inv, NEW i \in DOMAIN toServer, ~ At(toServer, i, {"wave confirm"})
  PROVE  \A j \in DOMAIN toClient : ~ At(toClient, j, {"formats"}) /\ ~ At(toClient, j, {"training"})
  BY DEF Inv, Handshake, FormatsInFlight, TrainingInFlight

\* No index of a sequence is below one.
LEMMA NoneBeforeFirst ==
  ASSUME NEW S, NEW s \in Seq(S), NEW j \in DOMAIN s
  PROVE  ~ (j < 1)
  OBVIOUS

\* The server meets the PDU its state allows.
LEMMA ExpectedComes ==
  ASSUME Inv, 1 \in DOMAIN toServer,
         "negotiate again" \in Peer => ~ At(toServer, 1, {"wave confirm"})
  PROVE  /\ server = "WaitingForClientFormats" => At(toServer, 1, {"formats"})
         /\ server = "WaitingForQualityMode" => At(toServer, 1, {"quality"})
         /\ server = "WaitingForTrainingConfirm" => At(toServer, 1, {"training confirm"})
<1>1. AnswersInFlight /\ Shapes
  BY DEF Inv, Handshake
<1>2. \/ At(toServer, 1, {"formats"}) \/ At(toServer, 1, {"quality"})
      \/ At(toServer, 1, {"training confirm"}) \/ At(toServer, 1, {"wave confirm"})
  BY <1>1, AnswerTypes DEF Shapes
<1>3. \A j \in DOMAIN toServer : ~ (j < 1)
  BY <1>1, NoneBeforeFirst DEF Shapes
<1>4. At(toServer, 1, {"formats"}) => server = "WaitingForClientFormats"
  BY <1>1 DEF AnswersInFlight, AnswersOf
<1>5. At(toServer, 1, {"quality"}) => server = "WaitingForQualityMode"
  BY <1>1, <1>3 DEF AnswersInFlight, AnswersOf
<1>6. At(toServer, 1, {"training confirm"}) => server = "WaitingForTrainingConfirm"
  BY <1>1 DEF AnswersInFlight, AnswersOf
<1>7. At(toServer, 1, {"wave confirm"}) => server = "Ready"
  BY <1>1 DEF AnswersInFlight, AnswersOf, Streaming
<1> QED BY <1>2, <1>4, <1>5, <1>6, <1>7

\* The indices of a channel that lost its first message
LEMMA Shift ==
  ASSUME NEW S, NEW s, NEW t, Popped(S, s, t)
  PROVE  /\ \A i \in DOMAIN t : i + 1 \in DOMAIN s /\ i + 1 # 1 /\ i \in Nat /\ t[i] = s[i + 1]
         /\ \A i \in DOMAIN t, j \in DOMAIN t : (i + 1 = j + 1 => i = j) /\ (i + 1 < j + 1 => i < j)
         /\ \A i \in DOMAIN s : i # 1 => i - 1 \in DOMAIN t /\ (i - 1) + 1 = i
         /\ (t = << >> => DOMAIN t = {}) /\ 1 \in DOMAIN s
         /\ \A i \in DOMAIN t : \A types : At(t, i, types) <=> At(s, i + 1, types)
<1>1. \A i \in DOMAIN t : i + 1 \in DOMAIN s /\ i \in Nat /\ i >= 1 /\ t[i] = s[i + 1]
  BY DEF Popped
<1>2. \A i \in DOMAIN s : i \in Nat /\ i >= 1 /\ (i # 1 => i - 1 \in DOMAIN t /\ (i - 1) + 1 = i)
  BY DEF Popped
<1>3. \A i \in DOMAIN t : \A types : At(t, i, types) <=> At(s, i + 1, types)
  BY <1>1 DEF At
<1>4. t = << >> => DOMAIN t = {}
  OBVIOUS
<1>5. 1 \in DOMAIN s
  BY DEF Popped
<1>6. \A i \in DOMAIN t, j \in DOMAIN t : (i + 1 = j + 1 => i = j) /\ (i + 1 < j + 1 => i < j)
  BY <1>1
<1>7. \A i \in DOMAIN t : i + 1 # 1
  BY <1>1
<1> QED BY <1>1, <1>2, <1>3, <1>4, <1>5, <1>6, <1>7

\* The client's formats are taken: a quality mode may be left, from version 6 on.
LEMMA AfterFormats ==
  ASSUME Inv, Popped(ClientPdus, toServer, toServer'), At(toServer, 1, {"formats"}),
         UNCHANGED <<serverVersion, negotiated>>
  PROVE  /\ server' = "WaitingForQualityMode" => AnswersInFlight'
         /\ ~ (serverVersion >= 6) => OnlyConfirms'
<1>1. AnswersInFlight /\ Shapes /\ server = "WaitingForClientFormats"
  <2>1. 1 \in DOMAIN toServer
    BY Shift
  <2> QED BY <2>1 DEF Inv, Handshake, AnswersInFlight, AnswersOf
<1>2. ASSUME NEW i \in DOMAIN toServer'
      PROVE  /\ ~ At(toServer', i, {"formats"}) /\ ~ At(toServer', i, {"training confirm"})
             /\ At(toServer', i, {"wave confirm"}) => Streaming
             /\ At(toServer', i, {"quality"}) =>
                  /\ serverVersion >= 6
                  /\ \A j \in DOMAIN toServer' : At(toServer', j, {"quality"}) => j = i
  <2>1. /\ i + 1 \in DOMAIN toServer /\ i + 1 # 1 /\ 1 \in DOMAIN toServer
        /\ \A types : At(toServer', i, types) <=> At(toServer, i + 1, types)
    BY Shift
  <2>2. ~ At(toServer, i + 1, {"formats"}) /\ ~ At(toServer, i + 1, {"training confirm"})
    BY <1>1, <2>1 DEF AnswersInFlight, AnswersOf
  <2>3. At(toServer, i + 1, {"wave confirm"}) => Streaming
    BY <1>1, <2>1 DEF AnswersInFlight, AnswersOf
  <2>4. At(toServer, i + 1, {"quality"}) =>
          /\ serverVersion >= 6
          /\ \A j \in DOMAIN toServer : At(toServer, j, {"quality"}) => j = i + 1
    BY <1>1, <2>1 DEF AnswersInFlight, AnswersOf
  <2>5. \A j \in DOMAIN toServer' : At(toServer', j, {"quality"}) =>
          j + 1 \in DOMAIN toServer /\ At(toServer, j + 1, {"quality"}) /\ (j + 1 = i + 1 => j = i)
    BY Shift
  <2> QED BY <2>1, <2>2, <2>3, <2>4, <2>5
<1>3. Streaming => Streaming'
  BY <1>1 DEF Streaming
<1>4. server' = "WaitingForQualityMode" => AnswersInFlight'
  BY <1>2, <1>3 DEF AnswersInFlight, AnswersOf
<1>5. toServer' \in Seq(ClientPdus)
  BY DEF Popped
<1>6. ~ (serverVersion >= 6) => OnlyConfirms'
  <2>1. ASSUME ~ (serverVersion >= 6), NEW i \in DOMAIN toServer'
        PROVE  At(toServer', i, {"wave confirm"})
    <3>1. \/ At(toServer', i, {"formats"}) \/ At(toServer', i, {"quality"})
          \/ At(toServer', i, {"training confirm"}) \/ At(toServer', i, {"wave confirm"})
      <4>1. toServer'[i] \in ClientPdus
        BY <1>5
      <4> QED BY <4>1 DEF ClientPdus, At
    <3> QED BY <1>2, <2>1, <3>1
  <2> QED BY <2>1 DEF OnlyConfirms
<1> QED BY <1>4, <1>6

\* The quality mode or the confirmation of the training is taken.
LEMMA AfterAnswer ==
  ASSUME Inv, Popped(ClientPdus, toServer, toServer'),
         At(toServer, 1, {"quality"}) \/ At(toServer, 1, {"training confirm"})
  PROVE  OnlyConfirms'
<1>1. AnswersInFlight /\ Shapes /\ 1 \in DOMAIN toServer
  BY Shift DEF Inv, Handshake
<1>2. server # "WaitingForClientFormats"
  <2>1. \A j \in DOMAIN toServer : ~ (j < 1)
    BY <1>1, NoneBeforeFirst DEF Shapes
  <2> QED BY <1>1, <2>1 DEF AnswersInFlight, AnswersOf
<1>3. ASSUME NEW i \in DOMAIN toServer, i # 1
      PROVE  At(toServer, i, {"wave confirm"})
  <2>1. \/ At(toServer, i, {"formats"}) \/ At(toServer, i, {"quality"})
        \/ At(toServer, i, {"training confirm"}) \/ At(toServer, i, {"wave confirm"})
    BY <1>1, AnswerTypes DEF Shapes
  <2>2. ~ At(toServer, i, {"formats"})
    BY <1>1, <1>2 DEF AnswersInFlight, AnswersOf
  <2>3. ~ At(toServer, i, {"quality"})
    BY <1>1, <1>2, <1>3 DEF AnswersInFlight, AnswersOf
  <2>4. ~ At(toServer, i, {"training confirm"})
    BY <1>1, <1>3, <1>2 DEF AnswersInFlight, AnswersOf
  <2> QED BY <2>1, <2>2, <2>3, <2>4
<1>4. ASSUME NEW i \in DOMAIN toServer'
      PROVE  At(toServer', i, {"wave confirm"})
  <2>1. /\ i + 1 \in DOMAIN toServer /\ i + 1 # 1
        /\ At(toServer', i, {"wave confirm"}) <=> At(toServer, i + 1, {"wave confirm"})
    BY Shift
  <2> QED BY <1>3, <2>1
<1> QED BY <1>4 DEF OnlyConfirms

\* Only confirmations are left.
LEMMA ConfirmsLeft ==
  ASSUME Inv, Popped(ClientPdus, toServer, toServer'), OnlyConfirms', Streaming => Streaming'
  PROVE  AnswersInFlight'
<1>1. AnswersInFlight
  BY DEF Inv, Handshake
<1>2. ASSUME NEW i \in DOMAIN toServer'
      PROVE  /\ At(toServer', i, {"wave confirm"}) => Streaming'
             /\ ~ At(toServer', i, {"formats"}) /\ ~ At(toServer', i, {"quality"})
             /\ ~ At(toServer', i, {"training confirm"})
  <2>1. At(toServer', i, {"wave confirm"})
    BY DEF OnlyConfirms
  <2>2. i + 1 \in DOMAIN toServer /\ At(toServer, i + 1, {"wave confirm"})
    BY <2>1, Shift
  <2> QED BY <1>1, <2>1, <2>2 DEF AnswersInFlight, AnswersOf, At
<1> QED BY <1>2 DEF AnswersInFlight, AnswersOf

\* The server goes on to `server'`, perhaps with the training, when nothing else of the
\* handshake is on its way to the client.
LEMMA ServerGoesOn ==
  ASSUME Inv, client # "Start", server' \in Answered, Streaming => Streaming',
         clientFormats' = negotiated, clientVersion' = serverVersion,
         formatNo' # 0 => server' = "Ready", UNCHANGED clientVars, AnswersInFlight',
         \A j \in DOMAIN toClient : ~ At(toClient, j, {"formats"}) /\ ~ At(toClient, j, {"training"}),
         \/ toClient' = toClient
         \/ /\ Pushed(ServerPdus, toClient, toClient', Pdu("training", 0, 0))
            /\ server' = "WaitingForTrainingConfirm" /\ OnlyConfirms'
  PROVE  Handshake'
<1>1. States
  BY DEF Inv, Handshake
<1>2. States'
  <2>1. /\ client \in {"WaitingForTraining", "Ready"} /\ failed = FALSE
        /\ waveInfo # << >> => Streaming
    BY <1>1 DEF States
  <2>2. server' # "Start"
    BY DEF Answered
  <2> QED BY <2>1, <2>2 DEF States, clientVars
<1>3. CASE toClient' = toClient
  BY <1>2, <1>3 DEF Handshake, FormatsInFlight, TrainingInFlight, At
<1>4. CASE /\ Pushed(ServerPdus, toClient, toClient', Pdu("training", 0, 0))
           /\ server' = "WaitingForTrainingConfirm" /\ OnlyConfirms'
  <2>1. Pdu("training", 0, 0).type = "training"
    BY DEF Pdu
  <2>2. \A j \in DOMAIN toClient' : ~ At(toClient', j, {"formats"})
    BY <1>4, <2>1 DEF Pushed, At
  <2>3. \A j \in DOMAIN toClient' : At(toClient', j, {"training"}) => j = Len(toClient) + 1
    <3>1. \A j \in DOMAIN toClient' : j \in DOMAIN toClient \/ j = Len(toClient) + 1
      BY <1>4 DEF Pushed
    <3>2. \A j \in DOMAIN toClient : ~ At(toClient', j, {"training"})
      BY <1>4 DEF Pushed, At
    <3> QED BY <3>1, <3>2
  <2> QED BY <1>2, <1>4, <2>2, <2>3 DEF Handshake, FormatsInFlight, TrainingInFlight, OnlyConfirms
<1> QED BY <1>3, <1>4

\* Nothing that concerns the waves changes.
LEMMA WavesStay ==
  ASSUME Inv, Streaming => Streaming', UNCHANGED <<toClient, sent, heard, waveInfo, negotiated>>
  PROVE  WavesInFlight' /\ Unheard'
<1>1. Base' = Base /\ \A k : Decodable(k) => Decodable(k)'
  BY DEF Base, Decodable
<1>2. WavesInFlight'
  BY <1>1 DEF Inv, WavesInFlight, Decodable
<1>3. Unheard'
  BY <1>1 DEF Inv, Unheard
<1> QED BY <1>2, <1>3

\* The training PDU is a PDU without a wave.
LEMMA TrainingPdu == Pdu("training", 0, 0) \in ServerPdus /\ Silent(Pdu("training", 0, 0))
<1>1. Pdu("training", 0, 0).type = "training"
  BY DEF Pdu
<1> QED BY <1>1 DEF Pdu, ServerPdus, ServerTypes, Silent, Starts

\* What a step of the server that reads an answer comes to
LEMMA AnswerTaken ==
  ASSUME Inv, toServer # << >>, toServer' = Tail(toServer), ~ At(toServer, 1, {"wave confirm"}),
         server' \in Answered, Streaming => Streaming', UNCHANGED <<clientVars, sent>>,
         clientFormats' = negotiated, clientVersion' = serverVersion,
         formatNo' \in 0 .. Len(clientFormats'), formatNo' # 0 => server' = "Ready", AnswersInFlight',
         \/ toClient' = toClient
         \/ Send(<<Pdu("training", 0, 0)>>) /\ server' = "WaitingForTrainingConfirm" /\ OnlyConfirms'
  PROVE  Inv'
<1>1. Shapes /\ States
  BY DEF Inv, Handshake
<1>2. Popped(ClientPdus, toServer, toServer')
  BY <1>1, Pop DEF Shapes
<1>3. 1 \in DOMAIN toServer /\ client # "Start"
  BY <1>1, <1>2 DEF Popped, States
<1>4. \A j \in DOMAIN toClient : ~ At(toClient, j, {"formats"}) /\ ~ At(toClient, j, {"training"})
  BY <1>3, AnswerIsAlone
<1>5. CASE toClient' = toClient
  <2>1. Handshake'
    BY <1>3, <1>4, <1>5, ServerGoesOn
  <2>2. WavesInFlight' /\ Unheard'
    BY <1>5, WavesStay DEF clientVars
  <2>3. Shapes'
    BY <1>1, <1>2, <1>5 DEF Shapes, Popped, clientVars
  <2> QED BY <2>1, <2>2, <2>3 DEF Inv
<1>6. CASE Send(<<Pdu("training", 0, 0)>>) /\ server' = "WaitingForTrainingConfirm" /\ OnlyConfirms'
  <2>1. Pushed(ServerPdus, toClient, toClient', Pdu("training", 0, 0))
    <3> DEFINE m == Pdu("training", 0, 0)
    <3>1. m \in ServerPdus /\ toClient \in Seq(ServerPdus) /\ toClient' = toClient \o <<m>>
      BY <1>1, <1>6, TrainingPdu DEF Send, Shapes
    <3> HIDE DEF m
    <3>2. Pushed(ServerPdus, toClient, toClient', m)
      BY <3>1, Push
    <3> QED BY <3>2 DEF m
  <2>2. Handshake'
    BY <1>3, <1>4, <1>6, <2>1, ServerGoesOn
  <2>3. WavesInFlight' /\ Unheard'
    BY <2>1, TrainingPdu, PushOther DEF clientVars
  <2>4. Shapes'
    BY <1>1, <1>2, <2>1 DEF Shapes, Popped, Pushed, clientVars
  <2> QED BY <2>2, <2>3, <2>4 DEF Inv
<1> QED BY <1>5, <1>6

\* The first answer, as the actions that take it see it
LEMMA TakenAnswer ==
  ASSUME Inv, NEW state, Take(state)
  PROVE  /\ Popped(ClientPdus, toServer, toServer') /\ 1 \in DOMAIN toServer
         /\ Head(toServer) = toServer[1] /\ client # "Start"
         /\ "negotiate again" \in Peer => ~ At(toServer, 1, {"wave confirm"})
<1>1. toServer # << >> /\ toServer' = Tail(toServer) /\ toServer \in Seq(ClientPdus)
  BY DEF Take, Inv, Shapes
<1>2. Popped(ClientPdus, toServer, toServer')
  BY <1>1, Pop
<1>3. 1 \in DOMAIN toServer /\ Head(toServer) = toServer[1]
  BY <1>2 DEF Popped
<1>4. client # "Start"
  BY <1>1 DEF Inv, Handshake, States
<1>5. "negotiate again" \in Peer => ~ At(toServer, 1, {"wave confirm"})
  BY <1>3 DEF Take, At
<1> QED BY <1>2, <1>3, <1>4, <1>5

\* The server takes the client's formats.
LEMMA FormatsTaken ==
  ASSUME Inv, TakeFormats
  PROVE  Inv'
<1>1. /\ Take("WaitingForClientFormats") /\ toServer # << >> /\ toServer' = Tail(toServer)
      /\ server = "WaitingForClientFormats" /\ UNCHANGED <<clientVars, sent>>
  BY DEF TakeFormats, Take
<1>2. /\ Popped(ClientPdus, toServer, toServer') /\ 1 \in DOMAIN toServer
      /\ Head(toServer) = toServer[1] /\ client # "Start"
      /\ "negotiate again" \in Peer => ~ At(toServer, 1, {"wave confirm"})
  BY <1>1, TakenAnswer
<1>3. At(toServer, 1, {"formats"}) /\ ~ At(toServer, 1, {"wave confirm"})
  BY <1>1, <1>2, ExpectedComes DEF At
<1>4. toServer[1].version = serverVersion /\ toServer[1].formats = negotiated
  BY <1>2, <1>3 DEF Inv, Handshake, AnswersInFlight, AnswersOf
<1>5. /\ clientVersion' = serverVersion /\ clientFormats' = negotiated
      /\ IF serverVersion >= 6
         THEN server' = "WaitingForQualityMode" /\ UNCHANGED <<formatNo, toClient>>
         ELSE TrainOrSkip(negotiated)
  BY <1>2, <1>3, <1>4 DEF TakeFormats, Expected, At
<1>6. formatNo = 0 /\ (Streaming => Streaming')
  BY <1>1 DEF Inv, Handshake, States, Streaming
<1>7. negotiated \in Seq(Formats) /\ 0 \in 0 .. Len(negotiated)
  BY DEF Inv, Shapes
<1>8. UNCHANGED <<serverVersion, negotiated>>
  BY <1>1 DEF clientVars
<1>9. /\ server' = "WaitingForQualityMode" => AnswersInFlight'
      /\ ~ (serverVersion >= 6) => OnlyConfirms'
  BY <1>2, <1>3, <1>8, AfterFormats
<1>10. CASE serverVersion >= 6
  <2>1. server' \in Answered /\ formatNo' = 0 /\ toClient' = toClient /\ AnswersInFlight'
    BY <1>5, <1>6, <1>9, <1>10 DEF Answered
  <2> QED BY <1>1, <1>3, <1>5, <1>6, <1>7, <2>1, AnswerTaken
<1>11. CASE ~ (serverVersion >= 6)
  <2>1. TrainOrSkip(negotiated) /\ OnlyConfirms'
    BY <1>5, <1>9, <1>11
  <2>2. AnswersInFlight'
    BY <1>2, <1>6, <2>1, ConfirmsLeft
  <2>3. CASE Train
    BY <1>1, <1>3, <1>5, <1>6, <1>7, <2>1, <2>2, <2>3, AnswerTaken DEF Train, Answered
  <2>4. CASE Ready(negotiated) /\ UNCHANGED toClient
    BY <1>1, <1>3, <1>5, <1>6, <2>1, <2>2, <2>4, AnswerTaken DEF Ready, Answered
  <2> QED BY <2>1, <2>3, <2>4 DEF TrainOrSkip
<1> QED BY <1>10, <1>11

\* The server takes the quality mode.
LEMMA QualityModeTaken ==
  ASSUME Inv, TakeQualityMode
  PROVE  Inv'
<1>1. /\ Take("WaitingForQualityMode") /\ toServer # << >> /\ toServer' = Tail(toServer)
      /\ server = "WaitingForQualityMode" /\ UNCHANGED <<clientVars, sent>>
  BY DEF TakeQualityMode, Take
<1>2. /\ Popped(ClientPdus, toServer, toServer') /\ 1 \in DOMAIN toServer
      /\ Head(toServer) = toServer[1]
      /\ "negotiate again" \in Peer => ~ At(toServer, 1, {"wave confirm"})
  BY <1>1, TakenAnswer
<1>3. At(toServer, 1, {"quality"}) /\ ~ At(toServer, 1, {"wave confirm"})
  BY <1>1, <1>2, ExpectedComes DEF At
<1>4. TrainOrSkip(clientFormats) /\ UNCHANGED <<clientVersion, clientFormats>>
  BY <1>2, <1>3 DEF TakeQualityMode, Expected, At
<1>5. /\ clientFormats = negotiated /\ clientVersion = serverVersion
      /\ formatNo = 0 /\ (Streaming => Streaming')
  BY <1>1 DEF Inv, Handshake, States, Streaming, Answered
<1>6. negotiated \in Seq(Formats) /\ 0 \in 0 .. Len(negotiated)
  BY DEF Inv, Shapes
<1>7. OnlyConfirms'
  BY <1>2, <1>3, AfterAnswer
<1>8. AnswersInFlight'
  BY <1>2, <1>5, <1>7, ConfirmsLeft
<1>9. CASE Train
  BY <1>1, <1>3, <1>4, <1>5, <1>6, <1>7, <1>8, <1>9, AnswerTaken DEF Train, Answered
<1>10. CASE Ready(clientFormats) /\ UNCHANGED toClient
  BY <1>1, <1>3, <1>4, <1>5, <1>8, <1>10, AnswerTaken DEF Ready, Answered
<1> QED BY <1>4, <1>9, <1>10 DEF TrainOrSkip

\* The server takes the confirmation of the training.
LEMMA TrainingConfirmTaken ==
  ASSUME Inv, TakeTrainingConfirm
  PROVE  Inv'
<1>1. /\ Take("WaitingForTrainingConfirm") /\ toServer # << >> /\ toServer' = Tail(toServer)
      /\ server = "WaitingForTrainingConfirm" /\ UNCHANGED <<clientVars, sent>>
  BY DEF TakeTrainingConfirm, Take
<1>2. /\ Popped(ClientPdus, toServer, toServer') /\ 1 \in DOMAIN toServer
      /\ Head(toServer) = toServer[1]
      /\ "negotiate again" \in Peer => ~ At(toServer, 1, {"wave confirm"})
  BY <1>1, TakenAnswer
<1>3. At(toServer, 1, {"training confirm"}) /\ ~ At(toServer, 1, {"wave confirm"})
  BY <1>1, <1>2, ExpectedComes DEF At
<1>4. Ready(clientFormats) /\ UNCHANGED <<clientVersion, clientFormats, toClient>>
  BY <1>2, <1>3 DEF TakeTrainingConfirm, Expected, At
<1>5. clientFormats = negotiated /\ clientVersion = serverVersion /\ (Streaming => Streaming')
  BY <1>1, <1>4 DEF Inv, Handshake, States, Streaming, Answered, Ready
<1>6. OnlyConfirms'
  BY <1>2, <1>3, AfterAnswer
<1>7. AnswersInFlight'
  BY <1>2, <1>5, <1>6, ConfirmsLeft
<1> QED BY <1>1, <1>3, <1>4, <1>5, <1>7, AnswerTaken DEF Ready, Answered

\* The server takes the confirmation of a wave.
LEMMA ConfirmIgnored ==
  ASSUME Inv, TakeIgnored
  PROVE  Inv'
<1>1. Shapes /\ Handshake
  BY DEF Inv
<1>2. toServer # << >> /\ toServer' = Tail(toServer) /\ UNCHANGED <<clientVars, serverVars, toClient>>
  BY DEF TakeIgnored
<1>3. Popped(ClientPdus, toServer, toServer')
  BY <1>1, <1>2, Pop DEF Shapes
<1>4. 1 \in DOMAIN toServer /\ Head(toServer) = toServer[1] /\ client # "Start"
  BY <1>1, <1>2, <1>3 DEF Popped, Handshake, States
<1>5. At(toServer, 1, {"wave confirm"})
  <2>1. server = "Ready" \/ At(toServer, 1, {"wave confirm"})
    BY <1>1, <1>4 DEF TakeIgnored, Expected, At, Handshake, States, Answered
  <2>2. \/ At(toServer, 1, {"formats"}) \/ At(toServer, 1, {"quality"})
        \/ At(toServer, 1, {"training confirm"}) \/ At(toServer, 1, {"wave confirm"})
    BY <1>1, <1>4, AnswerTypes DEF Shapes
  <2> QED BY <1>1, <1>4, <2>1, <2>2 DEF Handshake, AnswersInFlight, AnswersOf
<1>6. UNCHANGED <<client, serverVersion, negotiated, waveInfo, failed, server, toClient, heard,
                  sent, clientFormats, clientVersion, formatNo>> /\ Streaming' = Streaming
  BY <1>2 DEF clientVars, serverVars, Streaming
<1>7. OnlyConfirms => OnlyConfirms'
  BY <1>3, Shift DEF OnlyConfirms
<1>8. States' /\ FormatsInFlight' /\ TrainingInFlight'
  BY <1>1, <1>4, <1>6, <1>7 DEF Handshake, States, FormatsInFlight, TrainingInFlight, OnlyConfirms, At
<1>9. AnswersInFlight'
  <2>1. ASSUME NEW i \in DOMAIN toServer'
        PROVE  /\ At(toServer', i, {"wave confirm"}) => Streaming
               /\ At(toServer', i, {"formats"}) =>
                    /\ server = "WaitingForClientFormats"
                    /\ toServer'[i].version = serverVersion /\ toServer'[i].formats = negotiated
                    /\ \A j \in DOMAIN toServer' : At(toServer', j, {"formats"}) => j = i
               /\ At(toServer', i, {"quality"}) =>
                    /\ serverVersion >= 6
                    /\ \/ server = "WaitingForQualityMode"
                       \/ /\ server = "WaitingForClientFormats"
                          /\ \E j \in DOMAIN toServer' : j < i /\ At(toServer', j, {"formats"})
                    /\ \A j \in DOMAIN toServer' : At(toServer', j, {"quality"}) => j = i
               /\ At(toServer', i, {"training confirm"}) =>
                    /\ server = "WaitingForTrainingConfirm"
                    /\ \A j \in DOMAIN toServer' : At(toServer', j, {"training confirm"}) => j = i
    <3>1. /\ i + 1 \in DOMAIN toServer /\ toServer'[i] = toServer[i + 1]
          /\ \A types : At(toServer', i, types) <=> At(toServer, i + 1, types)
      BY <1>3, Shift
    <3>2. \A j \in DOMAIN toServer' :
            /\ j + 1 \in DOMAIN toServer /\ (j + 1 = i + 1 => j = i)
            /\ \A types : At(toServer', j, types) <=> At(toServer, j + 1, types)
      BY <1>3, Shift
    <3>3. \A j \in DOMAIN toServer : At(toServer, j, {"formats"}) /\ j < i + 1 =>
            j - 1 \in DOMAIN toServer' /\ j - 1 < i /\ At(toServer', j - 1, {"formats"})
      <4>1. ASSUME NEW j \in DOMAIN toServer, At(toServer, j, {"formats"}), j < i + 1
            PROVE  j - 1 \in DOMAIN toServer' /\ j - 1 < i /\ At(toServer', j - 1, {"formats"})
        <5>1. j # 1
          BY <1>5, <4>1 DEF At
        <5>2. j - 1 \in DOMAIN toServer' /\ (j - 1) + 1 = j
          BY <1>3, <5>1, Shift
        <5>3. j - 1 < i
          BY <1>3, <4>1, <5>2, Shift
        <5> QED BY <1>3, <4>1, <5>2, <5>3, Shift
      <4> QED BY <4>1
    <3> QED BY <1>1, <3>1, <3>2, <3>3 DEF Handshake, AnswersInFlight, AnswersOf
  <2> QED BY <1>6, <2>1 DEF AnswersInFlight, AnswersOf
<1>10. WavesInFlight' /\ Unheard'
  BY <1>6, WavesStay
<1>11. Shapes'
  BY <1>1, <1>3, <1>6 DEF Shapes, Popped
<1> QED BY <1>8, <1>9, <1>10, <1>11 DEF Inv, Handshake

-----------------------------------------------------------------------------
(* What the server sends.                                                  *)

\* Messages are sent that are neither formats nor training, and nothing else changes.
LEMMA HandshakeStays ==
  ASSUME Inv, server # "Start", UNCHANGED <<clientVars, server, clientVersion, clientFormats,
                                            formatNo, toServer>>,
         DOMAIN toClient \subseteq DOMAIN toClient', toClient # << >> => toClient' # << >> /\ 1 \in DOMAIN toClient,
         \A i \in DOMAIN toClient : toClient'[i] = toClient[i],
         \A i \in DOMAIN toClient' \ DOMAIN toClient :
           /\ ~ At(toClient', i, {"formats"}) /\ ~ At(toClient', i, {"training"})
           /\ server = "WaitingForClientFormats" => At(toClient', i, {"volume", "close"})
  PROVE  Handshake'
<1>1. Handshake
  BY DEF Inv
<1>2. States'
  BY <1>1 DEF Handshake, States, Streaming, clientVars, At
<1>3. FormatsInFlight'
  <2>1. ASSUME NEW i \in DOMAIN toClient', At(toClient', i, {"formats"})
        PROVE  /\ server = "WaitingForClientFormats"
               /\ \A j \in DOMAIN toClient' : j > i => At(toClient', j, {"volume", "close"})
               /\ \A j \in DOMAIN toServer : At(toServer, j, {"wave confirm"})
    <3>1. i \in DOMAIN toClient /\ At(toClient, i, {"formats"})
      BY <2>1 DEF At
    <3>2. /\ server = "WaitingForClientFormats"
          /\ \A j \in DOMAIN toClient : j > i => At(toClient, j, {"volume", "close"})
          /\ \A j \in DOMAIN toServer : At(toServer, j, {"wave confirm"})
      BY <1>1, <3>1 DEF Handshake, FormatsInFlight
    <3> QED BY <3>2 DEF At
  <2> QED BY <2>1 DEF FormatsInFlight, At
<1>4. TrainingInFlight'
  <2>1. \A i \in DOMAIN toClient' : At(toClient', i, {"training"}) =>
          i \in DOMAIN toClient /\ At(toClient, i, {"training"})
    BY DEF At
  <2>2. \A j \in DOMAIN toServer :
          At(toServer, j, {"wave confirm"}) => At(toServer', j, {"wave confirm"})
    OBVIOUS
  <2>3. TrainingInFlight
    BY <1>1 DEF Handshake
  <2>4. ASSUME NEW i \in DOMAIN toClient', At(toClient', i, {"training"})
        PROVE  /\ server' = "WaitingForTrainingConfirm"
               /\ \A j \in DOMAIN toClient' : At(toClient', j, {"training"}) => j = i
               /\ \A j \in DOMAIN toServer' : At(toServer', j, {"wave confirm"})
    BY <2>1, <2>2, <2>3, <2>4 DEF TrainingInFlight
  <2> QED BY <2>4 DEF TrainingInFlight
<1>5. AnswersInFlight'
  BY <1>1 DEF Handshake, AnswersInFlight, Streaming, clientVars
<1> QED BY <1>2, <1>3, <1>4, <1>5 DEF Handshake

\* What Pdu builds is a server PDU.
LEMMA PduShape ==
  ASSUME NEW type \in ServerTypes, NEW n \in Nat, NEW no \in Nat
  PROVE  /\ Pdu(type, n, no) \in ServerPdus /\ Pdu(type, n, no).type = type
         /\ Pdu(type, n, no).n = n /\ Pdu(type, n, no).no = no
  BY DEF Pdu, ServerPdus

\* Volume and close carry no wave.
LEMMA ControlPdu ==
  \A type \in {"volume", "close"} :
    Pdu(type, 0, 0) \in ServerPdus /\ Silent(Pdu(type, 0, 0)) /\ Pdu(type, 0, 0).type = type
<1>1. \A type \in {"volume", "close"} : type \in ServerTypes /\ type \notin Starts \cup {"wave data"}
  BY DEF ServerTypes, Starts
<1>2. \A type \in ServerTypes : Pdu(type, 0, 0) \in ServerPdus /\ Pdu(type, 0, 0).type = type
  BY PduShape
<1> QED BY <1>1, <1>2 DEF Silent

\* Volume or close is sent.
LEMMA ControlSent ==
  ASSUME Inv, NEW type \in {"volume", "close"}, SendControl(type)
  PROVE  Inv'
<1> DEFINE m == Pdu(type, 0, 0)
<1>1. m \in ServerPdus /\ Silent(m) /\ m.type \in {"volume", "close"}
  BY ControlPdu
<1>2. Shapes /\ toClient' = toClient \o <<m>> /\ UNCHANGED <<clientVars, serverVars,
toServer>> /\ server # "Start"
  BY DEF SendControl, Send, Inv
<1> HIDE DEF m
<1>3. Pushed(ServerPdus, toClient, toClient', m)
  BY <1>1, <1>2, Push DEF Shapes
<1>4. WavesInFlight' /\ Unheard'
  BY <1>1, <1>2, <1>3, PushOther DEF clientVars, serverVars, Streaming
<1>5. /\ DOMAIN toClient \subseteq DOMAIN toClient' /\ toClient' # << >>
      /\ toClient # << >> => 1 \in DOMAIN toClient
      /\ \A i \in DOMAIN toClient : toClient'[i] = toClient[i]
      /\ \A i \in DOMAIN toClient' \ DOMAIN toClient : toClient'[i] = m
  BY <1>3 DEF Pushed
<1>6. Handshake'
  <2>1. \A i \in DOMAIN toClient' \ DOMAIN toClient :
          /\ ~ At(toClient', i, {"formats"}) /\ ~ At(toClient', i, {"training"})
          /\ At(toClient', i, {"volume", "close"})
    BY <1>1, <1>5 DEF At
  <2> QED BY <1>2, <1>5, <2>1, HandshakeStays DEF serverVars
<1>7. Shapes'
  BY <1>2, <1>3 DEF Shapes, Pushed, clientVars, serverVars
<1> QED BY <1>4, <1>6, <1>7 DEF Inv

IsInfo(m) == m.type = "wave info"
DataOf(k, m) == k.type = "wave data" /\ k.n = m.n

\* A wave is pushed in one message,
LEMMA Whole ==
  ASSUME NEW m, ~ IsInfo(m), Pushed(ServerPdus, toClient, toClient', m)
  PROVE  Extended(toClient', m)
<1>1. /\ \A i \in DOMAIN toClient' : i \in DOMAIN toClient \/ i = Len(toClient) + 1
      /\ \A i \in DOMAIN toClient : i \in DOMAIN toClient'
      /\ Len(toClient) + 1 \in DOMAIN toClient'
  BY DEF Pushed
<1> QED BY <1>1 DEF Extended, Pushed, IsInfo

\* or in two.
LEMMA Split ==
  ASSUME NEW m, NEW k, NEW u, IsInfo(m), DataOf(k, m),
         Pushed(ServerPdus, toClient, u, m), Pushed(ServerPdus, u, toClient', k)
  PROVE  Extended(toClient', m)
<1>1. Len(u) = Len(toClient) + 1 /\ Len(toClient) \in Nat
  BY DEF Pushed
<1>2. \A i \in DOMAIN toClient' : i \in DOMAIN toClient \/ i = Len(toClient) + 1 \/ i = Len(toClient) + 2
  BY <1>1 DEF Pushed
<1>3. /\ Len(toClient) + 1 \in DOMAIN toClient' /\ Len(toClient) + 2 \in DOMAIN toClient'
      /\ Len(toClient) + 1 \in DOMAIN u
      /\ \A i \in DOMAIN toClient : i \in DOMAIN u /\ i \in DOMAIN toClient'
  BY <1>1 DEF Pushed
<1>4. Len(u) + 1 = Len(toClient) + 2
  BY <1>1
<1>5. toClient'[Len(toClient) + 2] = k
  BY <1>4 DEF Pushed
<1>6. toClient'[Len(toClient) + 1] = m /\ \A i \in DOMAIN toClient : toClient'[i] = toClient[i]
  BY <1>3 DEF Pushed
<1> QED BY <1>2, <1>3, <1>5, <1>6 DEF Extended, Pushed, At, DataOf, IsInfo

\* The formats are a PDU without a wave.
LEMMA FormatsShape ==
  ASSUME NEW version \in Versions, NEW offer \in Offers
  PROVE  /\ FormatsPdu(version, offer) \in ServerPdus /\ FormatsPdu(version, offer).type = "formats"
         /\ Silent(FormatsPdu(version, offer))
<1>1. 0 \in Nat /\ "formats" \in ServerTypes
  BY DEF ServerTypes
<1>2. "formats" \notin Starts \cup {"wave data"}
  BY DEF Starts
<1> QED BY <1>1, <1>2 DEF FormatsPdu, ServerPdus, Silent

\* What the two beginnings of a negotiation have in common
Negotiates(version, offer) ==
  /\ server = "Start" \/ (server = "Ready" /\ "negotiate again" \in Peer)
  /\ Send(<<FormatsPdu(version, offer)>>) /\ server' = "WaitingForClientFormats" /\ formatNo' = 0
  /\ UNCHANGED <<clientVars, clientVersion, clientFormats, sent, toServer>>

\* A negotiation is begun.
LEMMA FormatsSent ==
  ASSUME Inv, NEW version \in Versions, NEW offer \in Offers, Negotiates(version, offer)
  PROVE  Inv'
<1> DEFINE m == FormatsPdu(version, offer)
<1>1. m \in ServerPdus /\ m.type = "formats" /\ Silent(m)
  BY FormatsShape
<1>2. Shapes /\ Handshake /\ toClient' = toClient \o <<m>>
  BY DEF Negotiates, Send, Inv
<1> HIDE DEF m
<1>3. Pushed(ServerPdus, toClient, toClient', m)
  BY <1>1, <1>2, Push DEF Shapes
<1>4. WavesInFlight' /\ Unheard'
  BY <1>1, <1>3, PushOther DEF Negotiates, clientVars, Streaming
<1>5. OnlyConfirms
  <2>0. toServer = << >> => DOMAIN toServer = {}
    OBVIOUS
  <2>1. CASE server = "Start"
    <3>1. toServer = << >>
      BY <1>2, <2>1 DEF Handshake, States
    <3> QED BY <2>0, <3>1 DEF OnlyConfirms
  <2>2. CASE server = "Ready"
    <3>1. ASSUME NEW i \in DOMAIN toServer
          PROVE  At(toServer, i, {"wave confirm"})
      <4>1. \/ At(toServer, i, {"formats"}) \/ At(toServer, i, {"quality"})
            \/ At(toServer, i, {"training confirm"}) \/ At(toServer, i, {"wave confirm"})
        BY <1>2, AnswerTypes DEF Shapes
      <4> QED BY <1>2, <2>2, <4>1 DEF Handshake, AnswersInFlight, AnswersOf
    <3> QED BY <3>1 DEF OnlyConfirms
  <2> QED BY <2>1, <2>2 DEF Negotiates
<1>6. \A i \in DOMAIN toClient : ~ At(toClient, i, {"formats"}) /\ ~ At(toClient, i, {"training"})
  BY <1>2 DEF Negotiates, Handshake, FormatsInFlight, TrainingInFlight
<1>7. States'
  <2>1. States
    BY <1>2 DEF Handshake
  <2>2. client = "Start" => toClient = << >>
    BY <2>1 DEF Negotiates, States, Answered
  <2>3. toClient = << >> => At(toClient', 1, {"formats"})
    <3>1. toClient = << >> => Len(toClient) + 1 = 1
      BY <1>2
    <3> QED BY <1>1, <1>3, <3>1 DEF Pushed, At
  <2>4. toClient' # << >>
    BY <1>3 DEF Pushed
  <2>5. Streaming => Streaming'
    BY DEF Negotiates, Streaming
  <2> QED BY <2>1, <2>2, <2>3, <2>4, <2>5 DEF Negotiates, States, clientVars, Answered
<1>8. \A i \in DOMAIN toClient' : i \in DOMAIN toClient \/ i = Len(toClient) + 1
  BY <1>3 DEF Pushed
<1>9. \A i \in DOMAIN toClient : toClient'[i] = toClient[i]
  BY <1>3 DEF Pushed
<1>10. FormatsInFlight'
  <2>1. \A i \in DOMAIN toClient' : At(toClient', i, {"formats"}) => i = Len(toClient) + 1
    BY <1>6, <1>8, <1>9 DEF At
  <2>2. \A j \in DOMAIN toClient' : ~ (j > Len(toClient) + 1)
    BY <1>3 DEF Pushed
  <2> QED BY <1>5, <2>1, <2>2 DEF Negotiates, FormatsInFlight, OnlyConfirms
<1>11. TrainingInFlight'
  <2>1. \A i \in DOMAIN toClient' : ~ At(toClient', i, {"training"})
    <3>1. toClient'[Len(toClient) + 1] = m
      BY <1>3 DEF Pushed
    <3>2. \A i \in DOMAIN toClient : ~ At(toClient', i, {"training"})
      BY <1>6, <1>9 DEF At
    <3>3. ~ At(toClient', Len(toClient) + 1, {"training"})
      BY <1>1, <3>1 DEF At
    <3> QED BY <1>8, <3>2, <3>3
  <2> QED BY <2>1 DEF TrainingInFlight
<1>12. AnswersInFlight'
  <2>1. Streaming => Streaming'
    BY DEF Negotiates, Streaming
  <2>2. \A i \in DOMAIN toServer :
          /\ ~ At(toServer, i, {"formats"}) /\ ~ At(toServer, i, {"quality"})
          /\ ~ At(toServer, i, {"training confirm"})
    BY <1>5 DEF OnlyConfirms, At
  <2> QED BY <1>2, <2>1, <2>2 DEF Negotiates, Handshake, AnswersInFlight, AnswersOf, clientVars
<1>14. Shapes => 0 \in 0 .. Len(clientFormats)
  <2>1. clientFormats \in Seq(Formats) => 0 \in 0 .. Len(clientFormats)
    OBVIOUS
  <2> QED BY <2>1 DEF Shapes
<1>13. Shapes'
  BY <1>2, <1>3, <1>14 DEF Negotiates, Shapes, Pushed, clientVars
<1> QED BY <1>4, <1>7, <1>10, <1>11, <1>12, <1>13 DEF Inv, Handshake

\* The PDUs of a wave
LEMMA WaveShapes ==
  ASSUME NEW n \in Nat, NEW no \in Nat
  PROVE  /\ \A type \in {"wave", "wave2", "wave info"} :
              /\ Pdu(type, n, no) \in ServerPdus /\ Pdu(type, n, no).type = type
              /\ Pdu(type, n, no).n = n /\ Pdu(type, n, no).no = no
         /\ Pdu("wave data", n, 0) \in ServerPdus /\ Pdu("wave data", n, 0).type = "wave data"
         /\ Pdu("wave data", n, 0).n = n
<1>1. "wave data" \in ServerTypes /\ \A type \in {"wave", "wave2", "wave info"} : type \in ServerTypes
  BY DEF ServerTypes, Starts
<1>2. 0 \in Nat
  OBVIOUS
<1>3. \A type \in ServerTypes : \A k \in Nat :
        /\ Pdu(type, n, k) \in ServerPdus /\ Pdu(type, n, k).type = type
        /\ Pdu(type, n, k).n = n /\ Pdu(type, n, k).no = k
  BY PduShape
<1> QED BY <1>1, <1>2, <1>3, Zenon

\* A wave is sent: every conjunct holds after it.
LEMMA WaveSent ==
  ASSUME Inv, SendWave
  PROVE  Inv'
<1> DEFINE n == Len(sent) + 1
<1>1. Shapes /\ States
  BY DEF Inv, Handshake
<1>2. /\ formatNo # 0 /\ clientVersion # 0
      /\ UNCHANGED <<clientVars, server, clientVersion, clientFormats, formatNo, toServer>>
      /\ sent' = Append(sent, Wave(n, clientFormats[formatNo]))
      /\ \E pdus \in WavePdus(n) : toClient' = toClient \o pdus
  BY DEF SendWave, Send
<1>3. server = "Ready" /\ clientFormats = negotiated
  BY <1>1, <1>2 DEF States, Answered
<1>4. formatNo \in DOMAIN negotiated /\ formatNo \in Nat /\ n \in Nat
  BY <1>1, <1>2, <1>3 DEF Shapes
<1> HIDE DEF n
<1>5. \E m : Begins(m) /\ Extended(toClient', m)
  <2> DEFINE w == Pdu("wave", n, formatNo)
             x == Pdu("wave2", n, formatNo)
             y == Pdu("wave info", n, formatNo)
             z == Pdu("wave data", n, 0)
  <2>1. /\ \A type \in {"wave", "wave2", "wave info"} :
             /\ Pdu(type, n, formatNo) \in ServerPdus /\ Pdu(type, n, formatNo).type = type
             /\ Pdu(type, n, formatNo).n = n /\ Pdu(type, n, formatNo).no = formatNo
        /\ Pdu("wave data", n, 0) \in ServerPdus /\ Pdu("wave data", n, 0).type = "wave data"
        /\ Pdu("wave data", n, 0).n = n
    <3>1. n \in Nat /\ formatNo \in Nat
      BY <1>4
    <3> QED BY <3>1, WaveShapes, Zenon
  <2>2. /\ w \in ServerPdus /\ x \in ServerPdus /\ y \in ServerPdus /\ z \in ServerPdus
        /\ w.type = "wave" /\ x.type = "wave2" /\ y.type = "wave info" /\ z.type = "wave data"
        /\ w.n = n /\ x.n = n /\ y.n = n /\ z.n = n
        /\ w.no = formatNo /\ x.no = formatNo /\ y.no = formatNo
    BY <2>1
  <2>3. toClient' = toClient \o <<w>> \/ toClient' = toClient \o <<x>> \/ toClient' = toClient \o <<y, z>>
    BY <1>2 DEF WavePdus
  <2>4. Begins(w) /\ Begins(x) /\ Begins(y)
    BY <1>2, <1>3, <1>4, <2>2 DEF n, Begins, Starts
  <2>5. ~ IsInfo(w) /\ ~ IsInfo(x) /\ IsInfo(y) /\ DataOf(z, y)
    BY <2>2 DEF IsInfo, DataOf
  <2>6. toClient \in Seq(ServerPdus)
    BY <1>1 DEF Shapes
  <2>7. w \in ServerPdus /\ x \in ServerPdus /\ y \in ServerPdus /\ z \in ServerPdus
    BY <2>2
  <2> HIDE DEF w, x, y, z
  <2>8. CASE toClient' = toClient \o <<w>>
    <3>1. Pushed(ServerPdus, toClient, toClient', w)
      BY <2>6, <2>7, <2>8, Push
    <3> QED BY <2>4, <2>5, <3>1, Whole
  <2>9. CASE toClient' = toClient \o <<x>>
    <3>1. Pushed(ServerPdus, toClient, toClient', x)
      BY <2>6, <2>7, <2>9, Push
    <3> QED BY <2>4, <2>5, <3>1, Whole
  <2>10. CASE toClient' = toClient \o <<y, z>>
    <3>1. PICK u : Pushed(ServerPdus, toClient, u, y) /\ Pushed(ServerPdus, u, toClient', z)
      BY <2>6, <2>7, <2>10, PushTwo
    <3> QED BY <2>4, <2>5, <3>1, Split
  <2> QED BY <2>3, <2>8, <2>9, <2>10
<1>6. PICK m : Begins(m) /\ Extended(toClient', m)
  BY <1>5
<1>7. WavesInFlight' /\ Unheard'
  BY <1>2, <1>3, <1>6, PushWave DEF Streaming, clientVars
<1>8. Handshake'
  <2>1. \A i \in DOMAIN toClient' \ DOMAIN toClient : 
          ~ At(toClient', i, {"formats"}) /\ ~ At(toClient', i, {"training"})
    BY <1>6 DEF Extended, Begins, At, Starts
  <2>2. /\ DOMAIN toClient \subseteq DOMAIN toClient' /\ toClient' # << >>
        /\ toClient # << >> => 1 \in DOMAIN toClient
        /\ \A i \in DOMAIN toClient : toClient'[i] = toClient[i]
    BY <1>6 DEF Extended
  <2> QED BY <1>2, <1>3, <2>1, <2>2, HandshakeStays
<1>9. Shapes'
  <2>1. sent' \in Seq(Waves)
    <3> DEFINE w == Wave(n, clientFormats[formatNo])
    <3>1. w \in Waves
      <4>1. clientFormats[formatNo] \in Formats
        BY <1>1, <1>3, <1>4 DEF Shapes
      <4> QED BY <1>4, <4>1 DEF Waves, Wave
    <3> HIDE DEF w
    <3>2. sent \in Seq(Waves)
      BY <1>1 DEF Shapes
    <3>3. sent' = Append(sent, w)
      BY <1>2 DEF w
    <3> QED BY <3>1, <3>2, <3>3
  <2>2. toClient' \in Seq(ServerPdus)
    BY <1>6 DEF Extended
  <2> QED BY <1>1, <1>2, <2>1, <2>2 DEF Shapes, clientVars
<1> QED BY <1>7, <1>8, <1>9 DEF Inv

-----------------------------------------------------------------------------
(* What the client takes.                                                  *)

\* The client takes a message that is not of the handshake.
LEMMA ClientGoesOn ==
  ASSUME Inv, Popped(ServerPdus, toClient, toClient'), client # "Start",
         client' \in {"WaitingForTraining", "Ready"}, failed' = FALSE,
         UNCHANGED <<serverVars, serverVersion, negotiated>>, waveInfo' # << >> => Streaming,
         AnswersInFlight', OnlyConfirms => OnlyConfirms'
  PROVE  Handshake'
<1>1. Handshake
  BY DEF Inv
<1>2. States'
  BY <1>1 DEF Handshake, States, Streaming, serverVars, Answered
<1>3. \A i \in DOMAIN toClient' :
        /\ i + 1 \in DOMAIN toClient
        /\ \A types : At(toClient', i, types) <=> At(toClient, i + 1, types)
  BY Shift
<1>4. \A i \in DOMAIN toClient', j \in DOMAIN toClient' :
        (j > i => j + 1 > i + 1) /\ (j + 1 = i + 1 => j = i)
  BY DEF Popped
<1>5. FormatsInFlight'
  <2>1. ASSUME NEW i \in DOMAIN toClient', At(toClient', i, {"formats"})
        PROVE  /\ server = "WaitingForClientFormats" /\ OnlyConfirms
               /\ \A j \in DOMAIN toClient' : j > i => At(toClient', j, {"volume", "close"})
    BY <1>1, <1>3, <1>4, <2>1 DEF Handshake, FormatsInFlight, OnlyConfirms
  <2> QED BY <2>1 DEF FormatsInFlight, OnlyConfirms, serverVars
<1>6. TrainingInFlight'
  <2>1. ASSUME NEW i \in DOMAIN toClient', At(toClient', i, {"training"})
        PROVE  /\ server = "WaitingForTrainingConfirm" /\ OnlyConfirms
               /\ \A j \in DOMAIN toClient' : At(toClient', j, {"training"}) => j = i
    BY <1>1, <1>3, <1>4, <2>1 DEF Handshake, TrainingInFlight, OnlyConfirms
  <2> QED BY <2>1 DEF TrainingInFlight, OnlyConfirms, serverVars
<1> QED BY <1>2, <1>5, <1>6 DEF Handshake

IsConfirm(m) == m.type = "wave confirm"

\* The client confirms a wave.
LEMMA ConfirmSent ==
  ASSUME Inv, Streaming, NEW m, IsConfirm(m), Pushed(ClientPdus, toServer, toServer', m),
         UNCHANGED <<server, serverVersion, negotiated>>
  PROVE  AnswersInFlight' /\ (OnlyConfirms => OnlyConfirms')
<1>1. AnswersInFlight
  BY DEF Inv, Handshake
<1>2. \A i \in DOMAIN toServer : i \in DOMAIN toServer' /\ toServer'[i] = toServer[i]
  BY DEF Pushed
<1>3. \A i \in DOMAIN toServer' : i \in DOMAIN toServer \/ toServer'[i].type = "wave confirm"
  <2>1. \A i \in DOMAIN toServer' : i \in DOMAIN toServer \/ toServer'[i] = m
    BY DEF Pushed
  <2> QED BY <2>1 DEF IsConfirm
<1>4. \A i \in DOMAIN toServer : \A types : At(toServer', i, types) <=> At(toServer, i, types)
  BY <1>2 DEF At
<1>5. \A i \in DOMAIN toServer' : \A types :
        "wave confirm" \notin types /\ At(toServer', i, types) => i \in DOMAIN toServer /\ At(toServer, i, types)
  <2>1. ASSUME NEW i \in DOMAIN toServer', NEW types, "wave confirm" \notin types, At(toServer', i, types)
        PROVE  i \in DOMAIN toServer
    BY <1>3, <2>1 DEF At
  <2> QED BY <1>4, <2>1
<1>6. /\ "wave confirm" \notin {"formats"} /\ "wave confirm" \notin {"quality"}
      /\ "wave confirm" \notin {"training confirm"}
  OBVIOUS
<1>7. Streaming'
  BY DEF Streaming
<1>8. AnswersInFlight'
  <2>1. ASSUME NEW i \in DOMAIN toServer', At(toServer', i, {"formats"})
        PROVE  /\ server = "WaitingForClientFormats"
               /\ toServer'[i].version = serverVersion /\ toServer'[i].formats = negotiated
               /\ \A j \in DOMAIN toServer' : At(toServer', j, {"formats"}) => j = i
    <3>1. i \in DOMAIN toServer /\ At(toServer, i, {"formats"}) /\ toServer'[i] = toServer[i]
      BY <1>2, <1>5, <1>6, <2>1
    <3>2. /\ server = "WaitingForClientFormats"
          /\ toServer[i].version = serverVersion /\ toServer[i].formats = negotiated
          /\ \A j \in DOMAIN toServer : At(toServer, j, {"formats"}) => j = i
      BY <1>1, <3>1 DEF AnswersInFlight, AnswersOf
    <3> QED BY <1>5, <1>6, <3>1, <3>2
  <2>2. ASSUME NEW i \in DOMAIN toServer', At(toServer', i, {"quality"})
        PROVE  /\ serverVersion >= 6
               /\ \/ server = "WaitingForQualityMode"
                  \/ /\ server = "WaitingForClientFormats"
                     /\ \E j \in DOMAIN toServer' : j < i /\ At(toServer', j, {"formats"})
               /\ \A j \in DOMAIN toServer' : At(toServer', j, {"quality"}) => j = i
    BY <1>1, <1>2, <1>4, <1>5, <1>6, <2>2 DEF AnswersInFlight, AnswersOf
  <2>3. ASSUME NEW i \in DOMAIN toServer', At(toServer', i, {"training confirm"})
        PROVE  /\ server = "WaitingForTrainingConfirm"
               /\ \A j \in DOMAIN toServer' : At(toServer', j, {"training confirm"}) => j = i
    BY <1>1, <1>5, <1>6, <2>3 DEF AnswersInFlight, AnswersOf
  <2> QED BY <1>7, <2>1, <2>2, <2>3 DEF AnswersInFlight, AnswersOf
<1>9. OnlyConfirms => OnlyConfirms'
  BY <1>3, <1>4 DEF OnlyConfirms, At
<1> QED BY <1>8, <1>9

\* The next wave finds its format, and is the next that was sent.
LEMMA HearSucceeds ==
  ASSUME Inv, NEW info, Decodable(info), info.n = Len(heard) + 1, Hear(info, info.n)
  PROVE  /\ Len(heard) < Len(sent) /\ heard' = Append(heard, sent[Len(heard) + 1])
         /\ heard' \in Seq(Waves) /\ Len(heard') = Len(heard) + 1
         /\ Reply(<<ClientPdu("wave confirm")>>) /\ failed' = failed
<1>1. sent \in Seq(Waves) /\ heard \in Seq(Waves)
  BY DEF Inv, Shapes
<1>2. /\ info.n \in DOMAIN sent /\ info.no \in DOMAIN negotiated
      /\ sent[info.n] = Wave(info.n, negotiated[info.no])
  BY DEF Decodable
<1>3. heard' = Append(heard, Wave(info.n, negotiated[info.no])) 
      /\ Reply(<<ClientPdu("wave confirm")>>) /\ failed' = failed
  BY <1>2 DEF Hear, Wave
<1> DEFINE k == Len(heard) + 1
<1>4. k \in DOMAIN sent /\ heard' = Append(heard, sent[k])
  BY <1>2, <1>3
<1>5. Len(heard) < Len(sent) /\ sent[k] \in Waves
  BY <1>1, <1>4
<1> DEFINE w == sent[k]
<1>6. w \in Waves /\ heard' = Append(heard, w)
  BY <1>4, <1>5
<1> HIDE DEF w
<1>7. heard' \in Seq(Waves) /\ Len(heard') = Len(heard) + 1
  BY <1>1, <1>6
<1> QED BY <1>3, <1>4, <1>5, <1>7

\* The client's short answers
LEMMA ReplyShape ==
  \A type \in {"quality", "training confirm", "wave confirm"} :
    ClientPdu(type) \in ClientPdus /\ ClientPdu(type).type = type
<1>1. << >> \in Seq(Formats)
  OBVIOUS
<1> QED BY <1>1 DEF ClientPdu, ClientPdus

\* What the first message is when the client takes it
LEMMA HeadTaken ==
  ASSUME Inv, Receive
  PROVE  /\ Popped(ServerPdus, toClient, toClient') /\ 1 \in DOMAIN toClient
         /\ Head(toClient) = toClient[1] /\ failed = FALSE
         /\ client = "Start" => waveInfo = << >> /\ At(toClient, 1, {"formats"})
<1>1. toClient # << >> /\ toClient' = Tail(toClient) /\ toClient \in Seq(ServerPdus) /\ States
  BY DEF Receive, Inv, Handshake, Shapes
<1>2. Popped(ServerPdus, toClient, toClient')
  BY <1>1, Pop
<1> QED BY <1>1, <1>2 DEF Popped, States

\* What a step that hears a wave comes to
LEMMA WaveHeard ==
  ASSUME Inv, Popped(ServerPdus, toClient, toClient'), client # "Start",
         client' \in {"WaitingForTraining", "Ready"}, failed' = FALSE, Streaming, waveInfo' = << >>,
         heard' \in Seq(Waves), Reply(<<ClientPdu("wave confirm")>>), WavesInFlight', Unheard',
         UNCHANGED <<serverVars, serverVersion, negotiated>>
  PROVE  Inv'
<1> DEFINE m == ClientPdu("wave confirm")
<1>1. m \in ClientPdus /\ IsConfirm(m) /\ toServer' = toServer \o <<m>> /\ Shapes
  BY ReplyShape DEF Reply, Inv, IsConfirm
<1> HIDE DEF m
<1>2. Pushed(ClientPdus, toServer, toServer', m)
  BY <1>1, Push DEF Shapes
<1>3. AnswersInFlight' /\ (OnlyConfirms => OnlyConfirms')
  BY <1>1, <1>2, ConfirmSent DEF serverVars
<1>4. Handshake'
  BY <1>3, ClientGoesOn
<1>5. Shapes'
  BY <1>1, <1>2 DEF Shapes, Pushed, Popped, serverVars
<1> QED BY <1>4, <1>5 DEF Inv

\* The data of a wave are taken.
LEMMA WaveDataTaken ==
  ASSUME Inv, HandleWaveData
  PROVE  Inv' /\ Len(heard) < Len(sent) /\ heard' = Append(heard, sent[Len(heard) + 1])
<1>1. /\ Receive /\ waveInfo # << >> /\ waveInfo' = << >> /\ Hear(waveInfo[1], Head(toClient).n)
      /\ UNCHANGED <<serverVars, client, serverVersion, negotiated>>
  BY DEF HandleWaveData
<1>2. /\ Popped(ServerPdus, toClient, toClient') /\ 1 \in DOMAIN toClient
      /\ Head(toClient) = toClient[1] /\ failed = FALSE /\ client # "Start"
  BY <1>1, HeadTaken
<1>3. /\ toClient[1].n = waveInfo[1].n /\ Decodable(waveInfo[1]) /\ waveInfo[1].n = Base
  BY <1>1 DEF Inv, WavesInFlight
<1>4. Base = Len(heard) + 1
  <2>1. waveInfo \in [{1} -> ServerPdus]
    BY <1>1 DEF Inv, Shapes
  <2>2. Len(waveInfo) = 1
    BY <2>1
  <2> QED BY <2>2 DEF Base
<1>5. /\ Len(heard) < Len(sent) /\ heard' = Append(heard, sent[Len(heard) + 1])
      /\ heard' \in Seq(Waves) /\ Len(heard') = Len(heard) + 1
      /\ Reply(<<ClientPdu("wave confirm")>>) /\ failed' = failed
  BY <1>1, <1>2, <1>3, <1>4, HearSucceeds
<1>6. Streaming /\ client \in {"WaitingForTraining", "Ready"}
  BY <1>1, <1>2 DEF Inv, Handshake, States
<1>7. WavesInFlight' /\ Unheard'
  BY <1>1, <1>2, <1>5, PopData DEF serverVars, Streaming
<1> QED BY <1>1, <1>2, <1>5, <1>6, <1>7, WaveHeard

\* A wave of one message is heard.
LEMMA WholeHeard ==
  ASSUME Inv, Receive, waveInfo = << >>, waveInfo' = << >>, At(toClient, 1, {"wave", "wave2"}),
         Hear(Head(toClient), Head(toClient).n), client' \in {client, "Ready"},
         UNCHANGED <<serverVars, serverVersion, negotiated>>
  PROVE  Inv' /\ Len(heard) < Len(sent) /\ heard' = Append(heard, sent[Len(heard) + 1])
<1>1. /\ Popped(ServerPdus, toClient, toClient') /\ 1 \in DOMAIN toClient
      /\ Head(toClient) = toClient[1] /\ failed = FALSE /\ client # "Start"
  BY HeadTaken DEF At
<1>2. At(toClient, 1, Starts)
  BY DEF At, Starts
<1>3. toClient[1].n = Len(heard) + 1 /\ Decodable(toClient[1]) /\ Streaming
  BY <1>1, <1>2, FirstIsNext DEF Inv, WavesInFlight
<1>4. /\ Len(heard) < Len(sent) /\ heard' = Append(heard, sent[Len(heard) + 1])
      /\ heard' \in Seq(Waves) /\ Len(heard') = Len(heard) + 1
      /\ Reply(<<ClientPdu("wave confirm")>>) /\ failed' = failed
  BY <1>1, <1>3, HearSucceeds
<1>5. client' \in {"WaitingForTraining", "Ready"}
  BY <1>1 DEF Inv, Handshake, States
<1>6. WavesInFlight' /\ Unheard'
  BY <1>1, <1>4, PopWhole DEF serverVars, Streaming
<1> QED BY <1>1, <1>3, <1>4, <1>5, <1>6, WaveHeard

\* A message is taken that neither hears a wave nor is answered.
LEMMA NothingHeard ==
  ASSUME Inv, Popped(ServerPdus, toClient, toClient'), client # "Start",
         client' \in {"WaitingForTraining", "Ready"}, failed' = FALSE,
         waveInfo' = << >> \/ waveInfo' \in [{1} -> ServerPdus], waveInfo' # << >> => Streaming,
         WavesInFlight', Unheard', UNCHANGED <<serverVars, serverVersion, negotiated, heard, toServer>>
  PROVE  Inv'
<1>1. AnswersInFlight'
  BY DEF Inv, Handshake, AnswersInFlight, Streaming, serverVars
<1>2. OnlyConfirms => OnlyConfirms'
  BY DEF OnlyConfirms, At
<1>3. Handshake'
  BY <1>1, <1>2, ClientGoesOn
<1>4. Shapes'
  BY DEF Inv, Shapes, Popped, serverVars
<1> QED BY <1>3, <1>4 DEF Inv

\* SNDC_WAVE is taken, with its data or without.
LEMMA SndcWaveTaken ==
  ASSUME Inv, HandleSndcWave
  PROVE  /\ Inv'
         /\ \/ UNCHANGED heard
            \/ Len(heard) < Len(sent) /\ heard' = Append(heard, sent[Len(heard) + 1])
<1>1. Receive /\ waveInfo = << >> /\ UNCHANGED <<serverVars, client, serverVersion, negotiated>>
  BY DEF HandleSndcWave
<1>2. /\ Popped(ServerPdus, toClient, toClient') /\ 1 \in DOMAIN toClient
      /\ Head(toClient) = toClient[1] /\ failed = FALSE
      /\ client = "Start" => At(toClient, 1, {"formats"})
  BY <1>1, HeadTaken
<1>3. CASE Head(toClient).type = "wave"
  <2>1. Hear(Head(toClient), Head(toClient).n) /\ waveInfo' = << >>
    BY <1>1, <1>3 DEF HandleSndcWave
  <2>2. At(toClient, 1, {"wave", "wave2"})
    BY <1>2, <1>3 DEF At
  <2> QED BY <1>1, <2>1, <2>2, WholeHeard
<1>4. CASE Head(toClient).type = "wave info"
  <2>1. waveInfo' = <<toClient[1]>> /\ UNCHANGED <<heard, failed, toServer>>
    BY <1>2, <1>4 DEF HandleSndcWave
  <2>2. client # "Start" /\ At(toClient, 1, {"wave info"})
    BY <1>2, <1>4 DEF At
  <2>3. InfoIsKept
    BY <2>1, <2>2 DEF InfoIsKept
  <2>4. WavesInFlight' /\ Unheard'
    BY <1>1, <1>2, <2>1, <2>3, PopInfo DEF serverVars, Streaming
  <2>5. Streaming
    <3>1. At(toClient, 1, Starts)
      BY <2>2 DEF At, Starts
    <3> QED BY <1>2, <3>1 DEF Inv, WavesInFlight
  <2>6. waveInfo' \in [{1} -> ServerPdus]
    <3>1. toClient[1] \in ServerPdus
      BY <1>2 DEF Popped
    <3> QED BY <2>1, <3>1
  <2>7. client' \in {"WaitingForTraining", "Ready"}
    BY <1>1, <2>2 DEF Inv, Handshake, States
  <2> QED BY <1>1, <1>2, <2>1, <2>2, <2>4, <2>5, <2>6, <2>7, NothingHeard
<1> QED BY <1>3, <1>4 DEF HandleSndcWave

AnswersWith(m) == m.type = "formats" /\ m.version = serverVersion' /\ m.formats = negotiated'
IsQuality(m) == m.type = "quality"

\* The answer to the server's formats is sent: one message,
LEMMA OneAnswer ==
  ASSUME Inv, OnlyConfirms, server = "WaitingForClientFormats", UNCHANGED server,
         NEW m, AnswersWith(m), Pushed(ClientPdus, toServer, toServer', m)
  PROVE  AnswersInFlight'
<1> DEFINE f == Len(toServer) + 1
<1>1. \A i \in DOMAIN toServer : toServer'[i] = toServer[i]
  BY DEF Pushed
<1>2. f \in DOMAIN toServer' /\ toServer'[f] = m
  BY DEF Pushed
<1>3. \A i \in DOMAIN toServer' : i \in DOMAIN toServer \/ i = f
  BY DEF Pushed
<1> HIDE DEF f
<1>4. \A i \in DOMAIN toServer : toServer'[i].type = "wave confirm" /\ Streaming
  BY <1>1 DEF OnlyConfirms, At, Inv, Handshake, AnswersInFlight, AnswersOf
<1>5. toServer'[f].type = "formats" /\ toServer'[f].version = serverVersion' /\ toServer'[f].formats = negotiated'
  BY <1>2 DEF AnswersWith
<1>6. Streaming' = Streaming
  BY DEF Streaming
<1> QED BY <1>3, <1>4, <1>5, <1>6 DEF AnswersInFlight, AnswersOf, At

\* or two, from version 6 on.
LEMMA TwoAnswers ==
  ASSUME Inv, OnlyConfirms, server = "WaitingForClientFormats", UNCHANGED server, serverVersion' >= 6,
         NEW m, NEW k, NEW u, AnswersWith(m), IsQuality(k),
         Pushed(ClientPdus, toServer, u, m), Pushed(ClientPdus, u, toServer', k)
  PROVE  AnswersInFlight'
<1> DEFINE f == Len(toServer) + 1
           q == Len(toServer) + 2
<1>0. Len(u) = Len(toServer) + 1 /\ Len(toServer) \in Nat /\ Len(u) + 1 = Len(toServer) + 2
  BY DEF Pushed
<1>1. \A i \in DOMAIN toServer : i \in DOMAIN u /\ toServer'[i] = toServer[i]
  BY DEF Pushed
<1>2. f \in DOMAIN u /\ f \in DOMAIN toServer' /\ q \in DOMAIN toServer'
  BY <1>0 DEF Pushed
<1>3. toServer'[f] = m
  BY <1>2 DEF Pushed
<1>4. toServer'[q] = k
  BY <1>0 DEF Pushed
<1>5. \A i \in DOMAIN toServer' : i \in DOMAIN toServer \/ i = f \/ i = q
  BY <1>0 DEF Pushed
<1>6. f < q
  BY <1>0
<1> HIDE DEF f, q
<1>7. \A i \in DOMAIN toServer : toServer'[i].type = "wave confirm" /\ Streaming
  BY <1>1 DEF OnlyConfirms, At, Inv, Handshake, AnswersInFlight, AnswersOf
<1>8. toServer'[f].type = "formats" /\ toServer'[f].version = serverVersion' /\ toServer'[f].formats = negotiated'
  BY <1>3 DEF AnswersWith
<1>9. toServer'[q].type = "quality"
  BY <1>4 DEF IsQuality
<1>10. Streaming' = Streaming
  BY DEF Streaming
<1>11. ASSUME NEW i \in DOMAIN toServer'
       PROVE  /\ At(toServer', i, {"wave confirm"}) => Streaming
              /\ At(toServer', i, {"formats"}) => i = f
              /\ At(toServer', i, {"quality"}) => i = q
              /\ ~ At(toServer', i, {"training confirm"})
  BY <1>5, <1>7, <1>8, <1>9 DEF At
<1>12. At(toServer', f, {"formats"})
  BY <1>8 DEF At
<1> QED BY <1>2, <1>6, <1>8, <1>10, <1>11, <1>12 DEF AnswersInFlight, AnswersOf

\* The client takes the server's formats and answers.
LEMMA FormatsAnswered ==
  ASSUME Inv, Receive, waveInfo = << >>, waveInfo' = << >>, Head(toClient).type = "formats",
         AnswerFormats, UNCHANGED serverVars
  PROVE  Inv' /\ UNCHANGED heard
<1>1. Shapes /\ Handshake
  BY DEF Inv
<1>2. /\ Popped(ServerPdus, toClient, toClient') /\ 1 \in DOMAIN toClient
      /\ Head(toClient) = toClient[1] /\ failed = FALSE
  BY HeadTaken
<1>3. At(toClient, 1, {"formats"})
  BY <1>2 DEF At
<1>4. /\ server = "WaitingForClientFormats" /\ OnlyConfirms
      /\ \A j \in DOMAIN toClient : j > 1 => At(toClient, j, {"volume", "close"})
  BY <1>1, <1>2, <1>3 DEF Handshake, FormatsInFlight, OnlyConfirms
<1>5. \A i \in DOMAIN toClient' : At(toClient', i, {"volume", "close"})
  <2>1. \A i \in DOMAIN toClient' : i + 1 > 1 /\ i + 1 \in DOMAIN toClient
    BY <1>2 DEF Popped
  <2> QED BY <1>2, <1>4, <2>1, Shift
<1>6. \A i \in DOMAIN toClient' :
        /\ ~ At(toClient', i, {"formats"}) /\ ~ At(toClient', i, {"training"})
        /\ ~ At(toClient', i, Starts) /\ ~ At(toClient', i, {"wave data"})
        /\ ~ At(toClient', i, {"wave info"})
  BY <1>5 DEF At, Starts
<1> DEFINE version == toClient[1].version
           formats == Matching(toClient[1].formats)
           m == [type |-> "formats", version |-> version, formats |-> formats]
           k == ClientPdu("quality")
<1>7. version \in Versions \cup {0} /\ formats \in Seq(Formats)
  <2>1. toClient[1] \in ServerPdus
    BY <1>2 DEF Popped
  <2>2. toClient[1].version \in Versions \cup {0} /\ toClient[1].formats \in Offers \cup {<< >>}
    BY <2>1 DEF ServerPdus
  <2> QED BY <2>2, MatchingAssumption
<1>8. /\ client' = "WaitingForTraining" /\ serverVersion' = version /\ negotiated' = formats
      /\ UNCHANGED <<heard, failed>>
      /\ toServer' = toServer \o Answer(version, formats)
  BY <1>2 DEF AnswerFormats, Reply
<1>9. m \in ClientPdus /\ k \in ClientPdus /\ AnswersWith(m) /\ IsQuality(k)
  BY <1>7, <1>8, ReplyShape DEF ClientPdus, AnswersWith, IsQuality
<1>10. \/ version >= 6 /\ Answer(version, formats) = <<m, k>>
       \/ Answer(version, formats) = <<m>>
  BY DEF Answer
<1> HIDE DEF m, k, version, formats
<1>11. \/ version >= 6 /\ toServer' = toServer \o <<m, k>>
       \/ toServer' = toServer \o <<m>>
  BY <1>8, <1>10
<1>12. AnswersInFlight' /\ toServer' \in Seq(ClientPdus)
  <2>1. toServer \in Seq(ClientPdus) /\ m \in ClientPdus /\ k \in ClientPdus
    BY <1>1, <1>9 DEF Shapes
  <2>2. server' = server
    BY DEF serverVars
  <2>3. CASE version >= 6 /\ toServer' = toServer \o <<m, k>>
    <3>1. PICK u : Pushed(ClientPdus, toServer, u, m) /\ Pushed(ClientPdus, u, toServer', k)
      BY <2>1, <2>3, PushTwo
    <3>2. serverVersion' >= 6
      BY <1>8, <2>3
    <3>3. toServer' \in Seq(ClientPdus)
      BY <3>1 DEF Pushed
    <3> QED BY <1>4, <1>9, <2>2, <3>1, <3>2, <3>3, TwoAnswers
  <2>4. CASE toServer' = toServer \o <<m>>
    <3>1. Pushed(ClientPdus, toServer, toServer', m)
      BY <2>1, <2>4, Push
    <3>2. toServer' \in Seq(ClientPdus)
      BY <3>1 DEF Pushed
    <3> QED BY <1>4, <1>9, <2>2, <3>1, <3>2, OneAnswer
  <2> QED BY <1>11, <2>3, <2>4
<1>13. States'
  BY <1>1, <1>2, <1>4, <1>8 DEF Handshake, States, serverVars, Answered
<1>14. FormatsInFlight' /\ TrainingInFlight'
  BY <1>6 DEF FormatsInFlight, TrainingInFlight
<1>15. Unheard'
  <2>1. \A i \in DOMAIN toClient : ~ At(toClient, i, Starts)
    <3>1. \A j \in DOMAIN toClient : j = 1 \/ j > 1
      BY <1>2 DEF Popped
    <3>2. ~ At(toClient, 1, Starts)
      BY <1>3 DEF At, Starts
    <3> QED BY <1>4, <3>1, <3>2 DEF At, Starts
  <2>2. Base' = Base /\ sent' = sent
    BY <1>8 DEF Base, serverVars
  <2> QED BY <1>6, <2>1, <2>2 DEF Inv, Unheard
<1>16. WavesInFlight'
  BY <1>6 DEF WavesInFlight
<1>17. Shapes'
  BY <1>1, <1>2, <1>7, <1>8, <1>12 DEF Shapes, Popped, serverVars
<1> QED BY <1>8, <1>12, <1>13, <1>14, <1>15, <1>16, <1>17 DEF Inv, Handshake

IsTrainingConfirm(m) == m.type = "training confirm"

\* The client confirms the training: its answers,
LEMMA ConfirmAnswer ==
  ASSUME Inv, OnlyConfirms, server = "WaitingForTrainingConfirm", UNCHANGED server,
         NEW m, IsTrainingConfirm(m), Pushed(ClientPdus, toServer, toServer', m)
  PROVE  AnswersInFlight'
<1> DEFINE f == Len(toServer) + 1
<1>1. \A i \in DOMAIN toServer : toServer'[i] = toServer[i]
  BY DEF Pushed
<1>2. f \in DOMAIN toServer' /\ toServer'[f] = m
  BY DEF Pushed
<1>3. \A i \in DOMAIN toServer' : i \in DOMAIN toServer \/ i = f
  BY DEF Pushed
<1> HIDE DEF f
<1>4. \A i \in DOMAIN toServer : toServer'[i].type = "wave confirm" /\ Streaming
  BY <1>1 DEF OnlyConfirms, At, Inv, Handshake, AnswersInFlight, AnswersOf
<1>5. toServer'[f].type = "training confirm"
  BY <1>2 DEF IsTrainingConfirm
<1>6. Streaming' = Streaming
  BY DEF Streaming
<1> QED BY <1>3, <1>4, <1>5, <1>6 DEF AnswersInFlight, AnswersOf, At

\* and everything else.
LEMMA TrainingAnswered ==
  ASSUME Inv, Receive, waveInfo = << >>, waveInfo' = << >>, Head(toClient).type = "training",
         client' = "Ready", failed' = FALSE, Reply(<<ClientPdu("training confirm")>>),
         UNCHANGED <<serverVars, serverVersion, negotiated, heard>>
  PROVE  Inv'
<1>1. Shapes /\ Handshake
  BY DEF Inv
<1>2. /\ Popped(ServerPdus, toClient, toClient') /\ 1 \in DOMAIN toClient /\ Head(toClient) = toClient[1]
      /\ client = "Start" => At(toClient, 1, {"formats"})
  BY HeadTaken
<1>3. At(toClient, 1, {"training"}) /\ ~ At(toClient, 1, {"formats"})
  BY <1>2 DEF At
<1>4. /\ server = "WaitingForTrainingConfirm" /\ OnlyConfirms /\ client # "Start"
      /\ \A j \in DOMAIN toClient : At(toClient, j, {"training"}) => j = 1
  BY <1>1, <1>2, <1>3 DEF Handshake, TrainingInFlight, OnlyConfirms
<1>5. \A i \in DOMAIN toClient' : ~ At(toClient', i, {"training"}) /\ ~ At(toClient', i, {"formats"})
  <2>1. \A i \in DOMAIN toClient : ~ At(toClient, i, {"formats"})
    BY <1>1, <1>4 DEF Handshake, FormatsInFlight
  <2>2. \A i \in DOMAIN toClient' :
          /\ i + 1 \in DOMAIN toClient /\ i + 1 # 1
          /\ \A types : At(toClient', i, types) <=> At(toClient, i + 1, types)
    BY <1>2, Shift
  <2> QED BY <1>4, <2>1, <2>2
<1> DEFINE m == ClientPdu("training confirm")
<1>6. m \in ClientPdus /\ m.type = "training confirm" /\ toServer' = toServer \o <<m>>
      /\ toServer \in Seq(ClientPdus)
  BY <1>1, ReplyShape DEF Reply, Shapes
<1> HIDE DEF m
<1>7. Pushed(ClientPdus, toServer, toServer', m)
  BY <1>6, Push
<1>8. AnswersInFlight'
  <2>1. server' = server /\ IsTrainingConfirm(m)
    BY <1>6 DEF serverVars, IsTrainingConfirm
  <2> QED BY <1>4, <1>7, <2>1, ConfirmAnswer
<1>9. States'
  BY <1>1, <1>4 DEF Handshake, States, serverVars, Streaming, Answered
<1>10. FormatsInFlight' /\ TrainingInFlight'
  BY <1>5 DEF FormatsInFlight, TrainingInFlight
<1>11. WavesInFlight' /\ Unheard'
  <2>1. Silent(toClient[1])
    BY <1>3 DEF At, Silent, Starts
  <2> QED BY <1>2, <2>1, PopOther DEF serverVars, Streaming
<1>12. Shapes'
  BY <1>1, <1>2, <1>7 DEF Shapes, Popped, Pushed, serverVars
<1> QED BY <1>8, <1>9, <1>10, <1>11, <1>12 DEF Inv, Handshake

\* The other messages are taken.
LEMMA OthersTaken ==
  ASSUME Inv, HandleStart \/ HandlePrepared
  PROVE  /\ Inv'
         /\ \/ UNCHANGED heard
            \/ Len(heard) < Len(sent) /\ heard' = Append(heard, sent[Len(heard) + 1])
<1>1. /\ Receive /\ waveInfo = << >> /\ UNCHANGED <<serverVars, waveInfo>>
      /\ Head(toClient).type \notin {"wave", "wave info"}
  BY DEF HandleStart, HandlePrepared, Decoded
<1>2. /\ Popped(ServerPdus, toClient, toClient') /\ 1 \in DOMAIN toClient /\ failed = FALSE
      /\ Head(toClient) = toClient[1] /\ (client = "Start" => At(toClient, 1, {"formats"}))
  BY <1>1, HeadTaken
<1>3. CASE Head(toClient).type = "formats"
  <2>1. AnswerFormats
    BY <1>3 DEF HandleStart, HandlePrepared, Decoded, Inv, Handshake, States
  <2> QED BY <1>1, <1>3, <2>1, FormatsAnswered
<1>4. CASE Head(toClient).type # "formats"
  <2>1. client # "Start" /\ client # "Stop"
    BY <1>2, <1>4 DEF At, Inv, Handshake, States
  <2>2. ReadyPdu(Head(toClient).type)
    BY <1>4, <2>1 DEF HandleStart, HandlePrepared, Decoded
  <2>3. client' = "Ready" /\ UNCHANGED <<serverVersion, negotiated>>
    BY <2>2 DEF ReadyPdu
  <2>4. ~ At(toClient, 1, {"wave data"})
    <3>1. ~ (1 > 1)
      OBVIOUS
    <3> QED BY <1>1, <1>2, <3>1 DEF Inv, WavesInFlight
  <2>5. CASE Head(toClient).type = "wave2"
    <3>1. Hear(Head(toClient), Head(toClient).n)
      BY <2>2, <2>5 DEF ReadyPdu
    <3>2. At(toClient, 1, {"wave", "wave2"})
      BY <1>2, <2>5 DEF At
    <3> QED BY <1>1, <2>3, <3>1, <3>2, WholeHeard
  <2>6. CASE Head(toClient).type = "training"
    <3>1. Reply(<<ClientPdu("training confirm")>>) /\ UNCHANGED <<heard, failed>>
      BY <2>2, <2>6 DEF ReadyPdu
    <3> QED BY <1>1, <1>2, <2>3, <2>6, <3>1, TrainingAnswered
  <2>7. CASE Head(toClient).type \notin {"wave2", "training"}
    <3>1. Head(toClient).type # "wave data"
      BY <1>2, <2>4 DEF At
    <3>2. UNCHANGED <<heard, failed, toServer>>
      BY <2>2, <2>7, <3>1 DEF ReadyPdu
    <3>3. Silent(toClient[1])
      BY <1>1, <1>2, <2>7, <3>1 DEF Silent, Starts
    <3>4. WavesInFlight' /\ Unheard'
      BY <1>1, <1>2, <2>3, <3>2, <3>3, PopOther DEF serverVars, Streaming
    <3> QED BY <1>1, <1>2, <2>1, <2>3, <3>2, <3>4, NothingHeard
  <2> QED BY <2>5, <2>6, <2>7
<1> QED BY <1>3, <1>4

-----------------------------------------------------------------------------
(* The whole.                                                              *)

\* The initial state
LEMMA Initially ==
  ASSUME Init
  PROVE  Inv
<1>1. /\ toClient = << >> /\ toServer = << >> /\ sent = << >> /\ heard = << >> /\ waveInfo = << >>
      /\ negotiated = << >> /\ clientFormats = << >> /\ formatNo = 0
      /\ serverVersion = 0 /\ clientVersion = 0
      /\ client = "Start" /\ server = "Start" /\ failed = FALSE
  BY DEF Init
<1>2. DOMAIN toClient = {} /\ DOMAIN toServer = {} /\ DOMAIN sent = {}
  BY <1>1
<1>3. Base <= Len(sent)
  BY <1>1 DEF Base
<1>4. Shapes
  BY <1>1 DEF Shapes
<1>5. Handshake
  BY <1>1, <1>2 DEF Handshake, States, FormatsInFlight, TrainingInFlight, AnswersInFlight, AnswersOf, Answered
<1>6. WavesInFlight /\ Unheard
  BY <1>1, <1>2, <1>3 DEF WavesInFlight, Unheard
<1> QED BY <1>4, <1>5, <1>6 DEF Inv

HearsNext == Len(heard) < Len(sent) /\ heard' = Append(heard, sent[Len(heard) + 1])

\* Every step keeps the invariant, and is a step of the abstract channel or leaves it alone.
LEMMA Step ==
  ASSUME Inv, [Next]_vars
  PROVE  /\ Inv'
         /\ \/ UNCHANGED <<sent, heard>>
            \/ SendWave
            \/ HearsNext /\ UNCHANGED sent
<1>1. CASE UNCHANGED vars
  <2>1. Shapes'
    BY <1>1 DEF vars, clientVars, serverVars, Inv, Shapes
  <2>2. States' /\ FormatsInFlight'
    BY <1>1 DEF vars, clientVars, serverVars, Inv, Handshake, States, FormatsInFlight, Streaming, At
  <2>3. TrainingInFlight'
    BY <1>1 DEF vars, clientVars, serverVars, Inv, Handshake, TrainingInFlight, At
  <2>4. AnswersInFlight'
    BY <1>1 DEF vars, clientVars, serverVars, Inv, Handshake, AnswersInFlight, Streaming
  <2>5. WavesInFlight'
    BY <1>1 DEF vars, clientVars, serverVars, Inv, WavesInFlight, Base, Decodable, Streaming, At
  <2>6. Unheard'
    BY <1>1 DEF vars, clientVars, serverVars, Inv, Unheard, Base, At
  <2>7. Inv'
    BY <2>1, <2>2, <2>3, <2>4, <2>5, <2>6 DEF Inv, Handshake
  <2> QED BY <1>1, <2>7 DEF vars, clientVars, serverVars
<1>2. ASSUME NEW version \in Versions, NEW offer \in Offers, StartServer(version, offer)
      PROVE  Inv' /\ UNCHANGED <<sent, heard>>
  <2>1. server = "Start" /\ formatNo = 0
    BY <1>2 DEF StartServer, Inv, Handshake, States
  <2>2. Negotiates(version, offer)
    <3>1. /\ Send(<<FormatsPdu(version, offer)>>) /\ server' = "WaitingForClientFormats"
          /\ UNCHANGED <<clientVars, clientVersion, clientFormats, formatNo, sent, toServer>>
      BY <1>2 DEF StartServer
    <3>2. formatNo' = 0
      BY <2>1, <3>1
    <3> QED BY <2>1, <3>1, <3>2 DEF Negotiates
  <2> QED BY <2>2, FormatsSent DEF Negotiates, clientVars
<1>3. ASSUME NEW version \in Versions, NEW offer \in Offers, NegotiateAgain(version, offer)
      PROVE  Inv' /\ UNCHANGED <<sent, heard>>
  <2>1. Negotiates(version, offer)
    BY <1>3 DEF NegotiateAgain, Negotiates
  <2> QED BY <2>1, FormatsSent DEF Negotiates, clientVars
<1>4. CASE SendWave
  BY <1>4, WaveSent
<1>5. ASSUME NEW type \in {"volume", "close"}, SendControl(type)
      PROVE  Inv' /\ UNCHANGED <<sent, heard>>
  BY <1>5, ControlSent DEF SendControl, clientVars, serverVars
<1>6. CASE TakeFormats \/ TakeQualityMode \/ TakeTrainingConfirm \/ TakeIgnored
  <2>1. UNCHANGED <<sent, heard>>
    BY <1>6 DEF TakeFormats, TakeQualityMode, TakeTrainingConfirm, TakeIgnored, clientVars, serverVars
  <2>2. Inv'
    BY <1>6, FormatsTaken, QualityModeTaken, TrainingConfirmTaken, ConfirmIgnored
  <2> QED BY <2>1, <2>2
<1>7. CASE HandleWaveData
  BY <1>7, WaveDataTaken DEF HearsNext, HandleWaveData, serverVars
<1>8. CASE HandleSndcWave
  BY <1>8, SndcWaveTaken DEF HearsNext, HandleSndcWave, serverVars
<1>9. CASE HandleStart \/ HandlePrepared
  BY <1>9, OthersTaken DEF HearsNext, HandleStart, HandlePrepared, serverVars
<1> QED BY <1>1, <1>2, <1>3, <1>4, <1>5, <1>6, <1>7, <1>8, <1>9 DEF Next, ServerProcess, HandlePdu

\* No state of either side is ever met by a PDU it does not allow, and no wave has a format
\* number out of range: NeverStops, for any formats, versions, offers and servers.
THEOREM NeverStopsAlways == Spec => []NeverStops
<1>1. Init => Inv
  BY Initially
<1>2. Inv /\ [Next]_vars => Inv'
  BY Step
<1>3. Inv => NeverStops
  BY DEF Inv, Handshake, States, NeverStops, Answered
<1> QED BY <1>1, <1>2, <1>3, PTL DEF Spec

\* The variables keep their types, whatever the versions, offers and servers; a WaveInfo
\* that was put by when it came in (pending_wave_info) finds the Wave data it belongs to at the
\* head of the stream.
THEOREM TypeCorrect == Spec => []TypeOK
<1>1. Init => Inv /\ rounds \in Nat
  <2>1. Init => rounds \in Nat
    BY DEF Init
  <2> QED BY <2>1, Initially
<1>2. Inv /\ rounds \in Nat /\ [Next]_vars => (Inv /\ rounds \in Nat)'
  <2>1. [Next]_vars => rounds' = rounds \/ rounds' = rounds + 1
    <3>1. \A version, offer : StartServer(version, offer) \/ NegotiateAgain(version, offer)
                              => rounds' = rounds + 1
      BY Zenon DEF StartServer, NegotiateAgain
    <3>2. UNCHANGED serverVars => rounds' = rounds
      BY Zenon DEF serverVars
    <3>3. SendWave => rounds' = rounds
      BY Zenon DEF SendWave
    <3>4. \A type : SendControl(type) => UNCHANGED serverVars
      BY Zenon DEF SendControl
    <3>5. TakeFormats \/ TakeQualityMode \/ TakeTrainingConfirm => rounds' = rounds
      BY Zenon DEF TakeFormats, TakeQualityMode, TakeTrainingConfirm
    <3>6. TakeIgnored \/ HandlePdu \/ UNCHANGED vars => UNCHANGED serverVars
      BY Zenon DEF TakeIgnored, HandlePdu, HandleWaveData, HandleSndcWave, HandleStart, HandlePrepared,
                   vars
    <3> QED BY <3>1, <3>2, <3>3, <3>4, <3>5, <3>6 DEF Next, ServerProcess
  <2> QED BY <2>1, Step
<1>3. Inv /\ rounds \in Nat => TypeOK
  <2> SUFFICES ASSUME Inv, rounds \in Nat PROVE TypeOK
    OBVIOUS
  <2>1. /\ toClient \in Seq(ServerPdus) /\ toServer \in Seq(ClientPdus)
        /\ negotiated \in Seq(Formats) /\ clientFormats \in Seq(Formats)
        /\ serverVersion \in Versions \cup {0} /\ clientVersion \in Versions \cup {0}
        /\ formatNo \in 0 .. Len(clientFormats) /\ sent \in Seq(Waves) /\ heard \in Seq(Waves)
        /\ waveInfo = << >> \/ waveInfo \in [{1} -> ServerPdus]
    BY DEF Inv, Shapes
  <2>2. /\ client \in {"Start", "WaitingForTraining", "Ready", "Stop"} /\ failed \in BOOLEAN
        /\ server \in {"Start", "WaitingForClientFormats", "WaitingForQualityMode",
                       "WaitingForTrainingConfirm", "Ready", "Stop"}
    BY DEF Inv, Handshake, States, Answered
  <2>3. waveInfo # << >> => /\ toClient # << >> /\ toClient[1].type = "wave data"
                            /\ toClient[1].n = waveInfo[1].n
    BY DEF Inv, WavesInFlight, At
  <2>4. toClient # << >> => Head(toClient) = toClient[1]
    BY <2>1
  <2> QED BY <2>1, <2>2, <2>3, <2>4 DEF TypeOK
<1> QED BY <1>1, <1>2, <1>3, PTL DEF Spec

\* The channel implements what AudioLink promises of safety: waves are heard once each, in
\* order, whole, and in the format they were encoded in.
THEOREM HeardAsSent == Spec => Link!Spec
<1>1. Init => Inv /\ Link!Init
  BY Initially DEF Init, Link!Init
<1>2. Inv /\ [Next]_vars => Inv' /\ [Link!Next]_<<sent, heard>>
  <2> SUFFICES ASSUME Inv, [Next]_vars
               PROVE  Inv' /\ [Link!Next]_<<sent, heard>>
    OBVIOUS
  <2>1. Inv' /\ (UNCHANGED <<sent, heard>> \/ SendWave \/ (HearsNext /\ UNCHANGED sent))
    BY Step
  <2>2. ASSUME SendWave
        PROVE  \E f \in Formats : Link!Send(f)
    <3>1. clientFormats[formatNo] \in Formats
      BY <2>2 DEF SendWave, Inv, Shapes
    <3> QED BY <2>2, <3>1 DEF SendWave, Link!Send, Wave, Link!Wave, clientVars
  <2>3. HearsNext /\ UNCHANGED sent => Link!Hear
    BY DEF HearsNext, Link!Hear
  <2> QED BY <2>1, <2>2, <2>3 DEF Link!Next
<1> QED BY <1>1, <1>2, PTL DEF Spec, Link!Spec
=============================================================================
