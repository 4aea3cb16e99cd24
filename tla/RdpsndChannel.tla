--------------------------- MODULE RdpsndChannel ---------------------------
(***************************************************************************)
(* MS-RDPEA audio output: crates/ironrdp-rdpsnd, the client (client.rs)    *)
(* and the server (server.rs) over the two directions of one channel.      *)
(*                                                                         *)
(* The server of the crate sends a wave below version 8 as one message;    *)
(* others, whom the client is written for, split it, skip the training or  *)
(* negotiate again: Peer says which of these the server does.  The first   *)
(* four bytes of a wave (its head) travel apart from the others (its       *)
(* tail).  Left out: block numbers and confirmations' use, which the       *)
(* server logs, and volume, pitch and samples as such.                     *)
(***************************************************************************)
EXTENDS Naturals, Sequences

CONSTANTS
  Formats,     \* audio formats
  Supported,   \* those whose codec the client's handler supports
  Offers,      \* lists of formats a server may offer
  Versions,    \* its versions, of 2, 5, 6 and 8
  Peer,        \* subset of {"split", "skip training", "negotiate again"}
  MaxWaves, MaxQueue, MaxRounds  \* bounds: waves, messages in flight, negotiations

ASSUME RdpsndAssumption ==
  /\ Supported \subseteq Formats
  /\ Offers \subseteq Seq(Formats)
  /\ Versions \subseteq {2, 5, 6, 8}
  /\ MaxWaves \in Nat /\ MaxQueue \in Nat /\ MaxRounds \in Nat

VARIABLES
  (* Rdpsnd *)
  client,        \* its state
  serverVersion, \* of server_format, 0 while there is none
  negotiated,    \* negotiated_formats
  waveInfo,      \* pending_wave_info, an option: << >> or one
  heard,         \* waves given to the handler
  failed,        \* has handle_pdu returned an error?  run_session logs it and goes on
  (* RdpsndServer *)
  server,        \* its state
  clientVersion, \* of client_format, 0 while there is none
  clientFormats,
  formatNo,      \* format_no, 0 for None; an index into clientFormats
  sent,          \* waves given to wave()
  rounds,        \* negotiations begun
  (* messages in flight *)
  toClient, toServer

clientVars == <<client, serverVersion, negotiated, waveInfo, heard, failed>>
serverVars == <<server, clientVersion, clientFormats, formatNo, sent, rounds>>
vars == <<clientVars, serverVars, toClient, toServer>>

Wave(n, f) == [head |-> n, tail |-> n, format |-> f]

\* A server PDU; only the fields of its type are used.
Pdu(type, n, no) == [type |-> type, n |-> n, no |-> no, version |-> 0, formats |-> << >>]
FormatsPdu(version, formats) ==
  [type |-> "formats", n |-> 0, no |-> 0, version |-> version, formats |-> formats]

\* PDUs that begin a wave
Starts == {"wave", "wave info", "wave2"}
ServerTypes == Starts \cup {"wave data", "formats", "training", "volume", "close"}
ServerPdus == [type : ServerTypes, n : Nat, no : Nat, version : Versions \cup {0},
               formats : Offers \cup {<< >>}]
ClientPdus == [type : {"formats", "quality", "training confirm", "wave confirm"},
               version : Versions \cup {0}, formats : Seq(Formats)]
Waves == [head : Nat, tail : Nat, format : Formats]

TypeOK ==
  /\ client \in {"Start", "WaitingForTraining", "Ready", "Stop"}
  /\ serverVersion \in Versions \cup {0} /\ negotiated \in Seq(Formats)
  /\ waveInfo # << >> =>   \* its data are the next message
       /\ waveInfo \in [{1} -> ServerPdus] /\ toClient # << >>
       /\ Head(toClient).type = "wave data" /\ Head(toClient).n = waveInfo[1].n
  /\ heard \in Seq(Waves) /\ failed \in BOOLEAN
  /\ server \in {"Start", "WaitingForClientFormats", "WaitingForQualityMode",
                 "WaitingForTrainingConfirm", "Ready", "Stop"}
  /\ clientVersion \in Versions \cup {0} /\ clientFormats \in Seq(Formats)
  /\ formatNo \in 0 .. Len(clientFormats)
  /\ sent \in Seq(Waves) /\ rounds \in Nat
  /\ toClient \in Seq(ServerPdus) /\ toServer \in Seq(ClientPdus)

Init ==
  /\ client = "Start" /\ serverVersion = 0 /\ negotiated = << >>
  /\ waveInfo = << >> /\ heard = << >> /\ failed = FALSE
  /\ server = "Start" /\ clientVersion = 0 /\ clientFormats = << >> /\ formatNo = 0
  /\ sent = << >> /\ rounds = 0
  /\ toClient = << >> /\ toServer = << >>

-----------------------------------------------------------------------------
(* The server.                                                             *)

ClientPdu(type) == [type |-> type, version |-> 0, formats |-> << >>]

Send(pdus) == toClient' = toClient \o pdus

Room == Len(toClient) < MaxQueue

\* start.  The crate's server is of version 8; others of any.
StartServer(version, offer) ==
  /\ server = "Start"
  /\ server' = "WaitingForClientFormats"
  /\ rounds' = rounds + 1
  /\ Send(<<FormatsPdu(version, offer)>>)
  /\ UNCHANGED <<clientVars, clientVersion, clientFormats, formatNo, sent, toServer>>

\* Another server's: its formats again, in the middle of the stream.
NegotiateAgain(version, offer) ==
  /\ "negotiate again" \in Peer
  /\ server = "Ready" /\ rounds < MaxRounds /\ Room
  /\ server' = "WaitingForClientFormats"
  /\ rounds' = rounds + 1
  /\ formatNo' = 0
  /\ Send(<<FormatsPdu(version, offer)>>)
  /\ UNCHANGED <<clientVars, clientVersion, clientFormats, sent, toServer>>

\* The PDUs of wave n: Wave2 from version 8 on, else SNDC_WAVE, in two messages from some
WavePdus(n) ==
  IF clientVersion >= 8 THEN {<<Pdu("wave2", n, formatNo)>>}
  ELSE {<<Pdu("wave", n, formatNo)>>}
       \cup (IF "split" \in Peer
             THEN {<<Pdu("wave info", n, formatNo), Pdu("wave data", n, 0)>>} ELSE {})

\* wave; without a client format or a format number it fails and sends nothing.
SendWave ==
  /\ clientVersion # 0 /\ formatNo # 0
  /\ Len(sent) < MaxWaves /\ Room
  /\ sent' = Append(sent, Wave(Len(sent) + 1, clientFormats[formatNo]))
  /\ \E pdus \in WavePdus(Len(sent) + 1) : Send(pdus)
  /\ UNCHANGED <<clientVars, server, clientVersion, clientFormats, formatNo, rounds, toServer>>

\* set_volume, once the client's flags are known (they may allow it), and close
SendControl(type) ==
  /\ server # "Start" /\ (type = "volume" => clientVersion # 0) /\ Room
  /\ Send(<<Pdu(type, 0, 0)>>)
  /\ UNCHANGED <<clientVars, serverVars, toServer>>

\* The server of `state` reads the client's next PDU.  Servers that negotiate again expect
\* confirmations of earlier waves in any state.
Take(state) ==
  /\ server = state /\ toServer # << >>
  /\ "negotiate again" \in Peer => Head(toServer).type # "wave confirm"
  /\ toServer' = Tail(toServer)

Expected(type) == Head(toServer).type = type

\* "Invalid PDU"
StopServer ==
  server' = "Stop" /\ UNCHANGED <<clientVersion, clientFormats, formatNo, toClient>>

\* training_pdu
Train ==
  /\ server' = "WaitingForTrainingConfirm"
  /\ Send(<<Pdu("training", 0, 0)>>)
  /\ UNCHANGED formatNo

\* The handler's start: the number of a format of the client's, or none; other servers
\* come here without training.
Ready(formats) ==
  /\ server' = "Ready"
  /\ formatNo' \in 0 .. Len(formats)

TrainOrSkip(formats) ==
  \/ Train
  \/ "skip training" \in Peer /\ Ready(formats) /\ UNCHANGED toClient

\* Mutant of TakeFormats: QualityMode is awaited only from version 8 on.
TakeFormatsV8 ==
  /\ Take("WaitingForClientFormats")
  /\ IF Expected("formats")
     THEN /\ clientVersion' = Head(toServer).version /\ clientFormats' = Head(toServer).formats
          /\ IF clientVersion' >= 8
             THEN server' = "WaitingForQualityMode" /\ UNCHANGED <<formatNo, toClient>>
             ELSE TrainOrSkip(clientFormats')
     ELSE StopServer
  /\ UNCHANGED <<clientVars, sent, rounds>>

\* process, WaitingForClientFormats
TakeFormats ==
  /\ Take("WaitingForClientFormats")
  /\ IF Expected("formats")
     THEN /\ clientVersion' = Head(toServer).version /\ clientFormats' = Head(toServer).formats
          /\ IF clientVersion' >= 6
             THEN server' = "WaitingForQualityMode" /\ UNCHANGED <<formatNo, toClient>>
             ELSE TrainOrSkip(clientFormats')
     ELSE StopServer
  /\ UNCHANGED <<clientVars, sent, rounds>>

\* process, WaitingForQualityMode
TakeQualityMode ==
  /\ Take("WaitingForQualityMode")
  /\ IF Expected("quality")
     THEN TrainOrSkip(clientFormats) /\ UNCHANGED <<clientVersion, clientFormats>>
     ELSE StopServer
  /\ UNCHANGED <<clientVars, sent, rounds>>

\* process, WaitingForTrainingConfirm
TakeTrainingConfirm ==
  /\ Take("WaitingForTrainingConfirm")
  /\ IF Expected("training confirm")
     THEN Ready(clientFormats) /\ UNCHANGED <<clientVersion, clientFormats, toClient>>
     ELSE StopServer
  /\ UNCHANGED <<clientVars, sent, rounds>>

\* process, Ready and Stop: nothing but log lines
TakeIgnored ==
  /\ toServer # << >>
  /\ \/ server \in {"Ready", "Stop"}
     \/ "negotiate again" \in Peer /\ Expected("wave confirm")
  /\ toServer' = Tail(toServer)
  /\ UNCHANGED <<clientVars, serverVars, toClient>>

ServerProcess == TakeFormats \/ TakeQualityMode \/ TakeTrainingConfirm \/ TakeIgnored

-----------------------------------------------------------------------------
(* The client: one case of handle_pdu each.                                *)

Receive == toClient # << >> /\ toClient' = Tail(toClient)

Reply(pdus) == toServer' = toServer \o pdus

\* lookup_format, and the handler's wave with the confirmation of it
Hear(info, tail) ==
  IF info.no \in DOMAIN negotiated
  THEN /\ heard' = Append(heard, [head |-> info.n, tail |-> tail,
                                  format |-> negotiated[info.no]])
       /\ Reply(<<ClientPdu("wave confirm")>>)
       /\ UNCHANGED failed
  ELSE failed' = TRUE /\ UNCHANGED <<heard, toServer>>

\* The second message of a wave, whatever it is, in any state
HandleWaveData ==
  /\ Receive /\ waveInfo # << >>
  /\ waveInfo' = << >>
  /\ Hear(waveInfo[1], Head(toClient).n)
  /\ UNCHANGED <<serverVars, client, serverVersion, negotiated>>

\* SNDC_WAVE, with the data or without them, in any state
HandleSndcWave ==
  /\ Receive /\ waveInfo = << >>
  /\ \/ /\ Head(toClient).type = "wave"
        /\ Hear(Head(toClient), Head(toClient).n)
        /\ UNCHANGED waveInfo
     \/ /\ Head(toClient).type = "wave info"
        /\ waveInfo' = <<Head(toClient)>>
        /\ UNCHANGED <<heard, failed, toServer>>
  /\ UNCHANGED <<serverVars, client, serverVersion, negotiated>>

\* The other messages, by the state of the client
Decoded(states) ==
  /\ Receive /\ waveInfo = << >> /\ client \in states
  /\ Head(toClient).type \notin {"wave", "wave info"}

\* client_formats
Matching(formats) ==
  LET IsSupported(f) == f \in Supported IN SelectSeq(formats, IsSupported)

\* A list that is filtered is a list: the provers know nothing of SelectSeq.
ASSUME MatchingAssumption == \A formats \in Offers \cup {<< >>} : Matching(formats) \in Seq(Formats)

\* client_formats, and quality_mode from version 6 on
Answer(version, formats) ==
  LET answer == [type |-> "formats", version |-> version, formats |-> formats]
  IN  IF version >= 6 THEN <<answer, ClientPdu("quality")>> ELSE <<answer>>

\* The formats of the server, whenever they come
AnswerFormats ==
  LET pdu == Head(toClient)
  IN  /\ client' = "WaitingForTraining"
      /\ serverVersion' = pdu.version
      /\ negotiated' = Matching(pdu.formats)
      /\ Reply(Answer(pdu.version, Matching(pdu.formats)))
      /\ UNCHANGED <<heard, failed>>

\* handle_pdu, Start and Stop: "Invalid pdu" and "Invalid state"
HandleStart ==
  /\ Decoded({"Start", "Stop"})
  /\ IF client = "Start" /\ Head(toClient).type = "formats" THEN AnswerFormats
     ELSE client' = "Stop" /\ UNCHANGED <<serverVersion, negotiated, heard, failed, toServer>>
  /\ UNCHANGED <<serverVars, waveInfo>>

\* process_ready_pdu of anything but formats; volume and close change nothing here, and the
\* data of a wave without its WaveInfo are no PDU.
ReadyPdu(type) ==
  /\ client' = "Ready"
  /\ CASE type = "wave2"     -> Hear(Head(toClient), Head(toClient).n)
       [] type = "training"  -> Reply(<<ClientPdu("training confirm")>>) /\ UNCHANGED <<heard, failed>>
       [] type = "wave data" -> failed' = TRUE /\ UNCHANGED <<heard, toServer>>
       [] OTHER              -> UNCHANGED <<heard, failed, toServer>>
  /\ UNCHANGED <<serverVersion, negotiated>>

\* Mutant of HandlePrepared: what comes instead of the training is dropped.
WaitingDropsFirst ==
  /\ Decoded({"WaitingForTraining", "Ready"})
  /\ LET type == Head(toClient).type
     IN  IF type = "formats" THEN AnswerFormats
         ELSE IF client = "Ready" \/ type = "training" THEN ReadyPdu(type)
         ELSE /\ client' = "Ready"
              /\ UNCHANGED <<serverVersion, negotiated, heard, failed, toServer>>
  /\ UNCHANGED <<serverVars, waveInfo>>

\* Mutant of HandlePrepared: training is for WaitingForTraining alone.
ReadyIgnoresTraining ==
  /\ Decoded({"WaitingForTraining", "Ready"})
  /\ LET type == Head(toClient).type
     IN  IF type = "formats" THEN AnswerFormats
         ELSE IF client = "Ready" /\ type = "training"
              THEN UNCHANGED <<client, serverVersion, negotiated, heard, failed, toServer>>
         ELSE ReadyPdu(type)
  /\ UNCHANGED <<serverVars, waveInfo>>

\* handle_pdu, WaitingForTraining (servers may skip it) and Ready
HandlePrepared ==
  /\ Decoded({"WaitingForTraining", "Ready"})
  /\ IF Head(toClient).type = "formats" THEN AnswerFormats ELSE ReadyPdu(Head(toClient).type)
  /\ UNCHANGED <<serverVars, waveInfo>>

HandlePdu == HandleWaveData \/ HandleSndcWave \/ HandleStart \/ HandlePrepared

-----------------------------------------------------------------------------
Next ==
  \/ \E version \in Versions, offer \in Offers :
       StartServer(version, offer) \/ NegotiateAgain(version, offer)
  \/ SendWave
  \/ \E type \in {"volume", "close"} : SendControl(type)
  \/ ServerProcess
  \/ HandlePdu

Spec == Init /\ [][Next]_vars

\* Both sides handle what arrives.
FairSpec == Spec /\ WF_vars(ServerProcess) /\ WF_vars(HandlePdu)

-----------------------------------------------------------------------------
\* Neither side meets a PDU that its state does not allow, or a wave whose format number is
\* out of range, whatever the server's version, the training, and the volume or close
\* messages in between: "Invalid PDU" (server.rs), "invalid format_no" (client.rs).
NeverStops == client # "Stop" /\ server # "Stop" /\ ~failed

Link == INSTANCE AudioLink WITH Formats <- Formats, sent <- sent, heard <- heard

\* Waves are heard once each, in order, their two parts together, in the format the server
\* encoded them in, and all of them in the end.
ImplementsLink == Link!LiveSpec

\* A negotiation ends in Ready.
NegotiationEnds == server # "Start" ~> server = "Ready"
=============================================================================
