----------------------------- MODULE PduFraming -----------------------------
(***************************************************************************)
(* The way of a server's bytes to the session loop: server/src/main.rs     *)
(* relays TCP reads as WebSocket messages and upgrades the connection to   *)
(* TLS on a text command; wasm/src/framed.rs (WasmFramed) cuts the PDUs    *)
(* out again.  read_pdu runs inside a select! of run_session and is        *)
(* dropped whenever an input event wins.                                   *)
(*                                                                         *)
(* A byte is a number below Radix, and Half is the bit that marks a long   *)
(* fast-path length: 128 in the code, less in an instance.                 *)
(***************************************************************************)
EXTENDS Naturals, Sequences, FiniteSetsExt, SequencesExt

CONSTANTS
  Half,
  Shapes,     \* the PDUs of the active session: [form, len]
  MaxSent,    \* bound: PDUs sent
  MaxRead,    \* bound: bytes of one TCP read (65536 in the code)
  MaxQueue    \* bound: WebSocket messages in flight

Radix == 2 * Half
X224 == 3      \* first byte of a TPKT header
FastPath == 0

(***************************************************************************)
(* The server's encodings.  A body is told from another by its bytes,      *)
(* which look like headers.                                                *)
(***************************************************************************)
HeaderLen == [short |-> 2, long |-> 3, x224 |-> 4]

Header(form, len) ==
  CASE form = "short" -> <<FastPath, len>>
    [] form = "long"  -> <<FastPath, Half + len \div Radix, len % Radix>>
    [] form = "x224"  -> <<X224, 0, len \div Radix, len % Radix>>

Encode(s, fill) ==
  Header(s.form, s.len) \o [i \in 1 .. s.len - HeaderLen[s.form] |-> fill]

Confirm == Encode([form |-> "x224", len |-> 5], 1)   \* X.224 Connection Confirm
Units == {Confirm} \cup {Encode(s, fill) : s \in Shapes, fill \in {FastPath, X224}}

ASSUME FramingAssumption ==
  /\ Half \in Nat /\ Half > 2
  /\ \A s \in Shapes :
       /\ s.form \in {"short", "long", "x224"}
       /\ s.len \in Nat /\ s.len >= HeaderLen[s.form]
       /\ s.form = "short" => s.len < Half
       /\ s.form = "long" => s.len < Half * Radix
       /\ s.form = "x224" => s.len < Radix * Radix
  /\ MaxSent \in Nat /\ MaxRead \in Nat \ {0} /\ MaxQueue \in Nat

Text(ok) == [text |-> TRUE, ok |-> ok, bytes |-> << >>]
Binary(bytes) == [text |-> FALSE, ok |-> TRUE, bytes |-> bytes]

VARIABLES
  sent,      \* by the server
  tcp,       \* bytes the proxy has not read
  proxy,     \* "raw", "tls" (run_tls_relay) or "closed"
  command,   \* is a tls_upgrade command on its way to the proxy?
  ws,        \* WebSocket messages not yet read by the client
  client,    \* what it awaits: "confirm", "tls_ready" or "pdu"; or "failed"
  buf,       \* WasmFramed.buf
  pending,   \* is a read_pdu suspended in fill_buf?
  got        \* PDUs handed on

vars == <<sent, tcp, proxy, command, ws, client, buf, pending, got>>

\* Bytes that tell the length of the PDU that b starts with
HeaderNeeded(b) ==
  IF Len(b) < 2 THEN 2
  ELSE IF b[1] = X224 THEN 4
  ELSE IF b[2] >= Half THEN 3 ELSE 2

\* Mutant of PduLength: a long length is read as a short one.
ShortLength(b) ==
  IF Len(b) < HeaderNeeded(b) THEN 0
  ELSE IF b[1] = X224 THEN b[3] * Radix + b[4] ELSE b[2] % Half

\* That length, 0 while the header is incomplete: read_pdu, and the X.224 hint of
\* read_by_hint
PduLength(b) ==
  IF Len(b) < HeaderNeeded(b) THEN 0
  ELSE IF b[1] = X224 THEN b[3] * Radix + b[4]
  ELSE IF b[2] >= Half THEN (b[2] % Half) * Radix + b[3] ELSE b[2]

\* Mutant of Whole: off by one.
NearlyWhole(n) == n > 0 /\ Len(buf) > n

\* Is a whole PDU of length n buffered?
Whole(n) == n > 0 /\ Len(buf) >= n

TypeOK ==
  /\ sent \in Seq(Units) /\ got \in Seq(Seq(0 .. Radix - 1))
  /\ tcp \in Seq(0 .. Radix - 1) /\ buf \in Seq(0 .. Radix - 1)
  /\ proxy \in {"raw", "tls", "closed"} /\ command \in BOOLEAN
  /\ client \in {"confirm", "tls_ready", "pdu", "failed"}
  /\ pending => client = "pdu" /\ ~Whole(PduLength(buf))

\* Is the client suspended in fill_buf?
Filling == pending \/ (client = "confirm" /\ ~Whole(PduLength(buf)))

Init ==
  /\ sent = << >> /\ tcp = << >> /\ proxy = "raw" /\ command = FALSE
  /\ ws = << >> /\ client = "confirm" /\ buf = << >> /\ pending = FALSE /\ got = << >>

-----------------------------------------------------------------------------
(* The server.                                                             *)

\* It confirms the connection request, and says nothing more before TLS.
ServerSends(u) ==
  /\ Len(sent) < MaxSent
  /\ IF sent = << >> THEN u = Confirm /\ proxy = "raw" ELSE u # Confirm /\ proxy = "tls"
  /\ sent' = Append(sent, u)
  /\ tcp' = tcp \o u
  /\ UNCHANGED <<proxy, command, ws, client, buf, pending, got>>

-----------------------------------------------------------------------------
(* The proxy.                                                              *)

\* handle_ws and run_tls_relay: one read of the TCP or TLS stream is one message.
RelayRead(n) ==
  /\ proxy # "closed" /\ n <= Len(tcp) /\ Len(ws) < MaxQueue
  /\ ws' = Append(ws, Binary(SubSeq(tcp, 1, n)))
  /\ tcp' = SubSeq(tcp, n + 1, Len(tcp))
  /\ UNCHANGED <<sent, proxy, command, client, buf, pending, got>>

\* Mutant of TlsUpgrade: the proxy does not wait for the command.
UpgradeUnasked(ok) ==
  /\ proxy = "raw" /\ sent # << >> /\ tcp = << >>
  /\ command' = FALSE
  /\ ws' = Append(ws, Text(ok))
  /\ proxy' = IF ok THEN "tls" ELSE "closed"
  /\ UNCHANGED <<sent, tcp, client, buf, pending, got>>

\* handle_ws, on the tls_upgrade command: the answer goes out before phase 2 relays
\* anything; after a failed handshake the WebSocket is closed.
TlsUpgrade(ok) ==
  /\ proxy = "raw" /\ command
  /\ command' = FALSE
  /\ ws' = Append(ws, Text(ok))
  /\ proxy' = IF ok THEN "tls" ELSE "closed"
  /\ UNCHANGED <<sent, tcp, client, buf, pending, got>>

\* Either relay ends: the server closed its end, or a write to it failed.  In run_tls_relay
\* a failed write ends the other direction too, whatever it has still to read.
RelayEnds ==
  /\ proxy # "closed"
  /\ proxy' = "closed"
  /\ command' = FALSE
  /\ UNCHANGED <<sent, tcp, ws, client, buf, pending, got>>

-----------------------------------------------------------------------------
(* The client.                                                             *)

\* A turn of run_session starts a read, which finds no whole PDU.
StartRead ==
  /\ client = "pdu" /\ ~pending /\ ~Whole(PduLength(buf))
  /\ pending' = TRUE
  /\ UNCHANGED <<sent, tcp, proxy, command, ws, client, buf, got>>

\* fill_buf; text messages are ignored.
FillBuf ==
  /\ Filling /\ ws # << >>
  /\ ws' = Tail(ws)
  /\ buf' = buf \o Head(ws).bytes
  /\ pending' = (pending /\ ~Whole(PduLength(buf))')
  /\ UNCHANGED <<sent, tcp, proxy, command, client, got>>

\* fill_buf or read_text_message on a closed WebSocket
ReadFails ==
  /\ proxy = "closed" /\ ws = << >>
  /\ client = "tls_ready" \/ Filling
  /\ client' = "failed"
  /\ pending' = FALSE
  /\ UNCHANGED <<sent, tcp, proxy, command, ws, buf, got>>

\* An input event wins the select!: the suspended read_pdu is dropped; the next turn of
\* the loop starts another.
Cancelled ==
  /\ pending
  /\ pending' = FALSE
  /\ UNCHANGED <<sent, tcp, proxy, command, ws, client, buf, got>>

\* read_pdu resolves; run_session processes the PDU.
ReadPdu ==
  /\ client = "pdu" /\ ~pending /\ Whole(PduLength(buf))
  /\ got' = Append(got, SubSeq(buf, 1, PduLength(buf)))
  /\ buf' = SubSeq(buf, PduLength(buf) + 1, Len(buf))
  /\ UNCHANGED <<sent, tcp, proxy, command, ws, client, pending>>

\* read_by_hint returns the Connection Confirm; perform_tls_upgrade sends its command.
ReadConfirm ==
  /\ client = "confirm" /\ Whole(PduLength(buf))
  /\ got' = Append(got, SubSeq(buf, 1, PduLength(buf)))
  /\ buf' = SubSeq(buf, PduLength(buf) + 1, Len(buf))
  /\ client' = "tls_ready"
  /\ command' = (proxy = "raw")     \* a closed proxy takes no command
  /\ UNCHANGED <<sent, tcp, proxy, ws, pending>>

\* read_text_message: binary messages in between are buffered.
ReadTextMessage ==
  /\ client = "tls_ready" /\ ws # << >>
  /\ ws' = Tail(ws)
  /\ buf' = buf \o Head(ws).bytes
  /\ client' = CASE ~Head(ws).text -> client
                 [] Head(ws).text /\ Head(ws).ok -> "pdu"
                 [] OTHER -> "failed"
  /\ UNCHANGED <<sent, tcp, proxy, command, pending, got>>

-----------------------------------------------------------------------------
Next ==
  \/ \E u \in Units : ServerSends(u)
  \/ \E n \in 1 .. MaxRead : RelayRead(n)
  \/ \E ok \in BOOLEAN : TlsUpgrade(ok)
  \/ RelayEnds
  \/ StartRead \/ FillBuf \/ ReadFails \/ Cancelled
  \/ ReadPdu \/ ReadConfirm \/ ReadTextMessage

\* The proxy and the client run whenever they can.  The select! of run_session picks among
\* its ready branches at random: an input event does not win every time that a message is
\* there to be read, so FillBuf and ReadFails are strongly fair.
Fairness ==
  /\ WF_vars(\E n \in 1 .. MaxRead : RelayRead(n))
  /\ WF_vars(\E ok \in BOOLEAN : TlsUpgrade(ok))
  /\ WF_vars(StartRead) /\ SF_vars(FillBuf) /\ SF_vars(ReadFails)
  /\ WF_vars(ReadPdu) /\ WF_vars(ReadConfirm) /\ WF_vars(ReadTextMessage)

Spec == Init /\ [][Next]_vars
FairSpec == Spec /\ Fairness

-----------------------------------------------------------------------------
\* The reader's promise: what the session loop processes is what the server sent,
\* however the bytes are cut into messages and however often a read is dropped.
Stream == INSTANCE PduStream WITH Units <- Units, sent <- sent, got <- got
ImplementsStream == Stream!Spec

\* The answer to tls_upgrade finds read_text_message waiting for it: fill_buf would
\* throw it away.
TextFindsReader ==
  \A i \in DOMAIN ws : ws[i].text => client \in {"tls_ready", "failed"}

\* Every PDU the server sends is delivered at last, or the client is told that the
\* connection is gone.
AllDelivered == \A n \in 1 .. MaxSent : Len(sent) >= n ~> Len(got) >= n \/ client = "failed"

=============================================================================
