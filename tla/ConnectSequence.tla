-------------------------- MODULE ConnectSequence --------------------------
(***************************************************************************)
(* How a session comes to be: the client drives the connector              *)
(* (wasm/src/session.rs: perform_connection, perform_credssp,              *)
(* perform_redirected_connection), the proxy relays and upgrades to TLS    *)
(* (server/src/main.rs: handle_ws, run_tls_relay), and the server may send *)
(* the client elsewhere when it is connected.                              *)
(*                                                                         *)
(* A message is a whole PDU: how bytes make PDUs is PduFraming's.  There   *)
(* is one connection at a time: which calls the page makes, and those that *)
(* overlap, are SessionLifecycle's.                                        *)
(***************************************************************************)
EXTENDS Naturals, Sequences, FiniteSets, SequencesExt

CONSTANTS
  Protocols,     \* what servers select for a connection with a password
  NtlmRounds,    \* TSRequests that the CredSSP client sends before its final one
  Exchanges,     \* PDUs each way from Basic Settings Exchange to the end of finalization
  MaxAttempts    \* bound: connections

Nla == {"HYBRID", "HYBRID_EX"}
MaxRounds == 10    \* perform_credssp

ASSUME ConnectAssumption ==
  /\ Protocols \subseteq Nla \cup {"SSL"}
  /\ NtlmRounds \in 1..MaxRounds /\ Exchanges \in Nat \ {0} /\ MaxAttempts \in Nat

NoPacket == 0
NoProtocol == "none"

VARIABLES
  (* the client *)
  attempts,
  client,       \* the state of the connector, or what its driver awaits
  redirected,   \* does perform_redirected_connection drive it?
  packet,       \* `pending' of that one
  selected,     \* selected_protocol
  key,          \* server_public_key: is there one?
  round,        \* CredSSP rounds, or exchanges after it
  pendingRedirect,   \* PENDING_REDIRECT
  hop,          \* has the page been told "redirected", and not called connect_redirected yet?
  (* the WebSocket and the proxy *)
  up, down,     \* messages to the proxy, and from it
  proxy,        \* "raw", "handshake", "tls" or "closed"
  (* TCP and the server *)
  tcpUp, tcpDown,
  server,
  agreed,       \* the protocol it selected
  authenticated,
  got,          \* what it got from the client: types, and whether in TLS
  packets,      \* redirections it has sent, each with a token of its own
  presented     \* tokens it was shown, in turn

attemptVars == <<attempts, redirected, packet>>
slotVars    == <<pendingRedirect, hop>>
relayVars   == <<proxy, tcpUp, tcpDown>>
serverVars  == <<server, agreed, authenticated, got, packets, presented>>
vars == <<attemptVars, client, selected, key, round, slotVars, up, down, relayVars, serverVars>>

Over == {"idle", "closed"}
Awaiting == {"wait confirm", "tls ready", "credssp reply", "early auth", "capabilities",
             "auth response", "exchange reply", "connected"}

Init ==
  /\ attempts = 0 /\ client = "idle" /\ redirected = FALSE /\ packet = NoPacket
  /\ selected = NoProtocol /\ key = FALSE /\ round = 0
  /\ pendingRedirect = NoPacket /\ hop = FALSE
  /\ up = << >> /\ down = << >> /\ proxy = "closed" /\ tcpUp = << >> /\ tcpDown = << >>
  /\ server = "closed" /\ agreed = NoProtocol /\ authenticated = FALSE /\ got = << >>
  /\ packets = 0 /\ presented = << >>

-----------------------------------------------------------------------------
\* The client.

\* ws_write.send
Send(m) == up' = IF proxy = "closed" THEN up ELSE Append(up, m)

\* connect and connect_redirected up to the connection: a WebSocket to the proxy, which
\* opens a TCP connection; the connector is new.
Open(driver, p) ==
  /\ client \in Over /\ server = "closed" /\ proxy = "closed"
  /\ attempts < MaxAttempts /\ attempts' = attempts + 1
  /\ redirected' = driver /\ packet' = p
  /\ client' \in {"send request", "closed"}       \* or the WebSocket or the canvas fails
  /\ selected' = NoProtocol /\ key' = FALSE /\ round' = 0
  /\ up' = << >> /\ down' = << >> /\ tcpUp' = << >> /\ tcpDown' = << >>
  /\ IF client' = "closed" THEN UNCHANGED <<proxy, server>>
     ELSE proxy' = "raw" /\ server' = "negotiation"
  /\ agreed' = NoProtocol /\ authenticated' = FALSE /\ got' = << >>
  /\ UNCHANGED <<packets, presented>>

Connect == ~hop /\ Open(FALSE, NoPacket) /\ UNCHANGED slotVars

\* Mutant of ConnectRedirected: the redirection stays in its slot.
ConnectRedirectedKeeps ==
  /\ hop /\ pendingRedirect # NoPacket
  /\ Open(TRUE, pendingRedirect)
  /\ UNCHANGED slotVars

\* connect_redirected takes the redirection, whatever becomes of the connection.
ConnectRedirected ==
  /\ hop /\ pendingRedirect # NoPacket
  /\ Open(TRUE, pendingRedirect)
  /\ pendingRedirect' = NoPacket /\ hop' = FALSE

\* The connection request, with the redirection's routing token if there is one.
SendRequest ==
  /\ client = "send request"
  /\ Send([type |-> "request", token |-> packet])
  /\ client' = "wait confirm"
  /\ UNCHANGED <<attemptVars, selected, key, round, slotVars, down, relayVars, serverVars>>

\* The client reads the next message, which must be of this type.
Receive(state, type) ==
  /\ client = state /\ down # << >> /\ Head(down).type = type
  /\ down' = Tail(down)

\* Mutant of OnConfirm: without RDSTLS a redirected connection goes on as any other.
OnConfirmFallsBack ==
  /\ Receive("wait confirm", "confirm")
  /\ LET protocol == Head(down).protocol
     IN  IF protocol = NoProtocol
         THEN client' = "closed" /\ UNCHANGED <<up, selected, redirected>>
         ELSE /\ selected' = protocol /\ client' = "tls ready"
              /\ redirected' = (protocol = "RDSTLS")
              /\ Send([type |-> "tls_upgrade"])
  /\ UNCHANGED <<attempts, packet, key, round, slotVars, relayVars, serverVars>>

\* perform_tls_upgrade asks the proxy, unless negotiation has failed or a redirected server
\* did not select RDSTLS.
OnConfirm ==
  /\ Receive("wait confirm", "confirm")
  /\ LET protocol == Head(down).protocol
     IN  IF protocol = NoProtocol \/ (redirected /\ protocol # "RDSTLS")
         THEN client' = "closed" /\ UNCHANGED <<up, selected>>
         ELSE /\ selected' = protocol /\ client' = "tls ready"
              /\ Send([type |-> "tls_upgrade"])
  /\ UNCHANGED <<attemptVars, key, round, slotVars, relayVars, serverVars>>

\* The public key is taken from the certificate, which must be there; check_cert_pin of a
\* redirected connection only warns.
OnTlsReady ==
  /\ Receive("tls ready", "tls_ready")
  /\ key' = (~redirected /\ Head(down).cert)
  /\ client' = CASE redirected -> "capabilities"
                 [] ~redirected /\ ~Head(down).cert -> "closed"
                 [] ~redirected /\ Head(down).cert /\ selected \in Nla -> "credssp"
                 [] OTHER -> "exchange"
  /\ UNCHANGED <<attemptVars, selected, round, slotVars, up, relayVars, serverVars>>

OnTlsError ==
  /\ Receive("tls ready", "tls_error")
  /\ client' = "closed"
  /\ UNCHANGED <<attemptVars, selected, key, round, slotVars, up, relayVars, serverVars>>

\* perform_credssp: a round of the NTLM client; the last one carries the credentials.
\* Without a key CredSSP is skipped.
Credssp ==
  /\ client = "credssp"
  /\ IF ~key THEN client' = "exchange" /\ UNCHANGED <<up, round>>
     ELSE IF round < NtlmRounds
     THEN /\ Send([type |-> "ts request"])
          /\ round' = round + 1 /\ client' = "credssp reply"
     ELSE /\ Send([type |-> "ts credentials"])
          /\ round' = 0
          /\ client' = IF selected = "HYBRID_EX" THEN "early auth" ELSE "exchange"
  /\ UNCHANGED <<attemptVars, selected, key, slotVars, down, relayVars, serverVars>>

\* A TSRequest of the server: the next round, unless it reports an error or there were too
\* many.
OnTsRequest ==
  /\ Receive("credssp reply", "ts reply")
  /\ client' = IF Head(down).ok /\ round <= MaxRounds THEN "credssp" ELSE "closed"
  /\ UNCHANGED <<attemptVars, selected, key, round, slotVars, up, relayVars, serverVars>>

\* EarlyUserAuthResult
OnEarlyAuth ==
  /\ Receive("early auth", "early auth")
  /\ client' = IF Head(down).ok THEN "exchange" ELSE "closed"
  /\ UNCHANGED <<attemptVars, selected, key, round, slotVars, up, relayVars, serverVars>>

\* RDSTLS: parse_capabilities, build_auth_request with the redirection's credentials.
OnCapabilities ==
  /\ Receive("capabilities", "capabilities")
  /\ IF Head(down).ok
     THEN Send([type |-> "auth request", token |-> packet]) /\ client' = "auth response"
     ELSE client' = "closed" /\ UNCHANGED up
  /\ UNCHANGED <<attemptVars, selected, key, round, slotVars, relayVars, serverVars>>

\* parse_auth_response; the connector goes on as after CredSSP.
OnAuthResponse ==
  /\ Receive("auth response", "auth response")
  /\ client' = IF Head(down).ok THEN "exchange" ELSE "closed"
  /\ UNCHANGED <<attemptVars, selected, key, round, slotVars, up, relayVars, serverVars>>

\* The rest of the connector's states, a PDU each way at a time.
SendExchange ==
  /\ client = "exchange"
  /\ Send([type |-> "exchange"])
  /\ client' = "exchange reply"
  /\ UNCHANGED <<attemptVars, selected, key, round, slotVars, down, relayVars, serverVars>>

OnExchange ==
  /\ Receive("exchange reply", "exchange reply")
  /\ round' = round + 1
  /\ client' = IF round' = Exchanges THEN "connected" ELSE "exchange"
  /\ UNCHANGED <<attemptVars, selected, key, slotVars, up, relayVars, serverVars>>

\* Mutant of ReadFails: read_text_message waits on.
ReadFailsInPdus ==
  /\ client \in Awaiting \ {"tls ready"} /\ proxy = "closed" /\ down = << >>
  /\ client' = "closed"
  /\ UNCHANGED <<attemptVars, selected, key, round, slotVars, up, down, relayVars, serverVars>>

\* A read finds the WebSocket closed.
ReadFails ==
  /\ client \in Awaiting /\ proxy = "closed" /\ down = << >>
  /\ client' = "closed"
  /\ UNCHANGED <<attemptVars, selected, key, round, slotVars, up, down, relayVars, serverVars>>

\* run_session: the packet is kept for the page, which is told and calls connect_redirected.
OnRedirect ==
  /\ Receive("connected", "redirect")
  /\ pendingRedirect' = Head(down).token /\ hop' = TRUE
  /\ client' = "closed"
  /\ UNCHANGED <<attemptVars, selected, key, round, up, relayVars, serverVars>>

\* It ends otherwise: by the server's word, an error, or the user.
Leave ==
  /\ client = "connected"
  /\ client' = "closed"
  /\ UNCHANGED <<attemptVars, selected, key, round, slotVars, up, down, relayVars, serverVars>>

-----------------------------------------------------------------------------
\* The proxy.  When it is done the WebSocket and the TCP connection are closed, and what
\* it has not relayed to the client is lost.

Close == proxy' = "closed" /\ up' = << >> /\ tcpDown' = << >>

\* A binary message; the write may fail when the server has closed its end.
RelayUp ==
  /\ proxy \in {"raw", "tls"} /\ up # << >> /\ Head(up).type # "tls_upgrade"
  /\ \/ up' = Tail(up) /\ tcpUp' = Append(tcpUp, [tls |-> proxy = "tls", message |-> Head(up)])
        /\ UNCHANGED <<proxy, tcpDown>>
     \/ server = "closed" /\ Close /\ UNCHANGED tcpUp
  /\ UNCHANGED <<attemptVars, client, selected, key, round, slotVars, down, serverVars>>

RelayDown ==
  /\ proxy \in {"raw", "tls"} /\ tcpDown # << >>
  /\ tcpDown' = Tail(tcpDown)
  /\ down' = Append(down, Head(tcpDown))
  /\ UNCHANGED <<attemptVars, client, selected, key, round, slotVars, up, proxy, tcpUp, serverVars>>

\* The text message that asks for TLS; nothing is relayed until the handshake is over.
OnTlsUpgrade ==
  /\ proxy = "raw" /\ up # << >> /\ Head(up).type = "tls_upgrade"
  /\ up' = Tail(up)
  /\ proxy' = "handshake"
  /\ UNCHANGED <<attemptVars, client, selected, key, round, slotVars, down, tcpUp, tcpDown, serverVars>>

\* What a server does once there is TLS: an RDSTLS server speaks first.
Secured(protocol) ==
  CASE protocol = "RDSTLS" -> "rdstls" [] protocol \in Nla -> "credssp" [] protocol = "SSL" -> "exchange"

\* Mutant of TlsHandshake: the relay goes on in clear when the handshake has failed.
HandshakeIgnored ==
  /\ proxy = "handshake" /\ server = "handshake"
  /\ \E cert \in BOOLEAN :
       /\ proxy' \in {"tls", "raw"}
       /\ down' = Append(down, [type |-> "tls_ready", cert |-> cert])
       /\ server' = Secured(agreed)
       /\ tcpDown' = IF agreed = "RDSTLS" THEN <<[type |-> "capabilities", ok |-> TRUE]>> ELSE << >>
       /\ UNCHANGED up
  /\ UNCHANGED <<attemptVars, client, selected, key, round, slotVars, tcpUp,
                 agreed, authenticated, got, packets, presented>>

\* Its end.  The certificate may be missing.
TlsHandshake ==
  /\ proxy = "handshake"
  /\ \/ \E cert, ok \in BOOLEAN :
          /\ server = "handshake"
          /\ proxy' = "tls" /\ down' = Append(down, [type |-> "tls_ready", cert |-> cert])
          /\ server' = Secured(agreed)
          /\ tcpDown' = IF agreed = "RDSTLS" THEN <<[type |-> "capabilities", ok |-> ok]>> ELSE << >>
          /\ UNCHANGED up
     \/ /\ server \in {"handshake", "closed"}
        /\ Close /\ down' = Append(down, [type |-> "tls_error"])
        /\ server' = "closed"
  /\ UNCHANGED <<attemptVars, client, selected, key, round, slotVars, tcpUp,
                 agreed, authenticated, got, packets, presented>>

\* Mutant of RelayEnds: the end of the WebSocket goes unnoticed.
RelayEndsByServer ==
  /\ proxy \in {"raw", "tls"} /\ server = "closed" /\ tcpDown = << >>
  /\ Close
  /\ UNCHANGED <<attemptVars, client, selected, key, round, slotVars, down, tcpUp, serverVars>>

\* One side has nothing more to say.
RelayEnds ==
  /\ proxy \in {"raw", "tls"}
  /\ \/ client \in Over /\ up = << >>
     \/ server = "closed" /\ tcpDown = << >>
  /\ Close
  /\ UNCHANGED <<attemptVars, client, selected, key, round, slotVars, down, tcpUp, serverVars>>

\* The network fails.
ConnectionLost ==
  /\ proxy \in {"raw", "tls"}
  /\ Close
  /\ UNCHANGED <<attemptVars, client, selected, key, round, slotVars, down, tcpUp, serverVars>>

-----------------------------------------------------------------------------
\* The server.

Gets(state, type) ==
  /\ server = state /\ tcpUp # << >> /\ Head(tcpUp).message.type = type
  /\ tcpUp' = Tail(tcpUp)
  /\ got' = Append(got, [type |-> type, tls |-> Head(tcpUp).tls])

\* Once the proxy has closed the connection there is nobody to answer.
Says(m) == tcpDown' = IF proxy = "closed" THEN tcpDown ELSE Append(tcpDown, m)

\* A routing token leads to the session that waits for it, once; with any other the
\* connection is dropped.
ServerOnRequest ==
  /\ Gets("negotiation", "request")
  /\ LET token == Head(tcpUp).message.token
     IN  IF token = NoPacket
         THEN /\ \E p \in Protocols \cup {NoProtocol} :
                   /\ agreed' = p /\ Says([type |-> "confirm", protocol |-> p])
                   /\ server' = IF p = NoProtocol THEN "closed" ELSE "handshake"
              /\ UNCHANGED presented
         ELSE /\ presented' = Append(presented, token)
              /\ \/ /\ token = packets /\ token \notin ToSet(presented)
                    /\ \E p \in {"RDSTLS", "SSL", NoProtocol} :
                         /\ agreed' = p /\ Says([type |-> "confirm", protocol |-> p])
                         /\ server' = IF p = NoProtocol THEN "closed" ELSE "handshake"
                 \/ server' = "closed" /\ UNCHANGED <<agreed, tcpDown>>
  /\ UNCHANGED <<attemptVars, client, selected, key, round, slotVars, up, down, proxy,
                 authenticated, packets>>

ServerOnTsRequest ==
  /\ Gets("credssp", "ts request")
  /\ \E ok \in BOOLEAN :
       /\ Says([type |-> "ts reply", ok |-> ok])
       /\ server' = IF ok THEN "credssp" ELSE "closed"
  /\ UNCHANGED <<attemptVars, client, selected, key, round, slotVars, up, down, proxy,
                 agreed, authenticated, packets, presented>>

\* With HYBRID_EX the server says whether the user may log on; with HYBRID it just closes.
ServerOnCredentials ==
  /\ Gets("credssp", "ts credentials")
  /\ \E ok \in BOOLEAN :
       /\ authenticated' = ok
       /\ server' = IF ok THEN "exchange" ELSE "closed"
       /\ IF agreed = "HYBRID_EX" THEN Says([type |-> "early auth", ok |-> ok]) ELSE UNCHANGED tcpDown
  /\ UNCHANGED <<attemptVars, client, selected, key, round, slotVars, up, down, proxy,
                 agreed, packets, presented>>

ServerOnAuthRequest ==
  /\ Gets("rdstls", "auth request")
  /\ \E ok \in BOOLEAN :
       /\ ok => Head(tcpUp).message.token = Last(presented)
       /\ authenticated' = ok
       /\ Says([type |-> "auth response", ok |-> ok])
       /\ server' = IF ok THEN "exchange" ELSE "closed"
  /\ UNCHANGED <<attemptVars, client, selected, key, round, slotVars, up, down, proxy,
                 agreed, packets, presented>>

ServerOnExchange ==
  /\ Gets("exchange", "exchange")
  /\ Says([type |-> "exchange reply"])
  /\ server' = IF Len(SelectSeq(got', LAMBDA m : m.type = "exchange")) = Exchanges
               THEN "active" ELSE "exchange"
  /\ UNCHANGED <<attemptVars, client, selected, key, round, slotVars, up, down, proxy,
                 agreed, authenticated, packets, presented>>

\* Server Redirection: the client is to connect again with a token that is good once.
ServerRedirects ==
  /\ server = "active" /\ packets < MaxAttempts
  /\ packets' = packets + 1
  /\ Says([type |-> "redirect", token |-> packets'])
  /\ server' = "redirecting"
  /\ UNCHANGED <<attemptVars, client, selected, key, round, slotVars, up, down, proxy, tcpUp,
                 agreed, authenticated, got, presented>>

\* It gives up, whatever it is doing.
ServerCloses ==
  /\ server # "closed"
  /\ server' = "closed"
  /\ UNCHANGED <<attemptVars, client, selected, key, round, slotVars, up, down, relayVars,
                 agreed, authenticated, got, packets, presented>>

\* It finds the connection closed.
ServerOnEof ==
  /\ server # "closed" /\ proxy = "closed" /\ tcpUp = << >>
  /\ server' = "closed"
  /\ UNCHANGED <<attemptVars, client, selected, key, round, slotVars, up, down, relayVars,
                 agreed, authenticated, got, packets, presented>>

-----------------------------------------------------------------------------
ClientReads ==
  \/ OnConfirm \/ OnTlsReady \/ OnTlsError \/ OnTsRequest \/ OnEarlyAuth
  \/ OnCapabilities \/ OnAuthResponse \/ OnExchange \/ OnRedirect \/ ReadFails

ClientSends == SendRequest \/ Credssp \/ SendExchange

ServerHandles ==
  \/ ServerOnRequest \/ ServerOnTsRequest \/ ServerOnCredentials \/ ServerOnAuthRequest
  \/ ServerOnExchange \/ ServerOnEof

Next ==
  \/ Connect \/ ConnectRedirected \/ ClientSends \/ ClientReads \/ Leave
  \/ RelayUp \/ RelayDown \/ OnTlsUpgrade \/ TlsHandshake \/ RelayEnds \/ ConnectionLost
  \/ ServerHandles \/ ServerRedirects \/ ServerCloses

Spec == Init /\ [][Next]_vars

\* The tasks of the client and of the proxy run when they can, and the page calls
\* connect_redirected.  The server answers what it gets, or closes: nothing in the client
\* or in the proxy gives up on one that does neither.
Fairness ==
  /\ WF_vars(ConnectRedirected) /\ WF_vars(ClientSends) /\ WF_vars(ClientReads)
  /\ WF_vars(RelayUp) /\ WF_vars(RelayDown) /\ WF_vars(OnTlsUpgrade) /\ WF_vars(RelayEnds)
  /\ WF_vars(TlsHandshake)
ServerAnswers == WF_vars(ServerHandles)

FairSpec == Spec /\ Fairness /\ ServerAnswers
StallingSpec == Spec /\ Fairness

-----------------------------------------------------------------------------
ClientStates ==
  Over \cup Awaiting \cup {"send request", "credssp", "exchange"}
ServerStates ==
  {"closed", "negotiation", "handshake", "credssp", "rdstls", "exchange", "active", "redirecting"}

TypeOK ==
  /\ attempts \in 0..MaxAttempts /\ packets \in 0..MaxAttempts
  /\ client \in ClientStates /\ server \in ServerStates
  /\ proxy \in {"raw", "handshake", "tls", "closed"}
  /\ {redirected, key, hop, authenticated} \subseteq BOOLEAN
  /\ {selected, agreed} \subseteq Protocols \cup {"RDSTLS", "SSL", NoProtocol}
  /\ packet \in 0..packets /\ pendingRedirect \in 0..packets
  /\ round \in 0..NtlmRounds \/ round \in 0..Exchanges
  /\ \A k \in DOMAIN presented : presented[k] \in 1..packets

\* A session is there only when both sides took the same protocol, and when, unless it is
\* plain TLS, the server has accepted the credentials: NLA is not skipped, not even
\* without a certificate, and a redirected session is that of its packet.
ConnectedIsAuthenticated ==
  client = "connected" =>
    /\ selected = agreed
    /\ authenticated \/ selected = "SSL"
    /\ packet # NoPacket => selected = "RDSTLS" /\ Last(presented) = packet

\* The server gets the connection request in clear and everything after it in TLS, though
\* it is the proxy that has the TLS connection and the client that asks for it.
OnlyRequestInClear == \A k \in DOMAIN got : got[k].tls = (got[k].type # "request")

\* A redirection is followed once, and never after a later one: whatever fails on the way,
\* no token is shown to the server again.
TokensGoodOnce ==
  \A i, j \in DOMAIN presented : i < j => presented[i] < presented[j]

\* A connection is made at last, or the attempt is over: nobody waits for another who waits.
Answered == client \notin Over \cup {"connected"} ~> client \in Over \cup {"connected"}

\* Who leaves takes the connection to the server along.
ServerFreed == client \in Over ~> server = "closed"

=============================================================================
