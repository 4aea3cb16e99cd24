----------------------- MODULE ConnectSequenceProofs -----------------------
(***************************************************************************)
(* Proofs about ConnectSequence: whatever the server selects, answers or   *)
(* leaves out, wherever a connection breaks and however often the server   *)
(* redirects, a redirection is followed once (TokensGoodOnce), nothing but *)
(* the connection request goes in clear (OnlyRequestInClear), and there is *)
(* no session that the server did not accept (ConnectedIsAuthenticated).   *)
(*                                                                         *)
(* The invariant has one part for each, over the messages that are still   *)
(* on their way: a queue is in Seq(S) when all of them are in S.           *)
(***************************************************************************)
EXTENDS ConnectSequence, SequenceTheorems, TLAPS

-----------------------------------------------------------------------------
\* The messages.
Answers == Protocols \cup {"SSL", "RDSTLS", NoProtocol}

UpMessages ==
  [type : {"request", "auth request"}, token : Nat]
  \cup [type : {"tls_upgrade", "ts request", "ts credentials", "exchange"}]
DownMessages ==
  [type : {"confirm"}, protocol : Answers]
  \cup [type : {"tls_ready"}, cert : BOOLEAN]
  \cup [type : {"tls_error", "exchange reply"}]
  \cup [type : {"ts reply", "early auth", "capabilities", "auth response"}, ok : BOOLEAN]
  \cup [type : {"redirect"}, token : Nat]
TcpMessages == [tls : BOOLEAN, message : UpMessages]
UpTypes == {"request", "auth request", "tls_upgrade", "ts request", "ts credentials", "exchange"}
GotMessages == [type : UpTypes, tls : BOOLEAN]

Queues ==
  /\ up \in Seq(UpMessages) /\ tcpUp \in Seq(TcpMessages)
  /\ down \in Seq(DownMessages) /\ tcpDown \in Seq(DownMessages)
  /\ got \in Seq(GotMessages)

ClientScalars ==
  /\ client \in ClientStates /\ selected \in Answers
  /\ redirected \in BOOLEAN /\ key \in BOOLEAN /\ hop \in BOOLEAN

LinkScalars ==
  /\ proxy \in {"raw", "handshake", "tls", "closed"} /\ server \in ServerStates
  /\ agreed \in Answers /\ authenticated \in BOOLEAN
  /\ server = "handshake" => agreed # NoProtocol

Counts ==
  /\ attempts \in 0..MaxAttempts /\ packets \in 0..MaxAttempts
  /\ packet \in Nat /\ pendingRedirect \in Nat /\ round \in Nat
  /\ presented \in Seq(Nat)

Shapes == Queues /\ ClientScalars /\ LinkScalars /\ Counts

\* The rounds of CredSSP, and the exchanges after it, are counted from 0.
Rounds ==
  /\ client \in {"send request", "wait confirm", "tls ready", "early auth", "capabilities",
                 "auth response"} => round = 0
  /\ client \in {"credssp", "credssp reply"} => round <= NtlmRounds /\ key = TRUE
  /\ client \in {"exchange", "exchange reply"} => round < Exchanges
  /\ round <= NtlmRounds \/ round <= Exchanges

-----------------------------------------------------------------------------
\* Tokens.  A token is unused when it was issued after all that were shown; n were issued.
Unused(t, n, shown) == t <= n /\ \A k \in DOMAIN shown : shown[k] < t
Usable(t, n, shown) == t = NoPacket \/ Unused(t, n, shown)

\* Redirections on their way, and requests that may still be read, have unused tokens.
Redirecting(n, shown) ==
  {m \in DownMessages : m.type = "redirect" => m.token # NoPacket /\ Unused(m.token, n, shown)}
Ordinary == {m \in DownMessages : m.type # "redirect"}
Requesting(n, shown) == {m \in UpMessages : m.type = "request" => Usable(m.token, n, shown)}
Wired(messages) == [tls : BOOLEAN, message : messages]

Increasing(shown) == \A i, j \in DOMAIN shown : i < j => shown[i] < shown[j]
Issued(shown, n)  == \A k \in DOMAIN shown : shown[k] \in 1..n

Tokens ==
  /\ Issued(presented, packets) /\ Increasing(presented)
  /\ hop = (pendingRedirect # NoPacket)
  /\ Usable(pendingRedirect, packets, presented) /\ packet <= packets
  /\ down \in Seq(Redirecting(packets, presented)) /\ tcpDown \in Seq(Redirecting(packets, presented))
  /\ server = "negotiation" =>
       /\ pendingRedirect = NoPacket
       /\ down \in Seq(Ordinary) /\ tcpDown \in Seq(Ordinary)
       /\ client = "send request" => Usable(packet, packets, presented)
       /\ up \in Seq(Requesting(packets, presented))
       /\ tcpUp \in Seq(Wired(Requesting(packets, presented)))

-----------------------------------------------------------------------------
\* TLS.  Until the proxy is asked for it, and has it, the client sends nothing else.
Unready == {m \in DownMessages : m.type # "tls_ready"}
Later   == {m \in UpMessages : m.type # "request"}
Opening == {m \in UpMessages : m.type \in {"request", "tls_upgrade"}}
WiredRight == {w \in TcpMessages : w.tls = (w.message.type # "request")}
GotRight   == {g \in GotMessages : g.tls = (g.type # "request")}

InClear ==
  /\ got \in Seq(GotRight) /\ tcpUp \in Seq(WiredRight) /\ tcpDown \in Seq(Unready)
  /\ up # << >> => Tail(up) \in Seq(Later)
  /\ client = "send request" => up = << >> /\ proxy \in {"raw", "closed"}
  /\ proxy \in {"raw", "handshake"} =>
       /\ client \in Over \cup {"send request", "wait confirm", "tls ready"}
       /\ down \in Seq(Unready)
       /\ up \in Seq(Opening)
  /\ proxy \in {"handshake", "tls"} => up \in Seq(Later)

-----------------------------------------------------------------------------
\* Authentication.  What the server has said holds of what it has done.
Begun == {"tls ready", "credssp", "credssp reply", "early auth", "capabilities", "auth response",
          "exchange", "exchange reply", "connected"}
Accepted(ok, protocol) == ok \/ protocol = "SSL"
Routed(p, shown) == p # NoPacket => shown # << >> /\ Last(shown) = p

\* A confirm tells the protocol, and comes from the session that the packet leads to.
Confirms(protocol, routed) ==
  {m \in DownMessages : m.type = "confirm" => m.protocol = protocol /\ routed}
NoConfirm == {m \in DownMessages : m.type # "confirm"}
NoReply   == {m \in DownMessages : m.type # "exchange reply"}
Own(p)    == {m \in UpMessages : m.type = "request" => m.token = p}

Agreed ==
  /\ redirected = (packet # NoPacket)
  /\ down \in Seq(Confirms(agreed, Routed(packet, presented)))
  /\ tcpDown \in Seq(Confirms(agreed, Routed(packet, presented)))
  /\ client \in Begun =>
       selected = agreed /\ Routed(packet, presented) /\ (redirected => selected = "RDSTLS")
  /\ server = "negotiation" =>
       /\ client \notin Begun
       /\ down \in Seq(NoConfirm) /\ tcpDown \in Seq(NoConfirm)
       /\ up \in Seq(Own(packet)) /\ tcpUp \in Seq(Wired(Own(packet)))

\* Until the credentials are accepted there is no reply of the exchange.
Granted ==
  Accepted(authenticated, agreed)
  \/ /\ client # "connected" /\ server \notin {"exchange", "active", "redirecting"}
     /\ down \in Seq(NoReply) /\ tcpDown \in Seq(NoReply)
\* Before they are, there is none even when they will be.
Ungranted ==
  server \in {"negotiation", "handshake", "credssp", "rdstls"} =>
    /\ client # "connected"
    /\ down \in Seq(NoReply) /\ tcpDown \in Seq(NoReply)

Authentic == Agreed /\ Granted /\ Ungranted

-----------------------------------------------------------------------------
\* The messages that are sent, by name.
Request(t)      == [type |-> "request", token |-> t]
AuthRequest(t)  == [type |-> "auth request", token |-> t]
Upgrade         == [type |-> "tls_upgrade"]
TsRequest       == [type |-> "ts request"]
TsCredentials   == [type |-> "ts credentials"]
Exchange        == [type |-> "exchange"]
Confirm(p)      == [type |-> "confirm", protocol |-> p]
TlsReady(c)     == [type |-> "tls_ready", cert |-> c]
TlsError        == [type |-> "tls_error"]
TsReply(ok)     == [type |-> "ts reply", ok |-> ok]
EarlyAuth(ok)   == [type |-> "early auth", ok |-> ok]
Capabilities(ok) == [type |-> "capabilities", ok |-> ok]
AuthResponse(ok) == [type |-> "auth response", ok |-> ok]
ExchangeReply   == [type |-> "exchange reply"]
Redirect(t)     == [type |-> "redirect", token |-> t]

\* Messages that no part of the invariant but Queues says anything of.
Plain ==
  {m \in DownMessages : m.type \in {"tls_error", "ts reply", "early auth", "capabilities", "auth response"}}
Sayable == {m \in UpMessages : m.type \in {"auth request", "ts request", "ts credentials", "exchange"}}

LEMMA UpLiterals ==
  /\ \A t \in Nat : Request(t) \in UpMessages /\ Request(t).type \in {"request"} /\ Request(t).token = t
  /\ \A t \in Nat : AuthRequest(t) \in Sayable
  /\ Upgrade \in UpMessages /\ Upgrade.type \in {"tls_upgrade"}
  /\ TsRequest \in Sayable /\ TsCredentials \in Sayable /\ Exchange \in Sayable
  BY DEF UpMessages, Sayable, Request, AuthRequest, Upgrade, TsRequest, TsCredentials, Exchange

LEMMA DownLiterals ==
  /\ \A p \in Answers : Confirm(p) \in DownMessages /\ Confirm(p).type \in {"confirm"} /\ Confirm(p).protocol = p
  /\ \A c \in BOOLEAN : TlsReady(c) \in DownMessages /\ TlsReady(c).type \in {"tls_ready"}
  /\ TlsError \in Plain
  /\ \A ok \in BOOLEAN : TsReply(ok) \in Plain /\ EarlyAuth(ok) \in Plain
  /\ \A ok \in BOOLEAN : Capabilities(ok) \in Plain /\ AuthResponse(ok) \in Plain
  /\ ExchangeReply \in DownMessages /\ ExchangeReply.type \in {"exchange reply"}
  /\ \A t \in Nat : Redirect(t) \in DownMessages /\ Redirect(t).type \in {"redirect"} /\ Redirect(t).token = t
  BY DEF DownMessages, Plain, Confirm, TlsReady, TlsError, TsReply, EarlyAuth, Capabilities,
         AuthResponse,
         ExchangeReply, Redirect

LEMMA Fields ==
  /\ \A m \in UpMessages : m.type \in UpTypes
  /\ \A m \in UpMessages : m.type \in {"request"} => m.token \in Nat
  /\ \A m \in DownMessages : m.type \in {"confirm"} => m.protocol \in Answers
  /\ \A m \in DownMessages : m.type \in {"tls_ready"} => m.cert \in BOOLEAN
  /\ \A m \in DownMessages : m.type \in {"redirect"} => m.token \in Nat
  <1>1. \A m \in UpMessages : m.type \in UpTypes
    BY DEF UpMessages, UpTypes
  <1>2. \A m \in UpMessages : m.type \in {"request"} => m.token \in Nat
    BY DEF UpMessages
  <1>3. \A m \in DownMessages : m.type \in {"confirm"} => m.protocol \in Answers
    BY DEF DownMessages
  <1>4. \A m \in DownMessages : m.type \in {"tls_ready"} => m.cert \in BOOLEAN
    BY DEF DownMessages
  <1>5. \A m \in DownMessages : m.type \in {"redirect"} => m.token \in Nat
    BY DEF DownMessages
  <1> QED BY <1>1, <1>2, <1>3, <1>4, <1>5

LEMMA WireFields ==
  /\ \A w \in TcpMessages : w.tls \in BOOLEAN /\ w.message \in UpMessages
  /\ \A b \in BOOLEAN, m \in UpMessages : [tls |-> b, message |-> m] \in TcpMessages
  /\ \A b \in BOOLEAN, s \in UpTypes : [type |-> s, tls |-> b] \in GotMessages
  BY DEF TcpMessages, GotMessages

-----------------------------------------------------------------------------
\* What each action does, without the order it says it in.
KeepAttempt == UNCHANGED <<attempts, redirected, packet>>
KeepSlot    == UNCHANGED <<pendingRedirect, hop>>
KeepRelay   == UNCHANGED <<proxy, tcpUp, tcpDown>>
KeepServer  == UNCHANGED <<server, agreed, authenticated, got, packets, presented>>
KeepClient  == UNCHANGED <<client, selected, key, round>> /\ KeepAttempt /\ KeepSlot

Sent(m)  == up' = up \/ up' = Append(up, m)
Takes(t)  == down # << >> /\ Head(down).type \in {t} /\ down' = Tail(down)
Tells(m)  == tcpDown' = tcpDown \/ tcpDown' = Append(tcpDown, m)
Reads(t)  ==
  /\ tcpUp # << >> /\ Head(tcpUp).message.type \in {t} /\ tcpUp' = Tail(tcpUp)
  /\ got' = Append(got, [type |-> t, tls |-> Head(tcpUp).tls])
Closes    == proxy' \in {"closed"} /\ up' = << >> /\ tcpDown' = << >>

\* A new attempt, of a connection of the page's or of one that the server wanted.
Opens ==
  /\ attempts < MaxAttempts /\ attempts' = attempts + 1
  /\ client' \in {"send request", "closed"} /\ proxy' \in {"raw", "closed"}
  /\ client' \in {"closed"} => proxy' = proxy /\ server' = server
  /\ server' \in {"negotiation", "closed"}
  /\ selected' = NoProtocol /\ key' \in {FALSE} /\ round' = 0
  /\ up' = << >> /\ down' = << >> /\ tcpUp' = << >> /\ tcpDown' = << >> /\ got' = << >>
  /\ agreed' = NoProtocol /\ authenticated' \in {FALSE}
  /\ UNCHANGED <<packets, presented>>
OpensAnew     == Opens /\ ~hop /\ redirected' \in {FALSE} /\ packet' = NoPacket /\ KeepSlot
OpensRedirect ==
  /\ Opens /\ pendingRedirect # NoPacket
  /\ redirected' \in {TRUE} /\ packet' = pendingRedirect
  /\ pendingRedirect' = NoPacket /\ hop' \in {FALSE}

LEMMA ConnectDoes == ASSUME Connect PROVE OpensAnew
<1>1. Opens
  BY DEF Connect, Open, Opens
<1> QED BY <1>1 DEF Connect, Open, OpensAnew, KeepSlot, slotVars

LEMMA ConnectRedirectedDoes == ASSUME ConnectRedirected PROVE OpensRedirect
<1>1. Opens
  BY DEF ConnectRedirected, Open, Opens
<1> QED BY <1>1 DEF ConnectRedirected, Open, OpensRedirect

\* The client sends.
Asks ==
  /\ client \in {"send request"} /\ client' \in {"wait confirm"}
  /\ Sent(Request(packet)) /\ UNCHANGED <<selected, key, round, down>>
Rounding ==
  /\ client \in {"credssp"} /\ UNCHANGED <<selected, key, down>>
  /\ \/ client' \in {"credssp reply"} /\ Sent(TsRequest) /\ round < NtlmRounds /\ round' = round + 1
     \/ client' \in {"early auth", "exchange"} /\ Sent(TsCredentials) /\ round' = 0
     \/ client' \in {"exchange"} /\ ~key /\ UNCHANGED <<up, round>>
Exchanging ==
  /\ client \in {"exchange"} /\ client' \in {"exchange reply"}
  /\ Sent(Exchange) /\ UNCHANGED <<selected, key, round, down>>

LEMMA SendRequestDoes ==
  ASSUME SendRequest
  PROVE  Asks /\ KeepAttempt /\ KeepSlot /\ KeepRelay /\ KeepServer
BY DEF SendRequest, Send, Asks, Sent, Request, KeepAttempt, KeepSlot, KeepRelay, KeepServer,
       attemptVars, slotVars, relayVars, serverVars

LEMMA CredsspDoes ==
  ASSUME Credssp
  PROVE  Rounding /\ KeepAttempt /\ KeepSlot /\ KeepRelay /\ KeepServer
BY DEF Credssp, Send, Rounding, Sent, TsRequest, TsCredentials, KeepAttempt, KeepSlot, KeepRelay,
       KeepServer,
       attemptVars, slotVars, relayVars, serverVars

LEMMA SendExchangeDoes ==
  ASSUME SendExchange
  PROVE  Exchanging /\ KeepAttempt /\ KeepSlot /\ KeepRelay /\ KeepServer
BY DEF SendExchange, Send, Exchanging, Sent, Exchange, KeepAttempt, KeepSlot, KeepRelay, KeepServer,
       attemptVars, slotVars, relayVars, serverVars

\* The client reads; what it leaves alone.
KeepOthers == KeepAttempt /\ KeepRelay /\ KeepServer

Confirming ==
  /\ client \in {"wait confirm"} /\ Takes("confirm") /\ UNCHANGED <<key, round>>
  /\ \/ client' \in {"closed"} /\ UNCHANGED <<up, selected>>
     \/ /\ Head(down).protocol # NoProtocol /\ selected' = Head(down).protocol
        /\ redirected => Head(down).protocol \in {"RDSTLS"}
        /\ client' \in {"tls ready"} /\ Sent(Upgrade)
Securing ==
  /\ client \in {"tls ready"} /\ Takes("tls_ready") /\ UNCHANGED <<selected, up, round>>
  /\ key' = (~redirected /\ Head(down).cert)
  /\ \/ client' \in {"capabilities", "closed", "exchange"}
     \/ client' \in {"credssp"} /\ ~redirected /\ Head(down).cert
Reading ==
  /\ \/ client \in {"credssp reply"} /\ Takes("ts reply") /\ client' \in {"credssp", "closed"}
     \/ client \in {"early auth"} /\ Takes("early auth") /\ client' \in {"exchange", "closed"}
     \/ client \in {"auth response"} /\ Takes("auth response") /\ client' \in {"exchange", "closed"}
  /\ UNCHANGED <<up, selected, key, round>>
Authenticating ==
  /\ client \in {"capabilities"} /\ Takes("capabilities") /\ UNCHANGED <<selected, key, round>>
  /\ \/ client' \in {"auth response"} /\ Sent(AuthRequest(packet))
     \/ client' \in {"closed"} /\ UNCHANGED up
Replied ==
  /\ client \in {"exchange reply"} /\ Takes("exchange reply") /\ UNCHANGED <<up, selected, key>>
  /\ round' = round + 1
  /\ \/ client' \in {"connected"}
     \/ client' \in {"exchange"} /\ round' # Exchanges
Leaving ==
  /\ down' = down \/ (down # << >> /\ down' = Tail(down))
  /\ client' \in {"closed"} /\ UNCHANGED <<up, selected, key, round>>
Redirected ==
  /\ client \in {"connected"} /\ Takes("redirect")
  /\ pendingRedirect' = Head(down).token /\ hop' \in {TRUE}
  /\ client' \in {"closed"} /\ UNCHANGED <<up, selected, key, round>>

LEMMA OnConfirmDoes == ASSUME OnConfirm PROVE Confirming /\ KeepSlot /\ KeepOthers
<1>1. Confirming
  BY DEF OnConfirm, Receive, Send, Confirming, Takes, Sent, Upgrade
<1> QED BY <1>1 DEF OnConfirm, KeepSlot, KeepOthers, KeepAttempt, KeepRelay, KeepServer,
                    attemptVars, slotVars, relayVars, serverVars

LEMMA OnTlsReadyDoes == ASSUME OnTlsReady PROVE Securing /\ KeepSlot /\ KeepOthers
<1>1. Securing
  BY DEF OnTlsReady, Receive, Securing, Takes
<1> QED BY <1>1 DEF OnTlsReady, KeepSlot, KeepOthers, KeepAttempt, KeepRelay, KeepServer,
                    attemptVars, slotVars, relayVars, serverVars

LEMMA ReadingDoes ==
  ASSUME OnTsRequest \/ OnEarlyAuth \/ OnAuthResponse
  PROVE  Reading /\ KeepSlot /\ KeepOthers
<1>1. Reading
  BY DEF OnTsRequest, OnEarlyAuth, OnAuthResponse, Receive, Reading, Takes
<1> QED BY <1>1 DEF OnTsRequest, OnEarlyAuth, OnAuthResponse, KeepSlot, KeepOthers, KeepAttempt,
               KeepRelay, KeepServer,
                    attemptVars, slotVars, relayVars, serverVars

LEMMA OnCapabilitiesDoes == ASSUME OnCapabilities PROVE Authenticating /\ KeepSlot /\ KeepOthers
<1>1. Authenticating
  BY DEF OnCapabilities, Receive, Send, Authenticating, Takes, Sent, AuthRequest
<1> QED BY <1>1 DEF OnCapabilities, KeepSlot, KeepOthers, KeepAttempt, KeepRelay, KeepServer,
                    attemptVars, slotVars, relayVars, serverVars

LEMMA OnExchangeDoes == ASSUME OnExchange PROVE Replied /\ KeepSlot /\ KeepOthers
<1>1. Replied
  BY DEF OnExchange, Receive, Replied, Takes
<1> QED BY <1>1 DEF OnExchange, KeepSlot, KeepOthers, KeepAttempt, KeepRelay, KeepServer,
                    attemptVars, slotVars, relayVars, serverVars

LEMMA LeavingDoes == ASSUME OnTlsError \/ ReadFails \/ Leave PROVE Leaving /\ KeepSlot /\ KeepOthers
<1>1. Leaving
  BY DEF OnTlsError, ReadFails, Leave, Receive, Leaving
<1> QED BY <1>1 DEF OnTlsError, ReadFails, Leave, KeepSlot, KeepOthers, KeepAttempt, KeepRelay,
               KeepServer,
                    attemptVars, slotVars, relayVars, serverVars

LEMMA OnRedirectDoes == ASSUME OnRedirect PROVE Redirected /\ KeepOthers
<1>1. Redirected
  BY DEF OnRedirect, Receive, Redirected, Takes
<1> QED BY <1>1 DEF OnRedirect, KeepOthers, KeepAttempt, KeepRelay, KeepServer,
                    attemptVars, relayVars, serverVars

\* The proxy.
Relaying ==
  /\ proxy \in {"raw", "tls"} /\ up # << >> /\ UNCHANGED <<down, proxy, tcpDown>>
  /\ Head(up).type \notin {"tls_upgrade"} /\ up' = Tail(up)
  /\ tcpUp' = Append(tcpUp, [tls |-> proxy \in {"tls"}, message |-> Head(up)])
Returning ==
  /\ tcpDown # << >> /\ tcpDown' = Tail(tcpDown)
  /\ down' = Append(down, Head(tcpDown)) /\ UNCHANGED <<up, proxy, tcpUp>>
Upgrading ==
  /\ proxy \in {"raw"} /\ proxy' \in {"handshake"}
  /\ up # << >> /\ Head(up).type \in {"tls_upgrade"} /\ up' = Tail(up) /\ UNCHANGED <<down, tcpUp, tcpDown>>
Secures ==
  /\ server \in {"handshake"} /\ server' = Secured(agreed)
  /\ proxy \in {"handshake"} /\ proxy' \in {"tls"} /\ UNCHANGED <<up, tcpUp>>
  /\ \E c \in BOOLEAN : down' = Append(down, TlsReady(c))
  /\ tcpDown' = << >> \/ \E ok \in BOOLEAN : tcpDown' = <<Capabilities(ok)>>
Unsecured ==
  /\ Closes /\ down' = Append(down, TlsError) /\ UNCHANGED tcpUp /\ server' \in {"closed"}
Closing == Closes /\ UNCHANGED <<down, tcpUp>>

KeepServerState == UNCHANGED <<agreed, authenticated, got, packets, presented>>

LEMMA RelayUpDoes == ASSUME RelayUp PROVE (Relaying \/ Closing) /\ KeepClient /\ KeepServer
<1>1. Relaying \/ Closing
  BY DEF RelayUp, Close, Relaying, Closes, Closing
<1> QED BY <1>1 DEF RelayUp, KeepClient, KeepSlot, KeepAttempt, KeepServer, attemptVars, slotVars,
               serverVars

LEMMA RelayDownDoes == ASSUME RelayDown PROVE Returning /\ KeepClient /\ KeepServer
<1>1. Returning
  BY DEF RelayDown, Returning
<1> QED BY <1>1 DEF RelayDown, KeepClient, KeepSlot, KeepAttempt, KeepServer, attemptVars, slotVars,
               serverVars

LEMMA OnTlsUpgradeDoes == ASSUME OnTlsUpgrade PROVE Upgrading /\ KeepClient /\ KeepServer
<1>1. Upgrading
  BY DEF OnTlsUpgrade, Upgrading
<1> QED BY <1>1 DEF OnTlsUpgrade, KeepClient, KeepSlot, KeepAttempt, KeepServer, attemptVars,
               slotVars, serverVars

LEMMA TlsHandshakeDoes ==
  ASSUME TlsHandshake PROVE (Secures \/ Unsecured) /\ KeepClient /\ KeepServerState
<1>1. Secures \/ Unsecured
  BY DEF TlsHandshake, Close, Closes, Secures, Unsecured, TlsReady, TlsError, Capabilities
<1> QED BY <1>1 DEF TlsHandshake, KeepClient, KeepSlot, KeepAttempt, KeepServerState, attemptVars,
               slotVars

LEMMA ClosingDoes == ASSUME RelayEnds \/ ConnectionLost PROVE Closing /\ KeepClient /\ KeepServer
<1>1. Closing
  BY DEF RelayEnds, ConnectionLost, Close, Closes, Closing
<1> QED BY <1>1 DEF RelayEnds, ConnectionLost, KeepClient, KeepSlot, KeepAttempt, KeepServer,
                    attemptVars, slotVars, serverVars

\* The server.
KeepLink == UNCHANGED <<up, down, proxy>>

Admits(token) ==
  \/ \E p \in Answers : /\ agreed' = p /\ Tells(Confirm(p))
                        /\ \/ server' \in {"closed"}
                           \/ server' \in {"handshake"} /\ p # NoProtocol
  \/ server' \in {"closed"} /\ UNCHANGED <<agreed, tcpDown>>
Routes ==
  /\ server \in {"negotiation"} /\ Reads("request") /\ Admits(Head(tcpUp).message.token)
  /\ \/ Head(tcpUp).message.token = NoPacket /\ UNCHANGED presented
     \/ Head(tcpUp).message.token # NoPacket /\ presented' = Append(presented, Head(tcpUp).message.token)
  /\ UNCHANGED <<authenticated, packets>>
Judges ==
  \/ /\ server \in {"credssp"} /\ Reads("ts request") /\ server' \in {"credssp", "closed"}
     /\ (\E ok \in BOOLEAN : Tells(TsReply(ok))) /\ UNCHANGED <<authenticated, agreed, packets, presented>>
  \/ /\ server \in {"credssp"} /\ Reads("ts credentials")
     /\ tcpDown' = tcpDown \/ \E ok \in BOOLEAN : Tells(EarlyAuth(ok))
     /\ \/ authenticated' \in {TRUE} /\ server' \in {"exchange"}
        \/ authenticated' \in {FALSE} /\ server' \in {"closed"}
     /\ UNCHANGED <<agreed, packets, presented>>
  \/ /\ server \in {"rdstls"} /\ Reads("auth request")
     /\ \E ok \in BOOLEAN : Tells(AuthResponse(ok))
     /\ \/ authenticated' \in {TRUE} /\ server' \in {"exchange"}
        \/ authenticated' \in {FALSE} /\ server' \in {"closed"}
     /\ UNCHANGED <<agreed, packets, presented>>
Replies ==
  /\ server \in {"exchange"} /\ Reads("exchange") /\ Tells(ExchangeReply)
  /\ server' \in {"active", "exchange"}
  /\ UNCHANGED <<agreed, authenticated, packets, presented>>
Sends ==
  /\ server \in {"active"} /\ server' \in {"redirecting"}
  /\ packets < MaxAttempts /\ packets' = packets + 1 /\ Tells(Redirect(packets'))
  /\ UNCHANGED <<tcpUp, got, agreed, authenticated, presented>>
Goes ==
  server' \in {"closed"} /\ UNCHANGED <<tcpUp, tcpDown, got, agreed, authenticated, packets, presented>>

LEMMA ServerOnRequestDoes ==
  ASSUME ConnectAssumption, ServerOnRequest PROVE Routes /\ KeepClient /\ KeepLink
<1>1. server \in {"negotiation"} /\ Reads("request")
  BY DEF ServerOnRequest, Gets, Reads
<1>2. /\ \/ Head(tcpUp).message.token = NoPacket /\ UNCHANGED presented
         \/ Head(tcpUp).message.token # NoPacket /\ presented' = Append(presented, Head(tcpUp).message.token)
      /\ UNCHANGED <<authenticated, packets>>
  BY DEF ServerOnRequest
<1>3. Admits(Head(tcpUp).message.token)
  BY DEF ServerOnRequest, Says, Admits, Tells, Confirm, Answers
<1>4. KeepClient /\ KeepLink
  BY DEF ServerOnRequest, KeepClient, KeepSlot, KeepAttempt, KeepLink, attemptVars, slotVars
<1> QED BY <1>1, <1>2, <1>3, <1>4 DEF Routes

LEMMA JudgesDoes ==
  ASSUME ServerOnTsRequest \/ ServerOnCredentials \/ ServerOnAuthRequest
  PROVE  Judges /\ KeepClient /\ KeepLink
<1>1. CASE ServerOnTsRequest
  BY <1>1 DEF ServerOnTsRequest, Gets, Reads, Says, Tells, TsReply, Judges,
              KeepClient, KeepSlot, KeepAttempt, KeepLink, attemptVars, slotVars
<1>2. CASE ServerOnCredentials
  BY <1>2 DEF ServerOnCredentials, Gets, Reads, Says, Tells, EarlyAuth, Judges,
              KeepClient, KeepSlot, KeepAttempt, KeepLink, attemptVars, slotVars
<1>3. CASE ServerOnAuthRequest
  BY <1>3 DEF ServerOnAuthRequest, Gets, Reads, Says, Tells, AuthResponse, Judges,
              KeepClient, KeepSlot, KeepAttempt, KeepLink, attemptVars, slotVars
<1> QED BY <1>1, <1>2, <1>3

LEMMA ServerOnExchangeDoes == ASSUME ServerOnExchange PROVE Replies /\ KeepClient /\ KeepLink
<1>1. Replies
  BY DEF ServerOnExchange, Gets, Reads, Says, Tells, ExchangeReply, Replies
<1> QED BY <1>1 DEF ServerOnExchange, KeepClient, KeepSlot, KeepAttempt, KeepLink, attemptVars, slotVars

LEMMA ServerRedirectsDoes == ASSUME ServerRedirects PROVE Sends /\ KeepClient /\ KeepLink
<1>1. Sends
  BY DEF ServerRedirects, Says, Tells, Redirect, Sends
<1> QED BY <1>1 DEF ServerRedirects, KeepClient, KeepSlot, KeepAttempt, KeepLink, attemptVars, slotVars

LEMMA GoesDoes == ASSUME ServerCloses \/ ServerOnEof PROVE Goes /\ KeepClient /\ KeepLink
<1>1. Goes
  BY DEF ServerCloses, ServerOnEof, Goes, relayVars
<1> QED BY <1>1 DEF ServerCloses, ServerOnEof, KeepClient, KeepSlot, KeepAttempt, KeepLink,
                    attemptVars, slotVars, relayVars

\* Every step is one of these.
Moves ==
  \/ OpensAnew \/ OpensRedirect
  \/ (Asks \/ Rounding \/ Exchanging) /\ KeepSlot /\ KeepOthers
  \/ (Confirming \/ Securing \/ Reading \/ Authenticating \/ Replied \/ Leaving) /\ KeepSlot /\ KeepOthers
  \/ Redirected /\ KeepOthers
  \/ (Relaying \/ Returning \/ Upgrading \/ Closing) /\ KeepClient /\ KeepServer
  \/ (Secures \/ Unsecured) /\ KeepClient /\ KeepServerState
  \/ (Routes \/ Judges \/ Replies \/ Sends \/ Goes) /\ KeepClient /\ KeepLink

LEMMA NextMoves == ASSUME ConnectAssumption, Next PROVE Moves
<1> USE DEF Moves, KeepOthers
<1>1. CASE Connect \/ ConnectRedirected
  BY <1>1, ConnectDoes, ConnectRedirectedDoes
<1>2. CASE ClientSends
  BY <1>2, SendRequestDoes, CredsspDoes, SendExchangeDoes DEF ClientSends
<1>3. CASE ClientReads \/ Leave
  BY <1>3, OnConfirmDoes, OnTlsReadyDoes, ReadingDoes, OnCapabilitiesDoes, OnExchangeDoes, LeavingDoes,
     OnRedirectDoes DEF ClientReads
<1>4. CASE RelayUp \/ RelayDown \/ OnTlsUpgrade \/ TlsHandshake \/ RelayEnds \/ ConnectionLost
  BY <1>4, RelayUpDoes, RelayDownDoes, OnTlsUpgradeDoes, TlsHandshakeDoes, ClosingDoes
<1>5. CASE ServerHandles \/ ServerRedirects \/ ServerCloses
  BY <1>5, ConnectAssumption, ServerOnRequestDoes, JudgesDoes, ServerOnExchangeDoes,
     ServerRedirectsDoes, GoesDoes
     DEF ServerHandles
<1> QED BY <1>1, <1>2, <1>3, <1>4, <1>5 DEF Next

-----------------------------------------------------------------------------
\* What may happen to each queue.
UpMoves ==
  \/ up' = up \/ up' = << >> \/ (up # << >> /\ up' = Tail(up))
  \/ client \in {"send request"} /\ client' \in {"wait confirm"} /\ up' = Append(up, Request(packet))
  \/ client \in {"wait confirm"} /\ client' \in {"tls ready"} /\ up' = Append(up, Upgrade)
  \/ client \in {"credssp", "exchange", "capabilities"} /\ \E m \in Sayable : up' = Append(up, m)
DownMoves ==
  \/ down' = down \/ down' = << >> \/ (down # << >> /\ down' = Tail(down))
  \/ tcpDown # << >> /\ down' = Append(down, Head(tcpDown))
  \/ proxy' \in {"tls"} /\ \E c \in BOOLEAN : down' = Append(down, TlsReady(c))
  \/ down' = Append(down, TlsError)
TcpUpMoves ==
  \/ tcpUp' = tcpUp \/ tcpUp' = << >> \/ (tcpUp # << >> /\ tcpUp' = Tail(tcpUp))
  \/ /\ proxy \in {"raw", "tls"} /\ up # << >> /\ Head(up).type \notin {"tls_upgrade"}
     /\ tcpUp' = Append(tcpUp, [tls |-> proxy \in {"tls"}, message |-> Head(up)])
TcpDownMoves ==
  \/ tcpDown' = tcpDown \/ tcpDown' = << >> \/ (tcpDown # << >> /\ tcpDown' = Tail(tcpDown))
  \/ \E m \in Plain : tcpDown' = <<m>> \/ tcpDown' = Append(tcpDown, m)
  \/ Routes /\ \E p \in Answers : agreed' = p /\ tcpDown' = Append(tcpDown, Confirm(p))
  \/ server \in {"exchange"} /\ tcpDown' = Append(tcpDown, ExchangeReply)
  \/ /\ server \in {"active"} /\ packets' = packets + 1
     /\ tcpDown' = Append(tcpDown, Redirect(packets'))
GotMoves ==
  \/ got' = got \/ got' = << >>
  \/ /\ tcpUp # << >> /\ Head(tcpUp).message.type \in UpTypes
     /\ got' = Append(got, [type |-> Head(tcpUp).message.type, tls |-> Head(tcpUp).tls])

LEMMA Sayings == Sayable \subseteq UpMessages /\ Plain \subseteq DownMessages
BY DEF Sayable, Plain

LEMMA UpMove == ASSUME ConnectAssumption, Shapes, Next PROVE UpMoves
<1> USE UpLiterals DEF UpMoves, Shapes, Counts
<1>1. CASE OpensAnew \/ OpensRedirect
  BY <1>1 DEF OpensAnew, OpensRedirect, Opens
<1>2. CASE (Asks \/ Rounding \/ Exchanging) /\ KeepOthers
  BY <1>2 DEF Asks, Rounding, Exchanging, Sent, KeepOthers, KeepAttempt, KeepRelay, KeepServer
<1>3. CASE (Confirming \/ Securing \/ Reading \/ Authenticating) /\ KeepOthers
  BY <1>3 DEF Confirming, Securing, Reading, Authenticating, Sent, Takes, KeepOthers, KeepAttempt,
              KeepRelay, KeepServer
<1>4. CASE (Replied \/ Leaving \/ Redirected) /\ KeepOthers
  BY <1>4 DEF Replied, Leaving, Redirected, Takes, KeepOthers, KeepRelay, KeepServer
<1>5. CASE (Relaying \/ Returning \/ Upgrading \/ Closing) /\ KeepClient /\ KeepServer
  BY <1>5 DEF Relaying, Returning, Upgrading, Closing, Closes, KeepServer
<1>6. CASE (Secures \/ Unsecured) /\ KeepClient /\ KeepServerState
  BY <1>6 DEF Secures, Unsecured, Closes, KeepServerState
<1>7. CASE (Routes \/ Judges) /\ KeepClient /\ KeepLink
  BY <1>7 DEF Routes, Judges, Reads, Admits, Tells, KeepLink
<1>8. CASE (Replies \/ Sends \/ Goes) /\ KeepClient /\ KeepLink
  BY <1>8 DEF Replies, Sends, Goes, Reads, Tells, KeepLink
<1> QED BY NextMoves, <1>1, <1>2, <1>3, <1>4, <1>5, <1>6, <1>7, <1>8 DEF Moves

LEMMA DownMove == ASSUME ConnectAssumption, Next PROVE DownMoves
<1> USE DEF DownMoves
<1>1. CASE OpensAnew \/ OpensRedirect
  BY <1>1 DEF OpensAnew, OpensRedirect, Opens
<1>2. CASE (Asks \/ Rounding \/ Exchanging) /\ KeepOthers
  BY <1>2 DEF Asks, Rounding, Exchanging, Sent, KeepOthers, KeepAttempt, KeepRelay, KeepServer
<1>3. CASE (Confirming \/ Securing \/ Reading \/ Authenticating) /\ KeepOthers
  BY <1>3 DEF Confirming, Securing, Reading, Authenticating, Sent, Takes, KeepOthers, KeepAttempt,
              KeepRelay, KeepServer
<1>4. CASE (Replied \/ Leaving \/ Redirected) /\ KeepOthers
  BY <1>4 DEF Replied, Leaving, Redirected, Takes, KeepOthers, KeepRelay, KeepServer
<1>5. CASE (Relaying \/ Returning \/ Upgrading \/ Closing) /\ KeepClient /\ KeepServer
  BY <1>5 DEF Relaying, Returning, Upgrading, Closing, Closes, KeepServer
<1>6. CASE (Secures \/ Unsecured) /\ KeepClient /\ KeepServerState
  BY <1>6 DEF Secures, Unsecured, Closes, KeepServerState
<1>7. CASE (Routes \/ Judges) /\ KeepClient /\ KeepLink
  BY <1>7 DEF Routes, Judges, Reads, Admits, Tells, KeepLink
<1>8. CASE (Replies \/ Sends \/ Goes) /\ KeepClient /\ KeepLink
  BY <1>8 DEF Replies, Sends, Goes, Reads, Tells, KeepLink
<1> QED BY NextMoves, <1>1, <1>2, <1>3, <1>4, <1>5, <1>6, <1>7, <1>8 DEF Moves

LEMMA TcpUpMove == ASSUME ConnectAssumption, Next PROVE TcpUpMoves
<1> USE DEF TcpUpMoves
<1>1. CASE OpensAnew \/ OpensRedirect
  BY <1>1 DEF OpensAnew, OpensRedirect, Opens
<1>2. CASE (Asks \/ Rounding \/ Exchanging) /\ KeepOthers
  BY <1>2 DEF Asks, Rounding, Exchanging, Sent, KeepOthers, KeepAttempt, KeepRelay, KeepServer
<1>3. CASE (Confirming \/ Securing \/ Reading \/ Authenticating) /\ KeepOthers
  BY <1>3 DEF Confirming, Securing, Reading, Authenticating, Sent, Takes, KeepOthers, KeepAttempt,
              KeepRelay, KeepServer
<1>4. CASE (Replied \/ Leaving \/ Redirected) /\ KeepOthers
  BY <1>4 DEF Replied, Leaving, Redirected, Takes, KeepOthers, KeepRelay, KeepServer
<1>5. CASE (Relaying \/ Returning \/ Upgrading \/ Closing) /\ KeepClient /\ KeepServer
  BY <1>5 DEF Relaying, Returning, Upgrading, Closing, Closes, KeepServer
<1>6. CASE (Secures \/ Unsecured) /\ KeepClient /\ KeepServerState
  BY <1>6 DEF Secures, Unsecured, Closes, KeepServerState
<1>7. CASE (Routes \/ Judges) /\ KeepClient /\ KeepLink
  BY <1>7 DEF Routes, Judges, Reads, Admits, Tells, KeepLink
<1>8. CASE (Replies \/ Sends \/ Goes) /\ KeepClient /\ KeepLink
  BY <1>8 DEF Replies, Sends, Goes, Reads, Tells, KeepLink
<1> QED BY NextMoves, <1>1, <1>2, <1>3, <1>4, <1>5, <1>6, <1>7, <1>8 DEF Moves

LEMMA TcpDownMove == ASSUME ConnectAssumption, Next PROVE TcpDownMoves
<1> USE DownLiterals DEF TcpDownMoves
<1>1. CASE OpensAnew \/ OpensRedirect
  BY <1>1 DEF OpensAnew, OpensRedirect, Opens
<1>2. CASE (Asks \/ Rounding \/ Exchanging) /\ KeepOthers
  BY <1>2 DEF Asks, Rounding, Exchanging, Sent, KeepOthers, KeepAttempt, KeepRelay, KeepServer
<1>3. CASE (Confirming \/ Securing \/ Reading \/ Authenticating) /\ KeepOthers
  BY <1>3 DEF Confirming, Securing, Reading, Authenticating, Sent, Takes, KeepOthers, KeepAttempt,
              KeepRelay, KeepServer
<1>4. CASE (Replied \/ Leaving \/ Redirected) /\ KeepOthers
  BY <1>4 DEF Replied, Leaving, Redirected, Takes, KeepOthers, KeepRelay, KeepServer
<1>5. CASE (Relaying \/ Returning \/ Upgrading \/ Closing) /\ KeepClient /\ KeepServer
  BY <1>5 DEF Relaying, Returning, Upgrading, Closing, Closes, KeepServer
<1>6. CASE (Secures \/ Unsecured) /\ KeepClient /\ KeepServerState
  BY <1>6 DEF Secures, Unsecured, Closes, KeepServerState
<1>7. CASE (Routes \/ Judges) /\ KeepClient /\ KeepLink
  BY <1>7 DEF Routes, Judges, Reads, Admits, Tells, KeepLink
<1>8. CASE (Replies \/ Sends \/ Goes) /\ KeepClient /\ KeepLink
  BY <1>8 DEF Replies, Sends, Goes, Reads, Tells, KeepLink
<1> QED BY NextMoves, <1>1, <1>2, <1>3, <1>4, <1>5, <1>6, <1>7, <1>8 DEF Moves

LEMMA GotMove == ASSUME ConnectAssumption, Next PROVE GotMoves
<1> USE DEF GotMoves, UpTypes
<1>1. CASE OpensAnew \/ OpensRedirect
  BY <1>1 DEF OpensAnew, OpensRedirect, Opens
<1>2. CASE (Asks \/ Rounding \/ Exchanging) /\ KeepOthers
  BY <1>2 DEF Asks, Rounding, Exchanging, Sent, KeepOthers, KeepAttempt, KeepRelay, KeepServer
<1>3. CASE (Confirming \/ Securing \/ Reading \/ Authenticating) /\ KeepOthers
  BY <1>3 DEF Confirming, Securing, Reading, Authenticating, Sent, Takes, KeepOthers, KeepAttempt,
              KeepRelay, KeepServer
<1>4. CASE (Replied \/ Leaving \/ Redirected) /\ KeepOthers
  BY <1>4 DEF Replied, Leaving, Redirected, Takes, KeepOthers, KeepRelay, KeepServer
<1>5. CASE (Relaying \/ Returning \/ Upgrading \/ Closing) /\ KeepClient /\ KeepServer
  BY <1>5 DEF Relaying, Returning, Upgrading, Closing, Closes, KeepServer
<1>6. CASE (Secures \/ Unsecured) /\ KeepClient /\ KeepServerState
  BY <1>6 DEF Secures, Unsecured, Closes, KeepServerState
<1>7. CASE (Routes \/ Judges) /\ KeepClient /\ KeepLink
  BY <1>7 DEF Routes, Judges, Reads, Admits, Tells, KeepLink
<1>8. CASE (Replies \/ Sends \/ Goes) /\ KeepClient /\ KeepLink
  BY <1>8 DEF Replies, Sends, Goes, Reads, Tells, KeepLink
<1> QED BY NextMoves, <1>1, <1>2, <1>3, <1>4, <1>5, <1>6, <1>7, <1>8 DEF Moves

-----------------------------------------------------------------------------
\* The messages are of the kinds they should be, and the numbers and flags as well.
LEMMA Bounds ==
  ASSUME ConnectAssumption
  PROVE  MaxAttempts \in Nat /\ NtlmRounds \in Nat /\ Exchanges \in Nat \ {0}
BY DEF ConnectAssumption, MaxRounds

\* A queue that loses its head, or grows by a message of a set.
LEMMA Kept ==
  ASSUME NEW S, NEW s \in Seq(S), NEW t,
         \/ t = s \/ t = << >> \/ (s # << >> /\ t = Tail(s))
         \/ \E m \in S : t = Append(s, m) \/ t = <<m>>
  PROVE  t \in Seq(S)
<1>0. CASE t = << >>
  BY <1>0
<1>1. CASE t = s
  BY <1>1
<1>2. CASE s # << >> /\ t = Tail(s)
  BY <1>2
<1>3. ASSUME NEW m \in S, t = Append(s, m) PROVE t \in Seq(S)
  BY <1>3
<1>4. ASSUME NEW m \in S, t = <<m>> PROVE t \in Seq(S)
  BY <1>4
<1> QED BY <1>0, <1>1, <1>2, <1>3, <1>4

LEMMA Heads == ASSUME NEW S, NEW s \in Seq(S), s # << >> PROVE Head(s) \in S
OBVIOUS

LEMMA QueuesStep == ASSUME ConnectAssumption, Shapes, Next PROVE Queues'
<1>0. /\ up \in Seq(UpMessages) /\ tcpUp \in Seq(TcpMessages)
      /\ down \in Seq(DownMessages) /\ tcpDown \in Seq(DownMessages) /\ got \in Seq(GotMessages)
  BY DEF Shapes, Queues
<1>1. up' \in Seq(UpMessages)
  <2>1. \/ up' = up \/ up' = << >> \/ (up # << >> /\ up' = Tail(up))
        \/ \E m \in UpMessages : up' = Append(up, m)
    BY UpMove, UpLiterals, Sayings DEF UpMoves, Shapes, Counts
  <2> QED BY <1>0, <2>1, Kept
<1>2. down' \in Seq(DownMessages)
  <2>1. tcpDown # << >> => Head(tcpDown) \in DownMessages
    BY <1>0, Heads
  <2>2. \/ down' = down \/ down' = << >> \/ (down # << >> /\ down' = Tail(down))
        \/ \E m \in DownMessages : down' = Append(down, m)
    BY <2>1, DownMove, DownLiterals, Sayings DEF DownMoves
  <2> QED BY <1>0, <2>2, Kept
<1>3. tcpUp' \in Seq(TcpMessages)
  <2>1. up # << >> => Head(up) \in UpMessages
    BY <1>0, Heads
  <2>2. (proxy \in {"tls"}) \in BOOLEAN
    OBVIOUS
  <2>3. \/ tcpUp' = tcpUp \/ tcpUp' = << >> \/ (tcpUp # << >> /\ tcpUp' = Tail(tcpUp))
        \/ up # << >> /\ tcpUp' = Append(tcpUp, [tls |-> proxy \in {"tls"}, message |-> Head(up)])
    BY TcpUpMove DEF TcpUpMoves
  <2>4. up # << >> => [tls |-> proxy \in {"tls"}, message |-> Head(up)] \in TcpMessages
    BY <2>1, <2>2 DEF TcpMessages
  <2> QED BY <1>0, <2>3, <2>4, Kept
<1>4. tcpDown' \in Seq(DownMessages)
  <2>1. \/ tcpDown' = tcpDown \/ tcpDown' = << >> \/ (tcpDown # << >> /\ tcpDown' = Tail(tcpDown))
        \/ \E m \in DownMessages : tcpDown' = <<m>> \/ tcpDown' = Append(tcpDown, m)
    <3>1. packets' = packets + 1 => Redirect(packets') \in DownMessages
      <4>1. packets \in Nat /\ packets + 1 \in Nat
        BY Bounds DEF Shapes, Counts
      <4> QED BY <4>1, DownLiterals
    <3> QED BY <3>1, TcpDownMove, DownLiterals, Sayings DEF TcpDownMoves
  <2> QED BY <1>0, <2>1, Kept
<1>5. got' \in Seq(GotMessages)
  <2>1. tcpUp # << >> => Head(tcpUp) \in TcpMessages
    BY <1>0, Heads
  <2>2. \/ got' = got \/ got' = << >>
        \/ \E g \in GotMessages : got' = Append(got, g)
    BY <2>1, GotMove, WireFields DEF GotMoves
  <2> QED BY <1>0, <2>2, Kept
<1> QED BY <1>1, <1>2, <1>3, <1>4, <1>5 DEF Queues

LEMMA NoAnswer == NoProtocol \in Answers /\ NoPacket \in Nat
BY DEF Answers, NoPacket

LEMMA ClientScalarsStep == ASSUME ConnectAssumption, Shapes, Next PROVE ClientScalars'
<1> USE DEF ClientScalars
<1>1. ClientScalars /\ Queues
  BY DEF Shapes
<1>2. CASE OpensAnew
  <2>1. client' \in ClientStates
    BY <1>2 DEF OpensAnew, Opens, ClientStates, Over
  <2> QED BY <1>1, <1>2, <2>1, NoAnswer DEF OpensAnew, Opens, KeepSlot
<1>3. CASE OpensRedirect
  <2>1. client' \in ClientStates
    BY <1>3 DEF OpensRedirect, Opens, ClientStates, Over
  <2> QED BY <1>1, <1>3, <2>1, NoAnswer DEF OpensRedirect, Opens
<1>4. CASE (Asks \/ Rounding \/ Exchanging \/ Reading \/ Authenticating \/ Replied \/ Leaving) /\ KeepSlot /\ KeepOthers
  <2>1. client' \in ClientStates
    BY <1>4 DEF Asks, Rounding, Exchanging, Reading, Authenticating, Replied, Leaving,
                ClientStates, Awaiting, Over
  <2>2. UNCHANGED <<selected, key>>
    BY <1>4 DEF Asks, Rounding, Exchanging, Reading, Authenticating, Replied, Leaving
  <2> QED BY <1>1, <1>4, <2>1, <2>2 DEF KeepSlot, KeepOthers, KeepAttempt
<1>5. CASE Confirming /\ KeepSlot /\ KeepOthers
  <2>1. down # << >> => Head(down) \in DownMessages
    BY <1>1 DEF Queues
  <2>2. Head(down).protocol \in Answers
    BY <1>5, <2>1, Fields DEF Confirming, Takes
  <2>3. client' \in {"closed", "tls ready"} /\ selected' \in Answers /\ UNCHANGED key
    BY <1>1, <1>5, <2>2 DEF Confirming
  <2>4. client' \in ClientStates
    BY <2>3 DEF ClientStates, Awaiting, Over
  <2> QED BY <1>1, <1>5, <2>3, <2>4 DEF KeepSlot, KeepOthers, KeepAttempt
<1>6. CASE Securing /\ KeepSlot /\ KeepOthers
  <2>1. client' \in ClientStates
    BY <1>6 DEF Securing, ClientStates, Awaiting, Over
  <2>2. key' \in BOOLEAN /\ UNCHANGED selected
    BY <1>6 DEF Securing
  <2> QED BY <1>1, <1>6, <2>1, <2>2 DEF KeepSlot, KeepOthers, KeepAttempt
<1>7. CASE Redirected /\ KeepOthers
  <2>1. client' \in ClientStates
    BY <1>7 DEF Redirected, ClientStates, Over
  <2>2. UNCHANGED <<selected, key>> /\ hop' \in BOOLEAN
    BY <1>7 DEF Redirected
  <2> QED BY <1>1, <1>7, <2>1, <2>2 DEF KeepOthers, KeepAttempt
<1>8. CASE KeepClient
  BY <1>1, <1>8 DEF KeepClient, KeepAttempt, KeepSlot
<1> QED BY NextMoves, <1>2, <1>3, <1>4, <1>5, <1>6, <1>7, <1>8 DEF Moves

LEMMA LinkScalarsStep == ASSUME ConnectAssumption, Shapes, Next PROVE LinkScalars'
<1> USE DEF LinkScalars
<1>1. LinkScalars
  BY DEF Shapes
<1>2. CASE OpensAnew \/ OpensRedirect
  <2>1. proxy' \in {"raw", "closed"} /\ server' \in {"negotiation", "closed"}
    BY <1>2 DEF OpensAnew, OpensRedirect, Opens
  <2>2. agreed' \in Answers /\ authenticated' \in BOOLEAN
    BY <1>2, NoAnswer DEF OpensAnew, OpensRedirect, Opens
  <2> QED BY <2>1, <2>2 DEF ServerStates
<1>3. CASE KeepOthers
  BY <1>1, <1>3 DEF KeepOthers, KeepRelay, KeepServer
<1>4. CASE (Relaying \/ Returning \/ Upgrading \/ Closing) /\ KeepServer
  <2>1. proxy' = proxy \/ proxy' \in {"handshake", "closed"}
    BY <1>4 DEF Relaying, Returning, Upgrading, Closing, Closes
  <2> QED BY <1>1, <1>4, <2>1 DEF KeepServer
<1>5. CASE Secures /\ KeepServerState
  <2>1. server' \in ServerStates /\ server' # "handshake"
    <3>1. agreed \in {"SSL", "RDSTLS", "HYBRID", "HYBRID_EX"}
      BY <1>1, <1>5 DEF Secures, ConnectAssumption, Nla, Answers
    <3> QED BY <1>5, <3>1 DEF Secures, Secured, Nla, ServerStates
  <2>2. proxy' \in {"tls"}
    BY <1>5 DEF Secures
  <2> QED BY <1>1, <1>5, <2>1, <2>2 DEF KeepServerState
<1>6. CASE Unsecured /\ KeepServerState
  <2>1. server' \in {"closed"} /\ proxy' \in {"closed"}
    BY <1>6 DEF Unsecured, Closes
  <2> QED BY <1>1, <1>6, <2>1 DEF ServerStates, KeepServerState
<1>7. CASE Routes /\ KeepLink
  <2>1. agreed' \in Answers /\ server' \in {"closed", "handshake"} /\ (server' = "handshake" => agreed' # NoProtocol)
    BY <1>1, <1>7 DEF Routes, Admits
  <2>2. UNCHANGED <<authenticated, proxy>>
    BY <1>7 DEF Routes, KeepLink
  <2> QED BY <1>1, <2>1, <2>2 DEF ServerStates
<1>8. CASE (Judges \/ Replies \/ Sends) /\ KeepLink
  <2>1. server' \in {"credssp", "exchange", "closed", "active", "redirecting"}
    BY <1>8 DEF Judges, Replies, Sends
  <2>2. authenticated' \in BOOLEAN
    BY <1>1, <1>8 DEF Judges, Replies, Sends
  <2>3. UNCHANGED <<agreed, proxy>>
    BY <1>8 DEF Judges, Replies, Sends, KeepLink
  <2> QED BY <1>1, <2>1, <2>2, <2>3 DEF ServerStates
<1>9. CASE Goes /\ KeepLink
  BY <1>1, <1>9 DEF Goes, KeepLink, ServerStates
<1> QED BY NextMoves, <1>2, <1>3, <1>4, <1>5, <1>6, <1>7, <1>8, <1>9 DEF Moves, KeepServerState

LEMMA CountsStep == ASSUME ConnectAssumption, Shapes, Next PROVE Counts'
<1> USE Bounds, NoAnswer DEF Shapes, Counts
<1>1. CASE OpensAnew \/ OpensRedirect
  <2>1. /\ attempts < MaxAttempts /\ attempts' = attempts + 1 /\ round' = 0
        /\ UNCHANGED <<packets, presented>>
        /\ packet' \in {NoPacket, pendingRedirect} /\ pendingRedirect' \in {NoPacket, pendingRedirect}
    BY <1>1 DEF OpensAnew, OpensRedirect, Opens, KeepSlot
  <2> QED BY <2>1
<1>2. CASE KeepSlot /\ KeepOthers
  <2>1. round' = round + 1 \/ round' = 0 \/ round' = round
    <3>1. CASE Rounding \/ Replied
      BY <3>1 DEF Rounding, Replied
    <3>2. CASE Asks \/ Exchanging \/ Confirming \/ Securing \/ Reading \/ Authenticating \/ Leaving
      BY <3>2 DEF Asks, Exchanging, Confirming, Securing, Reading, Authenticating, Leaving
    <3>3. CASE Redirected
      BY <3>3 DEF Redirected
    <3>4. CASE OpensAnew \/ OpensRedirect
      BY <3>4 DEF OpensAnew, OpensRedirect, Opens
    <3>5. CASE KeepClient
      BY <3>5 DEF KeepClient
    <3> QED BY NextMoves, <3>1, <3>2, <3>3, <3>4, <3>5 DEF Moves, OpensAnew, OpensRedirect, Opens
  <2>2. UNCHANGED <<attempts, packet, packets, presented, pendingRedirect>>
    BY <1>2 DEF KeepSlot, KeepOthers, KeepAttempt, KeepServer
  <2> QED BY <2>1, <2>2
<1>3. CASE Redirected /\ KeepOthers
  <2>1. down # << >> => Head(down) \in DownMessages
    BY DEF Queues
  <2>2. Head(down).token \in Nat
    BY <1>3, <2>1, Fields DEF Redirected, Takes
  <2>3. pendingRedirect' \in Nat /\ UNCHANGED <<attempts, packet, packets, presented, round>>
    BY <1>3, <2>2 DEF Redirected, KeepOthers, KeepAttempt, KeepServer
  <2> QED BY <2>3
<1>4. CASE KeepClient
  <2>1. UNCHANGED <<attempts, packet, pendingRedirect, round>>
    BY <1>4 DEF KeepClient, KeepAttempt, KeepSlot
  <2>2. CASE (Routes \/ Sends) /\ KeepLink
    <3>1. CASE Routes
      <4>1. tcpUp # << >> => Head(tcpUp) \in TcpMessages
        BY DEF Queues
      <4>2. Head(tcpUp).message.token \in Nat
        BY <3>1, <4>1, Fields, WireFields DEF Routes, Reads
      <4>3. presented' = presented \/ presented' = Append(presented, Head(tcpUp).message.token)
        BY <3>1 DEF Routes
      <4>4. presented' \in Seq(Nat)
        <5>1. presented \in Seq(Nat)
          OBVIOUS
        <5> HIDE DEF Shapes, Counts
        <5> QED BY <4>2, <4>3, <5>1
      <4>5. UNCHANGED packets
        BY <3>1 DEF Routes
      <4> QED BY <2>1, <4>4, <4>5
    <3>2. CASE Sends
      <4>1. packets < MaxAttempts /\ packets' = packets + 1 /\ UNCHANGED presented
        BY <3>2 DEF Sends
      <4> QED BY <2>1, <4>1
    <3> QED BY <2>2, <3>1, <3>2
  <2>3. CASE UNCHANGED <<packets, presented>>
    BY <2>1, <2>3
  <2> QED BY NextMoves, <1>1, <1>2, <1>3, <2>2, <2>3
          DEF Moves, KeepServer, KeepServerState, Judges, Replies, Goes
<1> QED BY NextMoves, <1>1, <1>2, <1>3, <1>4 DEF Moves

LEMMA ShapesStep == ASSUME ConnectAssumption, Shapes, Next PROVE Shapes'
BY QueuesStep, ClientScalarsStep, LinkScalarsStep, CountsStep DEF Shapes

-----------------------------------------------------------------------------
\* Nothing but the request goes in clear.
Quiet == {"idle", "closed", "send request", "wait confirm", "tls ready"}

LEMMA Literals ==
  /\ \A t \in Nat : Request(t) \in Opening
  /\ Upgrade \in Opening /\ Upgrade \in Later /\ Sayable \subseteq Later
  /\ Plain \subseteq Unready /\ ExchangeReply \in Unready /\ TlsError \in Unready
  /\ \A p \in Answers : Confirm(p) \in Unready
  /\ \A t \in Nat : Redirect(t) \in Unready
<1>1. \A t \in Nat : Request(t) \in Opening
  BY UpLiterals DEF Opening
<1>2. Upgrade \in Opening /\ Upgrade \in Later /\ Sayable \subseteq Later
  BY UpLiterals DEF Opening, Later, Sayable
<1>3. Plain \subseteq Unready /\ ExchangeReply \in Unready /\ TlsError \in Unready
  BY DownLiterals DEF Unready, Plain
<1>4. \A p \in Answers : Confirm(p) \in Unready
  BY DownLiterals DEF Unready
<1>5. \A t \in Nat : Redirect(t) \in Unready
  BY DownLiterals DEF Unready
<1> QED BY <1>1, <1>2, <1>3, <1>4, <1>5

\* What is said of all but the head of a queue.
LEMMA TailKept ==
  ASSUME NEW T, NEW S \in SUBSET T, NEW s \in Seq(T), s # << >> => Tail(s) \in Seq(S)
  PROVE  /\ s # << >> => (Tail(s) # << >> => Tail(Tail(s)) \in Seq(S))
         /\ \A m \in S : Tail(Append(s, m)) \in Seq(S)
         /\ s = << >> => \A m \in T : Tail(Append(s, m)) \in Seq(S)
<1>1. s # << >> => (Tail(s) # << >> => Tail(Tail(s)) \in Seq(S))
  OBVIOUS
<1>2. ASSUME NEW m \in T, s = << >> PROVE Tail(Append(s, m)) \in Seq(S)
  BY <1>2
<1>3. ASSUME NEW m \in S, s # << >> PROVE Tail(Append(s, m)) \in Seq(S)
  <2>1. Tail(Append(s, m)) = Append(Tail(s), m)
    BY <1>3
  <2> QED BY <1>3, <2>1
<1> QED BY <1>1, <1>2, <1>3

LEMMA GotClearStep == ASSUME ConnectAssumption, Shapes, InClear, Next PROVE got' \in Seq(GotRight)
<1>1. got \in Seq(GotRight) /\ tcpUp \in Seq(WiredRight)
  BY DEF InClear
<1>2. tcpUp # << >> => Head(tcpUp) \in WiredRight
  BY <1>1, Heads
<1>3. ASSUME NEW w \in WiredRight PROVE [type |-> w.message.type, tls |-> w.tls] \in GotRight
  BY WireFields, Fields DEF WiredRight, GotRight
<1>4. got' = got \/ got' = << >> \/ \E g \in GotRight : got' = Append(got, g)
  BY <1>2, <1>3, GotMove DEF GotMoves
<1> QED BY <1>1, <1>4, Kept

LEMMA TcpUpClearStep ==
  ASSUME ConnectAssumption, Shapes, InClear, Next
  PROVE  tcpUp' \in Seq(WiredRight)
<1>1. tcpUp \in Seq(WiredRight)
  BY DEF InClear
<1>2. ASSUME proxy \in {"raw", "tls"}, up # << >>, Head(up).type \notin {"tls_upgrade"}
      PROVE  [tls |-> proxy \in {"tls"}, message |-> Head(up)] \in WiredRight
  <2>0. Head(up) \in UpMessages
    BY <1>2, Heads DEF Shapes, Queues
  <2>1. CASE proxy \in {"raw"}
    <3>1. Head(up) \in Opening
      BY <1>2, <2>1, Heads DEF InClear
    <3>2. Head(up).type = "request" /\ (proxy \in {"tls"}) = FALSE
      BY <1>2, <2>1, <3>1 DEF Opening
    <3>3. [tls |-> FALSE, message |-> Head(up)] \in WiredRight
      BY <2>0, <3>2, WireFields DEF WiredRight
    <3> QED BY <3>2, <3>3
  <2>2. CASE proxy \in {"tls"}
    <3>1. Head(up) \in Later
      BY <1>2, <2>2, Heads DEF InClear
    <3>2. Head(up).type # "request" /\ (proxy \in {"tls"}) = TRUE
      BY <2>2, <3>1 DEF Later
    <3>3. [tls |-> TRUE, message |-> Head(up)] \in WiredRight
      BY <2>0, <3>2, WireFields DEF WiredRight
    <3> QED BY <3>2, <3>3
  <2> QED BY <1>2, <2>1, <2>2
<1>3. \/ tcpUp' = tcpUp \/ tcpUp' = << >> \/ (tcpUp # << >> /\ tcpUp' = Tail(tcpUp))
      \/ \E w \in WiredRight : tcpUp' = Append(tcpUp, w)
  BY <1>2, TcpUpMove DEF TcpUpMoves
<1> QED BY <1>1, <1>3, Kept

LEMMA TcpDownClearStep ==
  ASSUME ConnectAssumption, Shapes, InClear, Next
  PROVE  tcpDown' \in Seq(Unready)
<1>1. tcpDown \in Seq(Unready)
  BY DEF InClear
<1>2. packets' = packets + 1 => Redirect(packets') \in Unready
  <2>1. packets \in Nat /\ packets + 1 \in Nat
    BY Bounds DEF Shapes, Counts
  <2> QED BY <2>1, Literals
<1>3. \/ tcpDown' = tcpDown \/ tcpDown' = << >> \/ (tcpDown # << >> /\ tcpDown' = Tail(tcpDown))
      \/ \E m \in Unready : tcpDown' = <<m>> \/ tcpDown' = Append(tcpDown, m)
  BY <1>2, TcpDownMove, Literals DEF TcpDownMoves
<1> QED BY <1>1, <1>3, Kept

LEMMA UpTailStep ==
  ASSUME ConnectAssumption, Shapes, InClear, Next
  PROVE  up' # << >> => Tail(up') \in Seq(Later)
<1>1. /\ up \in Seq(UpMessages) /\ Later \in SUBSET UpMessages /\ packet \in Nat
      /\ up # << >> => Tail(up) \in Seq(Later)
      /\ client \in {"send request"} => up = << >>
  BY DEF Shapes, Queues, InClear, Later, Counts
<1>2. /\ up # << >> => (Tail(up) # << >> => Tail(Tail(up)) \in Seq(Later))
      /\ \A m \in Later : Tail(Append(up, m)) \in Seq(Later)
      /\ up = << >> => \A m \in UpMessages : Tail(Append(up, m)) \in Seq(Later)
  BY <1>1, TailKept
<1>3. CASE up' = up \/ up' = << >>
  BY <1>1, <1>3
<1>4. CASE up # << >> /\ up' = Tail(up)
  BY <1>2, <1>4
<1>5. CASE \E m \in Later : up' = Append(up, m)
  BY <1>2, <1>5
<1>6. CASE client \in {"send request"} /\ up' = Append(up, Request(packet))
  BY <1>1, <1>2, <1>6, UpLiterals
<1> QED BY <1>3, <1>4, <1>5, <1>6, UpMove, Literals DEF UpMoves

\* Which steps move the client and the proxy.
ClientMoves ==
  \/ OpensAnew \/ OpensRedirect
  \/ KeepClient
  \/ /\ proxy' = proxy
     /\ \/ Asks \/ Rounding \/ Exchanging \/ Confirming \/ Securing \/ Reading \/ Authenticating
        \/ Replied \/ Leaving \/ Redirected
ProxyMoves ==
  \/ Opens
  \/ proxy' = proxy \/ proxy' \in {"closed"}
  \/ client' = client /\ (Upgrading \/ Secures)

LEMMA ClientMove == ASSUME ConnectAssumption, Next PROVE ClientMoves
BY NextMoves DEF Moves, ClientMoves, KeepOthers, KeepRelay

LEMMA ProxyMove == ASSUME ConnectAssumption, Next PROVE ProxyMoves
<1>1. CASE Opens \/ KeepLink \/ (Upgrading /\ KeepClient) \/ (Secures /\ KeepClient)
  BY <1>1 DEF ProxyMoves, KeepLink, KeepClient
<1>2. CASE KeepOthers
  BY <1>2 DEF ProxyMoves, KeepOthers, KeepRelay
<1>3. CASE Relaying \/ Returning \/ Closing \/ Unsecured
  BY <1>3 DEF ProxyMoves, Relaying, Returning, Closing, Unsecured, Closes
<1> QED BY NextMoves, <1>1, <1>2, <1>3 DEF Moves, OpensAnew, OpensRedirect

LEMMA SendingStep ==
  ASSUME ConnectAssumption, Shapes, InClear, Next
  PROVE  client' \in {"send request"} => up' = << >> /\ proxy' \in {"raw", "closed"}
<1> SUFFICES ASSUME client' \in {"send request"} PROVE up' = << >> /\ proxy' \in {"raw", "closed"}
  OBVIOUS
<1>1. CASE Opens
  BY <1>1 DEF Opens
<1>2. CASE client' = client
  <2>1. up = << >> /\ proxy \in {"raw", "closed"} /\ client \in {"send request"}
    BY <1>2 DEF InClear
  <2>2. up' = << >>
    BY <1>2, <2>1, UpMove DEF UpMoves
  <2>3. CASE Opens
    BY <2>3 DEF Opens
  <2>4. ~Upgrading /\ ~Secures
    BY <2>1 DEF Upgrading, Secures
  <2> QED BY <2>1, <2>2, <2>3, <2>4, ProxyMove DEF ProxyMoves
<1>3. ~(proxy' = proxy /\ (Asks \/ Rounding \/ Exchanging \/ Confirming \/ Securing \/ Reading \/ Authenticating
                           \/ Replied \/ Leaving \/ Redirected))
  BY DEF Asks, Rounding, Exchanging, Confirming, Securing, Reading, Authenticating, Replied, Leaving,
         Redirected
<1> QED BY ClientMove, <1>1, <1>2, <1>3 DEF ClientMoves, OpensAnew, OpensRedirect, KeepClient

LEMMA QuietStep ==
  ASSUME ConnectAssumption, Shapes, InClear, Next
  PROVE  proxy' \in {"raw", "handshake"} => client' \in Quiet /\ down' \in Seq(Unready) /\ up' \in Seq(Opening)
<1> SUFFICES ASSUME proxy' \in {"raw", "handshake"}
             PROVE  client' \in Quiet /\ down' \in Seq(Unready) /\ up' \in Seq(Opening)
  OBVIOUS
<1>1. CASE Opens
  <2>1. client' \in Quiet
    BY <1>1 DEF Opens, Quiet
  <2>2. up' = << >> /\ down' = << >>
    BY <1>1 DEF Opens
  <2> QED BY <2>1, <2>2
<1>2. ASSUME ~Opens PROVE client' \in Quiet /\ down' \in Seq(Unready) /\ up' \in Seq(Opening)
  <2>1. proxy \in {"raw", "handshake"} /\ proxy' \notin {"tls"}
    BY <1>2, ProxyMove DEF ProxyMoves, Upgrading, Secures
  <2>2. client \in Quiet /\ down \in Seq(Unready) /\ up \in Seq(Opening) /\ tcpDown \in Seq(Unready)
    BY <2>1 DEF InClear, Quiet, Over
  <2>3. client' \in Quiet
    <3>1. CASE client' = client
      BY <2>2, <3>1
    <3>2. CASE Asks \/ Rounding \/ Exchanging \/ Reading \/ Authenticating \/ Replied \/ Leaving \/ Redirected
      BY <2>2, <3>2 DEF Asks, Rounding, Exchanging, Reading, Authenticating, Replied, Leaving,
             Redirected, Quiet
    <3>3. CASE Confirming
      BY <3>3 DEF Confirming, Quiet
    <3>4. ~Securing
      <4>1. down # << >> => Head(down) \in Unready
        BY <2>2, Heads
      <4> QED BY <4>1 DEF Securing, Takes, Unready
    <3> QED BY <1>2, <3>1, <3>2, <3>3, <3>4, ClientMove DEF ClientMoves, OpensAnew, OpensRedirect,
                   KeepClient
  <2>4. down' \in Seq(Unready)
    <3>1. tcpDown # << >> => Head(tcpDown) \in Unready
      BY <2>2, Heads
    <3>2. \/ down' = down \/ down' = << >> \/ (down # << >> /\ down' = Tail(down))
          \/ \E m \in Unready : down' = Append(down, m)
      BY <2>1, <3>1, DownMove, Literals DEF DownMoves
    <3> QED BY <2>2, <3>2, Kept
  <2>5. up' \in Seq(Opening)
    <3>1. client \notin {"credssp", "exchange", "capabilities"}
      BY <2>2 DEF Quiet
    <3>2. packet \in Nat
      BY DEF Shapes, Counts
    <3>3. \/ up' = up \/ up' = << >> \/ (up # << >> /\ up' = Tail(up))
          \/ \E m \in Opening : up' = Append(up, m)
      BY <3>1, <3>2, UpMove, Literals DEF UpMoves
    <3> QED BY <2>2, <3>3, Kept
  <2> QED BY <2>3, <2>4, <2>5
<1> QED BY <1>1, <1>2

LEMMA UpgradedStep ==
  ASSUME ConnectAssumption, Shapes, InClear, Next
  PROVE  proxy' \in {"handshake", "tls"} => up' \in Seq(Later)
<1> SUFFICES ASSUME proxy' \in {"handshake", "tls"} PROVE up' \in Seq(Later)
  OBVIOUS
<1>1. CASE Upgrading
  <2>1. up # << >> /\ up' = Tail(up)
    BY <1>1 DEF Upgrading
  <2> QED BY <2>1 DEF InClear
<1>2. CASE proxy \in {"handshake", "tls"}
  <2>1. up \in Seq(Later) /\ client \notin {"send request"}
    BY <1>2 DEF InClear
  <2>2. \/ up' = up \/ up' = << >> \/ (up # << >> /\ up' = Tail(up))
        \/ \E m \in Later : up' = Append(up, m)
    BY <2>1, UpMove, Literals DEF UpMoves
  <2> QED BY <2>1, <2>2, Kept
<1>3. ~Opens
  BY DEF Opens
<1> QED BY <1>1, <1>2, <1>3, ProxyMove DEF ProxyMoves, Secures

LEMMA InClearStep == ASSUME ConnectAssumption, Shapes, InClear, Next PROVE InClear'
<1>1. Quiet = Over \cup {"send request", "wait confirm", "tls ready"}
  BY DEF Quiet, Over
<1> QED BY <1>1, GotClearStep, TcpUpClearStep, TcpDownClearStep, UpTailStep, SendingStep, QuietStep,
           UpgradedStep
        DEF InClear

-----------------------------------------------------------------------------
\* A token is shown once.
LEMMA SeqMono == ASSUME NEW S, NEW T, S \subseteq T, NEW s \in Seq(S) PROVE s \in Seq(T)
OBVIOUS

LEMMA OrdinaryMessages ==
  /\ \A n \in Nat, shown \in Seq(Nat) : Ordinary \subseteq Redirecting(n, shown)
  /\ Plain \subseteq Ordinary /\ TlsError \in Ordinary /\ ExchangeReply \in Ordinary
  /\ \A c \in BOOLEAN : TlsReady(c) \in Ordinary
  /\ \A p \in Answers : Confirm(p) \in Ordinary
<1>1. \A n \in Nat, shown \in Seq(Nat) : Ordinary \subseteq Redirecting(n, shown)
  BY DEF Ordinary, Redirecting
<1>2. Plain \subseteq Ordinary /\ TlsError \in Ordinary
  BY DownLiterals DEF Ordinary, Plain
<1>3. ExchangeReply \in Ordinary
  BY DownLiterals DEF Ordinary
<1>4. \A c \in BOOLEAN : TlsReady(c) \in Ordinary
  BY DownLiterals DEF Ordinary
<1>5. \A p \in Answers : Confirm(p) \in Ordinary
  BY DownLiterals DEF Ordinary
<1> QED BY <1>1, <1>2, <1>3, <1>4, <1>5

\* Only the server's answer to a request, and its redirections, change what there is to use.
Ledger ==
  \/ packets' = packets /\ presented' = presented
  \/ Sends /\ KeepClient /\ KeepLink
  \/ /\ Routes /\ KeepClient /\ KeepLink /\ Head(tcpUp).message.token # NoPacket
     /\ packets' = packets /\ presented' = Append(presented, Head(tcpUp).message.token)

LEMMA LedgerMove == ASSUME ConnectAssumption, Next PROVE Ledger
<1>1. CASE OpensAnew \/ OpensRedirect
  BY <1>1 DEF OpensAnew, OpensRedirect, Opens, Ledger
<1>2. CASE KeepOthers \/ KeepServer \/ KeepServerState
  BY <1>2 DEF KeepOthers, KeepServer, KeepServerState, Ledger
<1>3. CASE (Routes \/ Judges \/ Replies \/ Sends \/ Goes) /\ KeepClient /\ KeepLink
  BY <1>3 DEF Routes, Judges, Replies, Goes, Ledger
<1> QED BY NextMoves, <1>1, <1>2, <1>3 DEF Moves

LEMMA NegotiatingMove ==
  ASSUME ConnectAssumption, Shapes, Next, server' \in {"negotiation"} 
  PROVE  OpensAnew \/ OpensRedirect \/ server \in {"negotiation"}
<1>1. CASE KeepOthers \/ KeepServer
  BY <1>1 DEF KeepOthers, KeepServer
<1>2. CASE Routes \/ Judges \/ Replies \/ Sends \/ Goes \/ Unsecured
  BY <1>2 DEF Routes, Admits, Judges, Replies, Sends, Goes, Unsecured
<1>3. ~Secures
  <2> SUFFICES ASSUME Secures PROVE FALSE
    OBVIOUS
  <2>1. agreed \in {"SSL", "RDSTLS", "HYBRID", "HYBRID_EX"}
    BY DEF Shapes, LinkScalars, Secures, ConnectAssumption, Nla, Answers
  <2> QED BY <2>1 DEF Secures, Secured, Nla
<1> QED BY NextMoves, <1>1, <1>2, <1>3 DEF Moves

\* The server has just issued a token.
LEMMA TokensSent ==
  ASSUME ConnectAssumption, Shapes, Tokens, Sends, KeepClient, KeepLink
  PROVE  Tokens'
<1>1. /\ packets \in Nat /\ packets + 1 \in Nat /\ packet \in Nat /\ pendingRedirect \in Nat /\ presented \in Seq(Nat)
      /\ packets' = packets + 1 /\ presented' = presented /\ server' \in {"redirecting"}
      /\ UNCHANGED <<hop, pendingRedirect, packet, down>> /\ Tells(Redirect(packets + 1))
  BY Bounds DEF Shapes, Counts, Sends, KeepClient, KeepAttempt, KeepSlot, KeepLink
<1>2. /\ Issued(presented, packets) /\ Increasing(presented)
      /\ hop = (pendingRedirect # NoPacket)
      /\ Usable(pendingRedirect, packets, presented) /\ packet <= packets
      /\ down \in Seq(Redirecting(packets, presented)) /\ tcpDown \in Seq(Redirecting(packets, presented))
  BY DEF Tokens
<1>3. Issued(presented, packets + 1) /\ Usable(pendingRedirect, packets + 1, presented) /\ packet <= packets + 1
  BY <1>1, <1>2 DEF Issued, Usable, Unused
<1>4. Redirecting(packets, presented) \subseteq Redirecting(packets + 1, presented)
  <2>1. \A t \in Nat : Unused(t, packets, presented) => Unused(t, packets + 1, presented)
    BY <1>1 DEF Unused
  <2> QED BY <2>1, Fields DEF Redirecting
<1>5. Redirect(packets + 1) \in Redirecting(packets + 1, presented)
  <2>1. Unused(packets + 1, packets + 1, presented) /\ packets + 1 # NoPacket
    BY <1>1, <1>2 DEF Unused, Issued, NoPacket
  <2>2. Redirect(packets + 1) \in DownMessages /\ Redirect(packets + 1).token = packets + 1
    BY <1>1, DownLiterals
  <2> QED BY <2>1, <2>2 DEF Redirecting
<1>6. down \in Seq(Redirecting(packets + 1, presented)) /\ tcpDown \in Seq(Redirecting(packets + 1, presented))
  BY <1>2, <1>4, SeqMono
<1>7. tcpDown' \in Seq(Redirecting(packets + 1, presented))
  BY <1>1, <1>5, <1>6, Kept DEF Tells
<1> QED BY <1>1, <1>2, <1>3, <1>6, <1>7 DEF Tokens

\* The server has been shown one.
LEMMA TokensShown ==
  ASSUME ConnectAssumption, Shapes, Tokens, Routes, KeepClient, KeepLink,
         Head(tcpUp).message.token # NoPacket, packets' = packets,
         presented' = Append(presented, Head(tcpUp).message.token)
  PROVE  Tokens'
<1> DEFINE t == Head(tcpUp).message.token
           shown == Append(presented, t)
<1>1. packets \in Nat /\ presented \in Seq(Nat)
  BY Bounds DEF Shapes, Counts
<1>2. server \in {"negotiation"} /\ tcpUp # << >> /\ Head(tcpUp).message.type \in {"request"}
  BY DEF Routes, Reads
<1>3. /\ pendingRedirect = NoPacket /\ down \in Seq(Ordinary) /\ tcpDown \in Seq(Ordinary)
      /\ tcpUp \in Seq(Wired(Requesting(packets, presented)))
  BY <1>2 DEF Tokens
<1>4. t \in Nat \ {0} /\ Unused(t, packets, presented)
  <2>1. Head(tcpUp).message \in Requesting(packets, presented)
    BY <1>2, <1>3, Heads DEF Wired
  <2>2. Usable(t, packets, presented) /\ t \in Nat
    BY <1>2, <2>1, Fields DEF Requesting
  <2> QED BY <2>2 DEF Usable, NoPacket
<1>5. Issued(presented, packets) /\ Increasing(presented)
  BY DEF Tokens
<1>6. Issued(shown, packets) /\ Increasing(shown)
  <2>1. /\ DOMAIN presented = 1..Len(presented) /\ Len(presented) \in Nat
        /\ DOMAIN shown = 1..(Len(presented) + 1) /\ shown[Len(presented) + 1] = t
        /\ \A k \in DOMAIN presented : shown[k] = presented[k] /\ presented[k] \in Nat
    BY <1>1, <1>4
  <2>2. \A k \in DOMAIN presented : presented[k] < t /\ presented[k] \in 1..packets
    BY <1>4, <1>5 DEF Issued, Unused
  <2>3. t \in 1..packets
    BY <1>1, <1>4 DEF Unused
  <2> HIDE DEF t, shown
  <2>4. Issued(shown, packets)
    BY <2>1, <2>2, <2>3 DEF Issued
  <2>5. \A i, j \in DOMAIN presented : i < j => presented[i] < presented[j]
    BY <1>5 DEF Increasing
  <2>6. Increasing(shown)
    BY <2>1, <2>2, <2>5 DEF Increasing
  <2> QED BY <2>4, <2>6
<1>7. shown \in Seq(Nat)
  BY <1>1, <1>4
<1>8. tcpDown' \in Seq(Ordinary)
  <2>1. tcpDown' = tcpDown \/ \E m \in Ordinary : tcpDown' = Append(tcpDown, m)
    BY OrdinaryMessages DEF Routes, Admits, Tells
  <2> QED BY <1>3, <2>1, Kept
<1>9. down \in Seq(Redirecting(packets, shown)) /\ tcpDown' \in Seq(Redirecting(packets, shown))
  <2>1. Ordinary \subseteq Redirecting(packets, shown)
    BY <1>1, <1>7, OrdinaryMessages
  <2> QED BY <1>3, <1>8, <2>1, SeqMono
<1>10. server' \notin {"negotiation"} /\ UNCHANGED <<hop, pendingRedirect, packet, down>>
  BY DEF Routes, Admits, KeepClient, KeepAttempt, KeepSlot, KeepLink
<1>11. Usable(pendingRedirect, packets, shown) /\ hop = (pendingRedirect # NoPacket) /\ packet <= packets
  BY <1>3 DEF Tokens, Usable
<1> HIDE DEF t, shown
<1> QED BY <1>6, <1>9, <1>10, <1>11 DEF Tokens, t, shown

\* What the page and the client do with them.
LEMMA SlotStep ==
  ASSUME ConnectAssumption, Shapes, Tokens, Next, packets' = packets, presented' = presented
  PROVE  /\ hop' = (pendingRedirect' # NoPacket)
         /\ Usable(pendingRedirect', packets, presented) /\ packet' <= packets
<1>1. /\ hop = (pendingRedirect # NoPacket) /\ hop \in BOOLEAN
      /\ Usable(pendingRedirect, packets, presented) /\ packet <= packets
      /\ down \in Seq(Redirecting(packets, presented))
  BY DEF Tokens, Shapes, ClientScalars
<1>2. packets \in Nat /\ NoPacket <= packets
  BY Bounds DEF Shapes, Counts, NoPacket
<1>3. CASE OpensAnew
  BY <1>1, <1>2, <1>3 DEF OpensAnew, KeepSlot
<1>4. CASE OpensRedirect
  <2>1. pendingRedirect' = NoPacket /\ hop' = FALSE /\ packet' = pendingRedirect /\ pendingRedirect # NoPacket
    BY <1>4 DEF OpensRedirect
  <2>2. pendingRedirect <= packets
    BY <1>1, <2>1 DEF Usable, Unused
  <2> QED BY <2>1, <2>2 DEF Usable
<1>5. CASE Redirected /\ KeepOthers
  <2>1. Head(down) \in Redirecting(packets, presented)
    BY <1>1, <1>5, Heads DEF Redirected, Takes
  <2>2. Head(down).token # NoPacket /\ Unused(Head(down).token, packets, presented)
    BY <1>5, <2>1 DEF Redirected, Takes, Redirecting
  <2>3. pendingRedirect' = Head(down).token /\ hop' = TRUE /\ packet' = packet
    BY <1>5 DEF Redirected, KeepOthers, KeepAttempt
  <2> QED BY <1>1, <2>2, <2>3 DEF Usable
<1>6. CASE (KeepSlot /\ KeepOthers) \/ KeepClient
  <2>1. UNCHANGED <<hop, pendingRedirect, packet>>
    BY <1>6 DEF KeepSlot, KeepOthers, KeepAttempt, KeepClient
  <2> QED BY <1>1, <2>1
<1> QED BY NextMoves, <1>3, <1>4, <1>5, <1>6 DEF Moves

\* Requests that may still be read.
LEMMA RequestingMessages ==
  ASSUME NEW n \in Nat, NEW shown \in Seq(Nat)
  PROVE  /\ Sayable \subseteq Requesting(n, shown) /\ Upgrade \in Requesting(n, shown)
         /\ \A t \in Nat : Usable(t, n, shown) => Request(t) \in Requesting(n, shown)
<1>1. Sayable \subseteq Requesting(n, shown)
  BY DEF Sayable, Requesting
<1>2. Upgrade \in Requesting(n, shown)
  BY UpLiterals DEF Requesting
<1>3. \A t \in Nat : Usable(t, n, shown) => Request(t) \in Requesting(n, shown)
  BY UpLiterals DEF Requesting
<1> QED BY <1>1, <1>2, <1>3

LEMMA RequestsStep ==
  ASSUME ConnectAssumption, Shapes, Tokens, Next, packets' = packets, presented' = presented,
         server' \in {"negotiation"}
  PROVE  /\ pendingRedirect' = NoPacket
         /\ down' \in Seq(Ordinary) /\ tcpDown' \in Seq(Ordinary)
         /\ client' = "send request" => Usable(packet', packets, presented)
         /\ up' \in Seq(Requesting(packets, presented))
         /\ tcpUp' \in Seq(Wired(Requesting(packets, presented)))
<1> DEFINE S == Requesting(packets, presented)
<1>0. packets \in Nat /\ presented \in Seq(Nat) /\ packet \in Nat
  BY Bounds DEF Shapes, Counts
<1>1. CASE OpensAnew \/ OpensRedirect
  <2>1. up' = << >> /\ down' = << >> /\ tcpUp' = << >>
    BY <1>1 DEF OpensAnew, OpensRedirect, Opens
  <2>2. tcpDown' = << >>
    BY <1>1 DEF OpensAnew, OpensRedirect, Opens
  <2>3. pendingRedirect' = NoPacket /\ Usable(packet', packets, presented)
    BY <1>1 DEF OpensAnew, OpensRedirect, KeepSlot, Tokens, Usable, Shapes, ClientScalars
  <2> QED BY <2>1, <2>2, <2>3
<1>2. ASSUME ~OpensAnew, ~OpensRedirect, server \in {"negotiation"}
      PROVE  /\ pendingRedirect' = NoPacket
             /\ down' \in Seq(Ordinary) /\ tcpDown' \in Seq(Ordinary)
             /\ client' = "send request" => Usable(packet', packets, presented)
             /\ up' \in Seq(S) /\ tcpUp' \in Seq(Wired(S))
  <2>1. /\ pendingRedirect = NoPacket
        /\ down \in Seq(Ordinary) /\ tcpDown \in Seq(Ordinary)
        /\ client \in {"send request"} => Usable(packet, packets, presented)
        /\ up \in Seq(S) /\ tcpUp \in Seq(Wired(S))
    BY <1>2 DEF Tokens
  <2>2. pendingRedirect' = NoPacket /\ packet' = packet
    <3>1. CASE Redirected
      <4>1. Head(down) \in Ordinary
        BY <2>1, <3>1, Heads DEF Redirected, Takes
      <4> QED BY <3>1, <4>1 DEF Redirected, Takes, Ordinary
    <3>2. CASE (KeepSlot /\ KeepOthers) \/ KeepClient
      BY <2>1, <3>2 DEF KeepSlot, KeepOthers, KeepAttempt, KeepClient
    <3> QED BY <1>2, <3>1, <3>2, NextMoves DEF Moves
  <2>3. down' \in Seq(Ordinary)
    <3>1. tcpDown # << >> => Head(tcpDown) \in Ordinary
      BY <2>1, Heads
    <3>2. \/ down' = down \/ down' = << >> \/ (down # << >> /\ down' = Tail(down))
          \/ \E m \in Ordinary : down' = Append(down, m)
      BY <3>1, DownMove, OrdinaryMessages DEF DownMoves
    <3> QED BY <2>1, <3>2, Kept
  <2>4. tcpDown' \in Seq(Ordinary)
    <3>1. \/ tcpDown' = tcpDown \/ tcpDown' = << >> \/ (tcpDown # << >> /\ tcpDown' = Tail(tcpDown))
          \/ \E m \in Ordinary : tcpDown' = <<m>> \/ tcpDown' = Append(tcpDown, m)
      BY <1>2, TcpDownMove, OrdinaryMessages DEF TcpDownMoves
    <3> QED BY <2>1, <3>1, Kept
  <2>5. client' = "send request" => Usable(packet', packets, presented)
    <3>1. client' \in {"send request"} => client' = client
      BY <1>2, ClientMove DEF ClientMoves, KeepClient, Asks, Rounding, Exchanging, Confirming,
             Securing, Reading, Authenticating,
         Replied, Leaving, Redirected
    <3> QED BY <2>1, <2>2, <3>1
  <2>6. up' \in Seq(S)
    <3>1. client \in {"send request"} => Request(packet) \in S
      BY <1>0, <2>1, RequestingMessages
    <3>2. \/ up' = up \/ up' = << >> \/ (up # << >> /\ up' = Tail(up))
          \/ \E m \in S : up' = Append(up, m)
      BY <1>0, <3>1, UpMove, RequestingMessages DEF UpMoves
    <3> QED BY <2>1, <3>2, Kept
  <2>7. tcpUp' \in Seq(Wired(S))
    <3>1. up # << >> => Head(up) \in S
      BY <2>1, Heads
    <3>2. (proxy \in {"tls"}) \in BOOLEAN
      OBVIOUS
    <3>3. up # << >> => [tls |-> proxy \in {"tls"}, message |-> Head(up)] \in Wired(S)
      BY <3>1, <3>2 DEF Wired
    <3>4. \/ tcpUp' = tcpUp \/ tcpUp' = << >> \/ (tcpUp # << >> /\ tcpUp' = Tail(tcpUp))
          \/ \E w \in Wired(S) : tcpUp' = Append(tcpUp, w)
      BY <3>3, TcpUpMove DEF TcpUpMoves
    <3> QED BY <2>1, <3>4, Kept
  <2> QED BY <2>2, <2>3, <2>4, <2>5, <2>6, <2>7
<1> QED BY <1>1, <1>2, NegotiatingMove

LEMMA RedirectsStep ==
  ASSUME ConnectAssumption, Shapes, Tokens, Next, packets' = packets, presented' = presented
  PROVE  /\ down' \in Seq(Redirecting(packets, presented))
         /\ tcpDown' \in Seq(Redirecting(packets, presented))
<1> DEFINE S == Redirecting(packets, presented)
<1>0. packets \in Nat /\ presented \in Seq(Nat) /\ packets # packets + 1
  BY Bounds DEF Shapes, Counts
<1>1. down \in Seq(S) /\ tcpDown \in Seq(S) /\ Ordinary \subseteq S
  BY <1>0, OrdinaryMessages DEF Tokens
<1>2. tcpDown # << >> => Head(tcpDown) \in S
  BY <1>1, Heads
<1>3. \/ down' = down \/ down' = << >> \/ (down # << >> /\ down' = Tail(down))
      \/ \E m \in S : down' = Append(down, m)
  BY <1>1, <1>2, DownMove, OrdinaryMessages DEF DownMoves
<1>4. \/ tcpDown' = tcpDown \/ tcpDown' = << >> \/ (tcpDown # << >> /\ tcpDown' = Tail(tcpDown))
      \/ \E m \in S : tcpDown' = <<m>> \/ tcpDown' = Append(tcpDown, m)
  BY <1>0, <1>1, TcpDownMove, OrdinaryMessages DEF TcpDownMoves
<1> QED BY <1>1, <1>3, <1>4, Kept

LEMMA TokensStep == ASSUME ConnectAssumption, Shapes, Tokens, Next PROVE Tokens'
<1>1. CASE packets' = packets /\ presented' = presented
  BY <1>1, SlotStep, RequestsStep, RedirectsStep DEF Tokens
<1> QED BY <1>1, TokensSent, TokensShown, LedgerMove DEF Ledger

-----------------------------------------------------------------------------
\* The rounds.
\* The states of the client by what the round counts there.
Uncounted == {"send request", "wait confirm", "tls ready", "early auth", "capabilities", "auth response"}
Authenticates == {"credssp", "credssp reply"}
Finalizes == {"exchange", "exchange reply"}

LEMMA RoundsByState ==
  Rounds <=> /\ client \in Uncounted => round = 0
             /\ client \in Authenticates => round <= NtlmRounds /\ key = TRUE
             /\ client \in Finalizes => round < Exchanges
             /\ round <= NtlmRounds \/ round <= Exchanges
BY DEF Rounds, Uncounted, Authenticates, Finalizes

LEMMA RoundsStep == ASSUME ConnectAssumption, Shapes, Rounds, Next PROVE Rounds'
<1>0. round \in Nat /\ NtlmRounds \in Nat /\ Exchanges \in Nat \ {0}
  BY Bounds DEF Shapes, Counts
<1>1. /\ client \in Uncounted => round = 0
      /\ client \in Authenticates => round <= NtlmRounds /\ key = TRUE
      /\ client \in Finalizes => round < Exchanges
      /\ round <= NtlmRounds \/ round <= Exchanges
  BY RoundsByState
<1> DEFINE Good == /\ client' \in Uncounted => round' = 0
                   /\ client' \in Authenticates => round' <= NtlmRounds /\ key' = TRUE
                   /\ client' \in Finalizes => round' < Exchanges
                   /\ round' <= NtlmRounds \/ round' <= Exchanges
<1> SUFFICES Good
  BY DEF Rounds, Uncounted, Authenticates, Finalizes
<1>2. ASSUME round' = 0, client' \notin Authenticates \/ (client' \in Authenticates /\ key' = TRUE) PROVE Good
  BY <1>0, <1>2
<1>3. CASE OpensAnew \/ OpensRedirect
  <2>1. round' = 0 /\ client' \notin Authenticates
    BY <1>3 DEF OpensAnew, OpensRedirect, Opens, Authenticates
  <2> QED BY <1>2, <2>1
<1>4. CASE KeepClient
  BY <1>1, <1>4 DEF KeepClient
<1>5. CASE Asks \/ Confirming \/ Authenticating
  <2>1. client \in Uncounted /\ round' = round /\ client' \notin Authenticates
    BY <1>5 DEF Asks, Confirming, Authenticating, Uncounted, Authenticates, Finalizes
  <2> QED BY <1>1, <1>2, <2>1
<1>6. CASE Securing
  <2>1. client \in Uncounted /\ round' = round
    BY <1>6 DEF Securing, Uncounted, Authenticates, Finalizes
  <2>2. client' \notin Authenticates \/ (client' \in Authenticates /\ key' = TRUE)
    BY <1>6 DEF Securing, Uncounted, Authenticates, Finalizes
  <2> QED BY <1>1, <1>2, <2>1, <2>2
<1>7. CASE Rounding
  <2>1. client \in Authenticates /\ round <= NtlmRounds /\ key = TRUE
    <3>1. client \in Authenticates
      BY <1>7 DEF Rounding, Uncounted, Authenticates, Finalizes
    <3> QED BY <1>1, <3>1
  <2>2. \/ client' \in {"credssp reply"} /\ round' = round + 1 /\ round < NtlmRounds /\ key' = TRUE
        \/ client' \notin Authenticates /\ round' = 0
    BY <1>7, <2>1 DEF Rounding, Uncounted, Authenticates, Finalizes
  <2>3. CASE client' \in {"credssp reply"} /\ round' = round + 1 /\ round < NtlmRounds /\ key' = TRUE
    <3>0. round' = round + 1 /\ round < NtlmRounds
      BY <2>3
    <3>1. round' <= NtlmRounds
      BY <1>0, <3>0
    <3>2. client' \notin Uncounted /\ client' \notin Finalizes
      BY <2>3 DEF Uncounted, Finalizes
    <3> QED BY <2>3, <3>1, <3>2
  <2> QED BY <1>2, <2>2, <2>3
<1>8. CASE Exchanging
  <2>1. client \in Finalizes /\ client' \notin Uncounted \cup Authenticates /\ round' = round
    BY <1>8 DEF Exchanging, Uncounted, Authenticates, Finalizes
  <2> QED BY <1>0, <1>1, <2>1
<1>9. CASE Reading
  <2>1. CASE client \in Authenticates
    <3>1. client' \notin Uncounted \cup Finalizes /\ round' = round /\ key' = key
      BY <1>9, <2>1 DEF Reading, Uncounted, Authenticates, Finalizes
    <3> QED BY <1>1, <2>1, <3>1
  <2>2. CASE client \notin Authenticates
    <3>1. client \in Uncounted /\ client' \notin Authenticates /\ round' = round
      BY <1>9, <2>2 DEF Reading, Uncounted, Authenticates, Finalizes
    <3> QED BY <1>1, <1>2, <3>1
  <2> QED BY <2>1, <2>2
<1>10. CASE Replied
  <2>1. client \in Finalizes /\ round' = round + 1 /\ client' \notin Uncounted \cup Authenticates
    BY <1>10 DEF Replied, Uncounted, Authenticates, Finalizes
  <2>2. client' \notin Finalizes \/ round' # Exchanges
    BY <1>10 DEF Replied, Uncounted, Authenticates, Finalizes
  <2>3. round' <= Exchanges /\ (client' \in Finalizes => round' < Exchanges)
    BY <1>0, <1>1, <2>1, <2>2
  <2> QED BY <2>1, <2>3
<1>11. CASE Leaving \/ Redirected
  <2>1. client' \notin Uncounted \cup Authenticates \cup Finalizes /\ round' = round
    BY <1>11 DEF Leaving, Redirected, Uncounted, Authenticates, Finalizes
  <2> QED BY <1>1, <2>1
<1> QED BY ClientMove, <1>3, <1>4, <1>5, <1>6, <1>7, <1>8, <1>9, <1>10, <1>11 DEF ClientMoves

-----------------------------------------------------------------------------
\* Who is connected has been accepted.
LEMMA SilentMessages ==
  /\ Plain \subseteq NoReply /\ TlsError \in NoReply
  /\ \A c \in BOOLEAN : TlsReady(c) \in NoReply
  /\ \A p \in Answers : Confirm(p) \in NoReply
  /\ \A t \in Nat : Redirect(t) \in NoReply
<1>1. Plain \subseteq NoReply /\ TlsError \in NoReply
  BY DownLiterals DEF NoReply, Plain
<1>2. \A c \in BOOLEAN : TlsReady(c) \in NoReply
  BY DownLiterals DEF NoReply
<1>3. \A p \in Answers : Confirm(p) \in NoReply
  BY DownLiterals DEF NoReply
<1>4. \A t \in Nat : Redirect(t) \in NoReply
  BY DownLiterals DEF NoReply
<1> QED BY <1>1, <1>2, <1>3, <1>4

\* As long as the server does not, there is no reply, and nobody is connected.
LEMMA SilenceKept ==
  ASSUME ConnectAssumption, Shapes, Next, server \notin {"exchange"}, client \notin {"connected"},
         down \in Seq(NoReply), tcpDown \in Seq(NoReply)
  PROVE  client' # "connected" /\ down' \in Seq(NoReply) /\ tcpDown' \in Seq(NoReply)
<1>1. client' # "connected"
  <2>1. CASE OpensAnew \/ OpensRedirect
    BY <2>1 DEF OpensAnew, OpensRedirect, Opens
  <2>2. ~Replied
    <3>1. down # << >> => Head(down) \in NoReply
      BY Heads
    <3> QED BY <3>1 DEF Replied, Takes, NoReply
  <2> QED BY ClientMove, <2>1, <2>2
          DEF ClientMoves, KeepClient, Asks, Rounding, Exchanging, Confirming, Securing, Reading, Authenticating,
              Leaving, Redirected
<1>2. tcpDown # << >> => Head(tcpDown) \in NoReply
  BY Heads
<1>3. \/ down' = down \/ down' = << >> \/ (down # << >> /\ down' = Tail(down))
      \/ \E m \in NoReply : down' = Append(down, m)
  BY <1>2, DownMove, SilentMessages DEF DownMoves
<1>4. \/ tcpDown' = tcpDown \/ tcpDown' = << >> \/ (tcpDown # << >> /\ tcpDown' = Tail(tcpDown))
      \/ \E m \in NoReply : tcpDown' = <<m>> \/ tcpDown' = Append(tcpDown, m)
  <2>1. packets' = packets + 1 => Redirect(packets') \in NoReply
    <3>1. packets \in Nat /\ packets + 1 \in Nat
      BY Bounds DEF Shapes, Counts
    <3> QED BY <3>1, SilentMessages
  <2> QED BY <2>1, TcpDownMove, SilentMessages DEF TcpDownMoves
<1> QED BY <1>1, <1>3, <1>4, Kept

Early == {"negotiation", "handshake", "credssp", "rdstls"}

LEMMA UngrantedStep == ASSUME ConnectAssumption, Shapes, Ungranted, Next PROVE Ungranted'
<1> SUFFICES ASSUME server' \in Early
             PROVE  client' # "connected" /\ down' \in Seq(NoReply) /\ tcpDown' \in Seq(NoReply)
  BY DEF Ungranted, Early
<1>1. CASE OpensAnew \/ OpensRedirect
  <2>1. client' # "connected"
    BY <1>1 DEF OpensAnew, OpensRedirect, Opens
  <2>2. down' = << >> /\ tcpDown' = << >>
    BY <1>1 DEF OpensAnew, OpensRedirect, Opens
  <2> QED BY <2>1, <2>2
<1>2. CASE server \in Early
  <2>1. server \notin {"exchange"} /\ client \notin {"connected"} /\ down \in Seq(NoReply) /\ tcpDown \in Seq(NoReply)
    BY <1>2 DEF Ungranted, Early
  <2> QED BY <2>1, SilenceKept
<1>3. OpensAnew \/ OpensRedirect \/ server \in Early
  <2>1. CASE KeepOthers \/ KeepServer
    BY <2>1 DEF KeepOthers, KeepServer
  <2>2. CASE Secures \/ Unsecured \/ Routes \/ Judges \/ Replies \/ Sends \/ Goes
    BY <2>2 DEF Secures, Unsecured, Routes, Admits, Judges, Replies, Sends, Goes, Early
  <2> QED BY NextMoves, <2>1, <2>2 DEF Moves
<1> QED BY <1>1, <1>2, <1>3

\* What the server has accepted stays so until the next connection.
LEMMA GrantedStep ==
  ASSUME ConnectAssumption, Shapes, Granted, Ungranted, Next PROVE Granted'
<1>0. CASE Accepted(authenticated, agreed) /\ UNCHANGED <<authenticated, agreed>>
  BY <1>0 DEF Granted
<1> DEFINE Silent == /\ client # "connected" /\ server \notin {"exchange", "active", "redirecting"}
                     /\ down \in Seq(NoReply) /\ tcpDown \in Seq(NoReply)
<1>1. Silent \/ Accepted(authenticated, agreed)
  BY DEF Granted
<1>2. ASSUME Silent, server' \notin {"exchange", "active", "redirecting"} PROVE Silent'
  <2>1. client' # "connected" /\ down' \in Seq(NoReply) /\ tcpDown' \in Seq(NoReply)
    BY <1>2, SilenceKept
  <2> QED BY <1>2, <2>1
<1>3. server \in Early => Silent
  BY DEF Ungranted, Early
<1>4. Silent' => Granted'
  BY DEF Granted
<1> HIDE DEF Silent
<1>5. CASE OpensAnew \/ OpensRedirect
  <2>1. client' # "connected" /\ server' \notin {"exchange", "active", "redirecting"}
    BY <1>5 DEF OpensAnew, OpensRedirect, Opens
  <2>2. down' = << >> /\ tcpDown' = << >>
    BY <1>5 DEF OpensAnew, OpensRedirect, Opens
  <2> QED BY <1>4, <2>1, <2>2 DEF Silent
<1>6. CASE KeepOthers \/ KeepServer
  <2>1. UNCHANGED <<server, authenticated, agreed>>
    BY <1>6 DEF KeepOthers, KeepServer
  <2>2. Silent => server' \notin {"exchange", "active", "redirecting"}
    BY <2>1 DEF Silent
  <2> QED BY <1>0, <1>1, <1>2, <1>4, <2>1, <2>2
<1>7. CASE Unsecured /\ KeepServerState
  <2>1. server' \notin {"exchange", "active", "redirecting"} /\ UNCHANGED <<authenticated, agreed>>
    BY <1>7 DEF Unsecured, KeepServerState
  <2> QED BY <1>0, <1>1, <1>2, <1>4, <2>1
<1>8. CASE Secures /\ KeepServerState
  <2>1. Silent /\ UNCHANGED <<authenticated, agreed>>
    BY <1>3, <1>8 DEF Secures, Early, KeepServerState
  <2>2. agreed \in {"SSL", "RDSTLS", "HYBRID", "HYBRID_EX"}
    BY <1>8 DEF Shapes, LinkScalars, Secures, ConnectAssumption, Nla, Answers
  <2>3. CASE agreed \in {"SSL"}
    BY <1>0, <2>1, <2>3 DEF Accepted
  <2>4. CASE agreed \notin {"SSL"}
    <3>1. server' \in {"credssp", "rdstls"}
      BY <1>8, <2>2, <2>4 DEF Secures, Secured, Nla
    <3> QED BY <1>2, <1>4, <2>1, <3>1
  <2> QED BY <2>3, <2>4
<1>9. CASE Routes
  <2>1. Silent /\ server' \notin {"exchange", "active", "redirecting"}
    BY <1>3, <1>9 DEF Routes, Admits, Early
  <2> QED BY <1>2, <1>4, <2>1
<1>10. CASE Judges
  <2>1. Silent
    BY <1>3, <1>10 DEF Judges, Early
  <2>2. authenticated' \in {TRUE} \/ server' \notin {"exchange", "active", "redirecting"}
    BY <1>10 DEF Judges
  <2>3. CASE authenticated' \in {TRUE}
    BY <2>3 DEF Granted, Accepted
  <2> QED BY <1>2, <1>4, <2>1, <2>2, <2>3
<1>11. CASE Replies \/ Sends
  <2>1. ~Silent /\ UNCHANGED <<authenticated, agreed>>
    BY <1>11 DEF Replies, Sends, Silent
  <2> QED BY <1>0, <1>1, <2>1
<1>12. CASE Goes
  <2>1. server' \notin {"exchange", "active", "redirecting"} /\ UNCHANGED <<authenticated, agreed>>
    BY <1>12 DEF Goes
  <2> QED BY <1>0, <1>1, <1>2, <1>4, <2>1
<1> QED BY NextMoves, <1>5, <1>6, <1>7, <1>8, <1>9, <1>10, <1>11, <1>12 DEF Moves

-----------------------------------------------------------------------------
\* Both sides took the same protocol, in the session that the redirection leads to.
LEMMA UnconfirmingMessages ==
  /\ \A p \in Answers, r \in BOOLEAN : NoConfirm \subseteq Confirms(p, r)
  /\ Plain \subseteq NoConfirm /\ TlsError \in NoConfirm /\ ExchangeReply \in NoConfirm
  /\ \A c \in BOOLEAN : TlsReady(c) \in NoConfirm
  /\ \A t \in Nat : Redirect(t) \in NoConfirm
<1>1. \A p \in Answers, r \in BOOLEAN : NoConfirm \subseteq Confirms(p, r)
  BY DEF NoConfirm, Confirms
<1>2. Plain \subseteq NoConfirm /\ TlsError \in NoConfirm
  BY DownLiterals DEF NoConfirm, Plain
<1>3. ExchangeReply \in NoConfirm
  BY DownLiterals DEF NoConfirm
<1>4. \A c \in BOOLEAN : TlsReady(c) \in NoConfirm
  BY DownLiterals DEF NoConfirm
<1>5. \A t \in Nat : Redirect(t) \in NoConfirm
  BY DownLiterals DEF NoConfirm
<1> QED BY <1>1, <1>2, <1>3, <1>4, <1>5

LEMMA OwnMessages ==
  ASSUME NEW p \in Nat
  PROVE  Sayable \subseteq Own(p) /\ Upgrade \in Own(p) /\ Request(p) \in Own(p)
<1>1. Sayable \subseteq Own(p)
  BY DEF Sayable, Own
<1>2. Upgrade \in Own(p)
  BY UpLiterals DEF Own
<1>3. Request(p) \in Own(p)
  BY UpLiterals DEF Own
<1> QED BY <1>1, <1>2, <1>3

\* A queue that only its own kind of message joins.
LEMMA DownKept ==
  ASSUME ConnectAssumption, Shapes, Next, ~Routes, NEW S, NoConfirm \subseteq S,
         down \in Seq(S), tcpDown \in Seq(S)
  PROVE  down' \in Seq(S) /\ tcpDown' \in Seq(S)
<1>1. tcpDown # << >> => Head(tcpDown) \in S
  BY Heads
<1>2. \/ down' = down \/ down' = << >> \/ (down # << >> /\ down' = Tail(down))
      \/ \E m \in S : down' = Append(down, m)
  BY <1>1, DownMove, UnconfirmingMessages DEF DownMoves
<1>3. \/ tcpDown' = tcpDown \/ tcpDown' = << >> \/ (tcpDown # << >> /\ tcpDown' = Tail(tcpDown))
      \/ \E m \in S : tcpDown' = <<m>> \/ tcpDown' = Append(tcpDown, m)
  <2>1. packets' = packets + 1 => Redirect(packets') \in S
    <3>1. packets \in Nat /\ packets + 1 \in Nat
      BY Bounds DEF Shapes, Counts
    <3> QED BY <3>1, UnconfirmingMessages
  <2> QED BY <2>1, TcpDownMove, UnconfirmingMessages DEF TcpDownMoves
<1> QED BY <1>2, <1>3, Kept

\* Whether a packet leads to the session is a plain yes or no.
LEMMA RoutedIsBoolean == \A p, shown : Routed(p, shown) \in BOOLEAN
BY DEF Routed

\* The server answers a request.
LEMMA AgreedRouted ==
  ASSUME ConnectAssumption, Shapes, Agreed, Routes, KeepClient, KeepLink
  PROVE  Agreed'
<1>1. /\ server \in {"negotiation"} /\ tcpUp # << >> /\ Head(tcpUp).message.type \in {"request"}
      /\ server' \notin {"negotiation"}
  BY DEF Routes, Reads, Admits
<1>2. /\ redirected = (packet # NoPacket) /\ client \notin Begun
      /\ down \in Seq(NoConfirm) /\ tcpDown \in Seq(NoConfirm) /\ tcpUp \in Seq(Wired(Own(packet)))
  BY <1>1 DEF Agreed
<1>3. UNCHANGED <<redirected, packet, client, selected, down>>
  BY DEF KeepClient, KeepAttempt, KeepLink
<1>4. Head(tcpUp).message.token = packet
  <2>1. Head(tcpUp).message \in Own(packet)
    BY <1>1, <1>2, Heads DEF Wired
  <2> QED BY <1>1, <2>1 DEF Own
<1>5. Routed(packet, presented')
  <2>1. packet \in Nat /\ presented \in Seq(Nat)
    BY DEF Shapes, Counts
  <2>2. packet # NoPacket => presented' = Append(presented, packet)
    BY <1>4 DEF Routes
  <2>3. Append(presented, packet) # << >> /\ Last(Append(presented, packet)) = packet
    BY <2>1 DEF Last
  <2> QED BY <2>2, <2>3 DEF Routed
<1> DEFINE S == Confirms(agreed', TRUE)
<1>6. agreed' \in Answers /\ Routed(packet', presented') = TRUE
  BY <1>3, <1>5, LinkScalarsStep, RoutedIsBoolean DEF Routes, Admits, Shapes, LinkScalars
<1>7. NoConfirm \subseteq S
  BY <1>6, UnconfirmingMessages
<1>8. down' \in Seq(S)
  BY <1>2, <1>3, <1>7, SeqMono
<1>9. tcpDown' \in Seq(S)
  <2>1. tcpDown \in Seq(S)
    BY <1>2, <1>7, SeqMono
  <2>2. \A p \in Answers : Confirm(p) \in Confirms(p, TRUE)
    BY DownLiterals DEF Confirms
  <2>3. tcpDown' = tcpDown \/ \E m \in S : tcpDown' = Append(tcpDown, m)
    BY <1>6, <2>2 DEF Routes, Admits, Tells
  <2> QED BY <2>1, <2>3, Kept
<1> HIDE DEF S
<1> QED BY <1>1, <1>2, <1>3, <1>6, <1>8, <1>9 DEF Agreed, S

\* A new connection.
LEMMA AgreedOpened == ASSUME Agreed, Shapes, OpensAnew \/ OpensRedirect PROVE Agreed'
<1>1. down' = << >> /\ up' = << >> /\ tcpUp' = << >>
  BY DEF OpensAnew, OpensRedirect, Opens
<1>2. tcpDown' = << >> /\ client' \in {"send request", "closed"}
  BY DEF OpensAnew, OpensRedirect, Opens
<1>3. redirected' = (packet' # NoPacket)
  BY DEF OpensAnew, OpensRedirect, NoPacket
<1>4. client' \notin Begun
  BY <1>2 DEF Begun
<1>5. \A S : << >> \in Seq(S)
  OBVIOUS
<1>6. /\ down' \in Seq(Confirms(agreed', Routed(packet', presented'))) /\ down' \in Seq(NoConfirm)
      /\ tcpDown' \in Seq(Confirms(agreed', Routed(packet', presented'))) /\ tcpDown' \in Seq(NoConfirm)
      /\ up' \in Seq(Own(packet')) /\ tcpUp' \in Seq(Wired(Own(packet')))
  BY <1>1, <1>2, <1>5
<1> QED BY <1>3, <1>4, <1>6 DEF Agreed

\* Any other step leaves what was agreed alone.
LEMMA AgreedMove ==
  ASSUME ConnectAssumption, Next, ~Routes, ~OpensAnew, ~OpensRedirect
  PROVE  UNCHANGED <<redirected, packet, presented, agreed>>
<1>1. CASE KeepOthers
  BY <1>1 DEF KeepOthers, KeepAttempt, KeepServer
<1>2. CASE KeepClient /\ (KeepServer \/ KeepServerState \/ Judges \/ Replies \/ Sends \/ Goes)
  BY <1>2 DEF KeepClient, KeepAttempt, KeepServer, KeepServerState, Judges, Replies, Sends, Goes
<1> QED BY NextMoves, <1>1, <1>2 DEF Moves

LEMMA AgreedStep == ASSUME ConnectAssumption, Shapes, Agreed, Next PROVE Agreed'
<1>1. CASE OpensAnew \/ OpensRedirect
  BY <1>1, AgreedOpened
<1>2. CASE Routes /\ ~OpensAnew /\ ~OpensRedirect
  <2>1. got' # got
    BY <1>2 DEF Routes, Reads, Shapes, Queues
  <2>2. KeepClient /\ KeepLink
    BY <1>2, <2>1, NextMoves DEF Moves, KeepOthers, KeepServer, KeepServerState
  <2> QED BY <1>2, <2>2, AgreedRouted
<1>3. CASE ~Routes /\ ~OpensAnew /\ ~OpensRedirect
  <2>1. UNCHANGED <<redirected, packet, presented, agreed>>
    BY <1>3, AgreedMove
  <2> DEFINE S == Confirms(agreed, Routed(packet, presented))
  <2>2. redirected = (packet # NoPacket) /\ down \in Seq(S) /\ tcpDown \in Seq(S)
    BY DEF Agreed
  <2>3. NoConfirm \subseteq S
    BY RoutedIsBoolean, UnconfirmingMessages DEF Shapes, LinkScalars
  <2>4. down' \in Seq(S) /\ tcpDown' \in Seq(S)
    <3> HIDE DEF S
    <3> QED BY <1>3, <2>2, <2>3, DownKept
  <2>5. client' \in Begun =>
          selected' = agreed /\ Routed(packet, presented) /\ (redirected => selected' = "RDSTLS")
    <3>1. CASE client \in Begun /\ selected' = selected
      BY <3>1 DEF Agreed
    <3>2. CASE Confirming
      <4>1. Head(down) \in S
        BY <2>2, <3>2, Heads DEF Confirming, Takes
      <4>2. Head(down).protocol = agreed /\ Routed(packet, presented)
        BY <3>2, <4>1 DEF Confirming, Takes, Confirms
      <4>3. client' \in {"closed"} \/ (selected' = Head(down).protocol /\ (redirected => selected' \in {"RDSTLS"}))
        BY <3>2 DEF Confirming
      <4> QED BY <4>2, <4>3 DEF Begun
    <3>3. CASE KeepClient
      BY <3>3 DEF KeepClient, Agreed
    <3>4. CASE Asks \/ Leaving \/ Redirected
      <4>1. client' \notin Begun
        BY <3>4 DEF Asks, Leaving, Redirected, Begun
      <4> QED BY <4>1
    <3>5. CASE Rounding \/ Exchanging \/ Securing \/ Reading \/ Authenticating \/ Replied
      BY <3>1, <3>5 DEF Rounding, Exchanging, Securing, Reading, Authenticating, Replied, Begun
    <3> QED BY <1>3, <3>2, <3>3, <3>4, <3>5, ClientMove DEF ClientMoves
  <2>6. ASSUME server' \in {"negotiation"}
        PROVE  /\ client' \notin Begun /\ down' \in Seq(NoConfirm) /\ tcpDown' \in Seq(NoConfirm)
               /\ up' \in Seq(Own(packet)) /\ tcpUp' \in Seq(Wired(Own(packet)))
    <3>1. server \in {"negotiation"}
      BY <1>3, <2>6, NegotiatingMove
    <3>2. /\ client \notin Begun /\ down \in Seq(NoConfirm) /\ tcpDown \in Seq(NoConfirm)
          /\ up \in Seq(Own(packet)) /\ tcpUp \in Seq(Wired(Own(packet)))
      BY <3>1 DEF Agreed
    <3>3. client' \notin Begun
      <4>1. ~Confirming
        <5>1. down # << >> => Head(down) \in NoConfirm
          BY <3>2, Heads
        <5> QED BY <5>1 DEF Confirming, Takes, NoConfirm
      <4>2. CASE KeepClient
        BY <3>2, <4>2 DEF KeepClient
      <4>3. CASE Asks \/ Leaving \/ Redirected
        BY <4>3 DEF Asks, Leaving, Redirected, Begun
      <4>4. ~(Rounding \/ Exchanging \/ Securing \/ Reading \/ Authenticating \/ Replied)
        BY <3>2 DEF Rounding, Exchanging, Securing, Reading, Authenticating, Replied, Begun
      <4> QED BY <1>3, <4>1, <4>2, <4>3, <4>4, ClientMove DEF ClientMoves
    <3>4. down' \in Seq(NoConfirm) /\ tcpDown' \in Seq(NoConfirm)
      BY <1>3, <3>2, DownKept
    <3>5. packet \in Nat
      BY DEF Shapes, Counts
    <3>6. up' \in Seq(Own(packet))
      <4>1. \/ up' = up \/ up' = << >> \/ (up # << >> /\ up' = Tail(up))
            \/ \E m \in Own(packet) : up' = Append(up, m)
        BY <3>5, UpMove, OwnMessages DEF UpMoves
      <4> QED BY <3>2, <4>1, Kept
    <3>7. tcpUp' \in Seq(Wired(Own(packet)))
      <4>1. up # << >> => Head(up) \in Own(packet)
        BY <3>2, Heads
      <4>2. (proxy \in {"tls"}) \in BOOLEAN
        OBVIOUS
      <4>3. up # << >> => [tls |-> proxy \in {"tls"}, message |-> Head(up)] \in Wired(Own(packet))
        BY <4>1, <4>2 DEF Wired
      <4>4. \/ tcpUp' = tcpUp \/ tcpUp' = << >> \/ (tcpUp # << >> /\ tcpUp' = Tail(tcpUp))
            \/ \E w \in Wired(Own(packet)) : tcpUp' = Append(tcpUp, w)
        BY <4>3, TcpUpMove DEF TcpUpMoves
      <4> QED BY <3>2, <4>4, Kept
    <3> QED BY <3>3, <3>4, <3>6, <3>7
  <2> HIDE DEF S
  <2> QED BY <2>1, <2>2, <2>4, <2>5, <2>6 DEF Agreed, S
<1> QED BY <1>1, <1>2, <1>3

-----------------------------------------------------------------------------
\* The invariant, whole.
Inv == Shapes /\ Rounds /\ InClear /\ Tokens /\ Authentic

LEMMA InitInv == ASSUME ConnectAssumption, Init PROVE Inv
<1> USE DEF Init
<1>1. Shapes
  <2>1. Queues
    BY DEF Queues
  <2>2. ClientScalars /\ LinkScalars
    BY NoAnswer DEF ClientScalars, LinkScalars, ClientStates, ServerStates, Over
  <2>3. Counts
    BY Bounds DEF Counts, NoPacket
  <2> QED BY <2>1, <2>2, <2>3 DEF Shapes
<1>2. Rounds
  BY Bounds DEF Rounds
<1>3. InClear
  BY DEF InClear, Over
<1>0. \A S : << >> \in Seq(S)
  OBVIOUS
<1>4. Tokens
  <2>1. Issued(presented, packets) /\ Increasing(presented)
    BY DEF Issued, Increasing
  <2>2. hop = (pendingRedirect # NoPacket)
    BY DEF NoPacket
  <2>3. Usable(pendingRedirect, packets, presented) /\ packet <= packets
    BY DEF Usable, NoPacket
  <2>4. /\ down \in Seq(Redirecting(packets, presented)) /\ tcpDown \in Seq(Redirecting(packets, presented))
        /\ server # "negotiation"
    BY <1>0
  <2> QED BY <2>1, <2>2, <2>3, <2>4 DEF Tokens
<1>5. Agreed
  <2>1. redirected = (packet # NoPacket)
    BY DEF NoPacket
  <2>2. client \notin Begun /\ server # "negotiation"
    BY DEF Begun
  <2>3. /\ down \in Seq(Confirms(agreed, Routed(packet, presented)))
        /\ tcpDown \in Seq(Confirms(agreed, Routed(packet, presented)))
    BY <1>0
  <2> QED BY <2>1, <2>2, <2>3 DEF Agreed
<1>6. Granted /\ Ungranted
  BY DEF Granted, Ungranted
<1> QED BY <1>1, <1>2, <1>3, <1>4, <1>5, <1>6 DEF Inv, Authentic

LEMMA StutterInv == ASSUME Inv, UNCHANGED vars PROVE Inv'
<1> USE DEF Inv, vars, attemptVars, slotVars, relayVars, serverVars
<1>1. Shapes'
  BY DEF Shapes, Queues, ClientScalars, LinkScalars, Counts
<1>2. Rounds'
  BY DEF Rounds
<1>3. InClear'
  BY DEF InClear
<1>4. Tokens'
  BY DEF Tokens
<1>5. Authentic'
  BY DEF Authentic, Agreed, Granted, Ungranted
<1> QED BY <1>1, <1>2, <1>3, <1>4, <1>5

LEMMA NextInv == ASSUME ConnectAssumption, Inv, Next PROVE Inv'
BY ShapesStep, RoundsStep, InClearStep, TokensStep, AgreedStep, GrantedStep, UngrantedStep DEF Inv,
       Authentic

THEOREM Invariance == Spec => []Inv
<1>1. Init => Inv
  BY ConnectAssumption, InitInv
<1>2. Inv /\ [Next]_vars => Inv'
  BY ConnectAssumption, NextInv, StutterInv
<1> QED BY <1>1, <1>2, PTL DEF Spec

\* Every variable keeps its type, through connections that break anywhere and redirections.
THEOREM TypeCorrect == Spec => []TypeOK
<1>1. Inv => TypeOK
  <2> SUFFICES ASSUME Inv PROVE TypeOK
    OBVIOUS
  <2>1. /\ attempts \in 0..MaxAttempts /\ packets \in 0..MaxAttempts
        /\ client \in ClientStates /\ server \in ServerStates
        /\ proxy \in {"raw", "handshake", "tls", "closed"}
        /\ {redirected, key, hop, authenticated} \subseteq BOOLEAN
    BY DEF Inv, Shapes, Counts, ClientScalars, LinkScalars
  <2>2. {selected, agreed} \subseteq Protocols \cup {"RDSTLS", "SSL", NoProtocol}
    BY DEF Inv, Shapes, ClientScalars, LinkScalars, Answers
  <2>3. packet \in 0..packets /\ pendingRedirect \in 0..packets
    <3>1. packet \in Nat /\ pendingRedirect \in Nat /\ packets \in Nat
      BY Bounds, ConnectAssumption DEF Inv, Shapes, Counts
    <3>2. packet <= packets /\ (pendingRedirect = NoPacket \/ pendingRedirect <= packets)
      BY DEF Inv, Tokens, Usable, Unused
    <3> QED BY <3>1, <3>2 DEF NoPacket
  <2>4. round \in 0..NtlmRounds \/ round \in 0..Exchanges
    <3>1. round \in Nat /\ (round <= NtlmRounds \/ round <= Exchanges)
      BY DEF Inv, Shapes, Counts, Rounds
    <3> QED BY <3>1, Bounds, ConnectAssumption
  <2>5. \A k \in DOMAIN presented : presented[k] \in 1..packets
    BY DEF Inv, Tokens, Issued
  <2> QED BY <2>1, <2>2, <2>3, <2>4, <2>5 DEF TypeOK
<1> QED BY <1>1, Invariance, PTL

\* The server sees the connection request in clear and all the rest in TLS, whenever the
\* client asks the proxy for it and whenever the handshake fails.
THEOREM NothingElseInClear == Spec => []OnlyRequestInClear
<1>1. Inv => OnlyRequestInClear
  <2> SUFFICES ASSUME Inv, NEW k \in DOMAIN got PROVE got[k].tls = (got[k].type # "request")
    BY DEF OnlyRequestInClear
  <2>1. got \in Seq(GotRight)
    BY DEF Inv, InClear
  <2>2. got[k] \in GotRight
    BY <2>1
  <2> QED BY <2>2 DEF GotRight
<1> QED BY <1>1, Invariance, PTL

\* A redirection is followed once: connect_redirected takes it out of its slot before it
\* does anything that can fail, and a later one replaces what was not followed.
THEOREM TokensAreGoodOnce == Spec => []TokensGoodOnce
<1>1. Inv => TokensGoodOnce
  BY DEF Inv, Tokens, Increasing, TokensGoodOnce
<1> QED BY <1>1, Invariance, PTL

\* There is no session that the server did not accept: NLA is not skipped for want of a
\* certificate, and a redirected session is that of its packet.
THEOREM SessionsAreAuthenticated == Spec => []ConnectedIsAuthenticated
<1>1. Inv => ConnectedIsAuthenticated
  <2> SUFFICES ASSUME Inv, client = "connected"
               PROVE  /\ selected = agreed
                      /\ authenticated \/ selected = "SSL"
                      /\ packet # NoPacket => selected = "RDSTLS" /\ Last(presented) = packet
    BY DEF ConnectedIsAuthenticated
  <2>1. /\ selected = agreed /\ Routed(packet, presented) /\ (redirected => selected = "RDSTLS")
        /\ redirected = (packet # NoPacket)
    BY DEF Inv, Authentic, Agreed, Begun
  <2>2. Accepted(authenticated, agreed)
    BY DEF Inv, Authentic, Granted
  <2> QED BY <2>1, <2>2 DEF Accepted, Routed
<1> QED BY <1>1, Invariance, PTL
=====
