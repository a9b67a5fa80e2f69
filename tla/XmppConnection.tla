--------------------------- MODULE XmppConnection ---------------------------
(***************************************************************************)
(* One end of an XMPP connection: inf-xmpp-connection.c over               *)
(* inf-tcp-connection.c.  An end is a record:                              *)
(*   site      "client" or "server"                                        *)
(*   policy    security-policy                                             *)
(*   suits     whether the peer's mechanisms hold a suitable one           *)
(*   verifies  whether the certificate callback answers later              *)
(*   st        priv->status                                                *)
(*   tls       priv->session # NULL                                        *)
(*   sasl      "none", "idle", or "busy" while the SASL context works      *)
(*   wait      the certificate callback has not answered yet               *)
(*   nested    the parser took the peer's stream for an element            *)
(*   tcp       "connecting", "connected", "closed"                         *)
(*   out       what TCP has not written yet, in units                      *)
(*   pos       priv->position                                              *)
(*   msgs      priv->messages; id 0 is the one that closes TCP             *)
(*   told      the messages reported as sent                               *)
(*   got       the messages received                                       *)
(*   bad       an assertion failed, or a message came before the end was   *)
(*             ready for it                                                *)
(*   fault     which send of the running handler fails, 0 for none; -1 when *)
(*             one has failed                                              *)
(*   parsing   whether the handler is inf_xmpp_connection_received_cb      *)
(* A message is two units long, everything else that is sent one unit.     *)
(* TCP tries to write at once what is sent while nothing is queued; if that *)
(* fails, the connection is closed before the call that sends returns, and *)
(* the caller goes on with a closed connection.                            *)
(***************************************************************************)
EXTENDS Integers, Sequences, FiniteSets

Unit(k) == [k |-> k, id |-> 0]
Payload(id) == <<[k |-> "half", id |-> id], [k |-> "msg", id |-> id]>>

Require(X, holds, Y) == IF holds THEN Y ELSE [X EXCEPT !.bad = TRUE]

\* inf_xmpp_connection_get_xml_status
Opening == {"connecting", "connected", "auth_connected", "initiated", "auth_initiated",
            "awaiting_features", "auth_awaiting_features", "encryption_requested",
            "handshaking", "authenticating"}
Closing == {"closing_stream", "closing_gnutls"}

(***************************************************************************)
(* Sending and closing                                                     *)
(***************************************************************************)
\* inf_xmpp_connection_clear
Clear(X) == [X EXCEPT !.sasl = "none", !.tls = FALSE, !.msgs = <<>>, !.wait = FALSE]

\* inf_tcp_connection_system_error, inf_xmpp_connection_notify_status_cb: received_cb clears
\* when it returns, otherwise send_chars does.
Fails(X) ==
  LET Y == [X EXCEPT !.tcp = "closed", !.st = "closed", !.out = <<>>, !.pos = 0, !.fault = -1]
  IN  IF X.parsing THEN Y ELSE Clear(Y)

\* inf_tcp_connection_send, inf_xmpp_connection_tls_push: queued in TCP, counted here.  What
\* is written before a send fails is lost with the connection; what is sent afterwards is
\* counted only.
Push(X, units) ==
  CASE X.fault = 0 -> [X EXCEPT !.out = @ \o units, !.pos = @ + Len(units)]
    [] X.fault > 1 -> [X EXCEPT !.fault = @ - 1]
    [] X.fault = 1 -> Fails(X)
    [] OTHER       -> [X EXCEPT !.pos = @ + Len(units)]

\* inf_xmpp_connection_send_chars, inf_xmpp_connection_send_xml
SendChars(X, k) == Require(X, X.st \notin {"handshaking", "closed"}, Push(X, <<Unit(k)>>))

\* inf_tcp_connection_close, inf_xmpp_connection_notify_status_cb: what is not written is
\* lost.  A connection that has failed cannot be closed.
TcpClose(X) ==
  IF X.fault < 0 THEN X
  ELSE [Clear(X) EXCEPT !.tcp = "closed", !.st = "closed", !.out = <<>>, !.pos = 0]

\* A bug: the end of the queue is waited for although nothing is queued.
PushMessageQueued(X, id) == [X EXCEPT !.msgs = Append(@, [pos |-> X.pos, id |-> id])]

\* inf_xmpp_connection_push_message: reported at once if everything is written.
PushMessage(X, id) ==
  IF X.pos = 0
  THEN IF id = 0 THEN TcpClose(X) ELSE [X EXCEPT !.told = @ \cup {id}]
  ELSE [X EXCEPT !.msgs = Append(@, [pos |-> X.pos, id |-> id])]

\* How many messages of the list end within the first len units: positions grow along it.
SentMessages(X, len) == Cardinality({i \in 1..Len(X.msgs) : X.msgs[i].pos <= len})

\* The first n messages are sent: they are reported, or TCP is closed.
PopMessages(X, len, n) ==
  LET ids  == {X.msgs[i].id : i \in 1..n}
      msgs == [i \in 1..Len(X.msgs) - n |->
                 [pos |-> X.msgs[i + n].pos - len, id |-> X.msgs[i + n].id]]
      Y    == [X EXCEPT !.pos = @ - len, !.msgs = msgs, !.told = @ \cup (ids \ {0})]
  IN  IF 0 \in ids THEN TcpClose(Y) ELSE Y

\* A bug: the message counts as sent a unit too early.
SentCbEarly(X, len) == PopMessages(X, len, SentMessages(X, len + 1))

\* inf_xmpp_connection_sent_cb: len units are written.
SentCb(X, len) == PopMessages(X, len, SentMessages(X, len))

\* inf_tcp_connection_io_outgoing: n units are written.
Written(X, n) == SentCb([X EXCEPT !.out = SubSeq(@, n + 1, Len(@))], n)

\* inf_xmpp_connection_terminate; parsing: received data is being handled.
Terminate(X, parsing) ==
  LET aborted == IF X.st = "authenticating" THEN SendChars(X, "abort") ELSE X
      ended   == CASE X.st \in {"connected", "auth_connected", "closing_stream"} -> X
                   [] aborted.st = "closed" -> aborted
                   [] OTHER -> SendChars(aborted, "end")
      told    == IF X.st \in {"handshaking", "encryption_requested"} THEN X
                 ELSE IF ended.st # "closed" /\ X.tls THEN Push(ended, <<Unit("bye")>>) ELSE ended
      cleared == IF parsing THEN told ELSE Clear(told)
  IN  Require(X, X.st \notin {"closed", "closing_gnutls", "connecting"},
             IF told.st = "closed" THEN cleared ELSE [cleared EXCEPT !.st = "closing_gnutls"])

\* inf_xmpp_connection_terminate_error
TerminateError(X) ==
  Require(X, X.st \notin {"handshaking", "encryption_requested"},
         Terminate(SendChars(X, "error"), TRUE))

\* inf_xmpp_connection_deinitiate
Deinitiate(X) ==
  LET aborted == IF X.st = "authenticating" /\ X.sasl # "none" THEN SendChars(X, "abort") ELSE X
  IN  Require(X, X.st \notin Closing \cup {"connected", "auth_connected"},
             [SendChars(aborted, "end") EXCEPT !.st = "closing_stream"])

\* inf_xmpp_connection_initiate: that the stream could be sent is asserted.
Initiate(X) ==
  LET Y == [X EXCEPT !.nested = FALSE]
      S == SendChars(Y, "stream")
  IN  Require(X, X.st \in {"connected", "auth_connected"},
        IF X.site = "server" THEN Y
        ELSE Require(S, S.st # "closed",
               [S EXCEPT !.st = IF X.st = "connected" THEN "initiated" ELSE "auth_initiated"]))

(***************************************************************************)
(* TLS                                                                     *)
(***************************************************************************)
\* inf_xmpp_connection_tls_init
TlsInit(X) ==
  Require(X, ~X.tls,
    LET Y == [X EXCEPT !.tls = TRUE, !.st = "handshaking"]
    IN  IF X.site = "client" THEN Push(Y, <<Unit("hello")>>) ELSE Y)

\* inf_xmpp_connection_tls_handshake with what gnutls makes of one flight.  The certificate
\* is refused at once ("untrusted"), or the callback is asked.
TlsHandshake(X, k, outcome) ==
  LET flight   == CASE k = "hello" -> "server_hello" [] k = "server_hello" -> "finished"
                    [] k = "finished" -> "done" [] OTHER -> "none"
      expected == IF X.site = "client" THEN {"server_hello", "done"} ELSE {"hello", "finished"}
      Y        == IF flight = "none" THEN X ELSE Push(X, <<Unit(flight)>>)
      done     == [Y EXCEPT !.st = "connected"]
      failed   == [X EXCEPT !.tls = FALSE, !.st = IF X.site = "server" THEN "initiated" ELSE @]
  IN  CASE k \notin expected \/ outcome = "fail" -> Terminate(failed, TRUE)
        [] k \in {"hello", "server_hello"} /\ k \in expected /\ outcome # "fail" -> Y
        [] k \in {"finished", "done"} /\ k \in expected /\ outcome = "untrusted" ->
             Terminate(done, TRUE)
        [] OTHER -> IF X.verifies THEN [done EXCEPT !.wait = TRUE] ELSE Initiate(done)

(***************************************************************************)
(* SASL                                                                    *)
(***************************************************************************)
\* inf_xmpp_connection_sasl_finish without success
SaslAgain(X) ==
  [X EXCEPT !.sasl = "none", !.st = IF X.site = "client" THEN "awaiting_features" ELSE "initiated"]

\* inf_xmpp_connection_sasl_finish with success; Receive and SaslResult initiate the stream.
SaslFinish(X) == [X EXCEPT !.sasl = "none", !.st = "auth_connected"]

\* inf_xmpp_connection_sasl_error
SaslError(X, parsing) ==
  IF X.site = "server" THEN SaslAgain(SendChars(X, "failure"))
                       ELSE Terminate(SaslAgain(X), parsing)

\* inf_xmpp_connection_sasl_request
SaslRequest(X) ==
  IF X.sasl = "busy" THEN SaslError(X, TRUE) ELSE [X EXCEPT !.sasl = "busy"]

\* inf_xmpp_connection_sasl_init: that the request could be sent is asserted.
SaslInit(X) ==
  LET S == SendChars(X, "auth")
  IN  Require(X, X.sasl = "none" /\ X.st = (IF X.site = "client" THEN "awaiting_features" ELSE "initiated"),
        IF X.site = "client"
        THEN Require(S, S.st # "closed", [S EXCEPT !.st = "authenticating", !.sasl = "idle"])
        ELSE SaslRequest([X EXCEPT !.st = "authenticating", !.sasl = "idle"]))

\* inf_xmpp_connection_sasl_request_feed_func: the SASL context has an answer.
SaslResult(X, outcome) ==
  CASE outcome = "error" -> SaslError(X, FALSE)
    [] outcome = "more" ->
         SendChars([X EXCEPT !.sasl = "idle"], IF X.site = "server" THEN "challenge" ELSE "response")
    [] OTHER ->
         IF X.site = "server" THEN Initiate(SaslFinish(SendChars(X, "success")))
                              ELSE SendChars([X EXCEPT !.sasl = "idle"], "response")

(***************************************************************************)
(* Elements of the peer                                                    *)
(***************************************************************************)
\* inf_xmpp_connection_process_connected: that the stream could be sent is asserted.
ProcessConnected(X) ==
  LET again  == X.st = "auth_connected"
      offer  == IF X.tls \/ again \/ X.policy = "only_unsecured" THEN "features"
                ELSE IF X.policy = "only_tls" THEN "features_required" ELSE "features_tls"
      S      == SendChars(X, "stream")
      Y      == SendChars([S EXCEPT !.st = "initiated"], offer)
  IN  Require(X, X.site = "server",
        Require(S, S.st # "closed",
          IF Y.st = "closed" THEN Y ELSE [Y EXCEPT !.st = IF again THEN "ready" ELSE "initiated"]))

\* inf_xmpp_connection_process_initiated
ProcessInitiated(X, k) ==
  LET tlsPossible == ~X.tls /\ X.policy # "only_unsecured"
  IN  CASE tlsPossible /\ k = "starttls" -> TlsInit(SendChars(X, "proceed"))
        [] tlsPossible /\ k # "starttls" /\ X.policy = "only_tls" -> TerminateError(X)
        [] OTHER -> IF k = "auth" THEN SaslInit(X) ELSE TerminateError(X)

\* A bug: TLS that is required is not asked for.
ProcessFeaturesLax(X, k) ==
  CASE k \notin {"features", "features_tls", "features_required"} -> X
    [] k = "features_tls" /\ ~X.tls /\ X.policy = "prefer_tls" ->
         [SendChars(X, "starttls") EXCEPT !.st = "encryption_requested"]
    [] OTHER -> IF X.st = "auth_awaiting_features" THEN [X EXCEPT !.st = "ready"]
                ELSE IF X.suits THEN SaslInit(X) ELSE Deinitiate(X)

\* inf_xmpp_connection_process_features, inf_xmpp_connection_sasl_suggest_mechanism
ProcessFeatures(X, k) ==
  LET plain == X.st = "awaiting_features" /\ ~X.tls
  IN  CASE k \notin {"features", "features_tls", "features_required"} -> X
        [] plain /\ k = "features" /\ X.policy = "only_tls" -> Deinitiate(X)
        [] plain /\ k = "features_required" /\ X.policy = "only_unsecured" -> Deinitiate(X)
        [] plain /\ \/ k = "features_required" /\ X.policy # "only_unsecured"
                    \/ k = "features_tls" /\ X.policy \in {"only_tls", "prefer_tls"} ->
             [SendChars(X, "starttls") EXCEPT !.st = "encryption_requested"]
        [] OTHER -> IF X.st = "auth_awaiting_features" THEN [X EXCEPT !.st = "ready"]
                    ELSE IF X.suits THEN SaslInit(X) ELSE Deinitiate(X)

\* inf_xmpp_connection_process_encryption
ProcessEncryption(X, k) ==
  CASE k = "proceed" -> TlsInit(X)
    [] k = "failure" -> [X EXCEPT !.st = "closing_stream"]
    [] OTHER -> X

\* inf_xmpp_connection_process_authentication, _process_authentication_error; the error's
\* handler may call inf_xmpp_connection_retry_sasl_authentication.
ProcessAuthentication(X, k, retry) ==
  CASE k \in {"challenge", "response"} /\ X.sasl # "none" /\ (k = "challenge") = (X.site = "client") ->
         SaslRequest(X)
    [] k = "failure" /\ X.site = "client" ->
         IF retry THEN SaslInit(SaslAgain(X)) ELSE Deinitiate(SaslAgain(X))
    [] k = "success" /\ X.site = "client" -> SaslFinish(X)
    [] k = "response" /\ X.sasl = "none" /\ X.site = "server" -> SendChars(SaslAgain(X), "failure")
    [] k = "abort" /\ X.site = "server" -> SendChars(SaslAgain(X), "failure")
    [] OTHER -> X

\* inf_xmpp_connection_process_end_element; a message that comes too early is lost.
ProcessElement(X, e, retry) ==
  CASE e.k = "error" -> X
    [] e.k # "error" /\ X.st = "ready" -> [X EXCEPT !.got = Append(@, e.id)]
    [] e.k = "msg" /\ X.st \notin {"ready", "closing_stream"} -> [X EXCEPT !.bad = TRUE]
    [] OTHER ->
         CASE X.st = "initiated" -> ProcessInitiated(X, e.k)
           [] X.st \in {"awaiting_features", "auth_awaiting_features"} -> ProcessFeatures(X, e.k)
           [] X.st = "encryption_requested" -> ProcessEncryption(X, e.k)
           [] X.st = "authenticating" -> ProcessAuthentication(X, e.k, retry)
           [] X.st = "closing_stream" -> X
           [] OTHER -> [X EXCEPT !.bad = TRUE]

\* inf_xmpp_connection_sax_start_element, inf_xmpp_connection_sax_end_element
Element(X, e, retry) ==
  CASE e.k = "half" -> X
    [] e.k = "end" ->
         IF X.nested THEN [X EXCEPT !.nested = FALSE]
         ELSE Require(X, X.st \notin {"connected", "auth_connected"}, Terminate(X, TRUE))
    [] e.k = "stream" ->
         CASE X.st \in {"connected", "auth_connected"} -> ProcessConnected(X)
           [] X.st = "initiated" /\ X.site = "client" -> [X EXCEPT !.st = "awaiting_features"]
           [] X.st = "auth_initiated" /\ X.site = "client" -> [X EXCEPT !.st = "auth_awaiting_features"]
           [] OTHER -> Require(X, X.st = "closing_stream", [X EXCEPT !.nested = TRUE])
    [] OTHER ->
         CASE X.nested -> X
           [] ~X.nested /\ X.st \in {"connected", "auth_connected"} ->
                Require(X, X.site = "server", Terminate(X, TRUE))
           [] ~X.nested /\ X.st \in {"initiated", "auth_initiated"} /\ X.site = "client" ->
                Terminate(X, TRUE)
           [] OTHER -> ProcessElement(X, e, retry)

\* What inf_xmpp_connection_received_cb does when it has handled the data.
Finish(Y) ==
  CASE Y.st = "closing_gnutls" -> PushMessage(Clear(Y), 0)
    [] Y.st = "closed" -> Clear(Y)
    [] Y.st = "auth_connected" -> Initiate(Y)
    [] OTHER -> Y

\* A bug: an end that is closing still looks at what it receives.
ReceiveClosing(X, e, outcome) ==
  CASE e.k = "fin" -> TcpClose(X)
    [] OTHER -> Finish(CASE X.st = "handshaking" -> TlsHandshake(X, e.k, outcome)
                         [] X.st # "handshaking" /\ e.k = "bye" -> TcpClose(X)
                         [] OTHER -> Element(X, e, outcome = "retry"))

\* inf_tcp_connection_io_incoming, inf_xmpp_connection_received_cb
Receive(X, e, outcome) ==
  CASE e.k = "fin" -> TcpClose(X)
    [] e.k # "fin" /\ X.st = "closing_gnutls" -> X
    [] OTHER -> Finish(CASE X.st = "handshaking" -> TlsHandshake(X, e.k, outcome)
                         [] X.st # "handshaking" /\ e.k = "bye" -> TcpClose(X)
                         [] OTHER -> Element(X, e, outcome = "retry"))

(***************************************************************************)
(* The application                                                         *)
(***************************************************************************)
\* inf_tcp_connection_connected, inf_xmpp_connection_notify_status_cb
Connected(X) == Initiate([X EXCEPT !.tcp = "connected", !.st = "connected"])

\* inf_xmpp_connection_xml_connection_send
Send(X, id) ==
  LET Y == Push(X, Payload(id)) IN IF Y.st = "ready" THEN PushMessage(Y, id) ELSE Y

\* inf_xmpp_connection_xml_connection_close
Close(X) ==
  CASE X.st \in {"connecting", "handshaking"} -> [TcpClose(X) EXCEPT !.tls = FALSE]
    [] X.st \in {"connected", "auth_connected", "authenticating"} -> Terminate(X, FALSE)
    [] OTHER -> Deinitiate(X)

\* inf_xmpp_connection_certificate_verify_continue, _cancel
VerifyContinue(X) == Initiate([X EXCEPT !.wait = FALSE])
VerifyCancel(X) == Terminate([X EXCEPT !.wait = FALSE], FALSE)

\* inf_xmpp_connection_reset_sasl_authentication
ResetSasl(X) ==
  IF X.st = "authenticating" /\ X.sasl # "none"
  THEN [(IF X.site = "client" THEN SendChars(X, "abort") ELSE X) EXCEPT !.sasl = "none"]
  ELSE X
=============================================================================
