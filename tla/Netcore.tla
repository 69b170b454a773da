------------------------------- MODULE Netcore -------------------------------
(***************************************************************************)
(* The transaction state machine of one context, with the threads that     *)
(* drive it: pbnc_fsm and pbnc_stop (core/pubnub_netcore.c) in the         *)
(* callback interface with asynchronous DNS, proxies, TLS and an IPv4      *)
(* build, over the registrations the watcher thread keeps for the context  *)
(* (posix/pubnub_ntf_callback_posix.c).                                    *)
(*                                                                         *)
(* pb is the context.  A C function that changes the context is an         *)
(* operator from the context before to the context after; what the network *)
(* or the application decides is a parameter.  One action is one case of   *)
(* the switch in pbnc_fsm; application threads interleave wherever the     *)
(* context's monitor is free.                                              *)
(***************************************************************************)
EXTENDS Integers

CONSTANTS Options,       \* the option records a context may be set up with
          MaxAddresses,  \* addresses in a DNS answer (PUBNUB_MAX_IPV4_ADDRESSES)
          Servers,       \* DNS servers to choose from, the default one included
          MaxRotation,   \* PUBNUB_MAX_DNS_ROTATION
          MaxEntries,    \* bound: entries of this context in the callback queue
          Environment    \* what the network, system and application may do

ASSUME BoundsAssumption == /\ MaxAddresses \in Nat \ {0}
                           /\ Servers \in Nat \ {0}
                           /\ MaxRotation \in Nat /\ MaxRotation > 1
                           /\ MaxEntries \in Nat /\ MaxEntries > 1

Proxies == {"NONE", "GET", "CONNECT"}

OptionRecords == [useSSL: BOOLEAN, fallbackSSL: BOOLEAN, use_http_keep_alive: BOOLEAN,
                  proxy_type: Proxies, proxy_address: BOOLEAN, body: BOOLEAN]

ASSUME OptionsAssumption == Options \subseteq OptionRecords

VARIABLES options,   \* how the application set up the context
          pb,        \* the context, its registrations and its history
          watcher    \* what the watcher thread is doing with the context

vars == <<options, pb, watcher>>

\* States in which the machine rests, waiting to be run again ...
Reading == {"WAIT_DNS_RCV", "RX_HTTP_VER", "RX_HEADER_LINE", "RX_BODY_WAIT",
            "RX_CHUNK_LEN_LINE", "RX_BODY_CHUNK_WAIT"}
Sending == {"TX_GET", "TX_SCHEME", "TX_HOST", "TX_PORT_NUM", "TX_PATH", "TX_VER",
            "TX_ORIGIN", "TX_EXTRA_HEADERS", "TX_FIN_HEAD", "TX_BODY"}
Cancelling == {"WAIT_CANCEL", "WAIT_CANCEL_DNS", "WAIT_CANCEL_KEEPALIVE"}
CanStart == {"IDLE", "KEEP_ALIVE_IDLE"}
\* ... and states it passes through without returning.
Passing == {"RETRY", "RX_HEADERS", "RX_BODY", "RX_CHUNK_LEN", "RX_BODY_CHUNK",
            "WAIT_CANCEL_CLOSE"}

States == Reading \cup Sending \cup Cancelling \cup CanStart \cup Passing \cup
          {"READY", "KEEP_ALIVE_READY", "WAIT_DNS_SEND", "WAIT_CONNECT", "CONNECTED",
           "WAIT_TLS_CONNECT"}

Failures == {"ADDR_RESOLUTION_FAILED", "WAIT_CONNECT_TIMEOUT", "CONNECT_FAILED",
             "CONNECTION_TIMEOUT", "TIMEOUT", "IO_ERROR", "CANCELLED",
             "INTERNAL_ERROR", "AUTHENTICATION_FAILED"}
Results == Failures \cup {"STARTED", "OK", "HTTP_ERROR", "REPLY_TOO_BIG"}

Contexts == [state: States, last_result: Results, trans: BOOLEAN,
             retry_after_close: BOOLEAN, started_while_kept_alive: BOOLEAN,
             should_close: BOOLEAN, trySSL: BOOLEAN,
             socket: {"none", "udp", "tcp"}, ssl: BOOLEAN,
             spare: 0 .. MaxAddresses, server_check: 0 .. Servers,
             rotations_count: 0 .. MaxRotation - 1,
             http_code: {200, 407, 500}, proxy_auth: BOOLEAN,
             proxy_tunnel_established: BOOLEAN, proxy_authorization_sent: BOOLEAN,
             \* registrations: queue entries, poller entries and timer list links
             queued: 0 .. MaxEntries, polled: 0 .. 2, events: {"in", "out"}, timers: 0 .. 2,
             \* history: outcomes owed to the application (-1: one too many), was the
             \* transaction cancelled, was every cancellation reported as one, and
             \* does the connection run through a proxy's tunnel
             owed: -1 .. 1, cancelled: BOOLEAN, cancels_honoured: BOOLEAN, tunnelled: BOOLEAN]

Min2(a, b) == IF a < b THEN a ELSE b

-----------------------------------------------------------------------------
(* The registrations: queue, poller and timer list of the watcher           *)

\* Mutant: the timer is left in the list.
ForgetsTimer(p) == [p EXCEPT !.polled = IF @ > 0 THEN @ - 1 ELSE 0,
                             !.queued = IF @ > 0 THEN @ - 1 ELSE 0]

\* The poller matches by descriptor, the queue and the timer list by context.
pbntf_lost_socket(p) == [p EXCEPT !.polled = IF @ > 0 THEN @ - 1 ELSE 0,
                                  !.queued = IF @ > 0 THEN @ - 1 ELSE 0,
                                  !.timers = IF @ > 0 THEN @ - 1 ELSE 0]

pbntf_got_socket(p) == [p EXCEPT !.polled = Min2(@ + 1, 2), !.events = "out",
                                 !.timers = Min2(@ + 1, 2)]

\* pbntf_start_wait_connect_timer, pbntf_start_transaction_timer: remove, then add
start_timer(p) == [p EXCEPT !.timers = IF @ > 0 THEN @ ELSE 1]

pbntf_enqueue_for_processing(p) == [p EXCEPT !.queued = Min2(@ + 1, MaxEntries)]

pbntf_requeue_for_processing(p) == [p EXCEPT !.queued = IF @ > 0 THEN @ ELSE 1]

\* Mutant: the poller is not told.
IgnoresInput(p) == p

watch_in(p) == IF p.polled > 0 THEN [p EXCEPT !.events = "in"] ELSE p
watch_out(p) == IF p.polled > 0 THEN [p EXCEPT !.events = "out"] ELSE p

\* Mutant: the watcher is not told about the lost socket.
ClosesQuietly(p) == [p EXCEPT !.ssl = FALSE, !.tunnelled = FALSE, !.socket = "none"]

pbpal_close(p) ==
    LET q == [p EXCEPT !.ssl = FALSE, !.tunnelled = FALSE]
    IN  IF p.socket = "none" THEN q
        ELSE [pbntf_lost_socket(q) EXCEPT !.socket = "none"]

-----------------------------------------------------------------------------
(* Starting a transaction and reporting its outcome                         *)

\* initialize_fields_in_state_IDLE and the rest of the case PBS_IDLE
IdleCase(p) ==
    pbntf_enqueue_for_processing(
        [p EXCEPT !.server_check = 0, !.retry_after_close = FALSE,
                  !.proxy_tunnel_established = FALSE, !.proxy_authorization_sent = FALSE,
                  !.trySSL = options.useSSL, !.state = "READY"])

\* the case PBS_KEEP_ALIVE_IDLE; only the start of a transaction runs it
KeepAliveIdleCase(p) ==
    pbntf_enqueue_for_processing(
        [p EXCEPT !.proxy_authorization_sent = FALSE, !.state = "KEEP_ALIVE_READY",
                  !.started_while_kept_alive = TRUE])

\* pubnub_publish and its like, for a context that can start a transaction
start(p) ==
    LET q == [p EXCEPT !.trans = TRUE, !.last_result = "STARTED",
                       !.owed = Min2(@ + 1, 1), !.cancelled = FALSE]
    IN  IF p.state = "IDLE" THEN IdleCase(q) ELSE KeepAliveIdleCase(q)

\* pbntf_trans_outcome; the application's callback may start the next transaction.
pbntf_trans_outcome(p, state, again) ==
    LET q == [p EXCEPT !.state = state,
                       !.owed = IF p.trans /\ @ > -1 THEN @ - 1 ELSE @,
                       !.cancels_honoured = @ /\ (p.cancelled => p.last_result = "CANCELLED"),
                       !.cancelled = FALSE]
    IN  IF again THEN start(q) ELSE q

\* Mutant: the outcome is reported although the request is retried.
ReportsAndRetries(p, again) ==
    LET q == pbpal_close(p)
    IN  [pbntf_trans_outcome(q, "IDLE", again /\ ~ q.retry_after_close) EXCEPT
            !.state = IF q.retry_after_close THEN "RETRY" ELSE @]

close_connection(p, again) ==
    LET q == pbpal_close(p)
    IN  IF q.retry_after_close THEN [q EXCEPT !.state = "RETRY"]
        ELSE pbntf_trans_outcome(q, "IDLE", again)

\* Leaves the request to be sent again on a new connection.
close_kept_alive_connection(p) ==
    LET q == pbpal_close([p EXCEPT !.started_while_kept_alive = FALSE])
    IN  [q EXCEPT !.state = IF q.retry_after_close THEN "RETRY" ELSE "IDLE"]

\* young: neither the number of requests nor the age of the connection is at its limit
should_keep_alive(p, rslt, young) ==
    ~ p.should_close /\ young /\ rslt \notin Failures \cup {"STARTED"}

outcome_detected(p, rslt, young, again) ==
    LET q == [p EXCEPT !.last_result = rslt]
    IN  IF should_keep_alive(q, rslt, young)
        THEN [pbntf_trans_outcome(pbntf_lost_socket(q), "KEEP_ALIVE_IDLE", again)
                 EXCEPT !.retry_after_close = FALSE]
        ELSE close_connection([q EXCEPT !.started_while_kept_alive = FALSE], again)

\* What pbntf_enqueue_for_processing == -1 leads to.
QueueFull(p) == pbntf_trans_outcome([p EXCEPT !.last_result = "INTERNAL_ERROR"], "IDLE", FALSE)

-----------------------------------------------------------------------------
(* Resolving the origin and connecting                                      *)

\* The next address of the last DNS answer, when there is one; retried over TLS.
next_address(p) ==
    LET left == IF p.spare > 0 THEN p.spare - 1 ELSE 0
    IN  [p EXCEPT !.spare = left, !.retry_after_close = left > 0]

\* The outcomes of connect_TCP_socket: <<result, context>>
connect_TCP_socket(p) ==
    {<<r, [p EXCEPT !.socket = "tcp"]>> :
        r \in {"connect_success", "connect_wouldblock", "connect_failed"}}
    \cup {<<"connect_resource_failure", [p EXCEPT !.socket = "none"]>>}

if_no_retry_close_socket(p) == IF p.retry_after_close THEN p ELSE [p EXCEPT !.socket = "none"]

\* Of the servers with no error recorded, the first; the default one is the last.
server(p) == Min2(p.server_check + 1, Servers)

check_dns_server_error(p) ==
    [p EXCEPT !.server_check = server(p),
              !.retry_after_close = @ \/ server(p) < Servers]

\* Mutant: the servers are tried over and over.
RotatesForEver(p) == TRUE

\* pbpal_dns_rotate_server returns 0 when another attempt is to be made
RotationsLeft(p) == ~ (server(p) = Servers /\ p.rotations_count + 1 >= MaxRotation)

pbpal_dns_rotate_server(p) ==
    IF ~ RotationsLeft(p)
    THEN [p EXCEPT !.server_check = 0, !.retry_after_close = FALSE, !.rotations_count = 1]
    ELSE IF server(p) = Servers
         THEN [p EXCEPT !.server_check = 0, !.rotations_count = @ + 1]
         ELSE [p EXCEPT !.server_check = server(p)]

\* The part of pbpal_resolv_and_connect that queries a DNS server
query_dns(p) ==
    LET q == [p EXCEPT !.socket = "udp"]
    IN  {<<"resolv_sent", q>>, <<"resolv_send_wouldblock", q>>,
         <<"resolv_failed_send", if_no_retry_close_socket(check_dns_server_error(q))>>}
        \cup (IF p.socket = "none" THEN {<<"resolv_resource_failure", p>>} ELSE {})

\* try_TCP_connect_spare_address: a spare address whose time to live is over
\* counts as one that refused the connection.
try_TCP_connect_spare_address(p) ==
    LET tried == {c \in connect_TCP_socket(p) :
                     c[1] = "connect_failed" => "unreachable" \in Environment} \cup
                 (IF "ttl" \in Environment THEN {<<"connect_failed", p>>} ELSE {})
        Failed(q) == if_no_retry_close_socket([next_address(q) EXCEPT !.trySSL = options.useSSL])
    IN  {c \in tried : c[1] # "connect_failed"} \cup
        UNION {LET q == Failed(c[2])
               IN  IF q.retry_after_close THEN {<<"connect_failed", q>>} ELSE query_dns(q) :
               c \in {d \in tried : d[1] = "connect_failed"}}

pbpal_resolv_and_connect(p) ==
    IF options.proxy_type # "NONE" /\ options.proxy_address THEN connect_TCP_socket(p)
    ELSE IF p.spare > 0 THEN try_TCP_connect_spare_address(p)
    ELSE query_dns(p)

\* pbpal_check_resolv_and_connect, once an answer with n addresses is in: the
\* datagram socket is closed without a word to the watcher
connect_resolved(p, n) ==
    {IF c[1] = "connect_failed"
     THEN <<c[1], [next_address(c[2]) EXCEPT !.trySSL = options.useSSL]>>
     ELSE c : c \in connect_TCP_socket([p EXCEPT !.rotations_count = 0, !.spare = n])}

pbpal_check_resolv_and_connect(p) ==
    {<<"resolv_rcv_wouldblock", p>>, <<"resolv_failed_rcv", check_dns_server_error(p)>>}
    \cup UNION {connect_resolved(p, n) : n \in 1 .. MaxAddresses}

pbpal_check_connect(p) ==
    {<<"connect_wouldblock", p>>, <<"connect_success", p>>,
     <<"connect_failed", [next_address(p) EXCEPT !.trySSL = options.useSSL]>>,
     \* the socket's state could not be had
     <<"connect_failed", p>>}

\* pbtlsFailed: plain HTTP if the options allow it, else another address
tls_failed(p) == IF options.fallbackSSL
                 THEN [p EXCEPT !.trySSL = FALSE, !.retry_after_close = TRUE]
                 ELSE next_address(p)

-----------------------------------------------------------------------------
(* One action for each case of pbnc_fsm, run by the watcher                 *)

Fsm(s) == watcher = "fsm" /\ pb.state = s /\ UNCHANGED options

Goto(p) == pb' = p /\ watcher' = "fsm"       \* goto next_state
Return(p) == pb' = p /\ watcher' = "idle"    \* return 0
Break(p) == IF p.state = "RETRY" THEN Goto(p) ELSE Return(p)

\* break after outcome_detected
Outcome(p, rslt) ==
    \E young \in BOOLEAN, again \in {FALSE} \cup {"restart" \in Environment} :
        Break(outcome_detected(p, rslt, young, again))

Reported(p, state) ==
    \E again \in {FALSE} \cup {"restart" \in Environment} :
        Return(pbntf_trans_outcome(p, state, again))

Idle == Fsm("IDLE") /\ \/ Return(IdleCase(pb))
                       \/ "queue_full" \in Environment /\ Return(QueueFull(pb))

Retry == Fsm("RETRY") /\ Goto([pb EXCEPT !.retry_after_close = FALSE, !.state = "READY"])

Ready ==
    /\ Fsm("READY")
    /\ \E c \in pbpal_resolv_and_connect(pb) :
          LET Registered(s) == [pbntf_got_socket(c[2]) EXCEPT !.state = s]
              failed == [c[2] EXCEPT !.last_result = "ADDR_RESOLUTION_FAILED"]
          IN  CASE c[1] = "resolv_send_wouldblock" ->
                       Break(start_timer(Registered("WAIT_DNS_SEND")))
                [] c[1] = "resolv_sent" ->
                       Break(watch_in(start_timer(Registered("WAIT_DNS_RCV"))))
                [] c[1] = "connect_wouldblock" ->
                       Break(start_timer(Registered("WAIT_CONNECT")))
                [] c[1] = "connect_success" -> Break(Registered("CONNECTED"))
                [] OTHER ->
                       /\ options.proxy_address /\ failed.socket = "tcp"
                             => "proxy_refused" \in Environment
                       /\ IF failed.retry_after_close
                          THEN Goto(close_connection(failed, FALSE))
                          ELSE Reported(failed, "IDLE")

WaitDnsSend ==
    /\ Fsm("WAIT_DNS_SEND")
    /\ \E c \in pbpal_resolv_and_connect(pb) :
          CASE c[1] = "resolv_send_wouldblock" -> Break(c[2])
            [] c[1] = "resolv_sent" -> Break(watch_in([c[2] EXCEPT !.state = "WAIT_DNS_RCV"]))
            [] OTHER -> /\ c[2].socket = "none" => "udp_closed" \in Environment
                        /\ Outcome(c[2], "ADDR_RESOLUTION_FAILED")

WaitDnsRcv ==
    /\ Fsm("WAIT_DNS_RCV")
    /\ \E c \in pbpal_check_resolv_and_connect(pb) :
          CASE c[1] = "resolv_rcv_wouldblock" -> Break(c[2])
            [] c[1] = "connect_wouldblock" ->
                   Break(watch_out([start_timer(c[2]) EXCEPT !.state = "WAIT_CONNECT"]))
            [] c[1] = "connect_success" ->
                   Goto(watch_out([start_timer(c[2]) EXCEPT !.state = "CONNECTED"]))
            [] OTHER -> /\ c[2].socket = "none" => "udp_closed" \in Environment
                        /\ Outcome(c[2], "ADDR_RESOLUTION_FAILED")

WaitConnect ==
    /\ Fsm("WAIT_CONNECT")
    /\ \E c \in pbpal_check_connect(pb) :
          CASE c[1] = "connect_wouldblock" -> Break(c[2])
            [] c[1] = "connect_success" -> Goto([start_timer(c[2]) EXCEPT !.state = "CONNECTED"])
            [] OTHER -> Outcome(c[2], "CONNECT_FAILED")

\* The request's first bytes are written, or cannot be.
SendRequest(p) == \/ Goto([p EXCEPT !.state = "TX_GET"])
                  \/ Outcome(p, "IO_ERROR")

NeedsTunnel(p) == options.proxy_type = "CONNECT" /\ ~ p.proxy_tunnel_established

\* pbtlsFailed and the failures of the TLS library end with "return 0".
StartTls(p) ==
    LET q == [p EXCEPT !.ssl = TRUE]
        failed == tls_failed(q)
    IN  \/ SendRequest(q)
        \/ \E dir \in {"in", "out"} :
              Return([q EXCEPT !.state = "WAIT_TLS_CONNECT",
                               !.events = IF q.polled > 0 THEN dir ELSE @])
        \/ /\ failed.retry_after_close => "tls_start_failure" \in Environment
           /\ \E again \in {FALSE} \cup {"restart" \in Environment} :
                 Return(outcome_detected(failed, "CONNECT_FAILED", FALSE, again))
        \/ Outcome(p, "INTERNAL_ERROR")

Connected ==
    /\ Fsm("CONNECTED")
    /\ LET p == [pb EXCEPT !.should_close = ~ options.use_http_keep_alive,
                           !.retry_after_close = FALSE]
       IN  IF NeedsTunnel(p) \/ p.ssl \/ ~ p.trySSL \/ options.proxy_type = "GET"
           THEN SendRequest(p)
           ELSE StartTls(p)

WaitTlsConnect ==
    /\ Fsm("WAIT_TLS_CONNECT")
    /\ \/ SendRequest(pb)
       \/ \E dir \in {"in", "out"} : Break([pb EXCEPT !.events = dir])
       \/ Outcome(tls_failed(pb), "CONNECT_FAILED")

-----------------------------------------------------------------------------
(* Sending the request                                                      *)

\* An error inside the switch on the proxy type ends with "goto next_state".
TxGet ==
    /\ Fsm("TX_GET")
    /\ \/ Return(pb)
       \/ Goto([pb EXCEPT !.state = IF options.proxy_type = "NONE" THEN "TX_PATH"
                                    ELSE "TX_SCHEME"])
       \/ /\ "tx_get_error" \in Environment
          /\ \E again \in {FALSE} \cup {"restart" \in Environment} :
                Goto(outcome_detected(pb, "IO_ERROR", FALSE, again))

HasBody(p) == options.body /\ (p.proxy_tunnel_established \/ options.proxy_type = "NONE")

\* The state after each state that sends.
AfterSending(p) ==
    CASE p.state = "TX_SCHEME" -> "TX_HOST"
      [] p.state = "TX_HOST" -> IF NeedsTunnel(p) THEN "TX_PORT_NUM" ELSE "TX_PATH"
      [] p.state \in {"TX_PORT_NUM", "TX_PATH"} -> "TX_VER"
      [] p.state = "TX_VER" -> "TX_ORIGIN"
      [] p.state = "TX_ORIGIN" -> IF (~ p.proxy_tunnel_established /\ p.proxy_auth) \/ HasBody(p)
                                  THEN "TX_EXTRA_HEADERS" ELSE "TX_FIN_HEAD"
      [] p.state = "TX_EXTRA_HEADERS" -> "TX_FIN_HEAD"
      [] p.state = "TX_FIN_HEAD" -> IF HasBody(p) THEN "TX_BODY" ELSE "RX_HTTP_VER"
      [] OTHER -> "RX_HTTP_VER"

Transmit ==
    /\ watcher = "fsm" /\ pb.state \in Sending \ {"TX_GET"} /\ UNCHANGED options
    /\ LET q == [pb EXCEPT !.state = AfterSending(pb),
                           !.proxy_authorization_sent =
                               @ \/ (pb.state = "TX_ORIGIN" /\ pb.proxy_auth
                                        /\ ~ pb.proxy_tunnel_established)]
       IN  \/ Return(pb)
           \/ Outcome(pb, "IO_ERROR")
           \/ Goto(IF q.state = "RX_HTTP_VER" THEN watch_in(q) ELSE q)

-----------------------------------------------------------------------------
(* Receiving the reply                                                      *)

RxHttpVer ==
    /\ Fsm("RX_HTTP_VER")
    /\ \/ Return(pb)
       \/ \E code \in {200, 407, 500} : Goto([pb EXCEPT !.http_code = code,
                                                        !.state = "RX_HEADERS"])
       \/ Outcome(pb, "IO_ERROR")
       \/ pb.started_while_kept_alive /\ Goto(close_kept_alive_connection(pb))

RxHeaders == Fsm("RX_HEADERS") /\ Goto([pb EXCEPT !.state = "RX_HEADER_LINE"])

\* finish() when the proxy wants the request repeated: with credentials, or
\* through the tunnel it just made
FinRetry(p) == \/ p.http_code = 407 /\ ~ p.proxy_authorization_sent /\ p.proxy_auth
               \/ p.http_code = 200 /\ NeedsTunnel(p)

RepeatRequest(p) ==
    LET made == p.http_code = 200
        q == [p EXCEPT !.retry_after_close = TRUE, !.tunnelled = @ \/ made,
                       !.proxy_tunnel_established = @ \/ made]
    IN  IF p.should_close THEN close_connection(q, FALSE) ELSE [q EXCEPT !.state = "CONNECTED"]

finish(p) ==
    IF FinRetry(p) THEN Goto(RepeatRequest(p))
    ELSE IF p.http_code = 407 THEN Outcome([p EXCEPT !.should_close = TRUE], "HTTP_ERROR")
    ELSE Outcome(p, IF p.http_code = 200 THEN "OK" ELSE "HTTP_ERROR") \/ Outcome(p, "REPLY_TOO_BIG")

\* The proxy names one realm: a second challenge after credentials were sent fails.
ProxyAuthenticate(p) ==
    IF p.proxy_authorization_sent THEN Outcome(p, "AUTHENTICATION_FAILED")
    ELSE Goto([p EXCEPT !.proxy_auth = TRUE, !.state = "RX_HEADERS"])

RxHeaderLine ==
    /\ Fsm("RX_HEADER_LINE")
    /\ \/ Return(pb)
       \/ Goto([pb EXCEPT !.state = "RX_HEADERS"])
       \/ Goto([pb EXCEPT !.state = "RX_HEADERS", !.should_close = TRUE])
       \/ ProxyAuthenticate(pb)
       \/ \E s \in {"RX_BODY", "RX_CHUNK_LEN"} : Goto([pb EXCEPT !.state = s])
       \/ IF NeedsTunnel(pb) THEN finish(pb) ELSE Outcome(pb, "IO_ERROR")
       \/ \E rslt \in {"REPLY_TOO_BIG", "IO_ERROR"} : Outcome(pb, rslt)

RxBody == Fsm("RX_BODY") /\ (Goto([pb EXCEPT !.state = "RX_BODY_WAIT"]) \/ finish(pb))

RxChunkLen == Fsm("RX_CHUNK_LEN") /\ Goto([pb EXCEPT !.state = "RX_CHUNK_LEN_LINE"])

RxChunkLenLine ==
    /\ Fsm("RX_CHUNK_LEN_LINE")
    /\ \/ Return(pb)
       \/ finish(pb)
       \/ Goto([pb EXCEPT !.state = "RX_BODY_CHUNK"])
       \/ \E rslt \in {"REPLY_TOO_BIG", "IO_ERROR"} : Outcome(pb, rslt)

RxBodyChunk == /\ Fsm("RX_BODY_CHUNK")
               /\ \E s \in {"RX_BODY_CHUNK_WAIT", "RX_CHUNK_LEN"} : Goto([pb EXCEPT !.state = s])

\* PBS_RX_BODY_WAIT and PBS_RX_BODY_CHUNK_WAIT
RxBodyWait ==
    \E s \in {"RX_BODY", "RX_BODY_CHUNK"} :
       /\ Fsm(IF s = "RX_BODY" THEN "RX_BODY_WAIT" ELSE "RX_BODY_CHUNK_WAIT")
       /\ \/ Return(pb)
          \/ Goto([pb EXCEPT !.state = s])
          \/ Outcome(pb, "IO_ERROR")

-----------------------------------------------------------------------------
(* Cancelling, and requests on a connection that was kept alive             *)

WaitCancel == Fsm("WAIT_CANCEL") /\ Goto([pbpal_close(pb) EXCEPT !.state = "WAIT_CANCEL_CLOSE"])

WaitCancelClose ==
    /\ Fsm("WAIT_CANCEL_CLOSE")
    /\ IF pb.retry_after_close THEN Goto([pb EXCEPT !.state = "RETRY"]) ELSE Reported(pb, "IDLE")

WaitCancelDns ==
    Fsm("WAIT_CANCEL_DNS") /\ Goto(close_connection([pb EXCEPT !.retry_after_close = TRUE], FALSE))

WaitCancelKeepalive == Fsm("WAIT_CANCEL_KEEPALIVE") /\ Goto(close_kept_alive_connection(pb))

KeepAliveReady ==
    /\ Fsm("KEEP_ALIVE_READY")
    /\ LET q == [pbntf_got_socket(pb) EXCEPT !.state = "TX_GET"]
       IN  Goto(q) \/ Goto(close_kept_alive_connection(q))

-----------------------------------------------------------------------------
(* The watcher thread between runs of the machine                           *)

\* pbpal_ntf_callback_process_queue takes an entry and lets go of the queue ...
Pop == /\ watcher = "idle" /\ pb.queued > 0
       /\ pb' = [pb EXCEPT !.queued = @ - 1]
       /\ watcher' = "popped"
       /\ UNCHANGED options

\* ... then waits for the context's monitor.
Lock == watcher = "popped" /\ watcher' = "fsm" /\ UNCHANGED <<options, pb>>

\* pbpal_ntf_poll_away: the descriptor is ready; the context is not in the queue
Poll == /\ watcher = "idle" /\ pb.polled > 0 /\ pb.queued = 0
        /\ watcher' = "requeue"
        /\ UNCHANGED <<options, pb>>

\* The insertion of pbntf_requeue_for_processing; a full queue refuses it.
PollEnqueue == /\ watcher = "requeue"
               /\ \/ pb' = pbntf_enqueue_for_processing(pb)
                  \/ "queue_full" \in Environment /\ UNCHANGED pb
               /\ watcher' = "idle"
               /\ UNCHANGED options

\* pbnc_stop, up to the requeueing
Stopped(p, outcome) ==
    LET q == [p EXCEPT !.last_result = outcome]
    IN  CASE p.state \in {"WAIT_CANCEL", "WAIT_CANCEL_CLOSE"} -> q
          [] p.state \in {"WAIT_DNS_SEND", "WAIT_DNS_RCV"} /\ outcome = "TIMEOUT" ->
                 IF RotationsLeft(q)
                 THEN [pbpal_dns_rotate_server(q) EXCEPT !.state = "WAIT_CANCEL_DNS"]
                 ELSE [pbpal_dns_rotate_server(q) EXCEPT
                           !.state = "WAIT_CANCEL", !.last_result = "ADDR_RESOLUTION_FAILED"]
          [] p.state = "WAIT_CONNECT" /\ outcome = "TIMEOUT" ->
                 [q EXCEPT !.state = "WAIT_CANCEL", !.last_result = "WAIT_CONNECT_TIMEOUT"]
          [] p.state = "IDLE" -> [q EXCEPT !.trans = FALSE]
          [] p.state \in {"KEEP_ALIVE_IDLE", "RX_HTTP_VER"} /\ outcome = "TIMEOUT"
                /\ p.started_while_kept_alive ->
                 [q EXCEPT !.state = "WAIT_CANCEL_KEEPALIVE",
                           !.trans = @ /\ p.state # "KEEP_ALIVE_IDLE"]
          [] OTHER -> [q EXCEPT !.state = "WAIT_CANCEL",
                                !.trans = @ /\ p.state # "KEEP_ALIVE_IDLE"]

\* Mutant: the watcher is not asked to run the machine.
StopsQuietly(p, outcome) == Stopped(p, outcome)

pbnc_stop(p, outcome) ==
    IF p.state \in {"IDLE", "WAIT_CANCEL", "WAIT_CANCEL_CLOSE"} THEN Stopped(p, outcome)
    ELSE pbntf_requeue_for_processing(Stopped(p, outcome))

\* pbntf_handle_timer_list: the context's timer has run down.
Expire == /\ watcher = "idle" /\ pb.timers > 0
          /\ LET p == [pb EXCEPT !.timers = @ - 1]
             IN  \/ pb' = pbnc_stop(p, "TIMEOUT")
                 \/ "queue_full" \in Environment /\ pb' = Stopped(p, "TIMEOUT")
          /\ UNCHANGED <<options, watcher>>

-----------------------------------------------------------------------------
(* The application's threads, under the context's monitor                   *)

Start == /\ watcher # "fsm" /\ pb.state \in CanStart
         /\ \/ pb' = start(pb)
            \/ "queue_full" \in Environment /\ pb' = QueueFull([start(pb) EXCEPT !.queued = pb.queued])
         /\ UNCHANGED <<options, watcher>>

\* pubnub_cancel
Cancel == /\ "cancel" \in Environment
          /\ watcher # "fsm"
          /\ watcher = "popped" /\ pb.state = "READY" => "cancel_after_pop" \in Environment
          /\ pb' = [pbnc_stop(pb, "CANCELLED") EXCEPT !.cancelled = pb.owed = 1]
          /\ UNCHANGED <<options, watcher>>

Init ==
    /\ options \in Options
    /\ watcher = "idle"
    /\ pb = [state |-> "IDLE", last_result |-> "OK", trans |-> FALSE,
             retry_after_close |-> FALSE, started_while_kept_alive |-> FALSE,
             should_close |-> FALSE, trySSL |-> FALSE, socket |-> "none", ssl |-> FALSE,
             spare |-> 0, server_check |-> 0, rotations_count |-> 0,
             http_code |-> 200, proxy_auth |-> FALSE,
             proxy_tunnel_established |-> FALSE, proxy_authorization_sent |-> FALSE,
             queued |-> 0, polled |-> 0, events |-> "out", timers |-> 0,
             owed |-> 0, cancelled |-> FALSE, cancels_honoured |-> TRUE, tunnelled |-> FALSE]

Run == \/ Idle \/ Retry \/ Ready
       \/ WaitDnsSend \/ WaitDnsRcv \/ WaitConnect \/ Connected \/ WaitTlsConnect
       \/ TxGet \/ Transmit
       \/ RxHttpVer \/ RxHeaders \/ RxHeaderLine \/ RxBody \/ RxBodyWait
       \/ RxChunkLen \/ RxChunkLenLine \/ RxBodyChunk
       \/ WaitCancel \/ WaitCancelClose \/ WaitCancelDns \/ WaitCancelKeepalive
       \/ KeepAliveReady

Next == Run \/ Pop \/ Lock \/ Poll \/ PollEnqueue \/ Expire \/ Start \/ Cancel

\* The watcher loops for ever and no case of the machine blocks.  A reply is
\* finite: a run that reads on comes to its end or to a drained socket.  A turn
\* of the watcher's loop takes 100 ms at most and runs down the timers, so a
\* timer that stays in the list expires although other steps come between.
Fairness == /\ WF_vars(Run) /\ WF_vars(Pop) /\ WF_vars(Lock) /\ WF_vars(PollEnqueue)
            /\ SF_vars(Run /\ watcher' # "fsm")
            /\ SF_vars(Expire)

Spec == Init /\ [][Next]_vars /\ Fairness

-----------------------------------------------------------------------------
\* The machine is not in the middle of a run.
Resting == watcher # "fsm"

(* The context and the watcher's view of it keep their types               *)
(* (core/pubnub_internal_common.h, struct pubnub_).                        *)
TypeOK == /\ options \in Options
          /\ pb \in Contexts
          /\ watcher \in {"idle", "popped", "fsm", "requeue"}

(* Every transaction that was started owes the application exactly one      *)
(* outcome until it is reported, however often the request is retried on    *)
(* another address, server or connection, and nothing else does             *)
(* (core/pubnub_netcore.c, outcome_detected and its callers).               *)
OneOutcome == Resting => /\ pb.state \in CanStart => pb.owed = 0
                         /\ pb.state \notin CanStart /\ pb.trans => pb.owed = 1

(* A context with no transaction is known to neither the poller, the timer  *)
(* list nor the queue: no late event or timer can start or stop what the    *)
(* application did not; and it has a socket exactly when its connection is  *)
(* kept alive (core/pubnub_netcore.c:417-446 and 541-546, pbpal_close).     *)
IdleIsForgotten == Resting =>
    /\ pb.state \in CanStart =>
          pb.polled = 0 /\ pb.timers = 0 /\ pb.queued = 0 /\ watcher # "popped"
    /\ pb.state \in {"IDLE", "READY"} => pb.socket = "none" /\ ~ pb.ssl
    /\ pb.state = "KEEP_ALIVE_IDLE" => pb.socket = "tcp"

(* An open transaction can always be woken: it has a queue entry being      *)
(* served or a running timer, so that it cannot hang for ever               *)
(* (core/pubnub_netcore.c, every case that breaks).                         *)
NeverStranded == Resting /\ pb.state \notin CanStart =>
                    pb.queued > 0 \/ pb.timers > 0 \/ watcher \in {"popped", "requeue"}

(* "PUBNUB_ASSERT_OPT(data->apb[i] != pb)": a context that gets a socket is *)
(* not in the poller yet, nor in the timer list, whose links a second       *)
(* insertion would break (lib/sockets/pbpal_ntf_callback_poller_poll.c:56,  *)
(* core/pubnub_timer_list.c:14-86).                                         *)
RegisteredOnce == pb.polled < 2 /\ pb.timers < 2

(* While it waits to read, the machine has the poller watch for input, and  *)
(* for output while it waits for the connection                             *)
(* (core/pubnub_netcore.c, pbntf_watch_in_events and pbntf_watch_out_events).*)
WatchesItsDirection ==
    Resting /\ pb.polled > 0 =>
        /\ pb.state \in Reading => pb.events = "in"
        /\ pb.state \in {"WAIT_CONNECT", "WAIT_DNS_SEND"} => pb.events = "out"

(* "Transaction generating PNR_TIMEOUT outcome at any point can not end up  *)
(* in PBS_KEEP_ALIVE_IDLE": no timer is left running on a connection that   *)
(* is kept alive (core/pubnub_netcore.c:1899-1900).                         *)
NoTimeoutWhileKeptAlive == pb.state = "KEEP_ALIVE_IDLE" => pb.timers = 0 /\ pb.last_result \notin Failures

(* The second request is sent "to which the proxy established a tunnel":    *)
(* what is sent as if through the tunnel goes through it                    *)
(* (core/pubnub_internal_common.h:567-571, core/pubnub_proxy_core.c:387-391).*)
TunnelIsReal == pb.state \in Sending /\ pb.proxy_tunnel_established => pb.tunnelled

(* "The outcome of the transaction in progress, if any, will be             *)
(* PNR_CANCELLED" (core/pubnub_pubsubapi.h:99-101).                         *)
CancelIsReported == pb.cancels_honoured

(* A spare address is refused, or expires, at once (try_TCP_connect_         *)
(* spare_address, core/pubnub_netcore.c:910-959); the application starts its *)
(* next transaction in its callback, and an outcome is owed again.          *)
SpareFails == pb.state = "READY" /\ pb'.spare < pb.spare
StartsInCallback == watcher = "fsm" /\ pb.state # "IDLE" /\ pb'.queued > pb.queued

(* Every transaction ends: its outcome is reported, whatever the network    *)
(* does (core/pubnub_netcore.c, the whole machine), unless one of the two   *)
(* above goes on for ever.                                                  *)
EveryTransactionEnds ==
    <>[][~ (SpareFails \/ StartsInCallback)]_vars => ((pb.owed = 1) ~> (pb.owed = 0))
=============================================================================
