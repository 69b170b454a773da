--------------------------- MODULE NetcoreProofs ---------------------------
(***************************************************************************)
(* The context of Netcore.tla keeps its type in every environment, and     *)
(* what the watcher thread knows of it is right: it is in the poller and   *)
(* in the timer list at most once, no timer runs on a connection that is   *)
(* kept alive, and the poller watches for what the machine waits for.      *)
(* Every transaction owes one outcome, can always be woken, and leaves     *)
(* nothing behind, whatever the options, the number of addresses, servers  *)
(* and rotations and the order of the steps, where nothing happens that    *)
(* the runs with a finding are about (Excluded).                           *)
(*                                                                         *)
(* The lemmas about the functions that change a context, and about what    *)
(* the steps of a connection leave alone, are what all the proofs about    *)
(* the context rest on.                                                    *)
(*                                                                         *)
(* RegisteredOnce is not inductive: that a context which gets a socket is  *)
(* in no list yet follows from the states in which it is in none, from     *)
(* there being no socket without a close, and from a connection's states   *)
(* having one.  Registered is that invariant; Directed is the one for what *)
(* the poller watches for, and covers the states the machine passes        *)
(* through without returning.                                              *)
(*                                                                         *)
(* The other three properties hold between runs of the machine; what makes *)
(* them so is what holds during a run.  Watched says, for each point of the*)
(* watcher's loop, what is owed, which states have a socket, a timer and an*)
(* entry in the poller, and how many entries the queue can hold: one may be*)
(* left over by a stop, which the closing of the socket then takes.        *)
(***************************************************************************)
EXTENDS Netcore, TLAPS

-----------------------------------------------------------------------------
(* What a context is made of *)

\* The types of a context's fields (core/pubnub_internal_common.h, struct pubnub_).
LEMMA Fields ==
    ASSUME NEW p \in Contexts
    PROVE  /\ p.state \in States /\ p.last_result \in Results /\ p.trans \in BOOLEAN
           /\ p.retry_after_close \in BOOLEAN /\ p.started_while_kept_alive \in BOOLEAN
           /\ p.should_close \in BOOLEAN /\ p.trySSL \in BOOLEAN
           /\ p.socket \in {"none", "udp", "tcp"} /\ p.ssl \in BOOLEAN
           /\ p.spare \in 0 .. MaxAddresses /\ p.server_check \in 0 .. Servers
           /\ p.rotations_count \in 0 .. MaxRotation - 1
           /\ p.http_code \in {200, 407, 500} /\ p.proxy_auth \in BOOLEAN
           /\ p.proxy_tunnel_established \in BOOLEAN
           /\ p.proxy_authorization_sent \in BOOLEAN
           /\ p.queued \in 0 .. MaxEntries /\ p.polled \in 0 .. 2
           /\ p.events \in {"in", "out"}
           /\ p.timers \in 0 .. 2 /\ p.owed \in -1 .. 1 /\ p.cancelled \in BOOLEAN
           /\ p.cancels_honoured \in BOOLEAN /\ p.tunnelled \in BOOLEAN
  BY DEF Contexts

\* A context with one field set to a value of the field's type is a context.
LEMMA SetState == \A p \in Contexts, x \in States : [p EXCEPT !.state = x] \in Contexts
  BY DEF Contexts

\* The result of the transaction (last_result)
LEMMA SetResult ==
    \A p \in Contexts, x \in Results : [p EXCEPT !.last_result = x] \in Contexts
  BY DEF Contexts

\* The transaction in progress, or none (trans)
LEMMA SetTrans == \A p \in Contexts, x \in BOOLEAN : [p EXCEPT !.trans = x] \in Contexts
  BY DEF Contexts

\* Whether the request is to be sent again (flags.retry_after_close)
LEMMA SetRetry ==
    \A p \in Contexts, x \in BOOLEAN : [p EXCEPT !.retry_after_close = x] \in Contexts
  BY DEF Contexts

\* Whether the transaction began on a connection kept alive (flags.started_while_kept_alive)
LEMMA SetStarted ==
    \A p \in Contexts, x \in BOOLEAN :
        [p EXCEPT !.started_while_kept_alive = x] \in Contexts
  BY DEF Contexts

\* Whether the connection is to be closed (flags.should_close)
LEMMA SetShouldClose ==
    \A p \in Contexts, x \in BOOLEAN : [p EXCEPT !.should_close = x] \in Contexts
  BY DEF Contexts

\* Whether TLS is to be tried (flags.trySSL)
LEMMA SetTrySSL == \A p \in Contexts, x \in BOOLEAN : [p EXCEPT !.trySSL = x] \in Contexts
  BY DEF Contexts

\* The socket (pal.socket)
LEMMA SetSocket ==
    \A p \in Contexts, x \in {"none", "udp", "tcp"} : [p EXCEPT !.socket = x] \in Contexts
  BY DEF Contexts

\* The TLS connection (pal.ssl)
LEMMA SetSsl == \A p \in Contexts, x \in BOOLEAN : [p EXCEPT !.ssl = x] \in Contexts
  BY DEF Contexts

\* The addresses left over (spare_addresses)
LEMMA SetSpare ==
    \A p \in Contexts, x \in 0 .. MaxAddresses : [p EXCEPT !.spare = x] \in Contexts
  BY DEF Contexts

\* The DNS servers that failed (dns_check)
LEMMA SetServer ==
    \A p \in Contexts, x \in 0 .. Servers : [p EXCEPT !.server_check = x] \in Contexts
  BY DEF Contexts

\* The attempts at DNS servers (flags.rotations_count)
LEMMA SetRotations ==
    \A p \in Contexts, x \in 0 .. MaxRotation - 1 :
        [p EXCEPT !.rotations_count = x] \in Contexts
  BY DEF Contexts

\* Whether the proxy asks for credentials (proxy_auth_scheme)
LEMMA SetAuth == \A p \in Contexts, x \in BOOLEAN : [p EXCEPT !.proxy_auth = x] \in Contexts
  BY DEF Contexts

\* Whether the proxy made a tunnel (proxy_tunnel_established)
LEMMA SetTunnel ==
    \A p \in Contexts, x \in BOOLEAN :
        [p EXCEPT !.proxy_tunnel_established = x] \in Contexts
  BY DEF Contexts

\* Whether credentials were sent (proxy_authorization_sent)
LEMMA SetAuthorized ==
    \A p \in Contexts, x \in BOOLEAN :
        [p EXCEPT !.proxy_authorization_sent = x] \in Contexts
  BY DEF Contexts

\* The entries in the callback queue
LEMMA SetQueued ==
    \A p \in Contexts, x \in 0 .. MaxEntries : [p EXCEPT !.queued = x] \in Contexts
  BY DEF Contexts

\* The entries in the poller
LEMMA SetPolled == \A p \in Contexts, x \in 0 .. 2 : [p EXCEPT !.polled = x] \in Contexts
  BY DEF Contexts

\* What the poller watches for
LEMMA SetEvents ==
    \A p \in Contexts, x \in {"in", "out"} : [p EXCEPT !.events = x] \in Contexts
  BY DEF Contexts

\* The links in the timer list
LEMMA SetTimers == \A p \in Contexts, x \in 0 .. 2 : [p EXCEPT !.timers = x] \in Contexts
  BY DEF Contexts

\* The outcomes owed to the application
LEMMA SetOwed == \A p \in Contexts, x \in -1 .. 1 : [p EXCEPT !.owed = x] \in Contexts
  BY DEF Contexts

\* Whether the transaction was cancelled
LEMMA SetCancelled ==
    \A p \in Contexts, x \in BOOLEAN : [p EXCEPT !.cancelled = x] \in Contexts
  BY DEF Contexts

\* Whether every cancellation was reported
LEMMA SetHonoured ==
    \A p \in Contexts, x \in BOOLEAN : [p EXCEPT !.cancels_honoured = x] \in Contexts
  BY DEF Contexts

\* Whether the connection is a tunnel
LEMMA SetTunnelled ==
    \A p \in Contexts, x \in BOOLEAN : [p EXCEPT !.tunnelled = x] \in Contexts
  BY DEF Contexts

-----------------------------------------------------------------------------
(* The functions that change a context *)

\* The counts of registrations stay within their bounds, whatever is added or removed.
LEMMA Counts ==
    ASSUME NEW p \in Contexts
    PROVE  /\ (IF p.polled > 0 THEN p.polled - 1 ELSE 0) \in 0 .. 2
           /\ (IF p.timers > 0 THEN p.timers - 1 ELSE 0) \in 0 .. 2
           /\ (IF p.queued > 0 THEN p.queued - 1 ELSE 0) \in 0 .. MaxEntries
           /\ Min2(p.polled + 1, 2) \in 0 .. 2 /\ Min2(p.timers + 1, 2) \in 0 .. 2
           /\ Min2(p.queued + 1, MaxEntries) \in 0 .. MaxEntries
           /\ (IF p.timers > 0 THEN p.timers ELSE 1) \in 0 .. 2
           /\ (IF p.queued > 0 THEN p.queued ELSE 1) \in 0 .. MaxEntries
           /\ Min2(p.owed + 1, 1) \in -1 .. 1
  BY Fields, BoundsAssumption DEF Min2

\* pbntf_lost_socket
LEMMA LostTyped == \A p \in Contexts : pbntf_lost_socket(p) \in Contexts
  BY Counts, SetQueued, SetPolled, SetTimers, SetEvents DEF pbntf_lost_socket

\* pbntf_got_socket
LEMMA GotTyped == \A p \in Contexts : pbntf_got_socket(p) \in Contexts
  BY Counts, SetQueued, SetPolled, SetTimers, SetEvents DEF pbntf_got_socket

\* pbntf_start_wait_connect_timer and pbntf_start_transaction_timer
LEMMA TimerTyped == \A p \in Contexts : start_timer(p) \in Contexts
  BY Counts, SetQueued, SetPolled, SetTimers, SetEvents DEF start_timer

\* The insertions into the callback queue
LEMMA QueueTyped ==
    \A p \in Contexts : pbntf_enqueue_for_processing(p) \in Contexts
        /\ pbntf_requeue_for_processing(p) \in Contexts
  BY Counts, SetQueued, SetPolled, SetTimers, SetEvents
     DEF pbntf_enqueue_for_processing, pbntf_requeue_for_processing

\* pbntf_watch_in_events and pbntf_watch_out_events
LEMMA WatchTyped ==
    \A p \in Contexts : watch_in(p) \in Contexts /\ watch_out(p) \in Contexts
  BY SetEvents DEF watch_in, watch_out

\* pbpal_close
LEMMA CloseTyped == \A p \in Contexts : pbpal_close(p) \in Contexts
  BY SetSsl, SetTunnelled, SetSocket, LostTyped DEF pbpal_close

\* The states a transaction starts and ends in
LEMMA StatesNamed ==
    {"IDLE", "KEEP_ALIVE_IDLE", "READY", "RETRY", "KEEP_ALIVE_READY"} \subseteq States
  BY DEF States, CanStart, Passing

\* The case PBS_IDLE
LEMMA IdleCaseTyped ==
    ASSUME options \in OptionRecords, NEW p \in Contexts
    PROVE  IdleCase(p) \in Contexts
<1>1. 0 \in 0 .. Servers /\ "READY" \in States /\ options.useSSL \in BOOLEAN
  BY BoundsAssumption DEF States, OptionRecords
<1>2. [p EXCEPT !.server_check = 0, !.retry_after_close = FALSE,
                !.proxy_tunnel_established = FALSE, !.proxy_authorization_sent = FALSE,
                !.trySSL = options.useSSL, !.state = "READY"] \in Contexts
  BY <1>1, SetServer, SetRetry, SetTunnel, SetAuthorized, SetTrySSL, SetState
<1> QED
  BY <1>2, QueueTyped DEF IdleCase

\* The case PBS_KEEP_ALIVE_IDLE
LEMMA KeepAliveIdleCaseTyped == \A p \in Contexts : KeepAliveIdleCase(p) \in Contexts
<1> SUFFICES ASSUME NEW p \in Contexts PROVE KeepAliveIdleCase(p) \in Contexts
  OBVIOUS
<1>1. [p EXCEPT !.proxy_authorization_sent = FALSE, !.state = "KEEP_ALIVE_READY",
                  !.started_while_kept_alive = TRUE] \in Contexts
  BY StatesNamed, SetAuthorized, SetState, SetStarted
<1> QED
  BY <1>1, QueueTyped DEF KeepAliveIdleCase

\* The start of a transaction
LEMMA StartTyped ==
    ASSUME options \in OptionRecords, NEW p \in Contexts
    PROVE  start(p) \in Contexts
<1>1. "STARTED" \in Results /\ Min2(p.owed + 1, 1) \in -1 .. 1
  BY Counts DEF Results
<1>2. [p EXCEPT !.trans = TRUE, !.last_result = "STARTED",
                       !.owed = Min2(@ + 1, 1), !.cancelled = FALSE] \in Contexts
  BY <1>1, SetTrans, SetResult, SetOwed, SetCancelled
<1> QED
  BY <1>2, IdleCaseTyped, KeepAliveIdleCaseTyped DEF start

\* pbntf_trans_outcome, and a callback that starts the next transaction
LEMMA TransOutcomeTyped ==
    ASSUME options \in OptionRecords, NEW p \in Contexts, NEW s \in States,
           NEW again \in BOOLEAN
    PROVE  pbntf_trans_outcome(p, s, again) \in Contexts
<1>1. /\ (IF p.trans /\ p.owed > -1 THEN p.owed - 1 ELSE p.owed) \in -1 .. 1
      /\ (p.cancels_honoured /\ (p.cancelled => p.last_result = "CANCELLED")) \in BOOLEAN
  BY Fields
<1>2. [p EXCEPT !.state = s,
                       !.owed = IF p.trans /\ @ > -1 THEN @ - 1 ELSE @,
                       !.cancels_honoured = @ /\ (p.cancelled
                           => p.last_result = "CANCELLED"),
                       !.cancelled = FALSE] \in Contexts
  BY <1>1, SetState, SetOwed, SetHonoured, SetCancelled
<1> QED
  BY <1>2, StartTyped DEF pbntf_trans_outcome

\* close_connection and close_kept_alive_connection
LEMMA CloseConnectionTyped ==
    ASSUME options \in OptionRecords, NEW p \in Contexts, NEW again \in BOOLEAN
    PROVE  close_connection(p, again) \in Contexts
             /\ close_kept_alive_connection(p) \in Contexts
<1>1. \A c \in Contexts : pbpal_close(c) \in Contexts
  BY CloseTyped
<1>2. [p EXCEPT !.started_while_kept_alive = FALSE] \in Contexts
  BY SetStarted
<1> QED
  BY <1>1, <1>2, StatesNamed, SetState, TransOutcomeTyped
     DEF close_connection, close_kept_alive_connection

\* outcome_detected
LEMMA OutcomeTyped ==
    ASSUME options \in OptionRecords, NEW p \in Contexts, NEW rslt \in Results,
           NEW young \in BOOLEAN, NEW again \in BOOLEAN
    PROVE  outcome_detected(p, rslt, young, again) \in Contexts
<1> DEFINE q == [p EXCEPT !.last_result = rslt]
<1>1. q \in Contexts /\ pbntf_lost_socket(q) \in Contexts
  BY SetResult, LostTyped
<1>2. [pbntf_trans_outcome(pbntf_lost_socket(q), "KEEP_ALIVE_IDLE", again)
                 EXCEPT !.retry_after_close = FALSE] \in Contexts
  BY <1>1, StatesNamed, TransOutcomeTyped, SetRetry
<1>3. close_connection([q EXCEPT !.started_while_kept_alive = FALSE], again) \in Contexts
  BY <1>1, SetStarted, CloseConnectionTyped
<1> QED
  BY <1>2, <1>3 DEF outcome_detected

-----------------------------------------------------------------------------
(* Resolving and connecting *)

\* A start that the full queue refuses
LEMMA QueueFullTyped ==
    ASSUME options \in OptionRecords, NEW p \in Contexts
    PROVE  QueueFull(p) \in Contexts
<1>1. [p EXCEPT !.last_result = "INTERNAL_ERROR"] \in Contexts
  BY SetResult DEF Results, Failures
<1> QED
  BY <1>1, StatesNamed, TransOutcomeTyped DEF QueueFull

\* What is on the way of a connection and what is left alone by it
Keeps(p, q) ==
    /\ q.state = p.state /\ q.last_result = p.last_result /\ q.trans = p.trans
    /\ q.started_while_kept_alive = p.started_while_kept_alive /\ q.ssl = p.ssl
    /\ q.queued = p.queued /\ q.polled = p.polled /\ q.events = p.events
    /\ q.timers = p.timers /\ q.owed = p.owed

\* The next spare address leaves what is registered alone.
LEMMA NextAddressTyped ==
    ASSUME NEW p \in Contexts
    PROVE  /\ next_address(p) \in Contexts /\ Keeps(p, next_address(p))
           /\ next_address(p).socket = p.socket
<1> DEFINE left == IF p.spare > 0 THEN p.spare - 1 ELSE 0
           q == [p EXCEPT !.spare = left]
<1>1. left \in 0 .. MaxAddresses /\ (left > 0) \in BOOLEAN
  BY Fields, BoundsAssumption
<1>2. q \in Contexts /\ Keeps(p, q) /\ q.socket = p.socket
  <2>1. q \in Contexts
    BY <1>1, SetSpare
  <2> QED
    BY <2>1 DEF Contexts, Keeps
<1> HIDE DEF left
<1>3. [q EXCEPT !.retry_after_close = left > 0] \in Contexts
  BY <1>1, <1>2, SetRetry
<1>4. next_address(p) = [q EXCEPT !.retry_after_close = left > 0]
  BY DEF next_address, left
<1> QED
  BY <1>2, <1>3, <1>4 DEF Contexts, Keeps

\* ... as does the decision to try TLS,
LEMMA SameButTLS ==
    ASSUME NEW p \in Contexts, NEW b \in BOOLEAN
    PROVE  /\ [p EXCEPT !.trySSL = b] \in Contexts /\ Keeps(p, [p EXCEPT !.trySSL = b])
           /\ [p EXCEPT !.trySSL = b].socket = p.socket
           /\ [p EXCEPT !.trySSL = b].retry_after_close = p.retry_after_close
  BY DEF Contexts, Keeps

\* ... a new socket,
LEMMA SameButSocket ==
    ASSUME NEW p \in Contexts, NEW s \in {"none", "udp", "tcp"}
    PROVE  /\ [p EXCEPT !.socket = s] \in Contexts /\ Keeps(p, [p EXCEPT !.socket = s])
           /\ [p EXCEPT !.socket = s].socket = s
           /\ [p EXCEPT !.socket = s].retry_after_close = p.retry_after_close
  BY DEF Contexts, Keeps

\* ... and several such steps in a row.
LEMMA KeepsChain ==
    ASSUME NEW p, NEW q, NEW r, Keeps(p, q), Keeps(q, r)
    PROVE  Keeps(p, r)
  BY DEF Keeps

\* An error recorded for a DNS server leaves it alone too.
LEMMA ServerError ==
    ASSUME NEW p \in Contexts
    PROVE  /\ check_dns_server_error(p) \in Contexts /\ Keeps(p, check_dns_server_error(p))
           /\ check_dns_server_error(p).socket = p.socket
<1>1. server(p) \in 0 .. Servers /\ (p.retry_after_close \/ server(p) < Servers) \in BOOLEAN
  BY Fields, BoundsAssumption DEF server, Min2
<1>2. check_dns_server_error(p) \in Contexts
  BY <1>1, SetServer, SetRetry DEF check_dns_server_error
<1> QED
  BY <1>2 DEF Contexts, Keeps, check_dns_server_error

\* How resolving and connecting end: in failure,
Failed == {"connect_failed", "connect_resource_failure", "resolv_failed_send",
           "resolv_resource_failure", "resolv_failed_rcv"}

\* ... with a query sent to a DNS server,
Sent == {"resolv_sent", "resolv_send_wouldblock"}

\* ... or with a connection made or under way.
Made == {"connect_success", "connect_wouldblock"}

\* What every way of connecting leaves behind, with its socket
Step(p, c) ==
    /\ c[2] \in Contexts /\ Keeps(p, c[2])
    /\ c[1] \in Failed \cup Sent \cup Made \cup {"resolv_rcv_wouldblock"}
    /\ c[1] \in Sent => c[2].socket = "udp"
    /\ c[1] \in Made => c[2].socket = "tcp"
    /\ c[1] = "resolv_rcv_wouldblock" => c[2].socket = p.socket
\* What a failure to resolve leaves
LeavesNone(c) == c[1] \in Failed => c[2].retry_after_close \/ c[2].socket = "none"

\* connect_TCP_socket
LEMMA TcpSteps ==
    ASSUME NEW p \in Contexts, NEW c \in connect_TCP_socket(p)
    PROVE  /\ Step(p, c) /\ c[1] \in Made \cup {"connect_failed",
                "connect_resource_failure"}
           /\ c[1] = "connect_failed" => c[2].socket = "tcp"
           /\ c[1] = "connect_resource_failure" => c[2].socket = "none"
<1>1. \/ /\ c[1] \in Made \cup {"connect_failed"}
         /\ c[2] = [p EXCEPT !.socket = "tcp"]
      \/ c[1] = "connect_resource_failure" /\ c[2] = [p EXCEPT !.socket = "none"]
  BY DEF connect_TCP_socket, Made
<1>2. /\ [p EXCEPT !.socket = "tcp"] \in Contexts /\ Keeps(p, [p EXCEPT !.socket = "tcp"])
      /\ [p EXCEPT !.socket = "tcp"].socket = "tcp"
      /\ [p EXCEPT !.socket = "none"] \in Contexts /\ Keeps(p, [p EXCEPT !.socket = "none"])
      /\ [p EXCEPT !.socket = "none"].socket = "none"
  BY SameButSocket
<1>3. CASE c[2] = [p EXCEPT !.socket = "tcp"] /\ c[1] \in Made \cup {"connect_failed"}
  BY <1>2, <1>3 DEF Step, Failed, Sent, Made
<1>4. CASE c[1] = "connect_resource_failure" /\ c[2] = [p EXCEPT !.socket = "none"]
  BY <1>2, <1>4 DEF Step, Failed, Sent, Made
<1> QED
  BY <1>1, <1>3, <1>4

\* if_no_retry_close_socket closes the socket or leaves it for a retry.
LEMMA CloseUnlessRetry ==
    ASSUME NEW p \in Contexts
    PROVE  LET q == if_no_retry_close_socket(p)
           IN  /\ q \in Contexts /\ Keeps(p, q)
               /\ q.retry_after_close \/ q.socket = "none"
               /\ p.retry_after_close => q = p
<1>1. Keeps(p, p)
  BY DEF Keeps
<1> QED
  BY <1>1, SameButSocket DEF if_no_retry_close_socket

\* The query of a DNS server: where it fails, it leaves no socket or a retry.
LEMMA DnsSteps ==
    ASSUME NEW p \in Contexts, NEW c \in query_dns(p)
    PROVE  Step(p, c) /\ LeavesNone(c) /\ c[1] \notin Made
<1> DEFINE q == [p EXCEPT !.socket = "udp"]
           r == check_dns_server_error(q)
           s == if_no_retry_close_socket(r)
<1>1. q \in Contexts /\ Keeps(p, q) /\ q.socket = "udp"
  BY SameButSocket
<1>2. r \in Contexts /\ Keeps(p, r)
  BY <1>1, ServerError, KeepsChain
<1>3. s \in Contexts /\ Keeps(p, s) /\ (s.retry_after_close \/ s.socket = "none")
  BY <1>2, CloseUnlessRetry, KeepsChain
<1>4. Keeps(p, p)
  BY DEF Keeps
<1>5. \/ c = <<"resolv_sent", q>> \/ c = <<"resolv_send_wouldblock", q>>
      \/ c = <<"resolv_failed_send", s>>
      \/ c = <<"resolv_resource_failure", p>> /\ p.socket = "none"
  BY DEF query_dns
<1> HIDE DEF q, r, s
<1> QED
  BY <1>1, <1>2, <1>3, <1>4, <1>5 DEF Step, LeavesNone, Failed, Sent, Made

\* A connecting step may follow steps that leave the registrations alone.
LEMMA StepChain ==
    ASSUME NEW p, NEW q, NEW c, Keeps(p, q), Step(q, c), c[1] # "resolv_rcv_wouldblock"
    PROVE  Step(p, c)
  BY KeepsChain DEF Step

\* try_TCP_connect_spare_address, which leaves no socket or a retry too.
LEMMA SpareSteps ==
    ASSUME options \in OptionRecords, NEW p \in Contexts,
           NEW c \in try_TCP_connect_spare_address(p)
    PROVE  Step(p, c) /\ LeavesNone(c) /\ c[1] # "resolv_rcv_wouldblock"
<1> DEFINE tried == {d \in connect_TCP_socket(p) :
                        d[1] = "connect_failed" => "unreachable" \in Environment} \cup
                    (IF "ttl" \in Environment THEN {<<"connect_failed", p>>} ELSE {})
           Fails(q) == if_no_retry_close_socket([next_address(q) EXCEPT !.trySSL
               = options.useSSL])
<1>1. \A d \in tried : Step(p, d)
        /\ d[1] \in Made \cup {"connect_failed", "connect_resource_failure"}
                         /\ (d[1] = "connect_resource_failure" => d[2].socket = "none")
  BY TcpSteps DEF Step, Keeps, Failed, Sent, Made
<1>2. ASSUME NEW d \in tried, d[1] = "connect_failed"
      PROVE  Fails(d[2]) \in Contexts /\ Keeps(p, Fails(d[2]))
  <2>1. d[2] \in Contexts /\ Keeps(p, d[2])
    BY <1>1 DEF Step
  <2>2. options.useSSL \in BOOLEAN
    BY DEF OptionRecords
  <2>3. next_address(d[2]) \in Contexts /\ Keeps(p, next_address(d[2]))
    BY <2>1, NextAddressTyped, KeepsChain
  <2>4. /\ [next_address(d[2]) EXCEPT !.trySSL = options.useSSL] \in Contexts
        /\ Keeps(p, [next_address(d[2]) EXCEPT !.trySSL = options.useSSL])
    BY <2>2, <2>3, SameButTLS, KeepsChain
  <2> QED
    BY <2>4, CloseUnlessRetry, KeepsChain
<1>3. \/ c \in tried /\ c[1] # "connect_failed"
      \/ \E d \in tried : /\ d[1] = "connect_failed"
                          /\ IF Fails(d[2]).retry_after_close
                             THEN c = <<"connect_failed", Fails(d[2])>>
                             ELSE c \in query_dns(Fails(d[2]))
  BY DEF try_TCP_connect_spare_address
<1> HIDE DEF tried, Fails
<1>4. CASE c \in tried /\ c[1] # "connect_failed"
  BY <1>1, <1>4 DEF LeavesNone, Failed, Made
<1>5. ASSUME NEW d \in tried, d[1] = "connect_failed", Fails(d[2]).retry_after_close,
             c = <<"connect_failed", Fails(d[2])>>
      PROVE  Step(p, c) /\ LeavesNone(c) /\ c[1] # "resolv_rcv_wouldblock"
  BY <1>2, <1>5 DEF Step, LeavesNone, Failed, Sent, Made
<1>6. ASSUME NEW d \in tried, d[1] = "connect_failed", c \in query_dns(Fails(d[2]))
      PROVE  Step(p, c) /\ LeavesNone(c) /\ c[1] # "resolv_rcv_wouldblock"
  <2>1. Step(Fails(d[2]), c) /\ LeavesNone(c) /\ c[1] # "resolv_rcv_wouldblock"
    <3>1. Step(Fails(d[2]), c) /\ LeavesNone(c)
      BY <1>2, <1>6, DnsSteps
    <3>2. c[1] # "resolv_rcv_wouldblock"
      BY <1>6 DEF query_dns
    <3> QED BY <3>1, <3>2
  <2> QED
    BY <1>2, <1>6, <2>1, StepChain
<1> QED
  BY <1>3, <1>4, <1>5, <1>6

\* pbpal_resolv_and_connect: only a proxy's own
\* address that refuses leaves a socket and no retry.
LEMMA ConnectSteps ==
    ASSUME options \in OptionRecords, NEW p \in Contexts,
           NEW c \in pbpal_resolv_and_connect(p)
    PROVE  /\ Step(p, c) /\ c[1] # "resolv_rcv_wouldblock"
           /\ LeavesNone(c) \/ (options.proxy_address /\ c[2].socket = "tcp")
<1>1. CASE options.proxy_type # "NONE" /\ options.proxy_address
  <2>1. c \in connect_TCP_socket(p)
    BY <1>1 DEF pbpal_resolv_and_connect
  <2> QED
    BY <1>1, <2>1, TcpSteps DEF LeavesNone, Failed, Made
<1>2. CASE ~ (options.proxy_type # "NONE" /\ options.proxy_address) /\ p.spare > 0
  <2>1. c \in try_TCP_connect_spare_address(p)
    BY <1>2 DEF pbpal_resolv_and_connect
  <2> QED
    BY <2>1, SpareSteps
<1>3. CASE ~ (options.proxy_type # "NONE" /\ options.proxy_address) /\ ~ (p.spare > 0)
  BY <1>3, DnsSteps DEF pbpal_resolv_and_connect, query_dns
<1> QED
  BY <1>1, <1>2, <1>3

\* pbpal_check_resolv_and_connect
LEMMA AnswerSteps ==
    ASSUME options \in OptionRecords, NEW p \in Contexts,
           NEW c \in pbpal_check_resolv_and_connect(p)
    PROVE  Step(p, c) /\ c[1] \notin Sent
<1>1. Keeps(p, p) /\ check_dns_server_error(p) \in Contexts
        /\ Keeps(p, check_dns_server_error(p))
  BY ServerError DEF Keeps
<1>2. ASSUME NEW n \in 1 .. MaxAddresses, NEW d \in connect_resolved(p, n)
      PROVE  Step(p, d) /\ d[1] \notin Sent
  <2> DEFINE q == [p EXCEPT !.rotations_count = 0, !.spare = n]
  <2>1. q \in Contexts /\ Keeps(p, q)
    <3>1. n \in 0 .. MaxAddresses /\ 0 \in 0 .. MaxRotation - 1
      BY BoundsAssumption
    <3>2. q \in Contexts
      BY <3>1, SetRotations, SetSpare
    <3> QED BY <3>2 DEF Contexts, Keeps
  <2>2. PICK e \in connect_TCP_socket(q) :
            d = IF e[1] = "connect_failed"
                THEN <<e[1], [next_address(e[2]) EXCEPT !.trySSL = options.useSSL]>> ELSE e
    BY <1>2 DEF connect_resolved
  <2> HIDE DEF q
  <2>3. Step(p, e) /\ e[1] \notin Sent
    BY <2>1, TcpSteps, StepChain DEF Made, Sent
  <2>4. CASE e[1] # "connect_failed"
    BY <2>2, <2>3, <2>4
  <2>5. CASE e[1] = "connect_failed"
    <3>1. next_address(e[2]) \in Contexts /\ Keeps(p, next_address(e[2]))
      BY <2>3, NextAddressTyped, KeepsChain DEF Step
    <3>2. options.useSSL \in BOOLEAN
      BY DEF OptionRecords
    <3>3. /\ [next_address(e[2]) EXCEPT !.trySSL = options.useSSL] \in Contexts
          /\ Keeps(p, [next_address(e[2]) EXCEPT !.trySSL = options.useSSL])
      BY <3>1, <3>2, SameButTLS, KeepsChain
    <3> QED
      BY <2>2, <2>5, <3>3 DEF Step, Failed, Sent, Made
  <2> QED
    BY <2>4, <2>5
<1>3. \/ c = <<"resolv_rcv_wouldblock", p>>
      \/ c = <<"resolv_failed_rcv", check_dns_server_error(p)>>
      \/ \E n \in 1 .. MaxAddresses : c \in connect_resolved(p, n)
  BY DEF pbpal_check_resolv_and_connect
<1>4. CASE c = <<"resolv_rcv_wouldblock", p>>
  BY <1>1, <1>4 DEF Step, Failed, Sent, Made
<1>5. CASE c = <<"resolv_failed_rcv", check_dns_server_error(p)>>
  BY <1>1, <1>5 DEF Step, Failed, Sent, Made
<1> QED
  BY <1>2, <1>3, <1>4, <1>5

-----------------------------------------------------------------------------
(* The cases of the machine and the other steps *)

\* The decision to retry leaves what is registered alone.
LEMMA SameButRetry ==
    ASSUME NEW p \in Contexts, NEW b \in BOOLEAN
    PROVE  /\ [p EXCEPT !.retry_after_close = b] \in Contexts
           /\ Keeps(p, [p EXCEPT !.retry_after_close = b])
           /\ [p EXCEPT !.retry_after_close = b].socket = p.socket
           /\ [p EXCEPT !.retry_after_close = b].retry_after_close = b
  BY DEF Contexts, Keeps

\* Whether the callback starts the next transaction is a Boolean.
LEMMA Restarts == \A a \in {FALSE} \cup {"restart" \in Environment} : a \in BOOLEAN
<1>1. {FALSE} \cup {"restart" \in Environment} \subseteq BOOLEAN
  BY SMT
<1> QED
  BY <1>1, Zenon

\* pbtlsFailed
LEMMA TlsFailedTyped ==
    ASSUME NEW p \in Contexts
    PROVE  /\ tls_failed(p) \in Contexts /\ Keeps(p, tls_failed(p))
           /\ tls_failed(p).socket = p.socket
<1> DEFINE q == [p EXCEPT !.trySSL = FALSE]
<1>1. q \in Contexts /\ Keeps(p, q) /\ q.socket = p.socket
  BY SameButTLS
<1>2. /\ [q EXCEPT !.retry_after_close = TRUE] \in Contexts
      /\ Keeps(q, [q EXCEPT !.retry_after_close = TRUE])
      /\ [q EXCEPT !.retry_after_close = TRUE].socket = q.socket
  BY <1>1, SameButRetry
<1>3. [p EXCEPT !.trySSL = FALSE, !.retry_after_close = TRUE]
         = [q EXCEPT !.retry_after_close = TRUE]
  OBVIOUS
<1> HIDE DEF q
<1>4. CASE options.fallbackSSL
  BY <1>1, <1>2, <1>3, <1>4, KeepsChain DEF tls_failed
<1>5. CASE ~ options.fallbackSSL
  BY <1>5, NextAddressTyped DEF tls_failed
<1> QED
  BY <1>4, <1>5

\* pbpal_dns_rotate_server
LEMMA RotateTyped ==
    ASSUME NEW p \in Contexts
    PROVE  pbpal_dns_rotate_server(p) \in Contexts
<1>1. /\ 0 \in 0 .. Servers /\ server(p) \in 0 .. Servers /\ 1 \in 0 .. MaxRotation - 1
      /\ RotationsLeft(p) /\ server(p) = Servers
           => p.rotations_count + 1 \in 0 .. MaxRotation - 1
  BY Fields, BoundsAssumption DEF server, Min2, RotationsLeft
<1>2. CASE ~ RotationsLeft(p)
  BY <1>1, <1>2, SetServer, SetRetry, SetRotations DEF pbpal_dns_rotate_server
<1>3. CASE RotationsLeft(p) /\ server(p) = Servers
  BY <1>1, <1>3, SetServer, SetRotations DEF pbpal_dns_rotate_server
<1>4. CASE RotationsLeft(p) /\ server(p) # Servers
  BY <1>1, <1>4, SetServer DEF pbpal_dns_rotate_server
<1> QED
  BY <1>2, <1>3, <1>4

\* pbnc_stop
LEMMA StoppedTyped ==
    ASSUME NEW p \in Contexts, NEW outcome \in {"TIMEOUT", "CANCELLED"}
    PROVE  Stopped(p, outcome) \in Contexts /\ pbnc_stop(p, outcome) \in Contexts
<1> DEFINE q == [p EXCEPT !.last_result = outcome]
           r == pbpal_dns_rotate_server(q)
<1>1. /\ q \in Contexts /\ r \in Contexts
      /\ {"WAIT_CANCEL", "WAIT_CANCEL_DNS", "WAIT_CANCEL_KEEPALIVE"} \subseteq States
      /\ {"ADDR_RESOLUTION_FAILED", "WAIT_CONNECT_TIMEOUT"} \subseteq Results
      /\ FALSE \in BOOLEAN /\ (q.trans /\ p.state # "KEEP_ALIVE_IDLE") \in BOOLEAN
  <2>1. outcome \in Results
    BY DEF Results, Failures
  <2>2. q \in Contexts
    BY <2>1, SetResult
  <2>3. r \in Contexts
    BY <2>2, RotateTyped
  <2> QED
    BY <2>2, <2>3, Fields DEF States, Cancelling, Results, Failures
<1> HIDE DEF q, r
<1>2. \/ Stopped(p, outcome) = q
      \/ Stopped(p, outcome) = [r EXCEPT !.state = "WAIT_CANCEL_DNS"]
      \/ Stopped(p, outcome) = [r EXCEPT !.state = "WAIT_CANCEL",
                                         !.last_result = "ADDR_RESOLUTION_FAILED"]
      \/ Stopped(p, outcome) = [q EXCEPT !.state = "WAIT_CANCEL",
                                         !.last_result = "WAIT_CONNECT_TIMEOUT"]
      \/ Stopped(p, outcome) = [q EXCEPT !.trans = FALSE]
      \/ \E s \in {"WAIT_CANCEL", "WAIT_CANCEL_KEEPALIVE"} :
            Stopped(p, outcome) = [q EXCEPT !.state = s,
                                            !.trans = @ /\ p.state # "KEEP_ALIVE_IDLE"]
  BY DEF Stopped, q, r
<1>3. Stopped(p, outcome) \in Contexts
  <2>1. [r EXCEPT !.state = "WAIT_CANCEL_DNS"] \in Contexts
    BY <1>1, SetState
  <2>2. [r EXCEPT !.state = "WAIT_CANCEL",
          !.last_result = "ADDR_RESOLUTION_FAILED"] \in Contexts
    BY <1>1, SetState, SetResult
  <2>3. [q EXCEPT !.state = "WAIT_CANCEL",
          !.last_result = "WAIT_CONNECT_TIMEOUT"] \in Contexts
    BY <1>1, SetState, SetResult
  <2>4. [q EXCEPT !.trans = FALSE] \in Contexts
    BY <1>1, SetTrans
  <2>5. \A s \in {"WAIT_CANCEL", "WAIT_CANCEL_KEEPALIVE"} :
           [q EXCEPT !.state = s, !.trans = @ /\ p.state # "KEEP_ALIVE_IDLE"] \in Contexts
    BY <1>1, SetState, SetTrans
  <2> QED
    BY <1>1, <1>2, <2>1, <2>2, <2>3, <2>4, <2>5
<1> QED
  BY <1>3, QueueTyped DEF pbnc_stop

\* A step of the machine goes on or returns to the watcher, with a context of its type.
Moves == pb' \in Contexts /\ watcher' \in {"fsm", "idle"}

\* Going on, returning and breaking
LEMMA BreakMoves ==
    ASSUME NEW p \in Contexts
    PROVE  (Goto(p) => Moves) /\ (Return(p) => Moves) /\ (Break(p) => Moves)
  BY DEF Goto, Return, Break, Moves

\* ... with an outcome
LEMMA OutcomeMoves ==
    ASSUME options \in OptionRecords, NEW p \in Contexts, NEW rslt \in Results,
           Outcome(p, rslt)
    PROVE  Moves
<1>1. PICK young \in BOOLEAN, again \in BOOLEAN :
         Break(outcome_detected(p, rslt, young, again))
  BY Restarts, Zenon DEF Outcome
<1> QED
  BY <1>1, OutcomeTyped, BreakMoves

\* ... or with the report of one
LEMMA ReportMoves ==
    ASSUME options \in OptionRecords, NEW p \in Contexts, Reported(p, "IDLE")
    PROVE  Moves
<1>1. PICK again \in BOOLEAN : Return(pbntf_trans_outcome(p, "IDLE", again))
  BY Restarts, Zenon DEF Reported
<1> QED
  BY <1>1, StatesNamed, TransOutcomeTyped, BreakMoves

\* The start of a request
LEMMA SendRequestMoves ==
    ASSUME options \in OptionRecords, NEW p \in Contexts, SendRequest(p)
    PROVE  Moves
<1>1. "TX_GET" \in States /\ "IO_ERROR" \in Results
  BY DEF States, Sending, Results, Failures
<1> QED
  BY <1>1, SetState, BreakMoves, OutcomeMoves DEF SendRequest

\* The start of TLS
LEMMA StartTlsMoves ==
    ASSUME options \in OptionRecords, NEW p \in Contexts, StartTls(p)
    PROVE  Moves
<1> DEFINE q == [p EXCEPT !.ssl = TRUE]
<1>1. q \in Contexts /\ tls_failed(q) \in Contexts
  BY SetSsl, TlsFailedTyped
<1>2. "CONNECT_FAILED" \in Results /\ "INTERNAL_ERROR" \in Results
        /\ "WAIT_TLS_CONNECT" \in States
  BY DEF Results, Failures, States
<1>3. ASSUME NEW dir \in {"in", "out"}
      PROVE  [q EXCEPT !.state = "WAIT_TLS_CONNECT",
                       !.events = IF q.polled > 0 THEN dir ELSE @] \in Contexts
  <2>1. (IF q.polled > 0 THEN dir ELSE q.events) \in {"in", "out"}
    BY <1>1, Fields
  <2> HIDE DEF q
  <2> QED
    BY <1>1, <1>2, <2>1, SetState, SetEvents
<1>4. ASSUME NEW again \in BOOLEAN
      PROVE  outcome_detected(tls_failed(q), "CONNECT_FAILED", FALSE, again) \in Contexts
  BY <1>1, <1>2, OutcomeTyped
<1>5. \/ SendRequest(q)
      \/ \E dir \in {"in", "out"} :
              Return([q EXCEPT !.state = "WAIT_TLS_CONNECT",
                               !.events = IF q.polled > 0 THEN dir ELSE @])
      \/ \E again \in BOOLEAN :
              Return(outcome_detected(tls_failed(q), "CONNECT_FAILED", FALSE, again))
      \/ Outcome(p, "INTERNAL_ERROR")
  BY Restarts, Zenon DEF StartTls
<1> HIDE DEF q
<1> QED
  BY <1>1, <1>2, <1>3, <1>4, <1>5, SendRequestMoves, BreakMoves, OutcomeMoves

\* finish()
LEMMA FinishMoves ==
    ASSUME options \in OptionRecords, NEW p \in Contexts, finish(p)
    PROVE  Moves
<1>1. /\ "HTTP_ERROR" \in Results /\ "OK" \in Results /\ "REPLY_TOO_BIG" \in Results
      /\ "CONNECTED" \in States
  BY DEF Results, States
<1>2. RepeatRequest(p) \in Contexts
  <2> DEFINE made == p.http_code = 200
             q == [p EXCEPT !.retry_after_close = TRUE, !.tunnelled = @ \/ made,
                            !.proxy_tunnel_established = @ \/ made]
  <2>1. (p.tunnelled \/ made) \in BOOLEAN
          /\ (p.proxy_tunnel_established \/ made) \in BOOLEAN
    BY Fields
  <2>2. q \in Contexts
    BY <2>1, SetRetry, SetTunnelled, SetTunnel
  <2> QED
    BY <1>1, <2>2, CloseConnectionTyped, SetState DEF RepeatRequest
<1>3. [p EXCEPT !.should_close = TRUE] \in Contexts
  BY SetShouldClose
<1>4. \/ Goto(RepeatRequest(p)) \/ Outcome([p EXCEPT !.should_close = TRUE], "HTTP_ERROR")
      \/ Outcome(p, "OK") \/ Outcome(p, "HTTP_ERROR") \/ Outcome(p, "REPLY_TOO_BIG")
  BY DEF finish
<1> QED
  BY <1>1, <1>2, <1>3, <1>4, BreakMoves, OutcomeMoves

\* The states the machine names
LEMMA NamedStates ==
    /\ Sending \cup Reading \cup Cancelling \cup Passing \cup CanStart \subseteq States
    /\ {"READY", "KEEP_ALIVE_READY", "WAIT_DNS_SEND", "WAIT_CONNECT", "CONNECTED",
        "WAIT_TLS_CONNECT"} \subseteq States
  BY DEF States

\* The results it names
LEMMA NamedResults ==
    {"ADDR_RESOLUTION_FAILED", "CONNECT_FAILED", "IO_ERROR", "AUTHENTICATION_FAILED",
     "INTERNAL_ERROR", "OK", "HTTP_ERROR", "REPLY_TOO_BIG"} \subseteq Results
  BY DEF Results, Failures

\* pbpal_check_connect
LEMMA CheckSteps ==
    ASSUME options \in OptionRecords, NEW p \in Contexts, NEW c \in pbpal_check_connect(p)
    PROVE  c[2] \in Contexts /\ Keeps(p, c[2]) /\ c[2].socket = p.socket
<1> DEFINE q == [next_address(p) EXCEPT !.trySSL = options.useSSL]
<1>1. Keeps(p, p)
  BY DEF Keeps
<1>2. options.useSSL \in BOOLEAN
  BY DEF OptionRecords
<1>3. next_address(p) \in Contexts /\ Keeps(p, next_address(p))
        /\ next_address(p).socket = p.socket
  BY NextAddressTyped
<1>4. q \in Contexts /\ Keeps(p, q) /\ q.socket = p.socket
  BY <1>2, <1>3, SameButTLS, KeepsChain
<1>5. c[2] = p \/ c[2] = q
  BY DEF pbpal_check_connect
<1> QED
  BY <1>1, <1>4, <1>5

\* The case PBS_READY
LEMMA ReadyMoves == options \in OptionRecords /\ pb \in Contexts /\ Ready => Moves
<1> SUFFICES ASSUME options \in OptionRecords, pb \in Contexts, Ready PROVE Moves
  OBVIOUS
<1>1. PICK c \in pbpal_resolv_and_connect(pb) :
        LET Registered(s) == [pbntf_got_socket(c[2]) EXCEPT !.state = s]
            failed == [c[2] EXCEPT !.last_result = "ADDR_RESOLUTION_FAILED"]
        IN  \/ Break(start_timer(Registered("WAIT_DNS_SEND")))
            \/ Break(watch_in(start_timer(Registered("WAIT_DNS_RCV"))))
            \/ Break(start_timer(Registered("WAIT_CONNECT")))
            \/ Break(Registered("CONNECTED"))
            \/ Goto(close_connection(failed, FALSE))
            \/ Reported(failed, "IDLE")
  BY DEF Ready
<1>2. c[2] \in Contexts
  BY ConnectSteps DEF Step
<1>3. \A s \in {"WAIT_DNS_SEND", "WAIT_DNS_RCV", "WAIT_CONNECT", "CONNECTED"} :
        [pbntf_got_socket(c[2]) EXCEPT !.state = s] \in Contexts
  BY <1>2, GotTyped, SetState, NamedStates DEF Reading
<1>4. [c[2] EXCEPT !.last_result = "ADDR_RESOLUTION_FAILED"] \in Contexts
  BY <1>2, SetResult, NamedResults
<1>5. close_connection([c[2] EXCEPT !.last_result = "ADDR_RESOLUTION_FAILED"],
        FALSE) \in Contexts
  BY <1>4, CloseConnectionTyped
<1> QED
  BY <1>1, <1>3, <1>4, <1>5, TimerTyped, WatchTyped, BreakMoves, ReportMoves

\* The cases that resolve the origin and connect
LEMMA ResolvingMoves ==
    options \in OptionRecords /\ pb \in Contexts
        /\ (WaitDnsSend \/ WaitDnsRcv \/ WaitConnect) => Moves
<1> SUFFICES ASSUME options \in OptionRecords, pb \in Contexts,
                    WaitDnsSend \/ WaitDnsRcv \/ WaitConnect
             PROVE  Moves
  OBVIOUS
<1>1. CASE WaitDnsSend
  <2>1. PICK c \in pbpal_resolv_and_connect(pb) :
          \/ Break(c[2]) \/ Break(watch_in([c[2] EXCEPT !.state = "WAIT_DNS_RCV"]))
          \/ Outcome(c[2], "ADDR_RESOLUTION_FAILED")
    BY <1>1 DEF WaitDnsSend
  <2>2. c[2] \in Contexts
    BY ConnectSteps DEF Step
  <2>3. [c[2] EXCEPT !.state = "WAIT_DNS_RCV"] \in Contexts
    BY <2>2, SetState, NamedStates DEF Reading
  <2> QED
    BY <2>1, <2>2, <2>3, WatchTyped, BreakMoves, OutcomeMoves, NamedResults
<1>2. CASE WaitDnsRcv
  <2>1. PICK c \in pbpal_check_resolv_and_connect(pb) :
          \/ Break(c[2]) \/ Break(watch_out([start_timer(c[2]) EXCEPT !.state
               = "WAIT_CONNECT"]))
          \/ Goto(watch_out([start_timer(c[2]) EXCEPT !.state = "CONNECTED"]))
          \/ Outcome(c[2], "ADDR_RESOLUTION_FAILED")
    BY <1>2 DEF WaitDnsRcv
  <2>2. c[2] \in Contexts
    BY AnswerSteps DEF Step
  <2>3. \A s \in {"WAIT_CONNECT", "CONNECTED"} :
          [start_timer(c[2]) EXCEPT !.state = s] \in Contexts
    BY <2>2, TimerTyped, SetState, NamedStates
  <2> QED
    BY <2>1, <2>2, <2>3, WatchTyped, BreakMoves, OutcomeMoves, NamedResults
<1>3. CASE WaitConnect
  <2>1. PICK c \in pbpal_check_connect(pb) :
          \/ Break(c[2]) \/ Goto([start_timer(c[2]) EXCEPT !.state = "CONNECTED"])
          \/ Outcome(c[2], "CONNECT_FAILED")
    BY <1>3 DEF WaitConnect
  <2>2. c[2] \in Contexts
    BY CheckSteps
  <2>3. [start_timer(c[2]) EXCEPT !.state = "CONNECTED"] \in Contexts
    BY <2>2, TimerTyped, SetState, NamedStates
  <2> QED
    BY <2>1, <2>2, <2>3, BreakMoves, OutcomeMoves, NamedResults
<1> QED
  BY <1>1, <1>2, <1>3

\* The cases that start TLS and send the request
LEMMA SendingMoves ==
    ASSUME options \in OptionRecords, pb \in Contexts,
           Connected \/ WaitTlsConnect \/ TxGet \/ Transmit
    PROVE  Moves
<1>1. CASE Connected
  <2> DEFINE p == [pb EXCEPT !.should_close = ~ options.use_http_keep_alive,
                             !.retry_after_close = FALSE]
  <2>1. (~ options.use_http_keep_alive) \in BOOLEAN
    BY DEF OptionRecords
  <2>2. p \in Contexts
    BY <2>1, SetShouldClose, SetRetry
  <2>3. SendRequest(p) \/ StartTls(p)
    BY <1>1 DEF Connected
  <2> QED
    BY <2>2, <2>3, SendRequestMoves, StartTlsMoves
<1>2. CASE WaitTlsConnect
  <2>1. \/ SendRequest(pb) \/ \E dir \in {"in", "out"} : Break([pb EXCEPT !.events = dir])
        \/ Outcome(tls_failed(pb), "CONNECT_FAILED")
    BY <1>2 DEF WaitTlsConnect
  <2>2. \A dir \in {"in", "out"} : [pb EXCEPT !.events = dir] \in Contexts
    BY SetEvents
  <2> QED
    BY <2>1, <2>2, SendRequestMoves, BreakMoves, OutcomeMoves, TlsFailedTyped, NamedResults
<1>3. CASE TxGet
  <2>1. \/ Return(pb) \/ \E s \in Sending : Goto([pb EXCEPT !.state = s])
        \/ \E again \in BOOLEAN : Goto(outcome_detected(pb, "IO_ERROR", FALSE, again))
    <3>1. \/ Return(pb)
          \/ Goto([pb EXCEPT !.state = IF options.proxy_type = "NONE" THEN "TX_PATH"
                                       ELSE "TX_SCHEME"])
          \/ \E again \in BOOLEAN : Goto(outcome_detected(pb, "IO_ERROR", FALSE, again))
      BY <1>3, Restarts, Zenon DEF TxGet
    <3> QED
      BY <3>1 DEF Sending
  <2>2. \A s \in Sending : [pb EXCEPT !.state = s] \in Contexts
    BY SetState, NamedStates
  <2>3. \A again \in BOOLEAN : outcome_detected(pb, "IO_ERROR", FALSE, again) \in Contexts
    BY OutcomeTyped, NamedResults
  <2> QED
    BY <2>1, <2>2, <2>3, BreakMoves
<1>4. CASE Transmit
  <2> DEFINE sent == pb.proxy_authorization_sent \/ (pb.state = "TX_ORIGIN" /\ pb.proxy_auth
                                                       /\ ~ pb.proxy_tunnel_established)
             q == [pb EXCEPT !.state = AfterSending(pb), !.proxy_authorization_sent = sent]
  <2>1. sent \in BOOLEAN
    BY Fields
  <2>2. AfterSending(pb) \in States
    BY DEF AfterSending, States, Sending, Reading
  <2>3. q \in Contexts
    BY <2>1, <2>2, SetState, SetAuthorized
  <2>4. Return(pb) \/ Outcome(pb, "IO_ERROR") \/ Goto(watch_in(q)) \/ Goto(q)
    BY <1>4 DEF Transmit
  <2> HIDE DEF q
  <2> QED
    BY <2>3, <2>4, WatchTyped, BreakMoves, OutcomeMoves, NamedResults
<1> QED
  BY <1>1, <1>2, <1>3, <1>4

\* The cases that receive the reply
LEMMA ReceivingMoves ==
    ASSUME options \in OptionRecords, pb \in Contexts,
           \/ RxHttpVer \/ RxHeaders \/ RxHeaderLine \/ RxBody \/ RxBodyWait
           \/ RxChunkLen \/ RxChunkLenLine \/ RxBodyChunk
    PROVE  Moves
<1> DEFINE Reads == {"RX_HEADERS", "RX_HEADER_LINE", "RX_BODY", "RX_BODY_WAIT",
      "RX_CHUNK_LEN",
                     "RX_CHUNK_LEN_LINE", "RX_BODY_CHUNK", "RX_BODY_CHUNK_WAIT"}
<1>1. \A s \in Reads : [pb EXCEPT !.state = s] \in Contexts
  BY SetState, NamedStates DEF Reading, Passing
<1>2. /\ \A code \in {200, 407, 500} :
            [pb EXCEPT !.http_code = code, !.state = "RX_HEADERS"] \in Contexts
      /\ [pb EXCEPT !.state = "RX_HEADERS", !.should_close = TRUE] \in Contexts
      /\ [pb EXCEPT !.proxy_auth = TRUE, !.state = "RX_HEADERS"] \in Contexts
  <2>1. "RX_HEADERS" \in States
    BY NamedStates DEF Passing
  <2>2. \A code \in {200, 407, 500} :
          [pb EXCEPT !.http_code = code, !.state = "RX_HEADERS"] \in Contexts
    <3> TAKE code \in {200, 407, 500}
    <3> DEFINE q == [pb EXCEPT !.http_code = code]
    <3>1. q \in Contexts
      BY DEF Contexts
    <3> HIDE DEF q
    <3>2. [q EXCEPT !.state = "RX_HEADERS"] \in Contexts
      BY <2>1, <3>1, SetState
    <3> QED
      BY <3>2 DEF q
  <2>3. [pb EXCEPT !.state = "RX_HEADERS", !.should_close = TRUE] \in Contexts
    BY <2>1, SetState, SetShouldClose
  <2>4. [pb EXCEPT !.proxy_auth = TRUE, !.state = "RX_HEADERS"] \in Contexts
    BY <2>1, SetAuth, SetState
  <2> QED
    BY <2>2, <2>3, <2>4
<1>3. \A s \in Reads : Goto([pb EXCEPT !.state = s]) => Moves
  BY <1>1, BreakMoves
<1>4. (Return(pb) => Moves) /\ (finish(pb) => Moves)
      /\ \A rslt \in {"IO_ERROR", "REPLY_TOO_BIG", "AUTHENTICATION_FAILED"} :
            Outcome(pb, rslt) => Moves
  BY BreakMoves, FinishMoves, OutcomeMoves, NamedResults
<1>5. CASE RxHttpVer
  <2>1. Goto(close_kept_alive_connection(pb)) => Moves
    BY CloseConnectionTyped, BreakMoves
  <2> QED
    BY <1>2, <1>4, <1>5, <2>1, BreakMoves DEF RxHttpVer
<1>6. CASE RxHeaderLine
  <2>1. ProxyAuthenticate(pb) => Moves
    BY <1>2, <1>4, BreakMoves DEF ProxyAuthenticate
  <2> QED
    BY <1>2, <1>3, <1>4, <1>6, <2>1, BreakMoves DEF RxHeaderLine
<1>7. CASE RxHeaders \/ RxBody \/ RxChunkLen \/ RxBodyChunk
  BY <1>3, <1>4, <1>7 DEF RxHeaders, RxBody, RxChunkLen, RxBodyChunk
<1>8. CASE RxBodyWait \/ RxChunkLenLine
  BY <1>3, <1>4, <1>8 DEF RxBodyWait, RxChunkLenLine
<1> QED
  BY <1>5, <1>6, <1>7, <1>8

\* The cases that start, retry and cancel
LEMMA EndingMoves ==
    ASSUME options \in OptionRecords, pb \in Contexts,
           \/ Idle \/ Retry \/ WaitCancel \/ WaitCancelClose \/ WaitCancelDns
           \/ WaitCancelKeepalive \/ KeepAliveReady
    PROVE  Moves
<1>1. CASE Idle
  BY <1>1, IdleCaseTyped, QueueFullTyped, BreakMoves DEF Idle
<1>2. CASE Retry
  <2>1. [pb EXCEPT !.retry_after_close = FALSE, !.state = "READY"] \in Contexts
    BY SetRetry, SetState, StatesNamed
  <2> QED
    BY <1>2, <2>1, BreakMoves DEF Retry
<1>3. CASE WaitCancel
  <2>1. [pbpal_close(pb) EXCEPT !.state = "WAIT_CANCEL_CLOSE"] \in Contexts
    BY CloseTyped, SetState, NamedStates DEF Passing
  <2> QED
    BY <1>3, <2>1, BreakMoves DEF WaitCancel
<1>4. CASE WaitCancelClose
  <2>1. [pb EXCEPT !.state = "RETRY"] \in Contexts
    BY SetState, StatesNamed
  <2> QED
    BY <1>4, <2>1, BreakMoves, ReportMoves DEF WaitCancelClose
<1>5. CASE WaitCancelDns
  <2>1. close_connection([pb EXCEPT !.retry_after_close = TRUE], FALSE) \in Contexts
    BY SetRetry, CloseConnectionTyped
  <2> QED
    BY <1>5, <2>1, BreakMoves DEF WaitCancelDns
<1>6. CASE WaitCancelKeepalive
  BY <1>6, CloseConnectionTyped, BreakMoves DEF WaitCancelKeepalive
<1>7. CASE KeepAliveReady
  <2>1. [pbntf_got_socket(pb) EXCEPT !.state = "TX_GET"] \in Contexts
    BY GotTyped, SetState, NamedStates DEF Sending
  <2> QED
    BY <1>7, <2>1, CloseConnectionTyped, BreakMoves DEF KeepAliveReady
<1> QED
  BY <1>1, <1>2, <1>3, <1>4, <1>5, <1>6, <1>7

\* What the watcher does between runs of the machine, and what the application does
LEMMA OtherSteps ==
    ASSUME options \in OptionRecords, pb \in Contexts,
           Pop \/ Lock \/ Poll \/ PollEnqueue \/ Expire \/ Start \/ Cancel
    PROVE  pb' \in Contexts /\ watcher' \in {watcher, "idle", "popped", "fsm", "requeue"}
<1>1. CASE Pop
  <2>1. pb.queued - 1 \in 0 .. MaxEntries
    BY <1>1, Fields, BoundsAssumption DEF Pop
  <2> QED
    BY <1>1, <2>1, SetQueued DEF Pop
<1>2. CASE Lock \/ Poll
  BY <1>2 DEF Lock, Poll
<1>3. CASE PollEnqueue
  BY <1>3, QueueTyped DEF PollEnqueue
<1>4. CASE Expire
  <2>1. pb.timers - 1 \in 0 .. 2
    BY <1>4, Fields DEF Expire
  <2>2. [pb EXCEPT !.timers = @ - 1] \in Contexts
    BY <2>1, SetTimers
  <2> QED
    BY <1>4, <2>2, StoppedTyped DEF Expire
<1>5. CASE Start
  <2>1. start(pb) \in Contexts /\ pb.queued \in 0 .. MaxEntries
    BY StartTyped, Fields
  <2>2. [start(pb) EXCEPT !.queued = pb.queued] \in Contexts
    BY <2>1, SetQueued
  <2> QED
    BY <1>5, <2>1, <2>2, QueueFullTyped DEF Start
<1>6. CASE Cancel
  <2>1. pbnc_stop(pb, "CANCELLED") \in Contexts /\ (pb.owed = 1) \in BOOLEAN
    BY StoppedTyped
  <2> QED
    BY <1>6, <2>1, SetCancelled DEF Cancel
<1> QED
  BY <1>1, <1>2, <1>3, <1>4, <1>5, <1>6

\* A new context has its type (pbcc_init, pubnub_init).
LEMMA InitTyped == Init => TypeOK
<1> SUFFICES ASSUME Init PROVE TypeOK
  OBVIOUS
<1>1. /\ "IDLE" \in States /\ "OK" \in Results
      /\ 0 \in 0 .. MaxAddresses /\ 0 \in 0 .. Servers /\ 0 \in 0 .. MaxRotation - 1
      /\ 0 \in 0 .. MaxEntries
  BY BoundsAssumption, StatesNamed DEF Results
<1>2. pb \in Contexts
  BY <1>1 DEF Init, Contexts
<1> QED
  BY <1>2 DEF Init, TypeOK

\* No step changes the options of the context.
LEMMA OptionsStay == [Next]_vars => UNCHANGED options
  BY
     DEF Next, vars, Run, Idle, Retry, Ready, WaitDnsSend, WaitDnsRcv, WaitConnect,
         Connected,
         WaitTlsConnect, TxGet, Transmit, RxHttpVer, RxHeaders, RxHeaderLine, RxBody,
             RxBodyWait,
         RxChunkLen, RxChunkLenLine, RxBodyChunk, WaitCancel, WaitCancelClose,
             WaitCancelDns,
         WaitCancelKeepalive, KeepAliveReady, Fsm, Pop, Lock, Poll, PollEnqueue, Expire,
         Start, Cancel

\* Every step keeps the types.
LEMMA TypedStep == TypeOK /\ [Next]_vars => TypeOK'
<1> SUFFICES ASSUME TypeOK, [Next]_vars PROVE TypeOK'
  OBVIOUS
<1>1. options \in OptionRecords /\ options' \in Options /\ pb \in Contexts
  BY OptionsAssumption, OptionsStay DEF TypeOK
<1>2. CASE Run
  <2>1. Moves
    BY <1>1, <1>2, ReadyMoves, ResolvingMoves, SendingMoves, ReceivingMoves, EndingMoves
       DEF Run
  <2> QED
    BY <1>1, <2>1 DEF Moves, TypeOK
<1>3. CASE Pop \/ Lock \/ Poll \/ PollEnqueue \/ Expire \/ Start \/ Cancel
  BY <1>1, <1>3, OtherSteps DEF TypeOK
<1>4. CASE UNCHANGED vars
  BY <1>4 DEF vars, TypeOK
<1> QED
  BY <1>2, <1>3, <1>4 DEF Next

\* The context, its registrations and its history keep their types, for every
\* set of options, number of addresses, servers and rotations and in every
\* environment (core/pubnub_netcore.c, pbnc_fsm and pbnc_stop).
THEOREM TypeCorrect == Spec => []TypeOK
  BY InitTyped, TypedStep, PTL DEF Spec


-----------------------------------------------------------------------------
(* Where a context is registered *)
\* The context is in neither list of the watcher.
Unregistered(p) == p.polled = 0 /\ p.timers = 0

\* It is in each at most once, and in none without a socket.
Counted(p) == p.polled < 2 /\ p.timers < 2 /\ (p.socket = "none" => Unregistered(p))

\* The states in which the context has a connection
OnAConnection ==
    {"WAIT_CONNECT", "CONNECTED", "WAIT_TLS_CONNECT", "KEEP_ALIVE_IDLE", "KEEP_ALIVE_READY"}
    \cup Sending \cup (Reading \ {"WAIT_DNS_RCV"})
    \cup {"RX_HEADERS", "RX_BODY", "RX_CHUNK_LEN", "RX_BODY_CHUNK"}

\* The states in which it is in no list
Unlisted == CanStart \cup {"READY", "RETRY", "KEEP_ALIVE_READY", "WAIT_CANCEL_CLOSE"}

\* The inductive invariant of what the watcher knows of the context
Registered(p) ==
    /\ Counted(p)
    /\ p.state \in Unlisted => Unregistered(p)
    /\ p.state \in OnAConnection => p.socket = "tcp"
    /\ p.state = "KEEP_ALIVE_IDLE" => p.last_result \notin Failures

\* What pbpal_close leaves alone
LEMMA CloseKeeps ==
    ASSUME NEW p \in Contexts
    PROVE  LET q == pbpal_close(p)
           IN  /\ q.socket = "none" /\ ~ q.ssl
               /\ q.state = p.state /\ q.last_result = p.last_result /\ q.trans = p.trans
               /\ q.retry_after_close = p.retry_after_close
               /\ q.owed = p.owed /\ q.events = p.events
               /\ q.started_while_kept_alive = p.started_while_kept_alive
  BY DEF pbpal_close, pbntf_lost_socket, Contexts

\* A close takes the context out of the poller and the timer list, and one
\* entry out of the queue.
LEMMA CloseCounts ==
    ASSUME NEW p \in Contexts, Counted(p)
    PROVE  LET q == pbpal_close(p)
           IN  /\ Unregistered(q)
               /\ q.queued = IF p.socket # "none" /\ p.queued > 0 THEN p.queued - 1
                    ELSE p.queued
  BY DEF pbpal_close, pbntf_lost_socket, Contexts, Counted, Unregistered

\* So does pbntf_lost_socket where the connection is kept alive.
LEMMA LostCounts ==
    ASSUME NEW p \in Contexts
    PROVE  LET q == pbntf_lost_socket(p)
           IN  /\ Counted(p) => Unregistered(q)
               /\ q.queued = IF p.queued > 0 THEN p.queued - 1 ELSE 0
               /\ q.socket = p.socket /\ q.ssl = p.ssl /\ q.last_result = p.last_result
               /\ q.trans = p.trans /\ q.owed = p.owed /\ q.state = p.state
  BY DEF pbntf_lost_socket, Contexts, Counted, Unregistered

\* What the start of a transaction sets, and what it leaves alone
LEMMA StartKeeps ==
    ASSUME options \in OptionRecords, NEW p \in Contexts
    PROVE  LET q == start(p)
           IN  /\ q.state = IF p.state = "IDLE" THEN "READY" ELSE "KEEP_ALIVE_READY"
               /\ q.last_result = "STARTED" /\ q.trans
               /\ q.socket = p.socket /\ q.ssl = p.ssl
               /\ q.polled = p.polled /\ q.timers = p.timers
               /\ q.queued = Min2(p.queued + 1, MaxEntries)
               /\ q.owed = Min2(p.owed + 1, 1)
  BY DEF start, IdleCase, KeepAliveIdleCase, pbntf_enqueue_for_processing, Contexts

\* What the report of an outcome sets, and what it leaves alone
LEMMA ReportKeeps ==
    ASSUME options \in OptionRecords, NEW p \in Contexts, NEW s
    PROVE  LET q == pbntf_trans_outcome(p, s, FALSE)
           IN  /\ q.state = s /\ q.last_result = p.last_result /\ q.trans = p.trans
               /\ q.socket = p.socket /\ q.ssl = p.ssl /\ q.queued = p.queued
               /\ q.polled = p.polled /\ q.timers = p.timers
               /\ q.owed = IF p.trans /\ p.owed > -1 THEN p.owed - 1 ELSE p.owed
  BY DEF pbntf_trans_outcome, Contexts

\* A callback that starts the next transaction finds the outcome reported.
LEMMA ReportStarts ==
    ASSUME NEW p, NEW s
    PROVE  pbntf_trans_outcome(p, s, TRUE) = start(pbntf_trans_outcome(p, s, FALSE))
  BY DEF pbntf_trans_outcome

\* Which sets of states overlap
LEMMA StatesDiffer ==
    /\ CanStart = {"IDLE", "KEEP_ALIVE_IDLE"}
    /\ {"IDLE", "READY", "RETRY", "WAIT_CANCEL_CLOSE"} \cap OnAConnection = {}
    /\ {"KEEP_ALIVE_IDLE", "KEEP_ALIVE_READY"} \subseteq OnAConnection
    /\ Cancelling \cap (OnAConnection \cup Unlisted) = {}
  BY DEF CanStart, OnAConnection, Sending, Reading, Cancelling, Unlisted

\* A report for a context nobody knows leaves it unknown.
LEMMA ReportRegisters ==
    ASSUME options \in OptionRecords, NEW p \in Contexts, Unregistered(p),
           NEW again \in BOOLEAN,
           NEW s \in CanStart,
           s = "KEEP_ALIVE_IDLE" => p.socket = "tcp" /\ p.last_result \notin Failures
    PROVE  Registered(pbntf_trans_outcome(p, s, again))
<1> DEFINE q == pbntf_trans_outcome(p, s, FALSE)
           r == start(q)
<1>1. /\ q \in Contexts /\ q.state = s /\ q.last_result = p.last_result
      /\ q.socket = p.socket /\ Unregistered(q)
  <2>1. s \in States
    BY NamedStates
  <2>2. q \in Contexts
    BY <2>1, TransOutcomeTyped
  <2> QED
    BY <2>2, ReportKeeps DEF Unregistered
<1> HIDE DEF q
<1>2. /\ r.state = IF s = "IDLE" THEN "READY" ELSE "KEEP_ALIVE_READY"
      /\ r.socket = p.socket /\ Unregistered(r)
  BY <1>1, StartKeeps DEF Unregistered
<1> HIDE DEF r
<1>3. Registered(q)
  BY <1>1, StatesDiffer DEF Registered, Counted, Unregistered
<1>4. Registered(r)
  BY <1>2, StatesDiffer DEF Registered, Counted, Unregistered
<1> QED
  BY <1>3, <1>4, ReportStarts DEF q, r

\* So do close_connection and close_kept_alive_connection,
LEMMA CloseRegisters ==
    ASSUME options \in OptionRecords, NEW p \in Contexts, Counted(p), NEW again \in BOOLEAN
    PROVE  /\ Registered(close_connection(p, again))
           /\ Registered(close_kept_alive_connection(p))
<1>1. ASSUME NEW q \in Contexts, Counted(q), NEW s \in {"RETRY", "IDLE"}
      PROVE  Registered([pbpal_close(q) EXCEPT !.state = s])
  <2> DEFINE r == pbpal_close(q)
  <2>1. r \in Contexts /\ Unregistered(r)
    BY <1>1, CloseTyped, CloseCounts
  <2> HIDE DEF r
  <2>2. [r EXCEPT !.state = s].state = s /\ Unregistered([r EXCEPT !.state = s])
    BY <2>1 DEF Contexts, Unregistered
  <2>3. Registered([r EXCEPT !.state = s])
    BY <2>2, StatesDiffer DEF Registered, Counted, Unregistered
  <2> QED
    BY <2>3 DEF r
<1>2. pbpal_close(p) \in Contexts /\ Unregistered(pbpal_close(p))
  BY CloseTyped, CloseCounts
<1>3. Registered(close_connection(p, again))
  BY <1>1, <1>2, ReportRegisters, StatesDiffer DEF close_connection
<1>4. Registered(close_kept_alive_connection(p))
  <2> DEFINE q == [p EXCEPT !.started_while_kept_alive = FALSE]
  <2>1. q \in Contexts
    BY SetStarted
  <2>2. Counted(q)
    BY DEF Contexts, Counted, Unregistered
  <2> HIDE DEF q
  <2>3. Registered([pbpal_close(q) EXCEPT !.state =
                       IF pbpal_close(q).retry_after_close THEN "RETRY" ELSE "IDLE"])
    BY <1>1, <2>1, <2>2
  <2> QED
    BY <2>3 DEF close_kept_alive_connection, q
<1> QED
  BY <1>3, <1>4

\* ... and outcome_detected: a connection is kept alive only after it is taken off.
LEMMA OutcomeRegisters ==
    ASSUME options \in OptionRecords, NEW p \in Contexts, Counted(p), NEW rslt \in Results,
           rslt \in Failures \/ p.socket = "tcp", NEW young \in BOOLEAN,
               NEW again \in BOOLEAN
    PROVE  Registered(outcome_detected(p, rslt, young, again))
<1> DEFINE q == [p EXCEPT !.last_result = rslt]
           r == pbntf_trans_outcome(pbntf_lost_socket(q), "KEEP_ALIVE_IDLE", again)
<1>1. /\ q \in Contexts /\ Counted(q) /\ q.last_result = rslt /\ q.socket = p.socket
  BY SetResult DEF Contexts, Counted, Unregistered
<1> HIDE DEF q
<1>2. CASE should_keep_alive(q, rslt, young)
  <2>1. rslt \notin Failures /\ p.socket = "tcp"
    BY <1>2 DEF should_keep_alive
  <2>2. /\ pbntf_lost_socket(q) \in Contexts /\ Unregistered(pbntf_lost_socket(q))
        /\ pbntf_lost_socket(q).socket = "tcp" /\ pbntf_lost_socket(q).last_result = rslt
    BY <1>1, <2>1, LostTyped, LostCounts
  <2>3. r \in Contexts /\ Registered(r)
    BY <2>1, <2>2, ReportRegisters, TransOutcomeTyped, StatesDiffer, NamedStates
  <2> HIDE DEF r
  <2>4. Registered([r EXCEPT !.retry_after_close = FALSE])
    BY <2>3 DEF Registered, Counted, Unregistered, Contexts
  <2> QED
    BY <1>2, <2>4 DEF outcome_detected, q, r
<1>3. CASE ~ should_keep_alive(q, rslt, young)
  <2>1. /\ [q EXCEPT !.started_while_kept_alive = FALSE] \in Contexts
        /\ Counted([q EXCEPT !.started_while_kept_alive = FALSE])
    <3>1. [q EXCEPT !.started_while_kept_alive = FALSE] \in Contexts
      BY <1>1, SetStarted
    <3>2. Counted([q EXCEPT !.started_while_kept_alive = FALSE])
      BY <1>1 DEF Contexts, Counted, Unregistered
    <3> QED
      BY <3>1, <3>2
  <2> QED
    BY <1>3, <2>1, CloseRegisters DEF outcome_detected, q
<1> QED
  BY <1>2, <1>3

\* pbnc_stop changes no registration but the queue entry.
LEMMA StopRegisters ==
    ASSUME NEW p \in Contexts, Registered(p), NEW outcome \in {"TIMEOUT", "CANCELLED"}
    PROVE  Registered(Stopped(p, outcome)) /\ Registered(pbnc_stop(p, outcome))
  BY
     DEF pbnc_stop, Stopped, RotationsLeft, pbpal_dns_rotate_server,
         pbntf_requeue_for_processing,
         Registered, Counted, Unregistered, Unlisted, Contexts, OnAConnection, Sending,
             Reading, CanStart, Failures

\* The context after going on, returning or breaking
LEMMA BreakGives ==
    ASSUME NEW p
    PROVE  (Goto(p) => pb' = p) /\ (Return(p) => pb' = p) /\ (Break(p) => pb' = p)
  BY DEF Goto, Return, Break

\* The context after an outcome
LEMMA OutcomeGives ==
    ASSUME NEW p, NEW rslt, Outcome(p, rslt)
    PROVE  \E young \in BOOLEAN, again \in BOOLEAN :
              pb' = outcome_detected(p, rslt, young, again)
<1>1. \E young \in BOOLEAN, again \in BOOLEAN :
        Break(outcome_detected(p, rslt, young, again))
  BY Restarts, Zenon DEF Outcome
<1> QED
  BY <1>1, BreakGives

\* The context after a report
LEMMA ReportGives ==
    ASSUME NEW p, Reported(p, "IDLE")
    PROVE  \E again \in BOOLEAN : pb' = pbntf_trans_outcome(p, "IDLE", again)
<1>1. \E again \in BOOLEAN : Return(pbntf_trans_outcome(p, "IDLE", again))
  BY Restarts, Zenon DEF Reported
<1> QED
  BY <1>1, BreakGives

\* Every outcome leaves a context registered as it should be.
LEMMA OutcomeKeeps ==
    ASSUME options \in OptionRecords, NEW p \in Contexts, Counted(p), NEW rslt \in Results,
           rslt \in Failures \/ p.socket = "tcp", Outcome(p, rslt)
    PROVE  Registered(pb')
  BY OutcomeGives, OutcomeRegisters

\* The case PBS_READY: a context that gets a socket is in neither list yet.
LEMMA ReadyRegisters ==
    ASSUME options \in OptionRecords, pb \in Contexts, Registered(pb), Ready
    PROVE  Registered(pb')
<1>0. pb.state = "READY" /\ Unregistered(pb)
  BY DEF Ready, Fsm, Registered, Unlisted
<1>1. PICK c \in pbpal_resolv_and_connect(pb) :
        LET Reg(s) == [pbntf_got_socket(c[2]) EXCEPT !.state = s]
            failed == [c[2] EXCEPT !.last_result = "ADDR_RESOLUTION_FAILED"]
        IN  \/ c[1] \in Sent /\ Break(start_timer(Reg("WAIT_DNS_SEND")))
            \/ c[1] \in Sent /\ Break(watch_in(start_timer(Reg("WAIT_DNS_RCV"))))
            \/ c[1] \in Made /\ Break(start_timer(Reg("WAIT_CONNECT")))
            \/ c[1] \in Made /\ Break(Reg("CONNECTED"))
            \/ Goto(close_connection(failed, FALSE))
            \/ Reported(failed, "IDLE")
  BY DEF Ready, Sent, Made
<1>2. /\ c[2] \in Contexts /\ Unregistered(c[2])
      /\ c[1] \in Sent => c[2].socket = "udp"
      /\ c[1] \in Made => c[2].socket = "tcp"
  BY <1>0, ConnectSteps DEF Step, Keeps, Unregistered
<1> DEFINE Reg(s) == [pbntf_got_socket(c[2]) EXCEPT !.state = s]
           failed == [c[2] EXCEPT !.last_result = "ADDR_RESOLUTION_FAILED"]
<1>3. ASSUME NEW s \in States
      PROVE  Reg(s) \in Contexts /\ Reg(s).state = s /\ Reg(s).polled = 1
               /\ Reg(s).timers = 1
             /\ Reg(s).socket = c[2].socket
  <2>1. Reg(s) \in Contexts
    BY <1>2, GotTyped, SetState
  <2> QED
    BY <1>2, <2>1 DEF Contexts, Unregistered, pbntf_got_socket, Min2
<1>4. ASSUME NEW p \in Contexts, p.polled = 1, p.timers = 1,
             \/ p.state \in {"WAIT_DNS_SEND", "WAIT_DNS_RCV"} /\ p.socket = "udp"
             \/ p.state \in {"WAIT_CONNECT", "CONNECTED"} /\ p.socket = "tcp"
      PROVE  Registered(p) /\ Registered(start_timer(p))
               /\ Registered(watch_in(start_timer(p)))
  <2>1. Registered(p)
    BY <1>4
       DEF Registered, Counted, Unregistered, OnAConnection, Unlisted, CanStart, Sending,
           Reading
  <2>2. start_timer(p) \in Contexts
    BY TimerTyped
  <2>3. Registered(start_timer(p))
    BY <1>4, <2>1 DEF Registered, Counted, Unregistered, start_timer, Contexts
  <2>4. Registered(watch_in(start_timer(p)))
    BY <2>2, <2>3 DEF Registered, Counted, Unregistered, watch_in, Contexts
  <2> QED
    BY <2>1, <2>3, <2>4
<1>5. failed \in Contexts /\ Unregistered(failed) /\ Counted(failed)
  <2>1. failed \in Contexts
    BY <1>2, SetResult, NamedResults
  <2> QED
    BY <1>2, <2>1 DEF Contexts, Unregistered, Counted
<1>6. Registered(close_connection(failed, FALSE))
  BY <1>5, CloseRegisters
<1>7. \A again \in BOOLEAN : Registered(pbntf_trans_outcome(failed, "IDLE", again))
  BY <1>5, ReportRegisters, StatesDiffer
<1> HIDE DEF Reg, failed
<1>8. c[1] \in Sent => /\ Registered(start_timer(Reg("WAIT_DNS_SEND")))
                       /\ Registered(watch_in(start_timer(Reg("WAIT_DNS_RCV"))))
  BY <1>2, <1>3, <1>4, NamedStates DEF Reading
<1>9. c[1] \in Made => Registered(start_timer(Reg("WAIT_CONNECT")))
        /\ Registered(Reg("CONNECTED"))
  BY <1>2, <1>3, <1>4, NamedStates
<1> QED
  BY <1>1, <1>6, <1>7, <1>8, <1>9, BreakGives, ReportGives DEF Reg, failed

\* The cases that resolve and connect: a datagram socket is replaced by the
\* connection's, which is what the lists hold, unless it was closed in between.
LEMMA ResolvingRegisters ==
    ASSUME "udp_closed" \notin Environment, options \in OptionRecords, pb \in Contexts,
           Registered(pb), WaitDnsSend \/ WaitDnsRcv \/ WaitConnect
    PROVE  Registered(pb')
<1> DEFINE Same(q) == q.polled = pb.polled /\ q.timers = pb.timers /\ q.state = pb.state
<1>1. ASSUME NEW p \in Contexts, Same(p), NEW s \in States,
             \/ s = "WAIT_DNS_RCV" /\ p.socket # "none"
             \/ s \in {"WAIT_CONNECT", "CONNECTED"} /\ p.socket = "tcp"
      PROVE  /\ Registered([p EXCEPT !.state = s])
                  /\ Registered(watch_in([p EXCEPT !.state = s]))
             /\ Registered([start_timer(p) EXCEPT !.state = s])
             /\ Registered(watch_out([start_timer(p) EXCEPT !.state = s]))
  <2>1. ASSUME NEW q \in Contexts, q.socket = p.socket, q.polled = p.polled, q.timers < 2
        PROVE  /\ Registered([q EXCEPT !.state = s])
               /\ Registered(watch_in([q EXCEPT !.state = s]))
               /\ Registered(watch_out([q EXCEPT !.state = s]))
    <3> DEFINE r == [q EXCEPT !.state = s]
    <3>1. r \in Contexts
      BY <2>1, SetState
    <3>2. r.socket = p.socket /\ r.polled = p.polled /\ r.timers < 2 /\ r.state = s
      BY <2>1 DEF Contexts
    <3> HIDE DEF r
    <3>3. Registered(r)
      BY <1>1, <3>2
         DEF Registered, Counted, Unregistered, OnAConnection, Unlisted, CanStart, Sending,
             Reading
    <3>4. Registered(watch_in(r)) /\ Registered(watch_out(r))
      BY <3>1, <3>3 DEF Registered, Counted, Unregistered, watch_in, watch_out, Contexts
    <3> QED
      BY <3>3, <3>4 DEF r
  <2>2. p.timers < 2
    BY <1>1 DEF Registered, Counted
  <2>3. /\ start_timer(p) \in Contexts /\ start_timer(p).timers < 2
        /\ start_timer(p).polled = p.polled /\ start_timer(p).socket = p.socket
    BY <1>1, <2>2, TimerTyped DEF start_timer, Contexts
  <2> QED
    BY <1>1, <2>1, <2>2, <2>3
<1>2. ASSUME NEW p \in Contexts, Same(p), p.socket # "none"
      PROVE  Counted(p)
  BY <1>2 DEF Registered, Counted, Unregistered
<1>3. CASE WaitDnsSend
  <2>1. PICK c \in pbpal_resolv_and_connect(pb) :
          \/ c[1] \in Sent /\ Break(c[2])
          \/ c[1] \in Sent /\ Break(watch_in([c[2] EXCEPT !.state = "WAIT_DNS_RCV"]))
          \/ c[2].socket # "none" /\ Outcome(c[2], "ADDR_RESOLUTION_FAILED")
    BY <1>3 DEF WaitDnsSend, Sent
  <2>2. c[2] \in Contexts /\ Same(c[2]) /\ (c[1] \in Sent => c[2].socket = "udp")
    BY ConnectSteps DEF Step, Keeps
  <2>3. CASE c[1] \in Sent /\ Break(c[2])
    <3>1. pb.state = "WAIT_DNS_SEND"
      BY <1>3 DEF WaitDnsSend, Fsm
    <3>2. Registered(c[2])
      BY <2>2, <2>3, <3>1
         DEF Registered, Counted, Unregistered, OnAConnection, Sending, Reading
    <3> QED
      BY <2>3, <3>2, BreakGives
  <2>4. CASE c[1] \in Sent /\ Break(watch_in([c[2] EXCEPT !.state = "WAIT_DNS_RCV"]))
    <3>1. Registered(watch_in([c[2] EXCEPT !.state = "WAIT_DNS_RCV"]))
      BY <1>1, <2>2, <2>4, NamedStates DEF Reading
    <3> QED
      BY <2>4, <3>1, BreakGives
  <2>5. CASE c[2].socket # "none" /\ Outcome(c[2], "ADDR_RESOLUTION_FAILED")
    BY <1>2, <2>2, <2>5, OutcomeKeeps, NamedResults DEF Failures
  <2> QED
    BY <2>1, <2>3, <2>4, <2>5
<1>4. CASE WaitDnsRcv
  <2>1. PICK c \in pbpal_check_resolv_and_connect(pb) :
          \/ c[1] = "resolv_rcv_wouldblock" /\ Break(c[2])
          \/ c[1] \in Made /\ Break(watch_out([start_timer(c[2]) EXCEPT !.state
               = "WAIT_CONNECT"]))
          \/ c[1] \in Made /\ Goto(watch_out([start_timer(c[2]) EXCEPT !.state
               = "CONNECTED"]))
          \/ c[2].socket # "none" /\ Outcome(c[2], "ADDR_RESOLUTION_FAILED")
    BY <1>4 DEF WaitDnsRcv, Made
  <2>2. /\ c[2] \in Contexts /\ Same(c[2]) /\ (c[1] \in Made => c[2].socket = "tcp")
        /\ c[1] = "resolv_rcv_wouldblock" => c[2].socket = pb.socket
    BY AnswerSteps DEF Step, Keeps
  <2>3. CASE c[1] = "resolv_rcv_wouldblock" /\ Break(c[2])
    <3>1. pb.state = "WAIT_DNS_RCV"
      BY <1>4 DEF WaitDnsRcv, Fsm
    <3>2. Registered(c[2])
      BY <2>2, <2>3, <3>1
         DEF Registered, Counted, Unregistered, OnAConnection, Sending, Reading
    <3> QED
      BY <2>3, <3>2, BreakGives
  <2>4. CASE c[1] \in Made /\ Break(watch_out([start_timer(c[2]) EXCEPT !.state
          = "WAIT_CONNECT"]))
    <3>1. Registered(watch_out([start_timer(c[2]) EXCEPT !.state = "WAIT_CONNECT"]))
      BY <1>1, <2>2, <2>4, NamedStates
    <3> QED
      BY <2>4, <3>1, BreakGives
  <2>5. CASE c[1] \in Made /\ Goto(watch_out([start_timer(c[2]) EXCEPT !.state
          = "CONNECTED"]))
    <3>1. Registered(watch_out([start_timer(c[2]) EXCEPT !.state = "CONNECTED"]))
      BY <1>1, <2>2, <2>5, NamedStates
    <3> QED
      BY <2>5, <3>1, BreakGives
  <2>6. CASE c[2].socket # "none" /\ Outcome(c[2], "ADDR_RESOLUTION_FAILED")
    BY <1>2, <2>2, <2>6, OutcomeKeeps, NamedResults DEF Failures
  <2> QED
    BY <2>1, <2>3, <2>4, <2>5, <2>6
<1>5. CASE WaitConnect
  <2>1. PICK c \in pbpal_check_connect(pb) :
          \/ Break(c[2]) \/ Goto([start_timer(c[2]) EXCEPT !.state = "CONNECTED"])
          \/ Outcome(c[2], "CONNECT_FAILED")
    BY <1>5 DEF WaitConnect
  <2>2. pb.state = "WAIT_CONNECT" /\ pb.socket = "tcp"
    BY <1>5 DEF WaitConnect, Fsm, Registered, OnAConnection
  <2>3. c[2] \in Contexts /\ Same(c[2]) /\ c[2].socket = "tcp"
    BY <2>2, CheckSteps DEF Keeps
  <2>4. Registered(c[2])
    BY <2>2, <2>3 DEF Registered, Counted, Unregistered, OnAConnection, Unlisted, CanStart
  <2>5. Registered([start_timer(c[2]) EXCEPT !.state = "CONNECTED"])
    BY <1>1, <2>3, NamedStates
  <2>6. Outcome(c[2], "CONNECT_FAILED") => Registered(pb')
    BY <1>2, <2>3, OutcomeKeeps, NamedResults
  <2> QED
    BY <2>1, <2>4, <2>5, <2>6, BreakGives
<1> QED
  BY <1>3, <1>4, <1>5

\* A context on a connection is where it should be in every state of a connection.
LEMMA OnConnection ==
    ASSUME NEW p \in Contexts, Counted(p), p.socket = "tcp",
           p.state \in OnAConnection \ Unlisted
    PROVE  Registered(p) /\ Registered(watch_in(p))
<1>1. Registered(p)
  BY DEF Registered, Unlisted, CanStart
<1> QED
  BY <1>1 DEF Registered, Counted, Unregistered, watch_in, Contexts

\* ... and may go from one such state to another.
LEMMA ToState ==
    ASSUME NEW p \in Contexts, Counted(p), p.socket = "tcp",
           NEW s \in OnAConnection \ Unlisted
    PROVE  Registered([p EXCEPT !.state = s])
             /\ Registered(watch_in([p EXCEPT !.state = s]))
<1> DEFINE q == [p EXCEPT !.state = s]
<1>1. s \in States
  BY DEF OnAConnection, States, Passing, CanStart
<1>2. q \in Contexts
  BY <1>1, SetState
<1>3. Counted(q) /\ q.socket = "tcp" /\ q.state = s
  BY DEF Contexts, Counted, Unregistered
<1> HIDE DEF q
<1>4. Registered(q) /\ Registered(watch_in(q))
  BY <1>2, <1>3, OnConnection
<1> QED
  BY <1>4 DEF q

\* A failure of TLS leaves the registrations to the outcome.
LEMMA TlsOutcomeKeeps ==
    ASSUME options \in OptionRecords, NEW p \in Contexts, Counted(p), p.socket = "tcp"
    PROVE  /\ tls_failed(p) \in Contexts /\ Counted(tls_failed(p))
                /\ tls_failed(p).socket = "tcp"
  BY TlsFailedTyped DEF Counted, Unregistered, Keeps

\* The states of a connection a request goes through
LEMMA OnTheWay ==
    {"CONNECTED", "WAIT_TLS_CONNECT", "TX_GET", "TX_SCHEME", "TX_PATH",
        "RX_HTTP_VER"} \cup Sending
      \cup {"RX_HEADERS", "RX_HEADER_LINE", "RX_BODY", "RX_BODY_WAIT", "RX_CHUNK_LEN",
            "RX_CHUNK_LEN_LINE", "RX_BODY_CHUNK", "RX_BODY_CHUNK_WAIT"}
                \subseteq OnAConnection \ Unlisted
  BY DEF OnAConnection, Unlisted, CanStart, Sending, Reading

\* The start of a request
LEMMA SendRequestRegisters ==
    ASSUME options \in OptionRecords, NEW p \in Contexts, Counted(p), p.socket = "tcp",
           SendRequest(p)
    PROVE  Registered(pb')
<1>1. Registered([p EXCEPT !.state = "TX_GET"])
  BY ToState, OnTheWay
<1> QED
  BY <1>1, BreakGives, OutcomeKeeps, NamedResults DEF SendRequest

\* The cases that start TLS and send the request
LEMMA SendingRegisters ==
    ASSUME options \in OptionRecords, pb \in Contexts, Registered(pb),
           Connected \/ WaitTlsConnect \/ TxGet \/ Transmit
    PROVE  Registered(pb')
<1>0. pb.socket = "tcp" /\ Counted(pb) /\ pb.state \in OnAConnection \ Unlisted
  BY OnTheWay DEF Connected, WaitTlsConnect, TxGet, Transmit, Fsm, Registered
<1>1. CASE Connected
  <2> DEFINE p == [pb EXCEPT !.should_close = ~ options.use_http_keep_alive,
                             !.retry_after_close = FALSE]
             q == [p EXCEPT !.ssl = TRUE]
  <2>1. p \in Contexts
    <3>1. (~ options.use_http_keep_alive) \in BOOLEAN
      BY DEF OptionRecords
    <3> QED
      BY <3>1, SetShouldClose, SetRetry
  <2>2. Counted(p) /\ p.socket = "tcp"
    BY <1>0 DEF Contexts, Counted, Unregistered
  <2>3. SendRequest(p) \/ StartTls(p)
    BY <1>1 DEF Connected
  <2> HIDE DEF p
  <2>4. q \in Contexts /\ Counted(q) /\ q.socket = "tcp"
    <3>1. q \in Contexts
      BY <2>1, SetSsl
    <3> QED
      BY <2>1, <2>2, <3>1 DEF Contexts, Counted, Unregistered
  <2>5. \A dir \in {"in", "out"} : Registered([q EXCEPT !.state = "WAIT_TLS_CONNECT",
                                       !.events = IF q.polled > 0 THEN dir ELSE @])
    <3> TAKE dir \in {"in", "out"}
    <3> DEFINE r == [q EXCEPT !.events = IF q.polled > 0 THEN dir ELSE q.events]
    <3>1. (IF q.polled > 0 THEN dir ELSE q.events) \in {"in", "out"}
      BY <2>4, Fields
    <3>2. r \in Contexts
      BY <2>4, <3>1, SetEvents
    <3>3. Counted(r) /\ r.socket = "tcp"
      BY <2>4, <3>1 DEF Contexts, Counted, Unregistered
    <3> HIDE DEF r
    <3>4. Registered([r EXCEPT !.state = "WAIT_TLS_CONNECT"])
      BY <3>2, <3>3, ToState, OnTheWay
    <3> QED
      BY <3>4 DEF r
  <2>6. \A again \in BOOLEAN :
           Registered(outcome_detected(tls_failed(q), "CONNECT_FAILED", FALSE, again))
    BY <2>4, TlsOutcomeKeeps, OutcomeRegisters, NamedResults
  <2>7. StartTls(p) =>
           \/ SendRequest(q)
           \/ \E dir \in {"in", "out"} :
                 pb' = [q EXCEPT !.state = "WAIT_TLS_CONNECT",
                                 !.events = IF q.polled > 0 THEN dir ELSE @]
           \/ \E again \in BOOLEAN :
                 pb' = outcome_detected(tls_failed(q), "CONNECT_FAILED", FALSE, again)
           \/ Outcome(p, "INTERNAL_ERROR")
    BY Restarts, Zenon DEF StartTls, Return
  <2> HIDE DEF q
  <2> QED
    BY <2>1, <2>2, <2>3, <2>4, <2>5, <2>6, <2>7, SendRequestRegisters, OutcomeKeeps,
       NamedResults
<1>2. CASE WaitTlsConnect
  <2>1. \/ SendRequest(pb) \/ \E dir \in {"in", "out"} : Break([pb EXCEPT !.events = dir])
        \/ Outcome(tls_failed(pb), "CONNECT_FAILED")
    BY <1>2 DEF WaitTlsConnect
  <2>2. \A dir \in {"in", "out"} : Registered([pb EXCEPT !.events = dir])
    BY DEF Contexts, Registered, Counted, Unregistered
  <2>3. Outcome(tls_failed(pb), "CONNECT_FAILED") => Registered(pb')
    BY <1>0, TlsOutcomeKeeps, OutcomeKeeps, NamedResults
  <2> QED
    BY <1>0, <2>1, <2>2, <2>3, SendRequestRegisters, BreakGives
<1>3. CASE TxGet
  <2>1. \/ Return(pb) \/ \E s \in Sending : Goto([pb EXCEPT !.state = s])
        \/ \E again \in BOOLEAN : Goto(outcome_detected(pb, "IO_ERROR", FALSE, again))
    <3>1. \/ Return(pb)
          \/ Goto([pb EXCEPT !.state = IF options.proxy_type = "NONE" THEN "TX_PATH"
                                       ELSE "TX_SCHEME"])
          \/ \E again \in BOOLEAN : Goto(outcome_detected(pb, "IO_ERROR", FALSE, again))
      BY <1>3, Restarts, Zenon DEF TxGet
    <3> QED
      BY <3>1 DEF Sending
  <2>2. \A s \in Sending : Registered([pb EXCEPT !.state = s])
    BY <1>0, ToState, OnTheWay
  <2>3. \A again \in BOOLEAN : Registered(outcome_detected(pb, "IO_ERROR", FALSE, again))
    BY <1>0, OutcomeRegisters, NamedResults
  <2> QED
    BY <2>1, <2>2, <2>3, BreakGives
<1>4. CASE Transmit
  <2> DEFINE sent == pb.proxy_authorization_sent \/ (pb.state = "TX_ORIGIN" /\ pb.proxy_auth
                                                       /\ ~ pb.proxy_tunnel_established)
             p == [pb EXCEPT !.proxy_authorization_sent = sent]
             q == [p EXCEPT !.state = AfterSending(pb)]
  <2>1. sent \in BOOLEAN
    BY Fields
  <2>2. AfterSending(pb) \in OnAConnection \ Unlisted
    BY OnTheWay DEF AfterSending, Sending
  <2>3. p \in Contexts /\ Counted(p) /\ p.socket = "tcp"
    <3>1. p \in Contexts
      BY <2>1, SetAuthorized
    <3> QED
      BY <1>0, <3>1 DEF Contexts, Counted, Unregistered
  <2>4. Return(pb) \/ Outcome(pb, "IO_ERROR") \/ Goto(watch_in(q)) \/ Goto(q)
    BY <1>4 DEF Transmit
  <2> HIDE DEF p
  <2>5. Registered(q) /\ Registered(watch_in(q))
    BY <2>2, <2>3, ToState
  <2> HIDE DEF q
  <2> QED
    BY <1>0, <2>4, <2>5, BreakGives, OutcomeKeeps, NamedResults
<1> QED
  BY <1>1, <1>2, <1>3, <1>4

\* finish()
LEMMA FinishRegisters ==
    ASSUME options \in OptionRecords, NEW p \in Contexts, Counted(p), p.socket = "tcp",
           finish(p)
    PROVE  Registered(pb')
<1>1. Registered(RepeatRequest(p))
  <2> DEFINE made == p.http_code = 200
             q == [p EXCEPT !.retry_after_close = TRUE, !.tunnelled = @ \/ made,
                            !.proxy_tunnel_established = @ \/ made]
  <2>1. (p.tunnelled \/ made) \in BOOLEAN
          /\ (p.proxy_tunnel_established \/ made) \in BOOLEAN
    BY Fields
  <2>2. q \in Contexts
    BY <2>1, SetRetry, SetTunnelled, SetTunnel
  <2>3. Counted(q) /\ q.socket = "tcp"
    BY DEF Contexts, Counted, Unregistered
  <2>4. RepeatRequest(p) = IF p.should_close THEN close_connection(q, FALSE)
                                             ELSE [q EXCEPT !.state = "CONNECTED"]
    BY DEF RepeatRequest
  <2> HIDE DEF q
  <2> QED
    BY <2>2, <2>3, <2>4, CloseRegisters, ToState, OnTheWay
<1>2. /\ [p EXCEPT !.should_close = TRUE] \in Contexts
      /\ Counted([p EXCEPT !.should_close = TRUE])
      /\ [p EXCEPT !.should_close = TRUE].socket = "tcp"
  <2>1. [p EXCEPT !.should_close = TRUE] \in Contexts
    BY SetShouldClose
  <2> QED
    BY <2>1 DEF Contexts, Counted, Unregistered
<1>3. \/ Goto(RepeatRequest(p)) \/ Outcome([p EXCEPT !.should_close = TRUE], "HTTP_ERROR")
      \/ Outcome(p, "OK") \/ Outcome(p, "HTTP_ERROR") \/ Outcome(p, "REPLY_TOO_BIG")
  BY DEF finish
<1> QED
  BY <1>1, <1>2, <1>3, BreakGives, OutcomeKeeps, NamedResults

\* The cases that receive the reply
LEMMA ReceivingRegisters ==
    ASSUME options \in OptionRecords, pb \in Contexts, Registered(pb),
           \/ RxHttpVer \/ RxHeaders \/ RxHeaderLine \/ RxBody \/ RxBodyWait
           \/ RxChunkLen \/ RxChunkLenLine \/ RxBodyChunk
    PROVE  Registered(pb')
<1> DEFINE Reads == {"RX_HEADERS", "RX_HEADER_LINE", "RX_BODY", "RX_BODY_WAIT",
      "RX_CHUNK_LEN",
                     "RX_CHUNK_LEN_LINE", "RX_BODY_CHUNK", "RX_BODY_CHUNK_WAIT"}
<1>0. pb.socket = "tcp" /\ Counted(pb)
  BY OnTheWay DEF RxHttpVer, RxHeaders, RxHeaderLine, RxBody, RxBodyWait, RxChunkLen,
                  RxChunkLenLine, RxBodyChunk, Fsm, Registered
<1>1. \A s \in Reads : Goto([pb EXCEPT !.state = s]) => Registered(pb')
  BY <1>0, ToState, OnTheWay, BreakGives
<1>2. (Return(pb) => Registered(pb')) /\ (finish(pb) => Registered(pb'))
      /\ \A rslt \in {"IO_ERROR", "REPLY_TOO_BIG", "AUTHENTICATION_FAILED"} :
            Outcome(pb, rslt) => Registered(pb')
  BY <1>0, BreakGives, FinishRegisters, OutcomeKeeps, NamedResults
<1>3. ASSUME NEW p \in Contexts, Counted(p), p.socket = "tcp"
      PROVE  Registered([p EXCEPT !.state = "RX_HEADERS"])
  BY <1>3, ToState, OnTheWay
<1>4. /\ \A code \in {200, 407, 500} :
            Registered([pb EXCEPT !.http_code = code, !.state = "RX_HEADERS"])
      /\ Registered([pb EXCEPT !.state = "RX_HEADERS", !.should_close = TRUE])
      /\ Registered([pb EXCEPT !.proxy_auth = TRUE, !.state = "RX_HEADERS"])
  <2>1. \A code \in {200, 407, 500} :
            Registered([pb EXCEPT !.http_code = code, !.state = "RX_HEADERS"])
    <3> TAKE code \in {200, 407, 500}
    <3> DEFINE q == [pb EXCEPT !.http_code = code]
    <3>1. q \in Contexts
      BY DEF Contexts
    <3>2. Counted(q) /\ q.socket = "tcp"
      BY <1>0 DEF Contexts, Counted, Unregistered
    <3> HIDE DEF q
    <3>3. Registered([q EXCEPT !.state = "RX_HEADERS"])
      BY <1>3, <3>1, <3>2
    <3> QED
      BY <3>3 DEF q
  <2>2. Registered([pb EXCEPT !.state = "RX_HEADERS", !.should_close = TRUE])
    <3> DEFINE q == [pb EXCEPT !.state = "RX_HEADERS"]
    <3>1. Registered(q)
      BY <1>0, <1>3
    <3>2. q \in Contexts
      BY SetState, NamedStates DEF Passing
    <3> HIDE DEF q
    <3>3. Registered([q EXCEPT !.should_close = TRUE])
      BY <3>1, <3>2 DEF Contexts, Registered, Counted, Unregistered
    <3> QED
      BY <3>3 DEF q
  <2>3. Registered([pb EXCEPT !.proxy_auth = TRUE, !.state = "RX_HEADERS"])
    <3> DEFINE q == [pb EXCEPT !.proxy_auth = TRUE]
    <3>1. q \in Contexts
      BY SetAuth
    <3>2. Counted(q) /\ q.socket = "tcp"
      BY <1>0 DEF Contexts, Counted, Unregistered
    <3> HIDE DEF q
    <3>3. Registered([q EXCEPT !.state = "RX_HEADERS"])
      BY <1>3, <3>1, <3>2
    <3> QED
      BY <3>3 DEF q
  <2> QED
    BY <2>1, <2>2, <2>3
<1>5. CASE RxHttpVer
  <2>1. Goto(close_kept_alive_connection(pb)) => Registered(pb')
    BY <1>0, CloseRegisters, BreakGives
  <2> QED
    BY <1>2, <1>4, <1>5, <2>1, BreakGives DEF RxHttpVer
<1>6. CASE RxHeaderLine
  <2>1. ProxyAuthenticate(pb) => Registered(pb')
    BY <1>2, <1>4, BreakGives DEF ProxyAuthenticate
  <2> QED
    BY <1>1, <1>2, <1>4, <1>6, <2>1, BreakGives DEF RxHeaderLine
<1>7. CASE RxHeaders \/ RxBody \/ RxChunkLen \/ RxBodyChunk
  BY <1>1, <1>2, <1>7 DEF RxHeaders, RxBody, RxChunkLen, RxBodyChunk
<1>8. CASE RxBodyWait \/ RxChunkLenLine
  BY <1>1, <1>2, <1>8 DEF RxBodyWait, RxChunkLenLine
<1> QED
  BY <1>5, <1>6, <1>7, <1>8

\* What the case PBS_IDLE sets, and what it leaves alone
LEMMA IdleCaseKeeps ==
    ASSUME NEW p \in Contexts
    PROVE  LET q == IdleCase(p)
           IN  /\ q.state = "READY" /\ q.trans = p.trans /\ q.owed = p.owed
               /\ q.socket = p.socket /\ q.ssl = p.ssl
               /\ q.polled = p.polled /\ q.timers = p.timers
               /\ q.queued = Min2(p.queued + 1, MaxEntries)
  BY DEF IdleCase, pbntf_enqueue_for_processing, Contexts

\* A start that the full queue refuses
LEMMA QueueFullRegisters ==
    ASSUME options \in OptionRecords, NEW p \in Contexts, Unregistered(p)
    PROVE  Registered(QueueFull(p))
<1>1. [p EXCEPT !.last_result = "INTERNAL_ERROR"] \in Contexts
  BY SetResult, NamedResults
<1>2. Unregistered([p EXCEPT !.last_result = "INTERNAL_ERROR"])
  BY DEF Contexts, Unregistered
<1> QED
  BY <1>1, <1>2, ReportRegisters, StatesDiffer DEF QueueFull

\* The cases that start, retry and cancel
LEMMA EndingRegisters ==
    ASSUME options \in OptionRecords, pb \in Contexts, Registered(pb),
           \/ Idle \/ Retry \/ WaitCancel \/ WaitCancelClose \/ WaitCancelDns
           \/ WaitCancelKeepalive \/ KeepAliveReady
    PROVE  Registered(pb')
<1>0. Counted(pb)
  BY DEF Registered
<1>1. ASSUME NEW p \in Contexts, Unregistered(p),
             NEW s \in {"READY", "RETRY", "WAIT_CANCEL_CLOSE"}
      PROVE  Registered([p EXCEPT !.state = s])
  <2>1. [p EXCEPT !.state = s].state = s /\ Unregistered([p EXCEPT !.state = s])
    BY <1>1 DEF Contexts, Unregistered
  <2> QED
    BY <2>1, StatesDiffer DEF Registered, Counted, Unregistered
<1>2. CASE Idle
  <2>1. Unregistered(pb)
    BY <1>2 DEF Idle, Fsm, Registered, Unlisted, CanStart
  <2>2. Registered(IdleCase(pb))
    BY <2>1, IdleCaseKeeps, StatesDiffer DEF Registered, Counted, Unregistered
  <2> QED
    BY <1>2, <2>1, <2>2, QueueFullRegisters, BreakGives DEF Idle
<1>3. CASE Retry
  <2> DEFINE q == [pb EXCEPT !.retry_after_close = FALSE]
  <2>1. q \in Contexts /\ Unregistered(q)
    <3>1. Unregistered(pb)
      BY <1>3 DEF Retry, Fsm, Registered, Unlisted
    <3>2. q \in Contexts
      BY SetRetry
    <3> QED
      BY <3>1, <3>2 DEF Contexts, Unregistered
  <2> HIDE DEF q
  <2>2. Registered([q EXCEPT !.state = "READY"])
    BY <1>1, <2>1
  <2> QED
    BY <1>3, <2>2, BreakGives DEF Retry, q
<1>4. CASE WaitCancel
  <2>1. Registered([pbpal_close(pb) EXCEPT !.state = "WAIT_CANCEL_CLOSE"])
    BY <1>0, <1>1, CloseTyped, CloseCounts
  <2> QED
    BY <1>4, <2>1, BreakGives DEF WaitCancel
<1>5. CASE WaitCancelClose
  <2>1. Unregistered(pb)
    BY <1>5 DEF WaitCancelClose, Fsm, Registered, Unlisted
  <2>2. Reported(pb, "IDLE") => Registered(pb')
    BY <2>1, ReportGives, ReportRegisters, StatesDiffer
  <2> QED
    BY <1>1, <1>5, <2>1, <2>2, BreakGives DEF WaitCancelClose
<1>6. CASE WaitCancelDns
  <2>1. /\ [pb EXCEPT !.retry_after_close = TRUE] \in Contexts
        /\ Counted([pb EXCEPT !.retry_after_close = TRUE])
    <3>1. [pb EXCEPT !.retry_after_close = TRUE] \in Contexts
      BY SetRetry
    <3> QED
      BY <1>0, <3>1 DEF Contexts, Counted, Unregistered
  <2> QED
    BY <1>6, <2>1, CloseRegisters, BreakGives DEF WaitCancelDns
<1>7. CASE WaitCancelKeepalive
  BY <1>0, <1>7, CloseRegisters, BreakGives DEF WaitCancelKeepalive
<1>8. CASE KeepAliveReady
  <2>1. Unregistered(pb) /\ pb.socket = "tcp"
    BY <1>8, StatesDiffer DEF KeepAliveReady, Fsm, Registered, Unlisted
  <2>2. /\ pbntf_got_socket(pb) \in Contexts /\ Counted(pbntf_got_socket(pb))
        /\ pbntf_got_socket(pb).socket = "tcp"
    <3>1. pbntf_got_socket(pb) \in Contexts
      BY GotTyped
    <3> QED
      BY <2>1, <3>1 DEF pbntf_got_socket, Contexts, Counted, Unregistered, Min2
  <2> DEFINE q == [pbntf_got_socket(pb) EXCEPT !.state = "TX_GET"]
  <2>3. q \in Contexts /\ Registered(q)
    BY <2>2, ToState, OnTheWay, SetState, NamedStates DEF Sending
  <2>4. Registered(close_kept_alive_connection(q))
    BY <2>3, CloseRegisters DEF Registered
  <2> QED
    BY <1>8, <2>3, <2>4, BreakGives DEF KeepAliveReady
<1> QED
  BY <1>2, <1>3, <1>4, <1>5, <1>6, <1>7, <1>8

\* The steps of the watcher between runs, and of the application
LEMMA OthersRegister ==
    ASSUME options \in OptionRecords, pb \in Contexts, Registered(pb),
           Pop \/ Lock \/ Poll \/ PollEnqueue \/ Expire \/ Start \/ Cancel
    PROVE  Registered(pb')
<1>1. CASE Pop
  <2>1. pb' = [pb EXCEPT !.queued = @ - 1]
    BY <1>1 DEF Pop
  <2> QED
    BY <2>1 DEF Contexts, Registered, Counted, Unregistered
<1>2. CASE Lock \/ Poll
  BY <1>2 DEF Lock, Poll
<1>3. CASE PollEnqueue
  BY <1>3
     DEF PollEnqueue, pbntf_enqueue_for_processing, Contexts, Registered, Counted,
         Unregistered
<1>4. CASE Expire
  <2> DEFINE p == [pb EXCEPT !.timers = @ - 1]
  <2>1. p \in Contexts
    <3>1. pb.timers - 1 \in 0 .. 2
      BY <1>4, Fields DEF Expire
    <3> QED
      BY <3>1, SetTimers
  <2>2. Registered(p)
    BY <1>4 DEF Expire, Contexts, Registered, Counted, Unregistered
  <2> HIDE DEF p
  <2>3. pb' = pbnc_stop(p, "TIMEOUT") \/ pb' = Stopped(p, "TIMEOUT")
    BY <1>4 DEF Expire, p
  <2> QED
    BY <2>1, <2>2, <2>3, StopRegisters
<1>5. CASE Start
  <2>1. pb.state \in CanStart /\ Unregistered(pb)
    BY <1>5 DEF Start, Registered, Unlisted
  <2>2. /\ start(pb) \in Contexts /\ Unregistered(start(pb)) /\ start(pb).socket = pb.socket
        /\ start(pb).state = IF pb.state = "IDLE" THEN "READY" ELSE "KEEP_ALIVE_READY"
    BY <2>1, StartTyped, StartKeeps DEF Unregistered
  <2>3. Registered(start(pb))
    BY <2>1, <2>2, StatesDiffer DEF Registered, Counted, Unregistered
  <2> DEFINE q == start(pb)
             r == [q EXCEPT !.queued = pb.queued]
  <2>4. r \in Contexts /\ Unregistered(r)
    <3>1. pb.queued \in 0 .. MaxEntries
      BY Fields
    <3> HIDE DEF q
    <3>2. q \in Contexts /\ Unregistered(q)
      BY <2>2 DEF q
    <3>3. r \in Contexts
      BY <3>1, <3>2, SetQueued
    <3> QED
      BY <3>2, <3>3 DEF Contexts, Unregistered
  <2>5. Registered(QueueFull(r))
    BY <2>4, QueueFullRegisters
  <2> QED
    BY <1>5, <2>3, <2>5 DEF Start
<1>6. CASE Cancel
  <2> DEFINE q == pbnc_stop(pb, "CANCELLED")
  <2>1. q \in Contexts /\ Registered(q)
    BY StoppedTyped, StopRegisters
  <2>2. pb' = [q EXCEPT !.cancelled = pb.owed = 1]
    BY <1>6 DEF Cancel
  <2> HIDE DEF q
  <2> QED
    BY <2>1, <2>2 DEF Contexts, Registered, Counted, Unregistered
<1> QED
  BY <1>1, <1>2, <1>3, <1>4, <1>5, <1>6

\* Every step leaves the context registered as its state and socket say.
LEMMA RegisteredStep ==
    ASSUME "udp_closed" \notin Environment
    PROVE  TypeOK /\ Registered(pb) /\ [Next]_vars => Registered(pb)'
<1> SUFFICES ASSUME TypeOK, Registered(pb), [Next]_vars PROVE Registered(pb')
  BY DEF Registered, Counted, Unregistered
<1>1. options \in OptionRecords /\ pb \in Contexts
  BY OptionsAssumption DEF TypeOK
<1>2. CASE Run
  BY <1>1, <1>2, ReadyRegisters, ResolvingRegisters, SendingRegisters, ReceivingRegisters,
     EndingRegisters DEF Run
<1>3. CASE Pop \/ Lock \/ Poll \/ PollEnqueue \/ Expire \/ Start \/ Cancel
  BY <1>1, <1>3, OthersRegister
<1>4. CASE UNCHANGED vars
  BY <1>4 DEF vars
<1> QED
  BY <1>2, <1>3, <1>4 DEF Next

\* The types and the registrations hold together.
LEMMA RegisteredAlways ==
    ASSUME "udp_closed" \notin Environment
    PROVE  Spec => [](TypeOK /\ Registered(pb))
<1>1. Init => Registered(pb)
  BY StatesDiffer DEF Init, Registered, Counted, Unregistered
<1> QED
  BY <1>1, RegisteredStep, InitTyped, TypedStep, PTL DEF Spec

\* A context is never in the poller or the timer list twice, so the assertion of
\* the poller holds and no link of the timer list is overwritten, in every
\* environment where a DNS socket is not closed behind the watcher's back
\* (lib/sockets/pbpal_ntf_callback_poller_poll.c:56).
THEOREM AtMostOnce ==
    ASSUME "udp_closed" \notin Environment
    PROVE  Spec => []RegisteredOnce
<1>1. Registered(pb) => RegisteredOnce
  BY DEF Registered, Counted, RegisteredOnce
<1> QED
  BY <1>1, RegisteredAlways, PTL

\* No timer is left running on a connection that is kept alive, and no failure
\* keeps one alive (core/pubnub_netcore.c:1899-1900).
THEOREM NoLateTimeout ==
    ASSUME "udp_closed" \notin Environment
    PROVE  Spec => []NoTimeoutWhileKeptAlive
<1>1. Registered(pb) => NoTimeoutWhileKeptAlive
  BY DEF Registered, Unlisted, Unregistered, CanStart, NoTimeoutWhileKeptAlive
<1> QED
  BY <1>1, RegisteredAlways, PTL

-----------------------------------------------------------------------------
(* What the poller watches for *)
\* The states that wait for input
Receives == Reading \cup {"RX_HEADERS", "RX_BODY", "RX_CHUNK_LEN", "RX_BODY_CHUNK"}

\* The inductive invariant of what the poller watches for
Directed(p) == p.polled > 0 => /\ p.state \in Receives => p.events = "in"
                               /\ p.state \in {"WAIT_CONNECT", "WAIT_DNS_SEND"}
                                    => p.events = "out"

\* The states a transaction begins and ends in
Ends == {"IDLE", "KEEP_ALIVE_IDLE", "READY", "KEEP_ALIVE_READY", "RETRY"}

\* The states that may be watched in either direction, or in none
Free == Ends \cup Cancelling \cup Sending \cup {"WAIT_CANCEL_CLOSE", "CONNECTED",
    "WAIT_TLS_CONNECT"}

\* In the states outside Receives and the two that wait for output any direction will do.
LEMMA FreeDirected ==
    /\ \A p : p.state \in Free => Directed(p)
    /\ Ends \subseteq Free /\ Cancelling \subseteq Free /\ Sending \subseteq Free
    /\ {"IDLE", "READY", "RETRY", "WAIT_CANCEL_CLOSE", "CONNECTED", "WAIT_TLS_CONNECT",
         "TX_GET"} \subseteq Free
  BY DEF Free, Ends, Cancelling, Sending, Receives, Reading, Directed

\* A report ends a transaction, or starts the next one.
LEMMA ReportEnds ==
    ASSUME options \in OptionRecords, NEW p \in Contexts, NEW again \in BOOLEAN,
           NEW s \in CanStart
    PROVE  pbntf_trans_outcome(p, s, again).state \in Ends
<1> DEFINE q == pbntf_trans_outcome(p, s, FALSE)
<1>1. q \in Contexts /\ q.state = s
  <2>1. s \in States
    BY NamedStates
  <2> QED
    BY <2>1, TransOutcomeTyped, ReportKeeps
<1> HIDE DEF q
<1>2. start(q).state \in {"READY", "KEEP_ALIVE_READY"}
  BY <1>1, StartKeeps
<1> QED
  BY <1>1, <1>2, ReportStarts, StatesDiffer DEF q, Ends

\* So does a close,
LEMMA CloseEnds ==
    ASSUME options \in OptionRecords, NEW p \in Contexts, NEW again \in BOOLEAN
    PROVE  close_connection(p, again).state \in Ends
             /\ close_kept_alive_connection(p).state \in Ends
<1>1. ASSUME NEW q \in Contexts, NEW s \in Ends PROVE [q EXCEPT !.state = s].state = s
  BY DEF Contexts
<1>2. pbpal_close(p) \in Contexts
        /\ pbpal_close([p EXCEPT !.started_while_kept_alive = FALSE]) \in Contexts
  BY CloseTyped, SetStarted
<1>3. {"RETRY", "IDLE"} \subseteq Ends
  BY DEF Ends
<1>4. close_connection(p, again).state \in Ends
  BY <1>1, <1>2, <1>3, ReportEnds, StatesDiffer DEF close_connection
<1>5. close_kept_alive_connection(p).state \in Ends
  BY <1>1, <1>2, <1>3 DEF close_kept_alive_connection
<1> QED
  BY <1>4, <1>5

\* ... and an outcome.
LEMMA OutcomeEnds ==
    ASSUME options \in OptionRecords, NEW p \in Contexts, NEW rslt \in Results,
           NEW young \in BOOLEAN, NEW again \in BOOLEAN
    PROVE  outcome_detected(p, rslt, young, again).state \in Ends
<1> DEFINE q == [p EXCEPT !.last_result = rslt]
           r == pbntf_trans_outcome(pbntf_lost_socket(q), "KEEP_ALIVE_IDLE", again)
<1>1. q \in Contexts
  BY SetResult
<1> HIDE DEF q
<1>2. CASE should_keep_alive(q, rslt, young)
  <2>1. r \in Contexts /\ r.state \in Ends
    BY <1>1, LostTyped, ReportEnds, StatesDiffer, TransOutcomeTyped, NamedStates
  <2> HIDE DEF r
  <2>2. [r EXCEPT !.retry_after_close = FALSE].state \in Ends
    BY <2>1 DEF Contexts
  <2> QED
    BY <1>2, <2>2 DEF outcome_detected, q, r
<1>3. CASE ~ should_keep_alive(q, rslt, young)
  BY <1>1, <1>3, SetStarted, CloseEnds DEF outcome_detected, q
<1> QED
  BY <1>2, <1>3

\* An outcome leaves a context that is watched as it should be.
LEMMA OutcomeDirected ==
    ASSUME options \in OptionRecords, NEW p \in Contexts
    PROVE  /\ \A rslt \in Results : Outcome(p, rslt) => Directed(pb')
           /\ Reported(p, "IDLE") => Directed(pb')
<1>1. ASSUME NEW rslt \in Results, Outcome(p, rslt) PROVE Directed(pb')
  BY <1>1, OutcomeGives, OutcomeEnds, FreeDirected
<1>2. ASSUME Reported(p, "IDLE") PROVE Directed(pb')
  BY <1>2, ReportGives, ReportEnds, StatesDiffer, FreeDirected
<1> QED
  BY <1>1, <1>2

\* pbntf_watch_in_events and pbntf_watch_out_events do what they say.
LEMMA WatchDirected ==
    ASSUME NEW p \in Contexts
    PROVE  /\ p.state \in Receives => Directed(watch_in(p))
           /\ p.state \in {"WAIT_CONNECT", "WAIT_DNS_SEND"} => Directed(watch_out(p))
           /\ watch_in(p).state = p.state /\ watch_out(p).state = p.state
           /\ p.state \in Free => Directed(watch_in(p)) /\ Directed(watch_out(p))
<1>1. /\ watch_in(p).state = p.state /\ watch_out(p).state = p.state
      /\ watch_in(p).polled > 0 => watch_in(p).events = "in"
      /\ watch_out(p).polled > 0 => watch_out(p).events = "out"
  BY DEF watch_in, watch_out, Contexts
<1>2. {"WAIT_CONNECT", "WAIT_DNS_SEND"} \cap Receives = {}
  BY DEF Receives, Reading
<1> QED
  BY <1>1, <1>2, FreeDirected DEF Directed

\* The case PBS_READY: a new socket is watched for output, a query for input.
LEMMA ReadyDirected ==
    ASSUME options \in OptionRecords, pb \in Contexts, Ready
    PROVE  Directed(pb')
<1>1. PICK c \in pbpal_resolv_and_connect(pb) :
        LET Reg(s) == [pbntf_got_socket(c[2]) EXCEPT !.state = s]
            failed == [c[2] EXCEPT !.last_result = "ADDR_RESOLUTION_FAILED"]
        IN  \/ Break(start_timer(Reg("WAIT_DNS_SEND")))
            \/ Break(watch_in(start_timer(Reg("WAIT_DNS_RCV"))))
            \/ Break(start_timer(Reg("WAIT_CONNECT")))
            \/ Break(Reg("CONNECTED"))
            \/ Goto(close_connection(failed, FALSE))
            \/ Reported(failed, "IDLE")
  BY DEF Ready
<1> DEFINE Reg(s) == [pbntf_got_socket(c[2]) EXCEPT !.state = s]
           failed == [c[2] EXCEPT !.last_result = "ADDR_RESOLUTION_FAILED"]
<1>2. failed \in Contexts
  BY ConnectSteps, SetResult, NamedResults DEF Step
<1>3. ASSUME NEW s \in {"WAIT_DNS_SEND", "WAIT_DNS_RCV", "WAIT_CONNECT", "CONNECTED"}
      PROVE  /\ start_timer(Reg(s)) \in Contexts /\ start_timer(Reg(s)).state = s
             /\ Reg(s).state = s
             /\ start_timer(Reg(s)).events = "out"
  <2>1. s \in States
    BY NamedStates DEF Reading
  <2>2. c[2] \in Contexts
    BY ConnectSteps DEF Step
  <2>3. Reg(s) \in Contexts
    BY <2>1, <2>2, GotTyped, SetState
  <2>4. Reg(s).state = s /\ Reg(s).events = "out"
    BY <2>2 DEF Contexts, pbntf_got_socket
  <2> HIDE DEF Reg
  <2> QED
    BY <2>3, <2>4, TimerTyped DEF start_timer, Contexts
<1> HIDE DEF failed, Reg
<1>4. {"WAIT_CONNECT", "WAIT_DNS_SEND"} \cap Receives = {} /\ "WAIT_DNS_RCV" \in Receives
  BY DEF Receives, Reading
<1>5. /\ Directed(start_timer(Reg("WAIT_DNS_SEND")))
           /\ Directed(start_timer(Reg("WAIT_CONNECT")))
      /\ Directed(watch_in(start_timer(Reg("WAIT_DNS_RCV")))) /\ Directed(Reg("CONNECTED"))
  BY <1>3, <1>4, WatchDirected, FreeDirected DEF Directed
<1>6. Directed(close_connection(failed, FALSE))
  BY <1>2, CloseEnds, FreeDirected
<1> QED
  BY <1>1, <1>2, <1>5, <1>6, BreakGives, OutcomeDirected DEF failed, Reg

\* What keeps the state and the events keeps the direction.
LEMMA SameDirected ==
    ASSUME NEW p, NEW q, q.state = p.state, q.polled = p.polled, q.events = p.events,
           Directed(p)
    PROVE  Directed(q)
  BY DEF Directed

\* The cases that resolve and connect
LEMMA ResolvingDirected ==
    ASSUME options \in OptionRecords, pb \in Contexts, Directed(pb),
           WaitDnsSend \/ WaitDnsRcv \/ WaitConnect
    PROVE  Directed(pb')
<1>1. ASSUME NEW q \in Contexts, Keeps(pb, q)
      PROVE  /\ Directed(q) /\ (Break(q) => Directed(pb'))
             /\ Outcome(q, "ADDR_RESOLUTION_FAILED") => Directed(pb')
             /\ Outcome(q, "CONNECT_FAILED") => Directed(pb')
             /\ Break(watch_in([q EXCEPT !.state = "WAIT_DNS_RCV"])) => Directed(pb')
             /\ Break(watch_out([start_timer(q) EXCEPT !.state = "WAIT_CONNECT"]))
                  => Directed(pb')
             /\ Goto(watch_out([start_timer(q) EXCEPT !.state = "CONNECTED"]))
                  => Directed(pb')
             /\ Goto([start_timer(q) EXCEPT !.state = "CONNECTED"]) => Directed(pb')
  <2>1. Directed(q)
    BY <1>1, SameDirected DEF Keeps
  <2>2. ASSUME NEW r \in Contexts, NEW s \in States
        PROVE  [r EXCEPT !.state = s] \in Contexts /\ [r EXCEPT !.state = s].state = s
    BY <2>2 DEF Contexts
  <2>3. /\ "WAIT_DNS_RCV" \in States \cap Receives
             /\ {"WAIT_CONNECT", "CONNECTED"} \subseteq States
        /\ "CONNECTED" \in Free
    BY NamedStates, FreeDirected DEF Receives, Reading
  <2>4. start_timer(q) \in Contexts
    BY TimerTyped
  <2>5. /\ Directed(watch_in([q EXCEPT !.state = "WAIT_DNS_RCV"]))
        /\ Directed(watch_out([start_timer(q) EXCEPT !.state = "WAIT_CONNECT"]))
        /\ Directed(watch_out([start_timer(q) EXCEPT !.state = "CONNECTED"]))
        /\ Directed([start_timer(q) EXCEPT !.state = "CONNECTED"])
    BY <2>2, <2>3, <2>4, WatchDirected, FreeDirected
  <2> QED
    BY <2>1, <2>5, BreakGives, OutcomeDirected, NamedResults
<1>2. CASE WaitDnsSend
  <2>1. PICK c \in pbpal_resolv_and_connect(pb) :
          \/ Break(c[2]) \/ Break(watch_in([c[2] EXCEPT !.state = "WAIT_DNS_RCV"]))
          \/ Outcome(c[2], "ADDR_RESOLUTION_FAILED")
    BY <1>2 DEF WaitDnsSend
  <2>2. c[2] \in Contexts /\ Keeps(pb, c[2])
    BY ConnectSteps DEF Step
  <2> QED
    BY <1>1, <2>1, <2>2
<1>3. CASE WaitDnsRcv
  <2>1. PICK c \in pbpal_check_resolv_and_connect(pb) :
          \/ Break(c[2])
          \/ Break(watch_out([start_timer(c[2]) EXCEPT !.state = "WAIT_CONNECT"]))
          \/ Goto(watch_out([start_timer(c[2]) EXCEPT !.state = "CONNECTED"]))
          \/ Outcome(c[2], "ADDR_RESOLUTION_FAILED")
    BY <1>3 DEF WaitDnsRcv
  <2>2. c[2] \in Contexts /\ Keeps(pb, c[2])
    BY AnswerSteps DEF Step
  <2> QED
    BY <1>1, <2>1, <2>2
<1>4. CASE WaitConnect
  <2>1. PICK c \in pbpal_check_connect(pb) :
          \/ Break(c[2]) \/ Goto([start_timer(c[2]) EXCEPT !.state = "CONNECTED"])
          \/ Outcome(c[2], "CONNECT_FAILED")
    BY <1>4 DEF WaitConnect
  <2>2. c[2] \in Contexts /\ Keeps(pb, c[2])
    BY CheckSteps
  <2> QED
    BY <1>1, <2>1, <2>2
<1> QED
  BY <1>2, <1>3, <1>4

\* What a change of state leaves alone
LEMMA StateSet ==
    ASSUME NEW p \in Contexts, NEW s
    PROVE  /\ [p EXCEPT !.state = s].state = s
           /\ [p EXCEPT !.state = s].polled = p.polled
           /\ [p EXCEPT !.state = s].events = p.events
  BY DEF Contexts

\* The start of a request
LEMMA SendRequestDirected ==
    ASSUME options \in OptionRecords, NEW p \in Contexts, SendRequest(p)
    PROVE  Directed(pb')
<1>1. Directed([p EXCEPT !.state = "TX_GET"])
  BY StateSet, FreeDirected
<1> QED
  BY <1>1, BreakGives, OutcomeDirected, NamedResults DEF SendRequest

\* The cases that start TLS and send the request: the last turns to input.
LEMMA SendingDirected ==
    ASSUME options \in OptionRecords, pb \in Contexts, Directed(pb),
           Connected \/ WaitTlsConnect \/ TxGet \/ Transmit
    PROVE  Directed(pb')
<1>1. CASE Connected
  <2> DEFINE p == [pb EXCEPT !.should_close = ~ options.use_http_keep_alive,
                             !.retry_after_close = FALSE]
             q == [p EXCEPT !.ssl = TRUE]
  <2>1. p \in Contexts
    <3>1. (~ options.use_http_keep_alive) \in BOOLEAN
      BY DEF OptionRecords
    <3> QED
      BY <3>1, SetShouldClose, SetRetry
  <2>2. SendRequest(p) \/ StartTls(p)
    BY <1>1 DEF Connected
  <2> HIDE DEF p
  <2>3. q \in Contexts /\ tls_failed(q) \in Contexts
    BY <2>1, SetSsl, TlsFailedTyped
  <2>4. StartTls(p) =>
           \/ SendRequest(q)
           \/ \E dir \in {"in", "out"} :
                 pb' = [q EXCEPT !.state = "WAIT_TLS_CONNECT",
                                 !.events = IF q.polled > 0 THEN dir ELSE @]
           \/ \E again \in BOOLEAN :
                 pb' = outcome_detected(tls_failed(q), "CONNECT_FAILED", FALSE, again)
           \/ Outcome(p, "INTERNAL_ERROR")
    BY Restarts, Zenon DEF StartTls, Return
  <2> HIDE DEF q
  <2>5. \A dir \in {"in", "out"} : Directed([q EXCEPT !.state = "WAIT_TLS_CONNECT",
                                       !.events = IF q.polled > 0 THEN dir ELSE @])
    <3> TAKE dir \in {"in", "out"}
    <3>1. [q EXCEPT !.state = "WAIT_TLS_CONNECT",
                    !.events = IF q.polled > 0 THEN dir ELSE @].state = "WAIT_TLS_CONNECT"
      BY <2>3 DEF Contexts
    <3> QED
      BY <3>1, FreeDirected
  <2>6. \A again \in BOOLEAN :
           Directed(outcome_detected(tls_failed(q), "CONNECT_FAILED", FALSE, again))
    BY <2>3, OutcomeEnds, FreeDirected, NamedResults
  <2> QED
    BY <2>1, <2>2, <2>3, <2>4, <2>5, <2>6, SendRequestDirected, OutcomeDirected,
       NamedResults
<1>2. CASE WaitTlsConnect
  <2>1. /\ pb.state = "WAIT_TLS_CONNECT"
        /\ \/ SendRequest(pb) \/ \E dir \in {"in", "out"} :
                Break([pb EXCEPT !.events = dir])
           \/ Outcome(tls_failed(pb), "CONNECT_FAILED")
    BY <1>2 DEF WaitTlsConnect, Fsm
  <2>2. \A dir \in {"in", "out"} : Directed([pb EXCEPT !.events = dir])
    BY <2>1, FreeDirected DEF Contexts
  <2>3. tls_failed(pb) \in Contexts
    BY TlsFailedTyped
  <2> QED
    BY <2>1, <2>2, <2>3, SendRequestDirected, BreakGives, OutcomeDirected, NamedResults
<1>3. CASE TxGet
  <2>1. \/ Return(pb) \/ \E s \in Sending : Goto([pb EXCEPT !.state = s])
        \/ \E again \in BOOLEAN : Goto(outcome_detected(pb, "IO_ERROR", FALSE, again))
    <3>1. \/ Return(pb)
          \/ Goto([pb EXCEPT !.state = IF options.proxy_type = "NONE" THEN "TX_PATH"
                                       ELSE "TX_SCHEME"])
          \/ \E again \in BOOLEAN : Goto(outcome_detected(pb, "IO_ERROR", FALSE, again))
      BY <1>3, Restarts, Zenon DEF TxGet
    <3> QED
      BY <3>1 DEF Sending
  <2>2. \A s \in Sending : Directed([pb EXCEPT !.state = s])
    BY StateSet, FreeDirected
  <2>3. \A again \in BOOLEAN : Directed(outcome_detected(pb, "IO_ERROR", FALSE, again))
    BY OutcomeEnds, FreeDirected, NamedResults
  <2> QED
    BY <2>1, <2>2, <2>3, BreakGives
<1>4. CASE Transmit
  <2> DEFINE sent == pb.proxy_authorization_sent \/ (pb.state = "TX_ORIGIN" /\ pb.proxy_auth
                                                       /\ ~ pb.proxy_tunnel_established)
             p == [pb EXCEPT !.proxy_authorization_sent = sent]
             q == [p EXCEPT !.state = AfterSending(pb)]
  <2>1. p \in Contexts
    <3>1. sent \in BOOLEAN
      BY Fields
    <3> QED
      BY <3>1, SetAuthorized
  <2>2. AfterSending(pb) \in Sending \cup {"RX_HTTP_VER"}
    BY DEF AfterSending, Sending
  <2>3. \/ Return(pb) \/ Outcome(pb, "IO_ERROR")
        \/ Goto(IF q.state = "RX_HTTP_VER" THEN watch_in(q) ELSE q)
    BY <1>4 DEF Transmit
  <2> HIDE DEF p
  <2>4. q \in Contexts /\ q.state = AfterSending(pb)
    BY <2>1, <2>2, SetState, StateSet, NamedStates DEF Reading
  <2> HIDE DEF q
  <2>5. Directed(IF q.state = "RX_HTTP_VER" THEN watch_in(q) ELSE q)
    <3>1. CASE q.state = "RX_HTTP_VER"
      BY <2>4, <3>1, WatchDirected DEF Receives, Reading
    <3>2. CASE q.state # "RX_HTTP_VER"
      BY <2>2, <2>4, <3>2, FreeDirected
    <3> QED
      BY <3>1, <3>2
  <2> QED
    BY <2>3, <2>5, BreakGives, OutcomeDirected, NamedResults
<1> QED
  BY <1>1, <1>2, <1>3, <1>4

\* finish()
LEMMA FinishDirected ==
    ASSUME options \in OptionRecords, NEW p \in Contexts, finish(p)
    PROVE  Directed(pb')
<1>1. Directed(RepeatRequest(p))
  <2> DEFINE made == p.http_code = 200
             q == [p EXCEPT !.retry_after_close = TRUE, !.tunnelled = @ \/ made,
                            !.proxy_tunnel_established = @ \/ made]
  <2>1. (p.tunnelled \/ made) \in BOOLEAN
          /\ (p.proxy_tunnel_established \/ made) \in BOOLEAN
    BY Fields
  <2>2. q \in Contexts
    BY <2>1, SetRetry, SetTunnelled, SetTunnel
  <2>3. RepeatRequest(p) = IF p.should_close THEN close_connection(q, FALSE)
                                             ELSE [q EXCEPT !.state = "CONNECTED"]
    BY DEF RepeatRequest
  <2> HIDE DEF q
  <2>4. close_connection(q, FALSE).state \in Free
    BY <2>2, CloseEnds, FreeDirected
  <2>5. [q EXCEPT !.state = "CONNECTED"].state \in Free
    BY <2>2, StateSet, FreeDirected
  <2>6. RepeatRequest(p).state \in Free
    BY <2>3, <2>4, <2>5
  <2> QED
    BY <2>6, FreeDirected
<1>2. [p EXCEPT !.should_close = TRUE] \in Contexts
  BY SetShouldClose
<1>3. \/ Goto(RepeatRequest(p)) \/ Outcome([p EXCEPT !.should_close = TRUE], "HTTP_ERROR")
      \/ Outcome(p, "OK") \/ Outcome(p, "HTTP_ERROR") \/ Outcome(p, "REPLY_TOO_BIG")
  BY DEF finish
<1> QED
  BY <1>1, <1>2, <1>3, BreakGives, OutcomeDirected, NamedResults

\* The cases that receive the reply go on watching for input.
LEMMA ReceivingDirected ==
    ASSUME options \in OptionRecords, pb \in Contexts, Directed(pb),
           \/ RxHttpVer \/ RxHeaders \/ RxHeaderLine \/ RxBody \/ RxBodyWait
           \/ RxChunkLen \/ RxChunkLenLine \/ RxBodyChunk
    PROVE  Directed(pb')
<1>1. /\ pb.state \in Receives /\ {"WAIT_CONNECT", "WAIT_DNS_SEND"} \cap Receives = {}
      /\ {"RX_HEADERS", "RX_HEADER_LINE", "RX_BODY", "RX_BODY_WAIT", "RX_CHUNK_LEN",
          "RX_CHUNK_LEN_LINE", "RX_BODY_CHUNK", "RX_BODY_CHUNK_WAIT"} \subseteq Receives
  BY DEF RxHttpVer, RxHeaders, RxHeaderLine, RxBody, RxBodyWait, RxChunkLen,
         RxChunkLenLine, RxBodyChunk, Fsm, Receives, Reading
<1>2. ASSUME NEW q, q.polled = pb.polled, q.events = pb.events, q.state \in Receives
      PROVE  Directed(q)
  BY <1>1, <1>2 DEF Directed
<1>3. \A s \in Receives : Directed([pb EXCEPT !.state = s])
  BY <1>2, StateSet
<1>4. /\ \A code \in {200, 407, 500} :
            Directed([pb EXCEPT !.http_code = code, !.state = "RX_HEADERS"])
      /\ Directed([pb EXCEPT !.state = "RX_HEADERS", !.should_close = TRUE])
      /\ Directed([pb EXCEPT !.proxy_auth = TRUE, !.state = "RX_HEADERS"])
  <2>1. \A code \in {200, 407, 500} :
            Directed([pb EXCEPT !.http_code = code, !.state = "RX_HEADERS"])
    <3> TAKE code \in {200, 407, 500}
    <3> DEFINE q == [pb EXCEPT !.http_code = code, !.state = "RX_HEADERS"]
    <3>1. q.polled = pb.polled /\ q.events = pb.events /\ q.state = "RX_HEADERS"
      BY DEF Contexts
    <3> HIDE DEF q
    <3>2. Directed(q)
      BY <1>1, <1>2, <3>1
    <3> QED
      BY <3>2 DEF q
  <2>2. Directed([pb EXCEPT !.state = "RX_HEADERS", !.should_close = TRUE])
    <3> DEFINE q == [pb EXCEPT !.state = "RX_HEADERS", !.should_close = TRUE]
    <3>1. q.polled = pb.polled /\ q.events = pb.events /\ q.state = "RX_HEADERS"
      BY DEF Contexts
    <3> HIDE DEF q
    <3>2. Directed(q)
      BY <1>1, <1>2, <3>1
    <3> QED
      BY <3>2 DEF q
  <2>3. Directed([pb EXCEPT !.proxy_auth = TRUE, !.state = "RX_HEADERS"])
    <3> DEFINE q == [pb EXCEPT !.proxy_auth = TRUE, !.state = "RX_HEADERS"]
    <3>1. q.polled = pb.polled /\ q.events = pb.events /\ q.state = "RX_HEADERS"
      BY DEF Contexts
    <3> HIDE DEF q
    <3>2. Directed(q)
      BY <1>1, <1>2, <3>1
    <3> QED
      BY <3>2 DEF q
  <2> QED
    BY <2>1, <2>2, <2>3
<1>5. /\ finish(pb) => Directed(pb')
      /\ \A rslt \in {"IO_ERROR", "REPLY_TOO_BIG", "AUTHENTICATION_FAILED"} :
            Outcome(pb, rslt) => Directed(pb')
      /\ Directed(close_kept_alive_connection(pb))
  BY FinishDirected, OutcomeDirected, NamedResults, CloseEnds, FreeDirected
<1>6. CASE RxHttpVer
  BY <1>4, <1>5, <1>6, BreakGives DEF RxHttpVer
<1>7. CASE RxHeaderLine
  <2>1. ProxyAuthenticate(pb) => Directed(pb')
    BY <1>4, <1>5, BreakGives DEF ProxyAuthenticate
  <2>2. /\ Return(pb) => Directed(pb')
        /\ \A s \in {"RX_HEADERS", "RX_BODY", "RX_CHUNK_LEN"} :
              Goto([pb EXCEPT !.state = s]) => Directed(pb')
    BY <1>1, <1>3, BreakGives
  <2>3. Goto([pb EXCEPT !.state = "RX_HEADERS", !.should_close = TRUE]) => Directed(pb')
    BY <1>4, BreakGives
  <2> QED
    BY <1>5, <1>7, <2>1, <2>2, <2>3 DEF RxHeaderLine
<1>8. CASE RxHeaders \/ RxBody \/ RxChunkLen \/ RxBodyChunk
  BY <1>1, <1>3, <1>5, <1>8, BreakGives DEF RxHeaders, RxBody, RxChunkLen, RxBodyChunk
<1>9. CASE RxBodyWait \/ RxChunkLenLine
  BY <1>1, <1>3, <1>5, <1>9, BreakGives DEF RxBodyWait, RxChunkLenLine
<1> QED
  BY <1>6, <1>7, <1>8, <1>9

\* The cases that start, retry and cancel
LEMMA EndingDirected ==
    ASSUME options \in OptionRecords, pb \in Contexts,
           \/ Idle \/ Retry \/ WaitCancel \/ WaitCancelClose \/ WaitCancelDns
           \/ WaitCancelKeepalive \/ KeepAliveReady
    PROVE  Directed(pb')
<1>1. CASE Idle
  <2>1. IdleCase(pb).state = "READY"
    BY IdleCaseKeeps
  <2>2. QueueFull(pb).state \in Ends
    BY SetResult, NamedResults, ReportEnds, StatesDiffer DEF QueueFull
  <2> QED
    BY <1>1, <2>1, <2>2, FreeDirected, BreakGives DEF Idle
<1>2. CASE Retry
  <2>1. [pb EXCEPT !.retry_after_close = FALSE, !.state = "READY"].state = "READY"
    BY DEF Contexts
  <2> QED
    BY <1>2, <2>1, FreeDirected, BreakGives DEF Retry
<1>3. CASE WaitCancel
  <2>1. Directed([pbpal_close(pb) EXCEPT !.state = "WAIT_CANCEL_CLOSE"])
    BY CloseTyped, StateSet, FreeDirected
  <2> QED
    BY <1>3, <2>1, BreakGives DEF WaitCancel
<1>4. CASE WaitCancelClose
  BY <1>4, StateSet, FreeDirected, OutcomeDirected, BreakGives DEF WaitCancelClose
<1>5. CASE WaitCancelDns
  BY <1>5, SetRetry, CloseEnds, FreeDirected, BreakGives DEF WaitCancelDns
<1>6. CASE WaitCancelKeepalive
  BY <1>6, CloseEnds, FreeDirected, BreakGives DEF WaitCancelKeepalive
<1>7. CASE KeepAliveReady
  <2> DEFINE q == [pbntf_got_socket(pb) EXCEPT !.state = "TX_GET"]
  <2>1. q \in Contexts /\ q.state = "TX_GET"
    BY GotTyped, SetState, StateSet, NamedStates DEF Sending
  <2>2. Goto(q) \/ Goto(close_kept_alive_connection(q))
    BY <1>7 DEF KeepAliveReady
  <2> HIDE DEF q
  <2> QED
    BY <2>1, <2>2, CloseEnds, FreeDirected, BreakGives
<1> QED
  BY <1>1, <1>2, <1>3, <1>4, <1>5, <1>6, <1>7

\* The steps of the watcher between runs, and of the application
LEMMA OthersDirected ==
    ASSUME options \in OptionRecords, pb \in Contexts, Directed(pb),
           Pop \/ Lock \/ Poll \/ PollEnqueue \/ Expire \/ Start \/ Cancel
    PROVE  Directed(pb')
<1>1. ASSUME NEW p \in Contexts, Directed(p), NEW outcome \in {"TIMEOUT", "CANCELLED"}
      PROVE  Directed(Stopped(p, outcome)) /\ Directed(pbnc_stop(p, outcome))
  BY <1>1, FreeDirected
     DEF pbnc_stop, Stopped, RotationsLeft, pbpal_dns_rotate_server,
         pbntf_requeue_for_processing, Contexts, Directed, Free, Cancelling, Receives,
             Reading
<1>2. CASE Pop
  BY <1>2 DEF Pop, Contexts, Directed
<1>3. CASE Lock \/ Poll
  BY <1>3 DEF Lock, Poll
<1>4. CASE PollEnqueue
  BY <1>4 DEF PollEnqueue, pbntf_enqueue_for_processing, Contexts, Directed
<1>5. CASE Expire
  <2> DEFINE p == [pb EXCEPT !.timers = @ - 1]
  <2>1. p \in Contexts
    <3>1. pb.timers - 1 \in 0 .. 2
      BY <1>5, Fields DEF Expire
    <3> QED
      BY <3>1, SetTimers
  <2>2. Directed(p)
    BY DEF Contexts, Directed
  <2> HIDE DEF p
  <2>3. pb' = pbnc_stop(p, "TIMEOUT") \/ pb' = Stopped(p, "TIMEOUT")
    BY <1>5 DEF Expire, p
  <2> QED
    BY <1>1, <2>1, <2>2, <2>3
<1>6. CASE Start
  <2>1. start(pb) \in Contexts /\ start(pb).state \in {"READY", "KEEP_ALIVE_READY"}
    BY StartTyped, StartKeeps
  <2>2. Directed(start(pb))
    BY <2>1, FreeDirected DEF Ends
  <2> DEFINE q == [start(pb) EXCEPT !.queued = pb.queued]
  <2>3. q \in Contexts
    BY <2>1, SetQueued, Fields
  <2> HIDE DEF q
  <2>4. QueueFull(q).state \in Ends
    BY <2>3, SetResult, NamedResults, ReportEnds, StatesDiffer DEF QueueFull
  <2> QED
    BY <1>6, <2>2, <2>4, FreeDirected DEF Start, q
<1>7. CASE Cancel
  <2> DEFINE q == pbnc_stop(pb, "CANCELLED")
  <2>1. q \in Contexts /\ Directed(q)
    BY <1>1, StoppedTyped
  <2>2. pb' = [q EXCEPT !.cancelled = pb.owed = 1]
    BY <1>7 DEF Cancel
  <2> HIDE DEF q
  <2> QED
    BY <2>1, <2>2 DEF Contexts, Directed
<1> QED
  BY <1>2, <1>3, <1>4, <1>5, <1>6, <1>7

\* The poller watches for input while the machine waits to read and for output
\* while it waits for the connection, in every environment
\* (core/pubnub_netcore.c, pbntf_watch_in_events and pbntf_watch_out_events).
THEOREM RightDirection == Spec => []WatchesItsDirection
<1>1. Init => Directed(pb)
  BY DEF Init, Directed
<1>2. TypeOK /\ Directed(pb) /\ [Next]_vars => Directed(pb)'
  <2> SUFFICES ASSUME TypeOK, Directed(pb), [Next]_vars PROVE Directed(pb')
    BY DEF Directed
  <2>1. options \in OptionRecords /\ pb \in Contexts
    BY OptionsAssumption DEF TypeOK
  <2>2. CASE Run
    BY <2>1, <2>2, ReadyDirected, ResolvingDirected, SendingDirected, ReceivingDirected,
       EndingDirected DEF Run
  <2>3. CASE Pop \/ Lock \/ Poll \/ PollEnqueue \/ Expire \/ Start \/ Cancel
    BY <2>1, <2>3, OthersDirected
  <2>4. CASE UNCHANGED vars
    BY <2>4 DEF vars
  <2> QED
    BY <2>2, <2>3, <2>4 DEF Next
<1>3. Directed(pb) => WatchesItsDirection
  BY DEF Directed, WatchesItsDirection, Receives
<1> QED
  BY <1>1, <1>2, <1>3, InitTyped, TypedStep, PTL DEF Spec

-----------------------------------------------------------------------------
(* Who takes care of the context *)
\* The states that wait on a socket
Waits == {"WAIT_DNS_SEND", "WAIT_DNS_RCV"} \cup
         (OnAConnection \ {"KEEP_ALIVE_IDLE", "KEEP_ALIVE_READY"})

\* The states without a socket
Closed == {"IDLE", "READY", "RETRY", "WAIT_CANCEL_CLOSE"}

\* One outcome is owed while there is a transaction.
Owes(p) == p.owed = IF p.trans THEN 1 ELSE 0
\* Which states have a socket and who may wake them
Placed(p) ==
    /\ p.state \in Closed => p.socket = "none" /\ ~ p.ssl
    /\ p.state \in Waits => p.socket # "none" /\ p.timers = 1 /\ p.polled = 1
    /\ p.state \in {"WAIT_CANCEL_DNS", "WAIT_CANCEL_KEEPALIVE"} => p.socket # "none"
\* An entry left over by a stop, which the closing of the socket takes
LeftOver(p) == p.queued = 1 /\ p.state \in Cancelling /\ p.socket # "none"

\* The context while the machine runs ...
InRun(p) == /\ Owes(p) /\ Placed(p) /\ p.state # "KEEP_ALIVE_IDLE"
            /\ p.queued = 0 \/ LeftOver(p)
\* ... and when it has stopped
Rested(p) ==
    /\ Placed(p) /\ p.state \notin Passing
    /\ IF p.state \in CanStart THEN p.owed = 0 /\ p.queued = 0
       ELSE /\ Owes(p)
            /\ p.queued < 2 \/ (p.queued = 2 /\ p.state \in Cancelling /\ p.socket # "none")
    /\ p.state \in {"READY", "KEEP_ALIVE_READY"} \cup Cancelling => p.queued > 0

\* A case that breaks stops, but for the state it retries from.
Settled(p) == IF p.state = "RETRY" THEN InRun(p) ELSE Rested(p)

\* The invariant, by what the watcher is doing
Watched ==
    /\ watcher = "fsm" => InRun(pb)
    /\ watcher = "idle" => Rested(pb)
    /\ watcher = "popped" =>
          /\ Owes(pb) /\ Placed(pb) /\ pb.state \notin CanStart \cup Passing
          /\ pb.queued = 0 \/ LeftOver(pb)
    /\ watcher = "requeue" =>
          /\ Owes(pb) /\ Placed(pb) /\ pb.state \notin CanStart \cup Passing
          /\ pb.polled > 0
          /\ pb.queued = 0 \/ LeftOver(pb)

\* What every step of the machine comes to
Settles == \/ watcher' = "fsm" /\ InRun(pb')
           \/ watcher' = "idle" /\ Rested(pb')

\* What a case of the machine leaves, by how it ends
LEMMA BreakSettles ==
    ASSUME NEW p
    PROVE  /\ Goto(p) /\ InRun(p) => Settles
           /\ Return(p) /\ Rested(p) => Settles
           /\ Break(p) /\ Settled(p) => Settles
  BY DEF Goto, Return, Break, Settled, Settles

\* Which of these sets of states overlap
LEMMA MoreStatesDiffer ==
    /\ Closed \cap (Waits \cup Cancelling) = {}
    /\ Cancelling \cap (Waits \cup CanStart \cup Passing) = {}
    /\ Waits \cap (Closed \cup Cancelling \cup CanStart \cup {"READY", "KEEP_ALIVE_READY"})
         = {}
    /\ "RETRY" \in Passing /\ "WAIT_CANCEL_CLOSE" \in Passing
    /\ {"IDLE", "KEEP_ALIVE_IDLE", "READY", "KEEP_ALIVE_READY"} \cap Passing = {}
    /\ {"READY", "KEEP_ALIVE_READY"} \cap (CanStart \cup Cancelling \cup Waits) = {}
    /\ {"WAIT_CANCEL_DNS", "WAIT_CANCEL_KEEPALIVE", "WAIT_CANCEL"} = Cancelling
    /\ {"READY", "RETRY", "IDLE", "WAIT_CANCEL_CLOSE"} = Closed
    /\ {"KEEP_ALIVE_IDLE", "KEEP_ALIVE_READY"} \cap (Closed \cup Waits \cup Cancelling) = {}
  BY DEF Closed, Waits, Cancelling, CanStart, OnAConnection, Sending, Reading, Passing

\* An outcome that is reported is no longer owed.
LEMMA PaidUp ==
    ASSUME NEW p, Owes(p)
    PROVE  (IF p.trans /\ p.owed > -1 THEN p.owed - 1 ELSE p.owed) = 0
<1>1. CASE p.trans
  BY <1>1 DEF Owes
<1>2. CASE ~ p.trans
  BY <1>2 DEF Owes
<1> QED
  BY <1>1, <1>2

\* An outcome reported for a context nobody knows about any more: nothing is owed
\* and nobody will run the machine, unless the callback started the next one.
LEMMA ReportSettles ==
    ASSUME options \in OptionRecords, NEW p \in Contexts, NEW again \in BOOLEAN,
           Owes(p), p.queued = 0, NEW s \in CanStart,
           s = "IDLE" => p.socket = "none" /\ ~ p.ssl
    PROVE  LET r == pbntf_trans_outcome(p, s, again)
           IN  Rested(r) /\ r.state # "RETRY"
<1> DEFINE q == pbntf_trans_outcome(p, s, FALSE)
           r == start(q)
<1>1. /\ q \in Contexts /\ q.state = s /\ q.socket = p.socket /\ q.ssl = p.ssl
      /\ q.queued = 0 /\ q.owed = 0
  <2>1. s \in States
    BY NamedStates
  <2>2. q \in Contexts
    BY <2>1, TransOutcomeTyped
  <2>3. q.state = s /\ q.socket = p.socket /\ q.ssl = p.ssl /\ q.queued = 0
    BY ReportKeeps
  <2>4. q.owed = IF p.trans /\ p.owed > -1 THEN p.owed - 1 ELSE p.owed
    BY ReportKeeps
  <2>5. q.owed = 0
    BY <2>4, PaidUp
  <2> QED
    BY <2>2, <2>3, <2>5
<1> HIDE DEF q
<1>2. /\ r.state = IF s = "IDLE" THEN "READY" ELSE "KEEP_ALIVE_READY"
      /\ r.socket = p.socket /\ r.ssl = p.ssl /\ r.queued = 1 /\ r.owed = 1 /\ r.trans
  BY <1>1, StartKeeps, BoundsAssumption DEF Min2
<1> HIDE DEF r
<1>3. Rested(q) /\ q.state # "RETRY"
  BY <1>1, StatesDiffer, MoreStatesDiffer DEF Rested, Placed
<1>4. Rested(r) /\ r.state # "RETRY"
  BY <1>2, StatesDiffer, MoreStatesDiffer DEF Rested, Placed, Owes
<1> QED
  BY <1>3, <1>4, ReportStarts DEF q, r

\* Closing takes what is left in the queue
Closes(p) == Owes(p) /\ Counted(p) /\ (p.queued = 0 \/ (p.queued = 1 /\ p.socket # "none"))

\* Closing takes what is left in the queue.
LEMMA CloseEmpties ==
    ASSUME NEW p \in Contexts, Closes(p)
    PROVE  LET q == pbpal_close(p)
           IN  /\ q \in Contexts /\ Unregistered(q) /\ q.queued = 0 /\ q.socket = "none"
               /\ ~ q.ssl
               /\ Owes(q) /\ q.retry_after_close = p.retry_after_close
<1>1. p.queued \in Nat
  BY Fields, BoundsAssumption
<1> QED
  BY <1>1, CloseTyped, CloseCounts, CloseKeeps DEF Closes, Owes

\* close_connection and close_kept_alive_connection
LEMMA CloseSettles ==
    ASSUME options \in OptionRecords, NEW p \in Contexts, Closes(p), NEW again \in BOOLEAN
    PROVE  /\ Settled(close_connection(p, again))
           /\ ~ p.retry_after_close => close_connection(p, again).state # "RETRY"
           /\ p.retry_after_close => close_connection(p, again).state = "RETRY"
           /\ InRun(close_kept_alive_connection(p))
<1>1. ASSUME NEW q \in Contexts, Closes(q), NEW s \in {"RETRY", "IDLE"}
      PROVE  InRun([pbpal_close(q) EXCEPT !.state = s])
               /\ [pbpal_close(q) EXCEPT !.state = s].state = s
  <2> DEFINE r == pbpal_close(q)
             t == [r EXCEPT !.state = s]
  <2>1. r \in Contexts /\ r.queued = 0 /\ r.socket = "none" /\ ~ r.ssl /\ Owes(r)
    BY <1>1, CloseEmpties
  <2> HIDE DEF r
  <2>2. /\ t.state = s /\ t.queued = 0 /\ t.socket = "none" /\ ~ t.ssl /\ Owes(t)
    BY <2>1 DEF Contexts, Owes
  <2> HIDE DEF t
  <2>3. InRun(t)
    BY <2>2, MoreStatesDiffer DEF InRun, Placed
  <2> QED
    BY <2>2, <2>3 DEF r, t
<1>4. InRun(close_kept_alive_connection(p))
  <2> DEFINE q == [p EXCEPT !.started_while_kept_alive = FALSE]
  <2>1. q \in Contexts
    BY SetStarted
  <2>2. Closes(q)
    BY <2>1 DEF Contexts, Closes, Counted, Unregistered, Owes
  <2> HIDE DEF q
  <2>3. InRun([pbpal_close(q) EXCEPT !.state =
                       IF pbpal_close(q).retry_after_close THEN "RETRY" ELSE "IDLE"])
    BY <1>1, <2>1, <2>2
  <2> QED
    BY <2>3 DEF close_kept_alive_connection, q
<1>2. CASE p.retry_after_close
  <2>1. close_connection(p, again) = [pbpal_close(p) EXCEPT !.state = "RETRY"]
    BY <1>2, CloseEmpties DEF close_connection
  <2> QED
    BY <1>1, <1>2, <2>1, <1>4 DEF Settled
<1>3. CASE ~ p.retry_after_close
  <2>1. close_connection(p, again) = pbntf_trans_outcome(pbpal_close(p), "IDLE", again)
    BY <1>3, CloseEmpties DEF close_connection
  <2>2. /\ Rested(pbntf_trans_outcome(pbpal_close(p), "IDLE", again))
        /\ pbntf_trans_outcome(pbpal_close(p), "IDLE", again).state # "RETRY"
    BY CloseEmpties, ReportSettles, StatesDiffer
  <2> QED
    BY <1>3, <2>1, <2>2, <1>4 DEF Settled
<1> QED
  BY <1>2, <1>3

-----------------------------------------------------------------------------
(* A context that waits on a socket *)
\* A context with a connection, or a name being resolved, under way
Working(p) == Owes(p) /\ p.queued = 0 /\ p.timers = 1 /\ p.polled = 1 /\ p.socket # "none"

\* Every state is of one of these kinds.
LEMMA StatesCovered ==
    States = Closed \cup Waits \cup Cancelling \cup {"KEEP_ALIVE_IDLE", "KEEP_ALIVE_READY"}
  BY
     DEF States, Closed, Waits, Cancelling, OnAConnection, Sending, Reading, Passing,
         CanStart

\* A state that waits on a socket, in one run of the machine and between runs
LEMMA WaitingWorks ==
    ASSUME NEW p
    PROVE  /\ InRun(p) /\ p.state \in Waits => Working(p)
           /\ Working(p) /\ p.state \in Waits => InRun(p)
           /\ Working(p) /\ p.state \in Waits \ Passing => Rested(p) /\ Settled(p)
  BY MoreStatesDiffer DEF InRun, LeftOver, Placed, Working, Rested, Settled

\* Timers, events and states change nothing about it,
LEMMA WorkingOn ==
    ASSUME NEW p \in Contexts, Working(p)
    PROVE  /\ Working(start_timer(p)) /\ Working(watch_in(p)) /\ Working(watch_out(p))
           /\ start_timer(p).state = p.state /\ watch_in(p).state = p.state
           /\ watch_out(p).state = p.state
           /\ \A s \in States : Working([p EXCEPT !.state = s])
  BY DEF Working, Owes, start_timer, watch_in, watch_out, Contexts

\* ... nor do the steps of a connection,
LEMMA KeepsWorking ==
    ASSUME NEW p, NEW q, Keeps(p, q), q.socket # "none", Working(p)
    PROVE  Working(q) /\ q.state = p.state
  BY DEF Keeps, Working, Owes

\* ... and it can be closed.
LEMMA WorkingCloses ==
    ASSUME NEW p, Working(p)
    PROVE  Counted(p) /\ Closes(p)
  BY DEF Working, Counted, Unregistered, Closes

\* outcome_detected leaves a context nobody knows, or one to retry: after a
\* failure only where the retry was asked for.
LEMMA OutcomeSettled ==
    ASSUME options \in OptionRecords, NEW p \in Contexts, Working(p), NEW rslt \in Results,
           NEW young \in BOOLEAN, NEW again \in BOOLEAN
    PROVE  LET r == outcome_detected(p, rslt, young, again)
           IN  /\ Settled(r)
               /\ rslt \in Failures /\ ~ p.retry_after_close => r.state # "RETRY"
<1> DEFINE q == [p EXCEPT !.last_result = rslt]
<1>1. /\ q \in Contexts /\ Working(q) /\ q.retry_after_close = p.retry_after_close
  <2>1. q \in Contexts
    BY SetResult
  <2> QED
    BY <2>1 DEF Contexts, Working, Owes
<1> HIDE DEF q
<1>2. CASE should_keep_alive(q, rslt, young)
  <2> DEFINE l == pbntf_lost_socket(q)
             r == pbntf_trans_outcome(l, "KEEP_ALIVE_IDLE", again)
  <2>1. l \in Contexts /\ Owes(l) /\ l.queued = 0
    <3>1. l \in Contexts /\ l.queued = 0 /\ l.trans = q.trans /\ l.owed = q.owed
      BY <1>1, LostTyped, LostCounts DEF Working
    <3> QED
      BY <1>1, <3>1 DEF Working, Owes
  <2> HIDE DEF l
  <2>2. r \in Contexts /\ Rested(r) /\ r.state # "RETRY"
    BY <2>1, ReportSettles, TransOutcomeTyped, StatesDiffer, NamedStates
  <2> HIDE DEF r
  <2>3. /\ Rested([r EXCEPT !.retry_after_close = FALSE])
        /\ [r EXCEPT !.retry_after_close = FALSE].state # "RETRY"
    BY <2>2 DEF Contexts, Rested, Placed, Owes
  <2>4. outcome_detected(p, rslt, young, again) = [r EXCEPT !.retry_after_close = FALSE]
    BY <1>2 DEF outcome_detected, q, r, l
  <2> QED
    BY <2>3, <2>4 DEF Settled
<1>3. CASE ~ should_keep_alive(q, rslt, young)
  <2> DEFINE c == [q EXCEPT !.started_while_kept_alive = FALSE]
  <2>1. c \in Contexts /\ Working(c) /\ c.retry_after_close = p.retry_after_close
    <3>1. c \in Contexts
      BY <1>1, SetStarted
    <3> QED
      BY <1>1, <3>1 DEF Contexts, Working, Owes
  <2> HIDE DEF c
  <2>2. outcome_detected(p, rslt, young, again) = close_connection(c, again)
    BY <1>3 DEF outcome_detected, q, c
  <2> QED
    BY <2>1, <2>2, WorkingCloses, CloseSettles
<1> QED
  BY <1>2, <1>3

\* ... which is where the run ends or goes on.
LEMMA OutcomeSettles ==
    ASSUME options \in OptionRecords, NEW p \in Contexts, Working(p), NEW rslt \in Results,
           Outcome(p, rslt)
    PROVE  Settles
<1>1. \E young \in BOOLEAN, again \in BOOLEAN :
        Break(outcome_detected(p, rslt, young, again))
  BY Restarts, Zenon DEF Outcome
<1> QED
  BY <1>1, OutcomeSettled, BreakSettles

\* A report for a context without a socket ends the run.
LEMMA ReportedSettles ==
    ASSUME options \in OptionRecords, NEW p \in Contexts, Owes(p), p.queued = 0,
           p.socket = "none", ~ p.ssl, Reported(p, "IDLE")
    PROVE  Settles
<1>1. \E again \in BOOLEAN : Return(pbntf_trans_outcome(p, "IDLE", again))
  BY Restarts, Zenon DEF Reported
<1> QED
  BY <1>1, ReportSettles, StatesDiffer, BreakSettles

\* The case PBS_READY: where no socket was made there is none, and the outcome is
\* reported at once.
LEMMA ReadySettles ==
    ASSUME "proxy_refused" \notin Environment, options \in OptionRecords, pb \in Contexts,
           Registered(pb), InRun(pb), Ready
    PROVE  Settles
<1>0. /\ pb.state = "READY" /\ Unregistered(pb) /\ pb.socket = "none" /\ ~ pb.ssl
      /\ pb.queued = 0 /\ Owes(pb)
  BY MoreStatesDiffer DEF Ready, Fsm, Registered, Unlisted, InRun, Placed, LeftOver
<1>1. PICK c \in pbpal_resolv_and_connect(pb) :
        LET Reg(s) == [pbntf_got_socket(c[2]) EXCEPT !.state = s]
            failed == [c[2] EXCEPT !.last_result = "ADDR_RESOLUTION_FAILED"]
        IN  \/ c[1] \in Sent /\ Break(start_timer(Reg("WAIT_DNS_SEND")))
            \/ c[1] \in Sent /\ Break(watch_in(start_timer(Reg("WAIT_DNS_RCV"))))
            \/ c[1] \in Made /\ Break(start_timer(Reg("WAIT_CONNECT")))
            \/ c[1] \in Made /\ Break(Reg("CONNECTED"))
            \/ /\ c[1] \notin Sent \cup Made
               /\ ~ (options.proxy_address /\ failed.socket = "tcp")
               /\ IF failed.retry_after_close
                  THEN Goto(close_connection(failed, FALSE))
                  ELSE Reported(failed, "IDLE")
  BY DEF Ready, Sent, Made
<1>2. /\ c[2] \in Contexts /\ Unregistered(c[2]) /\ Owes(c[2]) /\ c[2].queued = 0
           /\ ~ c[2].ssl
      /\ c[1] \in Sent \cup Made => c[2].socket # "none"
      /\ c[1] \notin Sent \cup Made => c[1] \in Failed
  BY <1>0, ConnectSteps DEF Step, Keeps, Unregistered, Owes
<1> DEFINE Reg(s) == [pbntf_got_socket(c[2]) EXCEPT !.state = s]
           failed == [c[2] EXCEPT !.last_result = "ADDR_RESOLUTION_FAILED"]
<1>3. ASSUME c[1] \in Sent \cup Made, NEW s \in Waits \ Passing
      PROVE  /\ Settled(Reg(s)) /\ Settled(start_timer(Reg(s)))
             /\ Settled(watch_in(start_timer(Reg(s))))
  <2>1. s \in States
    BY StatesCovered
  <2>2. Reg(s) \in Contexts
    BY <1>2, <2>1, GotTyped, SetState
  <2>3. Reg(s).state = s /\ Working(Reg(s))
    BY <1>2, <1>3, <2>2 DEF Contexts, Unregistered, pbntf_got_socket, Min2, Working, Owes
  <2> HIDE DEF Reg
  <2>4. start_timer(Reg(s)) \in Contexts /\ Working(start_timer(Reg(s)))
          /\ start_timer(Reg(s)).state = s
    BY <2>2, <2>3, TimerTyped, WorkingOn
  <2>5. Working(watch_in(start_timer(Reg(s)))) /\ watch_in(start_timer(Reg(s))).state = s
    BY <2>4, WorkingOn
  <2> QED
    BY <2>3, <2>4, <2>5, WaitingWorks
<1>4. /\ failed \in Contexts /\ Unregistered(failed) /\ Owes(failed) /\ failed.queued = 0
      /\ ~ failed.ssl /\ failed.socket = c[2].socket
      /\ failed.retry_after_close = c[2].retry_after_close
  <2>1. failed \in Contexts
    BY <1>2, SetResult, NamedResults
  <2> QED
    BY <1>2, <2>1 DEF Contexts, Unregistered, Owes
<1> HIDE DEF failed, Reg
<1>5. {"WAIT_DNS_SEND", "WAIT_DNS_RCV", "WAIT_CONNECT", "CONNECTED"}
        \subseteq Waits \ Passing
  BY DEF Waits, OnAConnection, Passing
<1>6. ASSUME failed.retry_after_close PROVE InRun(close_connection(failed, FALSE))
  <2>1. Closes(failed)
    BY <1>4 DEF Closes, Counted, Unregistered
  <2> QED
    BY <1>4, <1>6, <2>1, CloseSettles DEF Settled
<1>7. CASE /\ c[1] \notin Sent \cup Made
        /\ ~ (options.proxy_address /\ failed.socket = "tcp")
           /\ IF failed.retry_after_close THEN Goto(close_connection(failed, FALSE))
              ELSE Reported(failed, "IDLE")
  <2>1. failed.retry_after_close \/ failed.socket = "none"
    BY <1>2, <1>4, <1>7, ConnectSteps DEF LeavesNone
  <2>2. CASE failed.retry_after_close
    BY <1>6, <1>7, <2>2, BreakSettles
  <2>3. CASE ~ failed.retry_after_close
    BY <1>4, <1>7, <2>1, <2>3, ReportedSettles
  <2> QED
    BY <2>2, <2>3
<1>8. c[1] \in Sent \cup Made =>
         /\ Settled(start_timer(Reg("WAIT_DNS_SEND")))
         /\ Settled(start_timer(Reg("WAIT_CONNECT")))
         /\ Settled(watch_in(start_timer(Reg("WAIT_DNS_RCV")))) /\ Settled(Reg("CONNECTED"))
  BY <1>3, <1>5
<1> QED
  BY <1>1, <1>7, <1>8, BreakSettles DEF Reg, failed

\* What a step of the machine does with a context that waits on a socket
LEMMA GoesOn ==
    ASSUME NEW p \in Contexts, Working(p), NEW s \in Waits
    PROVE  LET q == [p EXCEPT !.state = s]
           IN  /\ q \in Contexts /\ Working(q) /\ q.state = s
               /\ InRun(q) /\ InRun(watch_in(q)) /\ InRun(watch_out(q))
               /\ s \notin Passing => Settled(q) /\ Settled(watch_in(q))
                    /\ Settled(watch_out(q))
<1> DEFINE q == [p EXCEPT !.state = s]
<1>1. s \in States
  BY StatesCovered
<1>2. q \in Contexts /\ Working(q)
  BY <1>1, SetState, WorkingOn
<1>3. q.state = s
  BY DEF Contexts
<1> HIDE DEF q
<1>4. /\ Working(watch_in(q)) /\ watch_in(q).state = s
      /\ Working(watch_out(q)) /\ watch_out(q).state = s
  BY <1>2, <1>3, WorkingOn
<1>5. /\ InRun(q) /\ InRun(watch_in(q)) /\ InRun(watch_out(q))
      /\ s \notin Passing => Settled(q) /\ Settled(watch_in(q)) /\ Settled(watch_out(q))
  BY <1>2, <1>3, <1>4, WaitingWorks
<1> QED
  BY <1>2, <1>3, <1>5 DEF q

\* The cases that resolve and connect
LEMMA ResolvingSettles ==
    ASSUME "udp_closed" \notin Environment, options \in OptionRecords, pb \in Contexts,
           InRun(pb), WaitDnsSend \/ WaitDnsRcv \/ WaitConnect
    PROVE  Settles
<1>0. /\ {"WAIT_DNS_SEND", "WAIT_DNS_RCV", "WAIT_CONNECT", "CONNECTED"} \subseteq Waits
      /\ {"WAIT_DNS_SEND", "WAIT_DNS_RCV", "WAIT_CONNECT"} \cap Passing = {}
  BY DEF Waits, OnAConnection, Passing
<1>1. Working(pb)
  BY <1>0, WaitingWorks DEF WaitDnsSend, WaitDnsRcv, WaitConnect, Fsm
<1>2. ASSUME NEW q \in Contexts, Keeps(pb, q), q.socket # "none"
      PROVE  /\ Working(q) /\ start_timer(q) \in Contexts /\ Working(start_timer(q))
             /\ pb.state \in {"WAIT_DNS_SEND", "WAIT_DNS_RCV", "WAIT_CONNECT"} => Settled(q)
  <2>1. Working(q) /\ q.state = pb.state
    BY <1>1, <1>2, KeepsWorking
  <2> QED
    BY <1>0, <2>1, WorkingOn, WaitingWorks, TimerTyped
<1>3. CASE WaitDnsSend
  <2>1. PICK c \in pbpal_resolv_and_connect(pb) :
          \/ c[1] \in Sent /\ Break(c[2])
          \/ c[1] \in Sent /\ Break(watch_in([c[2] EXCEPT !.state = "WAIT_DNS_RCV"]))
          \/ c[2].socket # "none" /\ Outcome(c[2], "ADDR_RESOLUTION_FAILED")
    BY <1>3 DEF WaitDnsSend, Sent
  <2>2. c[2] \in Contexts /\ Keeps(pb, c[2]) /\ (c[1] \in Sent => c[2].socket # "none")
    BY ConnectSteps DEF Step
  <2>3. CASE c[1] \in Sent /\ Break(c[2])
    <3>1. pb.state = "WAIT_DNS_SEND"
      BY <1>3 DEF WaitDnsSend, Fsm
    <3> QED
      BY <1>2, <2>2, <2>3, <3>1, BreakSettles
  <2>4. CASE c[1] \in Sent /\ Break(watch_in([c[2] EXCEPT !.state = "WAIT_DNS_RCV"]))
    <3>1. Working(c[2])
      BY <1>2, <2>2, <2>4
    <3>2. Settled(watch_in([c[2] EXCEPT !.state = "WAIT_DNS_RCV"]))
      BY <1>0, <2>2, <3>1, GoesOn
    <3> QED
      BY <2>4, <3>2, BreakSettles
  <2>5. CASE c[2].socket # "none" /\ Outcome(c[2], "ADDR_RESOLUTION_FAILED")
    BY <1>2, <2>2, <2>5, OutcomeSettles, NamedResults DEF Failures
  <2> QED
    BY <2>1, <2>3, <2>4, <2>5
<1>4. CASE WaitDnsRcv
  <2>1. PICK c \in pbpal_check_resolv_and_connect(pb) :
          \/ c[1] = "resolv_rcv_wouldblock" /\ Break(c[2])
          \/ c[1] \in Made /\ Break(watch_out([start_timer(c[2]) EXCEPT !.state
               = "WAIT_CONNECT"]))
          \/ c[1] \in Made /\ Goto(watch_out([start_timer(c[2]) EXCEPT !.state
               = "CONNECTED"]))
          \/ c[2].socket # "none" /\ Outcome(c[2], "ADDR_RESOLUTION_FAILED")
    BY <1>4 DEF WaitDnsRcv, Made
  <2>2. /\ c[2] \in Contexts /\ Keeps(pb, c[2])
        /\ c[1] \in Made \cup {"resolv_rcv_wouldblock"} => c[2].socket # "none"
    BY <1>1, AnswerSteps DEF Step, Working
  <2>3. CASE c[1] = "resolv_rcv_wouldblock" /\ Break(c[2])
    <3>1. pb.state = "WAIT_DNS_RCV"
      BY <1>4 DEF WaitDnsRcv, Fsm
    <3> QED
      BY <1>2, <2>2, <2>3, <3>1, BreakSettles
  <2>4. CASE c[1] \in Made
    <3>1. start_timer(c[2]) \in Contexts /\ Working(start_timer(c[2]))
      BY <1>2, <2>2, <2>4
    <3>2. /\ Settled(watch_out([start_timer(c[2]) EXCEPT !.state = "WAIT_CONNECT"]))
          /\ InRun(watch_out([start_timer(c[2]) EXCEPT !.state = "CONNECTED"]))
      BY <1>0, <3>1, GoesOn
    <3>3. Outcome(c[2], "ADDR_RESOLUTION_FAILED") => Settles
      BY <1>2, <2>2, <2>4, OutcomeSettles, NamedResults DEF Failures
    <3>4. c[1] # "resolv_rcv_wouldblock"
      BY <2>4 DEF Made
    <3> QED
      BY <2>1, <3>2, <3>3, <3>4, BreakSettles
  <2>6. CASE c[2].socket # "none" /\ Outcome(c[2], "ADDR_RESOLUTION_FAILED")
    BY <1>2, <2>2, <2>6, OutcomeSettles, NamedResults DEF Failures
  <2> QED
    BY <2>1, <2>3, <2>4, <2>6
<1>5. CASE WaitConnect
  <2>1. PICK c \in pbpal_check_connect(pb) :
          \/ Break(c[2]) \/ Goto([start_timer(c[2]) EXCEPT !.state = "CONNECTED"])
          \/ Outcome(c[2], "CONNECT_FAILED")
    BY <1>5 DEF WaitConnect
  <2>2. pb.state = "WAIT_CONNECT"
    BY <1>5 DEF WaitConnect, Fsm
  <2>3. c[2] \in Contexts /\ Keeps(pb, c[2]) /\ c[2].socket # "none"
    BY <1>1, CheckSteps DEF Working
  <2>4. Settled(c[2]) /\ Working(c[2])
    BY <1>2, <2>2, <2>3
  <2>5. InRun([start_timer(c[2]) EXCEPT !.state = "CONNECTED"])
    BY <1>0, <1>2, <2>3, GoesOn
  <2>6. Outcome(c[2], "CONNECT_FAILED") => Settles
    BY <2>3, <2>4, OutcomeSettles, NamedResults
  <2> QED
    BY <2>1, <2>4, <2>5, <2>6, BreakSettles
<1> QED
  BY <1>3, <1>4, <1>5

\* The states of a connection wait on its socket.
LEMMA WaitsOn ==
    /\ OnAConnection \ Unlisted \subseteq Waits
    /\ Sending \cup {"WAIT_TLS_CONNECT", "CONNECTED", "RX_HTTP_VER"}
         \subseteq Waits \ Passing
  BY DEF Waits, OnAConnection, Unlisted, CanStart, Sending, Reading, Passing

\* The start of a request
LEMMA SendRequestSettles ==
    ASSUME options \in OptionRecords, NEW p \in Contexts, Working(p), SendRequest(p)
    PROVE  Settles
<1>1. InRun([p EXCEPT !.state = "TX_GET"])
  BY GoesOn, WaitsOn DEF Sending
<1> QED
  BY <1>1, BreakSettles, OutcomeSettles, NamedResults DEF SendRequest

\* The start of TLS returns, so that nothing may be left to retry.
LEMMA StartTlsSettles ==
    ASSUME "tls_start_failure" \notin Environment, options \in OptionRecords,
           NEW p \in Contexts, Working(p), StartTls(p)
    PROVE  Settles
<1> DEFINE q == [p EXCEPT !.ssl = TRUE]
<1>1. q \in Contexts /\ Working(q)
  <2>1. q \in Contexts
    BY SetSsl
  <2> QED
    BY <2>1 DEF Contexts, Working, Owes
<1>2. \/ SendRequest(q)
      \/ \E dir \in {"in", "out"} :
            Return([q EXCEPT !.state = "WAIT_TLS_CONNECT",
                             !.events = IF q.polled > 0 THEN dir ELSE @])
      \/ \E again \in BOOLEAN :
            /\ ~ tls_failed(q).retry_after_close
            /\ Return(outcome_detected(tls_failed(q), "CONNECT_FAILED", FALSE, again))
      \/ Outcome(p, "INTERNAL_ERROR")
  BY Restarts, Zenon DEF StartTls
<1> HIDE DEF q
<1>3. ASSUME NEW dir \in {"in", "out"}
      PROVE  Rested([q EXCEPT !.state = "WAIT_TLS_CONNECT",
                              !.events = IF q.polled > 0 THEN dir ELSE @])
  <2> DEFINE r == [q EXCEPT !.events = IF q.polled > 0 THEN dir ELSE q.events]
  <2>1. (IF q.polled > 0 THEN dir ELSE q.events) \in {"in", "out"}
    BY <1>1, Fields
  <2>2. r \in Contexts
    BY <1>1, <2>1, SetEvents
  <2>3. Working(r)
    BY <1>1, <2>1 DEF Contexts, Working, Owes
  <2> HIDE DEF r
  <2>4. Settled([r EXCEPT !.state = "WAIT_TLS_CONNECT"])
        /\ [r EXCEPT !.state = "WAIT_TLS_CONNECT"].state = "WAIT_TLS_CONNECT"
    BY <2>2, <2>3, GoesOn, WaitsOn
  <2> QED
    BY <2>4 DEF Settled, r
<1>4. ASSUME NEW again \in BOOLEAN, ~ tls_failed(q).retry_after_close
      PROVE  Rested(outcome_detected(tls_failed(q), "CONNECT_FAILED", FALSE, again))
  <2>1. tls_failed(q) \in Contexts /\ Working(tls_failed(q))
    BY <1>1, TlsFailedTyped, KeepsWorking DEF Working
  <2>2. "CONNECT_FAILED" \in Failures /\ "CONNECT_FAILED" \in Results /\ FALSE \in BOOLEAN
    BY NamedResults DEF Failures
  <2> QED
    BY <1>4, <2>1, <2>2, OutcomeSettled DEF Settled
<1> QED
  BY <1>1, <1>2, <1>3, <1>4, SendRequestSettles, BreakSettles, OutcomeSettles, NamedResults

\* The cases that start TLS and send the request
LEMMA SendingSettles ==
    ASSUME {"tls_start_failure", "tx_get_error"} \cap Environment = {},
           options \in OptionRecords, pb \in Contexts, InRun(pb),
           Connected \/ WaitTlsConnect \/ TxGet \/ Transmit
    PROVE  Settles
<1>1. Working(pb) /\ pb.state \in Waits \ Passing
  BY WaitsOn, WaitingWorks DEF Connected, WaitTlsConnect, TxGet, Transmit, Fsm, Sending
<1>2. Return(pb) => Settles
  BY <1>1, WaitingWorks, BreakSettles
<1>3. CASE Connected
  <2> DEFINE p == [pb EXCEPT !.should_close = ~ options.use_http_keep_alive,
                             !.retry_after_close = FALSE]
  <2>1. p \in Contexts
    <3>1. (~ options.use_http_keep_alive) \in BOOLEAN
      BY DEF OptionRecords
    <3> QED
      BY <3>1, SetShouldClose, SetRetry
  <2>2. Working(p)
    BY <1>1, <2>1 DEF Contexts, Working, Owes
  <2>3. SendRequest(p) \/ StartTls(p)
    BY <1>3 DEF Connected
  <2> HIDE DEF p
  <2> QED
    BY <2>1, <2>2, <2>3, SendRequestSettles, StartTlsSettles
<1>4. CASE WaitTlsConnect
  <2>1. \/ SendRequest(pb) \/ \E dir \in {"in", "out"} : Break([pb EXCEPT !.events = dir])
        \/ Outcome(tls_failed(pb), "CONNECT_FAILED")
    BY <1>4 DEF WaitTlsConnect
  <2>2. \A dir \in {"in", "out"} : Settled([pb EXCEPT !.events = dir])
    <3> TAKE dir \in {"in", "out"}
    <3>1. [pb EXCEPT !.events = dir].state = pb.state /\ Working([pb EXCEPT !.events = dir])
      BY <1>1 DEF Contexts, Working, Owes
    <3> QED
      BY <1>1, <3>1, WaitingWorks
  <2>3. tls_failed(pb) \in Contexts /\ Working(tls_failed(pb))
    BY <1>1, TlsFailedTyped, KeepsWorking DEF Working
  <2> QED
    BY <1>1, <2>1, <2>2, <2>3, SendRequestSettles, BreakSettles, OutcomeSettles,
       NamedResults
<1>5. CASE TxGet
  <2>1. Return(pb) \/ \E s \in Sending : Goto([pb EXCEPT !.state = s])
    BY <1>5 DEF TxGet, Sending
  <2>2. \A s \in Sending : InRun([pb EXCEPT !.state = s])
    BY <1>1, GoesOn, WaitsOn
  <2> QED
    BY <1>2, <2>1, <2>2, BreakSettles
<1>6. CASE Transmit
  <2> DEFINE sent == pb.proxy_authorization_sent \/ (pb.state = "TX_ORIGIN" /\ pb.proxy_auth
                                                       /\ ~ pb.proxy_tunnel_established)
             p == [pb EXCEPT !.proxy_authorization_sent = sent]
             q == [p EXCEPT !.state = AfterSending(pb)]
  <2>1. sent \in BOOLEAN
    BY Fields
  <2>2. AfterSending(pb) \in Waits
    BY WaitsOn DEF AfterSending, Sending
  <2>3. p \in Contexts /\ Working(p)
    <3>1. p \in Contexts
      BY <2>1, SetAuthorized
    <3> QED
      BY <1>1, <3>1 DEF Contexts, Working, Owes
  <2>4. Return(pb) \/ Outcome(pb, "IO_ERROR") \/ Goto(watch_in(q)) \/ Goto(q)
    BY <1>6 DEF Transmit
  <2> HIDE DEF p
  <2>5. InRun(q) /\ InRun(watch_in(q))
    BY <2>2, <2>3, GoesOn
  <2> HIDE DEF q
  <2> QED
    BY <1>1, <1>2, <2>4, <2>5, BreakSettles, OutcomeSettles, NamedResults
<1> QED
  BY <1>3, <1>4, <1>5, <1>6

\* finish()
LEMMA FinishSettles ==
    ASSUME options \in OptionRecords, NEW p \in Contexts, Working(p), finish(p)
    PROVE  Settles
<1>1. InRun(RepeatRequest(p))
  <2> DEFINE made == p.http_code = 200
             q == [p EXCEPT !.retry_after_close = TRUE, !.tunnelled = @ \/ made,
                            !.proxy_tunnel_established = @ \/ made]
  <2>1. (p.tunnelled \/ made) \in BOOLEAN
          /\ (p.proxy_tunnel_established \/ made) \in BOOLEAN
    BY Fields
  <2>2. q \in Contexts
    BY <2>1, SetRetry, SetTunnelled, SetTunnel
  <2>3. Working(q) /\ q.retry_after_close
    BY <2>2 DEF Contexts, Working, Owes
  <2>4. RepeatRequest(p) = IF p.should_close THEN close_connection(q, FALSE)
                                             ELSE [q EXCEPT !.state = "CONNECTED"]
    BY DEF RepeatRequest
  <2> HIDE DEF q
  <2>5. InRun(close_connection(q, FALSE))
    BY <2>2, <2>3, WorkingCloses, CloseSettles DEF Settled
  <2>6. InRun([q EXCEPT !.state = "CONNECTED"])
    BY <2>2, <2>3, GoesOn, WaitsOn
  <2> QED
    BY <2>4, <2>5, <2>6
<1>2. /\ [p EXCEPT !.should_close = TRUE] \in Contexts
      /\ Working([p EXCEPT !.should_close = TRUE])
  <2>1. [p EXCEPT !.should_close = TRUE] \in Contexts
    BY SetShouldClose
  <2> QED
    BY <2>1 DEF Contexts, Working, Owes
<1>3. \/ Goto(RepeatRequest(p)) \/ Outcome([p EXCEPT !.should_close = TRUE], "HTTP_ERROR")
      \/ Outcome(p, "OK") \/ Outcome(p, "HTTP_ERROR") \/ Outcome(p, "REPLY_TOO_BIG")
  BY DEF finish
<1> QED
  BY <1>1, <1>2, <1>3, BreakSettles, OutcomeSettles, NamedResults

\* The cases that receive the reply
LEMMA ReceivingSettles ==
    ASSUME options \in OptionRecords, pb \in Contexts, InRun(pb),
           \/ RxHttpVer \/ RxHeaders \/ RxHeaderLine \/ RxBody \/ RxBodyWait
           \/ RxChunkLen \/ RxChunkLenLine \/ RxBodyChunk
    PROVE  Settles
<1> DEFINE Stops == {"RX_HTTP_VER", "RX_HEADER_LINE", "RX_BODY_WAIT", "RX_CHUNK_LEN_LINE",
                     "RX_BODY_CHUNK_WAIT"}
           Reads == Stops \cup {"RX_HEADERS", "RX_BODY", "RX_CHUNK_LEN", "RX_BODY_CHUNK"}
<1>1. Reads \subseteq Waits /\ Stops \cap Passing = {}
  BY DEF Waits, OnAConnection, Reading, Passing
<1>2. pb.state \in Reads
  BY DEF RxHttpVer, RxHeaders, RxHeaderLine, RxBody, RxBodyWait, RxChunkLen,
         RxChunkLenLine, RxBodyChunk, Fsm
<1>3. Working(pb)
  BY <1>1, <1>2, WaitingWorks
<1>4. \A s \in Reads : Goto([pb EXCEPT !.state = s]) => Settles
  BY <1>1, <1>3, GoesOn, BreakSettles
<1>5. pb.state \in Stops /\ Return(pb) => Settles
  BY <1>1, <1>3, WaitingWorks, BreakSettles
<1>6. /\ finish(pb) => Settles
      /\ \A rslt \in {"IO_ERROR", "REPLY_TOO_BIG", "AUTHENTICATION_FAILED"} :
            Outcome(pb, rslt) => Settles
  BY <1>3, FinishSettles, OutcomeSettles, NamedResults
<1>7. ASSUME NEW p \in Contexts, Working(p)
      PROVE  InRun([p EXCEPT !.state = "RX_HEADERS"])
  BY <1>1, <1>7, GoesOn
<1>8. /\ \A code \in {200, 407, 500} :
            InRun([pb EXCEPT !.http_code = code, !.state = "RX_HEADERS"])
      /\ InRun([pb EXCEPT !.state = "RX_HEADERS", !.should_close = TRUE])
      /\ InRun([pb EXCEPT !.proxy_auth = TRUE, !.state = "RX_HEADERS"])
  <2>1. \A code \in {200, 407, 500} :
            InRun([pb EXCEPT !.http_code = code, !.state = "RX_HEADERS"])
    <3> TAKE code \in {200, 407, 500}
    <3> DEFINE q == [pb EXCEPT !.http_code = code]
    <3>1. q \in Contexts
      BY DEF Contexts
    <3>2. Working(q)
      BY <1>3 DEF Contexts, Working, Owes
    <3> HIDE DEF q
    <3>3. InRun([q EXCEPT !.state = "RX_HEADERS"])
      BY <1>7, <3>1, <3>2
    <3> QED
      BY <3>3 DEF q
  <2>2. InRun([pb EXCEPT !.state = "RX_HEADERS", !.should_close = TRUE])
    <3> DEFINE q == [pb EXCEPT !.should_close = TRUE]
    <3>1. q \in Contexts
      BY SetShouldClose
    <3>2. Working(q)
      BY <1>3, <3>1 DEF Contexts, Working, Owes
    <3>3. [pb EXCEPT !.state = "RX_HEADERS", !.should_close = TRUE]
             = [q EXCEPT !.state = "RX_HEADERS"]
      BY DEF Contexts
    <3> HIDE DEF q
    <3> QED
      BY <1>7, <3>1, <3>2, <3>3
  <2>3. InRun([pb EXCEPT !.proxy_auth = TRUE, !.state = "RX_HEADERS"])
    <3> DEFINE q == [pb EXCEPT !.proxy_auth = TRUE]
    <3>1. q \in Contexts
      BY SetAuth
    <3>2. Working(q)
      BY <1>3, <3>1 DEF Contexts, Working, Owes
    <3> HIDE DEF q
    <3>3. InRun([q EXCEPT !.state = "RX_HEADERS"])
      BY <1>7, <3>1, <3>2
    <3> QED
      BY <3>3 DEF q
  <2> QED
    BY <2>1, <2>2, <2>3
<1>9. CASE RxHttpVer
  <2>1. Goto(close_kept_alive_connection(pb)) => Settles
    BY <1>3, WorkingCloses, CloseSettles, BreakSettles
  <2> QED
    BY <1>5, <1>6, <1>8, <1>9, <2>1, BreakSettles DEF RxHttpVer, Fsm
<1>10. CASE RxHeaderLine
  <2>1. ProxyAuthenticate(pb) => Settles
    BY <1>6, <1>8, BreakSettles DEF ProxyAuthenticate
  <2> QED
    BY <1>4, <1>5, <1>6, <1>8, <1>10, <2>1, BreakSettles DEF RxHeaderLine, Fsm
<1>11. CASE RxHeaders \/ RxBody \/ RxChunkLen \/ RxBodyChunk
  BY <1>4, <1>6, <1>11 DEF RxHeaders, RxBody, RxChunkLen, RxBodyChunk
<1>12. CASE RxBodyWait \/ RxChunkLenLine
  BY <1>4, <1>5, <1>6, <1>12 DEF RxBodyWait, RxChunkLenLine, Fsm
<1> QED
  BY <1>9, <1>10, <1>11, <1>12

\* The cases that start, retry and cancel
LEMMA EndingSettles ==
    ASSUME "queue_full" \notin Environment, options \in OptionRecords, pb \in Contexts,
           Registered(pb), InRun(pb),
           \/ Idle \/ Retry \/ WaitCancel \/ WaitCancelClose \/ WaitCancelDns
           \/ WaitCancelKeepalive \/ KeepAliveReady
    PROVE  Settles
<1>1. /\ Owes(pb)
      /\ pb.state \in Cancelling => Closes(pb)
      /\ pb.state \in Closed => pb.socket = "none" /\ ~ pb.ssl
      /\ pb.state \notin Cancelling => pb.queued = 0
  BY DEF InRun, Placed, LeftOver, Closes, Registered
<1>2. ASSUME NEW p \in Contexts, Owes(p), p.queued = 0, p.socket = "none", ~ p.ssl,
             NEW s \in {"READY", "RETRY", "WAIT_CANCEL_CLOSE"}
      PROVE  InRun([p EXCEPT !.state = s])
  <2> DEFINE q == [p EXCEPT !.state = s]
  <2>1. q.state = s /\ Owes(q) /\ q.queued = 0 /\ q.socket = "none" /\ ~ q.ssl
    BY <1>2 DEF Contexts, Owes
  <2> HIDE DEF q
  <2>2. InRun(q)
    BY <2>1, MoreStatesDiffer DEF InRun, Placed
  <2> QED
    BY <2>2 DEF q
<1>3. CASE Idle
  <2>1. pb.state = "IDLE" /\ Return(IdleCase(pb))
    BY <1>3 DEF Idle, Fsm
  <2> DEFINE q == IdleCase(pb)
  <2>2. q.state = "READY" /\ Owes(q) /\ q.queued = 1 /\ q.socket = "none" /\ ~ q.ssl
    BY <1>1, <2>1, IdleCaseKeeps, BoundsAssumption, MoreStatesDiffer DEF Min2, Owes
  <2> HIDE DEF q
  <2>3. Rested(q)
    BY <2>2, MoreStatesDiffer DEF Rested, Placed
  <2> QED
    BY <2>1, <2>3, BreakSettles DEF q
<1>4. CASE Retry
  <2>1. pb.state = "RETRY" /\ Goto([pb EXCEPT !.retry_after_close = FALSE,
          !.state = "READY"])
    BY <1>4 DEF Retry, Fsm
  <2> DEFINE q == [pb EXCEPT !.retry_after_close = FALSE]
  <2>2. q \in Contexts
    BY SetRetry
  <2>3. Owes(q) /\ q.queued = 0 /\ q.socket = "none" /\ ~ q.ssl
    BY <1>1, <2>1, <2>2, MoreStatesDiffer DEF Contexts, Owes
  <2> HIDE DEF q
  <2>4. InRun([q EXCEPT !.state = "READY"])
    BY <1>2, <2>2, <2>3
  <2> QED
    BY <2>1, <2>4, BreakSettles DEF q
<1>5. CASE WaitCancel
  <2>1. pb.state = "WAIT_CANCEL"
          /\ Goto([pbpal_close(pb) EXCEPT !.state = "WAIT_CANCEL_CLOSE"])
    BY <1>5 DEF WaitCancel, Fsm
  <2>2. InRun([pbpal_close(pb) EXCEPT !.state = "WAIT_CANCEL_CLOSE"])
    BY <1>1, <1>2, <2>1, MoreStatesDiffer, CloseEmpties
  <2> QED
    BY <2>1, <2>2, BreakSettles
<1>6. CASE WaitCancelClose
  <2>1. pb.socket = "none" /\ ~ pb.ssl /\ pb.queued = 0
    BY <1>1, <1>6, MoreStatesDiffer DEF WaitCancelClose, Fsm
  <2>2. InRun([pb EXCEPT !.state = "RETRY"])
    BY <1>1, <1>2, <2>1
  <2> QED
    BY <1>1, <1>6, <2>1, <2>2, ReportedSettles, BreakSettles DEF WaitCancelClose
<1>7. CASE WaitCancelDns
  <2> DEFINE q == [pb EXCEPT !.retry_after_close = TRUE]
  <2>1. pb.state = "WAIT_CANCEL_DNS" /\ Goto(close_connection(q, FALSE))
    BY <1>7 DEF WaitCancelDns, Fsm
  <2>2. q \in Contexts /\ q.retry_after_close
    BY SameButRetry
  <2>3. Closes(q)
    BY <1>1, <2>1, <2>2, MoreStatesDiffer DEF Contexts, Closes, Counted, Unregistered, Owes
  <2> HIDE DEF q
  <2>4. InRun(close_connection(q, FALSE))
    BY <2>2, <2>3, CloseSettles DEF Settled
  <2> QED
    BY <2>1, <2>4, BreakSettles
<1>8. CASE WaitCancelKeepalive
  BY <1>1, <1>8, MoreStatesDiffer, CloseSettles, BreakSettles DEF WaitCancelKeepalive, Fsm
<1>9. CASE KeepAliveReady
  <2>1. Unregistered(pb) /\ pb.socket # "none" /\ pb.queued = 0
    BY <1>1, <1>9, StatesDiffer, MoreStatesDiffer
       DEF KeepAliveReady, Fsm, Registered, Unlisted
  <2> DEFINE p == pbntf_got_socket(pb)
  <2>2. p \in Contexts /\ Working(p)
    <3>1. p \in Contexts
      BY GotTyped
    <3> QED
      BY <1>1, <2>1, <3>1 DEF pbntf_got_socket, Contexts, Working, Owes, Unregistered, Min2
  <2> HIDE DEF p
  <2> DEFINE q == [p EXCEPT !.state = "TX_GET"]
  <2>3. q \in Contexts /\ Working(q) /\ InRun(q)
    BY <2>2, GoesOn, WaitsOn DEF Sending
  <2>4. Goto(q) \/ Goto(close_kept_alive_connection(q))
    BY <1>9 DEF KeepAliveReady, p
  <2> HIDE DEF q
  <2> QED
    BY <2>3, <2>4, WorkingCloses, CloseSettles, BreakSettles
<1> QED
  BY <1>3, <1>4, <1>5, <1>6, <1>7, <1>8, <1>9

-----------------------------------------------------------------------------
(* The watcher between runs of the machine, and the application *)

\* Stopping a transaction in progress does not forget it.
LEMMA StopKeepsTrans ==
    ASSUME NEW p \in Contexts, NEW outcome, p.state # "IDLE", p.state # "KEEP_ALIVE_IDLE"
    PROVE  Stopped(p, outcome).trans = p.trans
  BY Fields DEF Contexts, pbpal_dns_rotate_server, Stopped

\* What stopping does to a transaction that waits
LEMMA StopsWaiting ==
    ASSUME NEW p \in Contexts, NEW outcome \in {"TIMEOUT", "CANCELLED"},
           p.state \notin {"IDLE", "WAIT_CANCEL", "WAIT_CANCEL_CLOSE"}
    PROVE  LET q == pbnc_stop(p, outcome)
           IN  /\ q.state \in Cancelling
               /\ q.state = "WAIT_CANCEL_DNS"
                    => p.state \in {"WAIT_DNS_SEND", "WAIT_DNS_RCV"}
               /\ q.state = "WAIT_CANCEL_KEEPALIVE" =>
                     p.state \in {"RX_HTTP_VER", "KEEP_ALIVE_IDLE"} /\ outcome = "TIMEOUT"
               /\ q.trans = (p.trans /\ p.state # "KEEP_ALIVE_IDLE")
               /\ q.owed = p.owed /\ q.socket = p.socket /\ q.ssl = p.ssl
               /\ q.polled = p.polled /\ q.timers = p.timers
               /\ q.queued = IF p.queued > 0 THEN p.queued ELSE 1
<1> DEFINE q == Stopped(p, outcome)
<1>1. /\ q.state \in Cancelling
      /\ q.state = "WAIT_CANCEL_DNS" => p.state \in {"WAIT_DNS_SEND", "WAIT_DNS_RCV"}
      /\ q.state = "WAIT_CANCEL_KEEPALIVE" =>
            p.state \in {"RX_HTTP_VER", "KEEP_ALIVE_IDLE"} /\ outcome = "TIMEOUT"
      /\ q.owed = p.owed /\ q.socket = p.socket /\ q.ssl = p.ssl
      /\ q.polled = p.polled /\ q.timers = p.timers /\ q.queued = p.queued
  BY DEF Stopped, RotationsLeft, pbpal_dns_rotate_server, Contexts, Cancelling
<1>2. q.trans = (p.trans /\ p.state # "KEEP_ALIVE_IDLE")
  <2>1. p.trans \in BOOLEAN /\ q.trans \in BOOLEAN
    BY StoppedTyped, Fields
  <2>2. CASE p.state = "KEEP_ALIVE_IDLE"
    <3>1. ~ q.trans
      BY <2>2 DEF Stopped, Contexts
    <3> QED
      BY <2>1, <2>2, <3>1
  <2>3. CASE p.state # "KEEP_ALIVE_IDLE"
    <3>1. q.trans = p.trans
      BY <2>3, StopKeepsTrans
    <3> QED
      BY <2>1, <2>3, <3>1
  <2> QED
    BY <2>2, <2>3
<1>3. q \in Contexts
  BY StoppedTyped
<1>4. pbnc_stop(p, outcome) = pbntf_requeue_for_processing(q)
  BY DEF pbnc_stop
<1> HIDE DEF q
<1>5. pbntf_requeue_for_processing(q) = [q EXCEPT !.queued = IF q.queued > 0 THEN q.queued
        ELSE 1]
  BY DEF pbntf_requeue_for_processing
<1> QED
  BY <1>1, <1>2, <1>3, <1>4, <1>5 DEF Contexts

\* ... and to one that was stopped before, or to none
LEMMA StopsStopped ==
    ASSUME NEW p \in Contexts, NEW outcome \in {"TIMEOUT", "CANCELLED"},
           p.state \in {"IDLE", "WAIT_CANCEL", "WAIT_CANCEL_CLOSE"}
    PROVE  LET q == pbnc_stop(p, outcome)
           IN  /\ q.state = p.state /\ q.trans = (p.trans /\ p.state # "IDLE")
               /\ q.owed = p.owed /\ q.socket = p.socket /\ q.ssl = p.ssl
               /\ q.polled = p.polled /\ q.timers = p.timers /\ q.queued = p.queued
  BY DEF pbnc_stop, Stopped, Contexts

\* The watcher takes an entry, the monitor or an event.
LEMMA TurnsWatch ==
    ASSUME options \in OptionRecords, pb \in Contexts, Registered(pb), Watched,
           "queue_full" \notin Environment,
           Pop \/ Lock \/ Poll \/ PollEnqueue
    PROVE  Watched'
<1>0. pb.queued \in Nat /\ MaxEntries \in Nat /\ MaxEntries > 1
  BY Fields, BoundsAssumption
<1> SUFFICES /\ watcher' = "fsm" => InRun(pb')
             /\ watcher' = "idle" => Rested(pb')
             /\ watcher' = "popped" =>
                   /\ Owes(pb') /\ Placed(pb') /\ pb'.state \notin CanStart \cup Passing
                   /\ pb'.queued = 0 \/ LeftOver(pb')
             /\ watcher' = "requeue" =>
                   /\ Owes(pb') /\ Placed(pb') /\ pb'.state \notin CanStart \cup Passing
                   /\ pb'.polled > 0
                   /\ pb'.queued = 0 \/ LeftOver(pb')
  BY DEF Watched, InRun, Rested, Owes, Placed, LeftOver
<1>1. CASE Pop
  <2>1. /\ Rested(pb) /\ pb.queued > 0 /\ pb' = [pb EXCEPT !.queued = @ - 1]
             /\ watcher' = "popped"
    BY <1>1 DEF Pop, Watched
  <2>2. /\ Owes(pb) /\ Placed(pb) /\ pb.state \notin CanStart \cup Passing
        /\ pb.queued = 1 \/ (pb.queued = 2 /\ pb.state \in Cancelling /\ pb.socket # "none")
    BY <1>0, <2>1 DEF Rested
  <2>3. /\ Owes(pb') /\ Placed(pb') /\ pb'.state = pb.state /\ pb'.socket = pb.socket
        /\ pb'.queued = pb.queued - 1
    BY <2>1, <2>2 DEF Contexts, Owes, Placed
  <2> QED
    BY <1>0, <2>1, <2>2, <2>3 DEF LeftOver
<1>2. CASE Lock
  BY <1>2, StatesDiffer DEF Lock, Watched, InRun
<1>3. CASE Poll
  <2>1. /\ Rested(pb) /\ pb.queued = 0 /\ pb.polled > 0 /\ pb' = pb /\ watcher' = "requeue"
    BY <1>3 DEF Poll, Watched
  <2>2. pb.state \notin CanStart
    BY <2>1 DEF Registered, Unlisted, Unregistered
  <2> QED
    BY <2>1, <2>2 DEF Rested
<1>4. CASE PollEnqueue
  <2>1. /\ Owes(pb) /\ Placed(pb) /\ pb.state \notin CanStart \cup Passing
        /\ pb.queued = 0 \/ LeftOver(pb)
        /\ pb' = pbntf_enqueue_for_processing(pb) /\ watcher' = "idle"
    BY <1>4 DEF PollEnqueue, Watched
  <2>2. /\ Owes(pb') /\ Placed(pb') /\ pb'.state = pb.state /\ pb'.socket = pb.socket
        /\ pb'.queued = pb.queued + 1
    BY <1>0, <2>1 DEF pbntf_enqueue_for_processing, Contexts, Owes, Placed, Min2, LeftOver
  <2>3. Rested(pb')
    BY <1>0, <2>1, <2>2 DEF Rested, LeftOver
  <2> QED
    BY <2>1, <2>3
<1> QED
  BY <1>1, <1>2, <1>3, <1>4

\* The application starts a transaction.
LEMMA StartWatches ==
    ASSUME options \in OptionRecords, pb \in Contexts, Watched,
           watcher \in {"idle", "popped", "fsm", "requeue"},
           "queue_full" \notin Environment, Start
    PROVE  watcher' = "idle" /\ Rested(pb')
<1>1. /\ watcher = "idle" /\ watcher' = watcher /\ pb.state \in CanStart /\ pb' = start(pb)
  BY DEF Start, Watched
<1>2. pb.owed = 0 /\ pb.queued = 0 /\ (pb.state = "IDLE" => pb.socket = "none" /\ ~ pb.ssl)
  BY <1>1, MoreStatesDiffer DEF Watched, Rested, Placed
<1> DEFINE q == start(pb)
<1>3. /\ q.state = IF pb.state = "IDLE" THEN "READY" ELSE "KEEP_ALIVE_READY"
      /\ q.socket = pb.socket /\ q.ssl = pb.ssl /\ q.queued = 1 /\ q.owed = 1 /\ q.trans
  BY <1>2, StartKeeps, BoundsAssumption DEF Min2
<1> HIDE DEF q
<1>4. Rested(q)
  BY <1>2, <1>3, MoreStatesDiffer DEF Rested, Placed, Owes
<1> QED
  BY <1>1, <1>4 DEF q

\* A timer runs down: the connection is still there, and the queue brings the machine to it.
LEMMA ExpireWatches ==
    ASSUME options \in OptionRecords, pb \in Contexts, Registered(pb), Watched,
           "queue_full" \notin Environment, Expire
    PROVE  watcher' = "idle" /\ Rested(pb')
<1>0. pb.queued \in Nat
  BY Fields, BoundsAssumption
<1> DEFINE p == [pb EXCEPT !.timers = @ - 1]
           q == pbnc_stop(p, "TIMEOUT")
<1>1. /\ watcher' = "idle" /\ pb' = q /\ Rested(pb) /\ pb.timers > 0
  BY DEF Expire, Watched
<1>2. /\ p \in Contexts /\ p.state = pb.state /\ p.socket = pb.socket
           /\ p.queued = pb.queued
      /\ p.trans = pb.trans /\ p.owed = pb.owed
  <2>1. pb.timers - 1 \in 0 .. 2
    BY <1>1, Fields
  <2>2. p \in Contexts
    BY <2>1, SetTimers
  <2> QED
    BY <2>2 DEF Contexts
<1>3. pb.state \notin CanStart \cup Passing
  BY <1>1 DEF Rested, Registered, Unlisted, Unregistered
<1>4. Owes(pb) /\ Placed(pb)
  BY <1>1, <1>3 DEF Rested
<1> HIDE DEF p
<1>5. CASE pb.state = "WAIT_CANCEL"
  <2>1. /\ q.state = "WAIT_CANCEL" /\ q.owed = p.owed /\ q.trans = p.trans
        /\ q.socket = p.socket /\ q.queued = p.queued
    BY <1>2, <1>5, StopsStopped, Fields
  <2> HIDE DEF q
  <2>2. Rested(q)
    BY <1>0, <1>1, <1>2, <1>4, <1>5, <2>1, MoreStatesDiffer DEF Rested, Placed, Owes
  <2> QED
    BY <1>1, <2>2
<1>6. CASE pb.state # "WAIT_CANCEL"
  <2>1. p.state \notin {"IDLE", "KEEP_ALIVE_IDLE", "WAIT_CANCEL", "WAIT_CANCEL_CLOSE"}
    BY <1>2, <1>3, <1>6, StatesDiffer, MoreStatesDiffer
  <2>2. /\ q.state \in Cancelling /\ q.owed = p.owed /\ q.socket = p.socket
        /\ q.queued = IF p.queued > 0 THEN p.queued ELSE 1
        /\ q.state = "WAIT_CANCEL_DNS" => p.state \in {"WAIT_DNS_SEND", "WAIT_DNS_RCV"}
        /\ q.state = "WAIT_CANCEL_KEEPALIVE"
             => p.state \in {"RX_HTTP_VER", "KEEP_ALIVE_IDLE"}
        /\ q.trans = (p.trans /\ p.state # "KEEP_ALIVE_IDLE")
    BY <1>2, <2>1, StopsWaiting
  <2>3. q.trans = p.trans
    BY <1>2, <2>1, <2>2, Fields
  <2> HIDE DEF q
  <2>4. q.state \in {"WAIT_CANCEL_DNS", "WAIT_CANCEL_KEEPALIVE"} => pb.state \in Waits
    BY <1>2, <2>1, <2>2, WaitsOn DEF Waits
  <2>5. Placed(q)
    BY <1>2, <1>4, <2>2, <2>4, MoreStatesDiffer DEF Placed
  <2>6. Owes(q)
    BY <1>2, <1>4, <2>2, <2>3 DEF Owes
  <2>7. q.queued > 0 /\ (q.queued < 2 \/ (q.queued = 2 /\ q.socket # "none"))
    BY <1>0, <1>1, <1>2, <1>3, <2>2 DEF Rested
  <2>8. Rested(q)
    BY <2>2, <2>5, <2>6, <2>7, MoreStatesDiffer DEF Rested
  <2> QED
    BY <1>1, <2>8
<1> QED
  BY <1>5, <1>6

\* The application cancels, at any point of the watcher's loop.
LEMMA CancelWatches ==
    ASSUME options \in OptionRecords, pb \in Contexts, Registered(pb), Watched,
           "cancel_after_pop" \notin Environment, Cancel
    PROVE  Watched'
<1>0. pb.queued \in Nat /\ pb.polled \in Nat
  BY Fields, BoundsAssumption
<1> DEFINE q == pbnc_stop(pb, "CANCELLED")
<1>1. /\ watcher' = watcher /\ watcher # "fsm" /\ pb' = [q EXCEPT !.cancelled = pb.owed = 1]
      /\ watcher = "popped" => pb.state # "READY"
  BY DEF Cancel
<1>2. q \in Contexts
  BY StoppedTyped
<1>3. CASE pb.state \in {"IDLE", "WAIT_CANCEL", "WAIT_CANCEL_CLOSE"}
  <2>1. /\ q.state = pb.state /\ q.owed = pb.owed
             /\ q.trans = (pb.trans /\ pb.state # "IDLE")
        /\ q.socket = pb.socket /\ q.ssl = pb.ssl
        /\ q.polled = pb.polled /\ q.timers = pb.timers /\ q.queued = pb.queued
    BY <1>3, StopsStopped
  <2>2. pb.state # "IDLE" => q.trans = pb.trans
    BY <2>1, Fields
  <2> HIDE DEF q
  <2>3. /\ Placed(pb) => Placed(pb')
        /\ pb.state # "IDLE" /\ Owes(pb) => Owes(pb')
        /\ LeftOver(pb) => LeftOver(pb')
        /\ pb'.state = pb.state /\ pb'.queued = pb.queued /\ pb'.socket = pb.socket
        /\ pb'.polled = pb.polled /\ pb'.owed = pb.owed
    BY <1>1, <1>2, <2>1, <2>2 DEF Contexts, Placed, Owes, LeftOver
  <2>4. Rested(pb) => Rested(pb')
    BY <2>3, StatesDiffer DEF Rested
  <2> QED
    BY <1>1, <2>3, <2>4, StatesDiffer DEF Watched
<1>4. CASE pb.state \notin {"IDLE", "WAIT_CANCEL", "WAIT_CANCEL_CLOSE"}
  <2>1. /\ q.state \in Cancelling /\ q.owed = pb.owed /\ q.socket = pb.socket
        /\ q.queued = IF pb.queued > 0 THEN pb.queued ELSE 1
        /\ q.polled = pb.polled
        /\ q.state = "WAIT_CANCEL_DNS" => pb.state \in {"WAIT_DNS_SEND", "WAIT_DNS_RCV"}
        /\ q.state # "WAIT_CANCEL_KEEPALIVE"
        /\ q.trans = (pb.trans /\ pb.state # "KEEP_ALIVE_IDLE")
    BY <1>4, StopsWaiting
  <2>2. pb.state # "KEEP_ALIVE_IDLE" => q.trans = pb.trans
    BY <2>1, Fields
  <2> HIDE DEF q
  <2>3. /\ pb'.state = q.state /\ pb'.owed = q.owed /\ pb'.socket = q.socket
        /\ pb'.queued = q.queued /\ pb'.polled = q.polled /\ pb'.trans = q.trans
    BY <1>1, <1>2 DEF Contexts
  <2>4. pb.state \in {"WAIT_DNS_SEND", "WAIT_DNS_RCV"} => pb.state \in Waits
    BY DEF Waits
  <2>5. Placed(pb) => Placed(pb')
    BY <2>1, <2>3, <2>4, MoreStatesDiffer DEF Placed
  <2>6. /\ Owes(pb) /\ pb.state # "KEEP_ALIVE_IDLE" => Owes(pb')
        /\ pb.owed = 0 /\ pb.state = "KEEP_ALIVE_IDLE" => Owes(pb')
    BY <2>1, <2>2, <2>3 DEF Owes
  <2>7. Rested(pb) => Rested(pb')
    BY <1>0, <1>4, <2>1, <2>3, <2>5, <2>6, StatesDiffer, MoreStatesDiffer DEF Rested
  <2>8. ASSUME watcher \in {"popped", "requeue"}
        PROVE  /\ Owes(pb') /\ Placed(pb') /\ LeftOver(pb')
               /\ watcher = "requeue" => pb'.polled > 0
    <3>1. /\ Owes(pb) /\ Placed(pb) /\ pb.state \notin CanStart \cup Passing
          /\ pb.queued = 0 \/ LeftOver(pb)
          /\ watcher = "requeue" => pb.polled > 0
      BY <2>8 DEF Watched
    <3>2. pb.socket # "none"
      <4>1. CASE pb.state = "READY"
        BY <1>1, <2>8, <3>1, <4>1 DEF Registered, Unlisted, Unregistered
      <4>2. CASE pb.state \in Waits \cup {"WAIT_CANCEL_DNS", "WAIT_CANCEL_KEEPALIVE"}
        BY <3>1, <4>2 DEF Placed
      <4>3. CASE pb.state = "KEEP_ALIVE_READY"
        BY <4>3, StatesDiffer DEF Registered
      <4>4. pb.state \in States
        BY Fields
      <4> QED
        BY <1>4, <3>1, <4>1, <4>2, <4>3, <4>4, StatesCovered, StatesDiffer, MoreStatesDiffer
    <3> QED
      BY <1>0, <2>1, <2>3, <2>5, <2>6, <3>1, <3>2, StatesDiffer DEF LeftOver
  <2> QED
    BY <1>1, <2>1, <2>3, <2>7, <2>8, StatesDiffer, MoreStatesDiffer DEF Watched
<1> QED
  BY <1>3, <1>4

-----------------------------------------------------------------------------
(* The invariant and the properties *)
\* The events these properties do not survive (README, section 5)
Excluded == {"tx_get_error", "tls_start_failure", "cancel_after_pop", "proxy_refused",
           "queue_full", "udp_closed"}

\* Every step leaves the context for somebody to take care of.
LEMMA WatchedStep ==
    ASSUME Excluded \cap Environment = {}
    PROVE  TypeOK /\ Registered(pb) /\ Watched /\ [Next]_vars => Watched'
<1> SUFFICES ASSUME TypeOK, Registered(pb), Watched, [Next]_vars PROVE Watched'
  OBVIOUS
<1>1. /\ options \in OptionRecords /\ pb \in Contexts
      /\ watcher \in {"idle", "popped", "fsm", "requeue"}
  BY OptionsAssumption DEF TypeOK
<1>2. /\ "tx_get_error" \notin Environment /\ "tls_start_failure" \notin Environment
      /\ "cancel_after_pop" \notin Environment /\ "proxy_refused" \notin Environment
      /\ "queue_full" \notin Environment /\ "udp_closed" \notin Environment
      /\ {"tls_start_failure", "tx_get_error"} \cap Environment = {}
  BY DEF Excluded
<1>3. Settles => Watched'
  BY DEF Settles, Watched, InRun, Rested, Owes, Placed, LeftOver
<1>4. CASE Run
  <2>1. InRun(pb)
    BY <1>4 DEF Run, Idle, Retry, Ready, WaitDnsSend, WaitDnsRcv, WaitConnect, Connected,
       WaitTlsConnect, TxGet, Transmit, RxHttpVer, RxHeaders, RxHeaderLine, RxBody,
           RxBodyWait,
       RxChunkLen, RxChunkLenLine, RxBodyChunk, WaitCancel, WaitCancelClose, WaitCancelDns,
       WaitCancelKeepalive, KeepAliveReady, Fsm, Watched
  <2> QED
    BY <1>1, <1>2, <1>3, <1>4, <2>1, ReadySettles, ResolvingSettles, SendingSettles,
       ReceivingSettles, EndingSettles DEF Run
<1>5. CASE Pop \/ Lock \/ Poll \/ PollEnqueue
  BY <1>1, <1>2, <1>5, TurnsWatch
<1>6. CASE Expire \/ Start
  <2>1. watcher' = "idle" /\ Rested(pb')
    BY <1>1, <1>2, <1>6, ExpireWatches, StartWatches
  <2> QED
    BY <1>3, <2>1 DEF Settles
<1>7. CASE Cancel
  BY <1>1, <1>2, <1>7, CancelWatches
<1>8. CASE UNCHANGED vars
  BY <1>8 DEF vars, Watched, InRun, Rested, Owes, Placed, LeftOver
<1> QED
  BY <1>4, <1>5, <1>6, <1>7, <1>8 DEF Next

\* The inductive invariant holds.
LEMMA WatchedAlways ==
    ASSUME Excluded \cap Environment = {}
    PROVE  Spec => [](TypeOK /\ Registered(pb) /\ Watched)
<1>1. "udp_closed" \notin Environment
  BY DEF Excluded
<1>2. Init => Registered(pb) /\ Watched
  BY StatesDiffer, MoreStatesDiffer
     DEF Init, Registered, Counted, Unregistered, Watched, Rested, Placed
<1> QED
  BY <1>1, <1>2, RegisteredStep, WatchedStep, InitTyped, TypedStep, PTL DEF Spec

\* Exactly one outcome is owed for every transaction until it is reported, where
\* nothing of Excluded happens (core/pubnub_netcore.c, outcome_detected and its callers).
THEOREM OutcomesOwed ==
    ASSUME Excluded \cap Environment = {}
    PROVE  Spec => []OneOutcome
<1>1. TypeOK /\ Watched => OneOutcome
  <2> SUFFICES ASSUME TypeOK, Watched, Resting PROVE
             /\ pb.state \in CanStart => pb.owed = 0
             /\ pb.state \notin CanStart /\ pb.trans => pb.owed = 1
    BY DEF OneOutcome
  <2> QED
    BY DEF TypeOK, Watched, Resting, Rested, Owes
<1> QED
  BY <1>1, WatchedAlways, PTL

\* A context without a transaction is in no list and has no socket but one kept
\* alive, where nothing of Excluded happens (core/pubnub_netcore.c:417-446 and 541-546).
THEOREM Forgotten ==
    ASSUME Excluded \cap Environment = {}
    PROVE  Spec => []IdleIsForgotten
<1>1. TypeOK /\ Registered(pb) /\ Watched => IdleIsForgotten
  <2> SUFFICES ASSUME TypeOK, Registered(pb), Watched, Resting PROVE
         /\ pb.state \in CanStart =>
               pb.polled = 0 /\ pb.timers = 0 /\ pb.queued = 0 /\ watcher # "popped"
         /\ pb.state \in {"IDLE", "READY"} => pb.socket = "none" /\ ~ pb.ssl
         /\ pb.state = "KEEP_ALIVE_IDLE" => pb.socket = "tcp"
    BY DEF IdleIsForgotten
  <2>1. Placed(pb)
    BY DEF TypeOK, Watched, Resting, Rested
  <2>2. pb.state \in CanStart => watcher = "idle" /\ pb.queued = 0
    BY DEF TypeOK, Watched, Resting, Rested
  <2> QED
    BY <2>1, <2>2, StatesDiffer, MoreStatesDiffer
       DEF Registered, Unlisted, Unregistered, Placed
<1> QED
  BY <1>1, WatchedAlways, PTL

\* Every open transaction has a queue entry or a timer that will wake it, where
\* nothing of Excluded happens (core/pubnub_netcore.c, every case that breaks).
THEOREM AlwaysWoken ==
    ASSUME Excluded \cap Environment = {}
    PROVE  Spec => []NeverStranded
<1>1. TypeOK /\ Watched => NeverStranded
  <2> SUFFICES ASSUME TypeOK, Watched, watcher = "idle", pb.state \notin CanStart
               PROVE  pb.queued > 0 \/ pb.timers > 0
    BY DEF NeverStranded, Resting, TypeOK
  <2>1. /\ Placed(pb) /\ pb.state \notin Passing
        /\ pb.state \in {"READY", "KEEP_ALIVE_READY"} \cup Cancelling => pb.queued > 0
    BY DEF Watched, Rested
  <2>2. pb.state \in States
    BY Fields DEF TypeOK
  <2>3. pb.state \in Waits \/ pb.state \in {"READY", "KEEP_ALIVE_READY"} \cup Cancelling
    BY <2>1, <2>2, StatesCovered, StatesDiffer, MoreStatesDiffer DEF Closed
  <2> QED
    BY <2>1, <2>3 DEF Placed
<1> QED
  BY <1>1, WatchedAlways, PTL
==============================================================================
