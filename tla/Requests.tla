------------------------------ MODULE Requests ------------------------------
(***************************************************************************)
(* The life of the requests of one context (callback interface): the API   *)
(* calls that start them, the watcher thread that sends them and reads the  *)
(* replies, pbntf_trans_outcome, the automatic retries and their timer      *)
(* thread, pubnub_cancel, pubnub_set_retry_configuration and pubnub_free.   *)
(*                                                                          *)
(* Connecting, sending and receiving are one step each (Netcore.tla has     *)
(* them in full).  The context's monitor and the retry timer's mutw are     *)
(* modelled; both are recursive.  Work done in one go under them is one     *)
(* step.  A call made in a callback runs under the monitor of the thread    *)
(* that reports the outcome: it is an application's call right after it.    *)
(***************************************************************************)
EXTENDS ApiCalls, Integers, FiniteSets

CONSTANTS
    NULL,          \* no thread, no configuration
    Calls,         \* the API calls the application makes
    Configurations,\* the retry configurations the application sets
    Replies,       \* status code and Retry-After header of the replies
    Jitters,       \* values of random() % 1000
    MaxCalls,      \* bound: calls made
    MaxAttempts    \* bound: retries in a row

ASSUME CallsAssumption == Calls \subseteq API
\* Values of http_code, of random() % 1000 and of a uint16_t
ThreeDigits == 0..999
UInt16 == 0..2^16 - 1
ASSUME RepliesAssumption == Replies \subseteq [code : ThreeDigits, after : UInt16]
ASSUME JittersAssumption == Jitters \subseteq ThreeDigits
ASSUME ConfigurationsAssumption ==
    Configurations \subseteq [policy : {"linear", "exponential"}, max_retries : Nat,
                              minimum_delay : Nat, maximum_delay : Nat,
                              excluded : SUBSET STRING]
ASSUME BoundsAssumption == MaxCalls \in Nat /\ MaxAttempts \in Nat

VARIABLES
    state,        \* pb->state, with the states of a running transaction in four phases
    trans,        \* pb->trans
    method,       \* pb->method
    gzip,         \* pb->core.gzip_msg_len != 0
    http_buf,     \* whose request pb->core.http_buf holds, or "REPLY"
    http,         \* pb->http_code and pb->http_header_retry_after
    last_result,  \* pb->core.last_result
    timed,        \* the context is in the watcher's list of timers
    config,       \* pb->core.retry_configuration
    retry_count,  \* pb->core.http_retry_count
    timer,        \* pb->core.retry_timer: allocated, and its fields
    monitor,      \* owner of pb->monitor
    mutw,         \* owner of the timer's mutw
    pc,           \* where each thread is
    sent,         \* the request last put on the wire
    calls,        \* number of calls made
    \* History
    asked,        \* the call the context was last asked for
    packed,       \* whether that call compressed its message
    pending,      \* a call, or a cancel, waits for its callback
    unasked,      \* a callback came that nobody waited for
    reply,        \* whose answer the reply buffer holds
    kept,         \* a failed call returned with the monitor locked
    spoiled       \* what the code is known to get wrong about the request

context == <<state, trans, method, gzip, http_buf, http, last_result, timed>>
retries == <<config, retry_count, timer>>
history == <<asked, packed, pending, unasked, reply, kept, spoiled>>
vars == <<context, retries, monitor, mutw, pc, sent, calls, history>>

Threads == {"app", "watcher", "timer"}
ASSUME NullAssumption == NULL \notin Threads
Labels == {"idle", "outcome", "start", "create", "free", "join", "report",
           "none", "born", "sleeping", "awake", "stop"}
Running == {"STARTED", "CONNECT", "SENT", "RX"}
Usable == {"IDLE", "KEEP_ALIVE_IDLE", "WAIT_RETRY", "WAIT_CANCEL"} \cup Running
NoRequest == [path |-> "NONE", method |-> "GET", packed |-> FALSE]
TimerRecord == [allocated : BOOLEAN, running : BOOLEAN, delay : UInt16, thread : BOOLEAN]
NoTimer == [allocated |-> FALSE, running |-> FALSE, delay |-> 0, thread |-> FALSE]

pbnc_can_start_transaction == state \in {"IDLE", "KEEP_ALIVE_IDLE"}

\* A thread that holds the monitor gives it back; one a failed call keeps stays
Released == IF kept THEN "app" ELSE NULL
Idle(t) == pc[t] = "idle"
Goto(t, l) == pc' = [pc EXCEPT ![t] = l]
\* A thread ends what it did under the monitor
Return(t) == /\ monitor' = Released
             /\ Goto(t, IF t = "timer" THEN "stop" ELSE "idle")

\* Mutant: the method of a transaction outlives it
Ends_keeps_method(t, result, idle) ==
    /\ last_result' = result
    /\ state' = idle /\ UNCHANGED method
    /\ sent' = NoRequest /\ timed' = FALSE
    /\ spoiled' = spoiled \ {"method"}
    /\ monitor' = t /\ Goto(t, "outcome")

\* The transaction of a context ends in thread t: PBNTF_TRANS_OUTCOME_COMMON
Ends(t, result, idle) ==
    /\ last_result' = result
    /\ state' = idle /\ method' = "GET"
    /\ sent' = NoRequest /\ timed' = FALSE
    /\ spoiled' = spoiled \ {"method"}
    /\ monitor' = t /\ Goto(t, "outcome")

-----------------------------------------------------------------------------
(* The calls of the application *)

\* The application may call, and gets the monitor
AppMay == Idle("app") /\ state \in Usable /\ monitor \in {NULL, "app"}

\* pbgzip_compress: the length is zero unless the message packs well enough
pbgzip_compress(c, fits) == IF c.packs THEN fits ELSE gzip

\* A transaction is going on, or the call follows the wrong one
call_refused(c) ==
    /\ AppMay
    /\ ~pbnc_can_start_transaction \/ c.requires \notin {"none", trans}
    /\ UNCHANGED vars

\* Channels or the object to send do not fit, or the encryption fails
call_not_formed(c) ==
    /\ AppMay /\ pbnc_can_start_transaction /\ calls < MaxCalls
    /\ c.forms
    /\ calls' = calls + 1
    /\ kept' = (kept \/ c.keeps)
    /\ monitor' = IF c.keeps THEN "app" ELSE monitor
    /\ UNCHANGED <<context, retries, mutw, pc, sent, asked, packed, pending, unasked,
                   reply, spoiled>>

\* The request cannot be prepared: what was assigned for it stays
call_not_prepared(c, fits) ==
    /\ AppMay /\ pbnc_can_start_transaction /\ calls < MaxCalls
    /\ c.requires \in {"none", trans}
    /\ calls' = calls + 1
    /\ trans' = IF "trans" \in c.early THEN c.trans ELSE trans
    /\ method' = IF "method" \in c.early THEN c.method ELSE method
    /\ gzip' = pbgzip_compress(c, fits)
    /\ http_buf' = "NONE"
    /\ spoiled' = spoiled \cup c.early
    /\ UNCHANGED <<state, http, last_result, timed, retries, monitor, mutw, pc, sent, asked,
                   packed, pending, unasked, reply, kept>>

\* Mutant: the next page is asked for after any call
Prepared_after_any(c, fits) ==
    /\ AppMay /\ pbnc_can_start_transaction /\ calls < MaxCalls
    /\ calls' = calls + 1
    /\ trans' = IF "trans" \in c.early \cup c.late THEN c.trans ELSE trans
    /\ gzip' = pbgzip_compress(c, fits)
    /\ http_buf' = c.trans
    /\ asked' = c /\ packed' = (c.packs /\ fits) /\ pending' = TRUE
    /\ UNCHANGED <<http, retries, mutw, unasked, reply, kept>>

\* The request is prepared
Prepared(c, fits) ==
    /\ AppMay /\ pbnc_can_start_transaction /\ calls < MaxCalls
    /\ c.requires \in {"none", trans}
    /\ calls' = calls + 1
    /\ trans' = IF "trans" \in c.early \cup c.late THEN c.trans ELSE trans
    /\ gzip' = pbgzip_compress(c, fits)
    /\ http_buf' = c.trans
    /\ asked' = c /\ packed' = (c.packs /\ fits) /\ pending' = TRUE
    /\ UNCHANGED <<http, retries, mutw, unasked, reply, kept>>

\* ... and the context enqueued for the watcher
call_started(c, fits) ==
    /\ Prepared(c, fits)
    /\ state' = "STARTED"
    /\ method' = IF "method" \in c.early \cup c.late THEN c.method ELSE method
    /\ last_result' = "STARTED"
    /\ spoiled' = (spoiled \ (c.late \cup {"gzip", "buffer"}))
                      \cup (IF gzip /\ ~c.packs THEN {"gzip"} ELSE {})
    /\ UNCHANGED <<timed, monitor, pc, sent>>

\* ... or the queue is full, and the transaction ends in the call
call_not_enqueued(c, fits) == Prepared(c, fits) /\ Ends("app", "INTERNAL_ERROR", "IDLE")

\* pbnc_stop: a cancelled or timed out transaction is left to the watcher
pbnc_stop(outcome) ==
    /\ last_result' = outcome
    /\ trans' = IF pbnc_can_start_transaction THEN "NONE" ELSE trans
    /\ state' = IF state = "IDLE" THEN "IDLE" ELSE "WAIT_CANCEL"

pubnub_cancel ==
    /\ AppMay
    /\ pbnc_stop("CANCELLED")
    /\ pending' = (pending \/ state' # "IDLE")
    /\ UNCHANGED <<method, gzip, http_buf, http, timed, retries, monitor, mutw, pc, sent,
                   calls, asked, packed, unasked, reply, kept, spoiled>>

\* A context that is not idle is cancelled and not freed; an idle one is
\* requeued, for the watcher to free it.  The application uses it no more.
pubnub_free ==
    /\ AppMay /\ state = "IDLE"
    /\ state' = "NULL" /\ trans' = "NONE" /\ last_result' = "CANCELLED"
    /\ UNCHANGED <<method, gzip, http_buf, http, timed, retries, monitor, mutw, pc, sent,
                   calls, history>>

pubnub_set_retry_configuration(c) ==
    /\ AppMay
    /\ config' = c
    /\ UNCHANGED <<context, retry_count, timer, monitor, mutw, pc, sent, calls, history>>

-----------------------------------------------------------------------------
(* Outcomes and retries *)

pubnub_retry_configuration_retryable_result_ ==
    last_result \in {"CONNECT_FAILED", "TIMEOUT", "HTTP_ERROR"}

pubnub_retry_configuration_retryable_ ==
    /\ pubnub_endpoint_from_transaction_(trans) \notin config.excluded
    /\ retry_count < config.max_retries
    /\ http.code = 429 \/ http.code >= 500 \/ http.code = 0

\* The pause in seconds: fmin(minimum_delay * pow(2, n - 1), maximum_delay)
Pause ==
    IF http.after > 0 /\ http.code = 429 THEN http.after
    ELSE IF config.policy = "linear" THEN config.minimum_delay
    ELSE LET grown == (config.minimum_delay * 2^retry_count) \div 2
         IN IF grown < config.maximum_delay THEN grown ELSE config.maximum_delay

\* Mutant: a pause that is not cut to 16 bits
delay_wide(jitter) ==
    IF pubnub_retry_configuration_retryable_ THEN Pause * 1000 + jitter ELSE 2^16 - 1

\* A size_t, kept in 16 bits by the caller: the -1 of a request that is not
\* to be retried is a pause of 65535 ms there
pubnub_retry_configuration_delay_(jitter) ==
    IF pubnub_retry_configuration_retryable_ THEN (Pause * 1000 + jitter) % 2^16
    ELSE 2^16 - 1

\* Mutant: the callback is told of every failed attempt
outcome_retried_told(t) ==
    /\ pc[t] = "outcome"
    /\ config # NULL /\ pubnub_retry_configuration_retryable_result_
    /\ \E j \in Jitters : timer' = [timer EXCEPT !.allocated = TRUE,
                                    !.delay = pubnub_retry_configuration_delay_(j)]
    /\ pending' = FALSE /\ unasked' = (unasked \/ ~pending)
    /\ IF timer.running THEN Return(t) ELSE Goto(t, "start") /\ UNCHANGED monitor
    /\ UNCHANGED <<context, config, retry_count, mutw, sent, calls, asked, packed, reply,
                   kept, spoiled>>

\* pbntf_trans_outcome up to the retry.  A timer whose thread has not cleared
\* `running' yet is not started: the function returns, and nobody is told.
outcome_retried(t) ==
    /\ pc[t] = "outcome"
    /\ config # NULL /\ pubnub_retry_configuration_retryable_result_
    /\ \E j \in Jitters : pubnub_retry_configuration_delay_(j) > 0
                          /\ timer' = [timer EXCEPT !.allocated = TRUE,
                                 !.delay = IF timer.running THEN @
                                           ELSE pubnub_retry_configuration_delay_(j)]
    /\ IF timer.running THEN Return(t)
       ELSE Goto(t, "start") /\ UNCHANGED monitor
    /\ UNCHANGED <<context, config, retry_count, mutw, sent, calls, history>>

\* ... and past it: there is no retry, or no memory for its timer
outcome_final(t) ==
    /\ pc[t] = "outcome"
    /\ config # NULL /\ pubnub_retry_configuration_retryable_result_
           => \/ \E j \in Jitters : pubnub_retry_configuration_delay_(j) = 0
              \/ ~timer.allocated
    /\ Goto(t, IF timer.allocated THEN "free" ELSE "report")
    /\ UNCHANGED <<context, retries, monitor, mutw, sent, calls, history>>

\* pbcc_request_retry_timer_start up to the creation of the thread; the stop
\* in it finds no thread to join, only mutw to lock
pbcc_request_retry_timer_start(t) ==
    /\ pc[t] = "start" /\ mutw = NULL
    /\ timer' = [timer EXCEPT !.running = TRUE]
    /\ state' = "WAIT_RETRY"
    /\ retry_count' = retry_count + 1
    /\ Goto(t, "create")
    /\ UNCHANGED <<trans, method, gzip, http_buf, http, last_result, timed, config, monitor,
                   mutw, sent, calls, history>>

timer_created(t) ==
    /\ pc[t] = "create" /\ pc["timer"] = "none"
    /\ timer' = [timer EXCEPT !.thread = TRUE]
    /\ pc' = [pc EXCEPT ![t] = "idle", !["timer"] = "born"]
    /\ monitor' = Released
    /\ UNCHANGED <<context, config, retry_count, mutw, sent, calls, history>>

\* A context that waits to be retried goes through PBS_RETRY to connect again.
\* The request in http_buf goes out as it is, with the method of the context.
Again ==
    /\ state' = "CONNECT" /\ timed' = TRUE
    /\ spoiled' = spoiled \cup (IF asked.method # "GET" THEN {"method"} ELSE {})
                          \cup (IF http_buf # asked.trans THEN {"buffer"} ELSE {})
    /\ UNCHANGED <<method, last_result, sent>>

\* Mutant: the error is logged and that is all
timer_not_created_logged(t) ==
    /\ pc[t] = "create"
    /\ Return(t)
    /\ UNCHANGED <<context, retries, mutw, sent, calls, history>>

\* The thread was not created: the request is sent again at once, by thread t,
\* and may fail at once too
timer_not_created(t) ==
    /\ pc[t] = "create" /\ mutw = NULL
    /\ timer' = [timer EXCEPT !.running = FALSE]
    /\ \/ Again /\ Return(t)
       \/ retry_count < MaxAttempts /\ Ends(t, "CONNECT_FAILED", "IDLE")
    /\ UNCHANGED <<trans, gzip, http_buf, http, config, retry_count, mutw, calls,
                   asked, packed, pending, unasked, reply, kept>>

\* pbcc_request_retry_timer_free, by the outcome or by pbcc_deinit: the stop
\* in it joins the timer's thread with mutw locked
free_locks(t) ==
    /\ pc[t] = "free" /\ mutw = NULL
    /\ mutw' = t
    /\ Goto(t, "join")
    /\ UNCHANGED <<context, retries, monitor, sent, calls, history>>

\* A thread that joins itself gets EDEADLK and goes on
pbcc_request_retry_timer_free(t) ==
    /\ pc[t] = "join"
    /\ timer.thread => pc["timer"] = "none" \/ t = "timer"
    /\ timer' = NoTimer
    /\ retry_count' = 0
    /\ mutw' = NULL
    /\ Goto(t, "report")
    /\ UNCHANGED <<context, config, monitor, sent, calls, history>>

\* The callback.  The timer's own thread has freed its timer on its way here
\* and crashes when it goes on.
outcome_reported(t) ==
    /\ pc[t] = "report" /\ state # "NULL"
    /\ pending' = FALSE /\ unasked' = (unasked \/ ~pending)
    /\ asked' = Get("NONE") /\ packed' = FALSE
    /\ state' = IF t = "timer" THEN "CRASHED" ELSE state
    /\ Return(t)
    /\ UNCHANGED <<trans, method, gzip, http_buf, http, last_result, timed, retries, mutw, sent,
                   calls, reply, kept, spoiled>>

\* pbcc_request_retry_timer_run_.  Nobody clears `running' while the thread
\* sleeps (whoever wants to joins it first), so that it sleeps to the end.
timer_reads_delay ==
    /\ pc["timer"] = "born" /\ mutw = NULL
    /\ Goto("timer", "sleeping")
    /\ UNCHANGED <<context, retries, monitor, mutw, sent, calls, history>>

timer_wakes ==
    /\ pc["timer"] = "sleeping"
    /\ Goto("timer", "awake")
    /\ UNCHANGED <<context, retries, monitor, mutw, sent, calls, history>>

\* Mutant: the request is sent again whatever happened meanwhile
timer_run_unchecked ==
    /\ pc["timer"] = "awake" /\ monitor = NULL
    /\ Again /\ Return("timer")
    /\ UNCHANGED <<trans, gzip, http_buf, http, retries, mutw, calls, asked, packed,
                   pending, unasked, reply, kept>>

pbcc_request_retry_timer_run_ ==
    /\ pc["timer"] = "awake" /\ monitor = NULL
    /\ \/ state = "WAIT_RETRY" /\ Again /\ Return("timer")
       \/ state = "WAIT_RETRY" /\ retry_count < MaxAttempts
              /\ Ends("timer", "CONNECT_FAILED", "IDLE")
       \/ state # "WAIT_RETRY" /\ Return("timer")
              /\ UNCHANGED <<state, method, last_result, timed, sent, spoiled>>
    /\ UNCHANGED <<trans, gzip, http_buf, http, retries, mutw, calls, asked, packed,
                   pending, unasked, reply, kept>>

\* The thread stops its own timer and ends
pbcc_request_retry_timer_stop ==
    /\ pc["timer"] = "stop" /\ mutw = NULL /\ state # "CRASHED"
    /\ timer' = [timer EXCEPT !.thread = FALSE, !.running = FALSE]
    /\ Goto("timer", "none")
    /\ UNCHANGED <<context, config, retry_count, monitor, mutw, sent, calls, history>>

-----------------------------------------------------------------------------
(* The watcher thread *)

WatcherMay == Idle("watcher") /\ monitor = NULL

\* The context gets a socket, and a timer with it
connects ==
    /\ WatcherMay /\ state = "STARTED"
    /\ state' = "CONNECT" /\ timed' = TRUE
    /\ UNCHANGED <<trans, method, gzip, http_buf, http, last_result, retries, monitor, mutw,
                   pc, sent, calls, history>>

request_sent ==
    /\ WatcherMay /\ state = "CONNECT"
    /\ state' = "SENT"
    /\ sent' = [path |-> http_buf, method |-> method, packed |-> HasBody(method) /\ gzip]
    /\ UNCHANGED <<trans, method, gzip, http_buf, http, last_result, timed, retries, monitor, mutw,
                   pc, calls, history>>

\* The status line and the headers: they are read into http_buf
reply_starts(r) ==
    /\ WatcherMay /\ state = "SENT"
    /\ state' = "RX"
    /\ http' = r
    /\ http_buf' = "REPLY"
    /\ UNCHANGED <<trans, method, gzip, last_result, timed, retries, monitor, mutw, pc, sent,
                   calls, history>>

\* finish: the reply is parsed as one to trans; an answer to something else
\* may or may not parse
finish(parses, idle) ==
    /\ WatcherMay /\ state = "RX"
    /\ LET result == IF ~parses THEN "FORMAT_ERROR"
                     ELSE IF http.code \div 100 = 2 THEN "OK" ELSE "HTTP_ERROR"
       IN /\ result = "HTTP_ERROR" => retry_count < MaxAttempts
          /\ Ends("watcher", result, idle)
    /\ reply' = IF parses THEN sent.path ELSE reply
    /\ UNCHANGED <<trans, gzip, http_buf, http, retries, mutw, calls, asked, packed,
                   pending, unasked, kept>>

\* Resolving, connecting, sending or receiving fails.  CONNECT_FAILED stands
\* for the failures that are retried (a connection may time out in any state),
\* IO_ERROR for the others.
transaction_fails(result) ==
    /\ WatcherMay /\ state \in Running
    /\ result = "CONNECT_FAILED" => retry_count < MaxAttempts
    /\ Ends("watcher", result, "IDLE")
    /\ UNCHANGED <<trans, gzip, http_buf, http, retries, mutw, calls, asked, packed,
                   pending, unasked, reply, kept>>

\* The transaction timer runs out; in a transaction that is being cancelled
\* the timeout replaces the result
pbntf_handle_timer_list ==
    /\ WatcherMay /\ timed /\ retry_count < MaxAttempts
    /\ timed' = FALSE
    /\ pbnc_stop("TIMEOUT")
    /\ UNCHANGED <<method, gzip, http_buf, http, retries, monitor, mutw, pc, sent, calls,
                   history>>

stopped ==
    /\ WatcherMay /\ state = "WAIT_CANCEL"
    /\ Ends("watcher", last_result, "IDLE")
    /\ UNCHANGED <<trans, gzip, http_buf, http, retries, mutw, calls, asked, packed,
                   pending, unasked, reply, kept>>

\* pballoc_free_at_last, with what pbcc_deinit does to the retries
pballoc_free_at_last ==
    /\ WatcherMay /\ state = "NULL"
    /\ config' = NULL /\ retry_count' = 0
    /\ monitor' = "watcher"
    /\ Goto("watcher", IF timer.allocated THEN "free" ELSE "report")
    /\ UNCHANGED <<context, timer, mutw, sent, calls, history>>

freed ==
    /\ pc["watcher"] = "report" /\ state = "NULL"
    /\ state' = "FREED"
    /\ Return("watcher")
    /\ UNCHANGED <<trans, method, gzip, http_buf, http, last_result, timed, retries, mutw, sent,
                   calls, history>>

-----------------------------------------------------------------------------
\* pubnub_init leaves http_code and http_header_retry_after as malloc gave them
Init ==
    /\ state = "IDLE" /\ trans = "NONE" /\ method = "GET" /\ gzip = FALSE
    /\ http_buf = "NONE" /\ http \in Replies \cup {[code |-> 0, after |-> 0]}
    /\ last_result = "OK" /\ timed = FALSE
    /\ config = NULL /\ retry_count = 0 /\ timer = NoTimer
    /\ monitor = NULL /\ mutw = NULL
    /\ pc = [app |-> "idle", watcher |-> "idle", timer |-> "none"]
    /\ sent = NoRequest
    /\ calls = 0
    /\ asked = Get("NONE") /\ packed = FALSE /\ pending = FALSE /\ unasked = FALSE
    /\ reply = "NONE" /\ kept = FALSE /\ spoiled = {}

ApiCall ==
    \E c \in Calls :
        \/ call_refused(c) \/ call_not_formed(c)
        \/ \E fits \in (IF c.packs THEN BOOLEAN ELSE {FALSE}) :
               \/ call_not_prepared(c, fits)
               \/ call_started(c, fits) \/ call_not_enqueued(c, fits)

App == \/ ApiCall \/ pubnub_cancel \/ pubnub_free
       \/ \E c \in Configurations \cup {NULL} : pubnub_set_retry_configuration(c)

Outcome(t) ==
    \/ outcome_retried(t) \/ outcome_final(t) \/ pbcc_request_retry_timer_start(t)
    \/ timer_created(t) \/ timer_not_created(t) \/ free_locks(t)
    \/ pbcc_request_retry_timer_free(t) \/ outcome_reported(t)

Timer == \/ timer_reads_delay \/ timer_wakes \/ pbcc_request_retry_timer_run_
         \/ pbcc_request_retry_timer_stop

Watcher ==
    \/ connects \/ request_sent \/ (\E r \in Replies : reply_starts(r))
    \/ (\E parses \in BOOLEAN, idle \in {"IDLE", "KEEP_ALIVE_IDLE"} : finish(parses, idle))
    \/ (\E result \in {"CONNECT_FAILED", "IO_ERROR"} : transaction_fails(result))
    \/ pbntf_handle_timer_list \/ stopped \/ pballoc_free_at_last \/ freed

Next == App \/ Timer \/ Watcher \/ \E t \in Threads : Outcome(t)

Spec == Init /\ [][Next]_vars

\* The threads run; the application need not call.  A transaction that is not
\* answered runs into its timeout.
Fairness == /\ WF_vars(Watcher) /\ WF_vars(Timer)
            /\ \A t \in Threads : WF_vars(Outcome(t))
FairSpec == Spec /\ Fairness

-----------------------------------------------------------------------------
(* Properties *)

ContextTypeOK ==
    /\ state \in Usable \cup {"NULL", "FREED", "CRASHED"}
    /\ trans \in {c.trans : c \in Calls} \cup {"NONE"}
    /\ method \in {"GET", "POST", "PATCH", "DELETE"}
    /\ gzip \in BOOLEAN /\ timed \in BOOLEAN
    /\ http_buf \in {c.trans : c \in Calls} \cup {"NONE", "REPLY"}
    /\ http \in Replies \cup {[code |-> 0, after |-> 0]}
    /\ last_result \in {"OK", "STARTED", "CONNECT_FAILED", "TIMEOUT", "HTTP_ERROR",
                        "IO_ERROR", "FORMAT_ERROR", "INTERNAL_ERROR", "CANCELLED"}

RetriesTypeOK ==
    /\ config \in Configurations \cup {NULL}
    /\ retry_count \in 0..MaxAttempts
    /\ timer \in TimerRecord

ThreadsTypeOK ==
    /\ monitor \in Threads \cup {NULL} /\ mutw \in Threads \cup {NULL}
    /\ pc \in [Threads -> Labels]

\* Types; the delay fits the uint16_t it is kept in, whatever the pause the
\* configuration or a Retry-After header asks for (pbntf_trans_outcome).
TypeOK == ContextTypeOK /\ RetriesTypeOK /\ ThreadsTypeOK

\* What is on the wire is the request the application asked for, with its
\* method and encoding, whatever was called, failed, cancelled or retried
\* before, but for what the code is known to get wrong: a method that a call
\* whose request could not be prepared left behind, the length of an earlier
\* compressed message, and a retry, which is a GET of what http_buf holds
\* (calls of pubnub_coreapi.c and others, PBNTF_TRANS_OUTCOME_COMMON).
RequestIsTheCalls ==
    state \in {"SENT", "RX"} =>
        /\ "buffer" \notin spoiled => sent.path = asked.trans
        /\ "method" \notin spoiled => sent.method = asked.method
        /\ spoiled \cap {"method", "gzip"} = {} => sent.packed = packed

\* After a successful transaction the functions that read its answer, which
\* go by trans (pubnub_get_grant_token, pubnub_get_fetch_history...), find the
\* answer to that transaction in the reply buffer, unless a call set trans and
\* then failed, or a reply was sent back as a retry's request.
ReadsItsReply ==
    /\ pbnc_can_start_transaction /\ last_result = "OK" /\ trans # "NONE"
    /\ spoiled \cap {"trans", "buffer"} = {}
    => reply = trans

\* No callback comes without a call, or a cancel, that waits for it: a retried
\* transaction is not reported before its last attempt (pbntf_trans_outcome).
OneOutcome == ~unasked

\* A cancelled transaction is not sent (again): the retry timer leaves a
\* context alone that does not wait for it any more, unless a timeout replaced
\* the result meanwhile (pbcc_request_retry_timer_run_, PBS_WAIT_RETRY).
CancelHolds == state \in Running => last_result # "CANCELLED"

\* A context that waits to be retried has a timer thread that will do it, or a
\* thread about to create one: neither a failed pthread_create nor the end of
\* an earlier timer thread leaves it waiting for nothing.
RetryIsTimed ==
    state = "WAIT_RETRY" =>
        /\ timer.running
        /\ \/ pc["timer"] \in {"born", "sleeping", "awake"} /\ timer.thread
           \/ \E t \in Threads : pc[t] = "create"

\* "Registers a callback function to be called when a transaction ends."
\* (core/pubnub_ntf_callback.h): every transaction ends in a callback, or in
\* the early return that keeps the monitor or the crash told above.
CalledBack == pending ~> (~pending \/ kept \/ state = "CRASHED")

\* "The number of failed requests that should be retried automatically before
\* reporting an error." (maximum_retry, core/pubnub_retry_configuration.h)
RetriedAsConfigured ==
    state = "WAIT_RETRY" /\ config # NULL => retry_count <= config.max_retries
=============================================================================
