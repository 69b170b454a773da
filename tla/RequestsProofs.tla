--------------------------- MODULE RequestsProofs ---------------------------
(***************************************************************************)
(* The safety properties of Requests.tla hold for every set of calls,      *)
(* configurations, replies and bounds.  None of them is inductive alone:   *)
(* what a thread that works on an outcome finds depends on who owns the    *)
(* monitor, and what goes out on what was prepared several steps before.   *)
(* The inductive invariant Inv says where each thread may be and what the  *)
(* context is in meanwhile.                                                *)
(***************************************************************************)
EXTENDS Requests, FiniteSetTheorems, TLAPS

(* The inductive invariant *)

\* The results that are retried, and the states a transaction can start in
Retryable == {"CONNECT_FAILED", "TIMEOUT", "HTTP_ERROR"}
Startable == {"IDLE", "KEEP_ALIVE_IDLE"}
\* Where a thread is when it reports an outcome, or frees the context
Busy == {"outcome", "start", "create", "free", "join", "report"}

\* Who works on an outcome has the monitor, and a failed call that kept it too
Owned ==
    /\ kept \in BOOLEAN
    /\ kept => monitor = "app"
    /\ \A t \in Threads : pc[t] \in Busy => monitor = t

\* Where each thread may be, and what the context is in meanwhile
Places ==
    /\ \A t \in {"app", "watcher"} : pc[t] \in Busy \cup {"idle"}
    /\ pc["timer"] \in {"none", "born", "sleeping", "awake", "stop",
                        "outcome", "free", "join", "report"}
    /\ \A t \in Threads :
         /\ pc[t] \in {"outcome", "start"} => state \in Startable
         /\ pc[t] = "create" => state = "WAIT_RETRY"
         /\ pc[t] \in {"free", "join", "report"} =>
              state \in Startable \/ (t = "watcher" /\ state = "NULL")

\* Who is about to retry has attempts left
Attempts ==
    /\ timed => state \in {"CONNECT", "SENT", "RX", "WAIT_CANCEL"}
    /\ state = "WAIT_CANCEL" => last_result \in {"CANCELLED", "TIMEOUT"}
    /\ state = "WAIT_CANCEL" /\ last_result = "TIMEOUT" => retry_count < MaxAttempts
    /\ state = "WAIT_RETRY" => last_result \in Retryable
    /\ \A t \in Threads :
         /\ pc[t] = "outcome" /\ last_result \in Retryable => retry_count < MaxAttempts
         /\ pc[t] = "start" => last_result \in Retryable /\ retry_count < MaxAttempts

\* The timer's thread finds its timer, and the timer says that it runs
TimerThere ==
    /\ \/ pc["timer"] \in {"none", "report"}
       \/ state = "CRASHED"
       \/ timer.running /\ timer.thread
    /\ \A t \in Threads : pc[t] = "start" => ~timer.running
    /\ \A t \in Threads : pc[t] = "create" => timer.running /\ pc["timer"] = "none"

\* A transaction, and its outcome until it is reported, has somebody waiting
Waited ==
    /\ pending \in BOOLEAN
    /\ state \in Running \cup {"WAIT_CANCEL", "WAIT_RETRY"} => pending
    /\ \A t \in Threads : pc[t] \in Busy /\ state # "NULL" => pending

\* A request that goes out with path p, method m and encoding k is what was
\* asked for, but for what is known to be wrong
AsAsked(p, m, k) ==
    /\ "buffer" \notin spoiled => p = asked.trans
    /\ "method" \notin spoiled => m = asked.method
    /\ spoiled \cap {"method", "gzip"} = {} => k = packed

Request ==
    /\ asked \in Calls \cup {Get("NONE")}
    /\ packed \in BOOLEAN
    /\ packed => HasBody(asked.method)
    /\ state \in {"STARTED", "CONNECT"} => AsAsked(http_buf, method, HasBody(method) /\ gzip)
    /\ state \in {"SENT", "RX"} => AsAsked(sent.path, sent.method, sent.packed)
    /\ state \in Startable /\ "method" \notin spoiled => method = "GET"
    /\ state = "WAIT_RETRY" => method = "GET"
    /\ \A t \in Threads : pc[t] \in Busy /\ state # "NULL" => method = "GET"

\* The transaction the context is in is the one that was asked for
Transaction ==
    /\ state \in Running \cup {"WAIT_RETRY"} => trans = asked.trans
    /\ state = "WAIT_CANCEL" /\ (timed \/ last_result = "TIMEOUT") => trans = asked.trans
    /\ \A t \in Threads : pc[t] \in {"outcome", "start"} /\ last_result \in Retryable
          => trans = asked.trans

Inv == /\ TypeOK /\ Owned /\ Places /\ Attempts /\ TimerThere /\ Waited
       /\ Request /\ Transaction
       /\ RequestIsTheCalls /\ ReadsItsReply /\ OneOutcome /\ CancelHolds /\ RetryIsTimed

-----------------------------------------------------------------------------
(* The calls of the API *)

\* What all calls have in common: only those that say so set the method and
\* trans, what is packed has a body, and trans is set or must be right already
CallShape(c) ==
    /\ c.method \in {"GET", "POST", "PATCH", "DELETE"}
    /\ c.packs \in BOOLEAN /\ c.keeps \in BOOLEAN
    /\ "method" \in c.early => "method" \in c.late
    /\ "method" \notin c.late => c.method = "GET"
    /\ c.packs => "method" \in c.late /\ HasBody(c.method)
    /\ "trans" \notin c.early \cup c.late => c.requires = c.trans /\ c.trans # "none"

\* The functions that prepare a plain GET, with or without a list of channels
LEMMA GetShape ==
    ASSUME NEW s
    PROVE  CallShape(Get(s)) /\ CallShape(GetWithChannels(s)) /\ CallShape(GetObjects(s))
  BY DEF CallShape, Get, GetWithChannels, GetObjects, HasBody

\* The functions that send a body (pbcc_set_..._prep and the grants)
LEMMA SendShape ==
    ASSUME NEW s, NEW verb \in {"POST", "PATCH", "DELETE"}
    PROVE  CallShape(Send(s, verb)) /\ CallShape(SendObject(s))
  BY DEF CallShape, Get, Send, SendObject, HasBody

\* The functions that ask for the next page of the last answer
LEMMA MoreShape ==
    ASSUME NEW s, s # "none"
    PROVE  CallShape(More(s))
  BY DEF CallShape, Get, More, HasBody

\* Every function of the API is of that shape
LEMMA ApiShape == \A c \in API : CallShape(c)
<1>1. \A c \in GetCalls : CallShape(c)
  BY GetShape
     DEF GetCalls, pubnub_publish, pubnub_signal, pubnub_leave, pubnub_time, pubnub_history,
         pubnub_here_now, pubnub_global_here_now, pubnub_where_now, pubnub_set_state,
         pubnub_state_get, pubnub_remove_channel_group, pubnub_remove_channel_from_group,
         pubnub_add_channel_to_group, pubnub_list_channel_group, pubnub_signal_ex,
         pubnub_here_now_ex, pubnub_global_here_now_ex, pubnub_history_ex,
         pubnub_message_counts, pubnub_fetch_history, pubnub_get_message_actions,
         pubnub_history_with_message_actions
<1>2. \A c \in ChannelCalls : CallShape(c)
  BY GetShape
     DEF ChannelCalls, pubnub_subscribe, pubnub_heartbeat, pubnub_subscribe_ex,
         heartbeat_with_state, pubnub_subscribe_v2, pubnub_subscribe_with_state
<1>3. \A c \in PublishCalls : CallShape(c)
  BY DEF PublishCalls, pubnub_publish_ex, Get, CallShape, HasBody
<1>4. \A c \in ActionCalls : CallShape(c)
  <2>1. CallShape(pubnub_delete_messages)
    BY DEF pubnub_delete_messages, Get, CallShape, HasBody
  <2>2. CallShape(pubnub_add_message_action_str)
    BY DEF pubnub_add_message_action_str, Get, CallShape, HasBody
  <2>3. CallShape(pubnub_remove_message_action)
    BY DEF pubnub_remove_message_action, Get, CallShape, HasBody
  <2> QED
    BY <2>1, <2>2, <2>3, MoreShape
       DEF ActionCalls, pubnub_get_message_actions_more,
           pubnub_history_with_message_actions_more
<1>5. \A c \in TokenCalls : CallShape(c)
  BY SendShape DEF TokenCalls, pubnub_grant_token, pubnub_revoke_token
<1>6. \A c \in ObjectCalls : CallShape(c)
  <2>1. CallShape(pubnub_add_members)
    BY DEF pubnub_add_members, SendObject, Send, Get, CallShape, HasBody
  <2> QED
    BY <2>1, GetShape, SendShape
       DEF ObjectCalls, pubnub_getall_uuidmetadata_ex, pubnub_set_uuidmetadata,
           pubnub_get_uuidmetadata, pubnub_remove_uuidmetadata,
           pubnub_getall_channelmetadata_ex, pubnub_set_channelmetadata,
           pubnub_get_channelmetadata, pubnub_remove_channelmetadata,
           pubnub_get_memberships_ex, pubnub_set_memberships_ex,
           pubnub_remove_memberships_ex, pubnub_get_members_ex,
           pubnub_set_members_ex, pubnub_remove_members_ex
<1> QED
  BY <1>1, <1>2, <1>3, <1>4, <1>5, <1>6 DEF API

\* ... and so are the calls of this application
LEMMA CallsShape == \A c \in Calls : CallShape(c)
  BY CallsAssumption, ApiShape

-----------------------------------------------------------------------------
(* The delay of a retry *)

\* A power of two is a number: that many subsets has an interval
LEMMA PowerInNat == \A n \in Nat : 2^n \in Nat
<1> TAKE n \in Nat
<1>1. IsFiniteSet(1..n) /\ Cardinality(1..n) = n
  BY FS_Interval
<1>2. IsFiniteSet(SUBSET (1..n)) /\ Cardinality(SUBSET (1..n)) = 2^n
  BY <1>1, FS_SUBSET
<1> QED
  BY <1>2, FS_CardinalityType

\* The numbers the model names are natural numbers
LEMMA NumbersAreNat == ThreeDigits \subseteq Nat /\ UInt16 \subseteq Nat
  BY DEF ThreeDigits, UInt16

\* What the assignment to a uint16_t leaves of a size_t
LEMMA Cut == ASSUME NEW x \in Nat PROVE x % 2^16 \in UInt16 /\ 2^16 - 1 \in UInt16
  BY DEF UInt16

\* A timer that is not allocated is a timer record
LEMMA NoTimerType == NoTimer \in TimerRecord
<1>1. 0 \in UInt16
  BY DEF UInt16
<1> QED
  BY <1>1 DEF NoTimer, TimerRecord

\* The pause is a number of seconds whatever the configuration and the header say
LEMMA PauseInNat ==
    ASSUME TypeOK, config # NULL
    PROVE  Pause \in Nat
<1>1. /\ http \in [code : ThreeDigits, after : UInt16]
      /\ config.policy \in {"linear", "exponential"}
      /\ config.minimum_delay \in Nat /\ config.maximum_delay \in Nat
      /\ retry_count \in Nat
  <2>1. http \in [code : ThreeDigits, after : UInt16]
    <3>1. [code |-> 0, after |-> 0] \in [code : ThreeDigits, after : UInt16]
      BY DEF ThreeDigits, UInt16
    <3> QED BY <3>1, RepliesAssumption DEF TypeOK, ContextTypeOK
  <2>2. config \in Configurations /\ retry_count \in Nat
    BY BoundsAssumption DEF TypeOK, RetriesTypeOK
  <2> QED BY <2>1, <2>2, ConfigurationsAssumption
<1>2. http.after \in Nat
  BY <1>1, NumbersAreNat
<1>3. (config.minimum_delay * 2^retry_count) \div 2 \in Nat
  <2>1. 2^retry_count \in Nat
    BY <1>1, PowerInNat
  <2> QED BY <1>1, <2>1
<1> QED
  BY <1>1, <1>2, <1>3 DEF Pause

\* The delay fits the uint16_t the timer keeps it in
\* (pubnub_retry_configuration_delay_ and its caller, pbntf_trans_outcome)
LEMMA DelayFits ==
    ASSUME TypeOK, config # NULL, NEW j \in Jitters
    PROVE  pubnub_retry_configuration_delay_(j) \in UInt16
<1>1. Pause * 1000 + j \in Nat
  BY PauseInNat, JittersAssumption, NumbersAreNat
<1> QED
  BY <1>1, Cut DEF pubnub_retry_configuration_delay_

-----------------------------------------------------------------------------
(* One lemma for each part of the invariant, one step for each action *)

\* The locks and the threads keep their types
LEMMA ThreadsTypeStep == ThreadsTypeOK /\ [Next]_vars => ThreadsTypeOK'
<1> SUFFICES ASSUME ThreadsTypeOK, [Next]_vars PROVE ThreadsTypeOK'
  OBVIOUS
<1> USE DEF ThreadsTypeOK, Threads, Labels, Startable, Usable, Running
<1>1. ASSUME NEW c \in Calls, call_refused(c) PROVE ThreadsTypeOK'
  BY <1>1 DEF call_refused, vars
<1>2. ASSUME NEW c \in Calls, call_not_formed(c) PROVE ThreadsTypeOK'
  BY <1>2 DEF call_not_formed
<1>3. ASSUME NEW c \in Calls, NEW fits \in BOOLEAN, call_not_prepared(c, fits)
      PROVE  ThreadsTypeOK'
  BY <1>3 DEF call_not_prepared
<1>4. ASSUME NEW c \in Calls, NEW fits \in BOOLEAN, call_started(c, fits)
      PROVE  ThreadsTypeOK'
  BY <1>4 DEF call_started, Prepared
<1>5. ASSUME NEW c \in Calls, NEW fits \in BOOLEAN, call_not_enqueued(c, fits)
      PROVE  ThreadsTypeOK'
  BY <1>5 DEF call_not_enqueued, Prepared, Ends, Goto
<1>6. CASE pubnub_cancel
  BY <1>6 DEF pubnub_cancel
<1>7. CASE pubnub_free
  BY <1>7 DEF pubnub_free
<1>8. ASSUME NEW c \in Configurations \cup {NULL}, pubnub_set_retry_configuration(c)
      PROVE  ThreadsTypeOK'
  BY <1>8 DEF pubnub_set_retry_configuration
<1>9. ASSUME NEW t \in Threads, outcome_retried(t)
      PROVE  ThreadsTypeOK'
  BY <1>9 DEF outcome_retried, Return, Released, Goto
<1>10. ASSUME NEW t \in Threads, outcome_final(t) PROVE ThreadsTypeOK'
  BY <1>10 DEF outcome_final, Goto
<1>11. ASSUME NEW t \in Threads, pbcc_request_retry_timer_start(t)
       PROVE  ThreadsTypeOK'
  BY <1>11 DEF pbcc_request_retry_timer_start, Goto
<1>12. ASSUME NEW t \in Threads, timer_created(t) PROVE ThreadsTypeOK'
  BY <1>12 DEF timer_created, Released
<1>13. ASSUME NEW t \in Threads, timer_not_created(t)
       PROVE  ThreadsTypeOK'
  BY <1>13 DEF timer_not_created, Return, Released, Ends, Goto
<1>14. ASSUME NEW t \in Threads, free_locks(t) PROVE ThreadsTypeOK'
  BY <1>14 DEF free_locks, Goto
<1>15. ASSUME NEW t \in Threads, pbcc_request_retry_timer_free(t)
       PROVE  ThreadsTypeOK'
  BY <1>15 DEF pbcc_request_retry_timer_free, Goto
<1>16. ASSUME NEW t \in Threads, outcome_reported(t)
       PROVE  ThreadsTypeOK'
  BY <1>16 DEF outcome_reported, Return, Released, Goto
<1>17. CASE timer_reads_delay
  BY <1>17 DEF timer_reads_delay, Goto
<1>18. CASE timer_wakes
  BY <1>18 DEF timer_wakes, Goto
<1>19. CASE pbcc_request_retry_timer_run_
  BY <1>19 DEF pbcc_request_retry_timer_run_, Return, Released, Ends, Goto
<1>20. CASE pbcc_request_retry_timer_stop
  BY <1>20 DEF pbcc_request_retry_timer_stop, Goto
<1>21. CASE connects
  BY <1>21 DEF connects
<1>22. CASE request_sent
  BY <1>22 DEF request_sent
<1>23. ASSUME NEW r \in Replies, reply_starts(r) PROVE ThreadsTypeOK'
  BY <1>23 DEF reply_starts
<1>24. ASSUME NEW parses \in BOOLEAN, NEW idle \in Startable, finish(parses, idle)
       PROVE  ThreadsTypeOK'
  BY <1>24 DEF finish, Ends, Goto
<1>25. ASSUME NEW result \in {"CONNECT_FAILED", "IO_ERROR"}, transaction_fails(result)
       PROVE  ThreadsTypeOK'
  BY <1>25 DEF transaction_fails, Ends, Goto
<1>26. CASE pbntf_handle_timer_list
  BY <1>26 DEF pbntf_handle_timer_list
<1>27. CASE stopped
  BY <1>27 DEF stopped, Ends, Goto
<1>28. CASE pballoc_free_at_last
  BY <1>28 DEF pballoc_free_at_last, Goto
<1>29. CASE freed
  BY <1>29 DEF freed, Return, Released, Goto
<1>30. CASE UNCHANGED vars
  BY <1>30 DEF vars
<1> QED
  BY <1>1, <1>2, <1>3, <1>4, <1>5, <1>6, <1>7, <1>8, <1>9, <1>10, <1>11, <1>12, <1>13,
     <1>14, <1>15, <1>16, <1>17, <1>18, <1>19, <1>20, <1>21, <1>22, <1>23, <1>24, <1>25,
     <1>26, <1>27, <1>28, <1>29, <1>30
     DEF Next, App, ApiCall, Outcome, Timer, Watcher, Startable

\* The context keeps its types: what a call assigns is of the call's shape
LEMMA ContextTypeStep == ContextTypeOK /\ [Next]_vars => ContextTypeOK'
<1> SUFFICES ASSUME ContextTypeOK, [Next]_vars PROVE ContextTypeOK'
  OBVIOUS
<1> USE DEF ContextTypeOK, Startable, Usable, Running
<1>1. ASSUME NEW c \in Calls, call_refused(c) PROVE ContextTypeOK'
  BY <1>1 DEF call_refused, vars, context
<1>2. ASSUME NEW c \in Calls, call_not_formed(c) PROVE ContextTypeOK'
  BY <1>2 DEF call_not_formed, context
<1>3. ASSUME NEW c \in Calls, NEW fits \in BOOLEAN, call_not_prepared(c, fits)
      PROVE  ContextTypeOK'
  <2>1. CallShape(c)
    BY CallsShape
  <2>2. trans' \in {trans, c.trans} /\ method' \in {method, c.method, "GET"}
    BY <1>3 DEF call_not_prepared
  <2>3. http_buf' \in {"NONE", c.trans} /\ gzip' \in BOOLEAN
    BY <1>3 DEF call_not_prepared, pbgzip_compress
  <2>4. UNCHANGED <<state, http, last_result, timed>>
    BY <1>3 DEF call_not_prepared
  <2> QED
    BY <2>1, <2>2, <2>3, <2>4 DEF CallShape
<1>4. ASSUME NEW c \in Calls, NEW fits \in BOOLEAN, call_started(c, fits)
      PROVE  ContextTypeOK'
  <2>1. CallShape(c)
    BY CallsShape
  <2>2. trans' \in {trans, c.trans} /\ method' \in {method, c.method, "GET"}
    BY <1>4 DEF call_started, Prepared
  <2>3. http_buf' \in {"NONE", c.trans} /\ gzip' \in BOOLEAN
    BY <1>4 DEF call_started, Prepared, pbgzip_compress
  <2>4. state' = "STARTED" /\ last_result' = "STARTED" /\ UNCHANGED <<http, timed>>
    BY <1>4 DEF call_started, Prepared
  <2> QED
    BY <2>1, <2>2, <2>3, <2>4 DEF CallShape
<1>5. ASSUME NEW c \in Calls, NEW fits \in BOOLEAN, call_not_enqueued(c, fits)
      PROVE  ContextTypeOK'
  <2>1. CallShape(c)
    BY CallsShape
  <2>2. trans' \in {trans, c.trans} /\ method' \in {method, c.method, "GET"}
    BY <1>5 DEF call_not_enqueued, Prepared, Ends
  <2>3. http_buf' \in {"NONE", c.trans} /\ gzip' \in BOOLEAN
    BY <1>5 DEF call_not_enqueued, Prepared, Ends, pbgzip_compress
  <2>4. /\ state' = "IDLE" /\ last_result' = "INTERNAL_ERROR"
        /\ timed' = FALSE /\ UNCHANGED http
    BY <1>5 DEF call_not_enqueued, Prepared, Ends
  <2> QED
    BY <2>1, <2>2, <2>3, <2>4 DEF CallShape
<1>6. CASE pubnub_cancel
  BY <1>6 DEF pubnub_cancel, pbnc_stop
<1>7. CASE pubnub_free
  BY <1>7 DEF pubnub_free
<1>8. ASSUME NEW c \in Configurations \cup {NULL}, pubnub_set_retry_configuration(c)
      PROVE  ContextTypeOK'
  BY <1>8 DEF pubnub_set_retry_configuration, context
<1>9. ASSUME NEW t \in Threads, outcome_retried(t)
      PROVE  ContextTypeOK'
  BY <1>9 DEF outcome_retried, context
<1>10. ASSUME NEW t \in Threads, outcome_final(t) PROVE ContextTypeOK'
  BY <1>10 DEF outcome_final, context
<1>11. ASSUME NEW t \in Threads, pbcc_request_retry_timer_start(t)
       PROVE  ContextTypeOK'
  BY <1>11 DEF pbcc_request_retry_timer_start
<1>12. ASSUME NEW t \in Threads, timer_created(t) PROVE ContextTypeOK'
  BY <1>12 DEF timer_created, context
<1>13. ASSUME NEW t \in Threads, timer_not_created(t)
       PROVE  ContextTypeOK'
  BY <1>13 DEF timer_not_created, Again, Ends
<1>14. ASSUME NEW t \in Threads, free_locks(t) PROVE ContextTypeOK'
  BY <1>14 DEF free_locks, context
<1>15. ASSUME NEW t \in Threads, pbcc_request_retry_timer_free(t)
       PROVE  ContextTypeOK'
  BY <1>15 DEF pbcc_request_retry_timer_free, context
<1>16. ASSUME NEW t \in Threads, outcome_reported(t)
       PROVE  ContextTypeOK'
  BY <1>16 DEF outcome_reported
<1>17. CASE timer_reads_delay
  BY <1>17 DEF timer_reads_delay, context
<1>18. CASE timer_wakes
  BY <1>18 DEF timer_wakes, context
<1>19. CASE pbcc_request_retry_timer_run_
  <2>1. CASE state = "WAIT_RETRY" /\ Again
    BY <1>19, <2>1 DEF pbcc_request_retry_timer_run_, Again
  <2>2. CASE state = "WAIT_RETRY" /\ Ends("timer", "CONNECT_FAILED", "IDLE")
    BY <1>19, <2>2 DEF pbcc_request_retry_timer_run_, Ends
  <2>3. CASE state # "WAIT_RETRY"
    BY <1>19, <2>3 DEF pbcc_request_retry_timer_run_
  <2> QED
    BY <1>19, <2>1, <2>2, <2>3 DEF pbcc_request_retry_timer_run_
<1>20. CASE pbcc_request_retry_timer_stop
  BY <1>20 DEF pbcc_request_retry_timer_stop, context
<1>21. CASE connects
  BY <1>21 DEF connects
<1>22. CASE request_sent
  BY <1>22 DEF request_sent
<1>23. ASSUME NEW r \in Replies, reply_starts(r) PROVE ContextTypeOK'
  BY <1>23 DEF reply_starts
<1>24. ASSUME NEW parses \in BOOLEAN, NEW idle \in Startable, finish(parses, idle)
       PROVE  ContextTypeOK'
  BY <1>24 DEF finish, Ends
<1>25. ASSUME NEW result \in {"CONNECT_FAILED", "IO_ERROR"}, transaction_fails(result)
       PROVE  ContextTypeOK'
  BY <1>25 DEF transaction_fails, Ends
<1>26. CASE pbntf_handle_timer_list
  BY <1>26 DEF pbntf_handle_timer_list, pbnc_stop
<1>27. CASE stopped
  BY <1>27 DEF stopped, Ends
<1>28. CASE pballoc_free_at_last
  BY <1>28 DEF pballoc_free_at_last, context
<1>29. CASE freed
  BY <1>29 DEF freed
<1>30. CASE UNCHANGED vars
  BY <1>30 DEF vars, context
<1> QED
  BY <1>1, <1>2, <1>3, <1>4, <1>5, <1>6, <1>7, <1>8, <1>9, <1>10, <1>11, <1>12, <1>13,
     <1>14, <1>15, <1>16, <1>17, <1>18, <1>19, <1>20, <1>21, <1>22, <1>23, <1>24, <1>25,
     <1>26, <1>27, <1>28, <1>29, <1>30
     DEF Next, App, ApiCall, Outcome, Timer, Watcher, Startable

\* The retries keep their types: the attempts stay within MaxAttempts, and the
\* delay within 16 bits (pbcc_request_retry_timer_start, pbntf_trans_outcome)
LEMMA RetriesTypeStep == TypeOK /\ Attempts /\ [Next]_vars => RetriesTypeOK'
<1> SUFFICES ASSUME TypeOK, Attempts, [Next]_vars PROVE RetriesTypeOK'
  OBVIOUS
<1>0. RetriesTypeOK
  BY DEF TypeOK
<1> USE <1>0 DEF RetriesTypeOK, Attempts
<1>1. ASSUME NEW c \in Calls, call_refused(c) PROVE RetriesTypeOK'
  BY <1>1 DEF call_refused, vars, retries
<1>2. ASSUME NEW c \in Calls, call_not_formed(c) PROVE RetriesTypeOK'
  BY <1>2 DEF call_not_formed, retries
<1>3. ASSUME NEW c \in Calls, NEW fits \in BOOLEAN, call_not_prepared(c, fits)
      PROVE  RetriesTypeOK'
  BY <1>3 DEF call_not_prepared, retries
<1>4. ASSUME NEW c \in Calls, NEW fits \in BOOLEAN, call_started(c, fits)
      PROVE  RetriesTypeOK'
  BY <1>4 DEF call_started, Prepared, retries
<1>5. ASSUME NEW c \in Calls, NEW fits \in BOOLEAN, call_not_enqueued(c, fits)
      PROVE  RetriesTypeOK'
  BY <1>5 DEF call_not_enqueued, Prepared, retries
<1>6. CASE pubnub_cancel
  BY <1>6 DEF pubnub_cancel, retries
<1>7. CASE pubnub_free
  BY <1>7 DEF pubnub_free, retries
<1>8. ASSUME NEW c \in Configurations \cup {NULL}, pubnub_set_retry_configuration(c)
      PROVE  RetriesTypeOK'
  BY <1>8 DEF pubnub_set_retry_configuration
<1>9. ASSUME NEW t \in Threads, outcome_retried(t)
      PROVE  RetriesTypeOK'
  <2>1. config # NULL
    BY <1>9 DEF outcome_retried
  <2>2. PICK j \in Jitters :
          timer' = [timer EXCEPT !.allocated = TRUE,
                                 !.delay = IF timer.running THEN timer.delay
                                           ELSE pubnub_retry_configuration_delay_(j)]
    BY <1>9 DEF outcome_retried
  <2>3. timer.delay \in UInt16 /\ pubnub_retry_configuration_delay_(j) \in UInt16
    BY <2>1, DelayFits DEF TimerRecord
  <2>4. timer' \in TimerRecord
    BY <2>2, <2>3, Zenon DEF TimerRecord
  <2> QED
    BY <1>9, <2>4 DEF outcome_retried
<1>10. ASSUME NEW t \in Threads, outcome_final(t) PROVE RetriesTypeOK'
  BY <1>10 DEF outcome_final, retries
<1>11. ASSUME NEW t \in Threads, pbcc_request_retry_timer_start(t)
       PROVE  RetriesTypeOK'
  <2>1. timer' \in TimerRecord
    BY <1>11, Zenon DEF pbcc_request_retry_timer_start, TimerRecord
  <2> QED
    BY <1>11, <2>1, BoundsAssumption DEF pbcc_request_retry_timer_start
<1>12. ASSUME NEW t \in Threads, timer_created(t) PROVE RetriesTypeOK'
  <2>1. timer' \in TimerRecord
    BY <1>12, Zenon DEF timer_created, TimerRecord
  <2> QED
    BY <1>12, <2>1, BoundsAssumption DEF timer_created
<1>13. ASSUME NEW t \in Threads, timer_not_created(t)
       PROVE  RetriesTypeOK'
  <2>1. timer' \in TimerRecord
    BY <1>13, Zenon DEF timer_not_created, TimerRecord
  <2> QED
    BY <1>13, <2>1, BoundsAssumption DEF timer_not_created
<1>14. ASSUME NEW t \in Threads, free_locks(t) PROVE RetriesTypeOK'
  BY <1>14 DEF free_locks, retries
<1>15. ASSUME NEW t \in Threads, pbcc_request_retry_timer_free(t)
       PROVE  RetriesTypeOK'
  BY <1>15, NoTimerType, BoundsAssumption DEF pbcc_request_retry_timer_free
<1>16. ASSUME NEW t \in Threads, outcome_reported(t)
       PROVE  RetriesTypeOK'
  BY <1>16 DEF outcome_reported, retries
<1>17. CASE timer_reads_delay
  BY <1>17 DEF timer_reads_delay, retries
<1>18. CASE timer_wakes
  BY <1>18 DEF timer_wakes, retries
<1>19. CASE pbcc_request_retry_timer_run_
  BY <1>19 DEF pbcc_request_retry_timer_run_, retries
<1>20. CASE pbcc_request_retry_timer_stop
  <2>1. timer' \in TimerRecord
    BY <1>20, Zenon DEF pbcc_request_retry_timer_stop, TimerRecord
  <2> QED
    BY <1>20, <2>1, BoundsAssumption DEF pbcc_request_retry_timer_stop
<1>21. CASE connects
  BY <1>21 DEF connects, retries
<1>22. CASE request_sent
  BY <1>22 DEF request_sent, retries
<1>23. ASSUME NEW r \in Replies, reply_starts(r) PROVE RetriesTypeOK'
  BY <1>23 DEF reply_starts, retries
<1>24. ASSUME NEW parses \in BOOLEAN, NEW idle \in Startable, finish(parses, idle)
       PROVE  RetriesTypeOK'
  BY <1>24 DEF finish, retries
<1>25. ASSUME NEW result \in {"CONNECT_FAILED", "IO_ERROR"}, transaction_fails(result)
       PROVE  RetriesTypeOK'
  BY <1>25 DEF transaction_fails, retries
<1>26. CASE pbntf_handle_timer_list
  BY <1>26 DEF pbntf_handle_timer_list, retries
<1>27. CASE stopped
  BY <1>27 DEF stopped, retries
<1>28. CASE pballoc_free_at_last
  BY <1>28, BoundsAssumption DEF pballoc_free_at_last
<1>29. CASE freed
  BY <1>29 DEF freed, retries
<1>30. CASE UNCHANGED vars
  BY <1>30 DEF vars, retries
<1> QED
  BY <1>1, <1>2, <1>3, <1>4, <1>5, <1>6, <1>7, <1>8, <1>9, <1>10, <1>11, <1>12, <1>13,
     <1>14, <1>15, <1>16, <1>17, <1>18, <1>19, <1>20, <1>21, <1>22, <1>23, <1>24, <1>25,
     <1>26, <1>27, <1>28, <1>29, <1>30
     DEF Next, App, ApiCall, Outcome, Timer, Watcher, Startable

\* Nobody takes the monitor from who works on an outcome, not even the thread
\* of a call that returned with the monitor locked
LEMMA OwnedStep == TypeOK /\ Owned /\ [Next]_vars => Owned'
<1> SUFFICES ASSUME TypeOK, Owned, [Next]_vars PROVE Owned'
  OBVIOUS
<1>0. pc \in [Threads -> Labels]
  BY DEF TypeOK, ThreadsTypeOK
<1> USE <1>0, NullAssumption DEF Owned, Threads, Busy
<1>1. ASSUME NEW c \in Calls, call_refused(c) PROVE Owned'
  BY <1>1 DEF call_refused, vars, history
<1>2. ASSUME NEW c \in Calls, call_not_formed(c) PROVE Owned'
  BY <1>2 DEF call_not_formed, AppMay
<1>3. ASSUME NEW c \in Calls, NEW fits \in BOOLEAN, call_not_prepared(c, fits)
      PROVE  Owned'
  BY <1>3 DEF call_not_prepared
<1>4. ASSUME NEW c \in Calls, NEW fits \in BOOLEAN, call_started(c, fits)
      PROVE  Owned'
  BY <1>4 DEF call_started, Prepared
<1>5. ASSUME NEW c \in Calls, NEW fits \in BOOLEAN, call_not_enqueued(c, fits)
      PROVE  Owned'
  BY <1>5 DEF call_not_enqueued, Prepared, AppMay, Ends, Goto
<1>6. CASE pubnub_cancel
  BY <1>6 DEF pubnub_cancel
<1>7. CASE pubnub_free
  BY <1>7 DEF pubnub_free, history
<1>8. ASSUME NEW c \in Configurations \cup {NULL}, pubnub_set_retry_configuration(c)
      PROVE  Owned'
  BY <1>8 DEF pubnub_set_retry_configuration, history
<1>9. ASSUME NEW t \in Threads, outcome_retried(t) PROVE Owned'
  BY <1>9 DEF outcome_retried, Return, Released, Goto, history
<1>10. ASSUME NEW t \in Threads, outcome_final(t) PROVE Owned'
  BY <1>10 DEF outcome_final, Goto, history
<1>11. ASSUME NEW t \in Threads, pbcc_request_retry_timer_start(t)
       PROVE  Owned'
  BY <1>11 DEF pbcc_request_retry_timer_start, Goto, history
<1>12. ASSUME NEW t \in Threads, timer_created(t) PROVE Owned'
  BY <1>12 DEF timer_created, Released, history
<1>13. ASSUME NEW t \in Threads, timer_not_created(t) PROVE Owned'
  BY <1>13 DEF timer_not_created, Return, Released, Ends, Goto
<1>14. ASSUME NEW t \in Threads, free_locks(t) PROVE Owned'
  BY <1>14 DEF free_locks, Goto, history
<1>15. ASSUME NEW t \in Threads, pbcc_request_retry_timer_free(t)
       PROVE  Owned'
  BY <1>15 DEF pbcc_request_retry_timer_free, Goto, history
<1>16. ASSUME NEW t \in Threads, outcome_reported(t) PROVE Owned'
  BY <1>16 DEF outcome_reported, Return, Released, Goto
<1>17. CASE timer_reads_delay
  BY <1>17 DEF timer_reads_delay, Goto, history
<1>18. CASE timer_wakes
  BY <1>18 DEF timer_wakes, Goto, history
<1>19. CASE pbcc_request_retry_timer_run_
  BY <1>19 DEF pbcc_request_retry_timer_run_, Return, Ends, Goto
<1>20. CASE pbcc_request_retry_timer_stop
  BY <1>20 DEF pbcc_request_retry_timer_stop, Goto, history
<1>21. CASE connects
  BY <1>21 DEF connects, history
<1>22. CASE request_sent
  BY <1>22 DEF request_sent, history
<1>23. ASSUME NEW r \in Replies, reply_starts(r) PROVE Owned'
  BY <1>23 DEF reply_starts, history
<1>24. ASSUME NEW parses \in BOOLEAN, NEW idle \in Startable, finish(parses, idle)
       PROVE  Owned'
  BY <1>24 DEF finish, WatcherMay, Ends, Goto
<1>25. ASSUME NEW result \in {"CONNECT_FAILED", "IO_ERROR"}, transaction_fails(result)
       PROVE  Owned'
  BY <1>25 DEF transaction_fails, WatcherMay, Ends, Goto
<1>26. CASE pbntf_handle_timer_list
  BY <1>26 DEF pbntf_handle_timer_list, history
<1>27. CASE stopped
  BY <1>27 DEF stopped, WatcherMay, Ends, Goto
<1>28. CASE pballoc_free_at_last
  BY <1>28 DEF pballoc_free_at_last, WatcherMay, Goto, history
<1>29. CASE freed
  BY <1>29 DEF freed, Return, Goto, history
<1>30. CASE UNCHANGED vars
  BY <1>30 DEF vars, history
<1> QED
  BY <1>1, <1>2, <1>3, <1>4, <1>5, <1>6, <1>7, <1>8, <1>9, <1>10, <1>11, <1>12, <1>13,
     <1>14, <1>15, <1>16, <1>17, <1>18, <1>19, <1>20, <1>21, <1>22, <1>23, <1>24, <1>25,
     <1>26, <1>27, <1>28, <1>29, <1>30
     DEF Next, App, ApiCall, Outcome, Timer, Watcher, Startable

\* While somebody works on an outcome nobody changes the state of the context
LEMMA PlacesStep == TypeOK /\ Owned /\ Places /\ TimerThere /\ [Next]_vars => Places'
<1> SUFFICES ASSUME TypeOK, Owned, Places, TimerThere, [Next]_vars PROVE Places'
  OBVIOUS
<1>0. pc \in [Threads -> Labels] /\ timer \in TimerRecord
  BY DEF TypeOK, RetriesTypeOK, ThreadsTypeOK
<1> USE <1>0, NullAssumption
        DEF Owned, Places, TimerThere, TimerRecord, Threads, Busy, Startable, Usable,
            Running
<1>1. ASSUME NEW c \in Calls, call_refused(c) PROVE Places'
  BY <1>1 DEF call_refused, vars, context
<1>2. ASSUME NEW c \in Calls, call_not_formed(c) PROVE Places'
  BY <1>2 DEF call_not_formed, context
<1>3. ASSUME NEW c \in Calls, NEW fits \in BOOLEAN, call_not_prepared(c, fits)
      PROVE  Places'
  BY <1>3 DEF call_not_prepared
<1>4. ASSUME NEW c \in Calls, NEW fits \in BOOLEAN, call_started(c, fits)
      PROVE  Places'
  BY <1>4 DEF call_started, Prepared, AppMay, Idle
<1>5. ASSUME NEW c \in Calls, NEW fits \in BOOLEAN, call_not_enqueued(c, fits)
      PROVE  Places'
  BY <1>5 DEF call_not_enqueued, Prepared, pbnc_can_start_transaction, Ends, Goto
<1>6. CASE pubnub_cancel
  BY <1>6 DEF pubnub_cancel, AppMay, Idle
<1>7. CASE pubnub_free
  BY <1>7 DEF pubnub_free, AppMay, Idle
<1>8. ASSUME NEW c \in Configurations \cup {NULL}, pubnub_set_retry_configuration(c)
      PROVE  Places'
  BY <1>8 DEF pubnub_set_retry_configuration, context
<1>9. ASSUME NEW t \in Threads, outcome_retried(t) PROVE Places'
  BY <1>9 DEF outcome_retried, Return, Goto, context
<1>10. ASSUME NEW t \in Threads, outcome_final(t) PROVE Places'
  BY <1>10 DEF outcome_final, Goto, context
<1>11. ASSUME NEW t \in Threads, pbcc_request_retry_timer_start(t)
       PROVE  Places'
  BY <1>11 DEF pbcc_request_retry_timer_start, Goto
<1>12. ASSUME NEW t \in Threads, timer_created(t) PROVE Places'
  BY <1>12 DEF timer_created
<1>13. ASSUME NEW t \in Threads, timer_not_created(t) PROVE Places'
  BY <1>13 DEF timer_not_created, Return, Ends, Goto
<1>14. ASSUME NEW t \in Threads, free_locks(t) PROVE Places'
  BY <1>14 DEF free_locks, Goto, context
<1>15. ASSUME NEW t \in Threads, pbcc_request_retry_timer_free(t)
       PROVE  Places'
  BY <1>15 DEF pbcc_request_retry_timer_free, Goto, context
<1>16. ASSUME NEW t \in Threads, outcome_reported(t) PROVE Places'
  BY <1>16 DEF outcome_reported, Return, Goto
<1>17. CASE timer_reads_delay
  BY <1>17 DEF timer_reads_delay, Goto, context
<1>18. CASE timer_wakes
  BY <1>18 DEF timer_wakes, Goto, context
<1>19. CASE pbcc_request_retry_timer_run_
  BY <1>19 DEF pbcc_request_retry_timer_run_, Return, Ends, Goto
<1>20. CASE pbcc_request_retry_timer_stop
  BY <1>20 DEF pbcc_request_retry_timer_stop, Goto, context
<1>21. CASE connects
  BY <1>21 DEF connects
<1>22. CASE request_sent
  BY <1>22 DEF request_sent
<1>23. ASSUME NEW r \in Replies, reply_starts(r) PROVE Places'
  BY <1>23 DEF reply_starts
<1>24. ASSUME NEW parses \in BOOLEAN, NEW idle \in Startable, finish(parses, idle)
       PROVE  Places'
  BY <1>24 DEF finish, Ends, Goto
<1>25. ASSUME NEW result \in {"CONNECT_FAILED", "IO_ERROR"}, transaction_fails(result)
       PROVE  Places'
  BY <1>25 DEF transaction_fails, Ends, Goto
<1>26. CASE pbntf_handle_timer_list
  BY <1>26 DEF pbntf_handle_timer_list, WatcherMay
<1>27. CASE stopped
  BY <1>27 DEF stopped, Ends, Goto
<1>28. CASE pballoc_free_at_last
  BY <1>28 DEF pballoc_free_at_last, Goto, context
<1>29. CASE freed
  BY <1>29 DEF freed, Return, Goto
<1>30. CASE UNCHANGED vars
  BY <1>30 DEF vars, context
<1> QED
  BY <1>1, <1>2, <1>3, <1>4, <1>5, <1>6, <1>7, <1>8, <1>9, <1>10, <1>11, <1>12, <1>13,
     <1>14, <1>15, <1>16, <1>17, <1>18, <1>19, <1>20, <1>21, <1>22, <1>23, <1>24, <1>25,
     <1>26, <1>27, <1>28, <1>29, <1>30
     DEF Next, App, ApiCall, Outcome, Timer, Watcher, Startable

\* A retry is only made of a failure that is retried, with attempts left, and a
\* cancelled transaction does not come back (pbnc_stop, the timer's thread)
LEMMA AttemptsStep ==
    TypeOK /\ Owned /\ Places /\ Attempts /\ CancelHolds /\ [Next]_vars
    => (Attempts /\ CancelHolds)'
<1> SUFFICES ASSUME TypeOK, Owned, Places, Attempts, CancelHolds, [Next]_vars
             PROVE  (Attempts /\ CancelHolds)'
  OBVIOUS
<1>0. pc \in [Threads -> Labels]
  BY DEF TypeOK, ThreadsTypeOK
<1> USE <1>0, NullAssumption
        DEF Owned, Places, Attempts, CancelHolds, Threads, Busy, Startable, Usable, Running,
            Retryable
<1>1. ASSUME NEW c \in Calls, call_refused(c)
      PROVE  (Attempts /\ CancelHolds)'
  BY <1>1 DEF call_refused, vars, context, retries
<1>2. ASSUME NEW c \in Calls, call_not_formed(c)
      PROVE  (Attempts /\ CancelHolds)'
  BY <1>2 DEF call_not_formed, context, retries
<1>3. ASSUME NEW c \in Calls, NEW fits \in BOOLEAN, call_not_prepared(c, fits)
      PROVE  (Attempts /\ CancelHolds)'
  BY <1>3 DEF call_not_prepared, retries
<1>4. ASSUME NEW c \in Calls, NEW fits \in BOOLEAN, call_started(c, fits)
      PROVE  (Attempts /\ CancelHolds)'
  BY <1>4 DEF call_started, Prepared, AppMay, Idle, pbnc_can_start_transaction
<1>5. ASSUME NEW c \in Calls, NEW fits \in BOOLEAN, call_not_enqueued(c, fits)
      PROVE  (Attempts /\ CancelHolds)'
  BY <1>5 DEF call_not_enqueued, Prepared, AppMay, Ends, Goto
<1>6. CASE pubnub_cancel
  BY <1>6 DEF pubnub_cancel, AppMay, Idle, pbnc_stop
<1>7. CASE pubnub_free
  BY <1>7 DEF pubnub_free, AppMay, Idle
<1>8. ASSUME NEW c \in Configurations \cup {NULL}, pubnub_set_retry_configuration(c)
      PROVE  (Attempts /\ CancelHolds)'
  BY <1>8 DEF pubnub_set_retry_configuration, context
<1>9. ASSUME NEW t \in Threads, outcome_retried(t)
      PROVE  (Attempts /\ CancelHolds)'
  BY <1>9 DEF outcome_retried, context, pubnub_retry_configuration_retryable_result_
<1>10. ASSUME NEW t \in Threads, outcome_final(t)
       PROVE  (Attempts /\ CancelHolds)'
  BY <1>10 DEF outcome_final, Goto, context
<1>11. ASSUME NEW t \in Threads, pbcc_request_retry_timer_start(t)
       PROVE  (Attempts /\ CancelHolds)'
  BY <1>11 DEF pbcc_request_retry_timer_start, Goto
<1>12. ASSUME NEW t \in Threads, timer_created(t)
       PROVE  (Attempts /\ CancelHolds)'
  BY <1>12 DEF timer_created, context
<1>13. ASSUME NEW t \in Threads, timer_not_created(t)
       PROVE  (Attempts /\ CancelHolds)'
  BY <1>13 DEF timer_not_created, Again, Return, Ends, Goto
<1>14. ASSUME NEW t \in Threads, free_locks(t)
       PROVE  (Attempts /\ CancelHolds)'
  BY <1>14 DEF free_locks, Goto, context
<1>15. ASSUME NEW t \in Threads, pbcc_request_retry_timer_free(t)
       PROVE  (Attempts /\ CancelHolds)'
  BY <1>15 DEF pbcc_request_retry_timer_free, Goto, context
<1>16. ASSUME NEW t \in Threads, outcome_reported(t)
       PROVE  (Attempts /\ CancelHolds)'
  BY <1>16 DEF outcome_reported, Return, Goto
<1>17. CASE timer_reads_delay
  BY <1>17 DEF timer_reads_delay, Goto, context, retries
<1>18. CASE timer_wakes
  BY <1>18 DEF timer_wakes, Goto, context, retries
<1>19. CASE pbcc_request_retry_timer_run_
  BY <1>19 DEF pbcc_request_retry_timer_run_, Again, Return, Ends, Goto, retries
<1>20. CASE pbcc_request_retry_timer_stop
  BY <1>20 DEF pbcc_request_retry_timer_stop, Goto, context
<1>21. CASE connects
  BY <1>21 DEF connects
<1>22. CASE request_sent
  BY <1>22 DEF request_sent
<1>23. ASSUME NEW r \in Replies, reply_starts(r)
       PROVE  (Attempts /\ CancelHolds)'
  BY <1>23 DEF reply_starts
<1>24. ASSUME NEW parses \in BOOLEAN, NEW idle \in Startable, finish(parses, idle)
       PROVE  (Attempts /\ CancelHolds)'
  BY <1>24 DEF finish, Ends, Goto, retries
<1>25. ASSUME NEW result \in {"CONNECT_FAILED", "IO_ERROR"}, transaction_fails(result)
       PROVE  (Attempts /\ CancelHolds)'
  BY <1>25 DEF transaction_fails, Ends, Goto, retries
<1>26. CASE pbntf_handle_timer_list
  BY <1>26 DEF pbntf_handle_timer_list, pbnc_stop, retries
<1>27. CASE stopped
  BY <1>27 DEF stopped, Ends, Goto, retries
<1>28. CASE pballoc_free_at_last
  BY <1>28 DEF pballoc_free_at_last, Goto, context
<1>29. CASE freed
  BY <1>29 DEF freed, Return, Goto
<1>30. CASE UNCHANGED vars
  BY <1>30 DEF vars, context, retries
<1> QED
  BY <1>1, <1>2, <1>3, <1>4, <1>5, <1>6, <1>7, <1>8, <1>9, <1>10, <1>11, <1>12, <1>13,
     <1>14, <1>15, <1>16, <1>17, <1>18, <1>19, <1>20, <1>21, <1>22, <1>23, <1>24, <1>25,
     <1>26, <1>27, <1>28, <1>29, <1>30
     DEF Next, App, ApiCall, Outcome, Timer, Watcher, Startable

\* Somebody is there to end the wait for a retry: the thread that has stopped
\* the timer created the next one under the same monitor, or sent the request
LEMMA TimerStep ==
    TypeOK /\ Owned /\ Places /\ Attempts /\ TimerThere /\ RetryIsTimed /\ [Next]_vars
    => (TimerThere /\ RetryIsTimed)'
<1> SUFFICES ASSUME TypeOK, Owned, Places, Attempts, TimerThere, RetryIsTimed, [Next]_vars
             PROVE  (TimerThere /\ RetryIsTimed)'
  OBVIOUS
<1>0. pc \in [Threads -> Labels] /\ timer \in TimerRecord
  BY DEF TypeOK, RetriesTypeOK, ThreadsTypeOK
<1> USE <1>0, NullAssumption
        DEF Owned, Places, Attempts, TimerThere, TimerRecord, RetryIsTimed, Threads, Busy,
            Startable, Usable, Running
<1>1. ASSUME NEW c \in Calls, call_refused(c)
      PROVE  (TimerThere /\ RetryIsTimed)'
  BY <1>1 DEF call_refused, vars, context, retries
<1>2. ASSUME NEW c \in Calls, call_not_formed(c)
      PROVE  (TimerThere /\ RetryIsTimed)'
  BY <1>2 DEF call_not_formed, context, retries
<1>3. ASSUME NEW c \in Calls, NEW fits \in BOOLEAN, call_not_prepared(c, fits)
      PROVE  (TimerThere /\ RetryIsTimed)'
  BY <1>3 DEF call_not_prepared, retries
<1>4. ASSUME NEW c \in Calls, NEW fits \in BOOLEAN, call_started(c, fits)
      PROVE  (TimerThere /\ RetryIsTimed)'
  BY <1>4 DEF call_started, Prepared, pbnc_can_start_transaction, retries
<1>5. ASSUME NEW c \in Calls, NEW fits \in BOOLEAN, call_not_enqueued(c, fits)
      PROVE  (TimerThere /\ RetryIsTimed)'
  BY <1>5 DEF call_not_enqueued, Prepared, pbnc_can_start_transaction, Ends, Goto, retries
<1>6. CASE pubnub_cancel
  BY <1>6 DEF pubnub_cancel, AppMay, pbnc_stop, retries
<1>7. CASE pubnub_free
  BY <1>7 DEF pubnub_free, retries
<1>8. ASSUME NEW c \in Configurations \cup {NULL}, pubnub_set_retry_configuration(c)
      PROVE  (TimerThere /\ RetryIsTimed)'
  BY <1>8 DEF pubnub_set_retry_configuration, context
<1>9. ASSUME NEW t \in Threads, outcome_retried(t)
      PROVE  (TimerThere /\ RetryIsTimed)'
  BY <1>9 DEF outcome_retried, Return, Goto, context
<1>10. ASSUME NEW t \in Threads, outcome_final(t)
       PROVE  (TimerThere /\ RetryIsTimed)'
  BY <1>10 DEF outcome_final, Goto, context, retries
<1>11. ASSUME NEW t \in Threads, pbcc_request_retry_timer_start(t)
       PROVE  (TimerThere /\ RetryIsTimed)'
  BY <1>11 DEF pbcc_request_retry_timer_start, Goto
<1>12. ASSUME NEW t \in Threads, timer_created(t)
       PROVE  (TimerThere /\ RetryIsTimed)'
  BY <1>12 DEF timer_created
<1>13. ASSUME NEW t \in Threads, timer_not_created(t)
       PROVE  (TimerThere /\ RetryIsTimed)'
  BY <1>13 DEF timer_not_created, Again, Return, Ends, Goto
<1>14. ASSUME NEW t \in Threads, free_locks(t)
       PROVE  (TimerThere /\ RetryIsTimed)'
  BY <1>14 DEF free_locks, Goto, context, retries
<1>15. ASSUME NEW t \in Threads, pbcc_request_retry_timer_free(t)
       PROVE  (TimerThere /\ RetryIsTimed)'
  BY <1>15 DEF pbcc_request_retry_timer_free, Goto, context
<1>16. ASSUME NEW t \in Threads, outcome_reported(t)
       PROVE  (TimerThere /\ RetryIsTimed)'
  BY <1>16 DEF outcome_reported, Return, Goto, retries
<1>17. CASE timer_reads_delay
  BY <1>17 DEF timer_reads_delay, Goto, context, retries
<1>18. CASE timer_wakes
  BY <1>18 DEF timer_wakes, Goto, context, retries
<1>19. CASE pbcc_request_retry_timer_run_
  BY <1>19 DEF pbcc_request_retry_timer_run_, Again, Return, Ends, Goto, retries
<1>20. CASE pbcc_request_retry_timer_stop
  BY <1>20 DEF pbcc_request_retry_timer_stop, Goto, context
<1>21. CASE connects
  BY <1>21 DEF connects, retries
<1>22. CASE request_sent
  BY <1>22 DEF request_sent, retries
<1>23. ASSUME NEW r \in Replies, reply_starts(r)
       PROVE  (TimerThere /\ RetryIsTimed)'
  BY <1>23 DEF reply_starts, retries
<1>24. ASSUME NEW parses \in BOOLEAN, NEW idle \in Startable, finish(parses, idle)
       PROVE  (TimerThere /\ RetryIsTimed)'
  BY <1>24 DEF finish, Ends, Goto, retries
<1>25. ASSUME NEW result \in {"CONNECT_FAILED", "IO_ERROR"}, transaction_fails(result)
       PROVE  (TimerThere /\ RetryIsTimed)'
  BY <1>25 DEF transaction_fails, Ends, Goto, retries
<1>26. CASE pbntf_handle_timer_list
  BY <1>26 DEF pbntf_handle_timer_list, pbnc_stop, retries
<1>27. CASE stopped
  BY <1>27 DEF stopped, Ends, Goto, retries
<1>28. CASE pballoc_free_at_last
  BY <1>28 DEF pballoc_free_at_last, Goto, context
<1>29. CASE freed
  BY <1>29 DEF freed, Return, Goto, retries
<1>30. CASE UNCHANGED vars
  BY <1>30 DEF vars, context, retries
<1> QED
  BY <1>1, <1>2, <1>3, <1>4, <1>5, <1>6, <1>7, <1>8, <1>9, <1>10, <1>11, <1>12, <1>13,
     <1>14, <1>15, <1>16, <1>17, <1>18, <1>19, <1>20, <1>21, <1>22, <1>23, <1>24, <1>25,
     <1>26, <1>27, <1>28, <1>29, <1>30
     DEF Next, App, ApiCall, Outcome, Timer, Watcher, Startable

\* An outcome is reported once: `pending' lasts until the report
LEMMA WaitedStep ==
    TypeOK /\ Owned /\ Places /\ Attempts /\ Waited /\ OneOutcome /\ [Next]_vars
    => (Waited /\ OneOutcome)'
<1> SUFFICES ASSUME TypeOK, Owned, Places, Attempts, Waited, OneOutcome, [Next]_vars
             PROVE  (Waited /\ OneOutcome)'
  OBVIOUS
<1>0. pc \in [Threads -> Labels]
  BY DEF TypeOK, ThreadsTypeOK
<1> USE <1>0, NullAssumption
        DEF Owned, Places, Attempts, Waited, OneOutcome, Threads, Busy, Startable, Usable,
            Running
<1>1. ASSUME NEW c \in Calls, call_refused(c)
      PROVE  (Waited /\ OneOutcome)'
  BY <1>1 DEF call_refused, vars, context, history
<1>2. ASSUME NEW c \in Calls, call_not_formed(c)
      PROVE  (Waited /\ OneOutcome)'
  BY <1>2 DEF call_not_formed, context
<1>3. ASSUME NEW c \in Calls, NEW fits \in BOOLEAN, call_not_prepared(c, fits)
      PROVE  (Waited /\ OneOutcome)'
  BY <1>3 DEF call_not_prepared
<1>4. ASSUME NEW c \in Calls, NEW fits \in BOOLEAN, call_started(c, fits)
      PROVE  (Waited /\ OneOutcome)'
  BY <1>4 DEF call_started, Prepared
<1>5. ASSUME NEW c \in Calls, NEW fits \in BOOLEAN, call_not_enqueued(c, fits)
      PROVE  (Waited /\ OneOutcome)'
  BY <1>5 DEF call_not_enqueued, Prepared
<1>6. CASE pubnub_cancel
  BY <1>6 DEF pubnub_cancel, AppMay, Idle, pbnc_stop, pbnc_can_start_transaction, retries
<1>7. CASE pubnub_free
  BY <1>7 DEF pubnub_free, history
<1>8. ASSUME NEW c \in Configurations \cup {NULL}, pubnub_set_retry_configuration(c)
      PROVE  (Waited /\ OneOutcome)'
  BY <1>8 DEF pubnub_set_retry_configuration, context, history
<1>9. ASSUME NEW t \in Threads, outcome_retried(t)
      PROVE  (Waited /\ OneOutcome)'
  BY <1>9 DEF outcome_retried, history
<1>10. ASSUME NEW t \in Threads, outcome_final(t)
       PROVE  (Waited /\ OneOutcome)'
  BY <1>10 DEF outcome_final, history
<1>11. ASSUME NEW t \in Threads, pbcc_request_retry_timer_start(t)
       PROVE  (Waited /\ OneOutcome)'
  BY <1>11 DEF pbcc_request_retry_timer_start, history
<1>12. ASSUME NEW t \in Threads, timer_created(t)
       PROVE  (Waited /\ OneOutcome)'
  BY <1>12 DEF timer_created, history
<1>13. ASSUME NEW t \in Threads, timer_not_created(t)
       PROVE  (Waited /\ OneOutcome)'
  BY <1>13 DEF timer_not_created
<1>14. ASSUME NEW t \in Threads, free_locks(t)
       PROVE  (Waited /\ OneOutcome)'
  BY <1>14 DEF free_locks, context, history
<1>15. ASSUME NEW t \in Threads, pbcc_request_retry_timer_free(t)
       PROVE  (Waited /\ OneOutcome)'
  BY <1>15 DEF pbcc_request_retry_timer_free, context, history
<1>16. ASSUME NEW t \in Threads, outcome_reported(t)
       PROVE  (Waited /\ OneOutcome)'
  BY <1>16 DEF outcome_reported, Return, Released, Goto, retries
<1>17. CASE timer_reads_delay
  BY <1>17 DEF timer_reads_delay, Goto, context, history
<1>18. CASE timer_wakes
  BY <1>18 DEF timer_wakes, Goto, context, history
<1>19. CASE pbcc_request_retry_timer_run_
  BY <1>19 DEF pbcc_request_retry_timer_run_, Return, Goto
<1>20. CASE pbcc_request_retry_timer_stop
  BY <1>20 DEF pbcc_request_retry_timer_stop, Goto, context, history
<1>21. CASE connects
  BY <1>21 DEF connects, history
<1>22. CASE request_sent
  BY <1>22 DEF request_sent, history
<1>23. ASSUME NEW r \in Replies, reply_starts(r)
       PROVE  (Waited /\ OneOutcome)'
  BY <1>23 DEF reply_starts, history
<1>24. ASSUME NEW parses \in BOOLEAN, NEW idle \in Startable, finish(parses, idle)
       PROVE  (Waited /\ OneOutcome)'
  BY <1>24 DEF finish
<1>25. ASSUME NEW result \in {"CONNECT_FAILED", "IO_ERROR"}, transaction_fails(result)
       PROVE  (Waited /\ OneOutcome)'
  BY <1>25 DEF transaction_fails
<1>26. CASE pbntf_handle_timer_list
  BY <1>26 DEF pbntf_handle_timer_list, history
<1>27. CASE stopped
  BY <1>27 DEF stopped
<1>28. CASE pballoc_free_at_last
  BY <1>28 DEF pballoc_free_at_last, context, history
<1>29. CASE freed
  BY <1>29 DEF freed, Return, Goto, history
<1>30. CASE UNCHANGED vars
  BY <1>30 DEF vars, context, history
<1> QED
  BY <1>1, <1>2, <1>3, <1>4, <1>5, <1>6, <1>7, <1>8, <1>9, <1>10, <1>11, <1>12, <1>13,
     <1>14, <1>15, <1>16, <1>17, <1>18, <1>19, <1>20, <1>21, <1>22, <1>23, <1>24, <1>25,
     <1>26, <1>27, <1>28, <1>29, <1>30
     DEF Next, App, ApiCall, Outcome, Timer, Watcher, Startable

\* The request in http_buf stays the one asked for until it is sent, but for
\* what the code is known to get wrong: no call gets between, because a context
\* that waits cannot start another transaction (pbnc_can_start_transaction)
LEMMA RequestStep ==
    TypeOK /\ Owned /\ Places /\ Request /\ RequestIsTheCalls /\ [Next]_vars
    => (Request /\ RequestIsTheCalls)'
<1> SUFFICES ASSUME TypeOK, Owned, Places, Request, RequestIsTheCalls, [Next]_vars
             PROVE  (Request /\ RequestIsTheCalls)'
  OBVIOUS
<1>0. pc \in [Threads -> Labels]
  BY DEF TypeOK, ThreadsTypeOK
<1> USE <1>0, NullAssumption
        DEF Owned, Places, Request, RequestIsTheCalls, AsAsked, HasBody, Threads, Busy,
            Startable, Usable, Running
<1>1. ASSUME NEW c \in Calls, call_refused(c)
      PROVE  (Request /\ RequestIsTheCalls)'
  BY <1>1 DEF call_refused, vars, context, history
<1>2. ASSUME NEW c \in Calls, call_not_formed(c)
      PROVE  (Request /\ RequestIsTheCalls)'
  BY <1>2 DEF call_not_formed, context
<1>3. ASSUME NEW c \in Calls, NEW fits \in BOOLEAN, call_not_prepared(c, fits)
      PROVE  (Request /\ RequestIsTheCalls)'
  BY <1>3 DEF call_not_prepared, AppMay, Idle, pbnc_can_start_transaction
<1>4. ASSUME NEW c \in Calls, NEW fits \in BOOLEAN, call_started(c, fits)
      PROVE  (Request /\ RequestIsTheCalls)'
  BY <1>4, CallsShape
     DEF CallShape, call_started, Prepared, AppMay, Idle, pbnc_can_start_transaction,
         pbgzip_compress
<1>5. ASSUME NEW c \in Calls, NEW fits \in BOOLEAN, call_not_enqueued(c, fits)
      PROVE  (Request /\ RequestIsTheCalls)'
  BY <1>5, CallsShape DEF CallShape, call_not_enqueued, Prepared, Ends
<1>6. CASE pubnub_cancel
  BY <1>6 DEF pubnub_cancel, AppMay, pbnc_stop
<1>7. CASE pubnub_free
  BY <1>7 DEF pubnub_free, history
<1>8. ASSUME NEW c \in Configurations \cup {NULL}, pubnub_set_retry_configuration(c)
      PROVE  (Request /\ RequestIsTheCalls)'
  BY <1>8 DEF pubnub_set_retry_configuration, context, history
<1>9. ASSUME NEW t \in Threads, outcome_retried(t)
      PROVE  (Request /\ RequestIsTheCalls)'
  BY <1>9 DEF outcome_retried, context, history
<1>10. ASSUME NEW t \in Threads, outcome_final(t)
       PROVE  (Request /\ RequestIsTheCalls)'
  BY <1>10 DEF outcome_final, context, history
<1>11. ASSUME NEW t \in Threads, pbcc_request_retry_timer_start(t)
       PROVE  (Request /\ RequestIsTheCalls)'
  BY <1>11 DEF pbcc_request_retry_timer_start, history
<1>12. ASSUME NEW t \in Threads, timer_created(t)
       PROVE  (Request /\ RequestIsTheCalls)'
  BY <1>12 DEF timer_created, context, history
<1>13. ASSUME NEW t \in Threads, timer_not_created(t)
       PROVE  (Request /\ RequestIsTheCalls)'
  BY <1>13 DEF timer_not_created, Again, Ends
<1>14. ASSUME NEW t \in Threads, free_locks(t)
       PROVE  (Request /\ RequestIsTheCalls)'
  BY <1>14 DEF free_locks, context, history
<1>15. ASSUME NEW t \in Threads, pbcc_request_retry_timer_free(t)
       PROVE  (Request /\ RequestIsTheCalls)'
  BY <1>15 DEF pbcc_request_retry_timer_free, context, history
<1>16. ASSUME NEW t \in Threads, outcome_reported(t)
       PROVE  (Request /\ RequestIsTheCalls)'
  BY <1>16 DEF outcome_reported, Return, Released, Goto, retries
<1>17. CASE timer_reads_delay
  BY <1>17 DEF timer_reads_delay, Goto, context, history
<1>18. CASE timer_wakes
  BY <1>18 DEF timer_wakes, Goto, context, history
<1>19. CASE pbcc_request_retry_timer_run_
  BY <1>19 DEF pbcc_request_retry_timer_run_, Again, Return, Ends, Goto
<1>20. CASE pbcc_request_retry_timer_stop
  BY <1>20 DEF pbcc_request_retry_timer_stop, Goto, context, history
<1>21. CASE connects
  BY <1>21 DEF connects, history
<1>22. CASE request_sent
  BY <1>22 DEF request_sent, history
<1>23. ASSUME NEW r \in Replies, reply_starts(r)
       PROVE  (Request /\ RequestIsTheCalls)'
  BY <1>23 DEF reply_starts, history
<1>24. ASSUME NEW parses \in BOOLEAN, NEW idle \in Startable, finish(parses, idle)
       PROVE  (Request /\ RequestIsTheCalls)'
  BY <1>24 DEF finish, Ends
<1>25. ASSUME NEW result \in {"CONNECT_FAILED", "IO_ERROR"}, transaction_fails(result)
       PROVE  (Request /\ RequestIsTheCalls)'
  BY <1>25 DEF transaction_fails, Ends
<1>26. CASE pbntf_handle_timer_list
  BY <1>26 DEF pbntf_handle_timer_list, WatcherMay, pbnc_stop, history
<1>27. CASE stopped
  BY <1>27 DEF stopped, Ends
<1>28. CASE pballoc_free_at_last
  BY <1>28 DEF pballoc_free_at_last, context, history
<1>29. CASE freed
  BY <1>29 DEF freed, Return, Goto, history
<1>30. CASE UNCHANGED vars
  BY <1>30 DEF vars, context, history
<1> QED
  BY <1>1, <1>2, <1>3, <1>4, <1>5, <1>6, <1>7, <1>8, <1>9, <1>10, <1>11, <1>12, <1>13,
     <1>14, <1>15, <1>16, <1>17, <1>18, <1>19, <1>20, <1>21, <1>22, <1>23, <1>24, <1>25,
     <1>26, <1>27, <1>28, <1>29, <1>30
     DEF Next, App, ApiCall, Outcome, Timer, Watcher, Startable

\* trans stays that of the call from its start to the answer, through retries
\* and through a cancel that comes to nothing, so that the answer read is its own
LEMMA TransactionStep ==
    TypeOK /\ Owned /\ Places /\ Attempts /\ Transaction /\ RequestIsTheCalls /\
    ReadsItsReply /\ [Next]_vars
    => (Transaction /\ ReadsItsReply)'
<1> SUFFICES ASSUME TypeOK, Owned, Places, Attempts, Transaction, RequestIsTheCalls,
                    ReadsItsReply, [Next]_vars
             PROVE  (Transaction /\ ReadsItsReply)'
  OBVIOUS
<1>0. pc \in [Threads -> Labels]
  BY DEF TypeOK, ThreadsTypeOK
<1> USE <1>0, NullAssumption
        DEF Owned, Places, Attempts, Transaction, RequestIsTheCalls, ReadsItsReply,
            pbnc_can_start_transaction, Threads, Busy, Startable, Usable, Running, Retryable
<1>1. ASSUME NEW c \in Calls, call_refused(c)
      PROVE  (Transaction /\ ReadsItsReply)'
  BY <1>1 DEF call_refused, vars, context, history
<1>2. ASSUME NEW c \in Calls, call_not_formed(c)
      PROVE  (Transaction /\ ReadsItsReply)'
  BY <1>2 DEF call_not_formed, context
<1>3. ASSUME NEW c \in Calls, NEW fits \in BOOLEAN, call_not_prepared(c, fits)
      PROVE  (Transaction /\ ReadsItsReply)'
  BY <1>3 DEF call_not_prepared, AppMay, Idle
<1>4. ASSUME NEW c \in Calls, NEW fits \in BOOLEAN, call_started(c, fits)
      PROVE  (Transaction /\ ReadsItsReply)'
  BY <1>4, CallsShape DEF CallShape, call_started, Prepared
<1>5. ASSUME NEW c \in Calls, NEW fits \in BOOLEAN, call_not_enqueued(c, fits)
      PROVE  (Transaction /\ ReadsItsReply)'
  BY <1>5, CallsShape DEF call_not_enqueued, Ends
<1>6. CASE pubnub_cancel
  BY <1>6 DEF pubnub_cancel, pbnc_stop
<1>7. CASE pubnub_free
  BY <1>7 DEF pubnub_free
<1>8. ASSUME NEW c \in Configurations \cup {NULL}, pubnub_set_retry_configuration(c)
      PROVE  (Transaction /\ ReadsItsReply)'
  BY <1>8 DEF pubnub_set_retry_configuration, context, history
<1>9. ASSUME NEW t \in Threads, outcome_retried(t)
      PROVE  (Transaction /\ ReadsItsReply)'
  BY <1>9 DEF outcome_retried, context, history
<1>10. ASSUME NEW t \in Threads, outcome_final(t)
       PROVE  (Transaction /\ ReadsItsReply)'
  BY <1>10 DEF outcome_final, context, history
<1>11. ASSUME NEW t \in Threads, pbcc_request_retry_timer_start(t)
       PROVE  (Transaction /\ ReadsItsReply)'
  BY <1>11 DEF pbcc_request_retry_timer_start, history
<1>12. ASSUME NEW t \in Threads, timer_created(t)
       PROVE  (Transaction /\ ReadsItsReply)'
  BY <1>12 DEF timer_created, context, history
<1>13. ASSUME NEW t \in Threads, timer_not_created(t)
       PROVE  (Transaction /\ ReadsItsReply)'
  BY <1>13 DEF timer_not_created, Again, Ends
<1>14. ASSUME NEW t \in Threads, free_locks(t)
       PROVE  (Transaction /\ ReadsItsReply)'
  BY <1>14 DEF free_locks, Goto, context, history
<1>15. ASSUME NEW t \in Threads, pbcc_request_retry_timer_free(t)
       PROVE  (Transaction /\ ReadsItsReply)'
  BY <1>15 DEF pbcc_request_retry_timer_free, Goto, context, history
<1>16. ASSUME NEW t \in Threads, outcome_reported(t)
       PROVE  (Transaction /\ ReadsItsReply)'
  BY <1>16 DEF outcome_reported, Return, Goto
<1>17. CASE timer_reads_delay
  BY <1>17 DEF timer_reads_delay, Goto, context, history
<1>18. CASE timer_wakes
  BY <1>18 DEF timer_wakes, Goto, context, history
<1>19. CASE pbcc_request_retry_timer_run_
  BY <1>19 DEF pbcc_request_retry_timer_run_, Again, Return, Ends, Goto
<1>20. CASE pbcc_request_retry_timer_stop
  BY <1>20 DEF pbcc_request_retry_timer_stop, Goto, context, history
<1>21. CASE connects
  BY <1>21 DEF connects, history
<1>22. CASE request_sent
  BY <1>22 DEF request_sent, history
<1>23. ASSUME NEW r \in Replies, reply_starts(r)
       PROVE  (Transaction /\ ReadsItsReply)'
  BY <1>23 DEF reply_starts, history
<1>24. ASSUME NEW parses \in BOOLEAN, NEW idle \in Startable, finish(parses, idle)
       PROVE  (Transaction /\ ReadsItsReply)'
  BY <1>24 DEF finish, Ends
<1>25. ASSUME NEW result \in {"CONNECT_FAILED", "IO_ERROR"}, transaction_fails(result)
       PROVE  (Transaction /\ ReadsItsReply)'
  BY <1>25 DEF transaction_fails, Ends
<1>26. CASE pbntf_handle_timer_list
  BY <1>26 DEF pbntf_handle_timer_list, pbnc_stop, history
<1>27. CASE stopped
  BY <1>27 DEF stopped, Ends
<1>28. CASE pballoc_free_at_last
  BY <1>28 DEF pballoc_free_at_last, Goto, context
<1>29. CASE freed
  BY <1>29 DEF freed, Return, Goto
<1>30. CASE UNCHANGED vars
  BY <1>30 DEF vars, context, history
<1> QED
  BY <1>1, <1>2, <1>3, <1>4, <1>5, <1>6, <1>7, <1>8, <1>9, <1>10, <1>11, <1>12, <1>13,
     <1>14, <1>15, <1>16, <1>17, <1>18, <1>19, <1>20, <1>21, <1>22, <1>23, <1>24, <1>25,
     <1>26, <1>27, <1>28, <1>29, <1>30
     DEF Next, App, ApiCall, Outcome, Timer, Watcher, Startable

-----------------------------------------------------------------------------
(* The theorems *)

\* A context as pubnub_init leaves it satisfies the invariant
LEMMA InitInv == Init => Inv
<1> SUFFICES ASSUME Init PROVE Inv
  OBVIOUS
<1>1. pc["app"] = "idle" /\ pc["watcher"] = "idle" /\ pc["timer"] = "none"
  BY DEF Init
<1>2. ContextTypeOK /\ RetriesTypeOK
  <2>1. ContextTypeOK
    BY DEF Init, ContextTypeOK, Usable
  <2>2. RetriesTypeOK
    BY NoTimerType, BoundsAssumption DEF Init, RetriesTypeOK
  <2> QED
    BY <2>1, <2>2
<1>3. ThreadsTypeOK
  BY DEF Init, ThreadsTypeOK, Threads, Labels
<1>4. \A t \in Threads : pc[t] \notin Busy
  BY <1>1 DEF Threads, Busy
<1>5. Owned /\ Places
  BY <1>1, <1>4 DEF Init, Owned, Places, Busy
<1>6. Attempts /\ TimerThere /\ Waited
  BY <1>1, <1>4 DEF Init, Attempts, TimerThere, Waited, Running, Busy
<1>7. Request /\ Transaction
  BY <1>4 DEF Init, Request, Transaction, Get, HasBody, Running, Startable, Busy
<1>8. RequestIsTheCalls /\ ReadsItsReply /\ OneOutcome /\ CancelHolds /\ RetryIsTimed
  BY DEF Init, RequestIsTheCalls, ReadsItsReply, OneOutcome, CancelHolds, RetryIsTimed, Running
<1> QED
  BY <1>1, <1>2, <1>3, <1>4, <1>5, <1>6, <1>7, <1>8 DEF Inv, TypeOK

\* Every step keeps it
LEMMA StepInv == Inv /\ [Next]_vars => Inv'
<1> SUFFICES ASSUME Inv, [Next]_vars PROVE Inv'
  OBVIOUS
<1> USE DEF Inv
<1>1. TypeOK'
  BY ThreadsTypeStep, ContextTypeStep, RetriesTypeStep DEF TypeOK
<1>2. Owned' /\ Places'
  BY OwnedStep, PlacesStep
<1>3. Attempts' /\ CancelHolds'
  BY AttemptsStep
<1>4. TimerThere' /\ RetryIsTimed'
  BY TimerStep
<1>5. Waited' /\ OneOutcome'
  BY WaitedStep
<1>6. Request' /\ RequestIsTheCalls'
  BY RequestStep
<1>7. Transaction' /\ ReadsItsReply'
  BY TransactionStep
<1> QED
  BY <1>1, <1>2, <1>3, <1>4, <1>5, <1>6, <1>7

\* The invariant holds in every state
THEOREM Invariance == Spec => []Inv
  BY InitInv, StepInv, PTL DEF Spec

\* Types hold, the delay's 16 bits among them, whatever pause the configuration
\* or the Retry-After header of a reply asks for (pbntf_trans_outcome)
THEOREM TypeCorrect == Spec => []TypeOK
<1>1. Inv => TypeOK
  BY DEF Inv
<1> QED
  BY <1>1, Invariance, PTL

\* What is sent is the request the application asked for (the API's calls,
\* PBNTF_TRANS_OUTCOME_COMMON, the retries)
THEOREM SendsWhatWasAsked == Spec => []RequestIsTheCalls
<1>1. Inv => RequestIsTheCalls
  BY DEF Inv
<1> QED
  BY <1>1, Invariance, PTL

\* The functions that read an answer find that of the transaction they go by
THEOREM AnswersMatch == Spec => []ReadsItsReply
<1>1. Inv => ReadsItsReply
  BY DEF Inv
<1> QED
  BY <1>1, Invariance, PTL

\* Nobody is called back who did not wait for it (pbntf_trans_outcome)
THEOREM ReportedOnce == Spec => []OneOutcome
<1>1. Inv => OneOutcome
  BY DEF Inv
<1> QED
  BY <1>1, Invariance, PTL

\* A cancelled transaction is not sent again (pbcc_request_retry_timer_run_)
THEOREM CancelIsFinal == Spec => []CancelHolds
<1>1. Inv => CancelHolds
  BY DEF Inv
<1> QED
  BY <1>1, Invariance, PTL

\* Nobody waits for a retry that no thread will make (pbcc_request_retry_timer_start)
THEOREM RetryComes == Spec => []RetryIsTimed
<1>1. Inv => RetryIsTimed
  BY DEF Inv
<1> QED
  BY <1>1, Invariance, PTL
=============================================================================
