--------------------------- MODULE AutoHeartbeat ---------------------------
(***************************************************************************)
(* Automatic heartbeats (core/pbauto_heartbeat.c): a slot ("thumper") of   *)
(* the module lends a context a second context of its own, which beats     *)
(* whenever the slot's timer expires.                                      *)
(*                                                                         *)
(* Three threads share the slots: the application's, the watcher of the    *)
(* callback interface, which ends the transactions of both contexts with   *)
(* their monitor held, and the heartbeat watcher, which counts the timers  *)
(* down.  A step is what a thread does from taking a mutex until it needs  *)
(* the next; mutexes are recursive, so a thread waits only for another.    *)
(* A failed assertion ends the program.                                    *)
(***************************************************************************)
EXTENDS Integers, Sequences, FiniteSets, SequencesExt

CONSTANTS Contexts, NULL,
          MaxThumpers,    \* PUBNUB_MAX_HEARTBEAT_THUMPERS
          KeysOf,         \* the publish and subscribe keys of each context
          Periods,        \* heartbeat periods, in rounds of the heartbeat watcher
          MinPeriod,      \* PUBNUB_MIN_HEARTBEAT_PERIOD
          Calls,          \* API calls the application makes
          MaxCalls        \* bound on their number

ASSUME ThumpersAssumption == MaxThumpers \in Nat \ {0}
ASSUME NullAssumption == NULL \notin Contexts
ASSUME PeriodsAssumption == Periods \subseteq Nat \ {0} /\ MinPeriod \in Nat \ {0}
ASSUME ContextsAssumption == Contexts \cap (0 .. MaxThumpers - 1) = {}
ASSUME CallsAssumption ==
    /\ Calls \subseteq {"enable", "set_period", "disable", "subscribe", "leave", "smart"}
    /\ MaxCalls \in Nat

Thumpers == 0 .. MaxThumpers - 1
UNASSIGNED == MaxThumpers


VARIABLES heartbeat_data,   \* per slot: its context, the keys of its heartbeat context and
                            \* whether that has its callback, the period
          thumpers_in_use,
          heartbeat_timers, \* time left of each slot's timer
          timer_index_array,\* the active timers' slots
          pb,               \* the heartbeat part of each context, and its transaction
          beat,             \* the transaction of each slot's heartbeat context
          mutw, timerlock,  \* who holds each mutex ...
          monitor,          \* ... of the module, of the contexts and heartbeat contexts
          thumper_monitor,
          call,             \* where each thread is
          made,             \* API calls made
          failed,           \* assertions that failed
          plain,            \* history: slots never released, nor used in smart mode
          given_up          \* history: slots that were released, and their contexts

slots == <<heartbeat_data, thumpers_in_use>>
timers == <<heartbeat_timers, timer_index_array>>
locks == <<mutw, timerlock, monitor, thumper_monitor>>
vars == <<slots, timers, pb, beat, locks, call, made, failed, plain, given_up>>

Threads == {"app", "watcher", "heart"}
NoThread == "none"
NoKeys == "no keys"     \* heartbeat_pb == NULL

\* A thread's frame: the step it is at, the context and the slot it works on,
\* the monitor it was entered with, the step to return to, and its locals.
Idle == [at |-> "idle", pb |-> NULL, thumper |-> UNASSIGNED, of |-> NULL, then |-> "done",
         started |-> FALSE, period |-> 0, result |-> "none", indexes |-> <<>>, i |-> 1]

(***************************************************************************)
(* Mutexes.  A step may take a mutex nobody else holds.                    *)
(***************************************************************************)
Free(owner, t) == owner \in {NoThread, t}

\* pbnc_can_start_transaction
CanStart(state) == state \in {"IDLE", "KEEP_ALIVE_IDLE"}

\* pubnub_cancel -> pbnc_stop: an idle context has nothing to cancel, but a
\* kept alive connection is closed, with an outcome.
Cancelled(state) == IF state = "IDLE" THEN "IDLE" ELSE "WAIT_CANCEL"

\* pbauto_take_the_node_out
TakeOut(indexes, i) == RemoveAt(indexes, i)

Goto(t, label) == call' = [call EXCEPT ![t].at = label]

-----------------------------------------------------------------------------
(***************************************************************************)
(* heartbeat_thump(), in the watcher or the heartbeat watcher: `then` is   *)
(* where the caller goes on.                                               *)
(***************************************************************************)
\* The frame of a call heartbeat_thump(c, the slot's heartbeat context)
Thump(f, c, then) == [f EXCEPT !.at = "thump", !.pb = c, !.then = then]

\* PUBNUB_ASSERT_OPT(pb_valid_ctx_ptr(pb))
thump_assert(t) ==
    /\ call[t].at = "thump" /\ call[t].pb = NULL
    /\ failed' = failed \cup {"pb"}
    /\ UNCHANGED <<slots, timers, pb, beat, locks, call, made, plain, given_up>>

thump_lock(t) ==
    /\ call[t].at = "thump" /\ call[t].pb # NULL
    /\ Free(thumper_monitor[call[t].pb], t)
    /\ thumper_monitor' = [thumper_monitor EXCEPT ![call[t].pb] = t]
    /\ Goto(t, "thumping")
    /\ UNCHANGED <<slots, timers, pb, beat, mutw, timerlock, monitor, made, failed, plain, given_up>>

\* With the keys changed the heartbeat context is only cancelled: the beat is
\* left to the callback.  Otherwise it beats, if the context has channels.
heartbeat_thump(t) ==
    LET f == call[t]
        keys_changed == heartbeat_data[f.thumper].keys # KeysOf[f.pb] IN
    /\ f.at = "thumping"
    /\ Free(monitor[f.thumper], t)
    /\ beat' = [beat EXCEPT ![f.thumper] =
                    IF ~keys_changed /\ pb[f.pb].channels /\ CanStart(@) THEN "STARTED" ELSE @]
    /\ thumper_monitor' = [thumper_monitor EXCEPT ![f.pb] = NoThread]
    /\ Goto(t, IF keys_changed THEN "thump_cancel" ELSE f.then)
    /\ UNCHANGED <<slots, timers, pb, mutw, timerlock, monitor, made, failed, plain, given_up>>

\* pubnub_cancel, with the thumper monitor given back
thump_cancel(t) ==
    LET f == call[t] IN
    /\ f.at = "thump_cancel"
    /\ Free(monitor[f.thumper], t)
    /\ beat' = [beat EXCEPT ![f.thumper] = Cancelled(@)]
    /\ Goto(t, f.then)
    /\ UNCHANGED <<slots, timers, pb, locks, made, failed, plain, given_up>>

-----------------------------------------------------------------------------
(***************************************************************************)
(* start_heartbeat_timer(), in the watcher.                                *)
(***************************************************************************)
StartTimer(f, i) == [f EXCEPT !.at = "start", !.thumper = i]

\* is_started is read under timerlock, with mutw held
start_is_started(t) ==
    LET f == call[t] IN
    /\ f.at = "start"
    /\ IF mutw = t
       THEN /\ Free(timerlock, t)
            /\ call' = [call EXCEPT ![t].at = IF heartbeat_data[f.thumper].pb = NULL
                                              THEN "start_period" ELSE "start_announce",
                                    ![t].started = heartbeat_timers[f.thumper] > 0,
                                    ![t].pb = heartbeat_data[f.thumper].pb]
            /\ mutw' = IF heartbeat_data[f.thumper].pb = NULL THEN NoThread ELSE t
       ELSE /\ Free(mutw, t)
            /\ mutw' = t
            /\ UNCHANGED call
    /\ UNCHANGED <<slots, timers, pb, beat, timerlock, monitor, thumper_monitor, made, failed, plain, given_up>>

\* The first beat of new channels is sent at once, but not in smart mode, and
\* a timer already running is left alone, but not in smart mode.
start_announce(t) ==
    LET f == call[t]
        announce == pb[f.pb].should_announce_presence
        smart == pb[f.pb].use_smart_heartbeat
        next == IF f.started /\ ~smart THEN "done" ELSE "start_period" IN
    /\ f.at = "start_announce"
    /\ Free(thumper_monitor[f.pb], t)
    /\ pb' = [pb EXCEPT ![f.pb].should_announce_presence = FALSE,
                        ![f.pb].waiting_announce_presence = @ \/ announce]
    /\ mutw' = NoThread
    /\ call' = [call EXCEPT ![t] = IF announce /\ ~smart THEN Thump(f, f.pb, next)
                                   ELSE [f EXCEPT !.at = next]]
    /\ UNCHANGED <<slots, timers, beat, timerlock, monitor, thumper_monitor, made, failed, plain, given_up>>

start_period(t) ==
    /\ call[t].at = "start_period"
    /\ Free(mutw, t)
    /\ call' = [call EXCEPT ![t].at = "start_timer",
                            ![t].period = heartbeat_data[call[t].thumper].period_sec]
    /\ UNCHANGED <<slots, timers, pb, beat, locks, made, failed, plain, given_up>>

\* PUBNUB_ASSERT_OPT(m_watcher.active_timers < PUBNUB_MAX_HEARTBEAT_THUMPERS)
start_heartbeat_timer(t) ==
    LET i == call[t].thumper IN
    /\ call[t].at = "start_timer"
    /\ Free(timerlock, t)
    /\ IF Len(timer_index_array) < MaxThumpers
       THEN /\ heartbeat_timers' = [heartbeat_timers EXCEPT ![i] = call[t].period]
            /\ timer_index_array' = Append(timer_index_array, i)
            /\ Goto(t, "done")
            /\ UNCHANGED failed
       ELSE /\ failed' = failed \cup {"active_timers"}
            /\ UNCHANGED <<timers, call>>
    /\ UNCHANGED <<slots, pb, beat, locks, made, plain, given_up>>

-----------------------------------------------------------------------------
(***************************************************************************)
(* stop_heartbeat(): the timer of an idle heartbeat context is stopped, a  *)
(* busy one is cancelled instead.                                          *)
(***************************************************************************)
stop_heartbeat(t) ==
    LET i == call[t].thumper IN
    /\ call[t].at = "stop"
    /\ Free(monitor[i], t)
    /\ IF CanStart(beat[i])
       THEN /\ monitor' = [monitor EXCEPT ![i] = t]
            /\ Goto(t, "stop_timer")
            /\ UNCHANGED beat
       ELSE /\ beat' = [beat EXCEPT ![i] = Cancelled(@)]
            /\ Goto(t, call[t].then)
            /\ UNCHANGED monitor
    /\ UNCHANGED <<slots, timers, pb, mutw, timerlock, thumper_monitor, made, failed, plain, given_up>>

\* The slot is taken out of the array; the time left stays.
auto_heartbeat_stop_timer(t) ==
    LET i == call[t].thumper
        at == {k \in DOMAIN timer_index_array : timer_index_array[k] = i} IN
    /\ call[t].at = "stop_timer"
    /\ Free(timerlock, t)
    /\ timer_index_array' = IF at = {} THEN timer_index_array
                            ELSE TakeOut(timer_index_array, Min(at))
    /\ monitor' = [monitor EXCEPT ![i] = NoThread]
    /\ Goto(t, call[t].then)
    /\ UNCHANGED <<slots, heartbeat_timers, pb, beat, mutw, timerlock, thumper_monitor, made, failed, plain, given_up>>

-----------------------------------------------------------------------------
(***************************************************************************)
(* The heartbeat watcher's round: it counts every active timer down and    *)
(* beats for the ones that expire, with timerlock held throughout.         *)
(***************************************************************************)
\* Mutant: the round runs without timerlock
heart_wakes_unlocked ==
    /\ call["heart"].at = "idle"
    /\ Free(timerlock, "heart")
    /\ call' = [call EXCEPT !["heart"] = [Idle EXCEPT !.at = "timers", !.indexes = timer_index_array]]
    /\ UNCHANGED <<slots, timers, pb, beat, locks, made, failed, plain, given_up>>

heart_wakes ==
    /\ call["heart"].at = "idle"
    /\ Free(timerlock, "heart")
    /\ timerlock' = "heart"
    /\ call' = [call EXCEPT !["heart"] = [Idle EXCEPT !.at = "timers", !.indexes = timer_index_array]]
    /\ UNCHANGED <<slots, timers, pb, beat, mutw, monitor, thumper_monitor, made, failed, plain, given_up>>

\* One turn of the loop: an expired timer is taken out, its slot beats.
handle_heartbeat_timers ==
    LET f == call["heart"]
        i == f.indexes[f.i]
        remains == heartbeat_timers[i] - 1 IN
    /\ f.at = "timers" /\ f.i <= Len(f.indexes)
    /\ IF remains <= 0
       THEN /\ heartbeat_timers' = [heartbeat_timers EXCEPT ![i] = 0]
            /\ call' = [call EXCEPT !["heart"].indexes = TakeOut(@, f.i),
                                    !["heart"].thumper = i, !["heart"].at = "expired"]
       ELSE /\ heartbeat_timers' = [heartbeat_timers EXCEPT ![i] = remains]
            /\ call' = [call EXCEPT !["heart"].i = @ + 1]
    /\ UNCHANGED <<slots, timer_index_array, pb, beat, locks, made, failed, plain, given_up>>

\* The slot's contexts are read under mutw, and used after.
expired ==
    LET f == call["heart"] IN
    /\ f.at = "expired"
    /\ Free(mutw, "heart")
    /\ call' = [call EXCEPT !["heart"] = Thump(f, heartbeat_data[f.thumper].pb, "timers")]
    /\ UNCHANGED <<slots, timers, pb, beat, locks, made, failed, plain, given_up>>

heart_sleeps ==
    /\ call["heart"].at = "timers" /\ call["heart"].i > Len(call["heart"].indexes)
    /\ timer_index_array' = call["heart"].indexes
    /\ timerlock' = NoThread
    /\ call' = [call EXCEPT !["heart"] = Idle]
    /\ UNCHANGED <<slots, heartbeat_timers, pb, beat, mutw, monitor, thumper_monitor, made, failed, plain, given_up>>

-----------------------------------------------------------------------------
(***************************************************************************)
(* The watcher: a subscription of a context, or a heartbeat of its own,    *)
(* gets its answer.                                                        *)
(***************************************************************************)
\* PBS_RX_HTTP_VER -> pbauto_heartbeat_transaction_ongoing: in smart mode the
\* answer stands for a beat, and the timer stops.
transaction_ongoing(c) ==
    /\ call["watcher"].at = "idle" /\ pb[c].state = "STARTED"
    /\ Free(monitor[c], "watcher")
    /\ monitor' = [monitor EXCEPT ![c] = "watcher"]
    /\ call' = [call EXCEPT !["watcher"] =
                   [Idle EXCEPT !.of = c,
                                !.at = IF pb[c].thumperIndex # UNASSIGNED /\ pb[c].use_smart_heartbeat
                                       THEN "ongoing" ELSE "parse"]]
    /\ UNCHANGED <<slots, timers, pb, beat, mutw, timerlock, thumper_monitor, made, failed, plain, given_up>>

\* The index is read again, without thumper_monitor, to index heartbeat_data.
index_read_again ==
    LET f == call["watcher"]
        i == pb[f.of].thumperIndex IN
    /\ f.at \in {"ongoing", "parsed"}
    /\ IF i = UNASSIGNED
       THEN failed' = failed \cup {"thumper_index"} /\ UNCHANGED call
       ELSE /\ call' = [call EXCEPT !["watcher"] =
                          IF f.at = "parsed" THEN StartTimer(f, i)
                          ELSE [f EXCEPT !.at = "stop_auto", !.thumper = i, !.then = "parse"]]
            /\ UNCHANGED failed
    /\ UNCHANGED <<slots, timers, pb, beat, locks, made, plain, given_up>>

\* Its heartbeat context is read under mutw.
stop_auto_heartbeat ==
    /\ call["watcher"].at = "stop_auto"
    /\ Free(mutw, "watcher")
    /\ Goto("watcher", "stop")
    /\ UNCHANGED <<slots, timers, pb, beat, locks, made, failed, plain, given_up>>

\* Mutant: pbauto_heartbeat_start_timer takes for granted that there is a slot
parse_pubnub_result_unchecked ==
    LET f == call["watcher"] IN
    /\ f.at = "parse"
    /\ \/ /\ pb' = [pb EXCEPT ![f.of].state = "IDLE", ![f.of].last_result = "PNR_OK"]
          /\ Goto("watcher", "parsed")
       \/ /\ pb' = [pb EXCEPT ![f.of].state = "IDLE", ![f.of].last_result = "error"]
          /\ Goto("watcher", "done")
    /\ UNCHANGED <<slots, timers, beat, locks, made, failed, plain, given_up>>

\* parse_pubnub_result -> pbauto_heartbeat_start_timer, or the transaction fails
parse_pubnub_result ==
    LET f == call["watcher"] IN
    /\ f.at = "parse"
    /\ \/ /\ pb' = [pb EXCEPT ![f.of].state = "IDLE", ![f.of].last_result = "PNR_OK"]
          /\ Goto("watcher", IF pb[f.of].thumperIndex # UNASSIGNED THEN "parsed" ELSE "done")
       \/ /\ pb' = [pb EXCEPT ![f.of].state = "IDLE", ![f.of].last_result = "error"]
          /\ Goto("watcher", "done")
    /\ UNCHANGED <<slots, timers, beat, locks, made, failed, plain, given_up>>

watcher_done ==
    LET f == call["watcher"] IN
    /\ f.at = "done"
    /\ monitor' = [monitor EXCEPT ![f.of] = NoThread]
    /\ call' = [call EXCEPT !["watcher"] = Idle]
    /\ UNCHANGED <<slots, timers, pb, beat, mutw, timerlock, thumper_monitor, made, failed, plain, given_up>>

\* A beat ends: auto_heartbeat_callback is entered with the monitor held and
\* the heartbeat context idle again, if it is still registered.
beat_ends(i) ==
    /\ call["watcher"].at = "idle" /\ ~CanStart(beat[i])
    /\ Free(monitor[i], "watcher")
    /\ \E result \in IF beat[i] = "STARTED" THEN {"PNR_OK", "error"} ELSE {"PNR_CANCELLED"} :
         /\ beat' = [beat EXCEPT ![i] = IF result = "PNR_OK" THEN "KEEP_ALIVE_IDLE" ELSE "IDLE"]
         /\ IF heartbeat_data[i].cb
            THEN /\ monitor' = [monitor EXCEPT ![i] = "watcher"]
                 /\ call' = [call EXCEPT !["watcher"] =
                                [Idle EXCEPT !.of = i, !.thumper = i, !.at = "callback", !.result = result]]
            ELSE UNCHANGED <<monitor, call>>
    /\ UNCHANGED <<slots, timers, pb, mutw, timerlock, thumper_monitor, made, failed, plain, given_up>>

\* What the callback does with the result, for the slot's context c: the next
\* beat is timed after a beat, and sent at once after an error.  A cancelled
\* heartbeat context with other keys is initialized with the new ones, which
\* creates its monitor anew and forgets its callback, and beats.
Answer(f, c) ==
    LET i == f.thumper
        rekeyed == f.result = "PNR_CANCELLED" /\ c # NULL /\ heartbeat_data[i].keys # KeysOf[c] IN
    /\ call' = [call EXCEPT !["watcher"] =
                   IF f.result = "PNR_OK" THEN StartTimer(f, i)
                   ELSE IF f.result = "error" \/ rekeyed THEN Thump(f, c, "done")
                   ELSE [f EXCEPT !.at = "done"]]
    /\ heartbeat_data' = IF rekeyed THEN [heartbeat_data EXCEPT ![i].keys = KeysOf[c], ![i].cb = FALSE]
                         ELSE heartbeat_data
    /\ monitor' = IF rekeyed THEN [monitor EXCEPT ![i] = NoThread] ELSE monitor

auto_heartbeat_callback ==
    LET f == call["watcher"]
        c == heartbeat_data[f.thumper].pb IN
    /\ f.at = "callback"
    /\ Free(mutw, "watcher")
    /\ IF c # NULL /\ ~pb[c].use_smart_heartbeat
       THEN /\ mutw' = "watcher"
            /\ call' = [call EXCEPT !["watcher"] = [f EXCEPT !.at = "callback_announce", !.pb = c]]
            /\ UNCHANGED <<heartbeat_data, monitor>>
       ELSE Answer(f, c) /\ UNCHANGED mutw
    /\ UNCHANGED <<thumpers_in_use, timers, pb, beat, timerlock, thumper_monitor, made, failed, plain, given_up>>

\* Mutant: the early return keeps mutw
callback_announce_locked ==
    LET f == call["watcher"] IN
    /\ f.at = "callback_announce"
    /\ Free(thumper_monitor[f.pb], "watcher")
    /\ IF pb[f.pb].waiting_announce_presence
       THEN /\ pb' = [pb EXCEPT ![f.pb].waiting_announce_presence = FALSE]
            /\ Goto("watcher", "done")
            /\ UNCHANGED <<heartbeat_data, monitor, mutw>>
       ELSE Answer(f, f.pb) /\ mutw' = NoThread /\ UNCHANGED pb
    /\ UNCHANGED <<thumpers_in_use, timers, beat, timerlock, thumper_monitor, made, failed, plain, given_up>>

\* The end of an awaited announcement is taken note of, and nothing more.
callback_announce ==
    LET f == call["watcher"] IN
    /\ f.at = "callback_announce"
    /\ Free(thumper_monitor[f.pb], "watcher")
    /\ mutw' = NoThread
    /\ IF pb[f.pb].waiting_announce_presence
       THEN /\ pb' = [pb EXCEPT ![f.pb].waiting_announce_presence = FALSE]
            /\ Goto("watcher", "done")
            /\ UNCHANGED <<heartbeat_data, monitor>>
       ELSE Answer(f, f.pb) /\ UNCHANGED pb
    /\ UNCHANGED <<thumpers_in_use, timers, beat, timerlock, thumper_monitor, made, failed, plain, given_up>>

-----------------------------------------------------------------------------
(***************************************************************************)
(* The application's calls.                                                *)
(***************************************************************************)
Called(name) == name \in Calls /\ made < MaxCalls /\ made' = made + 1 /\ call["app"].at = "idle"

app_returns == call' = [call EXCEPT !["app"] = Idle]

\* pubnub_enable_auto_heartbeat: the context keeps the slot it has, or looks
\* for one; pubnub_set_heartbeat_period follows, and is a call of its own too.
pubnub_enable_auto_heartbeat(c, period) ==
    /\ Called("enable")
    /\ Free(thumper_monitor[c], "app")
    /\ LET f == [Idle EXCEPT !.of = c, !.period = period] IN
       IF pb[c].thumperIndex = UNASSIGNED
       THEN /\ thumper_monitor' = [thumper_monitor EXCEPT ![c] = "app"]
            /\ call' = [call EXCEPT !["app"] = [f EXCEPT !.at = "form"]]
       ELSE /\ call' = [call EXCEPT !["app"] = [f EXCEPT !.at = "set_period"]]
            /\ UNCHANGED thumper_monitor
    /\ UNCHANGED <<slots, timers, pb, beat, mutw, timerlock, monitor, failed, plain, given_up>>

\* The slot form_heartbeat_thumper gives the context; keys, cb: of its heartbeat context
Formed(c, i, keys, cb) ==
    /\ heartbeat_data' = [heartbeat_data EXCEPT ![i] = [pb |-> c, keys |-> keys, cb |-> cb,
                                                        period_sec |-> MinPeriod]]
    /\ thumpers_in_use' = thumpers_in_use + 1
    /\ pb' = [pb EXCEPT ![c].thumperIndex = i]
    /\ plain' = IF pb[c].use_smart_heartbeat THEN plain \ {i} ELSE plain
    /\ thumper_monitor' = [thumper_monitor EXCEPT ![c] = NoThread]
    /\ Goto("app", "set_period")

\* The first slot without a context.  Its heartbeat context is allocated when
\* it has none, under the monitor of the context, or cannot be.
form_heartbeat_thumper ==
    LET c == call["app"].of
        i == Min({k \in Thumpers : heartbeat_data[k].pb = NULL}) IN
    /\ call["app"].at = "form"
    /\ Free(mutw, "app")
    /\ \/ /\ thumpers_in_use >= MaxThumpers
          /\ thumper_monitor' = [thumper_monitor EXCEPT ![c] = NoThread]
          /\ app_returns
          /\ UNCHANGED <<slots, pb, mutw, plain>>
       \/ /\ thumpers_in_use < MaxThumpers
          /\ heartbeat_data[i].keys # NoKeys
          /\ Formed(c, i, heartbeat_data[i].keys, heartbeat_data[i].cb)
          /\ UNCHANGED mutw
       \/ /\ thumpers_in_use < MaxThumpers
          /\ heartbeat_data[i].keys = NoKeys
          /\ mutw' = "app"
          /\ call' = [call EXCEPT !["app"].at = "init", !["app"].thumper = i]
          /\ UNCHANGED <<slots, pb, thumper_monitor, plain>>
    /\ UNCHANGED <<timers, beat, timerlock, monitor, made, failed, given_up>>

init_new_thumper_pb ==
    LET c == call["app"].of IN
    /\ call["app"].at = "init"
    /\ Free(monitor[c], "app")
    /\ mutw' = NoThread
    /\ \/ Formed(c, call["app"].thumper, KeysOf[c], TRUE)
       \/ /\ thumper_monitor' = [thumper_monitor EXCEPT ![c] = NoThread]
          /\ app_returns
          /\ UNCHANGED <<slots, pb, plain>>
    /\ UNCHANGED <<timers, beat, timerlock, monitor, made, failed, given_up>>

\* pubnub_set_heartbeat_period takes thumper_monitor, then mutw.
pubnub_set_heartbeat_period(c, period) ==
    /\ Called("set_period")
    /\ call' = [call EXCEPT !["app"] = [Idle EXCEPT !.of = c, !.period = period, !.at = "set_period"]]
    /\ UNCHANGED <<slots, timers, pb, beat, locks, failed, plain, given_up>>

set_period_lock ==
    LET c == call["app"].of IN
    /\ call["app"].at = "set_period"
    /\ Free(thumper_monitor[c], "app")
    /\ IF pb[c].thumperIndex = UNASSIGNED
       THEN app_returns /\ UNCHANGED thumper_monitor
       ELSE /\ thumper_monitor' = [thumper_monitor EXCEPT ![c] = "app"]
            /\ Goto("app", "setting_period")
    /\ UNCHANGED <<slots, timers, pb, beat, mutw, timerlock, monitor, made, failed, plain, given_up>>

setting_period ==
    LET f == call["app"] IN
    /\ f.at = "setting_period"
    /\ Free(mutw, "app")
    /\ heartbeat_data' = [heartbeat_data EXCEPT ![pb[f.of].thumperIndex].period_sec = f.period]
    /\ thumper_monitor' = [thumper_monitor EXCEPT ![f.of] = NoThread]
    /\ app_returns
    /\ UNCHANGED <<thumpers_in_use, timers, pb, beat, mutw, timerlock, monitor, made, failed, plain, given_up>>

\* Mutant: a context without a slot releases one
pubnub_disable_auto_heartbeat_twice(c) ==
    /\ Called("disable")
    /\ Free(thumper_monitor[c], "app")
    /\ thumper_monitor' = [thumper_monitor EXCEPT ![c] = "app"]
    /\ call' = [call EXCEPT !["app"] = [Idle EXCEPT !.of = c, !.at = "release", !.then = "released",
                                                    !.thumper = pb[c].thumperIndex]]
    /\ UNCHANGED <<slots, timers, pb, beat, mutw, timerlock, monitor, failed, plain, given_up>>

pubnub_disable_auto_heartbeat(c) ==
    /\ Called("disable")
    /\ Free(thumper_monitor[c], "app")
    /\ IF pb[c].thumperIndex = UNASSIGNED
       THEN UNCHANGED <<call, thumper_monitor>>
       ELSE /\ thumper_monitor' = [thumper_monitor EXCEPT ![c] = "app"]
            /\ call' = [call EXCEPT !["app"] = [Idle EXCEPT !.of = c, !.at = "release", !.then = "released",
                                                            !.thumper = pb[c].thumperIndex]]
    /\ UNCHANGED <<slots, timers, pb, beat, mutw, timerlock, monitor, failed, plain, given_up>>

\* The slot loses its context before its timer or its beat is stopped.
release_thumper ==
    LET i == call["app"].thumper IN
    /\ call["app"].at = "release"
    /\ Free(mutw, "app")
    /\ heartbeat_data' = [heartbeat_data EXCEPT ![i].pb = NULL]
    /\ thumpers_in_use' = thumpers_in_use - 1
    /\ plain' = plain \ {i}
    /\ given_up' = given_up \cup {i, call["app"].of}
    /\ Goto("app", "stop")
    /\ UNCHANGED <<timers, pb, beat, locks, made, failed>>

\* Mutant: the context keeps the index of the slot it gave back
released_keeps_index ==
    LET c == call["app"].of IN
    /\ call["app"].at = "released"
    /\ thumper_monitor' = [thumper_monitor EXCEPT ![c] = NoThread]
    /\ app_returns
    /\ UNCHANGED <<slots, timers, pb, beat, mutw, timerlock, monitor, made, failed, plain, given_up>>

released ==
    LET c == call["app"].of IN
    /\ call["app"].at = "released"
    /\ pb' = [pb EXCEPT ![c].thumperIndex = UNASSIGNED]
    /\ thumper_monitor' = [thumper_monitor EXCEPT ![c] = NoThread]
    /\ app_returns
    /\ UNCHANGED <<slots, timers, beat, mutw, timerlock, monitor, made, failed, plain, given_up>>

\* pubnub_enable_smart_heartbeat, pubnub_disable_smart_heartbeat
pubnub_smart_heartbeat(c, enable) ==
    /\ Called("smart")
    /\ Free(thumper_monitor[c], "app")
    /\ pb' = [pb EXCEPT ![c].use_smart_heartbeat = enable]
    /\ plain' = IF enable THEN plain \ {pb[c].thumperIndex} ELSE plain
    /\ UNCHANGED <<slots, timers, beat, locks, call, failed, given_up>>

\* pubnub_subscribe, or a pubnub_heartbeat of the application's own: the
\* channels are saved under thumper_monitor, with the monitor held.
pubnub_subscribe(c) ==
    /\ Called("subscribe")
    /\ Free(monitor[c], "app") /\ CanStart(pb[c].state)
    /\ monitor' = [monitor EXCEPT ![c] = "app"]
    /\ call' = [call EXCEPT !["app"] = [Idle EXCEPT !.of = c, !.at = "prepare"]]
    /\ UNCHANGED <<slots, timers, pb, beat, mutw, timerlock, thumper_monitor, failed, plain, given_up>>

\* changed: the channels are not the ones saved before
prepare_channels_and_ch_groups ==
    LET c == call["app"].of IN
    /\ call["app"].at = "prepare"
    /\ Free(thumper_monitor[c], "app")
    /\ \E changed \in IF pb[c].channels THEN BOOLEAN ELSE {TRUE} :
         pb' = [pb EXCEPT ![c].should_announce_presence = @ \/ changed,
                          ![c].channels = TRUE, ![c].state = "STARTED", ![c].last_result = "none"]
    /\ monitor' = [monitor EXCEPT ![c] = NoThread]
    /\ app_returns
    /\ UNCHANGED <<slots, timers, beat, mutw, timerlock, thumper_monitor, made, failed, plain, given_up>>

\* pubnub_leave, of all channels saved (under thumper_monitor) or of the last
\* (not); its transaction is none that a timer waits for.
pubnub_leave(c) ==
    /\ Called("leave")
    /\ Free(monitor[c], "app") /\ CanStart(pb[c].state) /\ pb[c].channels
    /\ pb' = [pb EXCEPT ![c].channels = FALSE]
    /\ UNCHANGED <<slots, timers, beat, locks, call, failed, plain, given_up>>

-----------------------------------------------------------------------------
\* As pubnub_init leaves the contexts, or pubnub_disable_smart_heartbeat right after
Init ==
    /\ heartbeat_data = [i \in Thumpers |-> [pb |-> NULL, keys |-> NoKeys, cb |-> FALSE, period_sec |-> 0]]
    /\ thumpers_in_use = 0
    /\ heartbeat_timers = [i \in Thumpers |-> 0]
    /\ timer_index_array = <<>>
    /\ \E smart \in BOOLEAN :
         pb = [c \in Contexts |-> [thumperIndex |-> UNASSIGNED, use_smart_heartbeat |-> smart,
                                  should_announce_presence |-> TRUE, waiting_announce_presence |-> FALSE,
                                  channels |-> FALSE, state |-> "IDLE", last_result |-> "none"]]
    /\ beat = [i \in Thumpers |-> "IDLE"]
    /\ mutw = NoThread /\ timerlock = NoThread
    /\ monitor = [x \in Contexts \cup Thumpers |-> NoThread]
    /\ thumper_monitor = [c \in Contexts |-> NoThread]
    /\ call = [t \in Threads |-> Idle]
    /\ made = 0
    /\ failed = {}
    /\ plain = Thumpers /\ given_up = {}

App ==
    \/ \E c \in Contexts :
          \/ \E period \in Periods : \/ pubnub_enable_auto_heartbeat(c, period)
                                     \/ pubnub_set_heartbeat_period(c, period)
          \/ pubnub_disable_auto_heartbeat(c)
          \/ \E enable \in BOOLEAN : pubnub_smart_heartbeat(c, enable)
          \/ pubnub_subscribe(c)
          \/ pubnub_leave(c)
    \/ form_heartbeat_thumper
    \/ init_new_thumper_pb
    \/ set_period_lock
    \/ setting_period
    \/ release_thumper
    \/ stop_heartbeat("app")
    \/ auto_heartbeat_stop_timer("app")
    \/ released
    \/ prepare_channels_and_ch_groups

Watcher ==
    \/ \E c \in Contexts : transaction_ongoing(c)
    \/ \E i \in Thumpers : beat_ends(i)
    \/ index_read_again
    \/ stop_auto_heartbeat
    \/ stop_heartbeat("watcher")
    \/ auto_heartbeat_stop_timer("watcher")
    \/ parse_pubnub_result
    \/ auto_heartbeat_callback
    \/ callback_announce
    \/ start_is_started("watcher")
    \/ start_announce("watcher")
    \/ start_period("watcher")
    \/ start_heartbeat_timer("watcher")
    \/ thump_assert("watcher")
    \/ thump_lock("watcher")
    \/ heartbeat_thump("watcher")
    \/ thump_cancel("watcher")
    \/ watcher_done

Heart ==
    \/ heart_wakes
    \/ handle_heartbeat_timers
    \/ expired
    \/ thump_assert("heart")
    \/ thump_lock("heart")
    \/ heartbeat_thump("heart")
    \/ thump_cancel("heart")
    \/ heart_sleeps

Next == failed = {} /\ (App \/ Watcher \/ Heart)

Spec == Init /\ [][Next]_vars

\* Both watchers run on, and a call of the application returns, unless a mutex
\* is never given back: who waits for one gets it when it is given back again
\* and again.
InCall == call["app"].at # "idle" /\ App
FairSpec == Spec /\ SF_vars(Watcher) /\ SF_vars(Heart) /\ SF_vars(InCall)

-----------------------------------------------------------------------------
\* Types; an index array never longer than the slots it is for, and a period
\* that is one of those asked for or the least one (heartbeat_data, set_period).
TypeOK ==
    /\ heartbeat_data \in [Thumpers -> [pb : Contexts \cup {NULL},
                                        keys : {KeysOf[c] : c \in Contexts} \cup {NoKeys}, cb : BOOLEAN,
                                        period_sec : Periods \cup {MinPeriod, 0}]]
    /\ thumpers_in_use \in 0 .. MaxThumpers
    /\ heartbeat_timers \in [Thumpers -> Nat]
    /\ Range(timer_index_array) \subseteq Thumpers /\ Len(timer_index_array) <= MaxThumpers
    /\ pb \in [Contexts -> [thumperIndex : Thumpers \cup {UNASSIGNED}, use_smart_heartbeat : BOOLEAN,
                            should_announce_presence : BOOLEAN, waiting_announce_presence : BOOLEAN,
                            channels : BOOLEAN, state : {"IDLE", "STARTED"},
                            last_result : {"none", "PNR_OK", "error"}]]
    /\ beat \in [Thumpers -> {"IDLE", "KEEP_ALIVE_IDLE", "STARTED", "WAIT_CANCEL"}]
    /\ {mutw, timerlock} \subseteq Threads \cup {NoThread}
    /\ monitor \in [Contexts \cup Thumpers -> Threads \cup {NoThread}]
    /\ thumper_monitor \in [Contexts -> Threads \cup {NoThread}]
    /\ \A t \in Threads : call[t].pb \in Contexts \cup {NULL}
    /\ failed \subseteq {"pb", "active_timers", "thumper_index"} /\ plain \subseteq Thumpers
    /\ given_up \subseteq Contexts \cup Thumpers

\* A context that has a slot is the slot's context, no other slot's, and the
\* module counts the slots in use: whoever can take the mutexes sees them
\* agree, however enabling, disabling and the watchers' work interleave
\* (form_heartbeat_thumper, release_thumper).
SlotsAgree ==
    /\ \A c \in Contexts : thumper_monitor[c] = NoThread =>
         {i \in Thumpers : heartbeat_data[i].pb = c} = {pb[c].thumperIndex} \ {UNASSIGNED}
    /\ mutw = NoThread => thumpers_in_use = Cardinality({i \in Thumpers : heartbeat_data[i].pb # NULL})

\* The number of times a slot is in the array of active timers
Active(i) == Cardinality({k \in DOMAIN timer_index_array : timer_index_array[k] = i})

\* start_heartbeat_timer takes time left for a running timer.  As long as a
\* slot was not released, nor its context in smart mode, it is right: time is
\* left exactly when the slot is in the array, and it is in it once, whatever
\* the heartbeat watcher took out and put back meanwhile.
TimersRun ==
    timerlock = NoThread => \A i \in plain : Active(i) = (IF heartbeat_timers[i] > 0 THEN 1 ELSE 0)

\* The assertions of the module, in smart mode too: heartbeat_thump is called
\* without a context only for a slot that was itself released, the slot of a
\* context is looked up and not there (pbauto_heartbeat_start_timer,
\* pbauto_heartbeat_transaction_ongoing) only when that context gave one up, and
\* start_heartbeat_timer finds the array of timers full only when some slot was
\* released or used in smart mode.
AssertionsHold ==
    /\ \A t \in Threads : call[t].at = "thump" /\ call[t].pb = NULL => call[t].thumper \in given_up
    /\ LET f == call["watcher"]
       IN  f.at \in {"ongoing", "parsed"} /\ pb[f.of].thumperIndex = UNASSIGNED => f.of \in given_up
    /\ "active_timers" \in failed => plain # Thumpers

\* A thread between two calls holds no mutex: every early return gives back
\* what it took.
IdleHoldsNothing ==
    \A t \in Threads : call[t].at = "idle" =>
        /\ t \notin {mutw, timerlock}
        /\ \A x \in DOMAIN monitor : monitor[x] # t
        /\ \A c \in Contexts : thumper_monitor[c] # t

\* A context subscribed, with automatic heartbeats, that does nothing at present
Present(c) ==
    /\ pb[c].thumperIndex # UNASSIGNED /\ pb[c].channels
    /\ pb[c].state = "IDLE" /\ pb[c].last_result = "PNR_OK"

\* core/pubnub_auto_heartbeat.h: "This module keeps presence by performing
\* pubnub_heartbeat() transaction periodicaly with user id given whenever
\* subscription on @p pb context is not in progress and auto heartbeat is
\* enabled."
KeepsPresence ==
    \A c \in Contexts : <>[]Present(c) => []<>(pb[c].thumperIndex # UNASSIGNED /\ beat[pb[c].thumperIndex] = "STARTED")

=============================================================================
