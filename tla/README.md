# Verification of the PubNub C-core

This directory holds a TLA+ development of the parts of the PubNub C-core in
which several threads and many failure paths meet: the transaction state machine
of a context (`pubnub_t`), the watcher thread that drives it in the callback
interface, the queue and the timer list they share, the API calls with their
automatic retries, the automatic heartbeats, and the subscribe event engine that
runs the subscription loop on top of it, with its listeners. It follows the POSIX port
with OpenSSL, the callback interface, asynchronous DNS, proxies, several
addresses per DNS answer, and an IPv4 build.

Contents: 1 inventory, 2 modules and code, 3 runs, 4 fairness, 5 proofs,
6 disagreements found, 7 what the passing runs leave out and what TLC says with
it, 8 what is not modelled, 9 plan.

## 1. Inventory

| component | state | operations | meets |
|---|---|---|---|
| transaction state machine (`core/pubnub_netcore.c`) | the context: `state`, `flags`, socket, TLS session, spare addresses, DNS server marks, last result | `pbnc_fsm` (one case per state), `pbnc_stop`, `pbnc_can_start_transaction` | run by the watcher under the context's monitor, started and cancelled by application threads |
| callback queue (`core/pbpal_ntf_callback_queue.c`) | ring of contexts, `head`, `tail` | enqueue, requeue, remove, process | application threads, poller and timers put in; the watcher takes out |
| poller (`lib/sockets/pbpal_ntf_callback_poller_poll.c`) | descriptors, events, contexts | save, remove, watch in/out, poll | requeues the context of a ready descriptor |
| timer list (`core/pubnub_timer_list.c`, `core/pbpal_ntf_callback_handle_timer_list.c`) | doubly linked list of differences | add, remove, let time go by, safe removal | the watcher stops the contexts whose timer ran down |
| resolve and connect (`lib/sockets/pbpal_resolv_and_connect_sockets.c`) | spare addresses, marks of failed DNS servers, rotations | query, take the answer, connect, next address, rotate servers | called from `pbnc_fsm` and `pbnc_stop` |
| TLS (`openssl/`) | `SSL` session, `trySSL` | start, continue, close | called from `pbnc_fsm` |
| proxy (`core/pubnub_proxy_core.c`) | tunnel, authorization sent | headers to send, challenge, finish | called from `pbnc_fsm` |
| API calls (`core/pubnub_pubsubapi.c`, `core/pubnub_coreapi*.c`, `core/pubnub_objects_api.c`, `core/pubnub_actions_api.c`, ...) | `trans`, `method`, the request in `http_buf`, `gzip_msg_len` | build a request, start the machine, cancel | under the context's monitor; what one call leaves behind is there for the next |
| request retry (`core/pbcc_request_retry_timer.c`, `core/pubnub_retry_configuration.c`) | configuration, number of retries, the timer: delay, running, thread | decide, start, run, stop, free | a thread of its own; `pbntf_trans_outcome` starts it, ends it and joins it |
| allocation (`core/pubnub_alloc_std.c`) | contexts allocated | alloc, free, free at last | the watcher frees what the application let go |
| automatic heartbeat (`core/pbauto_heartbeat.c`) | slots with a context, a heartbeat context, a period; array of active timers | enable, set the period, disable, start and stop a slot's timer, beat | three threads, two mutexes of the module and two of every context |
| event engine (`core/pbcc_event_engine.c`) | current state, queue of effect invocations | handle an event, process the next invocation, complete, cancel by type | one mutex; effects run outside it |
| subscribe event engine (`core/pbcc_subscribe_event_engine*.c`) | subscriptions, subscribables, postponed leaves, `current_transaction`, `cancel_invocation`, status | subscribe, unsubscribe, unsubscribe all, disconnect, reconnect, the callback | application threads and the watcher; one transaction of the context at a time |
| event listeners (`core/pbcc_subscribe_event_listener.c`, `core/pubnub_subscribe_event_listener.c`) | arrays of listeners: of the status, of the context, of each name | add, remove, emit status and message, free | the subscribe engine tells them; what they call comes back in |
| containers (`lib/pbarray.c`, `lib/pbhash_set.c`, `lib/pbref_counter.c`) | elements with reference counters | add, remove, resize, free | hold the listeners and the subscriptions |
| codecs, crypto, logging, request building | buffers | conversions | - |

What is hard here is never one function. A transaction is spread over many runs
of the machine, by a thread that did not start it; whether it is ever run again
depends on three registrations (queue, poller, timer) that a dozen places add
and remove by hand; a failure may be retried on another address, another DNS
server, another connection, in plain HTTP or with credentials, and each of them
must end in exactly one outcome. The subscribe engine adds a second layer of the
same kind: an effect that cannot start now is *paused* and trusted to be run
again from the callback of whatever is in progress.

What makes each part correct:

* queue - a notification is not lost, an entry is not overwritten, the watcher
  reaches every entry, and the whole is a FIFO;
* timer list - it is well linked, and its timers behave like independent
  countdowns although each node stores only a difference;
* state machine - every transaction ends in exactly one outcome; a context that
  works is always registered with somebody who will run it, one that rests is
  registered with nobody; the poller watches the direction the state waits for;
  an idle context holds no socket; a cancelled one says so;
* subscribe engine - the loop never stalls, asks for the channels the
  application has now, gives every message it has passed to the listeners, tells
  its status, and every channel left gets its leave;
* requests - what goes out is what was asked for last, however the calls before it
  ended; the reply that is read is that call's; a retried request is reported once, a
  cancelled one is not sent again, and one that waits has a thread that will send it;
* heartbeats - contexts and slots agree, a slot's timer is in the array exactly when
  time is left of it, no early return keeps a mutex;
* listeners - one is freed when it leaves its last array, told once of every update
  it was registered for, and not after it was removed.

`PROJECT.json` lists the hazards, each at its line, with the properties aimed at it.

## 2. The modules and the code

**`CallbackQueue`** - `apb`, `head`, `tail` are the C structure; one action per
critical section of the queue's mutex. `RequeueSearch` and `RequeueEnqueue` are
two actions, because `pbpal_ntf_callback_requeue_for_processing` unlocks between
looking for the context and inserting it. `Pop` and `Processed` are the two
halves of one turn of the watcher's loop. **`ContextFifo`** is the abstract queue
of contexts; `entries` lays out the live slots, oldest first, and the refinement mapping
`pendingContexts` is what they hold without the blanked ones. The history variable
`due` says who was notified.

**`TimerList`** - `list` has the links and `timeout_left_ms` of the C nodes;
`GotSocket`, `StartTimer` and `LostSocket` are the calls that add and remove,
`TimePasses` lets time go by and cuts off the expired prefix, which
`HandleExpired` then walks with the cursor `expired`. Walks along the list are written with
the sequence of its nodes; when a node is due is a recursive function along it (`Due`).
**`Timers`** is the abstract specification: one
countdown per context, nothing linked.

**`Netcore`** - `pb` is the context as a record that keeps the C field names,
together with its registrations (`queued`, `polled`, `events`, `timers`) and
history. A C function that changes the context is an operator from a context to a
context with the same name (`pbpal_close`, `outcome_detected`,
`pbpal_dns_rotate_server`, ...); one action is one case of the switch in
`pbnc_fsm`, `Goto` its `goto next_state`, `Break` its `break` (with the test for
`PBS_RETRY` behind the switch) and `Return` its `return 0`. `Pop`, `Lock`, `Poll`,
`PollEnqueue`, `Expire` are the watcher outside the machine; `Start` and `Cancel`
are the application. What the network does is a disjunct; the less usual events
have a name in the constant `Environment`.
The ten states that send parts of the request share one action (`Transmit`,
except `PBS_TX_GET`, whose error path differs). Integers: `rotations_count` counts
to `MaxRotation` here; its C type is one of the items of the plan.

**`SubscribeEngine`** - the variables are the fields of `pbcc_event_engine_t` and
`pbcc_subscribe_ee_t`; `pb` is what the engine sees of the context's transactions
(Netcore in three states: free, busy, being cancelled). `todo[t]` is what is left
of the C call of thread `t`, innermost first, so that a step is what happens
between two points where no mutex of the engine is held, and an event carries the
copy of the context's data taken when it was allocated. `Target`, `Announced` and
`Effects` are the transition functions; `HandleEvent` is `pbcc_ee_handle_event`;
the effects, the callback (`Callback`, `OtherCallback`, `Report`) and the API calls
are actions. Time tokens are small numbers, `now` the token of the last message
published; `seen` is the history of what the listeners were given.
`jams` is the history of what made the loop stop for good: a cancel overwritten in its
slot, messages of a handshake left in the read buffer.
A subscription set is a subscription with several channels; channels and channel
groups are one kind of name. The watcher holds the context's monitor during its
callback (`Monitor`); the application's thread takes it in each API call.
The constant `Windows` names the steps before which the *other* thread may run;
it also runs while a thread waits for the monitor (`Blocked`). Three actions are coarser
than the code: `Leave`, `MakeSubscribeRequest` and `MakeHeartbeat` (up to
`pubnub_heartbeat`) test for a transaction in progress and act upon it in one step, where the
code takes the context's monitor once for the test and once for the start, and no mutex of the
engine in between.

**`ApiCalls`** and **`Requests`** - `ApiCalls` has one definition per call of the API
that starts a transaction: a record of what it assigns to the context before and
after its request is prepared, what it insists on, and how it can fail. `Requests`
runs them on one context: the actions `call_*` are the parts of such a call (refused,
not formed, not prepared, started, not enqueued), `connects` to `transaction_fails`
are the transaction, condensed from `Netcore`, and `outcome_*`, `free_*` and
`timer_*` are `pbntf_trans_outcome` and the retry timer with its two mutexes, thread
and join. Delays are in milliseconds and cut to 16 bits where the code does it.
`spoiled` is a history variable: what the code is known to get wrong about the
request under way (section 7), so that the properties can speak about the rest.
A nested call made in a callback is a call right after it; pubnub_free of a busy
context is its `pubnub_cancel`; when the thread cannot be created the timer has none.

**`AutoHeartbeat`** - a step is what one of the three threads does from taking a
mutex until it needs the next one; `call[t]` is the thread's frame with the step it
is at. The variables are the module's slots, timers and mutexes and each context's
heartbeat fields; transactions are started and ended only. `plain` is the history of
slots never released nor used in smart mode, for which the timers are right; `given_up`
that of the slots released and of the contexts that had them.

**`EventListener`** - the arrays, the hash set (a function from names to arrays) and
the listeners with their counters. Everything runs under one recursive mutex, so
other threads wait, but a listener that is called may call in; it makes one call
(bound) and starts no emission of its own. What reads freed memory, or through NULL,
ends in `process = "crashed"`. The arrays' first length is a constant: 5 in the code,
2 in the run, so that three listeners make them grow and shrink.

The theorems about a module are in modules named after it: `CallbackQueueProofs`,
`TimerListProofs`, `RequestsProofs`, `NetcoreProofs`, `EventListenerProofs`,
`AutoHeartbeatProofs`; `SubscribeEngineProofs` up to `LoopInv`, and
`SubscribeLoopProofs`, which extends it, for `LoopIsCurrent` and the two properties after it.

Mutants (operators marked "Mutant:") stand next to the definition they are a
plausible wrong version of; no specification uses them.

## 3. The runs

| run | instance | shows |
|---|---|---|
| `timer_list` | 3 contexts, timeouts 1, 2, 3, 5, ticks 1, 2, 4 | well linked, exact safe removal, refines `Timers` |
| `callback_queue` | 2 contexts, 2 threads, 4 slots | notifications kept, entries survive, pending entries taken (liveness), refines `ContextFifo` |
| `netcore` | 5 option sets (plain, TLS with fallback, TLS with a body and no keep-alive, GET proxy, CONNECT proxy), 2 addresses, 2 DNS servers, 2 rotations | the six invariants of the machine, and that every transaction ends (liveness) |
| `netcore_all` | as `netcore`, with a full queue, immediate failures, a proxy that refuses and cancellation between `Pop` and `Lock` | what still holds then |
| `subscribe_engine` | 2 subscriptions sharing a channel, tokens 0..2, all five calls, cursors none and 1, threads meeting at the heartbeat | seven properties of the engine |
| `requests` | two calls out of one of each kind, three replies (200, 429 with 3 s and with 65 s), an exponential configuration of two retries, cancel, free, removal of the configuration | the request and the reply are the call's, one outcome, cancel holds, a waiting request is timed |
| `auto_heartbeat` | 3 contexts, 2 slots, 2 pairs of keys, four calls out of six kinds | slots, timers, assertions and mutexes |
| `event_listeners` | one subscription and a set of no, two or three names, two types, three listeners | room in the arrays, lifetimes, delivery, removal |
| `subscribe_reconnect`, `subscribe_stall`, `auto_heartbeat_presence`, `retry_cancel` | the smallest instance that shows it | the disagreements of section 6 |

Bounds. Three contexts are the smallest list with a node that is neither first
nor last; the timeouts include sums and ties, the ticks overshoot one and several
nodes. Four slots hold three entries, so the ring fills, wraps and has holes with
two contexts. Two addresses and two servers are the smallest in which "the next
one" and "the last one" differ, and so is two for the rotations. `MaxEntries` caps queue entries of one context at 2: the
code distinguishes none, one and more. The registrations `polled` and `timers` are
counted up to 2, because 2 is already the violation. In the subscribe engine the
application waits while more than `MaxInvocations` = 2 invocations are queued
(a running cancel with the request behind it is two), and for disconnect, reconnect and a
subscription with a cursor while more than `MaxRestoring` = 1 are, which keeps the run near two
minutes; without that second bound on disconnect and reconnect the safety properties
hold on 1,001,263 states, and with `Cached` = `TRUE` all seven on 724,291.

Two calls are what it takes for one call to find what another left behind, and
`EveryKindIsCalled` (an assumption TLC evaluates) says that every call of the API does
to the context what one of the fifteen called does. Two retries are the smallest
number with a retry that is not the last one; 65 s is the first pause that does not fit
16 bits, jitter included. Three contexts on two slots are the smallest in which one
has to wait, two of them with the same keys. Three listeners make an array of two grow,
three names are the smallest number for which the reference counter goes wrong, and none
the one for which nobody frees a listener.

`CHECK_DEADLOCK FALSE` stands where the system may stop: the subscribe engine when
all tokens are used up and the application has nothing to call, the heartbeats and
requests after the last call (and in the deadlocks the runs of section 6 are about),
and the listeners when they are freed or the process has crashed.

## 4. Fairness

* `CallbackQueue`: weak fairness of the watcher's two steps, `Pop` and `Processed`: its
  loop waits for nothing but the queue. None of the threads that put contexts in.
* `Netcore`: weak fairness of the watcher's code (`Run`, `Pop`, `Lock`, `PollEnqueue`);
  strong fairness of leaving the machine (`pbnc_fsm` returns after finitely many
  states: no reply is endless) and of `Expire` (the loop of `socket_watcher_thread`
  comes by the timer list again and again, and time passes). None of the network: it
  need never answer, and the timers are what ends the transaction. None of the
  application. `EveryTransactionEnds` has a condition of its own: from some point on no spare
  address is refused, or out of date, at once (`SpareFails`), and the callback starts no
  transaction (`StartsInCallback`). The first can go on for ever in the code (section 7); the
  second makes a new outcome owed in the step that paid the old one.
* `SubscribeEngine`: weak fairness of the application's thread inside a call;
  strong fairness of the watcher with the end of a transaction. Strong, because the
  application may call into the engine again and again, and while it is inside, the
  watcher waits: a mutex that is free again and again is eventually obtained. That
  every transaction ends is what `EveryTransactionEnds` shows of `Netcore`.
* `AutoHeartbeat`: strong fairness of both watchers and of the application inside a call,
  for the same reason; none of making calls.
* `Requests`: weak fairness of the watcher, of the timer's thread and of whoever reports an
  outcome; the application need not call. `CalledBack` is refuted by a deadlock, so
  that no stronger fairness would help.

## 5. Proofs

What TLC checks of seven modules on the instances of section 3 is proved of them for all
values of their constants; the theorems are named here with the property each one states.
The proofs assume what the modules assume of their constants (the named `ASSUME`s: sizes
are positive, null is no member, timeouts and ticks are positive, replies have codes of
three digits and pauses of 16 bits, the calls are calls of the API) and, in `Netcore`,
what is said there of the environment. The safety part of each specification is enough:
no proof uses fairness.

**`CallbackQueue`**, for every `Size` above one and every set of contexts and threads:

* `TypeCorrect` - `TypeOK`, inductive as it stands, with `SuccInSlots` for the index that wraps;
* `NoLostNotification` - `NotificationsKept`: a context that is due occupies a live slot. It
  is inductive together with `TypeOK`; what makes it so is that the slot at the head is never
  live (`HeadIsFree`: one slot stays empty), and that moving the head adds exactly that
  slot and moving the tail removes exactly the oldest (`HeadMoves`, `TailMoves`);
* `NothingOverwritten` - `EntriesSurvive`, an action property from the same lemmas;
* `ImplementsFifo` - `IsFifo`, the refinement of `ContextFifo`. The live slots are a row
  (`RowIsRow`), to which an insertion appends (`RowGrows`), from which a pop takes the first
  (`RowShrinks`) and in which a removal blanks one (`SplitRow`). What a row holds is what its
  parts hold, one after the other (`FilledConcat`), so each step appends to, takes from, cuts
  one out of, or leaves, the abstract queue; a pop of a blanked slot is a stutter.

**`TimerList`**, for every finite set of contexts and all positive times. The inductive
invariant `InOrder` says that there are two sequences without repetition and with no context
in common: the list, linked both ways from the head, and the expired contexts from the cursor
on, of which only the next pointers count; that all others have no links at all; and that the
deltas are natural numbers. `WellLinked` is about the outcome of walks, which
says nothing on what the links of an unlisted context are; that is what the invariant adds.
One lemma per C function says what it does to the nodes and to the time each context has left.

* `TypeCorrect` - `TypeOK`: no delta gets negative;
* `AlwaysWellLinked` - `WellLinked`;
* `RemovalAlwaysExact` - `SafeRemovalIsExact`: a context has no links just when it is not listed;
* `CountsDown` - `IsCountdown`, the refinement of `Timers`: an insertion into the differences gives the
  new node its own time and changes no other, a removal hands its difference on, and what is
  cut off when time goes by is exactly who has run out, in order.

**`Requests`**, for every subset of the API's calls, every set of configurations, replies and
jitters and all bounds. The inductive invariant `Inv` adds to the properties where each thread
may be and what it can rely on there: who holds the context's monitor (`Owned`), which steps
exclude each other (`Places`), the bound of attempts (`Attempts`), that a thread that will wake
has its timer (`TimerThere`) and a context that waits for a retry a thread (`Waited`), and what is
in the buffer while a request is prepared, sent and answered (`Request`, `Transaction`).

* `TypeCorrect` - `TypeOK`, the 16 bits of the delay included; `SendsWhatWasAsked` -
  `RequestIsTheCalls`; `AnswersMatch` - `ReadsItsReply`; `ReportedOnce` - `OneOutcome`;
  `CancelIsFinal` - `CancelHolds`; `RetryComes` - `RetryIsTimed`.

**`Netcore`**, for every set of options and numbers of addresses, servers, rotations (above
one) and entries (above one). The environment is a constant, so a theorem can say in which
environments it holds:

* `TypeCorrect` - `TypeOK`, in every environment;
* `RightDirection` - `WatchesItsDirection`, in every environment. `Directed` extends it to the states the
  machine passes through without returning;
* `AtMostOnce` - `RegisteredOnce` and `NoLateTimeout` - `NoTimeoutWhileKeptAlive`, where
  `"udp_closed"` is not in `Environment` (with it TLC refutes the first, section 7). `RegisteredOnce` is not
  inductive: a context that gets a socket is added to the poller without a look whether it is
  there. `Registered` says in which states it is not, and that without a socket it is in no list;
* `OutcomesOwed` - `OneOutcome`, `Forgotten` - `IdleIsForgotten` and `AlwaysWoken` -
  `NeverStranded`, where `Excluded` and `Environment` have no member in common. `Excluded` is
  `tx_get_error`, `tls_start_failure`, `cancel_after_pop`, `proxy_refused`, `queue_full` and
  `udp_closed`. The first five are events with which TLC refutes one of the three (section 7); the last is
  there because they rest on `RegisteredOnce`. Every other event may be in `Environment`. The invariant
  `Watched` says what holds at each point of the watcher's loop, of which the properties see
  only the points where it is idle: inside the machine a context has exactly the entries its
  state asks for, and none in the queue, but for one that a stop may have left over and that the close
  of its socket takes.

**`AutoHeartbeat`**, for every number of contexts and slots and all periods, keys and calls:

* `TypeCorrect` - `TypeOK`, with the number of slots in use never above their number;
* `NothingHeldIdle` - `IdleHoldsNothing`. `Held` says which call holds which mutex at each
  of its steps;
* `SlotsAlwaysAgree` - `SlotsAgree`. `Tenure` follows a slot that is given up by a call through its
  steps, `Counted` ties the counter to the slots with a context;
* `TimersAlwaysRun` - `TimersRun` and `AssertionsAlwaysHold` - `AssertionsHold`. `Timing` says that a
  timer is in the array once exactly when time is left of it, in the slots that are `plain`;
  `Watching` and `Beating`, that what a thread has read before it waited for a mutex is
  still so when it goes on. `AssertionsHold` covers every mode and every release: which failure can
  come from which slot or context is read off `given_up` (`Quiet`, `Fresh`, `Retired`,
  `Watching`, `Beating`).

**`EventListener`**, for every finite set of names, every number of subscriptions, types and
listeners and every first length of the arrays of two or more:

* `TypeCorrect` - `TypeOK`, with the room in the arrays: an array grows before it is full
  (`GrowFacts`) and what is left after a removal fits what is left of it (`ShrinkFacts`);
* `Allocation` - `AllocatedWhileRegistered`. `Counts` is the heart of the inductive invariant
  `IInv`: what a counter says depends on how the listener was added and on the arrays
  it is in now. The context's listeners are at two; one added under one name is at two until
  it leaves and one added under two names at three and then at one, so that two taken off per
  array reach zero with the last one, and not sooner. `Kinds` says which listeners
  are in which arrays, so that no listener is counted in both ways; a status listener's counter is
  never looked at. Of a listener added under more names, the invariant only says that it
  was (`CrashNeedsMany`): it is what `AllocatedWhileRegistered` allows to crash;
* `Tells` - `ToldAsRegistered`, for the listeners registered for the update's type; who else is told
  is a listener of the context (section 7). An addition goes to the end of an array, so the places the
  walk counts on stay (`WalkedExtended`); `Telling` says that whoever is due was told, is
  ahead of the walk, or is among the name's listeners while the walk is over the
  context's, and that whoever was told is behind, and so not called again;
* `Removals` - `RemovedIsGone`: `pbcc_remove_listener_` takes out all listeners with the key
  although the array moves up under its loop (`RemoveListenerFacts`), and only under names its
  set has lost can one with the key be left (`Kinds`).

**`SubscribeEngine`**, for every finite number of time tokens, every set of channels,
subscriptions, cursors and calls, and whether messages are cached or not:

* `TypeCorrect` - `TypeOK`, for all `Windows`. `TInv` adds to it which calls can be on a
  thread's stack (`Steps`). A queue entry is always `CREATED` or `RUNNING`: the only
  completion takes it out (`CompletedFacts`); the number an invocation gets exists, because
  there are fewer in use than numbers to choose from (`FreeIdFacts`);
* `StatusCorrect` - `StatusIsCurrent`, for all `Windows`. It only speaks of the engine at rest;
  `StatusInv` says that the status fits the state after every transition (`TransitionFits`) and that
  either the application was told it or an `EMIT_STATUS` is queued that has not run, which
  completions, cancellations by type and pauses leave there (`Keeps`);
* `LeavesKept` - `LeavesAreKept`, for all `Windows` without `cancel`, `leave` and `requeued`
  (`LeaveWindows`; with each of the three TLC finds a leave lost, section 7). What had to be added is
  in `LeaveInv`: a leave that `pbcc_subscribe_ee_postponed_unsubscribe_` prepared finds the context
  free, the watcher gone and the application at no step that starts or cancels a transaction (`Prepared`); a
  callback comes first after the end of a transaction (`CallbackFirst`); a heartbeat finds the context as
  `make_subscribe_request_` left it (`HeartbeatFree`); and below the top of a stack there is only an
  event, a change or an error to be reported (`Nested`);
* `LoopCurrent` - `LoopIsCurrent`, for `Windows` empty or `heartbeat`, as in the run
  (`LoopWindows`; with `event`, `done`, `cancel` or `cancelled` TLC finds a request for old
  channels left running, section 7). It is about the order of the whole queue, and `LoopInv`
  has a part for each of the orders that have to agree. `CallsInv`: two threads are in the
  engine together only while `current_transaction` is the heartbeat's, and what the second can be
  at (`Turn`). `QueueInv`: an invocation in execution is the first, and its thread, or
  `cancel_invocation`, is the one that will complete it; when neither is there and no transaction
  is on record, the queue is empty or a thread is about to run its first (`Progress`). `RequestsInv`:
  every request in the queue is for the state and its channels, or has a cancel behind it
  (`Covered`), two requests have one between them (`Separate`), and the request in progress is for
  the state, or a cancel waits (`Answered`) and then is before every request that has not run
  (`Behind`). `ChannelsInv`: the state's channels are the subscriptions', or the call that makes them
  so is in progress. An event then puts a cancel and a request at the end (`EffectsShape`), which
  breaks none of these (`TakenRequests`), and what is cancelled by type, completed or paused keeps
  the order of the rest (`Selects`, `OrderKept`);
* `NothingSkipped` - `NothingSkippedWhileReceiving`, for the same `Windows`. Two more parts are
  needed. `WaitInv` says that what waits has something to wait for: no subscribe request meets a marked
  transaction (`Free`); a cancel that was begun waits for an end that comes (`CancelWaits`), a
  postponed leave for a callback (`LeaveWaits`); in a state that loops the next request is queued, is
  in progress with no cancel ahead, or its end is being told to the engine (`Needed`), so an answer meets an
  empty queue and the state it is for. `CursorInv` says that every queued request, the live
  one and every event carry the present cursor, or have a cancel ahead or are there to change it
  (`Onward`, `LiveCursor`, `Fitting`), and that the token of an answer covers nothing but messages that were
  given out or are in the read buffer, which the watcher empties next (`Covers`, `Given`).
* All of this describes an engine that goes on (`Going`). A second cancel that takes the first one's
  place in `cancel_invocation` (section 6) ends it; `StuckInv` is what holds from then on: the lost
  cancel is at the head of the queue for good and whatever is left of the calls under way does
  not touch it (`Harmless`), so no request is sent, none is in progress, and the state does
  not come to `RECEIVING`. An event handled while a first cancel waits is the step from the one
  to the other (`Doubled`), and `GoesOrStands` says that every state is in one of the two; `LoopCurrent` and
  `NothingSkipped` follow from either.
* `LoopNeverStalls` - `NeverStalls`, for the same `Windows`, every server, and subscriptions
  that have channels (an entity has an id: `PUBNUB_ASSERT_OPT(NULL != id)`,
  `core/pubnub_entities.c:108`). The property names the two ways to stall, a cancel overwritten and a
  handshake's messages left in the read buffer (`jams`); the theorem says that there
  is no third. `WaitInv` says what waits for what;
  `StallInv` that it comes. `Tracked`: a transaction on record is prepared, about to start, in
  progress, or its callback is the watcher's next step, so a queue, a cancel or a leave that waits
  is taken up. `Buffered`: a full read buffer is on its way to the application through the watcher,
  so nothing is refused for it. `CallBeats`, `QueueBeats` and `SentBeats`: a heartbeat is made for
  channels that are there, so it is not refused, which would leave `current_transaction`
  set for ever.

How what recursive functions compute is proved: the library's induction takes an operator as a
parameter, so these proofs go by the least number that would refute a claim (`Least`, from the
well-foundedness of the natural numbers), and a recursive function is identified with one that is
shown to exist and to satisfy its equation (`DueIs`, `FilledIs`, `WithoutIs`, `ThinnedIs`).

Only model-checked:

* all liveness (`PendingIsTaken`, `EveryTransactionEnds`, `LeaveIsSent`, and, refuted, `CalledBack`
  and `KeepsPresence`): the prover handles neither fairness nor `ENABLED`;
* that the constants cover the API (`EveryKindIsCalled`), which is about given values.


## 6. Disagreements between the code and its documents

Each is a run that TLC refutes; `PROJECT.json` quotes the document.

* `subscribe_reconnect` - `pubnub_reconnect(pb, NULL)` starts at the present instead of the
  cursor in use before; what was published in between is not delivered.
* `subscribe_stall` - one thread that subscribes and unsubscribes during a handshake stops the loop for
  good: the cancel of the second call is in `cancel_invocation` when that of the third overwrites it, the
  callback completes the third's only, and the second's stays at the head of the queue, which is
  never processed any further, although a paused request is said to be run again from
  the next callback.
* `auto_heartbeat_presence` - setting the period waits for the module's mutex with the
  context's `thumper_monitor` locked, the end of a beat for that monitor with the mutex
  locked, and the heartbeat watcher for the mutex with the timers' lock: no context keeps
  its presence any more.
* `retry_cancel` - a request cancelled while it waits to be retried is never reported: the
  watcher joins the timer's thread with the two mutexes locked that thread needs to end.

## 7. What the passing runs leave out, and what TLC says with it

The constants `Environment` and `Windows` exist so that the passing runs can be about
the rest of the system. With one more member TLC finds
(each tried alone; the first violations met, not all there are). A name in brackets is
the definition of `MCNetcore` to use for `Options`:

| constant | member | then violated | where it bites |
|---|---|---|---|
| `Environment` | `tls_start_failure` (`MCFallback`) | `NeverStranded`: a TLS handshake that fails at once leaves a context that may fall back in `PBS_RETRY` with no socket, timer or queue entry, because `return 0` skips the check behind the switch | `pubnub_netcore.c:1099` |
| | `tx_get_error` (`MCPlain`) | `OneOutcome`: the outcome is reported, `break` leaves the inner switch only, and the machine makes the request again | `pubnub_netcore.c:1207` |
| | `cancel` (`MCPlain`) | `CancelIsReported`: a timer that expires while a cancellation waits replaces `PNR_CANCELLED` | `pubnub_netcore.c:1839` |
| | none (`MCTunnel`) | `TunnelIsReal`: `proxy_tunnel_established` outlives the connection; the request meant for the tunnel goes to the proxy itself | `pubnub_proxy_core.c:387` |
| | `cancel_after_pop` | `OneOutcome`: the watcher runs a context that was cancelled and became idle between queue and monitor, which starts a transaction | `pbpal_ntf_callback_queue.c:103` |
| | `udp_closed` | `RegisteredOnce`: a DNS socket closed without telling the watcher | `pbpal_resolv_and_connect_sockets.c:885` |
| | `unreachable`, `ttl` (in the run) | `EveryTransactionEnds` without its condition: the last spare address falls through to a new query, which brings spare addresses again; or one is out of date before it is used | same file `:735`, `:565` |
| | `queue_full` | `NeverStranded`, `IdleIsForgotten` | `pubnub_netcore.c:1900`, `:1768` |
| | `proxy_refused` | `IdleIsForgotten`: a proxy given by its address refuses at once, and the outcome is reported with the socket open | `pubnub_netcore.c:944` |
| `Windows` | `event`, `changed` | `NeverStalls`, with `event` also `NothingSkippedWhileReceiving` and `LoopIsCurrent`: an event carries a copy of the state older than the event before it | `pbcc_subscribe_event_engine_events.c:249` |
| | `cancel`, `done` | `NeverStalls`, `NothingSkippedWhileReceiving`, `LoopIsCurrent` (with `done` from `MaxRestoring` = 2 on), with `cancel` also `LeavesAreKept`: the request ends by itself before its cancel, and the callback that looks for the postponed leave was the one before | `pbcc_subscribe_event_engine.c:796` |
| | `cancelled` | `NeverStalls`, `LoopIsCurrent`: the slot for the cancel invocation is written after the callback that looks for it | `pbcc_subscribe_event_engine_effects.c:142` |
| | `leave`, `requeued` | `LeavesAreKept`: the prepared leave is replaced by a transaction of the application | `pbcc_subscribe_event_engine.c:1072` |
| `Cached` | `TRUE` | `CatchesUp`, and `NeverStalls` without its exemption of unread messages: messages in the reply to a handshake are taken by nobody, the read buffer stays full | `pbcc_subscribe_v2.c:46` |

These are consequences of the interleavings as modelled, several of them narrow; they
are kept as hazards, and not as findings, where no document says otherwise. A requeue
may also insert a context twice (search and insertion are two critical sections,
`pbpal_ntf_callback_queue.c:68`, although the header says duplicates are avoided);
the FIFO specification allows it, and the state machine has to live with it.
So `subscribe_engine` checks the engine where threads meet at the start of a call or
at the heartbeat, not at every point between two locks.

The properties of `Requests` exempt by `spoiled` and `kept`, and its other runs leave
out by their constants, what the model shows the code to do:

* `RetriedAsConfigured` is violated (`Calls <- MCFewCalls`, `Configurations <- MCOnce`,
  `Replies <- MCFewReplies`, `MaxAttempts` = 2): the `(size_t)-1` that means no retry is a
  delay of 65535 ms in `uint16_t`, and the request is retried without end
  (`pbpal_ntf_callback_admin.c:38`); a Retry-After of 66 s is cut the same way;
* a retry of a POST, PATCH or DELETE goes out as a GET, since `method` is reset first
  (`pbpal_ntf_callback_admin.c:31`), and after a reply it sends what the reply left of the
  request in the same buffer;
* a request that timed out after it was cancelled is retried;
* a retried request that fails in the timer's own thread is neither retried nor told, and
  the thread may free the timer it runs on (`pbcc_request_retry_timer.c:115`,
  `pbpal_ntf_callback_admin.c:58`: state `CRASHED`);
* calls that set `trans` and `method` before their request is prepared leave them behind
  when that fails (`pubnub_grant_token_api.c:70`); the length of a compressed message
  outlives it (`pubnub_coreapi_ex.c:108`);
* `pubnub_subscribe`, `pubnub_heartbeat` and `pubnub_publish_ex` return some errors with the
  monitor locked (`pubnub_pubsubapi.c:482`, `pubnub_coreapi.c:255`, `pubnub_coreapi_ex.c:100`).

In `AutoHeartbeat`, `TimersRun` fails without the history `plain`: a timer that was stopped
looks started for ever (`pbauto_heartbeat.c:43`), one that runs is started twice in smart mode
(`:78`), and then there is no room in the array, which the third part of `AssertionsHold` allows. Its
other parts fail without `given_up`: a timer of a released slot expires, and a slot is
looked up between the two readings of the index (`:823`).

In `EventListener` the process crashes, by the disjuncts of `AllocatedWhileRegistered`, after

* a listener added under three or more names is removed: every array takes two from its
  counter (`pbcc_subscribe_event_listener.c:704`);
* a listener is removed by one that is being called (`:736`, the count is cached);
* an update arrives at a context that never had a subscription listener: `pbhash_set_element` is
  given NULL (`:556`).

A listener added for a set that has no names at the moment is in no array and is freed by
nobody (`:456`; `AllocatedWhileRegistered` is about those with one or two names).

A listener of a name its set has lost since stays (`:506`, exempted by `shrunk`), and one
of the context is called for every type of update, not only for its own
(`:739`; `pubnub_subscribe_event_listener.h:75` calls it the "Type of real-time update for
which listener will be called."). `ToldAsRegistered` demands a call for the type of the update only
and exempts these calls; without the exemption TLC refutes it on the first such
update. Reading for the model also showed
`pubnub_subscription_set_union` and `pubnub_subscription_set_subtract` to go through `set`
where `other_set` is meant (`pubnub_subscribe_event_engine.c:317`, `:345`).

## 8. Not modelled

* Bytes: HTTP, JSON, URL and DNS encoding, base64, MD5, CRC, compression, crypto. They
  are pure conversions with unit tests; their outcomes (good, bad, too big) are
  disjuncts of `Netcore`.
* The text of the requests, and the functions that read replies.
* Failures of memory allocation, logging, statistics.
* The other ports (Windows, FreeRTOS, Qt, mbedTLS, C++), the synchronous interface.
* In `Requests`: contexts in their static allocation, freeing with a timeout, the rotation
  of DNS servers and the retry after a closed connection (both in `Netcore`).
* In `AutoHeartbeat`: the saved channels (only whether there are any).
* In `EventListener`: emissions from a listener, several calls by one.
* In `SubscribeEngine`: adding to a subscription set that is already subscribed, the mutexes themselves (so no lock order), and that
  `pubnub_cancel` may end a transaction in the caller's thread: callbacks come from
  the watcher.

The share of the repository's lines that is modelled stays small, because most of them are
ports, wrappers, vendored code, samples and text. The modules cover the code with state
that several threads or many calls share.

## 9. Plan

1. Model more: `LockOrder` (the engine's and the subscribe engine's mutexes, which
   transitions and `pbcc_subscribe_ee_disconnect` take in opposite order); the contexts of
   the allocator's array; subscription sets that change while subscribed; the DNS server
   marks and `rotations_count` with the width of their C types.
2. Compose: `Netcore` with `CallbackQueue` for two contexts; the transactions of
   `SubscribeEngine` and `Requests` as an abstract specification that `Netcore` implements.
3. Prove: that `Netcore`'s watcher does what `CallbackQueue` promises it, once they are composed.
