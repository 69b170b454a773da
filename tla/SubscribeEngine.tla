--------------------------- MODULE SubscribeEngine ---------------------------
(***************************************************************************)
(* The subscribe event engine of one context: the engine's state and its   *)
(* queue of effect invocations (core/pbcc_event_engine.c), the states,     *)
(* events and effects of the subscription loop                             *)
(* (core/pbcc_subscribe_event_engine*.c) and the transactions the effects  *)
(* start on the context, one at a time.                                    *)
(*                                                                         *)
(* Two threads run it: the application's, in an API call, and the watcher, *)
(* in the callback that ends a transaction, with the context's monitor     *)
(* held.  todo[t] is what is left of the C call of thread t: the calls     *)
(* nested in each other, innermost first.  A step is what happens between  *)
(* two points where no mutex of the engine is held, and Windows names the  *)
(* steps before which the other thread is let in.  Leave, MakeHeartbeat    *)
(* and MakeSubscribeRequest are coarser: the test for a transaction in     *)
(* progress and what is done upon it are one step, though the code holds   *)
(* no mutex of the engine from one to the other (MakeHeartbeat up to       *)
(* pubnub_heartbeat, which is a step of its own).                          *)
(***************************************************************************)
EXTENDS Integers, Sequences, FiniteSets

CONSTANTS Subscriptions,   \* subscription objects of the application
          Channels,
          ChannelsOf,      \* the channels of each subscription
          MaxToken,        \* bound: the last time token
          MaxInvocations,  \* bound: the application waits with more queued
          MaxRestoring,    \* bound: the same, for disconnect, reconnect and a cursor
          Calls,           \* API calls the application makes
          Cursors,         \* cursors the application passes; 0 is none or "0"
          Cached,          \* whether missed messages are still in the server's cache
          Windows          \* steps before which the other thread may run

ASSUME BoundsAssumption == MaxToken \in Nat \ {0} /\ MaxInvocations \in Nat /\ MaxRestoring \in Nat
ASSUME ChannelsAssumption == ChannelsOf \in [Subscriptions -> SUBSET Channels]
ASSUME ServerAssumption == Cursors \subseteq 0 .. MaxToken /\ Cached \in BOOLEAN
ASSUME WindowsAssumption ==
    Windows \subseteq {"event", "changed", "done", "cancel", "cancelled", "heartbeat",
                       "leave", "requeued"}

VARIABLES state,                \* pbcc_event_engine.current_state: its type ...
          context,              \* ... and its data
          invocations,          \* pbcc_event_engine.invocations
          status,               \* subscribe_ee->status
          current_transaction,
          cancel_invocation,    \* an invocation, or None
          leave,                \* leave_channels and leave_channel_groups
          subscriptions,        \* subscriptions and subscription_sets
          subscribables,
          pb,                   \* the context, as far as its transactions go
          todo,
          now,                  \* the server's time token: that of the last message
          seen,                 \* history: messages up to here were given to the application
          skipped,              \* history: a handshake went past messages not given
          told,                 \* history: the last status the application was given
          owed,                 \* history: channels left, whose leave was not yet sent
          jams                  \* history: what made the loop stop for good, of Jams

engine == <<state, context, invocations, status>>
flags == <<current_transaction, cancel_invocation>>
calls == <<subscriptions, subscribables>>
delivery == <<seen, skipped, told>>
vars == <<engine, flags, leave, calls, pb, todo, now, delivery, owed, jams>>

Threads == {"app", "watcher"}
Looping == {"HANDSHAKING", "RECEIVING"}
Stopped == {"HANDSHAKE_STOPPED", "RECEIVE_STOPPED"}
Failed == {"HANDSHAKE_FAILED", "RECEIVE_FAILED"}
States == Looping \cup Stopped \cup Failed \cup {"UNSUBSCRIBED"}
Requests == {"HANDSHAKE", "RECEIVE"}
Tokens == 0 .. MaxToken

\* What stops the loop for good: the slot for the cancel that waits for its
\* callback is overwritten, and the first cancel never completes; or a handshake
\* leaves messages in the read buffer, and a heartbeat that is refused for them
\* never ends.
Jams == {"overwritten", "unread"}

\* A pbcc_subscribe_ee_context_t; NoContext is the missing one of UNSUBSCRIBED.
NoContext == [channels |-> {}, cursor |-> 0]

-----------------------------------------------------------------------------
(* The context's transactions                                               *)

CanStart == pb.state \in {"IDLE", "KEEP_ALIVE_IDLE"}

\* A transaction starts; HANDSHAKE and RECEIVE are both PBTT_SUBSCRIBE_V2.
\* pbcc_leave_prep makes "next subscribe() ... a join".
Started(trans, channels) ==
    [pb EXCEPT !.state = "BUSY", !.requeued = FALSE, !.trans = trans, !.channels = channels,
               !.timetoken = IF trans = "LEAVE" THEN 0 ELSE @]

\* pbnc_stop in pubnub_cancel
Cancelled == IF pb.state = "IDLE" THEN [pb EXCEPT !.trans = "NONE", !.requeued = FALSE]
             ELSE [pb EXCEPT !.state = "WAIT_CANCEL", !.requeued = FALSE,
                             !.trans = IF pb.state = "KEEP_ALIVE_IDLE" THEN "NONE" ELSE @]

-----------------------------------------------------------------------------
(* Threads                                                                  *)

\* The watcher holds the context's monitor throughout its callback.
Monitor(t) == t = "watcher" \/ todo["watcher"] = <<>>

\* Thread t has to wait for the monitor before its next step.
Blocked(t) == /\ ~ Monitor(t)
              /\ \/ Head(todo[t]).op \in {"leave", "cancel", "heartbeat"}
                 \/ Head(todo[t]).op = "exec" /\ Head(todo[t]).id[1] \in Requests

\* Thread t is about to take a step op, and the other is out of the engine,
\* stopped in a window or blocked.
At(t, op) == /\ todo[t] # <<>> /\ Head(todo[t]).op = op
             /\ \A u \in Threads \ {t} :
                   todo[u] # <<>> => Head(todo[u]).op \in Windows \/ Blocked(u)

\* The step turns into the calls in steps.
Then(t, steps) == todo' = [todo EXCEPT ![t] = steps \o Tail(@)]

\* The call returns.
Return(t) == Then(t, <<>>)

Step(op) == [op |-> op]
With(op, id) == [op |-> op, id |-> id]

-----------------------------------------------------------------------------
(* Events and transitions                                                   *)

\* pbcc_subscribe_ee_event_alloc_: a copy of the current state's data
Event(type, channels, cursor, heartbeat) ==
    [op |-> "event", type |-> type, heartbeat |-> heartbeat,
     ctx |-> [channels |-> channels, cursor |-> cursor]]

CopyEvent(type) == Event(type, context.channels, context.cursor, FALSE)

\* The targets of the transition functions; NONE leaves the state alone.
Target(s, type, empty) ==
    CASE type \in {"SUBSCRIPTION_CHANGED", "SUBSCRIPTION_RESTORED"} ->
             (CASE s \in {"UNSUBSCRIBED", "RECEIVE_FAILED"} -> "HANDSHAKING"
                [] s \in Stopped -> s
                [] s = "HANDSHAKING" /\ type = "SUBSCRIPTION_RESTORED" -> s
                [] OTHER -> IF empty THEN "UNSUBSCRIBED"
                            ELSE IF s = "HANDSHAKE_FAILED" THEN "HANDSHAKING" ELSE s)
      [] type = "HANDSHAKE_SUCCESS" /\ s = "HANDSHAKING" -> "RECEIVING"
      [] type = "HANDSHAKE_FAILURE" /\ s = "HANDSHAKING" -> "HANDSHAKE_FAILED"
      [] type = "RECEIVE_SUCCESS" /\ s = "RECEIVING" -> "RECEIVING"
      [] type = "RECEIVE_FAILURE" /\ s = "RECEIVING" -> "RECEIVE_FAILED"
      [] type = "DISCONNECT" /\ s = "HANDSHAKING" -> "HANDSHAKE_STOPPED"
      [] type = "DISCONNECT" /\ s = "RECEIVING" -> "RECEIVE_STOPPED"
      [] type = "RECONNECT" /\ s \in Stopped \cup Failed -> "HANDSHAKING"
      [] type = "UNSUBSCRIBE_ALL" /\ s # "UNSUBSCRIBED" -> "UNSUBSCRIBED"
      [] OTHER -> "NONE"

\* Mutant: a failed receive request announces nothing.
FailsQuietly(s, type, target) ==
    CASE s = "HANDSHAKING" /\ type = "HANDSHAKE_SUCCESS" -> "CONNECTED"
      [] s = "HANDSHAKING" /\ type = "HANDSHAKE_FAILURE" -> "CONNECTION_ERROR"
      [] s = "RECEIVING" /\ target \in {"UNSUBSCRIBED", "RECEIVE_STOPPED"} -> "DISCONNECTED"
      [] s = "RECEIVING" /\ type # "RECEIVE_SUCCESS" /\ target = s -> "SUBSCRIPTION_CHANGED"
      [] OTHER -> "NONE"

\* The status a transition announces; NONE when it announces nothing.
Announced(s, type, target) ==
    CASE s = "HANDSHAKING" /\ type = "HANDSHAKE_SUCCESS" -> "CONNECTED"
      [] s = "HANDSHAKING" /\ type = "HANDSHAKE_FAILURE" -> "CONNECTION_ERROR"
      [] s = "RECEIVING" /\ type = "RECEIVE_FAILURE" -> "DISCONNECTED_UNEXPECTEDLY"
      [] s = "RECEIVING" /\ target \in {"UNSUBSCRIBED", "RECEIVE_STOPPED"} -> "DISCONNECTED"
      [] s = "RECEIVING" /\ type # "RECEIVE_SUCCESS" /\ target = s -> "SUBSCRIPTION_CHANGED"
      [] OTHER -> "NONE"

\* Mutant: the old state's on_exit comes first, and resets the read buffer.
CancelsFirst(s, type, target) ==
    (IF s \in Looping THEN <<"CANCEL">> ELSE <<>>)
    \o (IF Announced(s, type, target) # "NONE" THEN <<"EMIT_STATUS">>
        ELSE IF type = "RECEIVE_SUCCESS" THEN <<"EMIT_MESSAGE">> ELSE <<>>)
    \o (CASE target = "HANDSHAKING" -> <<"HANDSHAKE">>
          [] target = "RECEIVING" -> <<"RECEIVE">>
          [] OTHER -> <<>>)

\* The transition's own invocation, then the old state's on_exit, then the new
\* state's on_enter.
Effects(s, type, target) ==
    (IF Announced(s, type, target) # "NONE" THEN <<"EMIT_STATUS">>
     ELSE IF type = "RECEIVE_SUCCESS" THEN <<"EMIT_MESSAGE">> ELSE <<>>)
    \o (IF s \in Looping THEN <<"CANCEL">> ELSE <<>>)
    \o (CASE target = "HANDSHAKING" -> <<"HANDSHAKE">>
          [] target = "RECEIVING" -> <<"RECEIVE">>
          [] OTHER -> <<>>)

\* An invocation is known by its type and the lowest number not in use: by
\* queued invocations, by calls and by cancel_invocation.
Types == Requests \cup {"CANCEL", "EMIT_STATUS", "EMIT_MESSAGE"}
None == <<"CANCEL", 0>>
Ids == Types \X (Nat \ {0})
UsedIds == {invocations[i].id : i \in DOMAIN invocations} \cup {cancel_invocation} \cup
           UNION {{todo[t][i].id : i \in {j \in DOMAIN todo[t] : "id" \in DOMAIN todo[t][j]}} :
                  t \in Threads}
FreeId(type) ==
    LET used == UsedIds
        free == {k \in 1 .. Cardinality(used) + 1 : <<type, k>> \notin used}
    IN  <<type, CHOOSE k \in free : \A j \in free : k <= j>>

Queued(id) == \E i \in DOMAIN invocations : invocations[i].id = id
Index(id) == CHOOSE i \in DOMAIN invocations : invocations[i].id = id
Drop(q, i) == SubSeq(q, 1, i - 1) \o SubSeq(q, i + 1, Len(q))

\* pbcc_ee_invocation_cancel_by_type: the first that is not running
CancelByType(q, type) ==
    LET found == {i \in DOMAIN q : q[i].id[1] = type /\ q[i].status # "RUNNING"}
    IN  IF found = {} THEN q ELSE Drop(q, CHOOSE i \in found : \A j \in found : i <= j)

\* pbcc_ee_process_next_invocation: the first of queue q is run.
ProcessNext(q) == IF q = <<>> THEN <<>> ELSE <<With("exec", q[1].id)>>

\* What the application has, or has asked to do without, once the event is taken.
Seen(ev, target) ==
    CASE target = "UNSUBSCRIBED" -> 0
      [] ev.type = "SUBSCRIPTION_RESTORED" -> ev.ctx.cursor
      [] ev.type = "RECONNECT" /\ ev.ctx.cursor # 0 -> ev.ctx.cursor
      [] ev.type = "HANDSHAKE_SUCCESS" -> ev.ctx.cursor
      [] OTHER -> seen

\* pbcc_ee_handle_event
HandleEvent(t) ==
    /\ At(t, "event")
    /\ LET ev == Head(todo[t])
           target == Target(state, ev.type, ev.ctx.channels = {})
           effects == Effects(state, ev.type, target)
           new == [i \in 1 .. Len(effects) |->
                      [id |-> FreeId(effects[i]), status |-> "CREATED",
                       ctx |-> IF effects[i] \in Requests THEN ev.ctx ELSE NoContext,
                       heartbeat |-> effects[i] \in Requests /\ ev.heartbeat]]
           announced == Announced(state, ev.type, target)
       IN  \/ target = "NONE" /\ Return(t) /\ UNCHANGED <<engine, delivery>>
           \/ /\ target # "NONE"
              /\ state' = target
              /\ context' = IF target = "UNSUBSCRIBED" THEN NoContext ELSE ev.ctx
              /\ status' = IF announced = "NONE" THEN status ELSE announced
              /\ invocations' = (CASE target = "HANDSHAKING" -> CancelByType(invocations, "HANDSHAKE")
                                   [] target = "RECEIVING" -> CancelByType(invocations, "RECEIVE")
                                   [] OTHER -> invocations) \o new
              /\ seen' = Seen(ev, target)
              /\ skipped' = (skipped \/ /\ Cached /\ ev.type = "HANDSHAKE_SUCCESS"
                                        /\ seen # 0 /\ seen < ev.ctx.cursor)
              /\ Then(t, CASE effects = <<>> -> <<>>
                           [] effects # <<>> /\ effects[1] = "CANCEL" -> ProcessNext(new)
                           [] OTHER -> ProcessNext(invocations'))
              /\ UNCHANGED told
    /\ UNCHANGED <<flags, leave, calls, pb, now, owed, jams>>

Mark(id, s) == [invocations EXCEPT ![Index(id)].status = s]

\* Mutant: the completed invocation stays in the queue.
OnlyMarks(id) == IF Queued(id) THEN Mark(id, "COMPLETED") ELSE invocations

\* pbcc_ee_handle_effect_completion
Completed(id) == IF Queued(id) /\ invocations[Index(id)].status = "RUNNING"
                 THEN Drop(invocations, Index(id)) ELSE invocations

\* pbcc_ee_effect_completion_ of an effect that is not paused
Complete(t) ==
    /\ At(t, "done")
    /\ LET id == Head(todo[t]).id
       IN  /\ invocations' = Completed(id)
           /\ Then(t, IF invocations' # invocations THEN ProcessNext(invocations') ELSE <<>>)
    /\ UNCHANGED <<state, context, status, flags, leave, calls, pb, now, delivery, owed, jams>>

-----------------------------------------------------------------------------
(* Effects                                                                  *)

Invocation(id) == invocations[Index(id)]

\* pbcc_ee_invocation_exec_ of an invocation of one of types
Runs(t, types) == /\ At(t, "exec")
                 /\ Queued(Head(todo[t]).id)
                 /\ Invocation(Head(todo[t]).id).status = "CREATED"
                 /\ Head(todo[t]).id[1] \in types

\* pbcc_ee_invocation_exec_ of one that is running or gone
NotRunnable(t) ==
    /\ At(t, "exec")
    /\ Queued(Head(todo[t]).id) => Invocation(Head(todo[t]).id).status # "CREATED"
    /\ Return(t)
    /\ UNCHANGED <<engine, flags, leave, calls, pb, now, delivery, owed, jams>>

\* pbcc_subscribe_ee_emit_status_effect
EmitStatus(t) ==
    /\ Runs(t, {"EMIT_STATUS"})
    /\ LET id == Head(todo[t]).id
       IN  invocations' = Mark(id, "RUNNING") /\ Then(t, <<With("done", id)>>)
    /\ told' = status
    /\ UNCHANGED <<state, context, status, flags, leave, calls, pb, now, seen, skipped, owed, jams>>

\* pbcc_subscribe_ee_emit_messages_effect
EmitMessages(t) ==
    /\ Runs(t, {"EMIT_MESSAGE"})
    /\ LET id == Head(todo[t]).id
       IN  invocations' = Mark(id, "RUNNING") /\ Then(t, <<With("done", id)>>)
    /\ seen' = IF pb.messages > seen /\ pb.cursor <= seen THEN pb.messages ELSE seen
    /\ pb' = [pb EXCEPT !.messages = 0, !.cursor = IF CanStart THEN 0 ELSE @]
    /\ UNCHANGED <<state, context, status, flags, leave, calls, now, skipped, told, owed, jams>>

\* Mutant: the effect cancels whatever transaction is in progress.
CancelsAnyTransaction(t) ==
    /\ Runs(t, {"CANCEL"})
    /\ invocations' = Mark(Head(todo[t]).id, "RUNNING")
    /\ Then(t, <<With("cancel", Head(todo[t]).id)>>)
    /\ UNCHANGED <<state, context, status, flags, leave, calls, pb, now, delivery, owed, jams>>

\* pbcc_subscribe_ee_cancel_effect up to pubnub_cancel; paused, it stays CREATED.
CancelEffect(t) ==
    /\ Runs(t, {"CANCEL"})
    /\ LET id == Head(todo[t]).id
       IN  \/ current_transaction # "NONE" /\ Return(t) /\ UNCHANGED invocations
           \/ /\ current_transaction = "NONE"
              /\ invocations' = Mark(id, "RUNNING") /\ Then(t, <<With("cancel", id)>>)
    /\ UNCHANGED <<state, context, status, flags, leave, calls, pb, now, delivery, owed, jams>>

\* pubnub_cancel, and the effect's completion when it returns PN_CANCEL_FINISHED
Cancel(t) ==
    /\ At(t, "cancel") /\ Monitor(t)
    /\ pb' = Cancelled
    /\ Then(t, <<With(IF pb.state = "IDLE" THEN "done" ELSE "cancelled", Head(todo[t]).id)>>)
    /\ UNCHANGED <<engine, flags, leave, calls, now, delivery, owed, jams>>

\* subscribe_ee->cancel_invocation = invocation, with no mutex
CancelStarted(t) ==
    /\ At(t, "cancelled")
    /\ cancel_invocation' = Head(todo[t]).id
    /\ jams' = IF cancel_invocation = None THEN jams ELSE jams \cup {"overwritten"}
    /\ Return(t)
    /\ UNCHANGED <<engine, current_transaction, leave, calls, pb, now, delivery, owed>>

\* make_subscribe_request_ with send_heartbeat, up to pubnub_heartbeat
MakeHeartbeat(t) ==
    /\ Runs(t, Requests) /\ Monitor(t)
    /\ Invocation(Head(todo[t]).id).heartbeat
    /\ LET id == Head(todo[t]).id
       IN  \/ /\ ~ (current_transaction = "NONE" /\ CanStart)
              /\ Return(t) /\ UNCHANGED <<invocations, current_transaction>>
           \/ /\ current_transaction = "NONE" /\ CanStart
              /\ invocations' = [invocations EXCEPT ![Index(id)].heartbeat = FALSE,
                                                    ![Index(id)].status = "RUNNING"]
              /\ current_transaction' = "HEARTBEAT"
              /\ Then(t, <<With("heartbeat", id)>>)
    /\ UNCHANGED <<state, context, status, cancel_invocation, leave, calls, pb, now, delivery, owed, jams>>

\* pubnub_heartbeat, its result ignored, and the pause of the effect
Heartbeat(t) ==
    /\ At(t, "heartbeat") /\ Monitor(t)
    /\ LET inv == Invocation(Head(todo[t]).id)
       IN  pb' = IF CanStart /\ inv.ctx.channels # {} /\ pb.messages = 0
                 THEN Started("HEARTBEAT", inv.ctx.channels) ELSE pb
    /\ invocations' = Mark(Head(todo[t]).id, "CREATED")
    /\ Return(t)
    /\ UNCHANGED <<state, context, status, flags, leave, calls, now, delivery, owed, jams>>

\* The rest of make_subscribe_request_ : pb->core.timetoken is set even when
\* pubnub_subscribe_v2 then refuses.
MakeSubscribeRequest(t) ==
    /\ Runs(t, Requests) /\ Monitor(t)
    /\ LET id == Head(todo[t]).id
           inv == Invocation(id)
           refused == inv.ctx.channels = {} \/ pb.messages # 0
       IN  /\ ~ inv.heartbeat
           /\ \/ /\ current_transaction # "NONE"
                 /\ Return(t) /\ UNCHANGED <<invocations, pb>>
              \/ /\ current_transaction = "NONE" /\ ~ CanStart
                 /\ pb' = [pb EXCEPT !.timetoken = inv.ctx.cursor]
                 /\ Return(t) /\ UNCHANGED invocations
              \/ /\ current_transaction = "NONE" /\ CanStart
                 /\ invocations' = Mark(id, "RUNNING")
                 /\ pb' = IF refused THEN [pb EXCEPT !.timetoken = inv.ctx.cursor]
                          ELSE [Started(id[1], inv.ctx.channels)
                                   EXCEPT !.timetoken = inv.ctx.cursor, !.cursor = inv.ctx.cursor]
                 /\ Then(t, <<With("done", id)>> \o IF refused THEN <<Step("error")>> ELSE <<>>)
    /\ UNCHANGED <<state, context, status, flags, leave, calls, now, delivery, owed, jams>>

\* pbcc_subscribe_ee_handle_subscribe_error
SubscribeError(t) ==
    /\ At(t, "error")
    /\ Then(t, CASE state = "HANDSHAKING" -> <<CopyEvent("HANDSHAKE_FAILURE")>>
                 [] state = "RECEIVING" -> <<CopyEvent("RECEIVE_FAILURE")>>
                 [] OTHER -> <<>>)
    /\ UNCHANGED <<engine, flags, leave, calls, pb, now, delivery, owed, jams>>

-----------------------------------------------------------------------------
(* The watcher: the end of a transaction and pbcc_subscribe_callback_       *)

\* The watcher enters the engine.
Enters(steps) == /\ todo["watcher"] = <<>>
                 /\ todo["app"] # <<>> => Head(todo["app"]).op \in Windows
                 /\ todo' = [todo EXCEPT !["watcher"] = steps]

\* Mutant: a cancelled subscribe request is reported like a failed one.
ReportsCancelled(result) == IF pb.trans \in Requests
                            THEN <<[op |-> "report", ok |-> result = "OK"]>>
                            ELSE <<[op |-> "callback", trans |-> pb.trans, ok |-> result = "OK"]>>

\* pbcc_subscribe_callback_ : an answer to a subscribe request is reported at once.
Callback(result) == IF result # "CANCELLED" /\ pb.trans \in Requests
                    THEN <<[op |-> "report", ok |-> result = "OK"]>>
                    ELSE <<[op |-> "callback", trans |-> pb.trans, ok |-> result = "OK"]>>

\* What a reply to the request may bring: HANDSHAKE from an old cursor finds
\* messages only when they are still cached.
Messages == IF /\ pb.trans \in Requests /\ pb.cursor # 0 /\ pb.cursor < now
               /\ pb.trans = "RECEIVE" \/ Cached
            THEN now ELSE 0

\* The context when its transaction is over; what is left of the request is
\* not used again.
Over(s) == [pb EXCEPT !.state = s, !.trans = "NONE", !.channels = {}]

\* A transaction ends with an answer, the connection kept or closed.
EndOk ==
    /\ pb.state = "BUSY"
    /\ \E s \in {"IDLE", "KEEP_ALIVE_IDLE"} :
          pb' = IF pb.trans \in Requests
                THEN [Over(s) EXCEPT !.messages = Messages, !.timetoken = now,
                                     !.cursor = IF Messages = 0 THEN 0 ELSE @]
                ELSE Over(s)
    /\ Enters(Callback("OK"))
    /\ owed' = IF pb.trans = "LEAVE" THEN owed \ pb.channels ELSE owed
    /\ jams' = IF pb.trans = "HANDSHAKE" /\ Messages # 0 THEN jams \cup {"unread"} ELSE jams
    /\ UNCHANGED <<engine, flags, leave, calls, now, delivery>>

\* A transaction fails: refused connection, time-out, bad answer; the last may
\* keep the connection, and for a subscribe request reset the time token.
EndError ==
    /\ pb.state = "BUSY"
    /\ \E s \in {"IDLE", "KEEP_ALIVE_IDLE"} :
          \E timetoken \in {pb.timetoken} \cup (IF pb.trans \in Requests THEN {0} ELSE {}) :
             pb' = [Over(s) EXCEPT !.timetoken = timetoken,
                                   !.cursor = IF pb.messages = 0 THEN 0 ELSE @]
    /\ Enters(Callback("ERROR"))
    /\ owed' = IF pb.trans = "LEAVE" THEN owed \ pb.channels ELSE owed
    /\ UNCHANGED <<engine, flags, leave, calls, now, delivery, jams>>

\* PBS_WAIT_CANCEL_CLOSE
EndCancelled ==
    /\ pb.state = "WAIT_CANCEL"
    /\ pb' = [Over("IDLE") EXCEPT !.messages = 0, !.cursor = 0]
    /\ Enters(Callback("CANCELLED"))
    /\ owed' = IF pb.trans = "LEAVE" THEN owed \ pb.channels ELSE owed
    /\ UNCHANGED <<engine, flags, leave, calls, now, delivery, jams>>

\* The queue processor runs the context that postponed_unsubscribe_ prepared.
Requeued ==
    /\ pb.requeued
    /\ Enters(<<>>)
    /\ pb' = [pb EXCEPT !.requeued = FALSE, !.state = IF CanStart THEN "BUSY" ELSE @]
    /\ UNCHANGED <<engine, flags, leave, calls, now, delivery, owed, jams>>

\* pbcc_subscribe_callback_ of a heartbeat, a leave or what was cancelled, with
\* pbcc_subscribe_ee_postponed_unsubscribe_
OtherCallback ==
    /\ At("watcher", "callback")
    /\ LET cb == Head(todo["watcher"])
           ended == cb.trans \in {"HEARTBEAT", "LEAVE"}
           transaction == IF ended THEN "NONE" ELSE current_transaction
           flushed == IF ended THEN [pb EXCEPT !.messages = 0, !.cursor = 0] ELSE pb
           postponed == leave # {} /\ transaction = "NONE"
       IN  /\ invocations' = IF cancel_invocation = None THEN invocations
                             ELSE Completed(cancel_invocation)
           /\ cancel_invocation' = None
           /\ leave' = IF postponed THEN {} ELSE leave
           /\ current_transaction' = IF postponed THEN "LEAVE" ELSE transaction
           /\ pb' = IF ~ postponed THEN flushed
                    ELSE [flushed EXCEPT !.trans = "LEAVE", !.channels = leave, !.timetoken = 0,
                                         !.requeued = TRUE]
           /\ Then("watcher", CASE leave # {} -> <<>>
                                [] leave = {} /\ invocations' = <<>> -> <<[op |-> "report", ok |-> cb.ok]>>
                                [] OTHER -> ProcessNext(invocations'))
    /\ UNCHANGED <<state, context, status, calls, now, delivery, owed, jams>>

\* The event of pbcc_subscribe_callback_
Report ==
    /\ At("watcher", "report")
    /\ LET event(success, failure) ==
              IF Head(todo["watcher"]).ok
              THEN Event(success, context.channels, pb.timetoken, FALSE) ELSE CopyEvent(failure)
       IN  Then("watcher",
                CASE state = "HANDSHAKING" -> <<event("HANDSHAKE_SUCCESS", "HANDSHAKE_FAILURE")>>
                  [] state = "RECEIVING" -> <<event("RECEIVE_SUCCESS", "RECEIVE_FAILURE")>>
                  [] OTHER -> <<>>)
    /\ UNCHANGED <<engine, flags, leave, calls, pb, now, delivery, owed, jams>>

-----------------------------------------------------------------------------
(* The application's calls                                                  *)

\* The application calls the engine.
Enter(call, steps) ==
    /\ call \in Calls
    /\ todo["app"] = <<>> /\ Len(invocations) <= MaxInvocations
    /\ todo["watcher"] # <<>> => Head(todo["watcher"]).op \in Windows
    /\ pb.requeued => "requeued" \in Windows
    /\ todo' = [todo EXCEPT !["app"] = steps]

\* pbcc_subscribe_ee_update_subscribables_
SubscribablesOf(subs) == UNION {ChannelsOf[s] : s \in subs}

\* pbcc_subscribe_ee_subscribe_with_subscription up to the event
Subscribe(s, cursor) ==
    /\ Enter("subscribe", <<[op |-> "changed", cursor |-> cursor, heartbeat |-> TRUE]>>)
    /\ cursor <= now /\ (cursor # 0 => Len(invocations) <= MaxRestoring)
    /\ s \notin subscriptions
    /\ subscriptions' = subscriptions \cup {s}
    /\ subscribables' = SubscribablesOf(subscriptions')
    /\ owed' = owed \ subscribables'
    /\ UNCHANGED <<engine, flags, leave, pb, now, delivery, jams>>

\* Mutant: the event keeps the channels of the current state.
KeepsChannels(t) ==
    /\ At(t, "changed")
    /\ Then(t, <<Event("SUBSCRIPTION_CHANGED",
                       IF context.channels = {} THEN subscribables ELSE context.channels,
                       context.cursor, Head(todo[t]).heartbeat)>>)
    /\ UNCHANGED <<engine, flags, leave, calls, pb, now, delivery, owed, jams>>

\* The rest of pbcc_subscribe_ee_subscribe_, up to pbcc_ee_handle_event
SubscriptionChanged(t) ==
    /\ At(t, "changed")
    /\ LET c == Head(todo[t])
       IN  Then(t, <<IF c.cursor = 0
                     THEN Event("SUBSCRIPTION_CHANGED", subscribables, context.cursor, c.heartbeat)
                     ELSE Event("SUBSCRIPTION_RESTORED", subscribables, c.cursor, c.heartbeat)>>)
    /\ UNCHANGED <<engine, flags, leave, calls, pb, now, delivery, owed, jams>>

\* pbcc_subscribe_ee_unsubscribe_with_subscription
Unsubscribe(s) ==
    LET remaining == SubscribablesOf(subscriptions \ {s})
        gone == ChannelsOf[s] \ remaining
    IN  /\ s \in subscriptions
        /\ Enter("unsubscribe",
                 (IF gone = {} THEN <<>> ELSE <<[op |-> "leave", channels |-> gone]>>)
                 \o <<[op |-> "changed", cursor |-> 0, heartbeat |-> FALSE]>>)
        /\ subscriptions' = subscriptions \ {s}
        /\ subscribables' = remaining
        /\ owed' = owed \cup gone
        /\ UNCHANGED <<engine, flags, leave, pb, now, delivery, jams>>

\* pbcc_subscribe_ee_unsubscribe_all: it keeps subscribables.
UnsubscribeAll ==
    /\ Enter("unsubscribe_all",
             IF subscribables = {} THEN <<>>
             ELSE <<[op |-> "leave", channels |-> subscribables],
                    Event("UNSUBSCRIBE_ALL", subscribables, context.cursor, FALSE)>>)
    /\ subscribables # {}
    /\ subscriptions' = {}
    /\ owed' = owed \cup subscribables
    /\ UNCHANGED <<subscribables, engine, flags, leave, pb, now, delivery, jams>>

\* Mutant: a second postponed leave replaces the first.
ReplacesPostponed(t) ==
    /\ At(t, "leave") /\ Monitor(t)
    /\ LET channels == Head(todo[t]).channels
       IN  \/ /\ CanStart
              /\ current_transaction' = "LEAVE"
              /\ pb' = Started("LEAVE", channels)
              /\ UNCHANGED leave
           \/ /\ ~ CanStart
              /\ leave' = channels
              /\ UNCHANGED <<current_transaction, pb>>
    /\ Return(t)
    /\ UNCHANGED <<engine, cancel_invocation, calls, now, delivery, owed, jams>>

\* The leave of the two: sent now, or kept for the callback.
Leave(t) ==
    /\ At(t, "leave") /\ Monitor(t)
    /\ LET channels == Head(todo[t]).channels
       IN  \/ /\ CanStart
              /\ current_transaction' = "LEAVE"
              /\ pb' = Started("LEAVE", channels)
              /\ UNCHANGED leave
           \/ /\ ~ CanStart
              /\ leave' = leave \cup channels
              /\ UNCHANGED <<current_transaction, pb>>
    /\ Return(t)
    /\ UNCHANGED <<engine, cancel_invocation, calls, now, delivery, owed, jams>>

\* pbcc_subscribe_ee_disconnect
Disconnect ==
    /\ Enter("disconnect", <<CopyEvent("DISCONNECT")>>)
    /\ state \in Looping /\ Len(invocations) <= MaxRestoring
    /\ UNCHANGED <<engine, flags, leave, calls, pb, now, delivery, owed, jams>>

\* pubnub_reconnect: NULL is the cursor "0".
Reconnect(cursor) ==
    /\ Enter("reconnect", <<Event("RECONNECT", context.channels, cursor, FALSE)>>)
    /\ cursor <= now /\ Len(invocations) <= MaxRestoring
    /\ state \in Stopped \cup Failed
    /\ UNCHANGED <<engine, flags, leave, calls, pb, now, delivery, owed, jams>>

\* Another client publishes; only the answer to a request reads now.
Publish ==
    /\ \A t \in Threads : todo[t] = <<>>
    /\ now < MaxToken /\ now' = now + 1
    /\ UNCHANGED <<engine, flags, leave, calls, pb, todo, delivery, owed, jams>>

-----------------------------------------------------------------------------
Init == /\ state = "UNSUBSCRIBED" /\ context = NoContext /\ invocations = <<>>
        /\ status = "NONE" /\ told = "NONE"
        /\ current_transaction = "NONE" /\ cancel_invocation = None
        /\ leave = {} /\ subscriptions = {} /\ subscribables = {} /\ owed = {} /\ jams = {}
        /\ pb = [state |-> "IDLE", trans |-> "NONE", requeued |-> FALSE, messages |-> 0,
                 cursor |-> 0, timetoken |-> 0, channels |-> {}]
        /\ todo = [t \in Threads |-> <<>>]
        /\ now = 1 /\ seen = 0 /\ skipped = FALSE

ThreadStep(t) ==
    \/ HandleEvent(t) \/ Complete(t) \/ NotRunnable(t)
    \/ EmitStatus(t) \/ EmitMessages(t) \/ CancelEffect(t) \/ Cancel(t) \/ CancelStarted(t)
    \/ MakeHeartbeat(t) \/ Heartbeat(t) \/ MakeSubscribeRequest(t) \/ SubscribeError(t)
    \/ SubscriptionChanged(t) \/ Leave(t)

WatcherStep == Requeued \/ OtherCallback \/ Report

Ends == EndOk \/ EndError \/ EndCancelled

Call == \/ \E s \in Subscriptions : \E c \in Cursors : Subscribe(s, c)
        \/ \E s \in Subscriptions : Unsubscribe(s)
        \/ UnsubscribeAll \/ Disconnect
        \/ \E c \in Cursors : Reconnect(c)

Next == (\E t \in Threads : ThreadStep(t)) \/ WatcherStep \/ Ends \/ Call \/ Publish

Spec == Init /\ [][Next]_vars

\* The application's call runs on; between calls the watcher gets its turn
\* again and again, and every transaction ends.
Watcher == ThreadStep("watcher") \/ WatcherStep \/ Ends
FairSpec == Spec /\ WF_vars(ThreadStep("app")) /\ SF_vars(Watcher)

-----------------------------------------------------------------------------
(* Properties                                                               *)

\* The variables keep their types.  What is not obvious: a completed invocation
\* never stays in the queue (pbcc_ee_handle_effect_completion removes it), and
\* current_transaction is only ever set for a heartbeat or a leave.
TypeOK ==
    /\ state \in States /\ context \in [channels : SUBSET Channels, cursor : Tokens]
    /\ \A i \in DOMAIN invocations :
          invocations[i] \in [id : Ids, status : {"CREATED", "RUNNING"}, heartbeat : BOOLEAN,
                              ctx : [channels : SUBSET Channels, cursor : Tokens]]
    /\ current_transaction \in {"NONE", "HEARTBEAT", "LEAVE"}
    /\ cancel_invocation \in Ids \cup {None}
    /\ leave \subseteq Channels /\ owed \subseteq Channels /\ subscribables \subseteq Channels
    /\ subscriptions \subseteq Subscriptions
    /\ pb.state \in {"IDLE", "KEEP_ALIVE_IDLE", "BUSY", "WAIT_CANCEL"}
    /\ pb.messages \in Tokens /\ pb.cursor \in Tokens /\ pb.timetoken \in Tokens
    /\ now \in Tokens /\ seen \in Tokens /\ skipped \in BOOLEAN /\ jams \subseteq Jams

\* No thread is in the engine, and the watcher has nothing to start.
Unattended == (\A t \in Threads : todo[t] = <<>>) /\ ~ pb.requeued

\* make_subscribe_request_ pauses a request it cannot start and relies on the
\* callback of the transaction in progress to run it again.  So whenever nobody
\* is in the engine and no transaction is in progress, there is nothing left to
\* do: the loop is not in a state that needs a request, no invocation is queued
\* or waits for a cancel, and no leave is postponed.  Unless an earlier cancel
\* was lost (CancelStarted) or messages nobody takes fill the read buffer (EndOk).
NeverStalls ==
    Unattended /\ CanStart /\ jams = {} =>
        /\ state \notin Looping
        /\ invocations = <<>> /\ cancel_invocation = None
        /\ leave = {} /\ current_transaction = "NONE"

\* "after registered callback call it will trigger next invocation which will
\* call paused once more" (make_subscribe_request_), without exception: once
\* nobody is in the engine and no transaction is in progress, the loop is not in
\* a state that needs a request.
LoopGoesOn == Unattended /\ CanStart => state \notin Looping

\* Once the engine has come to rest on a subscribe request, that request is for
\* the channels of the application's subscriptions as of its last call, however
\* calls and answers crossed (pbcc_subscribe_ee_subscribe_, _unsubscribe_): no
\* old request is left running after its cancel was postponed.
LoopIsCurrent ==
    Unattended /\ invocations = <<>> /\ pb.state = "BUSY" /\ pb.trans \in Requests =>
        /\ state \in Looping
        /\ pb.channels = subscribables /\ context.channels = subscribables

\* In RECEIVING the cursor of the next request never runs ahead of the messages
\* given to the listeners, unless the EMIT_MESSAGE for them is still queued: the
\* receive transition queues EMIT_MESSAGE before CANCEL, whose pubnub_cancel
\* drops the read buffer.
NothingSkippedWhileReceiving ==
    state = "RECEIVING" /\ (\A i \in DOMAIN invocations : invocations[i].id[1] # "EMIT_MESSAGE") =>
        context.cursor <= seen

\* When the engine is at rest, the last status emitted is the one of the state
\* it is in: pbcc_subscribe_ee_emit_status_effect reads subscribe_ee->status
\* when it runs, after other events may have replaced it.
StatusIsCurrent ==
    Unattended /\ invocations = <<>> =>
        CASE state = "RECEIVING" -> told \in {"CONNECTED", "SUBSCRIPTION_CHANGED"}
          [] state = "RECEIVE_FAILED" -> told = "DISCONNECTED_UNEXPECTEDLY"
          [] state = "RECEIVE_STOPPED" -> told = "DISCONNECTED"
          [] state = "HANDSHAKE_FAILED" -> told = "CONNECTION_ERROR"
          [] OTHER -> told \notin {"CONNECTED", "SUBSCRIPTION_CHANGED"}

\* Channels whose leave is postponed, prepared, in progress or about to be made
Leaving == leave
           \cup (IF pb.trans = "LEAVE" /\ (pb.requeued \/ ~ CanStart) THEN pb.channels ELSE {})
           \cup UNION {todo["app"][i].channels :
                         i \in {j \in DOMAIN todo["app"] : todo["app"][j].op = "leave"}}

\* A channel the application left (and has not subscribed to again) is always on
\* its way to a leave request: in leave_channels, prepared by
\* pbcc_subscribe_ee_postponed_unsubscribe_, or in progress.  A second
\* unsubscribe while the first waits does not lose the first.
LeavesAreKept == owed \subseteq Leaving

\* pubnub_reconnect with NULL goes on from the cursor in use before the
\* disconnection: no handshake goes past messages that the application has not
\* been given although the server still has them.
CatchesUp == ~ skipped

\* A postponed leave is eventually taken up by
\* pbcc_subscribe_ee_postponed_unsubscribe_, provided that every transaction
\* ends: the callback that looks for it always comes.
LeaveIsSent == leave # {} ~> leave = {}
=============================================================================
