-------------------------- MODULE SubscribeLoopProofs --------------------------
(***************************************************************************)
(* What the loop of SubscribeEngine.tla delivers and that it goes on,      *)
(* where the two threads meet only before pubnub_heartbeat (LoopWindows):  *)
(* LoopIsCurrent, NothingSkippedWhileReceiving and NeverStalls.            *)
(*                                                                         *)
(* They need more than LoopInv of SubscribeEngineProofs.  WaitInv: what    *)
(* waits (a cancel, a postponed leave, the next request of a state that    *)
(* loops) waits for something that comes.  CursorInv: the cursor of a      *)
(* request, queued or live, and of an event is the present one, unless a   *)
(* cancel comes first or the event changes it; what an answer brings finds *)
(* nothing queued, and reaches the application before the read buffer is   *)
(* dropped.                                                                *)
(*                                                                         *)
(* All three end (Going) when a second cancel takes the place of the first *)
(* in cancel_invocation.  StuckInv is what holds from then on: the lost    *)
(* cancel runs for good at the head of the queue, so that no request is    *)
(* sent and the state does not come to RECEIVING.                          *)
(*                                                                         *)
(* NeverStalls follows from WaitInv and StallInv: a marked transaction is  *)
(* in progress or comes, for a heartbeat is never refused; there are       *)
(* channels for it, and no messages in the read buffer.                    *)
(***************************************************************************)
EXTENDS SubscribeEngineProofs

-----------------------------------------------------------------------------
(* What keeps the loop going *)

\* A marked transaction is in progress or comes: no subscribe request meets one.
Free ==
    /\ Live \/ pb.state = "WAIT_CANCEL" => current_transaction = "NONE"
    /\ pb.state = "BUSY" => pb.trans # "NONE"
    /\ Is("watcher", {"callback"}) /\ Head(todo["watcher"]).trans \notin {"HEARTBEAT", "LEAVE"} =>
          current_transaction = "NONE"

\* A cancel that was begun waits for the end of the transaction.
CancelWaits == cancel_invocation # None =>
    /\ cancel_invocation[1] = "CANCEL"
    /\ pb.state = "WAIT_CANCEL" \/ Is("watcher", {"callback"})

CancelAhead == (\E j \in DOMAIN invocations : CancelAt(invocations, j)) \/ AtCancel

\* A postponed leave waits for a callback that comes.
Refreshing == todo["app"] # <<>> /\ Refreshes(Head(todo["app"]))
LeaveWaits == leave # {} =>
    \/ pb.state = "WAIT_CANCEL" \/ current_transaction # "NONE" \/ Is("watcher", {"callback"})
    \/ Live /\ (CancelAhead \/ Refreshing)

\* In a state that loops the next request is queued, or in progress with no
\* cancel ahead, or its end is being told to the engine.
AwaitedAt(i) ==
    /\ i \in DOMAIN invocations /\ ForState(invocations[i].id[1], state)
    /\ \A j \in DOMAIN invocations : j > i => ~ CancelAt(invocations, j)
    /\ \A t \in Threads : Is(t, {"done"}) => Head(todo[t]).id # invocations[i].id
Awaited == \E i \in DOMAIN invocations : AwaitedAt(i)
Ending(t) == todo[t] # <<>> /\ LET s == Head(todo[t]) IN
    \/ s.op = "report"
    \/ /\ s.op = "event"
       /\ \/ state = "HANDSHAKING" /\ s.type \in {"HANDSHAKE_SUCCESS", "HANDSHAKE_FAILURE"}
          \/ state = "RECEIVING" /\ s.type \in {"RECEIVE_SUCCESS", "RECEIVE_FAILURE"}
Failing(t) == \E i \in DOMAIN todo[t] : todo[t][i].op = "error"
Needed == state \in Looping =>
    \/ Awaited
    \/ Live /\ ForState(pb.trans, state) /\ ~ CancelAhead
    \/ \E t \in Threads : Ending(t) \/ Failing(t)

WaitInv == Free /\ CancelWaits /\ LeaveWaits /\ Needed

\* Thread t takes step op, which turns into steps.
Goes(t, op, steps) ==
    /\ At(t, op) /\ steps \in Seq(Steps) /\ Then(t, steps)
    /\ \A i \in DOMAIN steps : i > 1 => steps[i].op = "error"
    /\ steps # <<>> => Head(steps).op # "leave" /\ op # "leave"

LEMMA GoesFacts ==
    ASSUME TInv, LeaveInv, LoopInv, LoopWindows, NEW t \in Threads, NEW op, NEW steps,
           Goes(t, op, steps)
    PROVE  /\ todo[t] # <<>> /\ Head(todo[t]).op = op /\ Head(todo[t]) \in Steps
           /\ \A u \in Threads \ {t} : todo'[u] = todo[u]
           /\ \A u \in Threads \ {t} : todo[u] # <<>> =>
                 /\ current_transaction = "HEARTBEAT"
                 /\ Head(todo[u]).op \in {"heartbeat", "leave", "exec"}
           /\ steps # <<>> => todo'[t] # <<>> /\ Head(todo'[t]) = Head(steps)
           /\ steps = <<>> /\ todo'[t] # <<>> =>
                 \/ op # "leave" /\ Head(todo'[t]).op = "error"
                 \/ op = "leave" /\ t = "app" /\ Follows(Head(todo'[t]))
           /\ op = "leave" => t = "app" /\ todo'[t] # <<>>
           /\ Failing(t) /\ op # "error" => Failing(t)'
           /\ (\E i \in DOMAIN steps : steps[i].op = "error") => Failing(t)'
<1> DEFINE q == todo[t]
           r == todo'[t]
           m == Len(steps)
           n == Len(q)
<1>0. /\ At(t, op) /\ steps \in Seq(Steps) /\ Then(t, steps)
      /\ \A i \in DOMAIN steps : i > 1 => steps[i].op = "error"
      /\ steps # <<>> => Head(steps).op # "leave" /\ op # "leave"
  BY DEF Goes
<1>1. CallsInv /\ Stack
  BY DEF LoopInv, CallsInv
<1>2. /\ q # <<>> /\ Head(q).op = op /\ Head(q) \in Steps
      /\ \A u \in Threads \ {t} : todo'[u] = todo[u]
      /\ \A u \in Threads \ {t} : todo[u] # <<>> =>
            /\ current_transaction = "HEARTBEAT"
            /\ Head(todo[u]).op \in {"heartbeat", "leave", "exec"}
      /\ steps # <<>> => r # <<>> /\ Head(r) = Head(steps)
  BY <1>0, <1>1, Stepped
<1>3. steps = <<>> /\ r # <<>> =>
                 \/ op # "leave" /\ Head(r).op = "error"
                 \/ op = "leave" /\ t = "app" /\ Follows(Head(r))
  <2>1. steps # <<>> => Head(steps).op # "leave" /\ Head(todo[t]).op # "leave"
    BY <1>0, <1>2
  <2>2. \/ Head(todo[t]).op # "leave" /\ Head(todo'[t]).op = "error"
        \/ Head(todo[t]).op = "leave" /\ t = "app" /\ Follows(Head(todo'[t]))
        \/ ~ (steps = <<>> /\ todo'[t] # <<>>)
    BY <1>0, <1>1, <1>2, <2>1, ThenStack
  <2> QED BY <1>2, <2>2
<1>4. q \in Seq(Steps) /\ r = steps \o Tail(q)
  BY <1>0, <1>2, ThenTyped DEF TInv
<1>5. n \in Nat /\ m \in Nat /\ n > 0 /\ DOMAIN q = 1..n /\ DOMAIN steps = 1..m
  BY <1>0, <1>2, <1>4
<1>6. r \in Seq(Steps) /\ Len(r) = m + (n - 1) /\ DOMAIN r = 1..m + (n - 1)
  BY <1>0, <1>2, <1>4, <1>5
<1>7. \A i \in Nat : /\ 1 <= i /\ i <= m => r[i] = steps[i]
                     /\ m < i /\ i <= m + (n - 1) => r[i] = q[i - m + 1]
  BY <1>0, <1>2, <1>4, <1>5
<1>8. op = "leave" => t = "app" /\ r # <<>>
  <2> SUFFICES ASSUME op = "leave" PROVE t = "app" /\ r # <<>>
    OBVIOUS
  <2>1. Is(t, {"leave"})
    BY <1>2 DEF Is
  <2>2. t = "app" /\ n = 2
    BY <1>1, <2>1 DEF Stack
  <2>3. Len(r) > 0
    BY <1>5, <1>6, <2>2
  <2> QED BY <1>6, <2>2, <2>3
<1>9. ASSUME NEW i \in DOMAIN q, q[i].op = "error", op # "error"
      PROVE  \E k \in DOMAIN r : r[k].op = "error"
  <2>1. i # 1
    BY <1>2, <1>4, <1>9
  <2> HIDE DEF q, r, m, n
  <2> DEFINE k == m + (i - 1)
  <2>2. k \in Nat /\ m < k /\ k <= m + (n - 1) /\ k - m + 1 = i /\ k \in 1..m + (n - 1)
    BY <1>5, <2>1
  <2>3. r[k] = q[i]
    BY <1>7, <2>2
  <2> QED BY <1>6, <1>9, <2>2, <2>3
<1>10. ASSUME NEW i \in DOMAIN steps, steps[i].op = "error"
       PROVE  \E k \in DOMAIN r : r[k].op = "error"
  <2> HIDE DEF q, r, m, n
  <2>1. i \in Nat /\ 1 <= i /\ i <= m /\ i \in 1..m + (n - 1)
    BY <1>5
  <2>2. r[i] = steps[i]
    BY <1>7, <2>1
  <2> QED BY <1>6, <1>10, <2>1, <2>2
<1>11. Failing(t) /\ op # "error" => Failing(t)'
  BY <1>9 DEF Failing
<1>12. (\E i \in DOMAIN steps : steps[i].op = "error") => Failing(t)'
  BY <1>10 DEF Failing
<1> QED BY <1>2, <1>3, <1>8, <1>11, <1>12

\* A call that goes on with one step, and one that returns
LEMMA GoesOn ==
    ASSUME NEW t \in Threads, NEW op, At(t, op), NEW s \in Steps, Then(t, <<s>>),
           s.op # "leave", op # "leave"
    PROVE  \E steps : Goes(t, op, steps) /\ steps # <<>> /\ Head(steps) = s
<1> DEFINE r == <<s>>
<1>1. /\ r \in Seq(Steps) /\ r # <<>> /\ Head(r) = s /\ Then(t, r)
      /\ \A i \in DOMAIN r : i > 1 => r[i].op = "error"
  BY OneStep
<1> HIDE DEF r
<1> QED BY <1>1 DEF Goes

LEMMA GoesBack ==
    ASSUME NEW t \in Threads, NEW op, At(t, op), Then(t, <<>>)
    PROVE  \E steps : Goes(t, op, steps) /\ steps = <<>>
<1>1. PICK steps \in Seq(Steps) : steps = <<>>
  BY NoStep
<1>2. /\ steps \in Seq(Steps) /\ ~ (steps # <<>>) /\ Then(t, steps)
      /\ \A i \in DOMAIN steps : i > 1 => steps[i].op = "error"
  BY <1>1, NoStep
<1> QED BY <1>1, <1>2 DEF Goes

\* A step that leaves the transactions alone
LEMMA WaitsKept ==
    ASSUME TInv, LeaveInv, LoopInv, LoopWindows, WaitInv, NEW t \in Threads, NEW op, NEW steps,
           Goes(t, op, steps), op \notin {"callback", "report", "error", "cancel", "leave"},
           steps # <<>> => Head(steps).op # "callback",
           UNCHANGED <<state, current_transaction, cancel_invocation, leave>>,
           pb'.state = pb.state, pb'.trans = pb.trans,
           Live /\ CancelAhead => CancelAhead',
           (\E j \in DOMAIN invocations' : CancelAt(invocations', j))
              => \E j \in DOMAIN invocations : CancelAt(invocations, j),
           steps # <<>> /\ Head(steps).op = "cancel" => CancelAhead,
           Live /\ Refreshing /\ t = "app" => CancelAhead' \/ Refreshing',
           Awaited => Awaited' \/ \E i \in DOMAIN steps : steps[i].op = "error",
           op = "event" => ~ Ending(t)
    PROVE  WaitInv'
<1>1. /\ todo[t] # <<>> /\ Head(todo[t]).op = op
      /\ \A u \in Threads \ {t} : todo'[u] = todo[u]
      /\ steps # <<>> => todo'[t] # <<>> /\ Head(todo'[t]) = Head(steps)
      /\ steps = <<>> /\ todo'[t] # <<>> => Head(todo'[t]).op = "error"
      /\ Failing(t) => Failing(t)'
      /\ (\E i \in DOMAIN steps : steps[i].op = "error") => Failing(t)'
  BY GoesFacts
<1>2. /\ Is("watcher", {"callback"})' <=> Is("watcher", {"callback"})
      /\ Is("watcher", {"callback"}) => todo'["watcher"] = todo["watcher"]
  BY <1>1 DEF Is, Threads
<1>3. Live' = Live
  BY DEF Live
<1>4. Free'
  BY <1>2, <1>3 DEF WaitInv, Free
<1>5. CancelWaits'
  BY <1>2 DEF WaitInv, CancelWaits
<1>6. LeaveWaits'
  <2> SUFFICES ASSUME Live, CancelAhead \/ Refreshing PROVE CancelAhead' \/ Refreshing'
    BY <1>2, <1>3 DEF WaitInv, LeaveWaits
  <2>1. Refreshing /\ t # "app" => Refreshing'
    BY <1>1 DEF Refreshing, Refreshes, Threads
  <2> QED BY <2>1
<1>7. CancelAhead' => CancelAhead
  <2>1. ASSUME NEW u \in Threads, Is(u, {"cancel"})' PROVE CancelAhead
    <3>1. CASE u = t
      BY <1>1, <2>1, <3>1 DEF Is
    <3>2. CASE u # t
      BY <1>1, <2>1, <3>2 DEF Is, CancelAhead, AtCancel
    <3> QED BY <3>1, <3>2
  <2> QED BY <2>1 DEF CancelAhead, AtCancel, Is
<1>8. Needed'
  <2> SUFFICES ASSUME state \in Looping
               PROVE  \/ Awaited'
                      \/ Live' /\ ForState(pb'.trans, state) /\ ~ CancelAhead'
                      \/ \E u \in Threads : Ending(u)' \/ Failing(u)'
    BY DEF Needed
  <2>1. ASSUME NEW u \in Threads, Ending(u) PROVE Ending(u)'
    <3>1. u # t
      BY <1>1, <2>1 DEF Ending
    <3> QED BY <1>1, <2>1, <3>1 DEF Ending
  <2>2. ASSUME NEW u \in Threads, Failing(u) PROVE Failing(u)'
    <3>1. CASE u = t
      BY <1>1, <2>2, <3>1
    <3>2. CASE u # t
      BY <1>1, <2>2, <3>2 DEF Failing
    <3> QED BY <3>1, <3>2
  <2> QED BY <1>1, <1>3, <1>7, <2>1, <2>2 DEF WaitInv, Needed
<1> QED BY <1>4, <1>5, <1>6, <1>8 DEF WaitInv

\* Marks of invocations leave a request that is awaited.
LEMMA AwaitedMarked ==
    ASSUME Awaited, UNCHANGED state, DOMAIN invocations' = DOMAIN invocations,
           \A i \in DOMAIN invocations : /\ invocations'[i].id = invocations[i].id
                                         /\ CancelAt(invocations', i) => CancelAt(invocations, i),
           \A u \in Threads : Is(u, {"done"})' => Head(todo'[u]).id[1] \notin Requests
    PROVE  Awaited'
<1> SUFFICES ASSUME NEW i \in DOMAIN invocations, AwaitedAt(i) PROVE AwaitedAt(i)'
  BY DEF Awaited
<1>1. /\ ForState(invocations[i].id[1], state)
      /\ \A j \in DOMAIN invocations : j > i => ~ CancelAt(invocations, j)
  BY DEF AwaitedAt
<1>2. invocations[i].id[1] \in Requests
  BY <1>1 DEF ForState, Requests
<1>3. \A u \in Threads : Is(u, {"done"})' => Head(todo'[u]).id # invocations'[i].id
  BY <1>2
<1>4. ForState(invocations'[i].id[1], state')
  BY <1>1
<1>5. \A j \in DOMAIN invocations' : j > i => ~ CancelAt(invocations', j)
  BY <1>1
<1> QED BY <1>3, <1>4, <1>5 DEF AwaitedAt, Is

\* ... and the queue as it is, but for what is running
LEMMA WaitsQueued ==
    ASSUME TInv, LeaveInv, LoopInv, LoopWindows, WaitInv, NEW t \in Threads, NEW op, NEW steps,
           Goes(t, op, steps), op \notin {"callback", "report", "error", "cancel", "leave"},
           steps # <<>> =>
              /\ Head(steps).op # "callback"
              /\ Head(steps).op = "done" => Head(steps).id[1] \notin Requests
              /\ Head(steps).op = "cancel" => CancelAhead,
           UNCHANGED <<state, current_transaction, cancel_invocation, leave>>,
           pb'.state = pb.state, pb'.trans = pb.trans,
           DOMAIN invocations' = DOMAIN invocations,
           \A i \in DOMAIN invocations : /\ invocations'[i].id = invocations[i].id
                                         /\ CancelAt(invocations', i) => CancelAt(invocations, i),
           \A i \in DOMAIN invocations : CancelAt(invocations, i) =>
              CancelAt(invocations', i) \/ (steps # <<>> /\ Head(steps).op = "cancel"),
           t = "app" /\ Refreshing /\ Live => Refreshing' \/ CancelAhead',
           op = "event" => ~ Ending(t)
    PROVE  WaitInv'
<1>1. /\ todo[t] # <<>> /\ Head(todo[t]).op = op
      /\ \A u \in Threads \ {t} : todo'[u] = todo[u]
      /\ \A u \in Threads \ {t} : todo[u] # <<>> => Head(todo[u]).op \in {"heartbeat", "leave", "exec"}
      /\ steps # <<>> => todo'[t] # <<>> /\ Head(todo'[t]) = Head(steps)
      /\ steps = <<>> /\ todo'[t] # <<>> => Head(todo'[t]).op = "error"
  BY GoesFacts
<1>2. CancelAhead => CancelAhead'
  <2>1. ASSUME NEW j \in DOMAIN invocations, CancelAt(invocations, j) PROVE CancelAhead'
    <3>1. CASE CancelAt(invocations', j)
      BY <3>1 DEF CancelAhead
    <3>2. CASE steps # <<>> /\ Head(steps).op = "cancel"
      BY <1>1, <3>2 DEF CancelAhead, AtCancel, Is
    <3> QED BY <2>1, <3>1, <3>2
  <2>2. ASSUME NEW u \in Threads, Is(u, {"cancel"}) PROVE CancelAhead'
    BY <1>1, <2>2 DEF CancelAhead, AtCancel, Is
  <2> QED BY <2>1, <2>2 DEF CancelAhead, AtCancel
<1>3. Awaited => Awaited'
  <2>1. \A u \in Threads : Is(u, {"done"})' => Head(todo'[u]).id[1] \notin Requests
    <3> SUFFICES ASSUME NEW u \in Threads, Is(u, {"done"})' PROVE Head(todo'[u]).id[1] \notin Requests
      OBVIOUS
    <3>1. u = t
      BY <1>1 DEF Is
    <3> QED BY <1>1, <3>1 DEF Is
  <2> QED BY <2>1, AwaitedMarked
<1>4. (\E j \in DOMAIN invocations' : CancelAt(invocations', j))
              => \E j \in DOMAIN invocations : CancelAt(invocations, j)
  OBVIOUS
<1> QED BY <1>2, <1>3, <1>4, WaitsKept

\* A call that returns, and leaves the engine as it is
LEMMA WaitsBack ==
    ASSUME TInv, LeaveInv, LoopInv, LoopWindows, WaitInv, NEW t \in Threads, NEW op, At(t, op),
           Then(t, <<>>), op \notin {"callback", "report", "error", "cancel", "leave"},
           UNCHANGED <<state, current_transaction, cancel_invocation, leave, invocations>>,
           pb'.state = pb.state, pb'.trans = pb.trans,
           t = "app" /\ Refreshing /\ Live => CancelAhead',
           op = "event" => ~ Ending(t)
    PROVE  WaitInv'
<1>1. PICK steps : Goes(t, op, steps) /\ steps = <<>>
  BY GoesBack
<1>2. ~ (steps # <<>>)
  BY <1>1
<1> QED BY <1>1, <1>2, WaitsQueued

\* A thread that is at an invocation brings nothing up to date.
LEMMA ExecRefreshes ==
    ASSUME NEW t \in Threads, NEW op, op \notin {"leave", "changed", "event"}, At(t, op)
    PROVE  ~ (t = "app" /\ Refreshing)
BY DEF At, Refreshing, Refreshes

\* pbcc_ee_invocation_exec_ of what is running or gone, and a paused effect
LEMMA WaitPaused ==
    ASSUME TInv, LeaveInv, LoopInv, LoopWindows, WaitInv, NEW t \in Threads, At(t, "exec"),
           Then(t, <<>>),
           UNCHANGED <<state, current_transaction, cancel_invocation, leave, invocations>>,
           pb'.state = pb.state, pb'.trans = pb.trans
    PROVE  WaitInv'
<1>1. ~ (t = "app" /\ Refreshing)
  BY ExecRefreshes
<1> QED BY <1>1, WaitsBack

\* An effect that runs the first invocation, and needs no transaction
LEMMA WaitEmits ==
    ASSUME TInv, TInv', LeaveInv, LoopInv, LoopWindows, WaitInv, NEW t \in Threads,
           EmitStatus(t) \/ EmitMessages(t)
    PROVE  WaitInv'
<1> DEFINE id == Head(todo[t]).id
           s == With("done", id)
<1>1. /\ At(t, "exec") /\ Queued(id) /\ Invocation(id).status = "CREATED"
      /\ id[1] \in {"EMIT_STATUS", "EMIT_MESSAGE"}
      /\ invocations' = Mark(id, "RUNNING") /\ Then(t, <<s>>)
      /\ UNCHANGED <<state, context, flags, leave>>
      /\ pb' = pb \/ pb' = [pb EXCEPT !.messages = 0, !.cursor = IF CanStart THEN 0 ELSE @]
  BY DEF EmitStatus, EmitMessages, Runs
<1>2. id \in Ids /\ FirstIs(id) /\ Index(id) = 1 /\ id[1] \notin Requests \cup {"CANCEL"}
  BY <1>1, AtExec DEF Requests
<1>3. pb'.state = pb.state /\ pb'.trans = pb.trans
  <2> DEFINE c == IF CanStart THEN 0 ELSE pb.cursor
  <2>1. pb' = pb \/ pb' = [pb EXCEPT !.messages = 0, !.cursor = c]
    BY <1>1
  <2>2. pb \in PbOf(pb.channels)
    BY DEF TInv
  <2> HIDE DEF c
  <2> QED BY <2>1, <2>2 DEF PbOf
<1>4. /\ DOMAIN invocations' = DOMAIN invocations
      /\ \A j \in DOMAIN invocations :
            /\ invocations'[j].id = invocations[j].id
            /\ invocations'[j].status = IF j = 1 THEN "RUNNING" ELSE invocations[j].status
  BY <1>1, <1>2, MarkFacts DEF TInv
<1>5. 1 \in DOMAIN invocations => ~ CancelAt(invocations, 1)
  BY <1>2 DEF FirstIs, CancelAt
<1>6. s \in Steps /\ s.op = "done" /\ s.id = id
  BY <1>2, IdStep DEF IdOps
<1> HIDE DEF s
<1>7. PICK steps : Goes(t, "exec", steps) /\ steps # <<>> /\ Head(steps) = s
  BY <1>1, <1>6, GoesOn
<1>8. \A i \in DOMAIN invocations : CancelAt(invocations', i) <=> CancelAt(invocations, i)
  BY <1>4, <1>5 DEF CancelAt
<1>9. ~ (t = "app" /\ Refreshing)
  BY <1>1, ExecRefreshes
<1>10. UNCHANGED <<state, current_transaction, cancel_invocation, leave>>
  BY <1>1 DEF flags
<1> HIDE DEF id
<1> QED BY <1>2, <1>3, <1>4, <1>6, <1>7, <1>8, <1>9, <1>10, WaitsQueued

\* The cancel effect, begun or paused
LEMMA WaitCancelEffect ==
    ASSUME TInv, TInv', LeaveInv, LoopInv, LoopWindows, WaitInv, NEW t \in Threads, CancelEffect(t)
    PROVE  WaitInv'
<1> DEFINE id == Head(todo[t]).id
           s == With("cancel", id)
<1>1. /\ At(t, "exec") /\ Queued(id) /\ Invocation(id).status = "CREATED" /\ id[1] = "CANCEL"
      /\ UNCHANGED <<state, context, flags, calls, pb, leave>>
      /\ \/ current_transaction # "NONE" /\ Then(t, <<>>) /\ UNCHANGED invocations
         \/ /\ current_transaction = "NONE"
            /\ invocations' = Mark(id, "RUNNING") /\ Then(t, <<s>>)
  BY DEF CancelEffect, Runs, Return
<1>2. UNCHANGED <<state, current_transaction, cancel_invocation, leave>>
  BY <1>1 DEF flags
<1>3. CASE Then(t, <<>>) /\ UNCHANGED invocations
  BY <1>1, <1>2, <1>3, WaitPaused
<1>4. CASE /\ current_transaction = "NONE"
           /\ invocations' = Mark(id, "RUNNING") /\ Then(t, <<s>>)
  <2>1. id \in Ids /\ FirstIs(id) /\ Index(id) = 1 /\ Invocation(id) = invocations[1]
        /\ 1 \in DOMAIN invocations
    BY <1>1, <1>4, AtExec
  <2>2. /\ DOMAIN invocations' = DOMAIN invocations
        /\ \A j \in DOMAIN invocations :
              /\ invocations'[j].id = invocations[j].id
              /\ invocations'[j].status = IF j = 1 THEN "RUNNING" ELSE invocations[j].status
    BY <1>4, <2>1, MarkFacts DEF TInv
  <2>3. CancelAt(invocations, 1)
    BY <1>1, <2>1 DEF FirstIs, CancelAt
  <2>4. CancelAhead
    BY <2>1, <2>3 DEF CancelAhead
  <2>5. s \in Steps /\ s.op = "cancel" /\ s.id = id
    BY <2>1, IdStep DEF IdOps
  <2> HIDE DEF s
  <2>6. PICK steps : Goes(t, "exec", steps) /\ steps # <<>> /\ Head(steps) = s
    BY <1>1, <1>4, <2>5, GoesOn
  <2>7. \A i \in DOMAIN invocations : CancelAt(invocations', i) => CancelAt(invocations, i)
    BY <2>2 DEF CancelAt
  <2>8. ~ (t = "app" /\ Refreshing)
    BY <1>1, ExecRefreshes
  <2> HIDE DEF id
  <2> QED BY <1>1, <1>2, <2>2, <2>4, <2>5, <2>6, <2>7, <2>8, WaitsQueued
<1> QED BY <1>1, <1>3, <1>4

\* The event of a call that changed the subscriptions
LEMMA WaitSubscriptionChanged ==
    ASSUME TInv, TInv', LeaveInv, LoopInv, LoopWindows, WaitInv, NEW t \in Threads,
           SubscriptionChanged(t)
    PROVE  WaitInv'
<1> DEFINE c == Head(todo[t])
<1>1. /\ At(t, "changed")
      /\ \E type \in Fresh : \E cursor \in {context.cursor, c.cursor} :
            Then(t, <<Event(type, subscribables, cursor, c.heartbeat)>>)
      /\ UNCHANGED <<engine, flags, leave, calls, pb, now, delivery, owed>>
  BY DEF SubscriptionChanged, Fresh
<1>2. UNCHANGED <<state, current_transaction, cancel_invocation, leave, invocations, pb>>
  BY <1>1 DEF engine, flags
<1>3. PICK type \in Fresh, cursor \in {context.cursor, c.cursor} :
            Then(t, <<Event(type, subscribables, cursor, c.heartbeat)>>)
  BY <1>1
<1> DEFINE e == Event(type, subscribables, cursor, c.heartbeat)
<1>4. c \in Steps /\ c.op = "changed"
  BY <1>1, AtFacts DEF TInv
<1>5. e \in Steps /\ e.op = "event" /\ e.type = type
  <2>1. c.cursor \in Tokens /\ c.heartbeat \in BOOLEAN /\ context.cursor \in Tokens
        /\ subscribables \in SUBSET Channels /\ type \in EventTypes
    BY <1>4, StepFacts DEF TInv, Contexts, Fresh, EventTypes
  <2>2. e \in Steps
    BY <2>1, EventStep
  <2> QED BY <2>2 DEF Event
<1>6. Then(t, <<e>>)
  BY <1>3
<1> HIDE DEF e
<1>7. PICK steps : Goes(t, "changed", steps) /\ steps # <<>> /\ Head(steps) = e
  BY <1>1, <1>5, <1>6, GoesOn
<1>8. Refreshes(e)
  BY <1>5 DEF Refreshes
<1>9. todo'[t] # <<>> /\ Head(todo'[t]) = e
  BY <1>7, GoesFacts
<1>10. t = "app" => Refreshing'
  BY <1>8, <1>9 DEF Refreshing, Refreshes
<1>11. \A i \in DOMAIN invocations : CancelAt(invocations', i) <=> CancelAt(invocations, i)
  BY <1>2
<1>12. Head(steps).op = "event"
  BY <1>5, <1>7
<1> HIDE DEF c
<1> QED BY <1>2, <1>7, <1>10, <1>11, <1>12, WaitsQueued
\* make_subscribe_request_ that pauses, or begins a heartbeat
LEMMA WaitMakeHeartbeat ==
    ASSUME TInv, TInv', LeaveInv, LoopInv, LoopWindows, WaitInv, NEW t \in Threads, MakeHeartbeat(t)
    PROVE  WaitInv'
<1> DEFINE id == Head(todo[t]).id
           s == With("heartbeat", id)
<1>1. /\ At(t, "exec") /\ Runs(t, Requests) /\ id[1] \in Requests
      /\ UNCHANGED <<state, cancel_invocation, leave, pb>>
      /\ \/ Then(t, <<>>) /\ UNCHANGED <<invocations, current_transaction>>
         \/ /\ current_transaction = "NONE" /\ CanStart
            /\ invocations' = [invocations EXCEPT ![Index(id)].heartbeat = FALSE,
                                                  ![Index(id)].status = "RUNNING"]
            /\ current_transaction' = "HEARTBEAT" /\ Then(t, <<s>>)
  BY DEF MakeHeartbeat, Runs, Return
<1>2. CASE Then(t, <<>>) /\ UNCHANGED <<invocations, current_transaction>>
  BY <1>1, <1>2, WaitPaused
<1>3. CASE /\ current_transaction = "NONE" /\ CanStart
           /\ invocations' = [invocations EXCEPT ![Index(id)].heartbeat = FALSE,
                                                 ![Index(id)].status = "RUNNING"]
           /\ current_transaction' = "HEARTBEAT" /\ Then(t, <<s>>)
  <2>1. id \in Ids /\ FirstIs(id) /\ Index(id) = 1 /\ 1 \in DOMAIN invocations
    BY <1>1, <1>3, AtExec
  <2>2. s \in Steps /\ s.op = "heartbeat"
    BY <2>1, IdStep DEF IdOps
  <2> HIDE DEF s
  <2>3. PICK steps : Goes(t, "exec", steps) /\ steps # <<>> /\ Head(steps) = s
    BY <1>1, <1>3, <2>2, GoesOn
  <2>4. /\ todo[t] # <<>> /\ Head(todo[t]).op = "exec"
        /\ \A u \in Threads \ {t} : todo[u] = <<>> /\ todo'[u] = <<>>
        /\ Head(todo'[t]).op = "heartbeat" /\ (Failing(t) => Failing(t)')
    BY <1>3, <2>2, <2>3, GoesFacts
  <2>5. pb.state \notin {"BUSY", "WAIT_CANCEL"} /\ pb' = pb
    BY <1>1, <1>3 DEF CanStart
  <2>6. /\ DOMAIN invocations' = DOMAIN invocations
        /\ \A i \in DOMAIN invocations :
              /\ invocations'[i].id = invocations[i].id
              /\ i # 1 => invocations'[i] = invocations[i]
    <3>1. invocations \in Seq(Invocations) /\ invocations[1] \in Invocations
      BY <2>1 DEF TInv
    <3>2. invocations' = [invocations EXCEPT ![1].heartbeat = FALSE, ![1].status = "RUNNING"]
      BY <1>3, <2>1
    <3> QED BY <2>1, <3>1, <3>2 DEF Invocations
  <2>7. invocations[1].id = id
    BY <2>1 DEF FirstIs
  <2>8. \A i \in DOMAIN invocations : CancelAt(invocations', i) => CancelAt(invocations, i)
    <3>1. ~ CancelAt(invocations', 1)
      BY <1>1, <2>1, <2>6, <2>7 DEF CancelAt, Requests
    <3> QED BY <2>6, <3>1 DEF CancelAt
  <2>9. \A u \in Threads : ~ Is(u, {"done"})' /\ ~ Is(u, {"callback"})'
    BY <2>4 DEF Is
  <2>10. ~ Is("watcher", {"callback"})
    BY <2>4 DEF Is, Threads
  <2>11. Awaited => Awaited'
    BY <1>1, <2>6, <2>8, <2>9, AwaitedMarked
  <2>12. \A u \in Threads : ~ Ending(u) /\ (Failing(u) => Failing(u)')
    BY <2>4 DEF Ending, Failing
  <2>13. Free'
    BY <2>5, <2>9 DEF Free, Live, Is, Threads
  <2>14. CancelWaits' /\ LeaveWaits'
    BY <1>1, <1>3, <2>5, <2>10 DEF WaitInv, CancelWaits, LeaveWaits
  <2>15. Needed'
    BY <1>1, <2>5, <2>11, <2>12 DEF WaitInv, Needed, Live
  <2> QED BY <2>13, <2>14, <2>15 DEF WaitInv
<1> QED BY <1>1, <1>2, <1>3

\* pubnub_heartbeat: no subscribe request is live, and the request waits again.
LEMMA WaitHeartbeat ==
    ASSUME TInv, TInv', LeaveInv, LoopInv, LoopWindows, WaitInv, NEW t \in Threads, Heartbeat(t)
    PROVE  WaitInv'
<1> DEFINE id == Head(todo[t]).id
           channels == Invocation(id).ctx.channels
<1>1. /\ At(t, "heartbeat") /\ invocations' = Mark(id, "CREATED") /\ Then(t, <<>>)
      /\ pb' \in {Started("HEARTBEAT", channels), pb}
      /\ UNCHANGED <<state, flags, leave>>
  BY DEF Heartbeat, Return
<1>2. UNCHANGED <<state, current_transaction, cancel_invocation, leave>>
  BY <1>1 DEF flags
<1>3. PICK steps : Goes(t, "heartbeat", steps) /\ steps = <<>>
  BY <1>1, GoesBack
<1>4. /\ todo[t] # <<>> /\ Head(todo[t]).op = "heartbeat" /\ Head(todo[t]) \in Steps
      /\ \A u \in Threads \ {t} : todo'[u] = todo[u]
      /\ \A u \in Threads \ {t} : todo[u] # <<>> => Head(todo[u]).op \in {"heartbeat", "leave", "exec"}
      /\ todo'[t] # <<>> => Head(todo'[t]).op = "error"
      /\ (Failing(t) => Failing(t)')
  BY <1>3, GoesFacts
<1>5. current_transaction = "HEARTBEAT" /\ CanStart
  BY <1>4 DEF LoopInv, CallsInv, HeartbeatHeld, Is
<1>6. FirstIs(id) /\ id[1] \in Requests /\ id \in Ids
  <2>1. Is(t, OwnerOps)
    BY <1>4 DEF Is, OwnerOps
  <2>2. id \in Ids
    BY <1>4, StepFacts DEF IdOps
  <2> QED BY <1>4, <2>1, <2>2 DEF LoopInv, QueueInv, Owner
<1>7. Index(id) = 1 /\ 1 \in DOMAIN invocations /\ invocations[1].id = id
  BY <1>6, FirstIndex DEF LoopInv, QueueInv, TInv, FirstIs
<1>8. /\ DOMAIN invocations' = DOMAIN invocations
      /\ \A j \in DOMAIN invocations :
            /\ invocations'[j].id = invocations[j].id
            /\ j # 1 => invocations'[j] = invocations[j]
  BY <1>1, <1>7, MarkFacts DEF TInv
<1>9. \A i \in DOMAIN invocations : CancelAt(invocations', i) => CancelAt(invocations, i)
  <2>1. ~ CancelAt(invocations', 1)
    BY <1>6, <1>7, <1>8 DEF CancelAt, Requests
  <2> QED BY <1>8, <2>1 DEF CancelAt
<1>10. /\ pb.state \notin {"BUSY", "WAIT_CANCEL"}
       /\ pb'.state # "WAIT_CANCEL" /\ ~ Live' /\ (pb'.state = "BUSY" => pb'.trans # "NONE")
  <2>1. pb.state \notin {"BUSY", "WAIT_CANCEL"}
    BY <1>5 DEF CanStart
  <2>2. pb \in PbOf(pb.channels) /\ "HEARTBEAT" \in Transactions
    BY DEF TInv, Transactions
  <2>3. CASE pb' = pb
    BY <2>1, <2>3 DEF Live
  <2>4. CASE pb' = Started("HEARTBEAT", channels)
    <3>1. pb'.state = "BUSY" /\ pb'.trans = "HEARTBEAT"
      BY <2>2, <2>4, PbStarted
    <3> QED BY <2>1, <3>1 DEF Live, Requests
  <2> QED BY <1>1, <2>3, <2>4
<1>11. \A u \in Threads : ~ Is(u, {"done"})' /\ ~ Is(u, {"callback"})' /\ ~ Is(u, {"callback"})
  BY <1>4 DEF Is
<1>12. Awaited => Awaited'
  BY <1>2, <1>8, <1>9, <1>11, AwaitedMarked
<1>13. \A u \in Threads : ~ Ending(u) /\ (Failing(u) => Failing(u)')
  BY <1>4 DEF Ending, Failing
<1>14. Free'
  BY <1>10, <1>11 DEF Free, Live, Is, Threads
<1>15. CancelWaits' /\ LeaveWaits'
  BY <1>2, <1>5, <1>10, <1>11 DEF WaitInv, CancelWaits, LeaveWaits, Threads
<1>16. Needed'
  BY <1>2, <1>10, <1>12, <1>13 DEF WaitInv, Needed, Live
<1> QED BY <1>14, <1>15, <1>16 DEF WaitInv

\* pubnub_cancel: the live request is cancelled, and its end is waited for.
LEMMA WaitCancel ==
    ASSUME TInv, TInv', LeaveInv, LoopInv, LoopWindows, WaitInv, NEW t \in Threads, Cancel(t)
    PROVE  WaitInv'
<1> DEFINE id == Head(todo[t]).id
           op == IF pb.state = "IDLE" THEN "done" ELSE "cancelled"
           s == With(op, id)
<1>1. At(t, "cancel") /\ pb' = Cancelled /\ Then(t, <<s>>)
      /\ UNCHANGED <<engine, flags, leave, calls, now, delivery, owed>>
  BY DEF Cancel
<1>2. UNCHANGED <<state, invocations, cancel_invocation, current_transaction, leave>>
  BY <1>1 DEF engine, flags
<1>3. id \in Ids
  BY <1>1, AtFacts, StepFacts DEF TInv, IdOps
<1>4. op \in IdOps /\ op \in {"done", "cancelled"}
  BY DEF IdOps
<1>5. s \in Steps /\ s.op = op /\ s.id = id
  <2> HIDE DEF op, id
  <2> QED BY <1>3, <1>4, IdStep
<1> HIDE DEF s, op
<1>6. PICK steps : Goes(t, "cancel", steps) /\ steps # <<>> /\ Head(steps) = s
  BY <1>1, <1>4, <1>5, GoesOn
<1>7. /\ todo[t] # <<>> /\ Head(todo[t]).op = "cancel"
      /\ \A u \in Threads \ {t} : todo'[u] = todo[u] /\ (todo[u] # <<>> => current_transaction = "HEARTBEAT")
      /\ todo'[t] # <<>> /\ Head(todo'[t]) = s /\ (Failing(t) => Failing(t)')
  BY <1>6, GoesFacts
<1>8. current_transaction = "NONE" /\ id[1] = "CANCEL" /\ cancel_invocation = None
  BY <1>7 DEF LoopInv, CallsInv, CancelHeld, QueueInv, Owner, OwnerOps, Is
<1>9. /\ pb'.state \in {"IDLE", "WAIT_CANCEL"}
      /\ pb.state \in {"BUSY", "WAIT_CANCEL"} => pb'.state = "WAIT_CANCEL"
  <2>1. pb \in PbOf(pb.channels)
    BY DEF TInv
  <2> QED BY <1>1, <2>1 DEF Cancelled, PbOf
<1>10. \A u \in Threads : ~ Is(u, {"callback"}) /\ (Is(u, {"done"})' => Head(todo'[u]).id[1] \notin Requests)
  BY <1>5, <1>7, <1>8 DEF Is, Requests
<1>11. Free'
  BY <1>2, <1>8, <1>9 DEF Free
<1>12. CancelWaits'
  BY <1>2, <1>8 DEF CancelWaits
<1>13. LeaveWaits'
  <2>1. leave # {} => pb.state \in {"BUSY", "WAIT_CANCEL"}
    BY <1>8, <1>10 DEF WaitInv, LeaveWaits, Live, Threads
  <2> QED BY <1>2, <1>9, <2>1 DEF LeaveWaits
<1>14. Needed'
  <2>1. AtCancel /\ \A u \in Threads : ~ Ending(u)
    BY <1>7, <1>8 DEF AtCancel, Is, Ending
  <2>2. Awaited => Awaited'
    BY <1>2, <1>10, AwaitedMarked
  <2>3. \A u \in Threads : Failing(u) => Failing(u)'
    BY <1>7, <1>8 DEF Failing
  <2> QED BY <1>2, <2>1, <2>2, <2>3 DEF WaitInv, Needed, CancelAhead
<1> QED BY <1>11, <1>12, <1>13, <1>14 DEF WaitInv

\* The cancel is noted: its transaction is ending.
LEMMA WaitCancelStarted ==
    ASSUME TInv, TInv', LeaveInv, LoopInv, LoopWindows, WaitInv, NEW t \in Threads, CancelStarted(t)
    PROVE  WaitInv'
<1> DEFINE id == Head(todo[t]).id
<1>1. /\ At(t, "cancelled") /\ cancel_invocation' = id /\ Then(t, <<>>)
      /\ UNCHANGED <<engine, current_transaction, leave, pb>>
  BY DEF CancelStarted, Return
<1>2. UNCHANGED <<state, invocations, current_transaction, leave, pb>>
  BY <1>1 DEF engine
<1>3. PICK steps : Goes(t, "cancelled", steps) /\ steps = <<>>
  BY <1>1, GoesBack
<1>4. /\ todo[t] # <<>> /\ Head(todo[t]).op = "cancelled"
      /\ \A u \in Threads \ {t} : todo'[u] = todo[u] /\ (todo[u] # <<>> => current_transaction = "HEARTBEAT")
      /\ todo'[t] # <<>> => Head(todo'[t]).op = "error"
      /\ (Failing(t) => Failing(t)')
  BY <1>3, GoesFacts
<1>5. current_transaction = "NONE" /\ id[1] = "CANCEL" /\ pb.state = "WAIT_CANCEL"
  BY <1>4 DEF LoopInv, CallsInv, CancelHeld, QueueInv, Owner, OwnerOps, Is
<1>6. Free' /\ CancelWaits' /\ LeaveWaits'
  BY <1>1, <1>2, <1>5 DEF Free, CancelWaits, LeaveWaits
<1>7. Needed'
  <2>1. ~ Live /\ \A u \in Threads : ~ Ending(u) /\ ~ Is(u, {"done"})'
    BY <1>4, <1>5 DEF Live, Is, Ending
  <2>2. Awaited => Awaited'
    BY <1>2, <2>1, AwaitedMarked
  <2>3. \A u \in Threads : Failing(u) => Failing(u)'
    BY <1>4, <1>5 DEF Failing
  <2> QED BY <1>2, <2>1, <2>2, <2>3 DEF WaitInv, Needed
<1> QED BY <1>6, <1>7 DEF WaitInv

\* A request that is sent is the live one; a refused one becomes a failure.
LEMMA WaitMakeSubscribeRequest ==
    ASSUME TInv, TInv', LeaveInv, LoopInv, LoopWindows, WaitInv, NEW t \in Threads,
           MakeSubscribeRequest(t)
    PROVE  WaitInv'
<1> DEFINE id == Head(todo[t]).id
           inv == Invocation(id)
           refused == inv.ctx.channels = {} \/ pb.messages # 0
           d == With("done", id)
           e == Step("error")
           Sent == /\ current_transaction = "NONE" /\ CanStart
                   /\ invocations' = Mark(id, "RUNNING")
                   /\ pb' = IF refused THEN [pb EXCEPT !.timetoken = inv.ctx.cursor]
                            ELSE [Started(id[1], inv.ctx.channels)
                                     EXCEPT !.timetoken = inv.ctx.cursor, !.cursor = inv.ctx.cursor]
                   /\ Then(t, <<d>> \o IF refused THEN <<e>> ELSE <<>>)
<1>1. /\ At(t, "exec") /\ id[1] \in Requests /\ Runs(t, Requests)
      /\ UNCHANGED <<state, flags, leave>>
      /\ \/ Then(t, <<>>) /\ UNCHANGED <<invocations, pb>>
         \/ current_transaction = "NONE" /\ ~ CanStart
         \/ Sent
  BY DEF MakeSubscribeRequest, Runs, Return
<1>2. UNCHANGED <<state, cancel_invocation, current_transaction, leave>>
  BY <1>1 DEF flags
<1>3. CASE Then(t, <<>>) /\ UNCHANGED <<invocations, pb>>
  BY <1>1, <1>2, <1>3, WaitPaused
<1>4. CASE current_transaction = "NONE" /\ ~ CanStart
  BY <1>1, <1>4, RequestCanStart
<1>5. CASE Sent
  <2>1. id \in Ids /\ FirstIs(id) /\ Index(id) = 1 /\ 1 \in DOMAIN invocations
    BY <1>1, <1>5, AtExec
  <2>2. d \in Steps /\ d.op = "done" /\ d.id = id /\ e \in Steps /\ e.op = "error"
    BY <2>1, IdStep DEF IdOps, Step, Steps, ErrorSteps
  <2>3. \E steps : /\ Goes(t, "exec", steps) /\ steps # <<>> /\ Head(steps) = d
                   /\ refused => \E i \in DOMAIN steps : steps[i].op = "error"
    <3> HIDE DEF d, e
    <3>1. CASE refused
      <4> DEFINE r == <<d>> \o <<e>>
      <4>1. /\ r \in Seq(Steps) /\ r # <<>> /\ Head(r) = d
            /\ \A i \in DOMAIN r : (i = 1 /\ r[i] = d) \/ (i > 1 /\ r[i] = e)
        BY <2>2, TwoCalls
      <4>2. Then(t, r) /\ 2 \in DOMAIN r
        BY <1>5, <3>1
      <4> HIDE DEF r
      <4>3. r[2] = e
        BY <4>1, <4>2
      <4>4. Goes(t, "exec", r)
        BY <1>1, <2>2, <4>1, <4>2 DEF Goes
      <4> QED BY <2>2, <4>1, <4>2, <4>3, <4>4
    <3>2. CASE ~ refused
      <4>1. <<d>> \in Seq(Steps)
        BY <2>2, OneStep
      <4>2. <<d>> \o <<>> = <<d>>
        BY <4>1, ConcatEmptySeq
      <4>3. Then(t, <<d>>)
        BY <1>5, <3>2, <4>2
      <4> HIDE DEF refused
      <4>4. "exec" # "leave" /\ d.op # "leave"
        BY <2>2
      <4>5. PICK steps : Goes(t, "exec", steps) /\ steps # <<>> /\ Head(steps) = d
        BY <1>1, <2>2, <4>3, <4>4, GoesOn
      <4> QED BY <3>2, <4>5
    <3> QED BY <3>1, <3>2
  <2>4. PICK steps : /\ Goes(t, "exec", steps) /\ steps # <<>> /\ Head(steps) = d
                     /\ refused => \E i \in DOMAIN steps : steps[i].op = "error"
    BY <2>3
  <2>5. /\ todo[t] # <<>> /\ Head(todo[t]).op = "exec"
        /\ \A u \in Threads \ {t} : todo[u] = <<>> /\ todo'[u] = <<>>
        /\ todo'[t] # <<>> /\ Head(todo'[t]) = d
        /\ (Failing(t) => Failing(t)') /\ (refused => Failing(t)')
    BY <1>5, <2>4, GoesFacts
  <2>6. /\ pb.state \notin {"BUSY", "WAIT_CANCEL"} /\ pb'.state # "WAIT_CANCEL"
        /\ pb'.state = "BUSY" => pb'.trans = id[1]
        /\ ~ refused => pb'.state = "BUSY"
    <3>1. pb \in PbOf(pb.channels) /\ pb.state \notin {"BUSY", "WAIT_CANCEL"}
      BY <1>5 DEF TInv, CanStart
    <3>2. CASE refused
      <4>1. pb' = [pb EXCEPT !.timetoken = inv.ctx.cursor]
        BY <1>5, <3>2
      <4> HIDE DEF inv, refused
      <4> QED BY <3>1, <3>2, <4>1 DEF PbOf
    <3>3. CASE ~ refused
      <4> DEFINE p == Started(id[1], inv.ctx.channels)
      <4>1. pb' = [p EXCEPT !.timetoken = inv.ctx.cursor, !.cursor = inv.ctx.cursor]
        BY <1>5, <3>3
      <4>2. id[1] \in Transactions
        BY <1>1 DEF Transactions
      <4>3. p \in PbOf(inv.ctx.channels) /\ p.state = "BUSY" /\ p.trans = id[1]
        BY <3>1, <4>2, PbStarted
      <4> HIDE DEF p, inv, id, refused
      <4> QED BY <3>1, <4>1, <4>3 DEF PbOf
    <3> QED BY <3>2, <3>3
  <2>7. /\ DOMAIN invocations' = DOMAIN invocations
        /\ \A j \in DOMAIN invocations :
              /\ invocations'[j].id = invocations[j].id
              /\ invocations'[j].status = IF j = 1 THEN "RUNNING" ELSE invocations[j].status
    <3>1. invocations \in Seq(Invocations) /\ invocations' = Mark(id, "RUNNING") /\ Index(id) = 1
      BY <1>5, <2>1 DEF TInv
    <3> HIDE DEF id
    <3> QED BY <3>1, MarkFacts
  <2>8. invocations[1].id = id
    BY <2>1 DEF FirstIs
  <2>9. \A u \in Threads : /\ ~ Is(u, {"callback"}) /\ ~ Is(u, {"cancel"})' /\ ~ Ending(u)
                           /\ Is(u, {"done"})' => Head(todo'[u]).id = id
    BY <2>2, <2>5 DEF Is, Ending
  <2> HIDE DEF d, e, refused, inv
  <2>10. leave = {} /\ cancel_invocation = None
    BY <1>5, <2>6, <2>9 DEF WaitInv, LeaveWaits, CancelWaits, Live, Threads
  <2>11. Free'
    BY <1>1, <1>2, <1>5, <2>6 DEF Free, Requests
  <2>12. CancelWaits' /\ LeaveWaits'
    BY <1>2, <2>10 DEF CancelWaits, LeaveWaits
  <2>13. \A j \in DOMAIN invocations : CancelAt(invocations', j) => j # 1 /\ CancelAt(invocations, j)
    BY <2>7 DEF CancelAt
  <2>14. ASSUME NEW i \in DOMAIN invocations, AwaitedAt(i), ~ refused
         PROVE  Awaited' \/ (Live' /\ ForState(pb'.trans, state) /\ ~ CancelAhead')
    <3>1. /\ ForState(invocations[i].id[1], state)
          /\ \A j \in DOMAIN invocations : j > i => ~ CancelAt(invocations, j)
      BY <2>14 DEF AwaitedAt
    <3>2. CASE i = 1
      <4>1. Live' /\ ForState(pb'.trans, state)
        BY <1>1, <2>6, <2>8, <2>14, <3>1, <3>2 DEF Live
      <4>2. \A j \in DOMAIN invocations : j # 1 => j > 1
        BY DEF TInv
      <4>3. ~ CancelAhead'
        BY <2>7, <2>9, <2>13, <3>1, <3>2, <4>2 DEF CancelAhead, AtCancel, Is
      <4> QED BY <4>1, <4>3
    <3>3. CASE i # 1
      <4>1. invocations[i].id # id
        BY <2>1, <2>8, <3>3 DEF LoopInv, QueueInv, Unique
      <4>2. i \in DOMAIN invocations' /\ ForState(invocations'[i].id[1], state')
        BY <1>2, <2>7, <3>1
      <4>3. \A j \in DOMAIN invocations' : j > i => ~ CancelAt(invocations', j)
        BY <2>7, <2>13, <3>1
      <4>4. \A u \in Threads : Is(u, {"done"})' => Head(todo'[u]).id # invocations'[i].id
        BY <2>7, <2>9, <4>1
      <4> HIDE DEF id
      <4>5. AwaitedAt(i)'
        BY <4>2, <4>3, <4>4 DEF AwaitedAt, Is
      <4> QED BY <4>2, <4>5 DEF Awaited
    <3> QED BY <3>2, <3>3
  <2>15. Needed'
    <3>1. ~ Live
      BY <2>6 DEF Live
    <3>2. \A u \in Threads : Failing(u) => Failing(u)'
      BY <2>5 DEF Failing
    <3> QED BY <1>2, <2>5, <2>9, <2>14, <3>1, <3>2 DEF WaitInv, Needed, Awaited, AwaitedAt
  <2> QED BY <2>11, <2>12, <2>15 DEF WaitInv
<1> QED BY <1>1, <1>3, <1>4, <1>5

\* A step that turns into an event of the state, or into nothing in another state
LEMMA WaitTells ==
    ASSUME TInv, LeaveInv, LoopInv, LoopWindows, WaitInv, NEW t \in Threads,
           NEW op \in {"error", "report"},
           \/ state = "HANDSHAKING" /\ \E s \in Steps :
                 Then(t, <<s>>) /\ s.op = "event" /\ s.type \in {"HANDSHAKE_SUCCESS", "HANDSHAKE_FAILURE"}
           \/ state = "RECEIVING" /\ \E s \in Steps :
                 Then(t, <<s>>) /\ s.op = "event" /\ s.type \in {"RECEIVE_SUCCESS", "RECEIVE_FAILURE"}
           \/ state \notin Looping /\ Then(t, <<>>),
           At(t, op),
           UNCHANGED <<state, invocations, current_transaction, cancel_invocation, leave, pb>>
    PROVE  WaitInv'
<1>1. \E steps : /\ Goes(t, op, steps) /\ (steps # <<>> => Head(steps).op = "event")
                 /\ state \in Looping => /\ steps # <<>>
                                         /\ \/ state = "HANDSHAKING" /\ Head(steps).type \in {"HANDSHAKE_SUCCESS", "HANDSHAKE_FAILURE"}
                                            \/ state = "RECEIVING" /\ Head(steps).type \in {"RECEIVE_SUCCESS", "RECEIVE_FAILURE"}
  <2>1. CASE \E s \in Steps : /\ Then(t, <<s>>) /\ s.op = "event"
                              /\ \/ state = "HANDSHAKING" /\ s.type \in {"HANDSHAKE_SUCCESS", "HANDSHAKE_FAILURE"}
                                 \/ state = "RECEIVING" /\ s.type \in {"RECEIVE_SUCCESS", "RECEIVE_FAILURE"}
    <3>1. PICK s \in Steps : /\ Then(t, <<s>>) /\ s.op = "event"
                             /\ \/ state = "HANDSHAKING" /\ s.type \in {"HANDSHAKE_SUCCESS", "HANDSHAKE_FAILURE"}
                                \/ state = "RECEIVING" /\ s.type \in {"RECEIVE_SUCCESS", "RECEIVE_FAILURE"}
      BY <2>1
    <3>2. s.op # "leave" /\ op # "leave"
      BY <3>1
    <3>3. PICK steps : Goes(t, op, steps) /\ steps # <<>> /\ Head(steps) = s
      BY <3>1, <3>2, GoesOn
    <3> QED BY <3>1, <3>3
  <2>2. CASE state \notin Looping /\ Then(t, <<>>)
    <3>1. PICK steps : Goes(t, op, steps) /\ steps = <<>>
      BY <2>2, GoesBack
    <3> QED BY <2>2, <3>1
  <2> QED BY <2>1, <2>2
<1>2. PICK steps : /\ Goes(t, op, steps) /\ (steps # <<>> => Head(steps).op = "event")
                   /\ state \in Looping => /\ steps # <<>>
                                           /\ \/ state = "HANDSHAKING" /\ Head(steps).type \in {"HANDSHAKE_SUCCESS", "HANDSHAKE_FAILURE"}
                                              \/ state = "RECEIVING" /\ Head(steps).type \in {"RECEIVE_SUCCESS", "RECEIVE_FAILURE"}
  BY <1>1
<1>3. /\ todo[t] # <<>> /\ Head(todo[t]).op = op
      /\ \A u \in Threads \ {t} : todo'[u] = todo[u]
      /\ steps # <<>> => todo'[t] # <<>> /\ Head(todo'[t]) = Head(steps)
      /\ steps = <<>> /\ todo'[t] # <<>> => op # "leave" /\ Head(todo'[t]).op = "error"
  BY <1>2, GoesFacts
<1>4. /\ Is("watcher", {"callback"})' <=> Is("watcher", {"callback"})
      /\ Is("watcher", {"callback"}) => todo'["watcher"] = todo["watcher"]
  BY <1>2, <1>3 DEF Is, Threads
<1>5. Live' = Live
  BY DEF Live
<1>6. Free'
  BY <1>4, <1>5 DEF WaitInv, Free
<1>7. CancelWaits'
  BY <1>4 DEF WaitInv, CancelWaits
<1>8. LeaveWaits'
  <2>1. CancelAhead => CancelAhead'
    <3>1. ASSUME NEW u \in Threads, Is(u, {"cancel"}) PROVE CancelAhead'
      BY <1>3, <3>1 DEF CancelAhead, AtCancel, Is
    <3> QED BY <3>1 DEF CancelAhead, AtCancel
  <2>2. Refreshing => Refreshing'
    BY <1>3 DEF Refreshing, Refreshes, Threads
  <2> QED BY <1>4, <1>5, <2>1, <2>2 DEF WaitInv, LeaveWaits
<1>9. Needed'
  <2>1. state \in Looping => Ending(t)'
    BY <1>2, <1>3 DEF Ending
  <2> QED BY <2>1 DEF Needed
<1> QED BY <1>6, <1>7, <1>8, <1>9 DEF WaitInv

\* A failed request becomes an event of the state.
LEMMA WaitSubscribeError ==
    ASSUME TInv, TInv', LeaveInv, LoopInv, LoopWindows, WaitInv, NEW t \in Threads, SubscribeError(t)
    PROVE  WaitInv'
<1>1. /\ At(t, "error")
      /\ Then(t, CASE state = "HANDSHAKING" -> <<CopyEvent("HANDSHAKE_FAILURE")>>
                   [] state = "RECEIVING" -> <<CopyEvent("RECEIVE_FAILURE")>>
                   [] OTHER -> <<>>)
      /\ UNCHANGED <<engine, flags, leave, pb>>
  BY DEF SubscribeError
<1>2. UNCHANGED <<state, invocations, current_transaction, cancel_invocation, leave, pb>>
  BY <1>1 DEF engine, flags
<1>3. \A type \in {"HANDSHAKE_FAILURE", "RECEIVE_FAILURE"} :
         CopyEvent(type) \in Steps /\ CopyEvent(type).op = "event" /\ CopyEvent(type).type = type
  BY CopyStep DEF EventTypes, CopyEvent, Event
<1>4. CASE state = "HANDSHAKING"
  <2> DEFINE s == CopyEvent("HANDSHAKE_FAILURE")
  <2>1. Then(t, <<s>>) /\ s \in Steps /\ s.op = "event" /\ s.type = "HANDSHAKE_FAILURE"
    BY <1>1, <1>3, <1>4
  <2> HIDE DEF s
  <2> QED BY <1>1, <1>2, <1>4, <2>1, WaitTells
<1>5. CASE state = "RECEIVING"
  <2> DEFINE s == CopyEvent("RECEIVE_FAILURE")
  <2>1. Then(t, <<s>>) /\ s \in Steps /\ s.op = "event" /\ s.type = "RECEIVE_FAILURE"
    BY <1>1, <1>3, <1>5
  <2> HIDE DEF s
  <2> QED BY <1>1, <1>2, <1>5, <2>1, WaitTells
<1>6. CASE state \notin Looping
  <2>1. Then(t, <<>>)
    BY <1>1, <1>6 DEF Looping
  <2> QED BY <1>1, <1>2, <1>6, <2>1, WaitTells
<1> QED BY <1>4, <1>5, <1>6 DEF Looping

\* So does the answer to a request.
LEMMA WaitReport ==
    ASSUME TInv, TInv', LeaveInv, LoopInv, LoopWindows, WaitInv, Report
    PROVE  WaitInv'
<1> DEFINE t == "watcher"
           event(success, failure) ==
              IF Head(todo["watcher"]).ok
              THEN Event(success, context.channels, pb.timetoken, FALSE) ELSE CopyEvent(failure)
           h == event("HANDSHAKE_SUCCESS", "HANDSHAKE_FAILURE")
           r == event("RECEIVE_SUCCESS", "RECEIVE_FAILURE")
<1>1. /\ At(t, "report")
      /\ Then(t, CASE state = "HANDSHAKING" -> <<h>> [] state = "RECEIVING" -> <<r>> [] OTHER -> <<>>)
      /\ UNCHANGED <<engine, flags, leave, pb>>
  BY DEF Report
<1>2. UNCHANGED <<state, invocations, current_transaction, cancel_invocation, leave, pb>>
  BY <1>1 DEF engine, flags
<1>3. /\ h \in Steps /\ h.op = "event" /\ h.type \in {"HANDSHAKE_SUCCESS", "HANDSHAKE_FAILURE"}
      /\ r \in Steps /\ r.op = "event" /\ r.type \in {"RECEIVE_SUCCESS", "RECEIVE_FAILURE"}
  <2>1. \A type \in {"HANDSHAKE_FAILURE", "RECEIVE_FAILURE"} :
           CopyEvent(type) \in Steps /\ CopyEvent(type).op = "event" /\ CopyEvent(type).type = type
    BY CopyStep DEF EventTypes, CopyEvent, Event
  <2>2. \A type \in {"HANDSHAKE_SUCCESS", "RECEIVE_SUCCESS"} :
           LET s == Event(type, context.channels, pb.timetoken, FALSE)
           IN  s \in Steps /\ s.op = "event" /\ s.type = type
    <3> SUFFICES ASSUME NEW type \in {"HANDSHAKE_SUCCESS", "RECEIVE_SUCCESS"}
                 PROVE  LET s == Event(type, context.channels, pb.timetoken, FALSE)
                        IN  s \in Steps /\ s.op = "event" /\ s.type = type
      OBVIOUS
    <3>1. type \in EventTypes /\ FALSE \in BOOLEAN
      BY DEF EventTypes
    <3>2. pb.timetoken \in Tokens /\ context.channels \in SUBSET Channels
      BY PbFacts DEF TInv, Contexts
    <3> QED BY <3>1, <3>2, EventStep DEF Event
  <2> QED BY <2>1, <2>2
<1>4. t \in Threads
  BY DEF Threads
<1> HIDE DEF t, h, r
<1>5. CASE state = "HANDSHAKING"
  <2>1. Then(t, <<h>>)
    BY <1>1, <1>5
  <2> QED BY <1>1, <1>2, <1>3, <1>4, <1>5, <2>1, WaitTells
<1>6. CASE state = "RECEIVING"
  <2>1. Then(t, <<r>>)
    BY <1>1, <1>6
  <2> QED BY <1>1, <1>2, <1>3, <1>4, <1>6, <2>1, WaitTells
<1>7. CASE state \notin Looping
  <2>1. Then(t, <<>>)
    BY <1>1, <1>7 DEF Looping
  <2> QED BY <1>1, <1>2, <1>4, <1>7, <2>1, WaitTells
<1> QED BY <1>5, <1>6, <1>7 DEF Looping

\* The leave of a call is sent, or waits for a callback: of the cancel or the
\* transaction in progress, or of the live request that the call will cancel.
LEMMA WaitLeave ==
    ASSUME TInv, TInv', LeaveInv, LoopInv, LoopWindows, WaitInv, NEW t \in Threads, Leave(t)
    PROVE  WaitInv'
<1> DEFINE channels == Head(todo[t]).channels
<1>1. /\ At(t, "leave") /\ Then(t, <<>>)
      /\ \/ CanStart /\ current_transaction' = "LEAVE" /\ pb' = Started("LEAVE", channels)
         \/ ~ CanStart /\ UNCHANGED <<current_transaction, pb>>
      /\ UNCHANGED <<engine, cancel_invocation>>
      /\ CanStart => leave' = leave
  BY DEF Leave, Return
<1>2. UNCHANGED <<state, invocations, cancel_invocation>>
  BY <1>1 DEF engine
<1>3. PICK steps : Goes(t, "leave", steps) /\ steps = <<>>
  BY <1>1, GoesBack
<1>4. /\ todo[t] # <<>> /\ Head(todo[t]).op = "leave"
      /\ \A u \in Threads \ {t} : todo'[u] = todo[u]
      /\ \A u \in Threads \ {t} : todo[u] # <<>> => Head(todo[u]).op \in {"heartbeat", "leave", "exec"}
      /\ t = "app" /\ todo'[t] # <<>> /\ (Failing(t) => Failing(t)')
  BY <1>3, GoesFacts
<1>5. Follows(Head(todo'[t]))
  BY <1>3, <1>4, GoesFacts
<1>6. /\ Head(todo'[t]).op \in {"changed", "event"} /\ Refreshing'
  BY <1>4, <1>5 DEF Follows, Refreshing, Refreshes
<1>7. \A u \in Threads : /\ ~ Is(u, {"callback"}) /\ ~ Is(u, {"callback"})' /\ ~ Is(u, {"done"})'
                         /\ ~ Is(u, {"cancel"})' /\ ~ Ending(u) /\ (Failing(u) => Failing(u)')
  <2> SUFFICES ASSUME NEW u \in Threads
               PROVE  /\ ~ Is(u, {"callback"}) /\ ~ Is(u, {"callback"})' /\ ~ Is(u, {"done"})'
                      /\ ~ Is(u, {"cancel"})' /\ ~ Ending(u) /\ (Failing(u) => Failing(u)')
    BY DEF Is
  <2>1. CASE u = t
    BY <1>4, <1>6, <2>1 DEF Is, Ending
  <2>2. CASE u # t
    <3>1. Failing(u) => Failing(u)'
      BY <1>4, <2>2 DEF Failing
    <3>2. /\ ~ Is(u, {"callback"}) /\ ~ Is(u, {"callback"})' /\ ~ Is(u, {"done"})'
          /\ ~ Is(u, {"cancel"})' /\ ~ Ending(u)
      BY <1>4, <2>2 DEF Is, Ending
    <3> QED BY <3>1, <3>2
  <2> QED BY <2>1, <2>2
<1>8. /\ CanStart => pb'.state = "BUSY" /\ pb'.trans = "LEAVE" /\ ~ Live
      /\ ~ CanStart => pb' = pb /\ UNCHANGED current_transaction
  <2>1. "LEAVE" \in Transactions
    BY DEF Transactions
  <2>2. Started("LEAVE", channels).state = "BUSY" /\ Started("LEAVE", channels).trans = "LEAVE"
    BY <2>1, PbStarted DEF TInv
  <2> QED BY <1>1, <2>2 DEF CanStart, Live
<1>9. Free'
  BY <1>7, <1>8 DEF WaitInv, Free, Live, Requests, Is, Threads
<1>10. CancelWaits'
  BY <1>2, <1>7, <1>8 DEF WaitInv, CancelWaits, CanStart, Is, Threads
<1>11. LeaveWaits'
  <2>1. CASE CanStart
    BY <1>1, <2>1 DEF LeaveWaits
  <2>2. CASE ~ CanStart
    <3>1. pb.state \in {"BUSY", "WAIT_CANCEL"}
      BY <2>2, PbFacts DEF TInv, CanStart
    <3>2. pb.state = "BUSY" /\ pb.trans \notin Requests => current_transaction # "NONE"
      BY DEF LoopInv, CallsInv, TransactionKnown
    <3> QED BY <1>6, <1>8, <2>2, <3>1, <3>2 DEF LeaveWaits, Live
  <2> QED BY <2>1, <2>2
<1>12. Needed'
  <2>1. Awaited => Awaited'
    BY <1>2, <1>7, AwaitedMarked
  <2>2. CancelAhead' => CancelAhead
    BY <1>2, <1>7 DEF CancelAhead, AtCancel, Is
  <2>3. Live => Live' /\ pb'.trans = pb.trans
    BY <1>8 DEF Live
  <2> QED BY <1>2, <1>7, <2>1, <2>2, <2>3 DEF WaitInv, Needed
<1> QED BY <1>9, <1>10, <1>11, <1>12 DEF WaitInv

\* The leave that a callback prepared is sent, with both threads away.
LEMMA WaitRequeued ==
    ASSUME TInv, TInv', LeaveInv, LoopInv, LoopWindows, WaitInv, Requeued
    PROVE  WaitInv'
<1>1. /\ pb.requeued /\ todo["watcher"] = <<>>
      /\ todo["app"] # <<>> => Head(todo["app"]).op \in Windows
      /\ todo' = [todo EXCEPT !["watcher"] = <<>>]
      /\ pb' = [pb EXCEPT !.requeued = FALSE, !.state = IF CanStart THEN "BUSY" ELSE @]
      /\ UNCHANGED <<engine, flags, leave>>
  BY DEF Requeued, Enters
<1>2. /\ todo["app"] = <<>> /\ CanStart /\ current_transaction = "LEAVE" /\ pb.trans = "LEAVE"
  BY <1>1, PreparedAlone
<1>3. todo' = todo /\ \A u \in Threads : todo[u] = <<>>
  BY <1>1, <1>2 DEF TInv, Threads
<1>4. UNCHANGED <<state, invocations, current_transaction, cancel_invocation, leave>>
  BY <1>1 DEF engine, flags
<1>5. pb'.state = "BUSY" /\ pb'.trans = "LEAVE"
  <2>1. pb \in PbOf(pb.channels)
    BY DEF TInv
  <2> QED BY <1>1, <1>2, <2>1 DEF PbOf
<1>6. \A u \in Threads : ~ Is(u, {"callback"}) /\ ~ Is(u, {"callback"})' /\ ~ Is(u, {"done"})'
                         /\ ~ Ending(u) /\ (Failing(u) => Failing(u)')
  BY <1>3 DEF Is, Ending, Failing
<1>7. Free' /\ LeaveWaits'
  BY <1>2, <1>4, <1>5, <1>6 DEF Free, Live, Requests, LeaveWaits, Is, Threads
<1>8. CancelWaits'
  BY <1>2, <1>4, <1>6 DEF WaitInv, CancelWaits, CanStart, Threads
<1>9. Needed'
  <2>1. ~ Live
    BY <1>2 DEF CanStart, Live
  <2>2. Awaited => Awaited'
    BY <1>4, <1>6, AwaitedMarked
  <2> QED BY <1>4, <1>6, <2>1, <2>2 DEF WaitInv, Needed
<1> QED BY <1>7, <1>8, <1>9 DEF WaitInv

\* A transaction ends: an answer to a live request is reported, and the callback
\* of any other takes up the cancel and the leave that wait for it.
LEMMA WaitEnds ==
    ASSUME TInv, TInv', LeaveInv, LoopInv, LoopWindows, WaitInv, Ends
    PROVE  WaitInv'
<1>1. /\ pb.state \in {"BUSY", "WAIT_CANCEL"}
      /\ pb'.state \in {"IDLE", "KEEP_ALIVE_IDLE"}
  BY Outcome
<1>2. /\ UNCHANGED <<engine, flags, leave>>
      /\ \E result \in {"OK", "ERROR", "CANCELLED"} :
            Enters(Callback(result)) /\ (result = "CANCELLED" <=> pb.state = "WAIT_CANCEL")
  BY DEF Ends, EndOk, EndError, EndCancelled
<1>3. UNCHANGED <<state, invocations, current_transaction, cancel_invocation, leave>>
  BY <1>2 DEF engine, flags
<1>4. \E s : /\ Enters(<<s>>)
             /\ IF Live THEN s.op = "report" ELSE s.op = "callback" /\ s.trans = pb.trans
  <2>1. PICK result \in {"OK", "ERROR", "CANCELLED"} :
           Enters(Callback(result)) /\ (result = "CANCELLED" <=> pb.state = "WAIT_CANCEL")
    BY <1>2
  <2>2. \E s : /\ Callback(result) = <<s>>
               /\ IF Live THEN s.op = "report" ELSE s.op = "callback" /\ s.trans = pb.trans
    <3>1. CASE Live
      BY <2>1, <3>1 DEF Callback, Live
    <3>2. CASE ~ Live
      <4>1. ~ (result # "CANCELLED" /\ pb.trans \in Requests)
        BY <1>1, <2>1, <3>2 DEF Live
      <4> QED BY <3>2, <4>1 DEF Callback
    <3> QED BY <3>1, <3>2
  <2> QED BY <2>1, <2>2
<1>5. PICK s : /\ Enters(<<s>>)
               /\ IF Live THEN s.op = "report" ELSE s.op = "callback" /\ s.trans = pb.trans
  BY <1>4
<1>6. /\ todo["watcher"] = <<>> /\ todo'["watcher"] = <<s>> /\ todo'["app"] = todo["app"]
      /\ todo["app"] # <<>> => Head(todo["app"]).op = "heartbeat"
  BY <1>5 DEF Enters, TInv, Threads, LoopWindows
<1>7. todo["app"] = <<>>
  BY <1>1, <1>6 DEF LoopInv, CallsInv, HeartbeatHeld, Is, Threads, CanStart
<1>8. /\ \A u \in Threads : todo[u] = <<>>
      /\ todo'["watcher"] # <<>> /\ Head(todo'["watcher"]) = s /\ todo'["app"] = <<>>
  BY <1>6, <1>7 DEF Threads
<1>9. \A u \in Threads : ~ Is(u, {"callback"}) /\ ~ Is(u, {"done"})' /\ ~ Is(u, {"cancel"})
                         /\ ~ Ending(u) /\ ~ Failing(u)
  BY <1>5, <1>8 DEF Is, Ending, Failing, Threads
<1>10. Free'
  <2>1. ~ Live' /\ pb'.state \notin {"BUSY", "WAIT_CANCEL"}
    BY <1>1 DEF Live
  <2>2. ASSUME s.op = "callback", s.trans \notin {"HEARTBEAT", "LEAVE"} PROVE current_transaction = "NONE"
    <3>1. ~ Live /\ s.trans = pb.trans
      BY <1>5, <2>2
    <3>2. pb.trans \in Transactions
      BY PbFacts DEF TInv
    <3>3. pb.state = "WAIT_CANCEL"
      BY <1>1, <2>2, <3>1, <3>2 DEF WaitInv, Free, Live, Transactions
    <3> QED BY <3>3 DEF WaitInv, Free
  <2> QED BY <1>3, <1>8, <2>1, <2>2 DEF Free, Is
<1>11. pb.state = "WAIT_CANCEL" => Is("watcher", {"callback"})'
  BY <1>5, <1>8 DEF Live, Is
<1>12. CancelWaits'
  BY <1>3, <1>9, <1>11 DEF WaitInv, CancelWaits, Is, Threads
<1>13. LeaveWaits'
  <2>1. ASSUME Live, current_transaction = "NONE", CancelAhead \/ Refreshing PROVE FALSE
    <3>1. cancel_invocation = None
      BY <1>9, <2>1 DEF WaitInv, CancelWaits, Live, Threads
    <3>2. invocations = <<>>
      BY <1>8, <2>1, <3>1 DEF LoopInv, QueueInv, Progress, Is
    <3>3. ~ CancelAhead /\ ~ Refreshing
      BY <1>7, <1>9, <3>2 DEF CancelAhead, AtCancel, Refreshing, Threads
    <3> QED BY <2>1, <3>3
  <2>2. leave # {} => pb.state = "WAIT_CANCEL" \/ current_transaction # "NONE"
    BY <1>9, <2>1 DEF WaitInv, LeaveWaits, Threads
  <2> QED BY <1>3, <1>11, <2>2 DEF LeaveWaits, Is
<1>14. Needed'
  <2>1. Awaited => Awaited'
    BY <1>3, <1>9, AwaitedMarked
  <2>2. Live => Ending("watcher")'
    BY <1>5, <1>8 DEF Ending
  <2> QED BY <1>3, <1>9, <2>1, <2>2 DEF WaitInv, Needed, Threads
<1> QED BY <1>10, <1>12, <1>13, <1>14 DEF WaitInv

\* The queue less its first, that ran: what is awaited comes nearer.
LEMMA FirstDropped ==
    ASSUME TInv, invocations # <<>>, invocations[1].status = "RUNNING",
           invocations' = Drop(invocations, 1)
    PROVE  /\ \A i \in DOMAIN invocations : i # 1 =>
                 i - 1 \in DOMAIN invocations' /\ invocations'[i - 1] = invocations[i]
           /\ \A k \in DOMAIN invocations' :
                 k \in Nat /\ k + 1 \in DOMAIN invocations /\ invocations'[k] = invocations[k + 1]
           /\ (\E j \in DOMAIN invocations : CancelAt(invocations, j))
                 <=> \E j \in DOMAIN invocations' : CancelAt(invocations', j)
           /\ UNCHANGED state /\ (\A i \in DOMAIN invocations : AwaitedAt(i) => i # 1)
              /\ (\A u \in Threads : ~ Is(u, {"done"})') => (Awaited => Awaited')
<1>1. invocations \in Seq(Invocations) /\ 1 \in DOMAIN invocations
  BY DEF TInv
<1>2. /\ Len(invocations') = Len(invocations) - 1 /\ invocations' \in Seq(Invocations)
      /\ \A k \in 1 .. Len(invocations) - 1 :
            invocations'[k] = IF k < 1 THEN invocations[k] ELSE invocations[k + 1]
  BY <1>1, DropIndex
<1>3. Len(invocations) \in Nat /\ DOMAIN invocations = 1 .. Len(invocations)
      /\ DOMAIN invocations' = 1 .. Len(invocations) - 1
  BY <1>1, <1>2
<1>4. \A i \in DOMAIN invocations : i # 1 =>
         i \in Nat /\ i - 1 \in DOMAIN invocations' /\ invocations'[i - 1] = invocations[i]
  BY <1>2, <1>3
<1>5. \A k \in DOMAIN invocations' :
         k \in Nat /\ k + 1 \in DOMAIN invocations /\ invocations'[k] = invocations[k + 1]
  BY <1>2, <1>3
<1>6. (\E j \in DOMAIN invocations : CancelAt(invocations, j))
         <=> \E j \in DOMAIN invocations' : CancelAt(invocations', j)
  <2>1. ~ CancelAt(invocations, 1)
    BY DEF CancelAt
  <2> QED BY <1>4, <1>5, <2>1 DEF CancelAt
<1>7. ASSUME UNCHANGED state, \A u \in Threads : ~ Is(u, {"done"})',
             NEW i \in DOMAIN invocations, AwaitedAt(i), i # 1
      PROVE  Awaited'
  <2>1. /\ ForState(invocations[i].id[1], state)
        /\ \A j \in DOMAIN invocations : j > i => ~ CancelAt(invocations, j)
    BY <1>7 DEF AwaitedAt
  <2>2. i - 1 \in DOMAIN invocations' /\ ForState(invocations'[i - 1].id[1], state')
    BY <1>4, <1>7, <2>1
  <2>3. \A j \in DOMAIN invocations' : j > i - 1 => ~ CancelAt(invocations', j)
    <3> SUFFICES ASSUME NEW j \in DOMAIN invocations', j > i - 1, CancelAt(invocations', j) PROVE FALSE
      OBVIOUS
    <3>1. j + 1 \in DOMAIN invocations /\ j + 1 > i /\ invocations'[j] = invocations[j + 1]
      BY <1>3, <1>5
    <3> QED BY <2>1, <3>1 DEF CancelAt
  <2>4. AwaitedAt(i - 1)'
    BY <1>7, <2>2, <2>3 DEF AwaitedAt, Is
  <2> QED BY <2>2, <2>4 DEF Awaited
<1>8. UNCHANGED state /\ (\A i \in DOMAIN invocations : AwaitedAt(i) => i # 1)
      /\ (\A u \in Threads : ~ Is(u, {"done"})') => (Awaited => Awaited')
  BY <1>7 DEF Awaited
<1> QED BY <1>4, <1>5, <1>6, <1>8

\* The end of an effect
LEMMA WaitComplete ==
    ASSUME TInv, TInv', LeaveInv, LoopInv, LoopWindows, WaitInv, NEW t \in Threads, Complete(t)
    PROVE  WaitInv'
<1>1. /\ At(t, "done")
      /\ Then(t, IF invocations' # invocations THEN ProcessNext(invocations') ELSE <<>>)
      /\ UNCHANGED <<state, flags, leave, pb>>
  BY DEF Complete
<1>2. UNCHANGED <<state, current_transaction, cancel_invocation, leave>>
  BY <1>1 DEF flags
<1>3. /\ invocations # <<>> /\ invocations[1].status = "RUNNING"
      /\ invocations' = Drop(invocations, 1)
  BY QueueCompletes DEF LoopInv
<1>4. /\ invocations \in Seq(Invocations) /\ invocations' \in Seq(Invocations)
  BY DEF TInv
<1>5. \E steps : Goes(t, "done", steps) /\ (steps # <<>> => Head(steps).op = "exec")
  <2>1. CASE invocations' # invocations
    <3> DEFINE steps == ProcessNext(invocations')
    <3>1. /\ steps \in Seq(Steps) /\ Then(t, steps) /\ \A i \in DOMAIN steps : i > 1 => steps[i].op = "error"
          /\ steps # <<>> => Head(steps).op = "exec"
      BY <1>1, <1>4, <2>1, NextFirst
    <3> HIDE DEF steps
    <3>2. Goes(t, "done", steps)
      BY <1>1, <3>1 DEF Goes
    <3> QED BY <3>1, <3>2
  <2>2. CASE invocations' = invocations
    <3>1. Then(t, <<>>)
      BY <1>1, <2>2
    <3> QED BY <1>1, <3>1, GoesBack
  <2> QED BY <2>1, <2>2
<1>6. PICK steps : Goes(t, "done", steps) /\ (steps # <<>> => Head(steps).op = "exec")
  BY <1>5
<1>7. /\ todo[t] # <<>> /\ Head(todo[t]).op = "done"
      /\ \A u \in Threads \ {t} : todo'[u] = todo[u]
      /\ \A u \in Threads \ {t} : todo[u] # <<>> => Head(todo[u]).op \in {"heartbeat", "leave", "exec"}
      /\ steps # <<>> => todo'[t] # <<>> /\ Head(todo'[t]) = Head(steps)
      /\ steps = <<>> /\ todo'[t] # <<>> => Head(todo'[t]).op = "error"
  BY <1>6, GoesFacts
<1>8. \A u \in Threads : ~ Is(u, {"done"})' /\ ~ Is(u, {"cancel"})
  <2> SUFFICES ASSUME NEW u \in Threads PROVE ~ Is(u, {"done"})' /\ ~ Is(u, {"cancel"})
    OBVIOUS
  <2>1. CASE u = t
    BY <1>6, <1>7, <2>1 DEF Is
  <2>2. CASE u # t
    BY <1>7, <2>2 DEF Is
  <2> QED BY <2>1, <2>2
<1>9. Head(todo[t]).id = invocations[1].id
  BY <1>7 DEF LoopInv, QueueInv, Owner, OwnerOps, Is, FirstIs
<1>10. \A i \in DOMAIN invocations : AwaitedAt(i) => i # 1
  BY <1>7, <1>9 DEF AwaitedAt, Is
<1>11. /\ Awaited => Awaited'
       /\ (\E j \in DOMAIN invocations : CancelAt(invocations, j))
             <=> \E j \in DOMAIN invocations' : CancelAt(invocations', j)
  BY <1>1, <1>3, <1>8, <1>10, FirstDropped
<1>12. CancelAhead => CancelAhead'
  BY <1>8, <1>11 DEF CancelAhead, AtCancel
<1>13. ~ (t = "app" /\ Refreshing)
  BY <1>1, ExecRefreshes
<1>14. pb'.state = pb.state /\ pb'.trans = pb.trans
  BY <1>1
<1> QED BY <1>2, <1>6, <1>11, <1>12, <1>13, <1>14, WaitsKept

\* pbcc_subscribe_callback_ of a transaction of another kind: the cancel that
\* waited for it is done, and the leave taken up.
LEMMA CallbackDone ==
    ASSUME TInv, TInv', LeaveInv, LoopInv, LoopWindows, WaitInv, OtherCallback
    PROVE  /\ todo["app"] = <<>> /\ ~ Live /\ pb'.state \notin {"BUSY", "WAIT_CANCEL"}
           /\ cancel_invocation' = None /\ leave' = {}
           /\ current_transaction' = IF leave = {} THEN "NONE" ELSE "LEAVE"
           /\ ~ Is("watcher", {"callback"})' /\ \A u \in Threads : ~ Is(u, {"done"})'
           /\ state \in Looping => Awaited'
           /\ \/ invocations' = invocations
              \/ invocations # <<>> /\ invocations[1].status = "RUNNING" /\ invocations' = Drop(invocations, 1)
<1> DEFINE t == "watcher"
           cb == Head(todo[t])
           ended == cb.trans \in {"HEARTBEAT", "LEAVE"}
           transaction == IF ended THEN "NONE" ELSE current_transaction
           flushed == IF ended THEN [pb EXCEPT !.messages = 0, !.cursor = 0] ELSE pb
           postponed == leave # {} /\ transaction = "NONE"
           report == [op |-> "report", ok |-> cb.ok]
           steps == CASE leave # {} -> <<>>
                      [] leave = {} /\ invocations' = <<>> -> <<report>>
                      [] OTHER -> ProcessNext(invocations')
<1>1. /\ At(t, "callback")
      /\ invocations' = IF cancel_invocation = None THEN invocations ELSE Completed(cancel_invocation)
      /\ cancel_invocation' = None
      /\ leave' = IF postponed THEN {} ELSE leave
      /\ pb' = IF ~ postponed THEN flushed
               ELSE [flushed EXCEPT !.trans = "LEAVE", !.channels = leave, !.timetoken = 0,
                                    !.requeued = TRUE]
      /\ UNCHANGED state
  BY DEF OtherCallback
<1>2. /\ todo[t] # <<>> /\ cb \in Steps /\ cb.op = "callback" /\ Is(t, {"callback"})
  BY <1>1, AtFacts DEF TInv, Is, Threads
<1>3. todo["app"] = <<>> /\ CanStart
  BY <1>2 DEF LoopInv, CallsInv, AfterEnd, Is
<1>4. Len(todo[t]) = 1 /\ ~ pb.requeued
  BY <1>2 DEF LeaveInv, CallbackFirst, Prepared
<1>5. pb'.state = pb.state
  <2>1. pb \in PbOf(pb.channels)
    BY DEF TInv
  <2>2. flushed \in PbOf(pb.channels) /\ flushed.state = pb.state
    BY <2>1, TokenFacts DEF PbOf
  <2> HIDE DEF flushed, postponed
  <2> QED BY <1>1, <2>2 DEF PbOf
<1>6. pb'.state \notin {"BUSY", "WAIT_CANCEL"} /\ ~ Live
  BY <1>3, <1>5 DEF CanStart, Live
<1>7. transaction = "NONE"
  BY <1>2 DEF WaitInv, Free
<1>8. leave' = {}
  BY <1>1, <1>7
<1>9. ~ Is(t, {"callback"})' /\ \A u \in Threads : ~ Is(u, {"done"})'
  <2>1. todo'["app"] = <<>> /\ todo'[t] = steps \o Tail(todo[t])
    <3>1. Then(t, steps)
      BY DEF OtherCallback
    <3> HIDE DEF steps
    <3> QED BY <1>3, <3>1 DEF Then, TInv, Threads
  <2>2. Tail(todo[t]) = <<>>
    <3> DEFINE q == todo[t]
    <3>1. q \in Seq(Steps) /\ Len(q) = 1
      BY <1>4 DEF TInv, Threads
    <3> HIDE DEF q
    <3>2. Tail(q) \in Seq(Steps) /\ Len(Tail(q)) = 0
      BY <3>1
    <3>3. Tail(q) = <<>>
      BY <3>2, EmptySeq
    <3> QED BY <3>3 DEF q
  <2>3. steps = <<>> \/ \E s : s.op \in {"exec", "report"} /\ steps = <<s>>
    BY DEF ProcessNext, With
  <2> HIDE DEF steps
  <2>4. todo'[t] = <<>> \/ \E s : s.op \in {"exec", "report"} /\ todo'[t] = <<s>>
    <3>1. CASE steps = <<>>
      BY <2>1, <2>2, <3>1
    <3>2. ASSUME NEW s, s.op \in {"exec", "report"}, steps = <<s>>
          PROVE  todo'[t] = <<s>>
      <4>1. <<s>> \in Seq({s})
        OBVIOUS
      <4>2. <<s>> \o <<>> = <<s>>
        BY <4>1, ConcatEmptySeq
      <4> QED BY <2>1, <2>2, <3>2, <4>2
    <3> QED BY <2>3, <3>1, <3>2
  <2>5. todo'[t] # <<>> => Head(todo'[t]).op \in {"exec", "report"}
    BY <2>4
  <2> QED BY <2>1, <2>5 DEF Is, Threads
<1>12. \A u \in Threads : ~ Ending(u) /\ ~ Failing(u)
  <2>1. DOMAIN todo["app"] = {} /\ DOMAIN todo[t] = {1} /\ todo[t][1] = cb
    <3> DEFINE q == todo[t]
    <3>1. q \in Seq(Steps) /\ Len(q) = 1 /\ q[1] = cb
      BY <1>2, <1>4 DEF TInv, Threads
    <3> HIDE DEF q
    <3>2. DOMAIN q = {1}
      BY <3>1
    <3> QED BY <1>3, <3>1, <3>2 DEF q
  <2> QED BY <1>2, <1>3, <2>1 DEF Ending, Failing, Threads
<1>13. /\ Awaited => Awaited'
       /\ \/ invocations' = invocations
          \/ invocations # <<>> /\ invocations[1].status = "RUNNING" /\ invocations' = Drop(invocations, 1)
  <2>1. CASE cancel_invocation = None
    <3>1. invocations' = invocations
      BY <1>1, <2>1
    <3>2. state' = state /\ \A u \in Threads : ~ Is(u, {"done"})'
      BY <1>1, <1>9
    <3>3. /\ DOMAIN invocations' = DOMAIN invocations
          /\ \A i \in DOMAIN invocations : /\ invocations'[i].id = invocations[i].id
                                           /\ CancelAt(invocations', i) => CancelAt(invocations, i)
          /\ \A u \in Threads : Is(u, {"done"})' => Head(todo'[u]).id[1] \notin Requests
      BY <3>1, <3>2
    <3>4. Awaited => Awaited'
      BY <3>2, <3>3, AwaitedMarked
    <3> QED BY <3>1, <3>4
  <2>2. CASE cancel_invocation # None
    <3> DEFINE id == cancel_invocation
    <3>1. FirstIs(id) /\ invocations[1].status = "RUNNING"
      BY <2>2 DEF LoopInv, QueueInv, Cancelling
    <3>2. Queued(id) /\ Index(id) = 1 /\ 1 \in DOMAIN invocations
      BY <3>1, FirstIndex DEF LoopInv, QueueInv, TInv
    <3>3. invocations' = Completed(id)
      BY <1>1, <2>2
    <3>4. invocations' = Drop(invocations, 1)
      BY <3>1, <3>2, <3>3, Zenon DEF Completed
    <3>5. id[1] = "CANCEL" /\ invocations[1].id = id
      BY <2>2, <3>1 DEF WaitInv, CancelWaits, FirstIs
    <3>6. \A i \in DOMAIN invocations : AwaitedAt(i) => i # 1
      BY <3>5 DEF AwaitedAt, ForState
    <3> QED BY <1>1, <1>9, <3>1, <3>4, <3>6, FirstDropped DEF FirstIs
  <2> QED BY <2>1, <2>2
<1>14. state \in Looping => Awaited'
  BY <1>6, <1>12, <1>13 DEF WaitInv, Needed
<1>15. current_transaction' = IF leave = {} THEN "NONE" ELSE "LEAVE"
  <2>1. current_transaction' = IF postponed THEN "LEAVE" ELSE transaction
    BY DEF OtherCallback
  <2> QED BY <1>7, <2>1
<1> QED BY <1>1, <1>3, <1>6, <1>8, <1>9, <1>13, <1>14, <1>15

\* The cancel and the leave wait no more, and what is awaited is.
LEMMA WaitCallback ==
    ASSUME TInv, TInv', LeaveInv, LoopInv, LoopWindows, WaitInv, OtherCallback
    PROVE  WaitInv'
<1>1. /\ pb'.state \notin {"BUSY", "WAIT_CANCEL"} /\ cancel_invocation' = None /\ leave' = {}
      /\ ~ Is("watcher", {"callback"})' /\ (state \in Looping => Awaited')
  BY CallbackDone
<1>2. state' = state
  BY DEF OtherCallback
<1>3. Free'
  BY <1>1 DEF Free, Live, Is
<1>4. CancelWaits' /\ LeaveWaits'
  BY <1>1 DEF CancelWaits, LeaveWaits
<1>5. Needed'
  BY <1>1, <1>2 DEF Needed
<1> QED BY <1>3, <1>4, <1>5 DEF WaitInv

\* Something that is not run
LEMMA WaitNotRunnable ==
    ASSUME TInv, LeaveInv, LoopInv, LoopWindows, WaitInv, NEW t \in Threads, NotRunnable(t)
    PROVE  WaitInv'
<1>1. At(t, "exec") /\ Then(t, <<>>)
      /\ UNCHANGED <<state, current_transaction, cancel_invocation, leave, invocations, pb>>
  BY DEF NotRunnable, Return, engine, flags
<1> QED BY <1>1, WaitPaused

\* A cancel ahead stays ahead while another thread takes an event.
LEMMA CancelStays ==
    ASSUME NEW t \in Threads, Is(t, {"event"}), \A u \in Threads \ {t} : todo'[u] = todo[u], AtCancel
    PROVE  AtCancel'
<1>1. PICK u \in Threads : Is(u, {"cancel"})
  BY DEF AtCancel
<1>2. u # t
  BY <1>1 DEF Is
<1>3. Is(u, {"cancel"})'
  BY <1>1, <1>2 DEF Is
<1> QED BY <1>3 DEF AtCancel

\* An event that the state does not take
LEMMA WaitIgnores ==
    ASSUME TInv, LeaveInv, LoopInv, LoopWindows, WaitInv, NEW t \in Threads, At(t, "event"), Return(t),
           Target(state, Head(todo[t]).type, Head(todo[t]).ctx.channels = {}) = "NONE",
           UNCHANGED <<engine, flags, leave, pb>>
    PROVE  WaitInv'
<1> DEFINE ev == Head(todo[t])
<1>1. UNCHANGED <<state, current_transaction, cancel_invocation, leave, invocations, pb>>
  BY DEF engine, flags
<1>2. Then(t, <<>>)
  BY DEF Return
<1>3. PICK steps : Goes(t, "event", steps) /\ steps = <<>>
  BY <1>2, GoesBack
<1>4. todo[t] # <<>> /\ ev.op = "event" /\ \A u \in Threads \ {t} : todo'[u] = todo[u]
  BY <1>3, GoesFacts
<1>5. state \in States
  BY DEF TInv
<1>6. ~ Ending(t)
  BY <1>4 DEF Ending, Target
<1>7. ASSUME t = "app", Refreshing, Live PROVE CancelAhead'
  <2>1. ev.type \in Fresh \cup {"UNSUBSCRIBE_ALL"}
    BY <1>4, <1>7 DEF Refreshing, Refreshes
  <2>2. ev.type \notin Fresh
    BY <1>5 DEF Target, Fresh, States, Looping, Stopped, Failed
  <2>3. state = "UNSUBSCRIBED"
    BY <2>1, <2>2 DEF Target, Fresh
  <2>4. ~ ForState(pb.trans, state)
    BY <2>3 DEF ForState
  <2>5. (\E j \in DOMAIN invocations : CancelAt(invocations, j)) \/ AtCancel
    BY <1>7, <2>4 DEF LoopInv, RequestsInv, Answered
  <2>6. AtCancel => AtCancel'
    BY <1>4, CancelStays DEF Is
  <2>7. \A j \in DOMAIN invocations : CancelAt(invocations, j) => CancelAt(invocations', j)
    BY <1>1
  <2> QED BY <1>1, <2>5, <2>6, <2>7 DEF CancelAhead
<1>8. pb'.state = pb.state /\ pb'.trans = pb.trans
  BY <1>1
<1> HIDE DEF ev
<1> QED BY <1>1, <1>2, <1>6, <1>7, <1>8, WaitsBack

\* The effects of a transition end with the request of the new state, and begin
\* with EMIT_MESSAGE when it is the answer to a receive request.
LEMMA LastEffect ==
    ASSUME NEW s, NEW type \in EventTypes, NEW empty, NEW target,
           target = Target(s, type, empty), target # "NONE",
           NEW e, e = Effects(s, type, target)
    PROVE  /\ target \in Looping =>
                 \E k \in DOMAIN e : ForState(e[k], target) /\ \A i \in DOMAIN e : i <= k
           /\ type = "RECEIVE_SUCCESS" =>
                 /\ s = "RECEIVING" /\ target = "RECEIVING"
                 /\ 1 \in DOMAIN e /\ e[1] = "EMIT_MESSAGE"
<1> DEFINE a == IF Announced(s, type, target) # "NONE" THEN <<"EMIT_STATUS">>
                ELSE IF type = "RECEIVE_SUCCESS" THEN <<"EMIT_MESSAGE">> ELSE <<>>
           b == IF s \in Looping THEN <<"CANCEL">> ELSE <<>>
           c == CASE target = "HANDSHAKING" -> <<"HANDSHAKE">>
                  [] target = "RECEIVING" -> <<"RECEIVE">>
                  [] OTHER -> <<>>
           d == b \o c
           ab == a \o b
<1>1. a \in Seq(Types) /\ b \in Seq(Types) /\ c \in Seq(Types)
  <2>1. "EMIT_STATUS" \in Types /\ "EMIT_MESSAGE" \in Types /\ "CANCEL" \in Types
        /\ "HANDSHAKE" \in Types /\ "RECEIVE" \in Types
    BY DEF Types, Requests
  <2> DEFINE Brief(z) == z = <<>> \/ \E x \in Types : z = <<x>>
  <2>2. \A z : Brief(z) => z \in Seq(Types)
    BY AtMostOne
  <2>3. Brief(a)
    BY <2>1
  <2>4. Brief(b)
    BY <2>1
  <2>5. Brief(c)
    BY <2>1
  <2> HIDE DEF Short, a, b, c
  <2> QED BY <2>2, <2>3, <2>4, <2>5
<1>2. e = (a \o b) \o c
  BY DEF Effects
<1>3. ASSUME target \in Looping
      PROVE  \E k \in DOMAIN e : ForState(e[k], target) /\ \A i \in DOMAIN e : i <= k
  <2>1. PICK x \in Requests : c = <<x>> /\ ForState(x, target)
    BY <1>3 DEF Requests, ForState, Looping
  <2>2. ab \in Seq(Types) /\ Len(c) = 1 /\ c[1] = x /\ 1 \in DOMAIN c /\ DOMAIN c = {1}
    BY <1>1, <2>1
  <2> DEFINE k == Len(ab) + 1
  <2>3. e = ab \o c
    BY <1>2
  <2> HIDE DEF a, b, c, ab
  <2>4. /\ Len(ab) \in Nat
        /\ Len(ab) + 1 \in DOMAIN e /\ e[Len(ab) + 1] = c[1]
        /\ \A i \in DOMAIN e : i \in DOMAIN ab \/ \E l \in DOMAIN c : i = Len(ab) + l
        /\ \A i \in DOMAIN ab : i \in 1 .. Len(ab)
    BY <1>1, <2>2, <2>3, Joined
  <2>5. \A i \in DOMAIN e : i <= k
    BY <2>2, <2>4
  <2> QED BY <2>1, <2>2, <2>4, <2>5
<1>4. ASSUME type = "RECEIVE_SUCCESS"
      PROVE  s = "RECEIVING" /\ target = "RECEIVING" /\ 1 \in DOMAIN e /\ e[1] = "EMIT_MESSAGE"
  <2>1. s = "RECEIVING" /\ target = "RECEIVING"
    BY <1>4 DEF Target, Stopped, Failed
  <2>2. Announced(s, type, target) = "NONE"
    BY <1>4, <2>1 DEF Announced
  <2>3. a = <<"EMIT_MESSAGE">>
    BY <1>4, <2>2
  <2>4. 1 \in DOMAIN a /\ a[1] = "EMIT_MESSAGE"
    BY <2>3
  <2> HIDE DEF a, b, c
  <2>5. 1 \in DOMAIN ab /\ ab[1] = a[1] /\ ab \in Seq(Types)
    BY <1>1, <2>4, Joined
  <2> HIDE DEF ab
  <2>6. e = ab \o c
    BY <1>2 DEF ab
  <2>7. 1 \in DOMAIN e /\ e[1] = ab[1]
    BY <1>1, <2>5, <2>6, Joined
  <2> QED BY <2>1, <2>4, <2>5, <2>7
<1> QED BY <1>3, <1>4

\* When the state takes an event a live request gets a cancel, if it has none.
LEMMA TakenCancels ==
    ASSUME TInv, TInv', LeaveInv, LoopInv, LoopWindows, NEW t \in Threads, NEW ev, NEW target,
           NEW e, NEW q, NEW f, NEW new, NEW steps, Taken(t, ev, target, e, q, f, new, steps)
    PROVE  Live => CancelAhead'
<1> DEFINE n == Len(q)
           c == invocations'
<1>1. /\ \A i \in DOMAIN q : i \in DOMAIN c /\ c[i] = q[i]
      /\ \A k \in DOMAIN new : n + k \in DOMAIN c /\ c[n + k] = new[k]
      /\ state \in Looping => \E j \in DOMAIN e : e[j] = "CANCEL"
  <2> HIDE DEF n
  <2>1. n = Len(q)
    BY DEF n
  <2> QED BY <2>1, TakenPlaces
<1>2. /\ DOMAIN new = DOMAIN e
      /\ \A k \in DOMAIN new : new[k].status = "CREATED" /\ new[k].id[1] = e[k]
  BY DEF Taken, Adds
<1>3. q \in Seq(Invocations) /\ invocations \in Seq(Invocations) /\ Selects(f, q, invocations)
  BY DEF Taken, LeftOf, TInv
<1>4. Is(t, {"event"}) /\ \A u \in Threads \ {t} : todo'[u] = todo[u]
  BY TakenCalls
<1> SUFFICES ASSUME Live, ~ AtCancel PROVE \E j \in DOMAIN c : CancelAt(c, j)
  BY <1>4, CancelStays DEF CancelAhead
<1>5. CASE state \in Looping
  <2>1. PICK j \in DOMAIN e : e[j] = "CANCEL"
    BY <1>1, <1>5
  <2>2. n + j \in DOMAIN c /\ c[n + j] = new[j] /\ j \in DOMAIN new
    BY <1>1, <1>2, <2>1
  <2> HIDE DEF n, c
  <2> QED BY <1>2, <2>1, <2>2 DEF CancelAt
<1>6. CASE state \notin Looping
  <2>1. ~ ForState(pb.trans, state)
    BY <1>6 DEF ForState, Looping
  <2>2. \E j \in DOMAIN invocations : CancelAt(invocations, j)
    BY <2>1 DEF LoopInv, RequestsInv, Answered
  <2>3. PICK j \in DOMAIN q : CancelAt(q, j)
    BY <1>3, <2>2, OrderKept
  <2>4. j \in DOMAIN c /\ c[j] = q[j]
    BY <1>1
  <2> HIDE DEF c
  <2> QED BY <2>3, <2>4 DEF CancelAt
<1> QED BY <1>5, <1>6

\* An event that the state takes: a live request gets a cancel, and the new state's
\* own request goes last into the queue.
LEMMA WaitTakes ==
    ASSUME TInv, TInv', LeaveInv, LoopInv, LoopWindows, WaitInv, NEW t \in Threads, NEW ev, NEW target,
           NEW e, NEW q, NEW f, NEW new, NEW steps, Taken(t, ev, target, e, q, f, new, steps),
           UNCHANGED leave
    PROVE  WaitInv'
<1> DEFINE n == Len(q)
           c == invocations'
<1>1. /\ n \in Nat /\ DOMAIN q = 1..n
      /\ \A i \in DOMAIN q : i \in DOMAIN c /\ c[i] = q[i]
      /\ \A k \in DOMAIN new : n + k \in DOMAIN c /\ c[n + k] = new[k]
      /\ \A k \in DOMAIN new : k \in Nat /\ k >= 1
      /\ \A i \in DOMAIN c : i \in DOMAIN q \/ \E k \in DOMAIN new : i = n + k
      /\ state \in Looping => \E j \in DOMAIN e :
            e[j] = "CANCEL" /\ \A i \in DOMAIN e : e[i] \in Requests => j < i
  <2> HIDE DEF n
  <2>1. n = Len(q)
    BY DEF n
  <2> QED BY <2>1, TakenPlaces
<1>2. /\ DOMAIN new = DOMAIN e
      /\ \A k \in DOMAIN new : new[k].status = "CREATED" /\ new[k].id[1] = e[k]
  BY DEF Taken, Adds
<1>3. /\ q \in Seq(Invocations) /\ invocations \in Seq(Invocations) /\ Selects(f, q, invocations)
      /\ state' = target /\ target # "NONE"
      /\ UNCHANGED <<current_transaction, cancel_invocation, pb>>
  BY DEF Taken, LeftOf, TInv, flags
<1>4. Goes(t, "event", steps)
  BY DEF Taken, Goes
<1>5. /\ todo[t] # <<>> /\ Head(todo[t]).op = "event" /\ Head(todo[t]) \in Steps
      /\ \A u \in Threads \ {t} : todo'[u] = todo[u]
      /\ \A u \in Threads \ {t} : todo[u] # <<>> => Head(todo[u]).op \in {"heartbeat", "leave", "exec"}
      /\ steps # <<>> => todo'[t] # <<>> /\ Head(todo'[t]) = Head(steps)
      /\ steps = <<>> /\ todo'[t] # <<>> => Head(todo'[t]).op = "error"
  BY <1>4, GoesFacts
<1>6. steps # <<>> => Head(steps).op = "exec"
  BY DEF Taken
<1>7. todo'[t] # <<>> => Head(todo'[t]).op \in {"exec", "error"}
  BY <1>5, <1>6
<1>8. \A u \in Threads : ~ Is(u, {"done"})' /\ ~ Is(u, {"callback"}) /\ ~ Is(u, {"callback"})'
  <2> SUFFICES ASSUME NEW u \in Threads
               PROVE ~ Is(u, {"done"})' /\ ~ Is(u, {"callback"}) /\ ~ Is(u, {"callback"})'
    OBVIOUS
  <2>1. CASE u = t
    BY <1>5, <1>7, <2>1 DEF Is
  <2>2. CASE u # t
    BY <1>5, <2>2 DEF Is
  <2> QED BY <2>1, <2>2
<1>9. Live' = Live
  BY <1>3 DEF Live
<1>10. Free'
  BY <1>3, <1>8, <1>9 DEF WaitInv, Free, Threads
<1>11. CancelWaits'
  BY <1>3, <1>8 DEF WaitInv, CancelWaits, Threads
<1>12. Live => CancelAhead'
  BY TakenCancels
<1>13. LeaveWaits'
  BY <1>3, <1>8, <1>9, <1>12 DEF WaitInv, LeaveWaits, Threads
<1>14. ASSUME target \in Looping PROVE Awaited'
  <2>1. ev \in Steps /\ ev.op = "event" /\ ev.type \in EventTypes
    BY StepFacts DEF Taken
  <2>2. target = Target(state, ev.type, ev.ctx.channels = {}) /\ e = Effects(state, ev.type, target)
    BY DEF Taken
  <2>3. \E k \in DOMAIN e : ForState(e[k], target) /\ \A i \in DOMAIN e : i <= k
    BY <1>3, <1>14, <2>1, <2>2, LastEffect
  <2>4. PICK k \in DOMAIN e : ForState(e[k], target) /\ \A i \in DOMAIN e : i <= k
    BY <2>3
  <2>5. n + k \in DOMAIN c /\ c[n + k] = new[k] /\ k \in DOMAIN new
    BY <1>1, <1>2
  <2>6. \A j \in DOMAIN c : ~ (j > n + k)
    <3> SUFFICES ASSUME NEW j \in DOMAIN c PROVE ~ (j > n + k)
      OBVIOUS
    <3>1. k \in Nat /\ k >= 1
      BY <1>1, <2>5
    <3>2. CASE j \in DOMAIN q
      <4>1. j \in 1 .. n
        BY <1>1, <3>2
      <4> HIDE DEF n
      <4> QED BY <1>1, <3>1, <4>1
    <3>3. CASE \E l \in DOMAIN new : j = n + l
      <4>1. PICK l \in DOMAIN new : j = n + l
        BY <3>3
      <4>2. l <= k /\ l \in Nat
        BY <1>1, <1>2, <2>4
      <4> HIDE DEF n
      <4> QED BY <1>1, <3>1, <4>1, <4>2
    <3> QED BY <1>1, <3>2, <3>3
  <2>7. ForState(c[n + k].id[1], target)
    BY <1>2, <2>4, <2>5
  <2> DEFINE m == n + k
  <2>8. m \in DOMAIN invocations' /\ ForState(invocations'[m].id[1], state')
        /\ \A j \in DOMAIN invocations' : ~ (j > m)
    BY <1>3, <2>5, <2>6, <2>7
  <2> HIDE DEF n, c, m
  <2>9. AwaitedAt(m)'
    BY <1>8, <2>8 DEF AwaitedAt
  <2> QED BY <2>8, <2>9 DEF Awaited
<1>15. Needed'
  BY <1>3, <1>14 DEF Needed
<1> QED BY <1>10, <1>11, <1>13, <1>15 DEF WaitInv

\* pbcc_ee_handle_event
LEMMA WaitHandleEvent ==
    ASSUME TInv, TInv', LeaveInv, LoopInv, LoopWindows, WaitInv, NEW t \in Threads, HandleEvent(t)
    PROVE  WaitInv'
<1>1. UNCHANGED <<flags, leave, pb>>
  BY DEF HandleEvent
<1>2. CASE /\ At(t, "event") /\ Return(t)
           /\ Target(state, Head(todo[t]).type, Head(todo[t]).ctx.channels = {}) = "NONE"
           /\ UNCHANGED <<engine, flags, calls, pb>>
  BY <1>1, <1>2, WaitIgnores
<1>3. ASSUME NEW ev, NEW target, NEW e, NEW q, NEW f, NEW new, NEW steps,
             Taken(t, ev, target, e, q, f, new, steps)
      PROVE  WaitInv'
  BY <1>1, <1>3, WaitTakes
<1> QED BY <1>2, <1>3, HandleEventTakes

\* Nothing that the invariant is about changes.
LEMMA WaitStands ==
    ASSUME WaitInv, UNCHANGED <<state, invocations, flags, leave, pb, todo>>
    PROVE  WaitInv'
<1>1. UNCHANGED <<current_transaction, cancel_invocation>>
  BY DEF flags
<1>2. /\ \A t, ops : Is(t, ops)' <=> Is(t, ops)
      /\ Live' = Live
  BY DEF Is, Live
<1>3. CancelAhead' <=> CancelAhead
  BY <1>2 DEF CancelAhead, AtCancel, CancelAt
<1>4. Refreshing' <=> Refreshing
  BY DEF Refreshing, Refreshes
<1>5. Awaited => Awaited'
  BY <1>2 DEF Awaited, AwaitedAt, CancelAt
<1>6. \A t \in Threads : (Ending(t) => Ending(t)') /\ (Failing(t) => Failing(t)')
  BY DEF Ending, Failing
<1>7. Free'
  BY <1>1, <1>2 DEF WaitInv, Free
<1>8. CancelWaits'
  BY <1>1, <1>2 DEF WaitInv, CancelWaits
<1>9. LeaveWaits'
  BY <1>1, <1>2, <1>3, <1>4 DEF WaitInv, LeaveWaits
<1>10. Needed'
  BY <1>2, <1>3, <1>5, <1>6 DEF WaitInv, Needed
<1> QED BY <1>7, <1>8, <1>9, <1>10 DEF WaitInv

\* The application enters the engine, with nothing yet done.
LEMMA WaitCalled ==
    ASSUME TInv, LeaveInv, LoopInv, LoopWindows, WaitInv, NEW call, NEW steps \in Seq(Steps),
           Enter(call, steps), steps # <<>>, Head(steps).op \in {"leave", "changed", "event"},
           UNCHANGED <<engine, flags, leave, pb>>
    PROVE  WaitInv'
<1>1. /\ UNCHANGED <<state, invocations, current_transaction, cancel_invocation, leave, pb>>
      /\ Live' = Live
  BY DEF engine, flags, Live
<1>2. /\ todo["app"] = <<>> /\ todo'["app"] = steps /\ todo'["watcher"] = todo["watcher"]
      /\ todo \in [Threads -> Seq(Steps)] /\ Threads = {"app", "watcher"}
  BY DEF Enter, TInv, Threads
<1>3. /\ Is("watcher", {"callback"})' <=> Is("watcher", {"callback"})
      /\ \A u \in Threads : Is(u, {"done"})' => Is(u, {"done"}) /\ todo'[u] = todo[u]
      /\ \A u \in Threads : Is(u, {"cancel"})' <=> Is(u, {"cancel"})
  BY <1>2 DEF Is
<1>4. CancelAhead' <=> CancelAhead
  <2>1. (\E j \in DOMAIN invocations' : CancelAt(invocations', j))
           <=> \E j \in DOMAIN invocations : CancelAt(invocations, j)
    BY <1>1
  <2> QED BY <1>3, <2>1 DEF CancelAhead, AtCancel
<1>5. ~ Refreshing
  BY <1>2 DEF Refreshing
<1>6. Awaited => Awaited'
  <2> SUFFICES ASSUME NEW i \in DOMAIN invocations, AwaitedAt(i) PROVE AwaitedAt(i)'
    BY <1>1 DEF Awaited
  <2> QED BY <1>1, <1>3 DEF AwaitedAt, CancelAt
<1>7. \A u \in Threads : (Ending(u) => Ending(u)') /\ (Failing(u) => Failing(u)')
  <2>1. \A u \in Threads : Ending(u) \/ Failing(u) => u = "watcher"
    <3>1. DOMAIN todo["app"] = {}
      BY <1>2
    <3> QED BY <1>2, <3>1 DEF Ending, Failing
  <2>2. Ending("watcher") => Ending("watcher")'
    BY <1>1, <1>2 DEF Ending
  <2>3. Failing("watcher") => Failing("watcher")'
    BY <1>2 DEF Failing
  <2> QED BY <2>1, <2>2, <2>3
<1>8. Free'
  BY <1>1, <1>2, <1>3 DEF WaitInv, Free
<1>9. CancelWaits'
  BY <1>1, <1>3 DEF WaitInv, CancelWaits
<1>10. LeaveWaits'
  BY <1>1, <1>3, <1>4, <1>5 DEF WaitInv, LeaveWaits
<1>11. Needed'
  BY <1>1, <1>4, <1>6, <1>7 DEF WaitInv, Needed
<1> QED BY <1>8, <1>9, <1>10, <1>11 DEF WaitInv

\* What a call of the application begins with
LEMMA CallEnters ==
    ASSUME TInv, Call
    PROVE  \E call : \E steps \in Seq(Steps) :
              /\ Enter(call, steps) /\ steps # <<>> /\ Head(steps).op \in {"leave", "changed", "event"}
              /\ Head(steps).op = "event" =>
                    \/ Head(steps).type = "DISCONNECT" /\ Head(steps).ctx.cursor = context.cursor
                    \/ Head(steps).type = "RECONNECT"
<1> DEFINE Begins1(s) == /\ s.op \in {"leave", "changed", "event"}
                         /\ s.op = "event" => \/ s.type = "DISCONNECT" /\ s.ctx.cursor = context.cursor
                                              \/ s.type = "RECONNECT"
<1>1. ASSUME NEW call, NEW s \in Steps, Enter(call, <<s>>), Begins1(s)
      PROVE  \E steps \in Seq(Steps) : Enter(call, steps) /\ steps # <<>> /\ Begins1(Head(steps))
  <2> DEFINE r == <<s>>
  <2>1. r \in Seq(Steps) /\ Enter(call, r) /\ r # <<>> /\ Head(r) = s
    BY <1>1, OneStep
  <2> HIDE DEF r
  <2> QED BY <1>1, <2>1
<1>2. ASSUME NEW call, NEW r \in Seq(Steps), Enter(call, r), Len(r) = 2, r[1].op = "leave"
      PROVE  \E steps \in Seq(Steps) : Enter(call, steps) /\ steps # <<>> /\ Begins1(Head(steps))
  <2>1. r # <<>> /\ Head(r) = r[1]
    BY <1>2
  <2> QED BY <1>2, <2>1
<1>3. /\ context.channels \in SUBSET Channels /\ context.cursor \in Tokens
      /\ subscribables \in SUBSET Channels /\ FALSE \in BOOLEAN /\ TRUE \in BOOLEAN
      /\ "DISCONNECT" \in EventTypes /\ "RECONNECT" \in EventTypes /\ "UNSUBSCRIBE_ALL" \in EventTypes
  BY DEF TInv, Contexts, EventTypes
<1>4. ASSUME NEW cursor \in Tokens, NEW heartbeat \in BOOLEAN
      PROVE  [op |-> "changed", cursor |-> cursor, heartbeat |-> heartbeat] \in Steps
  BY DEF Steps, ChangedSteps
<1>5. ASSUME NEW channels \in SUBSET Channels
      PROVE  [op |-> "leave", channels |-> channels] \in Steps
  BY DEF Steps, LeaveSteps
<1> SUFFICES \E call : \E steps \in Seq(Steps) :
                Enter(call, steps) /\ steps # <<>> /\ Begins1(Head(steps))
  OBVIOUS
<1>6. CASE \E s \in Subscriptions : \E c \in Cursors : Subscribe(s, c)
  <2>1. PICK s \in Subscriptions, c \in Cursors : Subscribe(s, c)
    BY <1>6
  <2> DEFINE a == [op |-> "changed", cursor |-> c, heartbeat |-> TRUE]
  <2>2. a \in Steps /\ a.op = "changed"
    BY <1>3, <1>4, TokenFacts
  <2>3. Enter("subscribe", <<a>>)
    BY <2>1 DEF Subscribe
  <2> HIDE DEF a
  <2>4. Begins1(a)
    BY <2>2
  <2> HIDE DEF Begins1
  <2> QED BY <1>1, <2>2, <2>3, <2>4
<1>7. CASE \E s \in Subscriptions : Unsubscribe(s)
  <2>1. PICK s \in Subscriptions : Unsubscribe(s)
    BY <1>7
  <2> DEFINE remaining == SubscribablesOf(subscriptions \ {s})
             gone == ChannelsOf[s] \ remaining
             d == [op |-> "leave", channels |-> gone]
             e == [op |-> "changed", cursor |-> 0, heartbeat |-> FALSE]
  <2>2. gone \in SUBSET Channels
    BY ChannelsAssumption
  <2>3. \/ Enter("unsubscribe", <<>> \o <<e>>)
        \/ Enter("unsubscribe", <<d>> \o <<e>>)
    BY <2>1 DEF Unsubscribe
  <2> HIDE DEF gone
  <2>4. e \in Steps /\ e.op = "changed"
    BY <1>3, <1>4, TokenFacts
  <2>5. d \in Steps /\ d.op = "leave"
    BY <1>5, <2>2
  <2> HIDE DEF d, e
  <2>6. CASE Enter("unsubscribe", <<>> \o <<e>>)
    <3>1. <<>> \o <<e>> = <<e>>
      BY <2>4
    <3>2. Begins1(e)
      BY <2>4
    <3>3. Enter("unsubscribe", <<e>>)
      BY <2>6, <3>1
    <3> HIDE DEF Begins1
    <3> QED BY <1>1, <2>4, <3>2, <3>3
  <2>7. CASE Enter("unsubscribe", <<d>> \o <<e>>)
    <3> DEFINE r == <<d>> \o <<e>>
    <3>1. r \in Seq(Steps) /\ Len(r) = 2 /\ r[1] = d
      BY <2>4, <2>5
    <3>2. Enter("unsubscribe", r)
      BY <2>7
    <3> HIDE DEF r, Begins1
    <3> QED BY <1>2, <2>5, <3>1, <3>2
  <2> HIDE DEF Begins1
  <2> QED BY <2>3, <2>6, <2>7
<1>8. CASE UnsubscribeAll
  <2> DEFINE d == [op |-> "leave", channels |-> subscribables]
             e == Event("UNSUBSCRIBE_ALL", subscribables, context.cursor, FALSE)
  <2>1. Enter("unsubscribe_all", <<d, e>>)
    BY <1>8 DEF UnsubscribeAll
  <2>2. d \in Steps /\ d.op = "leave"
    BY <1>3, <1>5
  <2>3. e \in Steps
    BY <1>3, EventStep
  <2> HIDE DEF d, e
  <2> DEFINE r == <<d, e>>
  <2>4. r \in Seq(Steps) /\ Len(r) = 2 /\ r[1] = d
    BY <2>2, <2>3
  <2> HIDE DEF r, Begins1
  <2> QED BY <1>2, <2>1, <2>2, <2>4 DEF r
<1>9. ASSUME NEW call, NEW type \in {"DISCONNECT", "RECONNECT"}, NEW cursor \in Tokens,
             Enter(call, <<Event(type, context.channels, cursor, FALSE)>>),
             type = "DISCONNECT" => cursor = context.cursor
      PROVE  \E steps \in Seq(Steps) : Enter(call, steps) /\ steps # <<>> /\ Begins1(Head(steps))
  <2> DEFINE e == Event(type, context.channels, cursor, FALSE)
  <2>1. e \in Steps
    BY <1>3, EventStep
  <2>2. e.op = "event" /\ e.type = type /\ e.ctx.cursor = cursor
    BY DEF Event
  <2>3. Enter(call, <<e>>)
    BY <1>9
  <2> HIDE DEF e
  <2>4. Begins1(e)
    BY <1>9, <2>2
  <2> HIDE DEF Begins1
  <2> QED BY <1>1, <2>1, <2>3, <2>4
<1>10. CASE Disconnect
  <2>1. Enter("disconnect", <<Event("DISCONNECT", context.channels, context.cursor, FALSE)>>)
    BY <1>10 DEF Disconnect, CopyEvent
  <2> HIDE DEF Begins1
  <2> QED BY <1>3, <1>9, <2>1
<1>11. CASE \E c \in Cursors : Reconnect(c)
  <2>1. PICK c \in Cursors : Reconnect(c)
    BY <1>11
  <2>2. Enter("reconnect", <<Event("RECONNECT", context.channels, c, FALSE)>>)
    BY <2>1 DEF Reconnect
  <2>3. c \in Tokens
    BY TokenFacts
  <2> HIDE DEF Begins1
  <2> QED BY <1>9, <2>2, <2>3
<1> HIDE DEF Begins1
<1> QED BY <1>6, <1>7, <1>8, <1>10, <1>11 DEF Call

\* The calls of the application
LEMMA WaitCall ==
    ASSUME TInv, LeaveInv, LoopInv, LoopWindows, WaitInv, Call
    PROVE  WaitInv'
<1>1. UNCHANGED <<engine, flags, leave, pb>>
  BY DEF Call, Subscribe, Unsubscribe, UnsubscribeAll, Disconnect, Reconnect
<1>2. PICK call : \E steps \in Seq(Steps) :
         Enter(call, steps) /\ steps # <<>> /\ Head(steps).op \in {"leave", "changed", "event"}
  BY CallEnters
<1> QED BY <1>1, <1>2, WaitCalled

\* At the start there is nothing to wait for.
LEMMA WaitInitial == Init => WaitInv
<1> SUFFICES ASSUME Init PROVE WaitInv
  OBVIOUS
<1>1. /\ current_transaction = "NONE" /\ cancel_invocation = None /\ leave = {}
      /\ state \notin Looping /\ pb.state = "IDLE"
  BY DEF Init, Looping
<1> QED BY <1>1 DEF WaitInv, Free, CancelWaits, LeaveWaits, Needed, Live

\* Every step keeps the loop going.
LEMMA WaitStep ==
    TInv /\ TInv' /\ LeaveInv /\ LoopInv /\ LoopWindows /\ WaitInv /\ [Next]_vars => WaitInv'
<1> SUFFICES ASSUME TInv, TInv', LeaveInv, LoopInv, LoopWindows, WaitInv, [Next]_vars PROVE WaitInv'
  OBVIOUS
<1>1. ASSUME NEW t \in Threads, ThreadStep(t) PROVE WaitInv'
  <2>1. CASE HandleEvent(t)
    BY <2>1, WaitHandleEvent
  <2>2. CASE Complete(t) \/ NotRunnable(t) \/ EmitStatus(t) \/ EmitMessages(t)
    BY <2>2, WaitComplete, WaitNotRunnable, WaitEmits
  <2>3. CASE CancelEffect(t) \/ Cancel(t) \/ CancelStarted(t)
    BY <2>3, WaitCancelEffect, WaitCancel, WaitCancelStarted
  <2>4. CASE MakeHeartbeat(t) \/ Heartbeat(t) \/ MakeSubscribeRequest(t) \/ SubscribeError(t)
    BY <2>4, WaitMakeHeartbeat, WaitHeartbeat, WaitMakeSubscribeRequest, WaitSubscribeError
  <2>5. CASE SubscriptionChanged(t) \/ Leave(t)
    BY <2>5, WaitSubscriptionChanged, WaitLeave
  <2> QED BY <1>1, <2>1, <2>2, <2>3, <2>4, <2>5 DEF ThreadStep
<1>2. CASE WatcherStep
  BY <1>2, WaitRequeued, WaitCallback, WaitReport DEF WatcherStep
<1>3. CASE Publish
  <2>1. UNCHANGED <<state, invocations, flags, leave, pb, todo>>
    BY <1>3 DEF Publish, engine
  <2> QED BY <2>1, WaitStands
<1>4. CASE UNCHANGED vars
  <2>1. UNCHANGED <<state, invocations, flags, leave, pb, todo>>
    BY <1>4 DEF vars, engine
  <2> QED BY <2>1, WaitStands
<1> QED BY <1>1, <1>2, <1>3, <1>4, WaitEnds, WaitCall DEF Next

-----------------------------------------------------------------------------
(* The cursor *)

Succeeds == {"HANDSHAKE_SUCCESS", "RECEIVE_SUCCESS"}
Moving == {"SUBSCRIPTION_RESTORED", "RECONNECT", "UNSUBSCRIBE_ALL"} \cup Succeeds

\* The messages up to c were given to the application, or are all of the rest in
\* the read buffer.
Covers(c) == c <= seen \/ (c <= pb.messages /\ pb.cursor <= seen)

\* What a thread is at when it deals with the answer to a request, or has a cursor:
\* an answer finds nothing queued.
Fitting(t, s) ==
    /\ s.op = "report" \/ (s.op = "event" /\ s.type \in Succeeds) =>
          t = "watcher" /\ current_transaction = "NONE" /\ invocations = <<>>
    /\ s.op = "event" =>
          /\ s.type \notin Moving => s.ctx.cursor = context.cursor
          /\ s.type \in {"SUBSCRIPTION_RESTORED"} \cup Succeeds => s.ctx.cursor # 0
          /\ s.type = "RECEIVE_SUCCESS" => Covers(s.ctx.cursor)
    /\ s.op = "report" /\ s.ok /\ state \in Looping =>
          pb.timetoken # 0 /\ (state = "RECEIVING" => Covers(pb.timetoken))
CallCursors == \A t \in Threads : todo[t] # <<>> => Fitting(t, Head(todo[t]))

\* A request in the queue is for the present cursor, or has a cancel behind it.
Onward(q, c) == \A i \in DOMAIN q : RequestAt(q, i) =>
    \/ q[i].ctx.cursor = c
    \/ \E j \in DOMAIN q : i < j /\ CancelAt(q, j)
LiveCursor == Live => pb.cursor = context.cursor \/ CancelAhead

\* The watcher is about to give the messages of the read buffer to the application.
Emitting ==
    /\ Is("watcher", {"exec"}) /\ FirstIs(Head(todo["watcher"]).id)
    /\ invocations[1].status = "CREATED" /\ invocations[1].id[1] = "EMIT_MESSAGE"
    /\ current_transaction = "NONE" /\ Covers(context.cursor)
Given == state = "RECEIVING" => context.cursor # 0 /\ (context.cursor <= seen \/ Emitting)

CursorInv == /\ now # 0 /\ CallCursors /\ Onward(invocations, context.cursor) /\ LiveCursor
             /\ Given

\* While the watcher is about to emit, nobody else moves.
LEMMA EmitsNext ==
    ASSUME TInv, LeaveInv, LoopInv, LoopWindows, CursorInv, NEW t \in Threads, NEW op, NEW steps,
           Goes(t, op, steps)
    PROVE  \/ state = "RECEIVING" => context.cursor # 0 /\ context.cursor <= seen
           \/ Emitting /\ t = "watcher" /\ op = "exec"
<1> SUFFICES ASSUME Emitting PROVE t = "watcher" /\ op = "exec"
  BY DEF CursorInv, Given
<1>1. /\ todo[t] # <<>> /\ Head(todo[t]).op = op
      /\ \A u \in Threads \ {t} : todo[u] # <<>> => current_transaction = "HEARTBEAT"
  BY GoesFacts
<1> QED BY <1>1 DEF Emitting, Is, Threads

\* A step that leaves the state and its cursor alone
LEMMA CursorsKept ==
    ASSUME TInv, LeaveInv, LoopInv, LoopWindows, CursorInv, NEW t \in Threads, NEW op, NEW steps,
           Goes(t, op, steps), UNCHANGED <<state, context, now>>,
           state = "RECEIVING" => context.cursor # 0 /\ context.cursor <= seen',
           steps # <<>> => Fitting(t, Head(steps))',
           Onward(invocations', context.cursor), LiveCursor'
    PROVE  CursorInv'
<1>1. /\ todo[t] # <<>> /\ Head(todo[t]).op = op
      /\ \A u \in Threads \ {t} : todo'[u] = todo[u]
      /\ \A u \in Threads \ {t} : todo[u] # <<>> => Head(todo[u]).op \in {"heartbeat", "leave", "exec"}
      /\ steps # <<>> => todo'[t] # <<>> /\ Head(todo'[t]) = Head(steps)
      /\ steps = <<>> /\ todo'[t] # <<>> => Head(todo'[t]).op = "error" \/ Follows(Head(todo'[t]))
  BY GoesFacts
<1>2. CallCursors'
  <2> SUFFICES ASSUME NEW u \in Threads, todo'[u] # <<>> PROVE Fitting(u, Head(todo[u]))'
    BY DEF CallCursors
  <2>1. CASE u # t
    <3>1. Head(todo'[u]).op \in {"heartbeat", "leave", "exec"}
      BY <1>1, <2>1
    <3> QED BY <3>1 DEF Fitting
  <2>2. CASE u = t /\ steps # <<>>
    <3>1. Fitting(t, Head(steps))' /\ Head(todo'[u]) = Head(steps)
      BY <1>1, <2>2
    <3> QED BY <2>2, <3>1 DEF Fitting, Covers
  <2>3. CASE u = t /\ steps = <<>>
    <3>1. Head(todo'[u]).op = "error" \/ Follows(Head(todo'[u]))
      BY <1>1, <2>3
    <3> QED BY <3>1 DEF Fitting, Follows, Moving, Succeeds
  <2> QED BY <2>1, <2>2, <2>3
<1>3. Given'
  BY DEF Given
<1> QED BY <1>2, <1>3 DEF CursorInv

\* The live request goes on.
LEMMA LiveGoesOn ==
    ASSUME CursorInv, UNCHANGED context,
           Live' => Live /\ pb'.cursor = pb.cursor /\ (CancelAhead => CancelAhead')
    PROVE  LiveCursor'
BY DEF CursorInv, LiveCursor

\* What is left of a queue keeps its cursors ...
LEMMA OnwardLeft ==
    ASSUME NEW q, NEW r, NEW f, Selects(f, r, q), NEW c, Onward(q, c)
    PROVE  Onward(r, c)
<1>1. /\ f \in [DOMAIN r -> DOMAIN q]
      /\ \A i, j \in DOMAIN r : i < j <=> f[i] < f[j]
      /\ \A i \in DOMAIN r : r[i].id = q[f[i]].id /\ r[i].ctx = q[f[i]].ctx
      /\ \A j \in DOMAIN q : CancelAt(q, j) => \E i \in DOMAIN r : f[i] = j /\ CancelAt(r, i)
  BY DEF Selects
<1> SUFFICES ASSUME NEW i \in DOMAIN r, RequestAt(r, i)
             PROVE  r[i].ctx.cursor = c \/ \E j \in DOMAIN r : i < j /\ CancelAt(r, j)
  BY DEF Onward
<1>2. f[i] \in DOMAIN q /\ RequestAt(q, f[i]) /\ r[i].ctx = q[f[i]].ctx
  BY <1>1 DEF RequestAt
<1>3. CASE \E j \in DOMAIN q : f[i] < j /\ CancelAt(q, j)
  <2>1. PICK j \in DOMAIN q : f[i] < j /\ CancelAt(q, j)
    BY <1>3
  <2>2. PICK k \in DOMAIN r : f[k] = j /\ CancelAt(r, k)
    BY <1>1, <2>1
  <2> QED BY <1>1, <2>1, <2>2
<1> QED BY <1>2, <1>3 DEF Onward

\* ... and so does a queue whose first invocation is marked.
LEMMA OnwardMarked ==
    ASSUME TInv, NEW c, Onward(invocations, c), DOMAIN invocations' = DOMAIN invocations,
           \A i \in DOMAIN invocations :
              /\ invocations'[i].id = invocations[i].id /\ invocations'[i].ctx = invocations[i].ctx
              /\ i # 1 => invocations'[i].status = invocations[i].status
    PROVE  Onward(invocations', c)
<1> SUFFICES ASSUME NEW i \in DOMAIN invocations, RequestAt(invocations', i)
             PROVE  \/ invocations'[i].ctx.cursor = c
                    \/ \E j \in DOMAIN invocations' : i < j /\ CancelAt(invocations', j)
  BY DEF Onward
<1>1. RequestAt(invocations, i) /\ invocations'[i].ctx = invocations[i].ctx
  BY DEF RequestAt
<1>2. CASE \E j \in DOMAIN invocations : i < j /\ CancelAt(invocations, j)
  <2>1. PICK j \in DOMAIN invocations : i < j /\ CancelAt(invocations, j)
    BY <1>2
  <2>2. j # 1
    BY <2>1 DEF TInv
  <2> QED BY <2>1, <2>2 DEF CancelAt
<1> QED BY <1>1, <1>2 DEF Onward

\* A cancel that is ahead stays ahead, unless it is the one that is run.
LEMMA AheadKept ==
    ASSUME TInv, LeaveInv, LoopInv, LoopWindows, NEW t \in Threads, NEW op, NEW steps,
           Goes(t, op, steps), op # "cancel",
           (\E j \in DOMAIN invocations : CancelAt(invocations, j))
              => \/ \E j \in DOMAIN invocations' : CancelAt(invocations', j)
                 \/ steps # <<>> /\ Head(steps).op = "cancel"
    PROVE  CancelAhead => CancelAhead'
<1>1. /\ todo[t] # <<>> /\ Head(todo[t]).op = op
      /\ \A u \in Threads \ {t} : todo[u] # <<>> => Head(todo[u]).op \in {"heartbeat", "leave", "exec"}
      /\ steps # <<>> => todo'[t] # <<>> /\ Head(todo'[t]) = Head(steps)
  BY GoesFacts
<1>2. ~ AtCancel
  BY <1>1 DEF AtCancel, Is
<1>3. steps # <<>> /\ Head(steps).op = "cancel" => AtCancel'
  BY <1>1 DEF AtCancel, Is
<1> QED BY <1>2, <1>3 DEF CancelAhead

\* A mark leaves the contexts of the invocations.
LEMMA MarkContext ==
    ASSUME invocations \in Seq(Invocations), NEW id, NEW s
    PROVE  \A j \in DOMAIN invocations : Mark(id, s)[j].ctx = invocations[j].ctx
<1> DEFINE k == Index(id)
<1> SUFFICES ASSUME NEW j \in DOMAIN invocations
             PROVE  [invocations EXCEPT ![k].status = s][j].ctx = invocations[j].ctx
  BY DEF Mark
<1>1. invocations[j] \in Invocations
  OBVIOUS
<1> HIDE DEF k
<1>2. CASE j = k
  BY <1>1, <1>2 DEF Invocations
<1>3. CASE j # k
  BY <1>3
<1> QED BY <1>2, <1>3

\* A call that returns, and leaves the engine as it is
LEMMA CursorsBack ==
    ASSUME TInv, LeaveInv, LoopInv, LoopWindows, CursorInv, NEW t \in Threads, NEW op, At(t, op),
           Then(t, <<>>), op # "cancel", ~ (Emitting /\ t = "watcher" /\ op = "exec"),
           UNCHANGED <<state, context, now, seen, invocations>>,
           pb'.state = pb.state, pb'.trans = pb.trans, pb'.cursor = pb.cursor
    PROVE  CursorInv'
<1>1. PICK steps : Goes(t, op, steps) /\ steps = <<>>
  BY GoesBack
<1>2. state = "RECEIVING" => context.cursor # 0 /\ context.cursor <= seen'
  BY <1>1, EmitsNext
<1>3. CancelAhead => CancelAhead'
  <2>1. \A j \in DOMAIN invocations : CancelAt(invocations, j) => CancelAt(invocations', j)
    OBVIOUS
  <2> QED BY <1>1, <2>1, AheadKept
<1>4. Live' => Live
  BY DEF Live
<1>5. LiveCursor'
  BY <1>3, <1>4, LiveGoesOn
<1>6. Onward(invocations', context.cursor)
  BY DEF CursorInv
<1> QED BY <1>1, <1>2, <1>5, <1>6, CursorsKept

\* The invocation that the watcher emits messages for is the first, and may be run.
LEMMA EmittingFirst ==
    ASSUME TInv, LoopInv, Emitting, NEW id, id = Head(todo["watcher"]).id
    PROVE  Queued(id) /\ Invocation(id).status = "CREATED" /\ id[1] = "EMIT_MESSAGE"
<1>1. FirstIs(id) /\ invocations[1].status = "CREATED" /\ invocations[1].id[1] = "EMIT_MESSAGE"
  BY DEF Emitting
<1>2. Queued(id) /\ Invocation(id) = invocations[1]
  BY <1>1, FirstIndex DEF LoopInv, QueueInv, TInv
<1> QED BY <1>1, <1>2 DEF FirstIs

\* What is running or gone, and a paused effect
LEMMA CursorsPaused ==
    ASSUME TInv, LeaveInv, LoopInv, LoopWindows, CursorInv, NEW t \in Threads, At(t, "exec"),
           Then(t, <<>>),
           \/ ~ (Queued(Head(todo[t]).id) /\ Invocation(Head(todo[t]).id).status = "CREATED")
           \/ Head(todo[t]).id[1] # "EMIT_MESSAGE",
           UNCHANGED <<state, context, now, seen, invocations, pb>>
    PROVE  CursorInv'
<1>1. ~ (Emitting /\ t = "watcher")
  BY EmittingFirst
<1>2. pb'.state = pb.state /\ pb'.trans = pb.trans /\ pb'.cursor = pb.cursor
  OBVIOUS
<1> QED BY <1>1, <1>2, CursorsBack

\* pbcc_ee_invocation_exec_ of what is running or gone
LEMMA CursorNotRunnable ==
    ASSUME TInv, LeaveInv, LoopInv, LoopWindows, CursorInv, NEW t \in Threads, NotRunnable(t)
    PROVE  CursorInv'
<1>1. /\ At(t, "exec") /\ Then(t, <<>>)
      /\ ~ (Queued(Head(todo[t]).id) /\ Invocation(Head(todo[t]).id).status = "CREATED")
      /\ UNCHANGED <<state, context, now, seen, invocations, pb>>
  BY DEF NotRunnable, Return, engine, delivery
<1> QED BY <1>1, CursorsPaused

\* The first invocation runs: a message effect gives out what the cursor has gone past.
LEMMA CursorEmits ==
    ASSUME TInv, TInv', LeaveInv, LoopInv, LoopWindows, CursorInv, NEW t \in Threads,
           EmitStatus(t) \/ EmitMessages(t)
    PROVE  CursorInv'
<1> DEFINE id == Head(todo[t]).id
           s == With("done", id)
<1>1. /\ At(t, "exec") /\ Queued(id) /\ Invocation(id).status = "CREATED"
      /\ invocations' = Mark(id, "RUNNING") /\ Then(t, <<s>>)
      /\ UNCHANGED <<state, context, now>>
      /\ \/ id[1] = "EMIT_STATUS" /\ pb' = pb /\ seen' = seen
         \/ /\ id[1] = "EMIT_MESSAGE"
            /\ pb' = [pb EXCEPT !.messages = 0, !.cursor = IF CanStart THEN 0 ELSE @]
            /\ seen' = IF pb.messages > seen /\ pb.cursor <= seen THEN pb.messages ELSE seen
  BY DEF EmitStatus, EmitMessages, Runs
<1>2. id \in Ids /\ FirstIs(id) /\ Index(id) = 1 /\ id[1] \notin Requests \cup {"CANCEL"}
  BY <1>1, AtExec DEF Requests
<1>3. Live' => Live /\ pb'.cursor = pb.cursor
  <2> DEFINE c == IF CanStart THEN 0 ELSE pb.cursor
  <2>1. pb' = pb \/ pb' = [pb EXCEPT !.messages = 0, !.cursor = c]
    BY <1>1
  <2>2. pb \in PbOf(pb.channels)
    BY DEF TInv
  <2>3. Live => c = pb.cursor
    BY DEF Live, CanStart
  <2> HIDE DEF c
  <2>4. pb'.state = pb.state /\ pb'.trans = pb.trans /\ (pb'.cursor = pb.cursor \/ pb'.cursor = c)
    BY <2>1, <2>2 DEF PbOf
  <2> QED BY <2>3, <2>4 DEF Live
<1>4. /\ DOMAIN invocations' = DOMAIN invocations
      /\ \A j \in DOMAIN invocations :
            /\ invocations'[j].id = invocations[j].id /\ invocations'[j].ctx = invocations[j].ctx
            /\ invocations'[j].status = IF j = 1 THEN "RUNNING" ELSE invocations[j].status
  <2>1. invocations \in Seq(Invocations) /\ invocations' = Mark(id, "RUNNING") /\ Index(id) = 1
    BY <1>1, <1>2 DEF TInv
  <2> HIDE DEF id
  <2> QED BY <2>1, MarkFacts, MarkContext
<1>5. 1 \in DOMAIN invocations => ~ CancelAt(invocations, 1)
  BY <1>2 DEF FirstIs, CancelAt
<1>6. s \in Steps /\ s.op = "done" /\ s.id = id
  BY <1>2, IdStep DEF IdOps
<1> HIDE DEF s
<1>7. PICK steps : Goes(t, "exec", steps) /\ steps # <<>> /\ Head(steps) = s
  BY <1>1, <1>6, GoesOn
<1>8. Onward(invocations', context.cursor)
  BY <1>4, OnwardMarked DEF CursorInv
<1>9. CancelAhead => CancelAhead'
  <2>1. \A j \in DOMAIN invocations : CancelAt(invocations, j) => CancelAt(invocations', j)
    BY <1>4, <1>5 DEF CancelAt
  <2> QED BY <1>4, <1>7, <2>1, AheadKept
<1>10. LiveCursor'
  BY <1>1, <1>3, <1>9, LiveGoesOn
<1>11. state = "RECEIVING" => context.cursor # 0 /\ context.cursor <= seen'
  <2>1. context.cursor \in Nat /\ seen \in Nat /\ pb.messages \in Nat /\ pb.cursor \in Nat
    BY PbFacts, BoundsAssumption DEF TInv, Contexts, Tokens
  <2>2. CASE id[1] = "EMIT_STATUS"
    <3>1. ~ (Emitting /\ t = "watcher")
      BY <2>2, EmittingFirst
    <3>2. seen' = seen
      BY <1>1, <2>2
    <3> QED BY <1>7, <3>1, <3>2, EmitsNext
  <2>3. CASE id[1] = "EMIT_MESSAGE"
    <3>1. seen' = IF pb.messages > seen /\ pb.cursor <= seen THEN pb.messages ELSE seen
      BY <1>1, <2>3
    <3>2. state = "RECEIVING" => context.cursor # 0 /\ (context.cursor <= seen \/ Covers(context.cursor))
      BY DEF CursorInv, Given, Emitting
    <3> QED BY <2>1, <3>1, <3>2 DEF Covers
  <2> QED BY <1>1, <2>2, <2>3
<1>12. steps # <<>> => Fitting(t, Head(steps))'
  BY <1>6, <1>7 DEF Fitting
<1> QED BY <1>1, <1>7, <1>8, <1>10, <1>11, <1>12, CursorsKept

\* What happens when a watcher about to emit is not the one that moves
LEMMA GivenStays ==
    ASSUME TInv, LeaveInv, LoopInv, LoopWindows, CursorInv, NEW t \in Threads, NEW op, NEW steps,
           Goes(t, op, steps), op # "exec" \/ Head(todo[t]).id[1] # "EMIT_MESSAGE",
           UNCHANGED <<state, context, seen>>
    PROVE  state = "RECEIVING" => context.cursor # 0 /\ context.cursor <= seen'
<1>1. \/ state = "RECEIVING" => context.cursor # 0 /\ context.cursor <= seen
      \/ Emitting /\ t = "watcher" /\ op = "exec"
  BY EmitsNext
<1>2. ~ (Emitting /\ t = "watcher" /\ op = "exec")
  BY EmittingFirst
<1> QED BY <1>1, <1>2

\* The cancel of a live request begins.
LEMMA CursorCancelEffect ==
    ASSUME TInv, TInv', LeaveInv, LoopInv, LoopWindows, CursorInv, NEW t \in Threads,
           CancelEffect(t)
    PROVE  CursorInv'
<1> DEFINE id == Head(todo[t]).id
           s == With("cancel", id)
<1>1. /\ At(t, "exec") /\ Queued(id) /\ Invocation(id).status = "CREATED" /\ id[1] = "CANCEL"
      /\ UNCHANGED <<state, context, now, seen, pb>>
      /\ \/ Then(t, <<>>) /\ UNCHANGED invocations
         \/ /\ current_transaction = "NONE"
            /\ invocations' = Mark(id, "RUNNING") /\ Then(t, <<s>>)
  BY DEF CancelEffect, Runs, Return, delivery
<1>2. CASE Then(t, <<>>) /\ UNCHANGED invocations
  BY <1>1, <1>2, CursorsPaused
<1>3. CASE /\ current_transaction = "NONE"
           /\ invocations' = Mark(id, "RUNNING") /\ Then(t, <<s>>)
  <2>1. id \in Ids /\ FirstIs(id) /\ Index(id) = 1
    BY <1>1, <1>3, AtExec
  <2>2. /\ DOMAIN invocations' = DOMAIN invocations
        /\ \A j \in DOMAIN invocations :
              /\ invocations'[j].id = invocations[j].id /\ invocations'[j].ctx = invocations[j].ctx
              /\ invocations'[j].status = IF j = 1 THEN "RUNNING" ELSE invocations[j].status
    <3>1. invocations \in Seq(Invocations) /\ invocations' = Mark(id, "RUNNING") /\ Index(id) = 1
      BY <1>3, <2>1 DEF TInv
    <3> HIDE DEF id
    <3> QED BY <3>1, MarkFacts, MarkContext
  <2>3. s \in Steps /\ s.op = "cancel" /\ s.id = id
    BY <2>1, IdStep DEF IdOps
  <2> HIDE DEF s
  <2>4. PICK steps : Goes(t, "exec", steps) /\ steps # <<>> /\ Head(steps) = s
    BY <1>1, <1>3, <2>3, GoesOn
  <2>5. todo'[t] # <<>> /\ Head(todo'[t]) = s
    BY <2>4, GoesFacts
  <2>6. CancelAhead'
    BY <2>3, <2>5 DEF CancelAhead, AtCancel, Is
  <2>7. LiveCursor'
    BY <2>6 DEF LiveCursor
  <2>8. state = "RECEIVING" => context.cursor # 0 /\ context.cursor <= seen'
    BY <1>1, <2>4, GivenStays
  <2>9. Onward(invocations', context.cursor)
    BY <2>2, OnwardMarked DEF CursorInv
  <2>10. steps # <<>> => Fitting(t, Head(steps))'
    BY <2>3, <2>4 DEF Fitting
  <2> QED BY <1>1, <2>4, <2>7, <2>8, <2>9, <2>10, CursorsKept
<1> QED BY <1>1, <1>2, <1>3

\* pubnub_cancel: no request is live after it.
LEMMA CursorCancel ==
    ASSUME TInv, TInv', LeaveInv, LoopInv, LoopWindows, CursorInv, NEW t \in Threads, Cancel(t)
    PROVE  CursorInv'
<1> DEFINE id == Head(todo[t]).id
           op == IF pb.state = "IDLE" THEN "done" ELSE "cancelled"
           s == With(op, id)
<1>1. /\ At(t, "cancel") /\ pb' = Cancelled /\ Then(t, <<s>>)
      /\ UNCHANGED <<state, context, invocations, now, seen>>
  BY DEF Cancel, engine, delivery
<1>2. id \in Ids
  BY <1>1, AtFacts, StepFacts DEF TInv, IdOps
<1>3. op \in IdOps /\ op \in {"done", "cancelled"}
  BY DEF IdOps
<1>4. s \in Steps /\ s.op = op /\ s.id = id
  <2> HIDE DEF op, id
  <2> QED BY <1>2, <1>3, IdStep
<1> HIDE DEF s, op
<1>5. PICK steps : Goes(t, "cancel", steps) /\ steps # <<>> /\ Head(steps) = s
  BY <1>1, <1>3, <1>4, GoesOn
<1>6. pb'.state \in {"IDLE", "WAIT_CANCEL"}
  <2>1. pb \in PbOf(pb.channels)
    BY DEF TInv
  <2> QED BY <1>1, <2>1 DEF Cancelled, PbOf
<1>7. LiveCursor'
  BY <1>6 DEF LiveCursor, Live
<1>8. state = "RECEIVING" => context.cursor # 0 /\ context.cursor <= seen'
  BY <1>1, <1>5, GivenStays
<1>9. Onward(invocations', context.cursor)
  BY <1>1 DEF CursorInv
<1>10. steps # <<>> => Fitting(t, Head(steps))'
  BY <1>3, <1>4, <1>5 DEF Fitting
<1> QED BY <1>1, <1>5, <1>7, <1>8, <1>9, <1>10, CursorsKept

\* The cancel is noted.
LEMMA CursorCancelStarted ==
    ASSUME TInv, TInv', LeaveInv, LoopInv, LoopWindows, CursorInv, NEW t \in Threads,
           CancelStarted(t)
    PROVE  CursorInv'
<1>1. /\ At(t, "cancelled") /\ Then(t, <<>>)
      /\ UNCHANGED <<state, context, invocations, now, seen, pb>>
  BY DEF CancelStarted, Return, engine, delivery
<1>2. pb'.state = pb.state /\ pb'.trans = pb.trans /\ pb'.cursor = pb.cursor
  BY <1>1
<1> QED BY <1>1, <1>2, CursorsBack

\* make_subscribe_request_ that pauses, or begins a heartbeat
LEMMA CursorMakeHeartbeat ==
    ASSUME TInv, TInv', LeaveInv, LoopInv, LoopWindows, CursorInv, NEW t \in Threads,
           MakeHeartbeat(t)
    PROVE  CursorInv'
<1> DEFINE id == Head(todo[t]).id
           s == With("heartbeat", id)
<1>1. /\ At(t, "exec") /\ id[1] \in Requests /\ id[1] # "EMIT_MESSAGE"
      /\ UNCHANGED <<state, context, now, seen, pb>>
      /\ \/ Then(t, <<>>) /\ UNCHANGED invocations
         \/ /\ current_transaction = "NONE" /\ CanStart
            /\ invocations' = [invocations EXCEPT ![Index(id)].heartbeat = FALSE,
                                                  ![Index(id)].status = "RUNNING"]
            /\ Then(t, <<s>>)
  BY DEF MakeHeartbeat, Runs, Return, delivery, Requests
<1>2. CASE Then(t, <<>>) /\ UNCHANGED invocations
  BY <1>1, <1>2, CursorsPaused
<1>3. CASE /\ current_transaction = "NONE" /\ CanStart
           /\ invocations' = [invocations EXCEPT ![Index(id)].heartbeat = FALSE,
                                                 ![Index(id)].status = "RUNNING"]
           /\ Then(t, <<s>>)
  <2>1. id \in Ids /\ FirstIs(id) /\ Index(id) = 1 /\ 1 \in DOMAIN invocations
    BY <1>1, <1>3, AtExec
  <2>2. s \in Steps /\ s.op = "heartbeat"
    BY <2>1, IdStep DEF IdOps
  <2> HIDE DEF s
  <2>3. PICK steps : Goes(t, "exec", steps) /\ steps # <<>> /\ Head(steps) = s
    BY <1>1, <1>3, <2>2, GoesOn
  <2>4. /\ DOMAIN invocations' = DOMAIN invocations
        /\ \A i \in DOMAIN invocations :
              /\ invocations'[i].id = invocations[i].id /\ invocations'[i].ctx = invocations[i].ctx
              /\ i # 1 => invocations'[i].status = invocations[i].status
    <3>1. invocations \in Seq(Invocations) /\ invocations[1] \in Invocations
      BY <2>1 DEF TInv
    <3>2. invocations' = [invocations EXCEPT ![1].heartbeat = FALSE, ![1].status = "RUNNING"]
      BY <1>3, <2>1
    <3> QED BY <2>1, <3>1, <3>2 DEF Invocations
  <2>5. LiveCursor'
    BY <1>1, <1>3 DEF LiveCursor, Live, CanStart
  <2>6. state = "RECEIVING" => context.cursor # 0 /\ context.cursor <= seen'
    BY <1>1, <2>3, GivenStays
  <2>7. Onward(invocations', context.cursor)
    BY <2>4, OnwardMarked DEF CursorInv
  <2>8. steps # <<>> => Fitting(t, Head(steps))'
    BY <2>2, <2>3 DEF Fitting
  <2> QED BY <1>1, <2>3, <2>5, <2>6, <2>7, <2>8, CursorsKept
<1> QED BY <1>1, <1>2, <1>3

\* pubnub_heartbeat: no subscribe request is live.
LEMMA CursorHeartbeat ==
    ASSUME TInv, TInv', LeaveInv, LoopInv, LoopWindows, CursorInv, NEW t \in Threads, Heartbeat(t)
    PROVE  CursorInv'
<1> DEFINE id == Head(todo[t]).id
           channels == Invocation(id).ctx.channels
<1>1. /\ At(t, "heartbeat") /\ invocations' = Mark(id, "CREATED") /\ Then(t, <<>>)
      /\ pb' \in {Started("HEARTBEAT", channels), pb}
      /\ UNCHANGED <<state, context, now, seen>>
  BY DEF Heartbeat, Return, delivery
<1>2. PICK steps : Goes(t, "heartbeat", steps) /\ steps = <<>>
  BY <1>1, GoesBack
<1>3. todo[t] # <<>> /\ Head(todo[t]).op = "heartbeat" /\ Head(todo[t]) \in Steps
  BY <1>2, GoesFacts
<1>4. CanStart
  BY <1>3 DEF LoopInv, CallsInv, HeartbeatHeld, Is
<1>5. FirstIs(id)
  <2>1. Is(t, OwnerOps)
    BY <1>3 DEF Is, OwnerOps
  <2> QED BY <2>1 DEF LoopInv, QueueInv, Owner
<1>6. Index(id) = 1
  BY <1>5, FirstIndex DEF LoopInv, QueueInv, TInv
<1>7. /\ DOMAIN invocations' = DOMAIN invocations
      /\ \A j \in DOMAIN invocations :
            /\ invocations'[j].id = invocations[j].id /\ invocations'[j].ctx = invocations[j].ctx
            /\ j # 1 => invocations'[j] = invocations[j]
  <2>1. invocations \in Seq(Invocations) /\ invocations' = Mark(id, "CREATED") /\ Index(id) = 1
    BY <1>1, <1>6 DEF TInv
  <2> HIDE DEF id
  <2> QED BY <2>1, MarkFacts, MarkContext
<1>8. ~ Live'
  <2>1. pb \in PbOf(pb.channels) /\ "HEARTBEAT" \in Transactions
    BY DEF TInv, Transactions
  <2>2. CASE pb' = pb
    BY <1>4, <2>2 DEF Live, CanStart
  <2>3. CASE pb' = Started("HEARTBEAT", channels)
    <3>1. pb'.trans = "HEARTBEAT"
      BY <2>1, <2>3, PbStarted
    <3> QED BY <3>1 DEF Live, Requests
  <2> QED BY <1>1, <2>2, <2>3
<1>9. LiveCursor'
  BY <1>8 DEF LiveCursor
<1>10. state = "RECEIVING" => context.cursor # 0 /\ context.cursor <= seen'
  BY <1>1, <1>2, GivenStays
<1>11. \A i \in DOMAIN invocations :
              /\ invocations'[i].id = invocations[i].id /\ invocations'[i].ctx = invocations[i].ctx
              /\ i # 1 => invocations'[i].status = invocations[i].status
  BY <1>7
<1>12. Onward(invocations', context.cursor)
  BY <1>7, <1>11, OnwardMarked DEF CursorInv
<1> QED BY <1>1, <1>2, <1>9, <1>10, <1>12, CursorsKept

\* A request that is sent is for the cursor of its invocation.
LEMMA CursorMakeSubscribeRequest ==
    ASSUME TInv, TInv', LeaveInv, LoopInv, LoopWindows, CursorInv, NEW t \in Threads,
           MakeSubscribeRequest(t)
    PROVE  CursorInv'
<1> DEFINE id == Head(todo[t]).id
           inv == Invocation(id)
           refused == inv.ctx.channels = {} \/ pb.messages # 0
           d == With("done", id)
           e == Step("error")
           Sent == /\ current_transaction = "NONE" /\ CanStart
                   /\ invocations' = Mark(id, "RUNNING")
                   /\ pb' = IF refused THEN [pb EXCEPT !.timetoken = inv.ctx.cursor]
                            ELSE [Started(id[1], inv.ctx.channels)
                                     EXCEPT !.timetoken = inv.ctx.cursor, !.cursor = inv.ctx.cursor]
                   /\ Then(t, <<d>> \o IF refused THEN <<e>> ELSE <<>>)
<1>1. /\ At(t, "exec") /\ id[1] \in Requests /\ Runs(t, Requests)
      /\ UNCHANGED <<state, context, now, seen>>
      /\ \/ Then(t, <<>>) /\ UNCHANGED <<invocations, pb>>
         \/ current_transaction = "NONE" /\ ~ CanStart
         \/ Sent
  BY DEF MakeSubscribeRequest, Runs, Return, delivery
<1>2. id[1] # "EMIT_MESSAGE"
  BY <1>1 DEF Requests
<1>3. CASE Then(t, <<>>) /\ UNCHANGED <<invocations, pb>>
  BY <1>1, <1>2, <1>3, CursorsPaused
<1>4. CASE current_transaction = "NONE" /\ ~ CanStart
  BY <1>1, <1>4, RequestCanStart
<1>5. CASE Sent
  <2>1. id \in Ids /\ FirstIs(id) /\ Index(id) = 1 /\ 1 \in DOMAIN invocations /\ inv = invocations[1]
    BY <1>1, <1>5, AtExec
  <2>2. d \in Steps /\ d.op = "done" /\ d.id = id /\ e \in Steps /\ e.op = "error"
    BY <2>1, IdStep DEF IdOps, Step, Steps, ErrorSteps
  <2>3. \E steps : Goes(t, "exec", steps) /\ steps # <<>> /\ Head(steps) = d
    <3> HIDE DEF d, e
    <3>1. CASE refused
      <4> DEFINE r == <<d>> \o <<e>>
      <4>1. /\ r \in Seq(Steps) /\ r # <<>> /\ Head(r) = d
            /\ \A i \in DOMAIN r : (i = 1 /\ r[i] = d) \/ (i > 1 /\ r[i] = e)
        BY <2>2, TwoCalls
      <4>2. Then(t, r)
        BY <1>5, <3>1
      <4> HIDE DEF r
      <4>3. Goes(t, "exec", r)
        BY <1>1, <2>2, <4>1, <4>2 DEF Goes
      <4> QED BY <2>2, <4>1, <4>3
    <3>2. CASE ~ refused
      <4>1. <<d>> \in Seq(Steps)
        BY <2>2, OneStep
      <4>2. <<d>> \o <<>> = <<d>>
        BY <4>1, ConcatEmptySeq
      <4>3. Then(t, <<d>>)
        BY <1>5, <3>2, <4>2
      <4> HIDE DEF refused
      <4>4. "exec" # "leave" /\ d.op # "leave"
        BY <2>2
      <4> QED BY <1>1, <2>2, <4>3, <4>4, GoesOn
    <3> QED BY <3>1, <3>2
  <2>4. PICK steps : Goes(t, "exec", steps) /\ steps # <<>> /\ Head(steps) = d
    BY <2>3
  <2>5. /\ pb.state \notin {"BUSY", "WAIT_CANCEL"}
        /\ Live' => pb'.cursor = inv.ctx.cursor
    <3>1. pb \in PbOf(pb.channels) /\ pb.state \notin {"BUSY", "WAIT_CANCEL"}
      BY <1>5 DEF TInv, CanStart
    <3>2. CASE refused
      <4>1. pb' = [pb EXCEPT !.timetoken = inv.ctx.cursor]
        BY <1>5, <3>2
      <4> HIDE DEF inv, refused
      <4>2. pb'.state = pb.state
        BY <3>1, <4>1 DEF PbOf
      <4> QED BY <3>1, <4>2 DEF Live
    <3>3. CASE ~ refused
      <4> DEFINE p == Started(id[1], inv.ctx.channels)
      <4>1. pb' = [p EXCEPT !.timetoken = inv.ctx.cursor, !.cursor = inv.ctx.cursor]
        BY <1>5, <3>3
      <4>2. id[1] \in Transactions
        BY <1>1 DEF Transactions
      <4>3. p \in PbOf(inv.ctx.channels)
        BY <3>1, <4>2, PbStarted
      <4> HIDE DEF p, inv, id, refused
      <4>4. pb'.cursor = inv.ctx.cursor
        BY <4>1, <4>3 DEF PbOf
      <4> QED BY <3>1, <4>4
    <3> QED BY <3>2, <3>3
  <2>6. /\ DOMAIN invocations' = DOMAIN invocations
        /\ \A j \in DOMAIN invocations :
              /\ invocations'[j].id = invocations[j].id /\ invocations'[j].ctx = invocations[j].ctx
              /\ invocations'[j].status = IF j = 1 THEN "RUNNING" ELSE invocations[j].status
    <3>1. invocations \in Seq(Invocations) /\ invocations' = Mark(id, "RUNNING") /\ Index(id) = 1
      BY <1>5, <2>1 DEF TInv
    <3> HIDE DEF id
    <3> QED BY <3>1, MarkFacts, MarkContext
  <2>7. RequestAt(invocations, 1)
    BY <1>1, <2>1 DEF RequestAt, FirstIs
  <2>8. LiveCursor'
    <3> SUFFICES ASSUME Live' PROVE pb'.cursor = context.cursor \/ CancelAhead'
      BY <1>1 DEF LiveCursor
    <3>1. \/ invocations[1].ctx.cursor = context.cursor
          \/ \E j \in DOMAIN invocations : 1 < j /\ CancelAt(invocations, j)
      BY <2>1, <2>7 DEF CursorInv, Onward
    <3>2. ASSUME NEW j \in DOMAIN invocations, 1 < j, CancelAt(invocations, j) PROVE CancelAhead'
      <4>1. j # 1 /\ j \in DOMAIN invocations'
        BY <2>6, <3>2 DEF TInv
      <4>2. CancelAt(invocations', j)
        BY <2>6, <3>2, <4>1 DEF CancelAt
      <4> QED BY <4>1, <4>2 DEF CancelAhead
    <3> HIDE DEF inv
    <3> QED BY <2>1, <2>5, <3>1, <3>2
  <2>9. state = "RECEIVING" => context.cursor # 0 /\ context.cursor <= seen'
    BY <1>1, <1>2, <2>4, GivenStays
  <2>10. \A j \in DOMAIN invocations :
              /\ invocations'[j].id = invocations[j].id /\ invocations'[j].ctx = invocations[j].ctx
              /\ j # 1 => invocations'[j].status = invocations[j].status
    BY <2>6
  <2>11. Onward(invocations', context.cursor)
    BY <2>6, <2>10, OnwardMarked DEF CursorInv
  <2> HIDE DEF d
  <2>12. steps # <<>> => Fitting(t, Head(steps))'
    BY <2>2, <2>4 DEF Fitting
  <2> HIDE DEF id, inv, e, refused
  <2> QED BY <1>1, <2>4, <2>8, <2>9, <2>11, <2>12, CursorsKept
<1> QED BY <1>1, <1>3, <1>4, <1>5

\* A step that turns into steps, and leaves the engine as it is
LEMMA CursorsOn ==
    ASSUME TInv, LeaveInv, LoopInv, LoopWindows, CursorInv, NEW t \in Threads, NEW op, NEW steps,
           Goes(t, op, steps), op \notin {"exec", "cancel"},
           UNCHANGED <<state, context, now, seen, invocations>>,
           Live' => Live /\ pb'.cursor = pb.cursor,
           steps # <<>> => Fitting(t, Head(steps))'
    PROVE  CursorInv'
<1>1. state = "RECEIVING" => context.cursor # 0 /\ context.cursor <= seen'
  BY GivenStays
<1>2. CancelAhead => CancelAhead'
  <2>1. \A j \in DOMAIN invocations : CancelAt(invocations, j) => CancelAt(invocations', j)
    OBVIOUS
  <2> QED BY <2>1, AheadKept
<1>3. LiveCursor'
  BY <1>2, LiveGoesOn
<1>4. Onward(invocations', context.cursor)
  BY DEF CursorInv
<1> QED BY <1>1, <1>3, <1>4, CursorsKept

\* A failed request is reported with the present cursor.
LEMMA CursorSubscribeError ==
    ASSUME TInv, TInv', LeaveInv, LoopInv, LoopWindows, CursorInv, NEW t \in Threads,
           SubscribeError(t)
    PROVE  CursorInv'
<1>1. /\ At(t, "error")
      /\ Then(t, CASE state = "HANDSHAKING" -> <<CopyEvent("HANDSHAKE_FAILURE")>>
                   [] state = "RECEIVING" -> <<CopyEvent("RECEIVE_FAILURE")>>
                   [] OTHER -> <<>>)
      /\ UNCHANGED <<state, context, now, seen, invocations, pb>>
  BY DEF SubscribeError, engine, delivery
<1>2. Live' => Live /\ pb'.cursor = pb.cursor
  BY <1>1 DEF Live
<1>3. ASSUME NEW type \in {"HANDSHAKE_FAILURE", "RECEIVE_FAILURE"}, Then(t, <<CopyEvent(type)>>)
      PROVE  CursorInv'
  <2> DEFINE s == CopyEvent(type)
  <2>1. s \in Steps /\ s.op = "event" /\ s.type = type /\ s.ctx.cursor = context.cursor
    BY CopyStep DEF EventTypes, CopyEvent, Event
  <2>2. Then(t, <<s>>)
    BY <1>3
  <2> HIDE DEF s
  <2>3. "error" # "leave" /\ s.op # "leave"
    BY <2>1
  <2>4. PICK steps : Goes(t, "error", steps) /\ steps # <<>> /\ Head(steps) = s
    BY <1>1, <2>1, <2>2, <2>3, GoesOn
  <2>5. Fitting(t, Head(steps))'
    BY <1>1, <2>1, <2>4 DEF Fitting, Moving, Succeeds
  <2> QED BY <1>1, <1>2, <2>4, <2>5, CursorsOn
<1>4. CASE Then(t, <<>>)
  <2>1. PICK steps : Goes(t, "error", steps) /\ steps = <<>>
    BY <1>1, <1>4, GoesBack
  <2> QED BY <1>1, <1>2, <2>1, CursorsOn
<1> QED BY <1>1, <1>3, <1>4

\* The event of a call that changed the subscriptions has the present cursor, or
\* the one the call was given.
LEMMA CursorSubscriptionChanged ==
    ASSUME TInv, TInv', LeaveInv, LoopInv, LoopWindows, CursorInv, NEW t \in Threads,
           SubscriptionChanged(t)
    PROVE  CursorInv'
<1> DEFINE c == Head(todo[t])
<1>1. /\ At(t, "changed")
      /\ \/ Then(t, <<Event("SUBSCRIPTION_CHANGED", subscribables, context.cursor, c.heartbeat)>>)
         \/ /\ Then(t, <<Event("SUBSCRIPTION_RESTORED", subscribables, c.cursor, c.heartbeat)>>)
            /\ c.cursor # 0
      /\ UNCHANGED <<state, context, now, seen, invocations, pb>>
  BY DEF SubscriptionChanged, engine, delivery
<1>2. \E type \in Fresh, cursor \in {context.cursor, c.cursor} :
         /\ Then(t, <<Event(type, subscribables, cursor, c.heartbeat)>>)
         /\ IF type = "SUBSCRIPTION_CHANGED" THEN cursor = context.cursor ELSE cursor # 0
  BY <1>1 DEF Fresh
<1>3. PICK type \in Fresh, cursor \in {context.cursor, c.cursor} :
         /\ Then(t, <<Event(type, subscribables, cursor, c.heartbeat)>>)
         /\ IF type = "SUBSCRIPTION_CHANGED" THEN cursor = context.cursor ELSE cursor # 0
  BY <1>2
<1> DEFINE e == Event(type, subscribables, cursor, c.heartbeat)
<1>4. c \in Steps /\ c.op = "changed"
  BY <1>1, AtFacts DEF TInv
<1>5. e \in Steps /\ e.op = "event" /\ e.type = type /\ e.ctx.cursor = cursor
  <2>1. c.cursor \in Tokens /\ c.heartbeat \in BOOLEAN /\ context.cursor \in Tokens
        /\ subscribables \in SUBSET Channels /\ type \in EventTypes
    BY <1>4, StepFacts DEF TInv, Contexts, Fresh, EventTypes
  <2>2. e \in Steps
    BY <2>1, EventStep
  <2> QED BY <2>2 DEF Event
<1>6. Then(t, <<e>>)
  BY <1>3
<1> HIDE DEF e
<1>7. "changed" # "leave" /\ e.op # "leave"
  BY <1>5
<1>8. PICK steps : Goes(t, "changed", steps) /\ steps # <<>> /\ Head(steps) = e
  BY <1>1, <1>5, <1>6, <1>7, GoesOn
<1>9. Fitting(t, Head(steps))'
  BY <1>1, <1>3, <1>5, <1>8 DEF Fitting, Moving, Succeeds, Fresh
<1>10. Live' => Live /\ pb'.cursor = pb.cursor
  BY <1>1 DEF Live
<1> HIDE DEF c
<1> QED BY <1>1, <1>8, <1>9, <1>10, CursorsOn

\* The leave of a call
LEMMA CursorLeave ==
    ASSUME TInv, TInv', LeaveInv, LoopInv, LoopWindows, CursorInv, NEW t \in Threads, Leave(t)
    PROVE  CursorInv'
<1> DEFINE channels == Head(todo[t]).channels
<1>1. /\ At(t, "leave") /\ Then(t, <<>>)
      /\ pb' = Started("LEAVE", channels) \/ pb' = pb
      /\ UNCHANGED <<state, context, now, seen, invocations>>
  BY DEF Leave, Return, engine, delivery
<1>2. PICK steps : Goes(t, "leave", steps) /\ steps = <<>>
  BY <1>1, GoesBack
<1>3. Live' => Live /\ pb'.cursor = pb.cursor
  <2>1. "LEAVE" \in Transactions
    BY DEF Transactions
  <2>2. Started("LEAVE", channels).trans = "LEAVE"
    BY <2>1, PbStarted DEF TInv
  <2> QED BY <1>1, <2>2 DEF Live, Requests
<1> QED BY <1>1, <1>2, <1>3, CursorsOn

\* The end of an effect
LEMMA CursorComplete ==
    ASSUME TInv, TInv', LeaveInv, LoopInv, LoopWindows, CursorInv, NEW t \in Threads, Complete(t)
    PROVE  CursorInv'
<1>1. /\ At(t, "done")
      /\ Then(t, IF invocations' # invocations THEN ProcessNext(invocations') ELSE <<>>)
      /\ UNCHANGED <<state, context, now, seen, pb>>
  BY DEF Complete, delivery
<1>2. /\ invocations # <<>> /\ invocations[1].status = "RUNNING"
      /\ invocations' = Drop(invocations, 1)
  BY QueueCompletes DEF LoopInv
<1>3. /\ invocations \in Seq(Invocations) /\ invocations' \in Seq(Invocations)
      /\ 1 \in DOMAIN invocations /\ ~ CancelAt(invocations, 1)
  BY <1>2 DEF TInv, CancelAt
<1>4. \E steps : Goes(t, "done", steps) /\ (steps # <<>> => Head(steps).op = "exec")
  <2>1. CASE invocations' # invocations
    <3> DEFINE steps == ProcessNext(invocations')
    <3>1. /\ steps \in Seq(Steps) /\ Then(t, steps) /\ \A i \in DOMAIN steps : i > 1 => steps[i].op = "error"
          /\ steps # <<>> => Head(steps).op = "exec"
      BY <1>1, <1>3, <2>1, NextFirst
    <3> HIDE DEF steps
    <3>2. Goes(t, "done", steps)
      BY <1>1, <3>1 DEF Goes
    <3> QED BY <3>1, <3>2
  <2>2. CASE invocations' = invocations
    <3>1. Then(t, <<>>)
      BY <1>1, <2>2
    <3> QED BY <1>1, <3>1, GoesBack
  <2> QED BY <2>1, <2>2
<1>5. PICK steps : Goes(t, "done", steps) /\ (steps # <<>> => Head(steps).op = "exec")
  BY <1>4
<1>6. PICK f : Selects(f, Drop(invocations, 1), invocations)
  BY <1>3, DropSelects
<1>7. Onward(Drop(invocations, 1), context.cursor)
  BY <1>6, OnwardLeft DEF CursorInv
<1>8. Onward(invocations', context.cursor)
  BY <1>2, <1>7
<1>9. CancelAhead => CancelAhead'
  <2>1. ASSUME \E j \in DOMAIN invocations : CancelAt(invocations, j)
        PROVE  \E j \in DOMAIN invocations' : CancelAt(invocations', j)
    BY <1>2, <2>1, FirstDropped
  <2> QED BY <1>5, <2>1, AheadKept
<1>10. LiveCursor'
  <2>1. Live' => Live /\ pb'.cursor = pb.cursor
    BY <1>1 DEF Live
  <2> QED BY <1>1, <1>9, <2>1, LiveGoesOn
<1>11. state = "RECEIVING" => context.cursor # 0 /\ context.cursor <= seen'
  BY <1>1, <1>5, GivenStays
<1>12. steps # <<>> => Fitting(t, Head(steps))'
  BY <1>5 DEF Fitting
<1> QED BY <1>1, <1>5, <1>8, <1>10, <1>11, <1>12, CursorsKept

\* Transitions into RECEIVING
LEMMA IntoReceiving ==
    ASSUME NEW s, NEW type \in EventTypes, NEW empty, Target(s, type, empty) = "RECEIVING"
    PROVE  \/ s = "HANDSHAKING" /\ type = "HANDSHAKE_SUCCESS"
           \/ s = "RECEIVING" /\ type \in {"RECEIVE_SUCCESS", "SUBSCRIPTION_CHANGED", "SUBSCRIPTION_RESTORED"}
<1>1. CASE type \in {"SUBSCRIPTION_CHANGED", "SUBSCRIPTION_RESTORED"}
  <2>1. s = "RECEIVING"
    BY <1>1 DEF Target, Stopped
  <2> QED BY <1>1, <2>1
<1>2. CASE type \notin {"SUBSCRIPTION_CHANGED", "SUBSCRIPTION_RESTORED"}
  BY <1>2 DEF Target, EventTypes
<1> QED BY <1>1, <1>2

\* The requests after an event are for its cursor, or have a cancel behind them.
LEMMA TakenOnward ==
    ASSUME TInv, TInv', LeaveInv, LoopInv, LoopWindows, NEW t \in Threads, NEW ev, NEW target,
           NEW e, NEW q, NEW f, NEW new, NEW steps, Taken(t, ev, target, e, q, f, new, steps)
    PROVE  Onward(invocations', context'.cursor)
<1> DEFINE n == Len(q)
           c == invocations'
<1>1. /\ n \in Nat /\ DOMAIN q = 1..n
      /\ \A k \in DOMAIN new : n + k \in DOMAIN c /\ c[n + k] = new[k]
      /\ \A k \in DOMAIN new : k \in Nat /\ k >= 1
      /\ \A i \in DOMAIN c : i \in DOMAIN q \/ \E k \in DOMAIN new : i = n + k
  <2> HIDE DEF n
  <2>1. n = Len(q)
    BY DEF n
  <2> QED BY <2>1, TakenPlaces
<1>2. /\ DOMAIN new = DOMAIN e
      /\ \A k \in DOMAIN new : /\ new[k].status = "CREATED" /\ new[k].id[1] = e[k]
                               /\ e[k] \in Requests => new[k].ctx = ev.ctx
  BY DEF Taken, Adds
<1>3. /\ ev \in Steps /\ ev.op = "event" /\ ev.type \in EventTypes
      /\ target = Target(state, ev.type, ev.ctx.channels = {}) /\ target # "NONE"
      /\ e = Effects(state, ev.type, target) /\ state' = target
      /\ context' = IF target = "UNSUBSCRIBED" THEN NoContext ELSE ev.ctx
  BY StepFacts DEF Taken
<1>4. Covered(c, target, context') /\ Separate(c)
  BY <1>3, TakenRequests DEF RequestsInv
<1> HIDE DEF n, c
<1> SUFFICES ASSUME NEW i \in DOMAIN c, RequestAt(c, i), ~ \E j \in DOMAIN c : i < j /\ CancelAt(c, j)
             PROVE  c[i].ctx.cursor = context'.cursor
  BY DEF Onward, c
<1>5. ForState(c[i].id[1], target)
  BY <1>4 DEF Covered
<1>6. target \in Looping /\ target # "UNSUBSCRIBED"
  BY <1>5 DEF ForState, Looping
<1>7. \E k \in DOMAIN e : ForState(e[k], target) /\ \A l \in DOMAIN e : l <= k
  BY <1>3, <1>6, LastEffect
<1>8. PICK k \in DOMAIN e : ForState(e[k], target) /\ \A l \in DOMAIN e : l <= k
  BY <1>7
<1>9. /\ n + k \in DOMAIN c /\ c[n + k] = new[k] /\ e[k] \in Requests
      /\ new[k].ctx = ev.ctx /\ RequestAt(c, n + k) /\ k \in Nat /\ k >= 1
  BY <1>1, <1>2, <1>8 DEF ForState, Requests, RequestAt
<1>10. ~ (i < n + k)
  <2>1. ASSUME i < n + k
        PROVE  \E j \in DOMAIN c : i < j /\ j < n + k /\ CancelAt(c, j)
    BY <1>4, <1>9, <2>1 DEF Separate
  <2> QED BY <2>1
<1>11. i = n + k
  <2>1. CASE i \in DOMAIN q
    BY <1>1, <1>9, <1>10, <2>1
  <2>2. CASE \E l \in DOMAIN new : i = n + l
    <3>1. PICK l \in DOMAIN new : i = n + l
      BY <2>2
    <3>2. l <= k /\ l \in Nat
      BY <1>1, <1>2, <1>8
    <3> QED BY <1>1, <1>9, <1>10, <3>1, <3>2
  <2> QED BY <1>1, <2>1, <2>2
<1> QED BY <1>3, <1>6, <1>9, <1>11

\* The messages of an answer that is taken are given out next.
LEMMA TakenEmits ==
    ASSUME TInv, TInv', LeaveInv, LoopInv, LoopWindows, NEW t \in Threads, NEW ev, NEW target,
           NEW e, NEW q, NEW f, NEW new, NEW steps, Taken(t, ev, target, e, q, f, new, steps),
           ev.type = "RECEIVE_SUCCESS", Fitting(t, ev), UNCHANGED seen
    PROVE  context'.cursor # 0 /\ Emitting'
<1>1. /\ ev \in Steps /\ ev.op = "event" /\ ev.type \in EventTypes
      /\ target = Target(state, ev.type, ev.ctx.channels = {}) /\ target # "NONE"
      /\ e = Effects(state, ev.type, target)
      /\ context' = IF target = "UNSUBSCRIBED" THEN NoContext ELSE ev.ctx
      /\ UNCHANGED <<current_transaction, pb>>
  BY StepFacts DEF Taken, flags
<1>2. target = "RECEIVING" /\ 1 \in DOMAIN e /\ e[1] = "EMIT_MESSAGE"
  BY <1>1, LastEffect
<1>3. /\ t = "watcher" /\ current_transaction = "NONE" /\ invocations = <<>>
      /\ ev.ctx.cursor # 0 /\ Covers(ev.ctx.cursor)
  BY <1>1 DEF Fitting, Succeeds
<1>4. e # <<>>
  BY <1>2
<1>5. Unique
  BY DEF LoopInv, QueueInv
<1>6. invocations' # <<>> /\ invocations'[1] = new[1]
  BY <1>3, <1>4, <1>5, TakenFirst
<1>7. Is(t, {"exec"})' /\ todo'[t] # <<>> /\ Head(todo'[t]).op = "exec"
  BY <1>4, TakenCalls DEF Is
<1>8. Head(todo'[t]).id = IF e[1] = "CANCEL" THEN new[1].id ELSE invocations'[1].id
  BY <1>7, TakenCalls
<1>9. new[1].status = "CREATED" /\ new[1].id[1] = "EMIT_MESSAGE"
  BY <1>2 DEF Taken, Adds
<1>10. context'.cursor = ev.ctx.cursor
  BY <1>1, <1>2
<1>11. Covers(context.cursor)'
  BY <1>1, <1>3, <1>10 DEF Covers
<1>12. FirstIs(Head(todo["watcher"]).id)'
  BY <1>2, <1>3, <1>6, <1>8 DEF FirstIs
<1> QED BY <1>1, <1>3, <1>6, <1>7, <1>9, <1>10, <1>11, <1>12 DEF Emitting

\* An event that the state takes
LEMMA CursorTakes ==
    ASSUME TInv, TInv', LeaveInv, LoopInv, LoopWindows, CursorInv, NEW t \in Threads, NEW ev,
           NEW target, NEW e, NEW q, NEW f, NEW new, NEW steps,
           Taken(t, ev, target, e, q, f, new, steps), UNCHANGED now, seen' = Seen(ev, target)
    PROVE  CursorInv'
<1>1. /\ ev = Head(todo[t]) /\ ev \in Steps /\ ev.op = "event" /\ ev.type \in EventTypes
      /\ target = Target(state, ev.type, ev.ctx.channels = {}) /\ state' = target
      /\ context' = IF target = "UNSUBSCRIBED" THEN NoContext ELSE ev.ctx
  BY StepFacts DEF Taken
<1>2. Goes(t, "event", steps) /\ (steps # <<>> => Head(steps).op = "exec")
  BY DEF Taken, Goes
<1>3. /\ todo[t] # <<>>
      /\ \A u \in Threads \ {t} : todo'[u] = todo[u]
      /\ \A u \in Threads \ {t} : todo[u] # <<>> => Head(todo[u]).op \in {"heartbeat", "leave", "exec"}
      /\ steps # <<>> => todo'[t] # <<>> /\ Head(todo'[t]) = Head(steps)
      /\ steps = <<>> /\ todo'[t] # <<>> => Head(todo'[t]).op = "error"
  BY <1>2, GoesFacts
<1>4. CallCursors'
  <2> SUFFICES ASSUME NEW u \in Threads, todo'[u] # <<>> PROVE Fitting(u, Head(todo[u]))'
    BY DEF CallCursors
  <2>1. CASE u # t
    <3>1. Head(todo'[u]).op \in {"heartbeat", "leave", "exec"}
      BY <1>3, <2>1
    <3> QED BY <3>1 DEF Fitting
  <2>2. CASE u = t
    <3>1. Head(todo'[u]).op \in {"exec", "error"}
      BY <1>2, <1>3, <2>2
    <3> QED BY <3>1 DEF Fitting
  <2> QED BY <2>1, <2>2
<1>5. Onward(invocations', context'.cursor)
  BY TakenOnward
<1>6. LiveCursor'
  <2>1. Live' = Live
    BY DEF Live, Taken
  <2> QED BY <2>1, TakenCancels DEF LiveCursor
<1>7. Fitting(t, ev)
  BY <1>1, <1>3 DEF CursorInv, CallCursors
<1>8. Given'
  <2> SUFFICES ASSUME target = "RECEIVING"
               PROVE  context'.cursor # 0 /\ (context'.cursor <= seen' \/ Emitting')
    BY <1>1 DEF Given
  <2>1. /\ context' = ev.ctx
        /\ \/ ev.type = "HANDSHAKE_SUCCESS"
           \/ state = "RECEIVING" /\ ev.type \in {"RECEIVE_SUCCESS", "SUBSCRIPTION_CHANGED", "SUBSCRIPTION_RESTORED"}
    BY <1>1, IntoReceiving
  <2>2. ev.ctx.cursor \in Nat /\ seen \in Nat /\ context.cursor \in Nat
    BY <1>1, StepFacts, BoundsAssumption DEF TInv, Contexts, Tokens
  <2>3. CASE ev.type \in {"HANDSHAKE_SUCCESS", "SUBSCRIPTION_RESTORED"}
    <3>1. seen' = ev.ctx.cursor
      BY <2>3 DEF Seen
    <3>2. ev.ctx.cursor # 0
      BY <1>1, <1>7, <2>3 DEF Fitting, Succeeds
    <3> QED BY <2>1, <2>2, <3>1, <3>2
  <2>4. CASE ev.type = "RECEIVE_SUCCESS"
    <3>1. seen' = seen
      BY <2>4 DEF Seen
    <3> QED BY <1>7, <2>4, <3>1, TakenEmits
  <2>5. CASE ev.type = "SUBSCRIPTION_CHANGED"
    <3>1. seen' = seen
      BY <2>5 DEF Seen
    <3>2. ev.ctx.cursor = context.cursor /\ state = "RECEIVING"
      BY <1>1, <1>7, <2>1, <2>5 DEF Fitting, Moving, Succeeds
    <3>3. context.cursor # 0 /\ context.cursor <= seen
      BY <1>2, <3>2, EmitsNext
    <3> QED BY <2>1, <3>1, <3>2, <3>3
  <2> QED BY <2>1, <2>3, <2>4, <2>5
<1> QED BY <1>4, <1>5, <1>6, <1>8 DEF CursorInv

\* pbcc_ee_handle_event
LEMMA CursorHandleEvent ==
    ASSUME TInv, TInv', LeaveInv, LoopInv, LoopWindows, CursorInv, NEW t \in Threads, HandleEvent(t)
    PROVE  CursorInv'
<1> DEFINE h == Head(todo[t])
           aim == Target(state, h.type, h.ctx.channels = {})
<1>1. /\ UNCHANGED now
      /\ aim = "NONE" => UNCHANGED seen
      /\ aim # "NONE" => seen' = Seen(h, aim)
  BY DEF HandleEvent, delivery
<1>2. CASE /\ At(t, "event") /\ Return(t) /\ aim = "NONE"
           /\ UNCHANGED <<engine, flags, calls, pb>>
  <2>1. /\ Then(t, <<>>) /\ UNCHANGED <<state, context, now, seen, invocations>>
        /\ pb'.state = pb.state /\ pb'.trans = pb.trans /\ pb'.cursor = pb.cursor
    BY <1>1, <1>2 DEF Return, engine
  <2> QED BY <1>2, <2>1, CursorsBack
<1>3. ASSUME NEW ev, NEW target, NEW e, NEW q, NEW f, NEW new, NEW steps,
             Taken(t, ev, target, e, q, f, new, steps)
      PROVE  CursorInv'
  <2>1. seen' = Seen(ev, target)
    BY <1>1, <1>3 DEF Taken
  <2> QED BY <1>1, <1>3, <2>1, CursorTakes
<1> QED BY <1>2, <1>3, HandleEventTakes

\* The answer that is reported brings the time token of the request, and nothing
\* is queued.
LEMMA CursorReport ==
    ASSUME TInv, TInv', LeaveInv, LoopInv, LoopWindows, CursorInv, Report
    PROVE  CursorInv'
<1> DEFINE t == "watcher"
           event(success, failure) ==
              IF Head(todo["watcher"]).ok
              THEN Event(success, context.channels, pb.timetoken, FALSE) ELSE CopyEvent(failure)
           h == event("HANDSHAKE_SUCCESS", "HANDSHAKE_FAILURE")
           r == event("RECEIVE_SUCCESS", "RECEIVE_FAILURE")
<1>1. /\ At(t, "report")
      /\ Then(t, CASE state = "HANDSHAKING" -> <<h>> [] state = "RECEIVING" -> <<r>> [] OTHER -> <<>>)
      /\ UNCHANGED <<state, context, now, seen, invocations, current_transaction, pb>>
  BY DEF Report, engine, flags, delivery
<1>2. t \in Threads
  BY DEF Threads
<1>3. /\ current_transaction = "NONE" /\ invocations = <<>>
      /\ Head(todo[t]).ok /\ state \in Looping =>
            pb.timetoken # 0 /\ (state = "RECEIVING" => Covers(pb.timetoken))
  <2>1. Fitting(t, Head(todo[t])) /\ Head(todo[t]).op = "report"
    BY <1>1, <1>2 DEF CursorInv, CallCursors, At
  <2> QED BY <2>1 DEF Fitting
<1>4. Live' => Live /\ pb'.cursor = pb.cursor
  BY <1>1 DEF Live
<1>5. ASSUME NEW s \in Steps, s.op = "event", Then(t, <<s>>),
             s.type \in Succeeds => s.ctx.cursor # 0,
             s.type = "RECEIVE_SUCCESS" => Covers(s.ctx.cursor),
             s.type \notin Moving => s.ctx.cursor = context.cursor,
             s.type # "SUBSCRIPTION_RESTORED"
      PROVE  CursorInv'
  <2>1. "report" # "leave" /\ s.op # "leave"
    BY <1>5
  <2> HIDE DEF t
  <2>2. PICK steps : Goes(t, "report", steps) /\ steps # <<>> /\ Head(steps) = s
    BY <1>1, <1>2, <1>5, <2>1, GoesOn
  <2>3. Covers(s.ctx.cursor) => Covers(s.ctx.cursor)'
    BY <1>1 DEF Covers
  <2>4. Fitting(t, Head(steps))'
    BY <1>1, <1>3, <1>5, <2>2, <2>3 DEF Fitting, t
  <2> QED BY <1>1, <1>2, <1>4, <2>2, <2>4, CursorsOn
<1>6. ASSUME NEW success \in Succeeds, NEW failure \in {"HANDSHAKE_FAILURE", "RECEIVE_FAILURE"},
             Then(t, <<event(success, failure)>>), state \in Looping,
             success = "RECEIVE_SUCCESS" => state = "RECEIVING"
      PROVE  CursorInv'
  <2>1. CASE Head(todo[t]).ok
    <3> DEFINE s == Event(success, context.channels, pb.timetoken, FALSE)
    <3>1. success \in EventTypes /\ FALSE \in BOOLEAN
      BY DEF EventTypes, Succeeds
    <3>2. pb.timetoken \in Tokens /\ context.channels \in SUBSET Channels
      BY PbFacts DEF TInv, Contexts
    <3>3. s \in Steps
      BY <3>1, <3>2, EventStep
    <3>4. s.op = "event" /\ s.type = success /\ s.ctx.cursor = pb.timetoken
      BY DEF Event
    <3>5. Then(t, <<s>>)
      BY <1>6, <2>1
    <3> HIDE DEF s, t
    <3>6. pb.timetoken # 0 /\ (success = "RECEIVE_SUCCESS" => Covers(pb.timetoken))
      BY <1>3, <1>6, <2>1
    <3>7. s.type \in Moving /\ s.type # "SUBSCRIPTION_RESTORED"
      BY <3>4 DEF Moving, Succeeds
    <3>8. /\ s.type \in Succeeds => s.ctx.cursor # 0
          /\ s.type = "RECEIVE_SUCCESS" => Covers(s.ctx.cursor)
          /\ s.type \notin Moving => s.ctx.cursor = context.cursor
      BY <3>4, <3>6, <3>7
    <3> QED BY <1>5, <3>3, <3>4, <3>5, <3>7, <3>8
  <2>2. CASE ~ Head(todo[t]).ok
    <3> DEFINE s == CopyEvent(failure)
    <3>1. s \in Steps /\ s.op = "event" /\ s.type = failure /\ s.ctx.cursor = context.cursor
      BY CopyStep DEF EventTypes, CopyEvent, Event
    <3>2. Then(t, <<s>>)
      BY <1>6, <2>2
    <3> HIDE DEF s, t
    <3>3. s.type \notin Succeeds /\ s.type # "RECEIVE_SUCCESS" /\ s.type # "SUBSCRIPTION_RESTORED"
      BY <3>1 DEF Succeeds
    <3> QED BY <1>5, <3>1, <3>2, <3>3
  <2> QED BY <2>1, <2>2
<1>7. CASE state = "HANDSHAKING"
  <2>1. Then(t, <<h>>)
    BY <1>1, <1>7
  <2> QED BY <1>6, <1>7, <2>1 DEF Succeeds, Looping
<1>8. CASE state = "RECEIVING"
  <2>1. Then(t, <<r>>)
    BY <1>1, <1>8
  <2> QED BY <1>6, <1>8, <2>1 DEF Succeeds, Looping
<1>9. CASE state \notin Looping
  <2>1. Then(t, <<>>)
    BY <1>1, <1>9 DEF Looping
  <2>2. PICK steps : Goes(t, "report", steps) /\ steps = <<>>
    BY <1>1, <1>2, <2>1, GoesBack
  <2> QED BY <1>1, <1>2, <1>4, <2>2, CursorsOn
<1> QED BY <1>7, <1>8, <1>9 DEF Looping

\* The leave that a callback prepared is sent, with both threads away.
LEMMA CursorRequeued ==
    ASSUME TInv, TInv', LeaveInv, LoopInv, LoopWindows, CursorInv, Requeued
    PROVE  CursorInv'
<1>1. /\ pb.requeued /\ todo["watcher"] = <<>>
      /\ todo["app"] # <<>> => Head(todo["app"]).op \in Windows
      /\ todo' = [todo EXCEPT !["watcher"] = <<>>]
      /\ pb' = [pb EXCEPT !.requeued = FALSE, !.state = IF CanStart THEN "BUSY" ELSE @]
      /\ UNCHANGED <<state, context, now, seen, invocations>>
  BY DEF Requeued, Enters, engine, delivery
<1>2. todo["app"] = <<>> /\ CanStart /\ pb.trans = "LEAVE"
  BY <1>1, PreparedAlone
<1>3. todo' = todo /\ \A u \in Threads : todo[u] = <<>>
  BY <1>1, <1>2 DEF TInv, Threads
<1>4. ~ Live'
  <2>1. pb \in PbOf(pb.channels)
    BY DEF TInv
  <2>2. pb'.trans = "LEAVE"
    BY <1>1, <1>2, <2>1 DEF PbOf
  <2> QED BY <2>2 DEF Live, Requests
<1>5. ~ Emitting
  BY <1>3 DEF Emitting, Is, Threads
<1>6. CallCursors'
  BY <1>3 DEF CallCursors
<1>7. Given'
  BY <1>1, <1>5 DEF CursorInv, Given
<1> QED BY <1>1, <1>4, <1>6, <1>7 DEF CursorInv, LiveCursor

\* pbcc_subscribe_callback_ of another transaction returns, reports the end when the
\* queue is empty, or runs the first of the queue.
LEMMA CallbackGoes ==
    ASSUME TInv, TInv', OtherCallback, NEW report,
           report = [op |-> "report", ok |-> Head(todo["watcher"]).ok]
    PROVE  \E steps : /\ Goes("watcher", "callback", steps)
                      /\ steps # <<>> => \/ Head(steps).op = "exec"
                                         \/ Head(steps) = report /\ leave = {} /\ invocations' = <<>>
<1> DEFINE t == "watcher"
<1>1. /\ At(t, "callback")
      /\ Then(t, CASE leave # {} -> <<>>
                   [] leave = {} /\ invocations' = <<>> -> <<report>>
                   [] OTHER -> ProcessNext(invocations'))
  BY DEF OtherCallback
<1>2. t \in Threads /\ invocations' \in Seq(Invocations) /\ Head(todo[t]) \in Steps
      /\ Head(todo[t]).op = "callback"
  BY <1>1, AtFacts DEF TInv, Threads
<1>3. report \in Steps /\ report.op = "report"
  BY <1>2, StepFacts DEF Steps, ReportSteps
<1>4. \E steps : /\ Goes(t, "callback", steps)
                 /\ steps # <<>> => \/ Head(steps).op = "exec"
                                    \/ Head(steps) = report /\ leave = {} /\ invocations' = <<>>
  <2> HIDE DEF t
  <2>1. CASE leave # {}
    <3>1. Then(t, <<>>)
      BY <1>1, <2>1
    <3> QED BY <1>1, <1>2, <2>1, <3>1, GoesBack
  <2>2. CASE leave = {} /\ invocations' = <<>>
    <3>1. Then(t, <<report>>)
      BY <1>1, <2>2
    <3>2. "callback" # "leave" /\ report.op # "leave"
      BY <1>3
    <3> QED BY <1>1, <1>2, <1>3, <2>2, <3>1, <3>2, GoesOn
  <2>3. CASE leave = {} /\ invocations' # <<>>
    <3> DEFINE steps == ProcessNext(invocations')
    <3>1. /\ steps \in Seq(Steps) /\ \A i \in DOMAIN steps : i > 1 => steps[i].op = "error"
          /\ steps # <<>> => Head(steps).op = "exec"
      BY <1>2, <2>3, NextFirst
    <3>2. Then(t, steps)
      BY <1>1, <2>3
    <3> HIDE DEF steps
    <3>3. Goes(t, "callback", steps)
      BY <1>1, <3>1, <3>2 DEF Goes
    <3> QED BY <3>1, <3>3
  <2> QED BY <2>1, <2>2, <2>3
<1> QED BY <1>4

\* pbcc_subscribe_callback_ of another transaction: what waited for it is done, and
\* it reports only when the queue is empty, so in no state that loops.
LEMMA CursorCallback ==
    ASSUME TInv, TInv', LeaveInv, LoopInv, LoopWindows, WaitInv, CursorInv, OtherCallback
    PROVE  CursorInv'
<1> DEFINE t == "watcher"
           report == [op |-> "report", ok |-> Head(todo[t]).ok]
<1>1. At(t, "callback") /\ UNCHANGED <<state, context, now, seen>>
  BY DEF OtherCallback, delivery
<1>2. t \in Threads /\ invocations' \in Seq(Invocations) /\ Head(todo[t]) \in Steps
      /\ Head(todo[t]).op = "callback"
  BY <1>1, AtFacts DEF TInv, Threads
<1>3. /\ pb'.state \notin {"BUSY", "WAIT_CANCEL"}
      /\ current_transaction' = IF leave = {} THEN "NONE" ELSE "LEAVE"
      /\ state \in Looping => Awaited'
      /\ \/ invocations' = invocations
         \/ invocations # <<>> /\ invocations[1].status = "RUNNING" /\ invocations' = Drop(invocations, 1)
  BY CallbackDone
<1>4. Onward(invocations', context.cursor)
  <2>1. CASE invocations' = invocations
    BY <2>1 DEF CursorInv
  <2>2. CASE invocations # <<>> /\ invocations[1].status = "RUNNING" /\ invocations' = Drop(invocations, 1)
    <3>1. invocations \in Seq(Invocations) /\ 1 \in DOMAIN invocations /\ ~ CancelAt(invocations, 1)
      BY <2>2 DEF TInv, CancelAt
    <3>2. PICK f : Selects(f, Drop(invocations, 1), invocations)
      BY <3>1, DropSelects
    <3>3. Onward(Drop(invocations, 1), context.cursor)
      BY <3>2, OnwardLeft DEF CursorInv
    <3> QED BY <2>2, <3>3
  <2> QED BY <1>3, <2>1, <2>2
<1> HIDE DEF t, report
<1>5. PICK steps : /\ Goes(t, "callback", steps)
                   /\ steps # <<>> => \/ Head(steps).op = "exec"
                                      \/ Head(steps) = report /\ leave = {} /\ invocations' = <<>>
  BY CallbackGoes DEF t, report
<1>6. state = "RECEIVING" => context.cursor # 0 /\ context.cursor <= seen'
  BY <1>1, <1>2, <1>5, GivenStays
<1>7. LiveCursor'
  BY <1>3 DEF LiveCursor, Live
<1>8. steps # <<>> => Fitting(t, Head(steps))'
  <2>1. CASE Head(steps).op = "exec"
    BY <2>1 DEF Fitting
  <2>2. CASE Head(steps) = report /\ leave = {} /\ invocations' = <<>>
    <3>1. report.op = "report"
      BY DEF report
    <3>2. state' \notin Looping
      BY <1>1, <1>3, <2>2 DEF Awaited, AwaitedAt
    <3>3. current_transaction' = "NONE"
      BY <1>3, <2>2
    <3> QED BY <2>2, <3>1, <3>2, <3>3 DEF Fitting, t
  <2> QED BY <1>5, <2>1, <2>2
<1> QED BY <1>1, <1>2, <1>4, <1>5, <1>6, <1>7, <1>8, CursorsKept

\* An answer brings the messages after the cursor of its request, all of them.
LEMMA AnswerCovers ==
    ASSUME TInv, EndOk, Live, now # 0
    PROVE  /\ pb'.timetoken = now
           /\ pb.trans = "RECEIVE" /\ pb.cursor # 0 /\ pb.cursor < now =>
                 pb'.messages = now /\ pb'.cursor = pb.cursor
<1>1. PICK s \in {"IDLE", "KEEP_ALIVE_IDLE"} :
         pb' = [Over(s) EXCEPT !.messages = Messages, !.timetoken = now,
                               !.cursor = IF Messages = 0 THEN 0 ELSE @]
  BY DEF EndOk, Live
<1>2. pb \in PbOf(pb.channels)
  BY DEF TInv
<1>3. Over(s) \in PbOf({}) /\ Over(s).cursor = pb.cursor
  <2>1. Over(s) \in PbOf({})
    BY <1>2, PbOver
  <2> QED BY <1>2, <2>1 DEF Over, PbOf
<1> DEFINE o == Over(s)
           m == Messages
<1>4. /\ pb.trans = "RECEIVE" /\ pb.cursor # 0 /\ pb.cursor < now => m = now
  BY DEF Messages, Live
<1>5. pb' = [o EXCEPT !.messages = m, !.timetoken = now, !.cursor = IF m = 0 THEN 0 ELSE o.cursor]
  BY <1>1
<1>6. o \in PbOf({}) /\ o.cursor = pb.cursor
  BY <1>3
<1> HIDE DEF o, m
<1>7. /\ pb'.timetoken = now /\ pb'.messages = m
      /\ pb'.cursor = IF m = 0 THEN 0 ELSE o.cursor
  BY <1>5, <1>6 DEF PbOf
<1> QED BY <1>4, <1>6, <1>7

\* What the watcher is at when a transaction has ended
EndTold(s) == \/ s.op = "callback" /\ s.trans = pb.trans
              \/ s.op = "report" /\ Live /\ (s.ok => EndOk)

\* A transaction ends while both threads are away: an answer to a subscribe request is
\* reported, and the callback of any other tells what it was.  While a request is live
\* nothing is queued.
LEMMA EndEnters ==
    ASSUME TInv, LoopInv, LoopWindows, WaitInv, Ends
    PROVE  /\ todo["watcher"] = <<>> /\ todo["app"] = <<>> /\ todo'["app"] = <<>>
           /\ \E s : todo'["watcher"] = <<s>> /\ EndTold(s)
           /\ Live => current_transaction = "NONE" /\ invocations = <<>>
<1>1. pb.state \in {"BUSY", "WAIT_CANCEL"}
  BY Outcome
<1>2. \E s : Enters(<<s>>) /\ EndTold(s)
  <2>1. ASSUME NEW result \in {"OK", "ERROR"}, Enters(Callback(result)), pb.state = "BUSY",
               result = "OK" => EndOk
        PROVE  \E s : Enters(<<s>>) /\ EndTold(s)
    <3>1. CASE pb.trans \in Requests
      <4> DEFINE s == [op |-> "report", ok |-> result = "OK"]
      <4>1. Enters(<<s>>)
        BY <2>1, <3>1 DEF Callback
      <4>2. s.op = "report" /\ Live /\ (s.ok => EndOk)
        BY <2>1, <3>1 DEF Live
      <4> HIDE DEF s
      <4> QED BY <4>1, <4>2 DEF EndTold
    <3>2. CASE pb.trans \notin Requests
      <4> DEFINE s == [op |-> "callback", trans |-> pb.trans, ok |-> result = "OK"]
      <4>1. Enters(<<s>>)
        BY <2>1, <3>2 DEF Callback
      <4>2. s.op = "callback" /\ s.trans = pb.trans
        OBVIOUS
      <4> HIDE DEF s
      <4> QED BY <4>1, <4>2 DEF EndTold
    <3> QED BY <3>1, <3>2
  <2>2. CASE EndCancelled
    <3> DEFINE s == [op |-> "callback", trans |-> pb.trans, ok |-> "CANCELLED" = "OK"]
    <3>1. Enters(<<s>>)
      BY <2>2 DEF EndCancelled, Callback
    <3>2. s.op = "callback" /\ s.trans = pb.trans
      OBVIOUS
    <3> HIDE DEF s
    <3> QED BY <3>1, <3>2 DEF EndTold
  <2>3. CASE EndOk
    <3>1. Enters(Callback("OK")) /\ pb.state = "BUSY"
      BY <2>3 DEF EndOk
    <3> QED BY <2>1, <2>3, <3>1
  <2>4. CASE EndError
    <3>1. Enters(Callback("ERROR")) /\ pb.state = "BUSY"
      BY <2>4 DEF EndError
    <3> QED BY <2>1, <3>1
  <2> QED BY <2>2, <2>3, <2>4 DEF Ends
<1>3. PICK s : Enters(<<s>>) /\ EndTold(s)
  BY <1>2
<1>4. /\ todo["watcher"] = <<>> /\ todo'["watcher"] = <<s>> /\ todo'["app"] = todo["app"]
      /\ todo["app"] # <<>> => Head(todo["app"]).op = "heartbeat"
  BY <1>3 DEF Enters, TInv, Threads, LoopWindows
<1>5. todo["app"] = <<>>
  BY <1>1, <1>4 DEF LoopInv, CallsInv, HeartbeatHeld, Is, Threads, CanStart
<1>6. Live => current_transaction = "NONE" /\ invocations = <<>>
  <2>1. Live => current_transaction = "NONE"
    BY DEF WaitInv, Free
  <2>2. \A u \in Threads : ~ Is(u, {"exec", "done", "cancel", "cancelled", "callback"})
    BY <1>4, <1>5 DEF Is, Threads
  <2>3. Live => cancel_invocation = None
    BY <2>2 DEF WaitInv, CancelWaits, Live, Is, Threads
  <2> QED BY <2>1, <2>2, <2>3 DEF LoopInv, QueueInv, Progress
<1> QED BY <1>3, <1>4, <1>5, <1>6

\* A transaction ends: the time token that an answer brings is given out with the
\* messages up to it.
LEMMA CursorEnds ==
    ASSUME TInv, TInv', LeaveInv, LoopInv, LoopWindows, WaitInv, CursorInv, Ends
    PROVE  CursorInv'
<1>1. /\ pb.state \in {"BUSY", "WAIT_CANCEL"}
      /\ pb'.state \in {"IDLE", "KEEP_ALIVE_IDLE"}
  BY Outcome
<1>2. UNCHANGED <<state, context, invocations, current_transaction, now, seen>>
  BY DEF Ends, EndOk, EndError, EndCancelled, engine, flags, delivery
<1>3. /\ todo["watcher"] = <<>> /\ todo["app"] = <<>> /\ todo'["app"] = <<>>
      /\ \E s : todo'["watcher"] = <<s>> /\ EndTold(s)
      /\ Live => current_transaction = "NONE" /\ invocations = <<>>
  BY EndEnters
<1>4. PICK s : todo'["watcher"] = <<s>> /\ EndTold(s)
  BY <1>3
<1>5. \A u \in Threads : ~ Is(u, {"callback"}) /\ ~ Ending(u) /\ ~ Failing(u) /\ ~ Is(u, {"exec"})
  BY <1>3 DEF Is, Ending, Failing, Threads
<1>6. state = "RECEIVING" => context.cursor # 0 /\ context.cursor <= seen
  BY <1>5 DEF CursorInv, Given, Emitting, Threads
<1>7. ASSUME Live, EndOk, state \in Looping
       PROVE  pb'.timetoken # 0 /\ (state = "RECEIVING" => Covers(pb.timetoken)')
  <2>1. ForState(pb.trans, state) /\ ~ CancelAhead
    BY <1>3, <1>5, <1>7 DEF WaitInv, Needed, Awaited, AwaitedAt
  <2>2. pb.cursor = context.cursor
    BY <1>7, <2>1 DEF CursorInv, LiveCursor
  <2>3. now # 0
    BY DEF CursorInv
  <2>4. /\ pb'.timetoken = now
        /\ pb.trans = "RECEIVE" /\ pb.cursor # 0 /\ pb.cursor < now =>
              pb'.messages = now /\ pb'.cursor = pb.cursor
    BY <1>7, <2>3, AnswerCovers
  <2>5. ASSUME state = "RECEIVING" PROVE now <= seen \/ (now <= pb'.messages /\ pb'.cursor <= seen)
    <3>1. pb.trans = "RECEIVE" /\ pb.cursor # 0 /\ pb.cursor <= seen
      BY <1>6, <2>1, <2>2, <2>5 DEF ForState
    <3>2. pb.cursor \in Tokens /\ now \in Tokens /\ seen \in Tokens
      BY PbFacts DEF TInv
    <3>3. pb.cursor \in Nat /\ now \in Nat /\ seen \in Nat
      BY <3>2, BoundsAssumption DEF Tokens
    <3> QED BY <2>4, <3>1, <3>3
  <2> QED BY <1>2, <2>3, <2>4, <2>5 DEF Covers
<1>8. Fitting("watcher", s)'
  <2>1. s.op = "report" /\ s.ok /\ state \in Looping =>
           pb'.timetoken # 0 /\ (state = "RECEIVING" => Covers(pb.timetoken)')
    BY <1>4, <1>7 DEF EndTold
  <2> QED BY <1>2, <1>3, <1>4, <2>1 DEF Fitting, EndTold
<1>9. CallCursors'
  BY <1>3, <1>4, <1>8 DEF CallCursors, Threads
<1>10. Given'
  BY <1>2, <1>6 DEF Given
<1> QED BY <1>1, <1>2, <1>9, <1>10 DEF CursorInv, LiveCursor, Live

\* A call of the application enters the engine with the present cursor, or one that
\* the application gives it.
LEMMA CursorCall ==
    ASSUME TInv, LeaveInv, LoopInv, LoopWindows, CursorInv, Call
    PROVE  CursorInv'
<1>1. UNCHANGED <<state, context, invocations, current_transaction, pb, now, seen>>
  BY DEF Call, Subscribe, Unsubscribe, UnsubscribeAll, Disconnect, Reconnect, engine, flags, delivery
<1>2. PICK call : \E steps \in Seq(Steps) :
         /\ Enter(call, steps) /\ steps # <<>> /\ Head(steps).op \in {"leave", "changed", "event"}
         /\ Head(steps).op = "event" =>
               \/ Head(steps).type = "DISCONNECT" /\ Head(steps).ctx.cursor = context.cursor
               \/ Head(steps).type = "RECONNECT"
  BY CallEnters
<1>3. PICK steps \in Seq(Steps) :
         /\ Enter(call, steps) /\ steps # <<>> /\ Head(steps).op \in {"leave", "changed", "event"}
         /\ Head(steps).op = "event" =>
               \/ Head(steps).type = "DISCONNECT" /\ Head(steps).ctx.cursor = context.cursor
               \/ Head(steps).type = "RECONNECT"
  BY <1>2
<1>4. /\ todo["app"] = <<>> /\ todo'["app"] = steps /\ todo'["watcher"] = todo["watcher"]
      /\ todo["watcher"] # <<>> => Head(todo["watcher"]).op = "heartbeat"
  BY <1>3 DEF Enter, TInv, Threads, LoopWindows
<1>5. ~ Emitting
  BY <1>4 DEF Emitting, Is
<1>6. Fitting("app", Head(steps))'
  BY <1>1, <1>3 DEF Fitting, Succeeds, Moving
<1>7. CallCursors'
  <2>1. (todo["watcher"] # <<>> => Fitting("watcher", Head(todo["watcher"])))'
    BY <1>4 DEF Fitting
  <2> QED BY <1>4, <1>6, <2>1 DEF CallCursors, Threads
<1>8. LiveCursor'
  <2>1. CancelAhead => CancelAhead'
    <3>1. \A u \in Threads : Is(u, {"cancel"}) => Is(u, {"cancel"})'
      BY <1>4 DEF Is, Threads
    <3>2. (\E j \in DOMAIN invocations : CancelAt(invocations, j))
             => \E j \in DOMAIN invocations' : CancelAt(invocations', j)
      BY <1>1
    <3> QED BY <3>1, <3>2 DEF CancelAhead, AtCancel
  <2>2. Live' => Live /\ pb'.cursor = pb.cursor
    BY <1>1 DEF Live
  <2> QED BY <1>1, <2>1, <2>2, LiveGoesOn
<1>9. now' # 0 /\ Onward(invocations', context'.cursor)
  BY <1>1 DEF CursorInv
<1>10. Given'
  BY <1>1, <1>5 DEF CursorInv, Given
<1> QED BY <1>7, <1>8, <1>9, <1>10 DEF CursorInv

\* A message is published: the answers that bring it are still to come.
LEMMA CursorStands ==
    ASSUME CursorInv, now' # 0,
           UNCHANGED <<state, context, invocations, current_transaction, pb, todo, seen>>
    PROVE  CursorInv'
<1>1. Covers(context.cursor)' <=> Covers(context.cursor)
  BY DEF Covers
<1>2. Emitting' <=> Emitting
  BY <1>1 DEF Emitting, Is, FirstIs
<1>3. Given'
  BY <1>2 DEF CursorInv, Given
<1>4. CallCursors'
  <2> SUFFICES ASSUME NEW t \in Threads, todo[t] # <<>>, Fitting(t, Head(todo[t]))
               PROVE  Fitting(t, Head(todo[t]))'
    BY DEF CursorInv, CallCursors
  <2> QED BY DEF Fitting, Covers
<1>5. LiveCursor'
  BY DEF CursorInv, LiveCursor, Live, CancelAhead, CancelAt, AtCancel, Is
<1>6. Onward(invocations', context'.cursor)
  BY DEF CursorInv
<1> QED BY <1>3, <1>4, <1>5, <1>6 DEF CursorInv

\* At the start there is a message that nobody has asked for.
LEMMA CursorInitial == Init => CursorInv
<1> SUFFICES ASSUME Init PROVE CursorInv
  OBVIOUS
<1>1. /\ state = "UNSUBSCRIBED" /\ invocations = <<>> /\ pb.state = "IDLE" /\ now = 1
      /\ \A t \in Threads : todo[t] = <<>>
  BY DEF Init
<1>2. now # 0 /\ CallCursors
  BY <1>1 DEF CallCursors
<1>3. Onward(invocations, context.cursor)
  BY <1>1 DEF Onward
<1>4. LiveCursor /\ Given
  BY <1>1 DEF LiveCursor, Live, Given
<1> QED BY <1>2, <1>3, <1>4 DEF CursorInv

\* Every step keeps the cursors together.
LEMMA CursorStep ==
    TInv /\ TInv' /\ LeaveInv /\ LoopInv /\ LoopWindows /\ WaitInv /\ CursorInv /\ [Next]_vars
        => CursorInv'
<1> SUFFICES ASSUME TInv, TInv', LeaveInv, LoopInv, LoopWindows, WaitInv, CursorInv, [Next]_vars
             PROVE  CursorInv'
  OBVIOUS
<1>1. ASSUME NEW t \in Threads, ThreadStep(t) PROVE CursorInv'
  <2>1. CASE HandleEvent(t)
    BY <2>1, CursorHandleEvent
  <2>2. CASE Complete(t) \/ NotRunnable(t) \/ EmitStatus(t) \/ EmitMessages(t)
    BY <2>2, CursorComplete, CursorNotRunnable, CursorEmits
  <2>3. CASE CancelEffect(t) \/ Cancel(t) \/ CancelStarted(t)
    BY <2>3, CursorCancelEffect, CursorCancel, CursorCancelStarted
  <2>4. CASE MakeHeartbeat(t) \/ Heartbeat(t) \/ MakeSubscribeRequest(t) \/ SubscribeError(t)
    BY <2>4, CursorMakeHeartbeat, CursorHeartbeat, CursorMakeSubscribeRequest, CursorSubscribeError
  <2>5. CASE SubscriptionChanged(t) \/ Leave(t)
    BY <2>5, CursorSubscriptionChanged, CursorLeave
  <2> QED BY <1>1, <2>1, <2>2, <2>3, <2>4, <2>5 DEF ThreadStep
<1>2. CASE WatcherStep
  BY <1>2, CursorRequeued, CursorCallback, CursorReport DEF WatcherStep
<1>3. CASE Publish
  <2>1. UNCHANGED <<state, context, invocations, current_transaction, pb, todo, seen>>
    BY <1>3 DEF Publish, engine, flags, delivery
  <2>2. now' # 0
    <3>1. now \in Nat /\ now' = now + 1
      BY <1>3, BoundsAssumption DEF Publish, TInv, Tokens
    <3> QED BY <3>1
  <2> QED BY <2>1, <2>2, CursorStands
<1>4. CASE UNCHANGED vars
  <2>1. UNCHANGED <<state, context, invocations, current_transaction, pb, todo, now, seen>>
    BY <1>4 DEF vars, engine, flags, delivery
  <2>2. now' # 0
    BY <2>1 DEF CursorInv
  <2> QED BY <2>1, <2>2, CursorStands
<1> QED BY <1>1, <1>2, <1>3, <1>4, CursorEnds, CursorCall DEF Next

-----------------------------------------------------------------------------
(* A cancel that is lost *)

\* Step s reports no request and starts none, and it leaves invocation id alone.
Harmless(s, id) ==
    /\ s.op \notin {"report", "heartbeat"}
    /\ s.op = "event" => s.type \notin Succeeds
    /\ s.op = "exec" => s.id[1] = "CANCEL"
    /\ s.op \in {"done", "cancel", "cancelled"} => s.id # id
AllHarmless == \A t \in Threads : \A i \in DOMAIN todo[t] : Harmless(todo[t][i], invocations[1].id)

\* The first of the queue is a cancel that was begun: nothing behind it is run.
Jammed == invocations # <<>> /\ invocations[1].status = "RUNNING" /\ invocations[1].id[1] = "CANCEL"
Silent == ~ Live /\ (pb.requeued => pb.trans \notin Requests) /\ state # "RECEIVING"

\* A second cancel begins while the first waits for its callback ...
Overwriting ==
    /\ todo["watcher"] = <<>> /\ pb.state = "WAIT_CANCEL"
    /\ current_transaction = "NONE" /\ cancel_invocation # None
    /\ \/ Is("app", {"cancel", "cancelled"})
       \/ /\ Is("app", {"exec"})
          /\ \E i \in DOMAIN invocations :
                invocations[i].id = Head(todo["app"]).id /\ CancelAt(invocations, i)

\* ... takes its place in cancel_invocation, and the first never ends.
Lost == "overwritten" \in jams

\* The queue stands: its first invocation is a cancel whose end nobody will be told.
StuckInv == /\ Unique /\ Jammed /\ AllHarmless /\ Silent
            /\ IF Lost THEN cancel_invocation # invocations[1].id ELSE Overwriting

\* Where a thread is
LEMMA HeadHarmless ==
    ASSUME TInv, AllHarmless, NEW t \in Threads, NEW op, At(t, op)
    PROVE  /\ todo[t] # <<>> /\ Head(todo[t]).op = op /\ Head(todo[t]) \in Steps
           /\ Harmless(Head(todo[t]), invocations[1].id)
<1>1. todo[t] # <<>> /\ Head(todo[t]).op = op /\ Head(todo[t]) \in Steps
  BY AtFacts DEF TInv
<1>2. todo[t] \in Seq(Steps)
  BY DEF TInv
<1>3. 1 \in DOMAIN todo[t] /\ Head(todo[t]) = todo[t][1]
  BY <1>1, <1>2
<1>4. Harmless(todo[t][1], invocations[1].id)
  BY <1>3 DEF AllHarmless
<1> QED BY <1>1, <1>3, <1>4

\* A call that goes on with harmless steps
LEMMA HarmlessThen ==
    ASSUME TInv, AllHarmless, NEW t \in Threads, todo[t] # <<>>,
           NEW steps \in Seq(Steps), Then(t, steps),
           \A i \in DOMAIN steps : Harmless(steps[i], invocations[1].id),
           invocations'[1] = invocations[1]
    PROVE  AllHarmless'
<1> DEFINE id == invocations[1].id
           rest == Tail(todo[t])
<1>1. /\ todo'[t] = steps \o rest
      /\ \A u \in Threads \ {t} : todo'[u] = todo[u]
  BY ThenTyped DEF TInv
<1>2. todo[t] \in Seq(Steps)
  BY DEF TInv
<1>3. rest \in Seq(Steps) /\ \A i \in DOMAIN rest : i + 1 \in DOMAIN todo[t] /\ rest[i] = todo[t][i + 1]
  BY <1>2
<1>4. \A u \in Threads : \A i \in DOMAIN todo[u] : Harmless(todo[u][i], id)
  BY DEF AllHarmless
<1>5. \A i \in DOMAIN rest : Harmless(rest[i], id)
  BY <1>3, <1>4
<1> HIDE DEF id, rest
<1>6. \A i \in DOMAIN steps : Harmless(steps[i], id)
  BY DEF id
<1>7. \A i \in DOMAIN (steps \o rest) : Harmless((steps \o rest)[i], id)
  <2> DEFINE c == steps \o rest
  <2>1. rest \in Seq(Steps)
    BY <1>3
  <2>2. /\ \A k \in DOMAIN steps : c[k] = steps[k]
        /\ \A k \in DOMAIN rest : c[Len(steps) + k] = rest[k]
        /\ \A i \in DOMAIN c : i \in DOMAIN steps \/ \E k \in DOMAIN rest : i = Len(steps) + k
    BY <2>1, Joined
  <2> HIDE DEF c
  <2>3. ASSUME NEW i \in DOMAIN c PROVE Harmless(c[i], id)
    BY <1>5, <1>6, <2>2
  <2> QED BY <2>3 DEF c
<1>8. ASSUME NEW u \in Threads, NEW i \in DOMAIN todo'[u] PROVE Harmless(todo'[u][i], id)
  BY <1>1, <1>4, <1>7
<1>9. id = invocations'[1].id
  BY DEF id
<1> QED BY <1>8, <1>9 DEF AllHarmless

\* The lost cancel stays the first of the queue when another is marked or completed.
LEMMA FirstStays ==
    ASSUME TInv, Unique, Jammed, NEW id, id # invocations[1].id,
           \/ invocations' = Completed(id)
           \/ Queued(id) /\ \E s \in {"CREATED", "RUNNING"} : invocations' = Mark(id, s)
    PROVE  Unique' /\ invocations' # <<>> /\ invocations'[1] = invocations[1]
<1> DEFINE q == invocations
           r == invocations'
           d == Index(id)
           n == Len(q)
<1>1. q \in Seq(Invocations) /\ n \in Nat /\ DOMAIN q = 1..n /\ 1 \in DOMAIN q
  BY DEF TInv, Jammed
<1>2. \A i, j \in DOMAIN q : q[i].id = q[j].id => i = j
  BY DEF Unique
<1>3. Queued(id) => d \in DOMAIN q /\ q[d].id = id /\ d # 1
  BY DEF Queued, Index
<1>4. CASE r = q
  BY <1>1, <1>2, <1>4 DEF Unique
<1>5. CASE Queued(id) /\ r = Drop(q, d)
  <2>1. /\ r \in Seq(Invocations) /\ Len(r) = n - 1
        /\ \A k \in 1 .. n - 1 : r[k] = IF k < d THEN q[k] ELSE q[k + 1]
    BY <1>1, <1>3, <1>5, DropIndex
  <2>2. d \in 1..n /\ d # 1
    BY <1>1, <1>3, <1>5
  <2> HIDE DEF d, n, q, r
  <2>3. DOMAIN r = 1 .. n - 1 /\ 1 \in 1 .. n - 1
    BY <1>1, <2>1, <2>2
  <2>4. r # <<>> /\ r[1] = q[1]
    BY <2>1, <2>2, <2>3
  <2>5. ASSUME NEW i \in DOMAIN r, NEW j \in DOMAIN r, r[i].id = r[j].id PROVE i = j
    <3> DEFINE f(k) == IF k < d THEN k ELSE k + 1
    <3>1. /\ i \in 1 .. n - 1 /\ j \in 1 .. n - 1
          /\ f(i) \in 1..n /\ f(j) \in 1..n
      BY <1>1, <2>2, <2>3
    <3>2. r[i] = q[f(i)] /\ r[j] = q[f(j)]
      BY <2>1, <3>1
    <3>3. f(i) = f(j)
      <4> HIDE DEF f
      <4> QED BY <1>1, <1>2, <2>5, <3>1, <3>2
    <3> QED BY <1>1, <2>2, <3>1, <3>3
  <2> QED BY <2>4, <2>5 DEF q, r, Unique
<1>6. CASE Queued(id) /\ \E s \in {"CREATED", "RUNNING"} : r = Mark(id, s)
  <2>1. PICK s \in {"CREATED", "RUNNING"} : r = Mark(id, s)
    BY <1>6
  <2>2. /\ r \in Seq(Invocations) /\ DOMAIN r = DOMAIN q
        /\ \A j \in DOMAIN q : r[j].id = q[j].id /\ (j # d => r[j] = q[j])
    BY <1>1, <2>1, MarkFacts
  <2>3. r[1] = q[1] /\ r # <<>>
    BY <1>1, <1>3, <1>6, <2>2
  <2> QED BY <1>2, <2>2, <2>3 DEF Unique
<1>7. r = q \/ (Queued(id) /\ r = Drop(q, d)) \/ (Queued(id) /\ \E s \in {"CREATED", "RUNNING"} : r = Mark(id, s))
  BY DEF Completed
<1> QED BY <1>4, <1>5, <1>6, <1>7

\* What is run next is the lost cancel, or a cancel.
LEMMA RunsHarmless ==
    ASSUME NEW q \in Seq(Invocations), q # <<>> => q[1].id[1] = "CANCEL", NEW id
    PROVE  /\ ProcessNext(q) \in Seq(Steps)
           /\ \A i \in DOMAIN ProcessNext(q) : Harmless(ProcessNext(q)[i], id)
<1>1. ProcessNext(q) \in Seq(Steps)
  BY ProcessNextTyped
<1>2. CASE q = <<>>
  <2>1. ProcessNext(q) = <<>>
    BY <1>2 DEF ProcessNext
  <2> QED BY <1>1, <2>1
<1>3. CASE q # <<>>
  <2> DEFINE s == With("exec", q[1].id)
  <2>1. ProcessNext(q) = <<s>>
    BY <1>3 DEF ProcessNext
  <2>2. Harmless(s, id)
    BY <1>3 DEF Harmless, With
  <2> HIDE DEF s
  <2>3. \A i \in DOMAIN <<s>> : <<s>>[i] = s
    OBVIOUS
  <2> QED BY <1>1, <2>1, <2>2, <2>3
<1> QED BY <1>2, <1>3

\* One harmless step, and none
LEMMA OneHarmless ==
    ASSUME NEW s \in Steps, NEW id, Harmless(s, id)
    PROVE  <<s>> \in Seq(Steps) /\ \A i \in DOMAIN <<s>> : Harmless(<<s>>[i], id)
<1>1. <<s>> \in Seq(Steps) /\ \A i \in DOMAIN <<s>> : <<s>>[i] = s
  OBVIOUS
<1> QED BY <1>1

LEMMA NoneHarmless ==
    ASSUME NEW id
    PROVE  <<>> \in Seq(Steps) /\ \A i \in DOMAIN <<>> : Harmless(<<>>[i], id)
OBVIOUS

\* What was lost stays lost.
LEMMA JamsKept ==
    ASSUME [Next]_vars, "overwritten" \in jams
    PROVE  "overwritten" \in jams'
BY JamsStep

\* A thread goes on with harmless steps.
LEMMA StuckGoes ==
    ASSUME TInv, StuckInv, Lost, Lost', NEW t \in Threads, NEW op, At(t, op),
           NEW steps \in Seq(Steps), Then(t, steps),
           \A i \in DOMAIN steps : Harmless(steps[i], invocations[1].id),
           Unique', invocations' # <<>>, invocations'[1] = invocations[1],
           cancel_invocation' # invocations[1].id,
           state' = "RECEIVING" => state = "RECEIVING",
           Live' => Live,
           pb'.requeued /\ pb'.trans \in Requests => pb.requeued /\ pb.trans \in Requests
    PROVE  StuckInv'
<1>1. AllHarmless /\ Jammed /\ Silent
  BY DEF StuckInv
<1>2. todo[t] # <<>>
  BY DEF At
<1>3. AllHarmless'
  BY <1>1, <1>2, HarmlessThen
<1>4. Jammed'
  BY <1>1 DEF Jammed
<1>5. Silent'
  BY <1>1 DEF Silent
<1> QED BY <1>3, <1>4, <1>5 DEF StuckInv, Lost

\* A call that returns, and leaves the queue
LEMMA StuckBack ==
    ASSUME TInv, StuckInv, Lost, Lost', NEW t \in Threads, NEW op, At(t, op), Return(t),
           UNCHANGED <<state, invocations>>, cancel_invocation' # invocations[1].id,
           Live' => Live,
           pb'.requeued /\ pb'.trans \in Requests => pb.requeued /\ pb.trans \in Requests
    PROVE  StuckInv'
<1>1. Unique' /\ invocations' # <<>> /\ invocations'[1] = invocations[1]
  BY DEF StuckInv, Jammed, Unique
<1>2. Then(t, <<>>)
  BY DEF Return
<1>3. <<>> \in Seq(Steps) /\ \A i \in DOMAIN <<>> : Harmless(<<>>[i], invocations[1].id)
  BY NoneHarmless
<1> QED BY <1>1, <1>2, <1>3, StuckGoes

\* An effect that is run, and where it is in the queue
LEMMA StuckRuns ==
    ASSUME TInv, StuckInv, NEW t \in Threads, NEW types, Runs(t, types)
    PROVE  /\ Head(todo[t]).id[1] = "CANCEL" /\ "CANCEL" \in types
           /\ Head(todo[t]).id # invocations[1].id /\ Queued(Head(todo[t]).id)
           /\ Head(todo[t]).id \in Ids
<1> DEFINE id == Head(todo[t]).id
<1>1. At(t, "exec") /\ Queued(id) /\ Invocation(id).status = "CREATED" /\ id[1] \in types
  BY DEF Runs
<1>2. todo[t] # <<>> /\ Head(todo[t]).op = "exec" /\ Head(todo[t]) \in Steps
      /\ Harmless(Head(todo[t]), invocations[1].id)
  BY <1>1, HeadHarmless DEF StuckInv
<1>3. id[1] = "CANCEL"
  BY <1>2 DEF Harmless
<1>4. id \in Ids
  BY <1>2, StepFacts DEF IdOps
<1>5. Index(id) \in DOMAIN invocations /\ invocations[Index(id)].id = id
      /\ invocations[Index(id)].status = "CREATED"
  BY <1>1 DEF Queued, Index, Invocation
<1>6. 1 \in DOMAIN invocations /\ invocations[1].status = "RUNNING"
  BY DEF StuckInv, Jammed, TInv
<1>7. id # invocations[1].id
  <2> SUFFICES ASSUME id = invocations[1].id PROVE FALSE
    OBVIOUS
  <2>1. Index(id) = 1
    BY <1>5, <1>6 DEF StuckInv, Unique
  <2> QED BY <1>5, <1>6, <2>1
<1> QED BY <1>1, <1>3, <1>4, <1>7

\* The end of another effect
LEMMA StuckComplete ==
    ASSUME TInv, TInv', StuckInv, Lost, Lost', NEW t \in Threads, Complete(t)
    PROVE  StuckInv'
<1> DEFINE id == Head(todo[t]).id
           steps == IF invocations' # invocations THEN ProcessNext(invocations') ELSE <<>>
<1>1. At(t, "done") /\ invocations' = Completed(id) /\ Then(t, steps)
      /\ UNCHANGED <<state, flags, pb>>
  BY DEF Complete
<1>2. Head(todo[t]).op = "done" /\ Harmless(Head(todo[t]), invocations[1].id)
  BY <1>1, HeadHarmless DEF StuckInv
<1>3. id # invocations[1].id
  BY <1>2 DEF Harmless
<1>4. Unique' /\ invocations' # <<>> /\ invocations'[1] = invocations[1]
  BY <1>1, <1>3, FirstStays DEF StuckInv
<1>5. invocations' \in Seq(Invocations) /\ invocations'[1].id[1] = "CANCEL"
  BY <1>4 DEF TInv, StuckInv, Jammed
<1>6. steps \in Seq(Steps) /\ \A i \in DOMAIN steps : Harmless(steps[i], invocations[1].id)
  BY <1>5, RunsHarmless, NoneHarmless
<1>7. cancel_invocation' # invocations[1].id /\ (Live' => Live)
      /\ (pb'.requeued /\ pb'.trans \in Requests => pb.requeued /\ pb.trans \in Requests)
      /\ (state' = "RECEIVING" => state = "RECEIVING")
  BY <1>1 DEF StuckInv, Lost, flags, Live
<1> HIDE DEF steps
<1> QED BY <1>1, <1>4, <1>6, <1>7, StuckGoes

\* Another cancel is run: begun, or paused.
LEMMA StuckCancelEffect ==
    ASSUME TInv, TInv', StuckInv, Lost, Lost', NEW t \in Threads, CancelEffect(t)
    PROVE  StuckInv'
<1> DEFINE id == Head(todo[t]).id
<1>1. Runs(t, {"CANCEL"}) /\ At(t, "exec") /\ UNCHANGED <<state, flags, pb>>
  BY DEF CancelEffect, Runs
<1>2. id # invocations[1].id /\ Queued(id) /\ id \in Ids
  BY <1>1, StuckRuns
<1>3. cancel_invocation' # invocations[1].id /\ (Live' => Live)
      /\ (pb'.requeued /\ pb'.trans \in Requests => pb.requeued /\ pb.trans \in Requests)
      /\ (state' = "RECEIVING" => state = "RECEIVING")
  BY <1>1 DEF StuckInv, Lost, flags, Live
<1>4. CASE Return(t) /\ UNCHANGED invocations
  BY <1>1, <1>3, <1>4, StuckBack
<1>5. CASE invocations' = Mark(id, "RUNNING") /\ Then(t, <<With("cancel", id)>>)
  <2>1. Unique' /\ invocations' # <<>> /\ invocations'[1] = invocations[1]
    BY <1>2, <1>5, FirstStays DEF StuckInv
  <2>2. With("cancel", id) \in Steps /\ With("cancel", id).op = "cancel" /\ With("cancel", id).id = id
    BY <1>2, IdStep DEF IdOps
  <2>3. Harmless(With("cancel", id), invocations[1].id)
    BY <1>2, <2>2 DEF Harmless
  <2>4. <<With("cancel", id)>> \in Seq(Steps)
        /\ \A i \in DOMAIN <<With("cancel", id)>> : Harmless(<<With("cancel", id)>>[i], invocations[1].id)
    BY <2>2, <2>3, OneHarmless
  <2> QED BY <1>1, <1>3, <1>5, <2>1, <2>4, StuckGoes
<1> QED BY <1>4, <1>5 DEF CancelEffect

\* pubnub_cancel for another invocation
LEMMA StuckCancel ==
    ASSUME TInv, TInv', StuckInv, Lost, Lost', NEW t \in Threads, Cancel(t)
    PROVE  StuckInv'
<1> DEFINE id == Head(todo[t]).id
           op == IF pb.state = "IDLE" THEN "done" ELSE "cancelled"
<1>1. At(t, "cancel") /\ pb' = Cancelled /\ Then(t, <<With(op, id)>>)
      /\ UNCHANGED <<state, invocations, cancel_invocation>>
  BY DEF Cancel, engine, flags
<1>2. Head(todo[t]).op = "cancel" /\ Harmless(Head(todo[t]), invocations[1].id) /\ Head(todo[t]) \in Steps
  BY <1>1, HeadHarmless DEF StuckInv
<1>3. id # invocations[1].id /\ id \in Ids
  BY <1>2, StepFacts DEF Harmless, IdOps
<1>4. With(op, id) \in Steps /\ With(op, id).op = op /\ With(op, id).id = id
  BY <1>3, IdStep DEF IdOps
<1>5. Harmless(With(op, id), invocations[1].id)
  BY <1>3, <1>4 DEF Harmless
<1> HIDE DEF op
<1>6. <<With(op, id)>> \in Seq(Steps)
      /\ \A i \in DOMAIN <<With(op, id)>> : Harmless(<<With(op, id)>>[i], invocations[1].id)
  BY <1>4, <1>5, OneHarmless
<1>7. Unique' /\ invocations' # <<>> /\ invocations'[1] = invocations[1]
  BY <1>1 DEF StuckInv, Jammed, Unique
<1>8. ~ pb'.requeued /\ pb'.state # "BUSY"
  <2>1. pb \in PbOf(pb.channels)
    BY DEF TInv
  <2>2. ~ Cancelled.requeued
    BY <2>1, PbCancelled
  <2>3. Cancelled.state # "BUSY"
    BY <2>1 DEF Cancelled, PbOf
  <2> QED BY <1>1, <2>2, <2>3
<1>9. cancel_invocation' # invocations[1].id /\ (Live' => Live)
      /\ (state' = "RECEIVING" => state = "RECEIVING")
  BY <1>1, <1>8 DEF StuckInv, Lost, Live
<1> QED BY <1>1, <1>6, <1>7, <1>8, <1>9, StuckGoes

\* Another cancel is noted in the slot of the lost one.
LEMMA StuckCancelStarted ==
    ASSUME TInv, TInv', StuckInv, Lost, Lost', NEW t \in Threads, CancelStarted(t)
    PROVE  StuckInv'
<1>1. At(t, "cancelled") /\ Return(t) /\ cancel_invocation' = Head(todo[t]).id
      /\ UNCHANGED <<state, invocations, pb>>
  BY DEF CancelStarted, engine
<1>2. Head(todo[t]).op = "cancelled" /\ Harmless(Head(todo[t]), invocations[1].id)
  BY <1>1, HeadHarmless DEF StuckInv
<1>3. cancel_invocation' # invocations[1].id
  BY <1>1, <1>2 DEF Harmless
<1> QED BY <1>1, <1>3, StuckBack DEF Live

\* Only cancels are run.
LEMMA StuckNever ==
    ASSUME TInv, StuckInv, NEW t \in Threads
    PROVE  /\ ~ EmitStatus(t) /\ ~ EmitMessages(t) /\ ~ MakeHeartbeat(t) /\ ~ MakeSubscribeRequest(t)
           /\ ~ Heartbeat(t) /\ ~ Report
<1>1. \A types : Runs(t, types) => "CANCEL" \in types
  BY StuckRuns
<1>2. ~ EmitStatus(t) /\ ~ EmitMessages(t) /\ ~ MakeHeartbeat(t) /\ ~ MakeSubscribeRequest(t)
  BY <1>1 DEF EmitStatus, EmitMessages, MakeHeartbeat, MakeSubscribeRequest, Requests
<1>3. \A u \in Threads, op \in {"heartbeat", "report"} : ~ At(u, op)
  BY HeadHarmless DEF StuckInv, Harmless
<1>4. "watcher" \in Threads
  BY DEF Threads
<1> QED BY <1>2, <1>3, <1>4 DEF Heartbeat, Report

\* A failed request becomes a failure; a subscription changes.
LEMMA StuckTells ==
    ASSUME TInv, TInv', StuckInv, Lost, Lost', NEW t \in Threads,
           SubscribeError(t) \/ SubscriptionChanged(t)
    PROVE  StuckInv'
<1> DEFINE id == invocations[1].id
           H(steps) == steps \in Seq(Steps) /\ \A i \in DOMAIN steps : Harmless(steps[i], id)
<1>1. UNCHANGED <<state, invocations, cancel_invocation, pb>>
  BY DEF SubscribeError, SubscriptionChanged, engine, flags
<1>2. Unique' /\ invocations' # <<>> /\ invocations'[1] = invocations[1]
  BY <1>1 DEF StuckInv, Jammed, Unique
<1>3. cancel_invocation' # id /\ (Live' => Live)
      /\ (pb'.requeued /\ pb'.trans \in Requests => pb.requeued /\ pb.trans \in Requests)
      /\ (state' = "RECEIVING" => state = "RECEIVING")
  BY <1>1 DEF StuckInv, Lost, Live
<1>4. ASSUME NEW s \in Steps, s.op = "event", s.type \notin Succeeds PROVE H(<<s>>)
  BY <1>4, OneHarmless DEF Harmless
<1>5. H(<<>>)
  BY NoneHarmless
<1> HIDE DEF H
<1>6. CASE SubscribeError(t)
  <2>1. ASSUME NEW type \in {"HANDSHAKE_FAILURE", "RECEIVE_FAILURE"} PROVE H(<<CopyEvent(type)>>)
    <3>1. CopyEvent(type) \in Steps
      BY CopyStep DEF EventTypes
    <3>2. CopyEvent(type).op = "event" /\ CopyEvent(type).type = type
      BY DEF CopyEvent, Event
    <3> QED BY <1>4, <3>1, <3>2 DEF Succeeds
  <2>2. \E steps : H(steps) /\ Then(t, steps)
    BY <1>5, <1>6, <2>1 DEF SubscribeError
  <2>3. PICK steps : H(steps) /\ Then(t, steps)
    BY <2>2
  <2>4. At(t, "error")
    BY <1>6 DEF SubscribeError
  <2> QED BY <1>2, <1>3, <2>3, <2>4, StuckGoes DEF H
<1>7. CASE SubscriptionChanged(t)
  <2> DEFINE c == Head(todo[t])
             s == IF c.cursor = 0
                  THEN Event("SUBSCRIPTION_CHANGED", subscribables, context.cursor, c.heartbeat)
                  ELSE Event("SUBSCRIPTION_RESTORED", subscribables, c.cursor, c.heartbeat)
  <2>1. At(t, "changed") /\ Then(t, <<s>>)
    BY <1>7 DEF SubscriptionChanged
  <2>2. c.cursor \in Tokens /\ c.heartbeat \in BOOLEAN
    BY <2>1, AtFacts, StepFacts DEF TInv
  <2>3. subscribables \in SUBSET Channels /\ context.cursor \in Tokens
    BY DEF TInv, Contexts
  <2> HIDE DEF c
  <2>4. s \in Steps
    <3>1. Event("SUBSCRIPTION_CHANGED", subscribables, context.cursor, c.heartbeat) \in Steps
      BY <2>2, <2>3, EventStep DEF EventTypes
    <3>2. Event("SUBSCRIPTION_RESTORED", subscribables, c.cursor, c.heartbeat) \in Steps
      BY <2>2, <2>3, EventStep DEF EventTypes
    <3> QED BY <3>1, <3>2
  <2>5. s.op = "event" /\ s.type \notin Succeeds
    BY DEF Event, Succeeds
  <2> HIDE DEF s
  <2>6. H(<<s>>)
    BY <1>4, <2>4, <2>5
  <2> QED BY <1>2, <1>3, <2>1, <2>6, StuckGoes DEF H
<1> QED BY <1>6, <1>7

\* The leave of a call is sent, or waits.
LEMMA StuckLeave ==
    ASSUME TInv, TInv', StuckInv, Lost, Lost', NEW t \in Threads, Leave(t)
    PROVE  StuckInv'
<1>1. At(t, "leave") /\ Return(t) /\ UNCHANGED <<state, invocations, cancel_invocation>>
  BY DEF Leave, engine
<1>2. cancel_invocation' # invocations[1].id
  BY <1>1 DEF StuckInv, Lost
<1>3. CASE UNCHANGED pb
  BY <1>1, <1>2, <1>3, StuckBack DEF Live
<1>4. CASE pb' = Started("LEAVE", Head(todo[t]).channels)
  <2>1. pb \in PbOf(pb.channels) /\ "LEAVE" \in Transactions
    BY DEF TInv, Transactions
  <2>2. pb'.trans = "LEAVE" /\ ~ pb'.requeued
    BY <1>4, <2>1, PbStarted
  <2>3. Live' => Live
    BY <2>2 DEF Live, Requests
  <2> QED BY <1>1, <1>2, <2>2, <2>3, StuckBack
<1> QED BY <1>3, <1>4 DEF Leave

\* An event: nothing that succeeded, so the state does not come to RECEIVING.
LEMMA StuckHandleEvent ==
    ASSUME TInv, TInv', StuckInv, Lost, Lost', NEW t \in Threads, HandleEvent(t)
    PROVE  StuckInv'
<1> DEFINE id == invocations[1].id
<1>1. CASE /\ At(t, "event") /\ Return(t)
           /\ Target(state, Head(todo[t]).type, Head(todo[t]).ctx.channels = {}) = "NONE"
           /\ UNCHANGED <<engine, flags, calls, pb>>
  <2>1. UNCHANGED <<state, invocations, cancel_invocation, pb>>
    BY <1>1 DEF engine, flags
  <2>2. cancel_invocation' # id
    BY <2>1 DEF StuckInv, Lost
  <2> QED BY <1>1, <2>1, <2>2, StuckBack DEF Live
<1>2. ASSUME NEW ev, NEW target, NEW e, NEW q, NEW f, NEW new, NEW steps,
             Taken(t, ev, target, e, q, f, new, steps)
      PROVE  StuckInv'
  <2>1. /\ At(t, "event") /\ ev = Head(todo[t]) /\ ev \in Steps /\ ev.op = "event"
        /\ target = Target(state, ev.type, ev.ctx.channels = {}) /\ state' = target
        /\ UNCHANGED <<cancel_invocation, pb>>
        /\ steps \in Seq(Steps) /\ Then(t, steps)
        /\ e = <<>> => steps = <<>>
        /\ e # <<>> => /\ Head(steps).op = "exec" /\ new # <<>>
                       /\ Head(steps).id = IF e[1] = "CANCEL" THEN new[1].id ELSE invocations'[1].id
    BY <1>2 DEF Taken, flags
  <2>2. Harmless(ev, id)
    BY <2>1, HeadHarmless DEF StuckInv
  <2>3. ev.type \in EventTypes /\ ev.type \notin Succeeds
    BY <2>1, <2>2, StepFacts DEF Harmless
  <2>4. state # "RECEIVING" /\ state \in States
    BY DEF StuckInv, Silent, TInv
  <2>5. state' # "RECEIVING"
    BY <2>1, <2>3, <2>4 DEF Target, Succeeds, EventTypes, States, Looping, Stopped, Failed
  <2>6. Unique' /\ invocations' # <<>> /\ invocations'[1] = invocations[1]
    BY <1>2, TakenFirst DEF StuckInv, Jammed
  <2>7. cancel_invocation' # id /\ (Live' => Live)
        /\ (pb'.requeued /\ pb'.trans \in Requests => pb.requeued /\ pb.trans \in Requests)
    BY <2>1 DEF StuckInv, Lost, Live
  <2>8. \A i \in DOMAIN steps : Harmless(steps[i], id)
    <3>1. CASE e = <<>>
      BY <2>1, <3>1, NoneHarmless
    <3>2. CASE e # <<>>
      <4>1. 1 \in DOMAIN new /\ new[1].id[1] = e[1]
        <5>1. PICK n : n = Len(q)
          OBVIOUS
        <5>2. 1 \in DOMAIN e /\ \A i \in DOMAIN e : i \in DOMAIN new
          BY <1>2, <3>2, <5>1, TakenPlaces
        <5>3. \A k \in DOMAIN new : new[k].id[1] = e[k]
          BY <1>2 DEF Taken, Adds
        <5> QED BY <5>2, <5>3
      <4>2. Head(steps).id[1] = "CANCEL" /\ Head(steps).op = "exec"
        BY <2>1, <2>6, <3>2, <4>1 DEF StuckInv, Jammed
      <4>3. Harmless(Head(steps), id)
        BY <4>2 DEF Harmless
      <4>4. \A i \in DOMAIN steps : i = 1 \/ steps[i].op = "error"
        <5>1. \A i \in DOMAIN steps : i > 1 => steps[i].op = "error"
          BY <1>2 DEF Taken
        <5>2. \A i \in DOMAIN steps : i \in Nat /\ i >= 1
          BY <2>1
        <5> QED BY <5>1, <5>2
      <4>5. \A i \in DOMAIN steps : steps[i].op = "error" => Harmless(steps[i], id)
        BY DEF Harmless
      <4>6. 1 \in DOMAIN steps => steps[1] = Head(steps)
        BY <2>1
      <4> QED BY <4>3, <4>4, <4>5, <4>6
    <3> QED BY <3>1, <3>2
  <2> QED BY <2>1, <2>5, <2>6, <2>7, <2>8, StuckGoes
<1> QED BY <1>1, <1>2, HandleEventTakes

\* A step of a thread
LEMMA StuckThread ==
    ASSUME TInv, TInv', StuckInv, Lost, Lost', NEW t \in Threads, ThreadStep(t)
    PROVE  StuckInv'
<1>1. CASE HandleEvent(t) \/ Complete(t) \/ CancelEffect(t) \/ Cancel(t) \/ CancelStarted(t)
  BY <1>1, StuckHandleEvent, StuckComplete, StuckCancelEffect, StuckCancel, StuckCancelStarted
<1>2. CASE SubscribeError(t) \/ SubscriptionChanged(t) \/ Leave(t)
  BY <1>2, StuckTells, StuckLeave
<1>3. CASE NotRunnable(t)
  <2>1. At(t, "exec") /\ Return(t) /\ UNCHANGED <<state, invocations, cancel_invocation, pb>>
    BY <1>3 DEF NotRunnable, engine, flags
  <2>2. cancel_invocation' # invocations[1].id
    BY <2>1 DEF StuckInv, Lost
  <2> QED BY <2>1, <2>2, StuckBack DEF Live
<1> QED BY <1>1, <1>2, <1>3, StuckNever DEF ThreadStep

\* The leave that a callback prepared is sent.
LEMMA StuckRequeued ==
    ASSUME TInv, TInv', StuckInv, Lost, Lost', Requeued
    PROVE  StuckInv'
<1>1. pb.requeued /\ UNCHANGED <<state, invocations, cancel_invocation>>
      /\ todo' = [todo EXCEPT !["watcher"] = <<>>] /\ todo["watcher"] = <<>>
  BY DEF Requeued, Enters, engine, flags
<1>2. pb \in PbOf(pb.channels) /\ pb' = [pb EXCEPT !.requeued = FALSE, !.state = IF CanStart THEN "BUSY" ELSE @]
  BY DEF Requeued, TInv
<1>3. ~ pb'.requeued /\ pb'.trans = pb.trans
  BY <1>2 DEF PbOf
<1>4. pb.trans \notin Requests
  BY <1>1 DEF StuckInv, Silent
<1>5. todo' = todo
  BY <1>1 DEF TInv
<1>6. AllHarmless'
  BY <1>1, <1>5 DEF StuckInv, AllHarmless
<1> QED BY <1>1, <1>3, <1>4, <1>6 DEF StuckInv, Lost, Unique, Jammed, Silent, Live

\* pbcc_subscribe_callback_ of another cancel completes that, and the lost one is the
\* first of the queue again: it is running, and is not run.
LEMMA StuckCallback ==
    ASSUME TInv, TInv', StuckInv, Lost, Lost', OtherCallback
    PROVE  StuckInv'
<1> DEFINE id == invocations[1].id
<1>1. "watcher" \in Threads /\ At("watcher", "callback") /\ UNCHANGED state /\ cancel_invocation' = None
      /\ invocations' = IF cancel_invocation = None THEN invocations ELSE Completed(cancel_invocation)
  BY DEF OtherCallback, Threads
<1>2. id \in Ids /\ id[1] = "CANCEL" /\ cancel_invocation # id
  <2>1. 1 \in DOMAIN invocations /\ invocations[1] \in Invocations
    BY DEF StuckInv, Jammed, TInv
  <2> QED BY <2>1 DEF StuckInv, Jammed, Lost, Invocations
<1>3. cancel_invocation' # id
  BY <1>1, <1>2, IdsAreNot
<1>4. Unique' /\ invocations' # <<>> /\ invocations'[1] = invocations[1]
  <2>1. CASE invocations' = invocations
    BY <2>1 DEF StuckInv, Jammed, Unique
  <2>2. CASE invocations' = Completed(cancel_invocation)
    BY <1>2, <2>2, FirstStays DEF StuckInv
  <2> QED BY <1>1, <2>1, <2>2
<1>5. \E steps \in Seq(Steps) :
         Then("watcher", steps) /\ \A i \in DOMAIN steps : Harmless(steps[i], id)
  <2>1. invocations' \in Seq(Invocations) /\ invocations'[1].id[1] = "CANCEL" /\ invocations' # <<>>
    BY <1>2, <1>4 DEF TInv
  <2>2. Then("watcher", <<>>) \/ Then("watcher", ProcessNext(invocations'))
    BY <2>1 DEF OtherCallback
  <2>3. /\ ProcessNext(invocations') \in Seq(Steps)
        /\ \A i \in DOMAIN ProcessNext(invocations') : Harmless(ProcessNext(invocations')[i], id)
    BY <2>1, RunsHarmless
  <2>4. <<>> \in Seq(Steps) /\ \A i \in DOMAIN <<>> : Harmless(<<>>[i], id)
    BY NoneHarmless
  <2> QED BY <2>2, <2>3, <2>4
<1>6. PICK steps \in Seq(Steps) :
         Then("watcher", steps) /\ \A i \in DOMAIN steps : Harmless(steps[i], id)
  BY <1>5
<1>7. (Live' => Live) /\ (pb'.requeued /\ pb'.trans \in Requests => pb.requeued /\ pb.trans \in Requests)
  <2>1. pb \in PbOf(pb.channels)
    BY DEF TInv
  <2>2. \/ pb' = pb \/ pb' = [pb EXCEPT !.messages = 0, !.cursor = 0]
        \/ \E flushed \in {pb, [pb EXCEPT !.messages = 0, !.cursor = 0]} :
              pb' = [flushed EXCEPT !.trans = "LEAVE", !.channels = leave, !.timetoken = 0,
                                    !.requeued = TRUE]
    BY DEF OtherCallback
  <2>3. pb'.trans = "LEAVE" \/ (pb'.state = pb.state /\ pb'.trans = pb.trans /\ pb'.requeued = pb.requeued)
    BY <2>1, <2>2 DEF PbOf
  <2> QED BY <2>3 DEF Live, Requests
<1> QED BY <1>1, <1>3, <1>4, <1>6, <1>7, StuckGoes

\* No subscribe request is in progress: what ends is of another kind, or cancelled.
LEMMA StuckEnds ==
    ASSUME TInv, TInv', StuckInv, Lost, Lost', Ends
    PROVE  StuckInv'
<1>1. ~ Live
  BY DEF StuckInv, Silent
<1>2. pb'.state \in {"IDLE", "KEEP_ALIVE_IDLE"} /\ pb'.trans = "NONE"
  BY Outcome
<1>3. UNCHANGED <<state, invocations, cancel_invocation>>
  BY DEF Ends, EndOk, EndError, EndCancelled, engine, flags
<1>4. \E result \in {"OK", "ERROR", "CANCELLED"} :
         /\ todo' = [todo EXCEPT !["watcher"] = Callback(result)]
         /\ result # "CANCELLED" => pb.state = "BUSY"
  BY DEF Ends, EndOk, EndError, EndCancelled, Enters
<1>5. PICK result \in {"OK", "ERROR", "CANCELLED"} :
         /\ todo' = [todo EXCEPT !["watcher"] = Callback(result)]
         /\ result # "CANCELLED" => pb.state = "BUSY"
  BY <1>4
<1>6. Callback(result) = <<[op |-> "callback", trans |-> pb.trans, ok |-> result = "OK"]>>
  BY <1>1, <1>5 DEF Callback, Live
<1>7. \A i \in DOMAIN Callback(result) : Harmless(Callback(result)[i], invocations[1].id)
  BY <1>6 DEF Harmless
<1>8. AllHarmless'
  <2>1. todo \in [Threads -> Seq(Steps)]
    BY DEF TInv
  <2> QED BY <1>3, <1>5, <1>7, <2>1 DEF StuckInv, AllHarmless
<1>9. Silent'
  BY <1>2, <1>3 DEF Silent, Live, Requests, StuckInv
<1> QED BY <1>3, <1>8, <1>9 DEF StuckInv, Lost, Unique, Jammed

\* The application calls: a leave and events, none of which succeeded.
LEMMA StuckCall ==
    ASSUME TInv, TInv', StuckInv, Lost, Lost', Call
    PROVE  StuckInv'
<1> DEFINE id == invocations[1].id
           H(steps) == \A i \in DOMAIN steps : Harmless(steps[i], id)
<1>1. UNCHANGED <<state, invocations, cancel_invocation, pb>>
  BY DEF Call, Subscribe, Unsubscribe, UnsubscribeAll, Disconnect, Reconnect, engine, flags
<1>2. \A s : s.op \in {"changed", "leave"} => Harmless(s, id)
  BY DEF Harmless
<1>3. \A type, channels, cursor, heartbeat :
         type \notin Succeeds => Harmless(Event(type, channels, cursor, heartbeat), id)
  BY DEF Harmless, Event
<1>4. \E steps : todo' = [todo EXCEPT !["app"] = steps] /\ H(steps)
  <2>1. ASSUME NEW s \in Subscriptions, NEW c \in Cursors, Subscribe(s, c)
        PROVE  \E steps : todo' = [todo EXCEPT !["app"] = steps] /\ H(steps)
    <3> DEFINE x == [op |-> "changed", cursor |-> c, heartbeat |-> TRUE]
    <3>1. todo' = [todo EXCEPT !["app"] = <<x>>]
      BY <2>1 DEF Subscribe, Enter
    <3>2. Harmless(x, id)
      BY <1>2
    <3> HIDE DEF x
    <3>3. H(<<x>>)
      BY <3>2
    <3> QED BY <3>1, <3>3
  <2>2. ASSUME NEW s \in Subscriptions, Unsubscribe(s)
        PROVE  \E steps : todo' = [todo EXCEPT !["app"] = steps] /\ H(steps)
    <3> DEFINE gone == ChannelsOf[s] \ SubscribablesOf(subscriptions \ {s})
               x == [op |-> "leave", channels |-> gone]
               y == [op |-> "changed", cursor |-> 0, heartbeat |-> FALSE]
    <3>1. todo' = [todo EXCEPT !["app"] = (IF gone = {} THEN <<>> ELSE <<x>>) \o <<y>>]
      BY <2>2 DEF Unsubscribe, Enter
    <3>2. Harmless(x, id) /\ Harmless(y, id)
      BY <1>2
    <3> HIDE DEF x, y, gone
    <3> DEFINE S == {x, y}
               b == <<y>>
               a == <<x>>
    <3>3. a \in Seq(S) /\ b \in Seq(S) /\ H(a) /\ H(b) /\ <<>> \o b = b
      BY <3>2
    <3> HIDE DEF S, a, b
    <3>4. H(a \o b)
      <4> DEFINE c == a \o b
      <4>1. /\ \A k \in DOMAIN a : c[k] = a[k]
            /\ \A k \in DOMAIN b : c[Len(a) + k] = b[k]
            /\ \A i \in DOMAIN c : i \in DOMAIN a \/ \E k \in DOMAIN b : i = Len(a) + k
        BY <3>3, Joined
      <4> HIDE DEF c
      <4>2. ASSUME NEW i \in DOMAIN c PROVE Harmless(c[i], id)
        BY <3>3, <4>1
      <4> QED BY <4>2 DEF c
    <3>5. \/ todo' = [todo EXCEPT !["app"] = b]
          \/ todo' = [todo EXCEPT !["app"] = a \o b]
      BY <3>1, <3>3 DEF a, b
    <3> QED BY <3>3, <3>4, <3>5
  <2>3. ASSUME UnsubscribeAll
        PROVE  \E steps : todo' = [todo EXCEPT !["app"] = steps] /\ H(steps)
    <3> DEFINE x == [op |-> "leave", channels |-> subscribables]
               y == Event("UNSUBSCRIBE_ALL", subscribables, context.cursor, FALSE)
    <3>1. todo' = [todo EXCEPT !["app"] = <<x, y>>]
      BY <2>3 DEF UnsubscribeAll, Enter
    <3>2. Harmless(x, id)
      BY <1>2
    <3>3. Harmless(y, id)
      BY <1>3 DEF Succeeds
    <3> HIDE DEF x, y
    <3>4. H(<<x, y>>)
      BY <3>2, <3>3
    <3> QED BY <3>1, <3>4
  <2>4. ASSUME Disconnect \/ \E c \in Cursors : Reconnect(c)
        PROVE  \E steps : todo' = [todo EXCEPT !["app"] = steps] /\ H(steps)
    <3>1. \E type \in {"DISCONNECT", "RECONNECT"} : \E channels, cursor :
             todo' = [todo EXCEPT !["app"] = <<Event(type, channels, cursor, FALSE)>>]
      BY <2>4 DEF Disconnect, Reconnect, Enter, CopyEvent
    <3>2a. PICK type \in {"DISCONNECT", "RECONNECT"} : \E channels, cursor :
              todo' = [todo EXCEPT !["app"] = <<Event(type, channels, cursor, FALSE)>>]
      BY <3>1
    <3>2. PICK channels, cursor :
             todo' = [todo EXCEPT !["app"] = <<Event(type, channels, cursor, FALSE)>>]
      BY <3>2a
    <3> DEFINE x == Event(type, channels, cursor, FALSE)
    <3>3. Harmless(x, id)
      BY <3>2a, <1>3 DEF Succeeds
    <3>4. todo' = [todo EXCEPT !["app"] = <<x>>]
      BY <3>2
    <3> HIDE DEF x
    <3>5. H(<<x>>)
      BY <3>3
    <3> QED BY <3>4, <3>5
  <2> QED BY <2>1, <2>2, <2>3, <2>4 DEF Call
<1>5. PICK steps : todo' = [todo EXCEPT !["app"] = steps] /\ H(steps)
  BY <1>4
<1>6. AllHarmless'
  <2>1. todo \in [Threads -> Seq(Steps)]
    BY DEF TInv
  <2> QED BY <1>1, <1>5, <2>1 DEF StuckInv, AllHarmless
<1> QED BY <1>1, <1>6 DEF StuckInv, Lost, Unique, Jammed, Silent, Live

\* Nothing changes that the invariant is about.
LEMMA StuckStands ==
    ASSUME StuckInv, UNCHANGED <<state, invocations, flags, pb, todo>>, Lost <=> Lost'
    PROVE  StuckInv'
<1>1. /\ state' = state /\ invocations' = invocations /\ pb' = pb /\ todo' = todo
      /\ current_transaction' = current_transaction /\ cancel_invocation' = cancel_invocation
  BY DEF flags
<1>2. Unique' /\ Jammed' /\ AllHarmless' /\ Silent'
  BY <1>1 DEF StuckInv, Unique, Jammed, AllHarmless, Silent, Live
<1>3. Overwriting => Overwriting'
  BY <1>1 DEF Overwriting, Is, CancelAt
<1> QED BY <1>1, <1>2, <1>3 DEF StuckInv

\* The second cancel: run, made, and noted where the first was.
LEMMA StuckOverwrites ==
    ASSUME TInv, TInv', LoopWindows, StuckInv, ~ Lost, [Next]_vars
    PROVE  StuckInv'
<1> DEFINE id == Head(todo["app"]).id
           first == invocations[1].id
<1>1. /\ Overwriting /\ "app" \in Threads /\ "watcher" \in Threads /\ Threads = {"app", "watcher"}
      /\ Unique /\ Jammed /\ AllHarmless /\ Silent
  BY DEF StuckInv, Threads
<1>2. /\ todo["watcher"] = <<>> /\ pb.state = "WAIT_CANCEL"
      /\ current_transaction = "NONE" /\ cancel_invocation # None
      /\ todo["app"] # <<>> /\ Head(todo["app"]).op \in {"cancel", "cancelled", "exec"}
      /\ Head(todo["app"]).op = "exec" =>
            \E i \in DOMAIN invocations : invocations[i].id = id /\ CancelAt(invocations, i)
  BY <1>1 DEF Overwriting, Is
<1>3. Head(todo["app"]).op \notin Windows
  BY <1>2 DEF LoopWindows
<1>4. ~ Ends /\ ~ WatcherStep /\ ~ Call /\ ~ Publish
  BY <1>1, <1>2, <1>3 DEF Ends, EndOk, EndError, EndCancelled, WatcherStep, Requeued, OtherCallback,
     Report, Enters, At, Call, Subscribe, Unsubscribe, UnsubscribeAll, Disconnect, Reconnect,
     Enter, Publish
<1>5. \A t \in Threads : ThreadStep(t) => t = "app"
  <2>1. ASSUME NEW t \in Threads, ThreadStep(t) PROVE todo[t] # <<>>
    <3>1. \E op : At(t, op)
      BY <2>1 DEF ThreadStep, HandleEvent, Complete, NotRunnable, EmitStatus, EmitMessages,
         CancelEffect, Cancel, CancelStarted, MakeHeartbeat, Heartbeat, MakeSubscribeRequest,
         SubscribeError, SubscriptionChanged, Leave, Runs
    <3> QED BY <3>1 DEF At
  <2> QED BY <1>1, <1>2, <2>1
<1>6. \A op : At("app", op) => op = Head(todo["app"]).op
  BY DEF At
<1>7. CASE ThreadStep("app")
  <2>1. ~ HandleEvent("app") /\ ~ Complete("app") /\ ~ Heartbeat("app")
        /\ ~ SubscribeError("app") /\ ~ SubscriptionChanged("app") /\ ~ Leave("app")
    BY <1>2, <1>6 DEF HandleEvent, Complete, Heartbeat, SubscribeError, SubscriptionChanged, Leave
  <2>2. ~ NotRunnable("app")
    <3> SUFFICES ASSUME NotRunnable("app") PROVE FALSE
      OBVIOUS
    <3>1. Head(todo["app"]).op = "exec" /\ (Queued(id) => Invocation(id).status # "CREATED")
      BY <1>6 DEF NotRunnable
    <3>2. PICK i \in DOMAIN invocations : invocations[i].id = id /\ CancelAt(invocations, i)
      BY <1>2, <3>1
    <3>3. Queued(id) /\ Index(id) \in DOMAIN invocations /\ invocations[Index(id)].id = id
      BY <3>2 DEF Queued, Index
    <3>4. Index(id) = i
      BY <1>1, <3>2, <3>3 DEF Unique
    <3> QED BY <3>1, <3>2, <3>3, <3>4 DEF Invocation, CancelAt
  <2>3. CASE CancelEffect("app")
    <3>1. Runs("app", {"CANCEL"}) /\ UNCHANGED <<state, flags, pb, jams>>
          /\ invocations' = Mark(id, "RUNNING") /\ Then("app", <<With("cancel", id)>>)
      BY <1>2, <2>3 DEF CancelEffect
    <3>2. id # first /\ Queued(id) /\ id \in Ids
      BY <1>1, <3>1, StuckRuns
    <3>3. Unique' /\ invocations' # <<>> /\ invocations'[1] = invocations[1]
      BY <1>1, <3>1, <3>2, FirstStays
    <3>4. With("cancel", id) \in Steps /\ With("cancel", id).op = "cancel" /\ With("cancel", id).id = id
      BY <3>2, IdStep DEF IdOps
    <3>5. Harmless(With("cancel", id), first)
      BY <3>2, <3>4 DEF Harmless
    <3>6. <<With("cancel", id)>> \in Seq(Steps)
          /\ \A i \in DOMAIN <<With("cancel", id)>> : Harmless(<<With("cancel", id)>>[i], first)
      BY <3>4, <3>5, OneHarmless
    <3>7. AllHarmless'
      BY <1>1, <1>2, <3>1, <3>3, <3>6, HarmlessThen
    <3>8. todo'["watcher"] = <<>> /\ Is("app", {"cancel", "cancelled"})'
      <4>1. todo'["app"] = <<With("cancel", id)>> \o Tail(todo["app"]) /\ todo'["watcher"] = todo["watcher"]
        BY <1>1, <1>2, <3>1, <3>6, ThenTyped DEF TInv
      <4>2. Tail(todo["app"]) \in Seq(Steps)
        BY <1>1, <1>2 DEF TInv
      <4>3. todo'["app"] # <<>> /\ Head(todo'["app"]) = With("cancel", id)
        BY <3>4, <4>1, <4>2
      <4> QED BY <1>2, <3>4, <4>1, <4>3 DEF Is
    <3>9. Overwriting' /\ ~ Lost'
      BY <1>2, <3>1, <3>8 DEF Overwriting, Lost, flags
    <3> QED BY <1>1, <3>1, <3>3, <3>7, <3>9 DEF StuckInv, Jammed, Silent, Live
  <2>4. CASE Cancel("app")
    <3>1. /\ pb' = Cancelled /\ UNCHANGED <<state, invocations, flags, jams>>
          /\ At("app", "cancel") /\ Then("app", <<With("cancelled", id)>>)
      BY <1>2, <2>4 DEF Cancel, engine
    <3>2. Head(todo["app"]) \in Steps /\ Head(todo["app"]).op = "cancel" /\ Harmless(Head(todo["app"]), first)
      BY <1>1, <3>1, HeadHarmless
    <3>3. id # first /\ id \in Ids
      BY <3>2, StepFacts DEF Harmless, IdOps
    <3>4. With("cancelled", id) \in Steps /\ With("cancelled", id).op = "cancelled"
          /\ With("cancelled", id).id = id
      BY <3>3, IdStep DEF IdOps
    <3>5. Harmless(With("cancelled", id), first)
      BY <3>3, <3>4 DEF Harmless
    <3>6. <<With("cancelled", id)>> \in Seq(Steps)
          /\ \A i \in DOMAIN <<With("cancelled", id)>> : Harmless(<<With("cancelled", id)>>[i], first)
      BY <3>4, <3>5, OneHarmless
    <3>7. AllHarmless'
      BY <1>1, <1>2, <3>1, <3>6, HarmlessThen
    <3>8. todo'["watcher"] = <<>> /\ Is("app", {"cancel", "cancelled"})'
      <4>1. todo'["app"] = <<With("cancelled", id)>> \o Tail(todo["app"]) /\ todo'["watcher"] = todo["watcher"]
        BY <1>1, <1>2, <3>1, <3>6, ThenTyped DEF TInv
      <4>2. Tail(todo["app"]) \in Seq(Steps)
        BY <1>1, <1>2 DEF TInv
      <4>3. todo'["app"] # <<>> /\ Head(todo'["app"]) = With("cancelled", id)
        BY <3>4, <4>1, <4>2
      <4> QED BY <1>2, <3>4, <4>1, <4>3 DEF Is
    <3>9. pb'.state = "WAIT_CANCEL" /\ ~ pb'.requeued
      BY <1>2, <3>1, PbCancelled DEF TInv
    <3>10. Overwriting' /\ ~ Lost'
      BY <1>2, <3>1, <3>8, <3>9 DEF Overwriting, Lost, flags
    <3>11. Unique' /\ Jammed' /\ Silent'
      BY <1>1, <3>1, <3>9 DEF Unique, Jammed, Silent, Live
    <3> QED BY <3>7, <3>10, <3>11 DEF StuckInv
  <2>5. CASE CancelStarted("app")
    <3>1. /\ At("app", "cancelled") /\ Then("app", <<>>) /\ cancel_invocation' = id
          /\ UNCHANGED <<state, invocations, pb>> /\ Lost'
      BY <1>2, <2>5 DEF CancelStarted, engine, Return, Lost
    <3>2. Head(todo["app"]).op = "cancelled" /\ Harmless(Head(todo["app"]), first)
      BY <1>1, <3>1, HeadHarmless
    <3>3. cancel_invocation' # first
      BY <3>1, <3>2 DEF Harmless
    <3>4. <<>> \in Seq(Steps) /\ \A i \in DOMAIN <<>> : Harmless(<<>>[i], first)
      BY NoneHarmless
    <3>5. AllHarmless'
      BY <1>1, <1>2, <3>1, <3>4, HarmlessThen
    <3> QED BY <1>1, <3>1, <3>3, <3>5 DEF StuckInv, Unique, Jammed, Silent, Live
  <2> QED BY <1>1, <1>7, <2>1, <2>2, <2>3, <2>4, <2>5, StuckNever DEF ThreadStep
<1>8. CASE UNCHANGED vars
  <2>1. UNCHANGED <<state, invocations, flags, pb, todo>> /\ (Lost <=> Lost')
    BY <1>8 DEF vars, engine, flags, Lost
  <2> QED BY <2>1, StuckStands
<1> QED BY <1>4, <1>5, <1>7, <1>8 DEF Next

\* A lost cancel stays lost.
LEMMA StuckStep ==
    ASSUME LoopWindows
    PROVE  TInv /\ TInv' /\ StuckInv /\ [Next]_vars => StuckInv'
<1> SUFFICES ASSUME TInv, TInv', StuckInv, [Next]_vars, Lost PROVE StuckInv'
  BY StuckOverwrites
<1>1. Lost'
  BY JamsKept DEF Lost
<1>2. CASE (\E t \in Threads : ThreadStep(t)) \/ Ends \/ Call
  BY <1>1, <1>2, StuckThread, StuckEnds, StuckCall
<1>3. CASE WatcherStep
  <2>1. "watcher" \in Threads
    BY DEF Threads
  <2> QED BY <1>1, <1>3, <2>1, StuckRequeued, StuckCallback, StuckNever DEF WatcherStep
<1>4. CASE Publish \/ UNCHANGED vars
  <2>1. UNCHANGED <<state, invocations, flags, pb, todo>>
    BY <1>4 DEF Publish, vars, engine, flags
  <2> QED BY <1>1, <2>1, StuckStands
<1> QED BY <1>2, <1>3, <1>4 DEF Next
\* An event finds the context's one cancel still waiting for its callback, and its own
\* cancel goes past it: pbcc_ee_handle_event runs the first of the new invocations.
LEMMA DoubledStuck ==
    ASSUME TInv, TInv', LeaveInv, LoopInv, LoopWindows, WaitInv, ~ Lost', NEW t \in Threads,
           HandleEvent(t), Doubled'
    PROVE  LoopInv' \/ StuckInv'
<1>1. CASE /\ At(t, "event") /\ Return(t)
           /\ Target(state, Head(todo[t]).type, Head(todo[t]).ctx.channels = {}) = "NONE"
           /\ UNCHANGED <<engine, flags, calls, pb>>
  BY <1>1, LoopIgnores
<1>2. ASSUME NEW ev, NEW target, NEW e, NEW q, NEW f, NEW new, NEW steps,
             Taken(t, ev, target, e, q, f, new, steps)
      PROVE  StuckInv'
  <2>1. /\ ev = Head(todo[t]) /\ target = Target(state, ev.type, ev.ctx.channels = {})
        /\ state' = target /\ UNCHANGED <<current_transaction, cancel_invocation, pb>>
        /\ ev.op = "event" /\ todo[t] # <<>>
        /\ \A k \in DOMAIN new : new[k].status = "CREATED" /\ new[k].id[1] = e[k]
    BY <1>2 DEF Taken, flags, Adds, At
  <2>2. cancel_invocation # None /\ current_transaction = "NONE"
    BY <2>1 DEF Doubled
  <2>3. invocations # <<>> /\ invocations[1].id = cancel_invocation /\ invocations[1].status = "RUNNING"
    BY <2>2 DEF LoopInv, QueueInv, Cancelling, FirstIs
  <2>4. cancel_invocation[1] = "CANCEL" /\ (pb.state = "WAIT_CANCEL" \/ Is("watcher", {"callback"}))
    BY <2>2 DEF WaitInv, CancelWaits
  <2>5. Unique' /\ invocations' # <<>> /\ invocations'[1] = invocations[1]
    BY <1>2, <2>3, TakenFirst DEF LoopInv, QueueInv
  <2>6. PICK u \in Threads : /\ Is(u, {"exec"})' /\ Head(todo'[u]).id[1] = "CANCEL"
                             /\ Head(todo'[u]).id # cancel_invocation
    BY <2>1 DEF Doubled, Is
  <2>7. u = t
    BY <1>2, <2>2, <2>6, TakenCalls DEF Is
  <2>8. e # <<>> /\ e[1] = "CANCEL" /\ Head(todo'[t]).id = new[1].id
    <3>1. e # <<>> /\ Head(todo'[t]).id = IF e[1] = "CANCEL" THEN new[1].id ELSE invocations'[1].id
      BY <1>2, <2>6, <2>7, TakenCalls DEF Is
    <3> QED BY <2>3, <2>5, <2>6, <2>7, <3>1
  <2>9. PICK n : n = Len(q)
    OBVIOUS
  <2>10. state = "HANDSHAKING" /\ ev.type \in AppTypes
    BY <1>2, <2>8, <2>9, TakenPlaces
  <2>11. 1 \in DOMAIN new /\ n + 1 \in DOMAIN invocations' /\ invocations'[n + 1] = new[1]
    BY <1>2, <2>8, <2>9, TakenPlaces
  <2>12. t = "app" /\ todo["app"] # <<>>
    BY <2>1, <2>10 DEF LoopInv, CallsInv, WatcherAnswers, Asking, Threads
  <2>13. todo["watcher"] = <<>>
    BY <2>2, <2>12 DEF LoopInv, CallsInv, Meeting
  <2>14. todo'["watcher"] = <<>>
    BY <1>2, <2>12, <2>13, TakenCalls DEF Threads
  <2>15. pb.state = "WAIT_CANCEL"
    BY <2>4, <2>13 DEF Is
  <2>16. Overwriting'
    BY <2>1, <2>2, <2>6, <2>7, <2>8, <2>11, <2>12, <2>14, <2>15 DEF Overwriting, CancelAt, Is
  <2>17. Silent'
    <3>1. pb.requeued => pb.trans = "LEAVE"
      BY DEF LoopInv, CallsInv, PreparedLeave
    <3>2. state' # "RECEIVING"
      BY <2>1, <2>10 DEF Target, AppTypes, Stopped, Failed
    <3> QED BY <2>1, <2>15, <3>1, <3>2 DEF Silent, Live, Requests
  <2>18. AllHarmless'
    <3>1. Stack'
      BY <1>2, TakenCallsInv DEF CallsInv
    <3>2. \A i \in DOMAIN todo'["app"] : i > 1 => todo'["app"][i].op = "error"
      BY <2>6, <2>7, <2>12, <3>1 DEF Stack, Is
    <3>3. todo'["app"] \in Seq(Steps)
      BY <2>12 DEF TInv
    <3>4. Head(todo'["app"]).op = "exec" /\ Head(todo'["app"]).id[1] = "CANCEL"
      BY <2>6, <2>7, <2>12 DEF Is
    <3>5. \A i \in DOMAIN todo'["app"] :
             \/ todo'["app"][i].op = "error"
             \/ todo'["app"][i] = Head(todo'["app"])
      BY <3>2, <3>3
    <3>6. \A i \in DOMAIN todo'["app"] : Harmless(todo'["app"][i], invocations'[1].id)
      BY <3>4, <3>5 DEF Harmless
    <3>7. \A v \in Threads : \A i \in DOMAIN todo'[v] : Harmless(todo'[v][i], invocations'[1].id)
      BY <2>14, <3>6 DEF Threads
    <3> QED BY <3>7 DEF AllHarmless
  <2>19. Jammed'
    BY <2>3, <2>4, <2>5 DEF Jammed
  <2> QED BY <2>5, <2>16, <2>17, <2>18, <2>19 DEF StuckInv
<1> QED BY <1>1, <1>2, HandleEventTakes

\* The loop goes on until a cancel is lost.
Going == ~ Lost /\ LoopInv /\ WaitInv /\ CursorInv

LEMMA GoingStep ==
    ASSUME LoopWindows
    PROVE  TInv /\ TInv' /\ LeaveInv /\ Going /\ [Next]_vars => Going' \/ StuckInv'
<1> SUFFICES ASSUME TInv, TInv', LeaveInv, Going, [Next]_vars PROVE Going' \/ StuckInv'
  OBVIOUS
<1>1. ~ Lost'
  <2>1. ASSUME NEW t \in Threads, CancelStarted(t) PROVE jams' = jams
    <3>1. Is(t, OwnerOps)
      BY <2>1 DEF CancelStarted, At, Is, OwnerOps
    <3>2. cancel_invocation = None
      BY <3>1 DEF Going, LoopInv, QueueInv, Owner
    <3> QED BY <2>1, <3>2 DEF CancelStarted
  <2> QED BY <2>1, JamsStep DEF Going, Lost
<1>2. WaitInv' /\ CursorInv'
  BY WaitStep, CursorStep DEF Going
<1>3. ASSUME NEW t \in Threads, HandleEvent(t), Doubled' PROVE LoopInv' \/ StuckInv'
  BY <1>1, <1>3, DoubledStuck DEF Going
<1>4. LoopInv' \/ StuckInv'
  BY <1>3, LoopStep DEF Going
<1> QED BY <1>1, <1>2, <1>4 DEF Going

\* At the start nothing is lost.
LEMMA GoingInitial == Init => Going
BY LoopInitial, WaitInitial, CursorInitial DEF Init, Going, Lost

\* Until a cancel is lost the loop goes on; from then on it stands.
LEMMA GoesOrStands ==
    ASSUME LoopWindows
    PROVE  Spec => [](TInv /\ LeaveInv /\ (Going \/ StuckInv))
<1>1. LeaveWindows
  BY DEF LoopWindows, LeaveWindows
<1>2. Init => TInv /\ LeaveInv /\ (Going \/ StuckInv)
  BY LeaveInitial, InitTyped, GoingInitial
<1>3. TInv /\ LeaveInv /\ (Going \/ StuckInv) /\ [Next]_vars => (TInv /\ LeaveInv /\ (Going \/ StuckInv))'
  BY <1>1, StepTyped, LeaveStep, GoingStep, StuckStep
<1> QED BY <1>2, <1>3, PTL DEF Spec

\* A subscribe request on which the engine has come to rest is for the channels of
\* the subscriptions, as of the application's last call, where the two threads meet
\* only before pubnub_heartbeat: no request of an earlier state is left running, its
\* cancel postponed and forgotten.  After a lost cancel there is none to rest on.
THEOREM LoopCurrent ==
    ASSUME LoopWindows
    PROVE  Spec => []LoopIsCurrent
<1>1. TInv /\ LoopInv => LoopIsCurrent
  <2> SUFFICES ASSUME TInv, LoopInv, Unattended, invocations = <<>>, Live
               PROVE  /\ state \in Looping
                      /\ pb.channels = subscribables /\ context.channels = subscribables
    BY DEF LoopIsCurrent, Live
  <2>1. \A t \in Threads : todo[t] = <<>>
    BY DEF Unattended
  <2>2. ~ AtCancel /\ ~ \E j \in DOMAIN invocations : CancelAt(invocations, j)
    BY <2>1 DEF AtCancel, Is
  <2>3. ForState(pb.trans, state) /\ pb.channels = context.channels
    BY <2>2 DEF LoopInv, RequestsInv, Answered
  <2>4. state \in Looping /\ state # "UNSUBSCRIBED"
    BY <2>3 DEF ForState, Looping
  <2>5. context.channels = subscribables
    BY <2>1, <2>4 DEF LoopInv, ChannelsInv, CurrentChannels, Threads
  <2> QED BY <2>3, <2>4, <2>5
<1>2. StuckInv => LoopIsCurrent
  BY DEF StuckInv, Jammed, LoopIsCurrent
<1>3. TInv /\ LeaveInv /\ (Going \/ StuckInv) => LoopIsCurrent
  BY <1>1, <1>2 DEF Going
<1>4. Spec => [](TInv /\ LeaveInv /\ (Going \/ StuckInv))
  BY GoesOrStands
<1> QED BY <1>3, <1>4, PTL

\* In RECEIVING the cursor of the next request is never ahead of the messages given
\* to the application, but while the EMIT_MESSAGE for them is queued, where the two
\* threads meet only before pubnub_heartbeat: the messages of an answer are given out
\* before the cancel of its request drops the read buffer, and before another answer
\* comes.  After a lost cancel the loop does not come to RECEIVING.
THEOREM NothingSkipped ==
    ASSUME LoopWindows
    PROVE  Spec => []NothingSkippedWhileReceiving
<1>1. TInv /\ CursorInv => NothingSkippedWhileReceiving
  <2> SUFFICES ASSUME TInv, CursorInv, state = "RECEIVING",
                      \A i \in DOMAIN invocations : invocations[i].id[1] # "EMIT_MESSAGE"
               PROVE  context.cursor <= seen
    BY DEF NothingSkippedWhileReceiving
  <2>1. ~ Emitting
    BY DEF Emitting, FirstIs, TInv
  <2> QED BY <2>1 DEF CursorInv, Given
<1>2. StuckInv => NothingSkippedWhileReceiving
  BY DEF StuckInv, Silent, NothingSkippedWhileReceiving
<1>3. TInv /\ LeaveInv /\ (Going \/ StuckInv) => NothingSkippedWhileReceiving
  BY <1>1, <1>2 DEF Going
<1>4. Spec => [](TInv /\ LeaveInv /\ (Going \/ StuckInv))
  BY GoesOrStands
<1> QED BY <1>3, <1>4, PTL

-----------------------------------------------------------------------------
(* What is begun ends *)

\* A marked transaction is in progress, prepared, about to be started, or its
\* callback is next.
Tracked == current_transaction # "NONE" =>
    \/ pb.state = "BUSY" /\ pb.trans = current_transaction
    \/ pb.requeued
    \/ \E t \in Threads : Is(t, {"heartbeat"})
    \/ Is("watcher", {"callback"}) /\ Head(todo["watcher"]).trans = current_transaction

\* A read buffer that is full is on its way to the application.
Handing == todo["watcher"] # <<>> /\ LET s == Head(todo["watcher"]) IN
    \/ s.op = "report" /\ s.ok /\ state = "RECEIVING"
    \/ s.op = "event" /\ s.type = "RECEIVE_SUCCESS" /\ state = "RECEIVING"
    \/ /\ s.op = "exec" /\ FirstIs(s.id)
       /\ invocations[1].status = "CREATED" /\ invocations[1].id[1] = "EMIT_MESSAGE"
Buffered == pb.messages # 0 => current_transaction = "NONE" /\ Handing

\* A heartbeat is for some channels: from the call to the event, to the invocation
\* and to pubnub_heartbeat.
Beats(s) == /\ s.op = "changed" /\ s.heartbeat => subscribables # {}
            /\ s.op = "event" /\ s.heartbeat => s.ctx.channels # {}
CallBeats == \A t \in Threads : \A i \in DOMAIN todo[t] : Beats(todo[t][i])
QueueBeats == \A i \in DOMAIN invocations :
    invocations[i].heartbeat => invocations[i].ctx.channels # {}
SentBeats == \A t \in Threads : Is(t, {"heartbeat"}) => invocations[1].ctx.channels # {}

StallInv == Tracked /\ Buffered /\ CallBeats /\ QueueBeats /\ SentBeats

\* While the read buffer is full nobody moves but the watcher that empties it.
LEMMA BufferedAlone ==
    ASSUME TInv, LeaveInv, LoopInv, LoopWindows, Buffered, NEW t \in Threads, NEW op, NEW steps,
           Goes(t, op, steps), pb.messages # 0
    PROVE  /\ t = "watcher" /\ op \in {"report", "event", "exec"}
           /\ op = "report" => Head(todo[t]).ok /\ state = "RECEIVING"
           /\ op = "event" => Head(todo[t]).type = "RECEIVE_SUCCESS" /\ state = "RECEIVING"
           /\ op = "exec" => LET id == Head(todo[t]).id IN
                 Queued(id) /\ Invocation(id).status = "CREATED" /\ id[1] = "EMIT_MESSAGE"
<1>1. /\ todo[t] # <<>> /\ Head(todo[t]).op = op
      /\ \A u \in Threads \ {t} : todo[u] # <<>> => current_transaction = "HEARTBEAT"
  BY GoesFacts
<1>2. current_transaction = "NONE" /\ Handing
  BY DEF Buffered
<1>3. t = "watcher"
  BY <1>1, <1>2 DEF Handing, Threads
<1>4. /\ op \in {"report", "event", "exec"}
      /\ op = "report" => Head(todo[t]).ok /\ state = "RECEIVING"
      /\ op = "event" => Head(todo[t]).type = "RECEIVE_SUCCESS" /\ state = "RECEIVING"
  BY <1>1, <1>2, <1>3 DEF Handing
<1>5. ASSUME op = "exec", NEW id, id = Head(todo[t]).id
      PROVE  Queued(id) /\ Invocation(id).status = "CREATED" /\ id[1] = "EMIT_MESSAGE"
  <2>1. FirstIs(id) /\ invocations[1].status = "CREATED" /\ invocations[1].id[1] = "EMIT_MESSAGE"
    BY <1>1, <1>2, <1>3, <1>5 DEF Handing
  <2>2. Queued(id) /\ Invocation(id) = invocations[1]
    BY <2>1, FirstIndex DEF LoopInv, QueueInv, TInv
  <2> QED BY <2>1, <2>2 DEF FirstIs
<1> QED BY <1>3, <1>4, <1>5

\* A step that is none of theirs finds the read buffer empty, and leaves it so.
LEMMA BufferedKept ==
    ASSUME TInv, LeaveInv, LoopInv, LoopWindows, Buffered, NEW t \in Threads, NEW op, NEW steps,
           Goes(t, op, steps), op \notin {"report", "event"},
           op = "exec" => LET id == Head(todo[t]).id IN
              ~ (Queued(id) /\ Invocation(id).status = "CREATED" /\ id[1] = "EMIT_MESSAGE"),
           pb'.messages # 0 => pb'.messages = pb.messages
    PROVE  pb.messages = 0 /\ Buffered'
<1>1. pb.messages = 0
  BY BufferedAlone
<1> QED BY <1>1 DEF Buffered

\* The beats of the calls after a step that turned into steps
LEMMA CallBeatsKept ==
    ASSUME TInv, CallBeats, NEW t \in Threads, NEW op, NEW steps, Goes(t, op, steps),
           UNCHANGED subscribables, steps # <<>> => Beats(Head(steps))
    PROVE  CallBeats'
<1> DEFINE q == Tail(todo[t])
<1>1. /\ At(t, op) /\ steps \in Seq(Steps) /\ Then(t, steps)
      /\ \A i \in DOMAIN steps : i > 1 => steps[i].op = "error"
  BY DEF Goes
<1>2. todo[t] # <<>> /\ todo[t] \in Seq(Steps)
  BY <1>1, AtFacts DEF TInv
<1>3. todo'[t] = steps \o q /\ \A u \in Threads \ {t} : todo'[u] = todo[u]
  BY <1>1, <1>2, ThenTyped DEF TInv
<1>4. q \in Seq(Steps) /\ \A k \in DOMAIN q : \E j \in DOMAIN todo[t] : q[k] = todo[t][j]
  BY <1>2
<1>5. ASSUME NEW k \in DOMAIN q PROVE Beats(q[k])
  BY <1>4 DEF CallBeats
<1>6. ASSUME NEW i \in DOMAIN steps PROVE Beats(steps[i])
  <2>1. CASE i = 1
    <3>1. steps # <<>> /\ Head(steps) = steps[1]
      BY <1>1, <2>1
    <3> QED BY <2>1, <3>1
  <2>2. CASE i > 1
    BY <1>1, <2>2 DEF Beats
  <2>3. i \in Nat /\ i >= 1
    BY <1>1
  <2> QED BY <2>1, <2>2, <2>3
<1> HIDE DEF q
<1>7. ASSUME NEW i \in DOMAIN todo'[t] PROVE Beats(todo'[t][i])
  <2>1. DOMAIN q = 1..Len(q) /\ Len(steps) \in Nat /\ Len(q) \in Nat
    BY <1>1, <1>4
  <2>2. CASE i \in DOMAIN steps
    <3>1. todo'[t][i] = steps[i]
      BY <1>1, <1>3, <1>4, <2>2, Joined
    <3> QED BY <1>6, <2>2, <3>1
  <2>3. CASE \E k \in DOMAIN q : i = Len(steps) + k
    <3>1. PICK k \in DOMAIN q : i = Len(steps) + k
      BY <2>3
    <3>2. todo'[t][i] = q[k]
      BY <1>1, <1>3, <1>4, <3>1, Joined
    <3> QED BY <1>5, <3>1, <3>2
  <2>4. i \in DOMAIN steps \/ \E k \in DOMAIN q : i = Len(steps) + k
    BY <1>1, <1>3, <1>4, Joined
  <2> QED BY <2>2, <2>3, <2>4
<1>8. \A s : Beats(s) => Beats(s)'
  BY DEF Beats
<1> QED BY <1>3, <1>7, <1>8 DEF CallBeats

\* What waits to be run has been in the queue.
LEMMA QueueBeatsKept ==
    ASSUME QueueBeats,
           \A k \in DOMAIN invocations' : \E j \in DOMAIN invocations :
              /\ invocations'[k].ctx = invocations[j].ctx
              /\ invocations'[k].heartbeat => invocations[j].heartbeat
    PROVE  QueueBeats'
BY DEF QueueBeats

\* A step that neither starts nor ends a transaction
LEMMA StallsKept ==
    ASSUME TInv, LeaveInv, LoopInv, LoopWindows, StallInv, NEW t \in Threads, NEW op, NEW steps,
           Goes(t, op, steps), op \notin {"heartbeat", "callback"},
           UNCHANGED <<current_transaction, subscribables>>,
           current_transaction # "NONE" =>
              pb'.state = pb.state /\ pb'.trans = pb.trans /\ pb'.requeued = pb.requeued,
           steps # <<>> => Beats(Head(steps)) /\ Head(steps).op # "heartbeat",
           Buffered', QueueBeats',
           \A u \in Threads \ {t} : Is(u, {"heartbeat"}) => invocations'[1].ctx = invocations[1].ctx
    PROVE  StallInv'
<1>1. /\ todo[t] # <<>> /\ Head(todo[t]).op = op
      /\ \A u \in Threads \ {t} : todo'[u] = todo[u]
      /\ steps # <<>> => todo'[t] # <<>> /\ Head(todo'[t]) = Head(steps)
      /\ steps = <<>> /\ todo'[t] # <<>> => Head(todo'[t]).op = "error" \/ Follows(Head(todo'[t]))
  BY GoesFacts
<1>2. ~ Is(t, {"heartbeat", "callback"}) /\ ~ Is(t, {"heartbeat"})'
  BY <1>1 DEF Is, Follows
<1>3. \A u \in Threads \ {t} : /\ Is(u, {"heartbeat"})' <=> Is(u, {"heartbeat"})
                               /\ Is(u, {"callback"})' <=> Is(u, {"callback"})
  BY <1>1 DEF Is
<1>4. Tracked'
  <2> SUFFICES ASSUME current_transaction # "NONE" PROVE Tracked'
    BY DEF Tracked
  <2>1. CASE pb.state = "BUSY" /\ pb.trans = current_transaction
    BY <2>1 DEF Tracked
  <2>2. CASE pb.requeued
    BY <2>2 DEF Tracked
  <2>3. CASE \E u \in Threads : Is(u, {"heartbeat"})
    <3>1. PICK u \in Threads : Is(u, {"heartbeat"})
      BY <2>3
    <3>2. u # t
      BY <1>2, <3>1 DEF Is
    <3> QED BY <1>3, <3>1, <3>2 DEF Tracked
  <2>4. CASE Is("watcher", {"callback"}) /\ Head(todo["watcher"]).trans = current_transaction
    <3>1. "watcher" \in Threads \ {t}
      BY <1>2, <2>4 DEF Is, Threads
    <3> QED BY <1>1, <1>3, <2>4, <3>1 DEF Tracked
  <2> QED BY <2>1, <2>2, <2>3, <2>4 DEF StallInv, Tracked
<1>5. CallBeats'
  BY CallBeatsKept DEF StallInv
<1>6. SentBeats'
  BY <1>2, <1>3 DEF StallInv, SentBeats
<1> QED BY <1>4, <1>5, <1>6 DEF StallInv

\* A call that returns, and leaves the engine as it is
LEMMA StallsBack ==
    ASSUME TInv, LeaveInv, LoopInv, LoopWindows, StallInv, NEW t \in Threads, NEW op, At(t, op),
           Then(t, <<>>), op \notin {"heartbeat", "callback", "report", "event"},
           op = "exec" => LET id == Head(todo[t]).id IN
              ~ (Queued(id) /\ Invocation(id).status = "CREATED" /\ id[1] = "EMIT_MESSAGE"),
           UNCHANGED <<current_transaction, subscribables, invocations, pb>>
    PROVE  StallInv'
<1>1. PICK steps : Goes(t, op, steps) /\ steps = <<>>
  BY GoesBack
<1>2. Buffered'
  BY <1>1, BufferedKept DEF StallInv
<1>3. QueueBeats'
  BY DEF StallInv, QueueBeats
<1> QED BY <1>1, <1>2, <1>3, StallsKept

\* pbcc_ee_invocation_exec_ of what is running or gone
LEMMA StallNotRunnable ==
    ASSUME TInv, LeaveInv, LoopInv, LoopWindows, StallInv, NEW t \in Threads, NotRunnable(t)
    PROVE  StallInv'
<1>1. /\ At(t, "exec") /\ Then(t, <<>>)
      /\ ~ (Queued(Head(todo[t]).id) /\ Invocation(Head(todo[t]).id).status = "CREATED")
      /\ UNCHANGED <<current_transaction, subscribables, invocations, pb>>
  BY DEF NotRunnable, Return, engine, flags, calls
<1> QED BY <1>1, StallsBack

\* The mark of an invocation leaves its context and its heartbeat.
LEMMA MarkBeats ==
    ASSUME TInv, QueueBeats, NEW id, NEW s \in {"CREATED", "RUNNING"}, invocations' = Mark(id, s)
    PROVE  /\ DOMAIN invocations' = DOMAIN invocations
           /\ \A j \in DOMAIN invocations : /\ invocations'[j].ctx = invocations[j].ctx
                                            /\ invocations'[j].heartbeat = invocations[j].heartbeat
           /\ QueueBeats'
<1> DEFINE k == Index(id)
<1>1. invocations \in Seq(Invocations)
  BY DEF TInv
<1>2. DOMAIN invocations' = DOMAIN invocations
  BY <1>1, MarkFacts
<1>3. ASSUME NEW j \in DOMAIN invocations
      PROVE  /\ invocations'[j].ctx = invocations[j].ctx
             /\ invocations'[j].heartbeat = invocations[j].heartbeat
  <2>1. invocations' = [invocations EXCEPT ![k].status = s] /\ invocations[j] \in Invocations
    BY <1>1 DEF Mark
  <2> HIDE DEF k
  <2>2. CASE j = k
    BY <2>1, <2>2 DEF Invocations
  <2>3. CASE j # k
    BY <2>1, <2>3
  <2> QED BY <2>2, <2>3
<1>4. QueueBeats'
  BY <1>2, <1>3, QueueBeatsKept
<1> QED BY <1>2, <1>3, <1>4

\* The first invocation runs: EMIT_MESSAGE empties the read buffer.
LEMMA StallEmits ==
    ASSUME TInv, TInv', LeaveInv, LoopInv, LoopWindows, StallInv, NEW t \in Threads,
           EmitStatus(t) \/ EmitMessages(t)
    PROVE  StallInv'
<1> DEFINE id == Head(todo[t]).id
           s == With("done", id)
<1>1. /\ At(t, "exec") /\ Queued(id) /\ Invocation(id).status = "CREATED"
      /\ invocations' = Mark(id, "RUNNING") /\ Then(t, <<s>>)
      /\ UNCHANGED <<current_transaction, subscribables>>
      /\ \/ id[1] = "EMIT_STATUS" /\ pb' = pb
         \/ /\ id[1] = "EMIT_MESSAGE"
            /\ pb' = [pb EXCEPT !.messages = 0, !.cursor = IF CanStart THEN 0 ELSE @]
  BY DEF EmitStatus, EmitMessages, Runs, flags, calls
<1>2. id \in Ids /\ FirstIs(id) /\ 1 \in DOMAIN invocations
  BY <1>1, AtExec DEF Requests
<1>3. /\ pb'.state = pb.state /\ pb'.trans = pb.trans /\ pb'.requeued = pb.requeued
      /\ id[1] = "EMIT_MESSAGE" => pb'.messages = 0
      /\ id[1] # "EMIT_MESSAGE" => pb'.messages = pb.messages
  <2> DEFINE c == IF CanStart THEN 0 ELSE pb.cursor
  <2>1. \/ id[1] # "EMIT_MESSAGE" /\ pb' = pb
        \/ id[1] = "EMIT_MESSAGE" /\ pb' = [pb EXCEPT !.messages = 0, !.cursor = c]
    BY <1>1
  <2>2. pb \in PbOf(pb.channels)
    BY DEF TInv
  <2> HIDE DEF c, id
  <2> QED BY <2>1, <2>2 DEF PbOf
<1>4. s \in Steps /\ s.op = "done"
  BY <1>2, IdStep DEF IdOps
<1> HIDE DEF s, id
<1>5. PICK steps : Goes(t, "exec", steps) /\ steps # <<>> /\ Head(steps) = s
  BY <1>1, <1>4, GoesOn
<1>6. Buffered'
  <2>1. CASE id[1] = "EMIT_MESSAGE"
    BY <1>3, <2>1 DEF Buffered
  <2>2. CASE id[1] # "EMIT_MESSAGE"
    BY <1>3, <1>5, <2>2, BufferedKept DEF StallInv, id
  <2> QED BY <2>1, <2>2
<1>7. QueueBeats' /\ invocations'[1].ctx = invocations[1].ctx
  BY <1>1, <1>2, MarkBeats DEF StallInv
<1>8. Beats(s)
  BY <1>4 DEF Beats
<1> QED BY <1>1, <1>3, <1>4, <1>5, <1>6, <1>7, <1>8, StallsKept

\* The cancel of a live request begins, or waits.
LEMMA StallCancelEffect ==
    ASSUME TInv, TInv', LeaveInv, LoopInv, LoopWindows, StallInv, NEW t \in Threads, CancelEffect(t)
    PROVE  StallInv'
<1> DEFINE id == Head(todo[t]).id
           s == With("cancel", id)
<1>1. /\ At(t, "exec") /\ Queued(id) /\ id[1] = "CANCEL"
      /\ UNCHANGED <<current_transaction, subscribables, pb>>
      /\ \/ Then(t, <<>>) /\ UNCHANGED invocations
         \/ /\ current_transaction = "NONE"
            /\ invocations' = Mark(id, "RUNNING") /\ Then(t, <<s>>)
  BY DEF CancelEffect, Runs, Return, flags, calls
<1>2. CASE Then(t, <<>>) /\ UNCHANGED invocations
  BY <1>1, <1>2, StallsBack
<1>3. CASE /\ current_transaction = "NONE"
           /\ invocations' = Mark(id, "RUNNING") /\ Then(t, <<s>>)
  <2>1. id \in Ids /\ 1 \in DOMAIN invocations
    BY <1>1, <1>3, AtExec
  <2>2. s \in Steps /\ s.op = "cancel"
    BY <2>1, IdStep DEF IdOps
  <2> HIDE DEF s
  <2>3. PICK steps : Goes(t, "exec", steps) /\ steps # <<>> /\ Head(steps) = s
    BY <1>1, <1>3, <2>2, GoesOn
  <2>4. Buffered'
    BY <1>1, <2>3, BufferedKept DEF StallInv
  <2>5. QueueBeats' /\ invocations'[1].ctx = invocations[1].ctx
    BY <1>3, <2>1, MarkBeats DEF StallInv
  <2>6. Beats(s)
    BY <2>2 DEF Beats
  <2> QED BY <1>1, <2>2, <2>3, <2>4, <2>5, <2>6, StallsKept
<1> QED BY <1>1, <1>2, <1>3

\* pubnub_cancel: no transaction is marked.
LEMMA StallCancel ==
    ASSUME TInv, TInv', LeaveInv, LoopInv, LoopWindows, StallInv, NEW t \in Threads, Cancel(t)
    PROVE  StallInv'
<1> DEFINE id == Head(todo[t]).id
           op == IF pb.state = "IDLE" THEN "done" ELSE "cancelled"
           s == With(op, id)
<1>1. /\ At(t, "cancel") /\ pb' = Cancelled /\ Then(t, <<s>>)
      /\ UNCHANGED <<current_transaction, subscribables, invocations>>
  BY DEF Cancel, engine, flags, calls
<1>2. id \in Ids /\ Is(t, {"cancel"})
  BY <1>1, AtFacts, StepFacts DEF TInv, IdOps, Is
<1>3. current_transaction = "NONE"
  BY <1>2 DEF LoopInv, CallsInv, CancelHeld, Is
<1>4. op \in IdOps /\ op \in {"done", "cancelled"}
  BY DEF IdOps
<1>5. s \in Steps /\ s.op = op
  <2> HIDE DEF op, id
  <2> QED BY <1>2, <1>4, IdStep
<1> HIDE DEF s, op
<1>6. PICK steps : Goes(t, "cancel", steps) /\ steps # <<>> /\ Head(steps) = s
  BY <1>1, <1>4, <1>5, GoesOn
<1>7. pb'.messages = pb.messages
  <2>1. pb \in PbOf(pb.channels)
    BY DEF TInv
  <2> QED BY <1>1, <2>1 DEF Cancelled, PbOf
<1>8. Buffered'
  BY <1>6, <1>7, BufferedKept DEF StallInv
<1>9. QueueBeats' /\ invocations'[1].ctx = invocations[1].ctx
  BY <1>1 DEF StallInv, QueueBeats
<1>10. Beats(s)
  BY <1>4, <1>5 DEF Beats
<1> QED BY <1>1, <1>3, <1>4, <1>5, <1>6, <1>8, <1>9, <1>10, StallsKept

\* The cancel is noted.
LEMMA StallCancelStarted ==
    ASSUME TInv, TInv', LeaveInv, LoopInv, LoopWindows, StallInv, NEW t \in Threads, CancelStarted(t)
    PROVE  StallInv'
<1>1. /\ At(t, "cancelled") /\ Then(t, <<>>)
      /\ UNCHANGED <<current_transaction, subscribables, invocations, pb>>
  BY DEF CancelStarted, Return, engine, calls
<1> QED BY <1>1, StallsBack

\* The end of an effect: no other thread is at an invocation that runs.
LEMMA StallComplete ==
    ASSUME TInv, TInv', LeaveInv, LoopInv, LoopWindows, StallInv, NEW t \in Threads, Complete(t)
    PROVE  StallInv'
<1>1. /\ At(t, "done")
      /\ Then(t, IF invocations' # invocations THEN ProcessNext(invocations') ELSE <<>>)
      /\ UNCHANGED <<current_transaction, subscribables, pb>>
  BY DEF Complete, flags, calls
<1>2. /\ invocations # <<>> /\ invocations[1].status = "RUNNING"
      /\ invocations' = Drop(invocations, 1)
  BY QueueCompletes DEF LoopInv
<1>3. invocations' \in Seq(Invocations)
  BY DEF TInv
<1>4. \E steps : Goes(t, "done", steps) /\ (steps # <<>> => Head(steps).op = "exec")
  <2>1. CASE invocations' # invocations
    <3> DEFINE steps == ProcessNext(invocations')
    <3>1. /\ steps \in Seq(Steps) /\ Then(t, steps) /\ \A i \in DOMAIN steps : i > 1 => steps[i].op = "error"
          /\ steps # <<>> => Head(steps).op = "exec"
      BY <1>1, <1>3, <2>1, NextFirst
    <3> HIDE DEF steps
    <3>2. Goes(t, "done", steps)
      BY <1>1, <3>1 DEF Goes
    <3> QED BY <3>1, <3>2
  <2>2. CASE invocations' = invocations
    <3>1. Then(t, <<>>)
      BY <1>1, <2>2
    <3> QED BY <1>1, <3>1, GoesBack
  <2> QED BY <2>1, <2>2
<1>5. PICK steps : Goes(t, "done", steps) /\ (steps # <<>> => Head(steps).op = "exec")
  BY <1>4
<1>6. steps # <<>> => Beats(Head(steps)) /\ Head(steps).op # "heartbeat"
  BY <1>5 DEF Beats
<1>7. Buffered'
  BY <1>1, <1>5, BufferedKept DEF StallInv
<1>8. QueueBeats'
  <2>1. \A k \in DOMAIN invocations' :
           k \in Nat /\ k + 1 \in DOMAIN invocations /\ invocations'[k] = invocations[k + 1]
    BY <1>2, FirstDropped
  <2>2. \A k \in DOMAIN invocations' : \E j \in DOMAIN invocations : invocations'[k] = invocations[j]
    BY <2>1
  <2> QED BY <2>2, QueueBeatsKept DEF StallInv
<1>9. \A u \in Threads \ {t} : ~ Is(u, {"heartbeat"})
  <2>1. Is(t, OwnerOps)
    BY <1>1, AtFacts DEF Is, OwnerOps, TInv
  <2>2. \A u \in Threads : Is(u, {"heartbeat"}) => Is(u, OwnerOps)
    BY DEF Is, OwnerOps
  <2> QED BY <2>1, <2>2 DEF LoopInv, QueueInv, OneOwner
<1> QED BY <1>1, <1>5, <1>6, <1>7, <1>8, <1>9, StallsKept

\* make_subscribe_request_ that pauses, or begins a heartbeat for its channels
LEMMA StallMakeHeartbeat ==
    ASSUME TInv, TInv', LeaveInv, LoopInv, LoopWindows, StallInv, NEW t \in Threads, MakeHeartbeat(t)
    PROVE  StallInv'
<1> DEFINE id == Head(todo[t]).id
           s == With("heartbeat", id)
<1>1. /\ At(t, "exec") /\ id[1] \in Requests /\ id[1] # "EMIT_MESSAGE"
      /\ Invocation(id).heartbeat
      /\ UNCHANGED <<subscribables, pb>>
      /\ \/ Then(t, <<>>) /\ UNCHANGED <<invocations, current_transaction>>
         \/ /\ current_transaction = "NONE"
            /\ invocations' = [invocations EXCEPT ![Index(id)].heartbeat = FALSE,
                                                  ![Index(id)].status = "RUNNING"]
            /\ current_transaction' = "HEARTBEAT"
            /\ Then(t, <<s>>)
  BY DEF MakeHeartbeat, Runs, Return, calls, Requests
<1>2. CASE Then(t, <<>>) /\ UNCHANGED <<invocations, current_transaction>>
  BY <1>1, <1>2, StallsBack
<1>3. CASE /\ current_transaction = "NONE"
           /\ invocations' = [invocations EXCEPT ![Index(id)].heartbeat = FALSE,
                                                 ![Index(id)].status = "RUNNING"]
           /\ current_transaction' = "HEARTBEAT"
           /\ Then(t, <<s>>)
  <2>1. id \in Ids /\ Index(id) = 1 /\ Invocation(id) = invocations[1] /\ 1 \in DOMAIN invocations
    BY <1>1, <1>3, AtExec
  <2>2. s \in Steps /\ s.op = "heartbeat"
    BY <2>1, IdStep DEF IdOps
  <2> HIDE DEF s
  <2>3. PICK steps : Goes(t, "exec", steps) /\ steps # <<>> /\ Head(steps) = s
    BY <1>1, <1>3, <2>2, GoesOn
  <2>4. /\ todo'[t] # <<>> /\ Head(todo'[t]) = s
        /\ \A u \in Threads \ {t} : todo'[u] = todo[u] /\ todo[u] = <<>>
    BY <1>3, <2>3, GoesFacts
  <2>5. /\ DOMAIN invocations' = DOMAIN invocations
        /\ \A j \in DOMAIN invocations :
              /\ invocations'[j].ctx = invocations[j].ctx
              /\ invocations'[j].heartbeat => invocations[j].heartbeat
    <3>1. invocations \in Seq(Invocations) /\ invocations[1] \in Invocations
      BY <2>1 DEF TInv
    <3>2. invocations' = [invocations EXCEPT ![1].heartbeat = FALSE, ![1].status = "RUNNING"]
      BY <1>3, <2>1
    <3> QED BY <2>1, <3>1, <3>2 DEF Invocations
  <2>6. Tracked'
    BY <2>2, <2>4 DEF Tracked, Is
  <2>7. Buffered'
    BY <1>1, <2>3, BufferedKept DEF StallInv
  <2>8. Beats(s)
    BY <2>2 DEF Beats
  <2>9. CallBeats'
    BY <1>1, <2>3, <2>8, CallBeatsKept DEF StallInv
  <2>10. QueueBeats'
    BY <2>5, QueueBeatsKept DEF StallInv
  <2>11. SentBeats'
    <3>1. invocations'[1].ctx.channels # {}
      BY <1>1, <2>1, <2>5 DEF StallInv, QueueBeats
    <3> QED BY <3>1 DEF SentBeats
  <2> QED BY <2>6, <2>7, <2>9, <2>10, <2>11 DEF StallInv
<1> QED BY <1>1, <1>2, <1>3

\* pubnub_heartbeat is not refused: the context is free, there are channels, and the
\* read buffer is empty.
LEMMA StallHeartbeat ==
    ASSUME TInv, TInv', LeaveInv, LoopInv, LoopWindows, StallInv, NEW t \in Threads, Heartbeat(t)
    PROVE  StallInv'
<1> DEFINE id == Head(todo[t]).id
           channels == Invocation(id).ctx.channels
<1>1. /\ At(t, "heartbeat") /\ invocations' = Mark(id, "CREATED") /\ Then(t, <<>>)
      /\ pb' = IF CanStart /\ channels # {} /\ pb.messages = 0
               THEN Started("HEARTBEAT", channels) ELSE pb
      /\ UNCHANGED <<current_transaction, subscribables>>
  BY DEF Heartbeat, Return, flags, calls
<1>2. PICK steps : Goes(t, "heartbeat", steps) /\ steps = <<>>
  BY <1>1, GoesBack
<1>3. /\ todo[t] # <<>> /\ Head(todo[t]).op = "heartbeat"
      /\ \A u \in Threads \ {t} : todo'[u] = todo[u]
      /\ todo'[t] # <<>> => Head(todo'[t]).op = "error"
  BY <1>2, GoesFacts
<1>4. CanStart /\ current_transaction = "HEARTBEAT"
  BY <1>3 DEF LoopInv, CallsInv, HeartbeatHeld, Is
<1>5. Is(t, OwnerOps)
  BY <1>3 DEF Is, OwnerOps
<1>6. FirstIs(id)
  BY <1>5 DEF LoopInv, QueueInv, Owner
<1>7. Index(id) = 1 /\ Invocation(id) = invocations[1] /\ 1 \in DOMAIN invocations
  BY <1>6, FirstIndex DEF LoopInv, QueueInv, TInv
<1>8. channels # {}
  BY <1>3, <1>7 DEF StallInv, SentBeats, Is
<1>9. pb.messages = 0
  BY <1>2, BufferedAlone DEF StallInv
<1>10. pb' = Started("HEARTBEAT", channels)
  BY <1>1, <1>4, <1>8, <1>9
<1>11. pb \in PbOf(pb.channels) /\ "HEARTBEAT" \in Transactions
  BY DEF TInv, Transactions
<1> HIDE DEF channels
<1>12. pb'.state = "BUSY" /\ pb'.trans = "HEARTBEAT"
  BY <1>10, <1>11, PbStarted
<1>13. Tracked'
  BY <1>1, <1>4, <1>12 DEF Tracked
<1>14. pb'.messages = pb.messages
  BY <1>10, <1>11 DEF Started, PbOf
<1>15. Buffered'
  BY <1>9, <1>14 DEF Buffered
<1>16. CallBeats'
  BY <1>1, <1>2, CallBeatsKept DEF StallInv
<1>17. QueueBeats'
  BY <1>1, MarkBeats DEF StallInv
<1>18. SentBeats'
  <2>1. \A u \in Threads \ {t} : ~ Is(u, {"heartbeat"})
    <3>1. \A u \in Threads : Is(u, {"heartbeat"}) => Is(u, OwnerOps)
      BY DEF Is, OwnerOps
    <3> QED BY <1>5, <3>1 DEF LoopInv, QueueInv, OneOwner
  <2>2. \A u \in Threads : ~ Is(u, {"heartbeat"})'
    BY <1>3, <2>1 DEF Is
  <2> QED BY <2>2 DEF SentBeats
<1> QED BY <1>13, <1>15, <1>16, <1>17, <1>18 DEF StallInv

\* A request that is sent meets no transaction; a refused one is an error.
LEMMA StallMakeSubscribeRequest ==
    ASSUME TInv, TInv', LeaveInv, LoopInv, LoopWindows, StallInv, NEW t \in Threads,
           MakeSubscribeRequest(t)
    PROVE  StallInv'
<1> DEFINE id == Head(todo[t]).id
           inv == Invocation(id)
           refused == inv.ctx.channels = {} \/ pb.messages # 0
           d == With("done", id)
           e == Step("error")
           Sent == /\ current_transaction = "NONE"
                   /\ invocations' = Mark(id, "RUNNING")
                   /\ pb' = IF refused THEN [pb EXCEPT !.timetoken = inv.ctx.cursor]
                            ELSE [Started(id[1], inv.ctx.channels)
                                     EXCEPT !.timetoken = inv.ctx.cursor, !.cursor = inv.ctx.cursor]
                   /\ Then(t, <<d>> \o IF refused THEN <<e>> ELSE <<>>)
<1>1. /\ At(t, "exec") /\ id[1] \in Requests /\ Runs(t, Requests)
      /\ UNCHANGED <<current_transaction, subscribables>>
      /\ \/ Then(t, <<>>) /\ UNCHANGED <<invocations, pb>>
         \/ current_transaction = "NONE" /\ ~ CanStart
         \/ Sent
  BY DEF MakeSubscribeRequest, Runs, Return, flags, calls
<1>2. id[1] # "EMIT_MESSAGE" /\ id[1] \in Transactions
  BY <1>1 DEF Requests, Transactions
<1>3. CASE Then(t, <<>>) /\ UNCHANGED <<invocations, pb>>
  BY <1>1, <1>2, <1>3, StallsBack
<1>4. CASE current_transaction = "NONE" /\ ~ CanStart
  BY <1>1, <1>4, RequestCanStart
<1>5. CASE Sent
  <2>1. id \in Ids /\ Index(id) = 1 /\ 1 \in DOMAIN invocations
    BY <1>1, <1>5, AtExec
  <2>2. d \in Steps /\ d.op = "done" /\ e \in Steps /\ e.op = "error"
    BY <2>1, IdStep DEF IdOps, Step, Steps, ErrorSteps
  <2>3. \E steps : Goes(t, "exec", steps) /\ steps # <<>> /\ Head(steps) = d
    <3> HIDE DEF d, e
    <3>1. CASE refused
      <4> DEFINE r == <<d>> \o <<e>>
      <4>1. /\ r \in Seq(Steps) /\ r # <<>> /\ Head(r) = d
            /\ \A i \in DOMAIN r : (i = 1 /\ r[i] = d) \/ (i > 1 /\ r[i] = e)
        BY <2>2, TwoCalls
      <4>2. Then(t, r)
        BY <1>5, <3>1
      <4> HIDE DEF r
      <4>3. Goes(t, "exec", r)
        BY <1>1, <2>2, <4>1, <4>2 DEF Goes
      <4> QED BY <2>2, <4>1, <4>3
    <3>2. CASE ~ refused
      <4>1. <<d>> \in Seq(Steps)
        BY <2>2, OneStep
      <4>2. <<d>> \o <<>> = <<d>>
        BY <4>1, ConcatEmptySeq
      <4>3. Then(t, <<d>>)
        BY <1>5, <3>2, <4>2
      <4> HIDE DEF refused
      <4>4. "exec" # "leave" /\ d.op # "leave"
        BY <2>2
      <4> QED BY <1>1, <2>2, <4>3, <4>4, GoesOn
    <3> QED BY <3>1, <3>2
  <2>4. PICK steps : Goes(t, "exec", steps) /\ steps # <<>> /\ Head(steps) = d
    BY <2>3
  <2>5. pb'.messages = pb.messages
    <3>1. pb \in PbOf(pb.channels)
      BY DEF TInv
    <3>2. CASE refused
      <4>1. pb' = [pb EXCEPT !.timetoken = inv.ctx.cursor]
        BY <1>5, <3>2
      <4> HIDE DEF inv, refused
      <4> QED BY <3>1, <4>1 DEF PbOf
    <3>3. CASE ~ refused
      <4> DEFINE p == Started(id[1], inv.ctx.channels)
      <4>1. pb' = [p EXCEPT !.timetoken = inv.ctx.cursor, !.cursor = inv.ctx.cursor]
        BY <1>5, <3>3
      <4>2. p \in PbOf(inv.ctx.channels)
        BY <1>2, <3>1, PbStarted
      <4> HIDE DEF inv, id, refused
      <4>3. p.messages = pb.messages
        BY <3>1 DEF Started, PbOf
      <4> HIDE DEF p
      <4>4. pb'.messages = p.messages
        BY <4>1, <4>2 DEF PbOf
      <4> QED BY <4>3, <4>4
    <3> QED BY <3>2, <3>3
  <2>6. Buffered'
    BY <1>2, <2>4, <2>5, BufferedKept DEF StallInv
  <2> HIDE DEF inv, id, d, e, refused
  <2>7. QueueBeats' /\ invocations'[1].ctx = invocations[1].ctx
    BY <1>5, <2>1, MarkBeats DEF StallInv
  <2>8. Beats(d)
    BY <2>2 DEF Beats
  <2> QED BY <1>1, <1>5, <2>2, <2>4, <2>6, <2>7, <2>8, StallsKept
<1> QED BY <1>1, <1>3, <1>4, <1>5

\* A step that turns into an event, with the engine as it is
LEMMA StallsTold ==
    ASSUME TInv, LeaveInv, LoopInv, LoopWindows, StallInv, NEW t \in Threads,
           NEW op \in {"error", "changed"}, At(t, op), NEW s \in Steps, Then(t, <<s>>), s.op = "event",
           Beats(s), UNCHANGED <<current_transaction, subscribables, invocations, pb>>
    PROVE  StallInv'
<1>1. s.op # "leave" /\ op # "leave"
  OBVIOUS
<1>2. PICK steps : Goes(t, op, steps) /\ steps # <<>> /\ Head(steps) = s
  BY <1>1, GoesOn
<1>3. Buffered'
  BY <1>2, BufferedKept DEF StallInv
<1>4. QueueBeats'
  BY DEF StallInv, QueueBeats
<1> QED BY <1>2, <1>3, <1>4, StallsKept

\* A failed request becomes an event of the state.
LEMMA StallSubscribeError ==
    ASSUME TInv, TInv', LeaveInv, LoopInv, LoopWindows, StallInv, NEW t \in Threads, SubscribeError(t)
    PROVE  StallInv'
<1>1. /\ At(t, "error")
      /\ Then(t, CASE state = "HANDSHAKING" -> <<CopyEvent("HANDSHAKE_FAILURE")>>
                   [] state = "RECEIVING" -> <<CopyEvent("RECEIVE_FAILURE")>>
                   [] OTHER -> <<>>)
      /\ UNCHANGED <<current_transaction, subscribables, invocations, pb>>
  BY DEF SubscribeError, engine, flags, calls
<1>2. ASSUME NEW type \in {"HANDSHAKE_FAILURE", "RECEIVE_FAILURE"}, Then(t, <<CopyEvent(type)>>)
      PROVE  StallInv'
  <2> DEFINE s == CopyEvent(type)
  <2>1. s \in Steps /\ s.op = "event" /\ ~ s.heartbeat
    BY CopyStep DEF EventTypes, CopyEvent, Event
  <2>2. Then(t, <<s>>)
    BY <1>2
  <2> HIDE DEF s
  <2>3. Beats(s)
    BY <2>1 DEF Beats
  <2> QED BY <1>1, <2>1, <2>2, <2>3, StallsTold
<1>3. CASE Then(t, <<>>)
  BY <1>1, <1>3, StallsBack
<1> QED BY <1>1, <1>2, <1>3

\* The event of a call that added a subscription has its channels.
LEMMA StallSubscriptionChanged ==
    ASSUME TInv, TInv', LeaveInv, LoopInv, LoopWindows, StallInv, NEW t \in Threads,
           SubscriptionChanged(t)
    PROVE  StallInv'
<1> DEFINE c == Head(todo[t])
<1>1. /\ At(t, "changed") /\ UNCHANGED <<current_transaction, subscribables, invocations, pb>>
      /\ \E type \in Fresh, cursor \in {context.cursor, c.cursor} :
            Then(t, <<Event(type, subscribables, cursor, c.heartbeat)>>)
  BY DEF SubscriptionChanged, engine, flags, calls, Fresh
<1>2. PICK type \in Fresh, cursor \in {context.cursor, c.cursor} :
            Then(t, <<Event(type, subscribables, cursor, c.heartbeat)>>)
  BY <1>1
<1> DEFINE e == Event(type, subscribables, cursor, c.heartbeat)
<1>3. c \in Steps /\ c.op = "changed" /\ todo[t] \in Seq(Steps) /\ todo[t] # <<>>
  BY <1>1, AtFacts DEF TInv
<1>4. c.heartbeat => subscribables # {}
  <2>1. c = todo[t][1] /\ 1 \in DOMAIN todo[t]
    BY <1>3
  <2> QED BY <1>3, <2>1 DEF StallInv, CallBeats, Beats
<1>5. e \in Steps /\ e.op = "event" /\ e.heartbeat = c.heartbeat /\ e.ctx.channels = subscribables
  <2>1. c.cursor \in Tokens /\ c.heartbeat \in BOOLEAN /\ context.cursor \in Tokens
        /\ subscribables \in SUBSET Channels /\ type \in EventTypes
    BY <1>3, StepFacts DEF TInv, Contexts, Fresh, EventTypes
  <2>2. e \in Steps
    BY <2>1, EventStep
  <2> QED BY <2>2 DEF Event
<1>6. Then(t, <<e>>)
  BY <1>2
<1> HIDE DEF e, c
<1>7. Beats(e)
  BY <1>4, <1>5 DEF Beats
<1> QED BY <1>1, <1>5, <1>6, <1>7, StallsTold

\* The leave of a call is sent and marked, or waits.
LEMMA StallLeave ==
    ASSUME TInv, TInv', LeaveInv, LoopInv, LoopWindows, StallInv, NEW t \in Threads, Leave(t)
    PROVE  StallInv'
<1> DEFINE channels == Head(todo[t]).channels
<1>1. /\ At(t, "leave") /\ Then(t, <<>>)
      /\ \/ current_transaction' = "LEAVE" /\ pb' = Started("LEAVE", channels)
         \/ UNCHANGED <<current_transaction, pb>>
      /\ UNCHANGED <<subscribables, invocations>>
  BY DEF Leave, Return, engine, calls
<1>2. CASE UNCHANGED <<current_transaction, pb>>
  BY <1>1, <1>2, StallsBack
<1>3. CASE current_transaction' = "LEAVE" /\ pb' = Started("LEAVE", channels)
  <2>1. PICK steps : Goes(t, "leave", steps) /\ steps = <<>>
    BY <1>1, GoesBack
  <2>2. /\ \A u \in Threads \ {t} : todo'[u] = todo[u]
        /\ todo'[t] # <<>> => Head(todo'[t]).op = "error" \/ Follows(Head(todo'[t]))
    BY <2>1, GoesFacts
  <2>3. pb \in PbOf(pb.channels) /\ "LEAVE" \in Transactions
    BY DEF TInv, Transactions
  <2>4. pb'.state = "BUSY" /\ pb'.trans = "LEAVE"
    BY <1>3, <2>3, PbStarted
  <2>5. Tracked'
    BY <1>3, <2>4 DEF Tracked
  <2>6. pb'.messages = pb.messages
    <3> HIDE DEF channels
    <3> QED BY <1>3, <2>3 DEF Started, PbOf
  <2>7. Buffered'
    BY <2>1, <2>6, BufferedKept DEF StallInv
  <2>8. CallBeats'
    BY <1>1, <2>1, CallBeatsKept DEF StallInv
  <2>9. QueueBeats'
    BY <1>1 DEF StallInv, QueueBeats
  <2>10. SentBeats'
    <3>1. \A u \in Threads : Is(u, {"heartbeat"})' => Is(u, {"heartbeat"})
      BY <2>2 DEF Is, Follows
    <3> QED BY <1>1, <3>1 DEF StallInv, SentBeats
  <2> QED BY <2>5, <2>7, <2>8, <2>9, <2>10 DEF StallInv
<1> QED BY <1>1, <1>2, <1>3

\* An event that the state takes: the messages of an answer are given out next, and
\* a new invocation has the channels of the event.
LEMMA StallTakes ==
    ASSUME TInv, TInv', LeaveInv, LoopInv, LoopWindows, CursorInv, StallInv, NEW t \in Threads,
           NEW ev, NEW target, NEW e, NEW q, NEW f, NEW new, NEW steps,
           Taken(t, ev, target, e, q, f, new, steps), seen' = Seen(ev, target)
    PROVE  StallInv'
<1>1. /\ ev = Head(todo[t]) /\ ev \in Steps /\ ev.op = "event" /\ ev.type \in EventTypes
      /\ target = Target(state, ev.type, ev.ctx.channels = {}) /\ target # "NONE"
      /\ e = Effects(state, ev.type, target)
      /\ UNCHANGED <<current_transaction, subscribables, pb>>
  BY StepFacts DEF Taken, flags, calls
<1>2. Goes(t, "event", steps) /\ (steps # <<>> => Head(steps).op = "exec")
  BY DEF Taken, Goes
<1>3. todo[t] \in Seq(Steps) /\ todo[t] # <<>>
  BY <1>2, GoesFacts DEF TInv
<1>4. Buffered'
  <2> SUFFICES ASSUME pb.messages # 0 PROVE current_transaction' = "NONE" /\ Handing'
    BY <1>1 DEF Buffered
  <2>1. t = "watcher" /\ ev.type = "RECEIVE_SUCCESS" /\ state = "RECEIVING"
    BY <1>1, <1>2, BufferedAlone DEF StallInv
  <2>2. target = "RECEIVING"
    BY <1>1, LastEffect, <2>1
  <2>3. seen' = seen
    BY <2>1, <2>2 DEF Seen
  <2>4. Fitting(t, ev)
    BY <1>1, <1>3 DEF CursorInv, CallCursors
  <2>5. Emitting'
    BY <2>1, <2>3, <2>4, TakenEmits
  <2> QED BY <2>5 DEF Emitting, Handing, Is
<1>5. ev.heartbeat => ev.ctx.channels # {}
  <2>1. ev = todo[t][1] /\ 1 \in DOMAIN todo[t]
    BY <1>1, <1>3
  <2> QED BY <1>1, <2>1 DEF StallInv, CallBeats, Beats
<1>6. QueueBeats'
  <2> SUFFICES ASSUME NEW n, n = Len(q) PROVE QueueBeats'
    OBVIOUS
  <2>1. /\ \A i \in DOMAIN q : invocations'[i] = q[i]
        /\ \A k \in DOMAIN new : invocations'[n + k] = new[k]
        /\ \A i \in DOMAIN invocations' : i \in DOMAIN q \/ \E k \in DOMAIN new : i = n + k
    BY TakenPlaces
  <2>2. \A i \in DOMAIN q : f[i] \in DOMAIN invocations /\ q[i] = invocations[f[i]]
    BY DEF Taken, LeftOf, Selects
  <2>3. \A k \in DOMAIN new : new[k].heartbeat => ev.heartbeat /\ new[k].ctx = ev.ctx
    BY DEF Taken, Adds
  <2>4. ASSUME NEW i \in DOMAIN invocations', invocations'[i].heartbeat
        PROVE  invocations'[i].ctx.channels # {}
    <3>1. CASE i \in DOMAIN q
      BY <2>1, <2>2, <2>4, <3>1 DEF StallInv, QueueBeats
    <3>2. CASE \E k \in DOMAIN new : i = n + k
      BY <1>5, <2>1, <2>3, <2>4, <3>2
    <3> QED BY <2>1, <3>1, <3>2
  <2> QED BY <2>4 DEF QueueBeats
<1>7. ASSUME NEW u \in Threads, Is(u, {"heartbeat"}) PROVE invocations'[1].ctx = invocations[1].ctx
  <2>1. Is(u, OwnerOps)
    BY <1>7 DEF Is, OwnerOps
  <2>2. invocations # <<>> /\ invocations[1].status = "RUNNING" /\ Unique
    BY <2>1 DEF LoopInv, QueueInv, Owner, FirstIs
  <2> QED BY <2>2, TakenFirst
<1>8. steps # <<>> => Beats(Head(steps)) /\ Head(steps).op # "heartbeat"
  BY <1>2 DEF Beats
<1> QED BY <1>1, <1>2, <1>4, <1>6, <1>7, <1>8, StallsKept

\* pbcc_ee_handle_event: the state takes every answer to its own request.
LEMMA StallHandleEvent ==
    ASSUME TInv, TInv', LeaveInv, LoopInv, LoopWindows, CursorInv, StallInv, NEW t \in Threads,
           HandleEvent(t)
    PROVE  StallInv'
<1> DEFINE h == Head(todo[t])
           aim == Target(state, h.type, h.ctx.channels = {})
<1>1. aim # "NONE" => seen' = Seen(h, aim)
  BY DEF HandleEvent
<1>2. CASE /\ At(t, "event") /\ Return(t) /\ aim = "NONE"
           /\ UNCHANGED <<engine, flags, calls, pb>>
  <2>1. /\ Then(t, <<>>) /\ UNCHANGED <<current_transaction, subscribables, invocations, pb>>
    BY <1>2 DEF Return, engine, flags, calls
  <2>2. PICK steps : Goes(t, "event", steps) /\ steps = <<>>
    BY <1>2, <2>1, GoesBack
  <2>3. pb.messages = 0
    <3> SUFFICES ASSUME pb.messages # 0 PROVE FALSE
      OBVIOUS
    <3>1. h.type = "RECEIVE_SUCCESS" /\ state = "RECEIVING"
      BY <2>2, BufferedAlone DEF StallInv
    <3>2. aim = "RECEIVING"
      BY <3>1 DEF Target, Stopped, Failed
    <3> QED BY <1>2, <3>2
  <2>4. Buffered' /\ QueueBeats'
    BY <2>1, <2>3 DEF StallInv, Buffered, QueueBeats
  <2> QED BY <2>1, <2>2, <2>4, StallsKept
<1>3. ASSUME NEW ev, NEW target, NEW e, NEW q, NEW f, NEW new, NEW steps,
             Taken(t, ev, target, e, q, f, new, steps)
      PROVE  StallInv'
  <2>1. seen' = Seen(ev, target)
    BY <1>1, <1>3 DEF Taken
  <2> QED BY <1>3, <2>1, StallTakes
<1> QED BY <1>2, <1>3, HandleEventTakes

\* The answer that is reported becomes an event of the state; with messages, that of
\* a receive request.
LEMMA StallReport ==
    ASSUME TInv, TInv', LeaveInv, LoopInv, LoopWindows, StallInv, Report
    PROVE  StallInv'
<1> DEFINE t == "watcher"
           event(success, failure) ==
              IF Head(todo["watcher"]).ok
              THEN Event(success, context.channels, pb.timetoken, FALSE) ELSE CopyEvent(failure)
           h == event("HANDSHAKE_SUCCESS", "HANDSHAKE_FAILURE")
           r == event("RECEIVE_SUCCESS", "RECEIVE_FAILURE")
<1>1. /\ At(t, "report")
      /\ Then(t, CASE state = "HANDSHAKING" -> <<h>> [] state = "RECEIVING" -> <<r>> [] OTHER -> <<>>)
      /\ UNCHANGED <<state, current_transaction, subscribables, invocations, pb>>
  BY DEF Report, engine, flags, calls
<1>2. t \in Threads
  BY DEF Threads
<1>3. ASSUME NEW success \in Succeeds, NEW failure \in {"HANDSHAKE_FAILURE", "RECEIVE_FAILURE"},
             NEW s, s = event(success, failure)
      PROVE  /\ s \in Steps /\ s.op = "event" /\ ~ s.heartbeat
             /\ Head(todo[t]).ok => s.type = success
  <2>1. CASE Head(todo[t]).ok
    <3>1. success \in EventTypes /\ FALSE \in BOOLEAN
      BY DEF EventTypes, Succeeds
    <3>2. pb.timetoken \in Tokens /\ context.channels \in SUBSET Channels
      BY PbFacts DEF TInv, Contexts
    <3>3. s = Event(success, context.channels, pb.timetoken, FALSE)
      BY <1>3, <2>1
    <3>4. s \in Steps
      BY <3>1, <3>2, <3>3, EventStep
    <3> QED BY <3>3, <3>4 DEF Event
  <2>2. CASE ~ Head(todo[t]).ok
    <3>1. s = CopyEvent(failure)
      BY <1>3, <2>2
    <3> QED BY <2>2, <3>1, CopyStep DEF EventTypes, CopyEvent, Event
  <2> QED BY <2>1, <2>2
<1>4. h \in Steps /\ h.op = "event" /\ ~ h.heartbeat
  BY <1>3 DEF Succeeds
<1>5. r \in Steps /\ r.op = "event" /\ ~ r.heartbeat /\ (Head(todo[t]).ok => r.type = "RECEIVE_SUCCESS")
  BY <1>3 DEF Succeeds
<1> HIDE DEF h, r, event, t
<1>6. \E steps : /\ Goes(t, "report", steps)
                 /\ state = "RECEIVING" => steps # <<>> /\ Head(steps) = r
                 /\ steps # <<>> => Head(steps) \in {h, r}
  <2>1. "report" # "leave" /\ h.op # "leave" /\ r.op # "leave"
    BY <1>4, <1>5
  <2>2. CASE state = "HANDSHAKING"
    <3>1. Then(t, <<h>>)
      BY <1>1, <2>2
    <3> QED BY <1>1, <1>2, <1>4, <2>1, <2>2, <3>1, GoesOn
  <2>3. CASE state = "RECEIVING"
    <3>1. Then(t, <<r>>)
      BY <1>1, <2>3
    <3> QED BY <1>1, <1>2, <1>5, <2>1, <2>3, <3>1, GoesOn
  <2>4. CASE state \notin {"HANDSHAKING", "RECEIVING"}
    <3>1. Then(t, <<>>)
      BY <1>1, <2>4
    <3> QED BY <1>1, <1>2, <2>4, <3>1, GoesBack
  <2> QED BY <2>2, <2>3, <2>4
<1>7. PICK steps : /\ Goes(t, "report", steps)
                   /\ state = "RECEIVING" => steps # <<>> /\ Head(steps) = r
                   /\ steps # <<>> => Head(steps) \in {h, r}
  BY <1>6
<1>8. Buffered'
  <2> SUFFICES ASSUME pb.messages # 0 PROVE current_transaction' = "NONE" /\ Handing'
    BY <1>1 DEF Buffered
  <2>1. Head(todo[t]).ok /\ state = "RECEIVING"
    BY <1>2, <1>7, BufferedAlone DEF StallInv
  <2>2. todo'[t] # <<>> /\ Head(todo'[t]) = r
    BY <1>2, <1>7, <2>1, GoesFacts
  <2>3. current_transaction' = "NONE"
    BY <1>1 DEF StallInv, Buffered
  <2> QED BY <1>1, <1>5, <2>1, <2>2, <2>3 DEF Handing, t
<1>9. QueueBeats' /\ invocations'[1].ctx = invocations[1].ctx
  BY <1>1 DEF StallInv, QueueBeats
<1>10. steps # <<>> => Beats(Head(steps)) /\ Head(steps).op # "heartbeat"
  BY <1>4, <1>5, <1>7 DEF Beats
<1> QED BY <1>1, <1>2, <1>7, <1>8, <1>9, <1>10, StallsKept

\* The leave that a callback prepared is sent.
LEMMA StallRequeued ==
    ASSUME TInv, TInv', LeaveInv, LoopInv, LoopWindows, StallInv, Requeued
    PROVE  StallInv'
<1>1. /\ pb.requeued /\ todo["watcher"] = <<>>
      /\ todo["app"] # <<>> => Head(todo["app"]).op \in Windows
      /\ todo' = [todo EXCEPT !["watcher"] = <<>>]
      /\ pb' = [pb EXCEPT !.requeued = FALSE, !.state = IF CanStart THEN "BUSY" ELSE @]
      /\ UNCHANGED <<invocations, current_transaction, subscribables>>
  BY DEF Requeued, Enters, engine, flags, calls
<1>2. todo["app"] = <<>> /\ CanStart /\ current_transaction = "LEAVE" /\ pb.trans = "LEAVE"
  BY <1>1, PreparedAlone
<1>3. \A u \in Threads : todo'[u] = <<>>
  BY <1>1, <1>2 DEF TInv, Threads
<1>4. pb'.state = "BUSY" /\ pb'.trans = "LEAVE" /\ pb'.messages = pb.messages
  <2>1. pb \in PbOf(pb.channels)
    BY DEF TInv
  <2> QED BY <1>1, <1>2, <2>1 DEF PbOf
<1>5. Tracked'
  BY <1>1, <1>2, <1>4 DEF Tracked
<1>6. Buffered'
  BY <1>1, <1>4 DEF StallInv, Buffered, Handing
<1>7. CallBeats'
  BY <1>3 DEF CallBeats
<1>8. QueueBeats' /\ SentBeats'
  BY <1>1, <1>3 DEF StallInv, QueueBeats, SentBeats, Is
<1> QED BY <1>5, <1>6, <1>7, <1>8 DEF StallInv

\* pbcc_subscribe_callback_ of another transaction: its mark goes, or is that of the
\* leave that is prepared.
LEMMA StallCallback ==
    ASSUME TInv, TInv', LeaveInv, LoopInv, LoopWindows, WaitInv, StallInv, OtherCallback
    PROVE  StallInv'
<1> DEFINE t == "watcher"
           report == [op |-> "report", ok |-> Head(todo[t]).ok]
           ended == Head(todo[t]).trans \in {"HEARTBEAT", "LEAVE"}
           transaction == IF ended THEN "NONE" ELSE current_transaction
           flushed == IF ended THEN [pb EXCEPT !.messages = 0, !.cursor = 0] ELSE pb
           postponed == leave # {} /\ transaction = "NONE"
<1>1. /\ At(t, "callback") /\ UNCHANGED <<state, subscribables>>
      /\ current_transaction' = IF postponed THEN "LEAVE" ELSE transaction
      /\ pb' = IF ~ postponed THEN flushed
               ELSE [flushed EXCEPT !.trans = "LEAVE", !.channels = leave, !.timetoken = 0,
                                    !.requeued = TRUE]
  BY DEF OtherCallback, calls
<1>2. t \in Threads /\ Is(t, {"callback"})
  BY <1>1, AtFacts DEF TInv, Threads, Is
<1>3. /\ todo["app"] = <<>>
      /\ current_transaction' = IF leave = {} THEN "NONE" ELSE "LEAVE"
      /\ \/ invocations' = invocations
         \/ invocations # <<>> /\ invocations[1].status = "RUNNING" /\ invocations' = Drop(invocations, 1)
  BY CallbackDone
<1>4. flushed \in PbOf(pb.channels) /\ flushed.messages \in {0, pb.messages}
  BY TokenFacts DEF TInv, PbOf
<1>5. ~ ended => current_transaction = "NONE"
  BY <1>2 DEF WaitInv, Free
<1> HIDE DEF flushed
<1>6. pb'.messages = flushed.messages /\ (postponed => pb'.requeued)
  BY <1>1, <1>4 DEF PbOf
<1>7. current_transaction' # "NONE" => pb'.requeued
  BY <1>1, <1>3, <1>5, <1>6
<1>8. Tracked'
  BY <1>7 DEF Tracked
<1> HIDE DEF report, t, postponed, transaction, ended
<1>9. PICK steps : /\ Goes(t, "callback", steps)
                   /\ steps # <<>> => \/ Head(steps).op = "exec"
                                      \/ Head(steps) = report /\ leave = {} /\ invocations' = <<>>
  BY CallbackGoes DEF t, report
<1>10. Buffered'
  <2>1. pb'.messages # 0 => pb'.messages = pb.messages
    BY <1>4, <1>6
  <2> QED BY <1>2, <1>9, <2>1, BufferedKept DEF StallInv
<1>11. steps # <<>> => Head(steps).op \in {"exec", "report"}
  BY <1>9 DEF report
<1>12. CallBeats'
  <2>1. steps # <<>> => Beats(Head(steps))
    BY <1>11 DEF Beats
  <2> QED BY <1>1, <1>2, <1>9, <2>1, CallBeatsKept DEF StallInv
<1>13. QueueBeats'
  <2>1. CASE invocations' = invocations
    BY <2>1 DEF StallInv, QueueBeats
  <2>2. CASE invocations # <<>> /\ invocations[1].status = "RUNNING" /\ invocations' = Drop(invocations, 1)
    <3>1. \A k \in DOMAIN invocations' : k + 1 \in DOMAIN invocations /\ invocations'[k] = invocations[k + 1]
      BY <2>2, FirstDropped
    <3> QED BY <3>1 DEF StallInv, QueueBeats
  <2> QED BY <1>3, <2>1, <2>2
<1>14. SentBeats'
  <2> SUFFICES ASSUME NEW u \in Threads PROVE ~ Is(u, {"heartbeat"})'
    BY DEF SentBeats
  <2>1. CASE u = t
    <3>1. todo'[t] # <<>> => Head(todo'[t]).op \in {"exec", "report", "error"}
      BY <1>2, <1>9, <1>11, GoesFacts
    <3> QED BY <2>1, <3>1 DEF Is
  <2>2. CASE u # t
    <3>1. todo'[u] = todo[u]
      BY <1>2, <1>9, <2>2, GoesFacts
    <3> QED BY <1>3, <2>2, <3>1 DEF Is, Threads, t
  <2> QED BY <2>1, <2>2
<1> QED BY <1>8, <1>10, <1>12, <1>13, <1>14 DEF StallInv

\* A transaction ends: the callback of a marked one is next, and an answer brings
\* messages only to a receive request, unless it leaves those of a handshake unread.
LEMMA StallEnds ==
    ASSUME TInv, TInv', LeaveInv, LoopInv, LoopWindows, "unread" \notin jams', WaitInv, StallInv,
           Ends
    PROVE  StallInv'
<1>1. /\ todo["watcher"] = <<>> /\ todo["app"] = <<>> /\ todo'["app"] = <<>>
      /\ Live => current_transaction = "NONE" /\ invocations = <<>>
  BY EndEnters
<1>2. PICK s : todo'["watcher"] = <<s>> /\ EndTold(s)
  BY EndEnters
<1>3. UNCHANGED <<state, invocations, current_transaction, subscribables>>
  BY DEF Ends, EndOk, EndError, EndCancelled, engine, flags, calls
<1>4. Tracked'
  <2> SUFFICES ASSUME current_transaction # "NONE", ~ pb.requeued
               PROVE  Is("watcher", {"callback"})' /\ Head(todo'["watcher"]).trans = current_transaction
    BY <1>3, Outcome DEF Tracked
  <2>1. pb.trans = current_transaction
    BY <1>1 DEF StallInv, Tracked, Is, Threads
  <2>2. s.op = "callback" /\ s.trans = pb.trans
    BY <1>1, <1>2 DEF EndTold
  <2> QED BY <1>2, <2>1, <2>2 DEF Is
<1>5. pb.messages = 0
  BY <1>1 DEF StallInv, Buffered, Handing
<1>6. ASSUME pb'.messages # 0
      PROVE  EndOk /\ pb.trans = "RECEIVE"
  <2> DEFINE o(x) == Over(x)
             m == Messages
  <2>1. ASSUME NEW x \in {"IDLE", "KEEP_ALIVE_IDLE"}
        PROVE  o(x) \in PbOf({}) /\ o(x).messages = 0
    <3>1. o(x) \in PbOf({})
      BY PbOver DEF TInv
    <3>2. pb \in PbOf(pb.channels)
      BY DEF TInv
    <3> QED BY <1>5, <3>1, <3>2 DEF Over, PbOf
  <2>2. EndOk /\ m # 0 => pb.trans = "RECEIVE"
    <3>1. m # 0 => pb.trans \in {"HANDSHAKE", "RECEIVE"}
      BY DEF Messages, Requests
    <3>2. EndOk /\ pb.trans = "HANDSHAKE" /\ m # 0 => "unread" \in jams'
      BY DEF EndOk
    <3> QED BY <3>1, <3>2
  <2>3. \A x \in {"IDLE", "KEEP_ALIVE_IDLE"} : o(x) = Over(x)
    OBVIOUS
  <2>4. m = Messages
    OBVIOUS
  <2> HIDE DEF o, m
  <2>5. ASSUME EndError PROVE FALSE
    <3>1. PICK x \in {"IDLE", "KEEP_ALIVE_IDLE"} : \E token :
             pb' = [Over(x) EXCEPT !.timetoken = token, !.cursor = IF pb.messages = 0 THEN 0 ELSE @]
      BY <2>5 DEF EndError
    <3>2. PICK token :
             pb' = [Over(x) EXCEPT !.timetoken = token, !.cursor = IF pb.messages = 0 THEN 0 ELSE @]
      BY <3>1
    <3>3. pb' = [o(x) EXCEPT !.timetoken = token, !.cursor = 0]
      BY <1>5, <2>3, <3>2
    <3> QED BY <1>6, <2>1, <3>3 DEF PbOf
  <2>6. ASSUME EndCancelled PROVE FALSE
    <3>1. pb' = [o("IDLE") EXCEPT !.messages = 0, !.cursor = 0]
      BY <2>3, <2>6 DEF EndCancelled
    <3> QED BY <1>6, <2>1, <3>1 DEF PbOf
  <2>7. ASSUME EndOk PROVE pb.trans = "RECEIVE"
    <3>1. PICK x \in {"IDLE", "KEEP_ALIVE_IDLE"} :
             pb' = IF pb.trans \in Requests
                   THEN [Over(x) EXCEPT !.messages = Messages, !.timetoken = now,
                                        !.cursor = IF Messages = 0 THEN 0 ELSE @]
                   ELSE Over(x)
      BY <2>7 DEF EndOk
    <3>2. \/ pb' = o(x)
          \/ pb' = [o(x) EXCEPT !.messages = m, !.timetoken = now,
                                !.cursor = IF m = 0 THEN 0 ELSE o(x).cursor]
      BY <2>3, <2>4, <3>1
    <3>3. pb'.messages = 0 \/ pb'.messages = m
      BY <2>1, <3>2 DEF PbOf
    <3> QED BY <1>6, <2>2, <2>7, <3>3
  <2> QED BY <2>5, <2>6, <2>7 DEF Ends
<1>7. Buffered'
  <2> SUFFICES ASSUME pb'.messages # 0 PROVE current_transaction' = "NONE" /\ Handing'
    BY DEF Buffered
  <2>1. EndOk /\ pb.trans = "RECEIVE" /\ Live
    BY <1>6 DEF EndOk, Live, Requests
  <2>2. todo'["watcher"] = <<[op |-> "report", ok |-> TRUE]>>
    BY <2>1 DEF EndOk, Enters, Callback, TInv, Threads, Live
  <2>3. state = "RECEIVING"
    <3>1. ~ AtCancel
      BY <1>1 DEF AtCancel, Is, Threads
    <3>2. ForState(pb.trans, state)
      BY <1>1, <2>1, <3>1 DEF LoopInv, RequestsInv, Answered
    <3> QED BY <2>1, <3>2 DEF ForState
  <2> QED BY <1>1, <1>3, <2>1, <2>2, <2>3 DEF Handing
<1>8. \A u \in Threads : \A i \in DOMAIN todo'[u] :
         todo'[u][i].op \in {"callback", "report"}
  BY <1>1, <1>2 DEF EndTold, Threads
<1>9. CallBeats'
  BY <1>8 DEF CallBeats, Beats
<1>10. QueueBeats'
  BY <1>3 DEF StallInv, QueueBeats
<1>11. SentBeats'
  BY <1>1, <1>2 DEF SentBeats, Is, EndTold, Threads
<1> QED BY <1>4, <1>7, <1>9, <1>10, <1>11 DEF StallInv

\* The calls of the application: only that which adds a subscription, of some
\* channels, asks for a heartbeat.
LEMMA CallSends ==
    ASSUME TInv, Call, \A s \in Subscriptions : ChannelsOf[s] # {}
    PROVE  \E call : \E steps \in Seq(Steps) :
              /\ Enter(call, steps) /\ steps # <<>> /\ Head(steps).op # "heartbeat"
              /\ \A i \in DOMAIN steps : Beats(steps[i])'
<1> DEFINE Sends == \E call : \E steps \in Seq(Steps) :
                       /\ Enter(call, steps) /\ steps # <<>> /\ Head(steps).op # "heartbeat"
                       /\ \A i \in DOMAIN steps : Beats(steps[i])'
           Fit(s) == /\ s \in Steps /\ s.op # "heartbeat"
                     /\ s.op = "changed" /\ s.heartbeat => subscribables' # {}
                     /\ s.op = "event" /\ s.heartbeat => s.ctx.channels # {}
<1>1. ASSUME NEW call, NEW r \in Seq(Steps), Enter(call, r), r # <<>>, \A i \in DOMAIN r : Fit(r[i])
      PROVE  Sends
  <2>1. Head(r) = r[1] /\ 1 \in DOMAIN r
    BY <1>1
  <2>2. \A i \in DOMAIN r : Beats(r[i])'
    BY <1>1 DEF Beats
  <2> QED BY <1>1, <2>1, <2>2
<1>2. ASSUME NEW call, NEW s, Enter(call, <<s>>), Fit(s)
      PROVE  Sends
  <2> DEFINE r == <<s>>
  <2>1. r \in Seq(Steps) /\ Enter(call, r) /\ r # <<>> /\ \A i \in DOMAIN r : r[i] = s
    BY <1>2
  <2> HIDE DEF r, Sends
  <2> QED BY <1>1, <1>2, <2>1
<1>3. /\ context.channels \in SUBSET Channels /\ context.cursor \in Tokens
      /\ subscribables \in SUBSET Channels /\ FALSE \in BOOLEAN /\ TRUE \in BOOLEAN
      /\ "DISCONNECT" \in EventTypes /\ "RECONNECT" \in EventTypes /\ "UNSUBSCRIBE_ALL" \in EventTypes
  BY DEF TInv, Contexts, EventTypes
<1>4. ASSUME NEW cursor \in Tokens, NEW heartbeat \in BOOLEAN, heartbeat => subscribables' # {},
             NEW s, s = [op |-> "changed", cursor |-> cursor, heartbeat |-> heartbeat]
      PROVE  Fit(s)
  BY <1>4 DEF Steps, ChangedSteps
<1>5. ASSUME NEW channels \in SUBSET Channels, NEW s, s = [op |-> "leave", channels |-> channels]
      PROVE  Fit(s)
  BY <1>5 DEF Steps, LeaveSteps
<1>6. ASSUME NEW type \in EventTypes, NEW channels \in SUBSET Channels, NEW cursor \in Tokens,
             NEW s, s = Event(type, channels, cursor, FALSE)
      PROVE  Fit(s)
  <2>1. s \in Steps
    BY <1>3, <1>6, EventStep
  <2>2. s.op = "event" /\ ~ s.heartbeat
    BY <1>6 DEF Event
  <2> QED BY <2>1, <2>2
<1> SUFFICES Sends
  OBVIOUS
<1> HIDE DEF Sends, Fit
<1>7. CASE \E s \in Subscriptions : \E c \in Cursors : Subscribe(s, c)
  <2>1. PICK s \in Subscriptions, c \in Cursors : Subscribe(s, c)
    BY <1>7
  <2> DEFINE a == [op |-> "changed", cursor |-> c, heartbeat |-> TRUE]
  <2>2. /\ Enter("subscribe", <<a>>)
        /\ subscribables' = SubscribablesOf(subscriptions \cup {s})
    BY <2>1 DEF Subscribe
  <2>3. subscribables' # {}
    <3>1. ChannelsOf[s] \subseteq subscribables'
      BY <2>2 DEF SubscribablesOf
    <3> QED BY <3>1
  <2>4. Fit(a)
    BY <1>3, <1>4, <2>3, TokenFacts
  <2> HIDE DEF a
  <2> QED BY <1>2, <2>2, <2>4
<1>8. CASE \E s \in Subscriptions : Unsubscribe(s)
  <2>1. PICK s \in Subscriptions : Unsubscribe(s)
    BY <1>8
  <2> DEFINE remaining == SubscribablesOf(subscriptions \ {s})
             gone == ChannelsOf[s] \ remaining
             d == [op |-> "leave", channels |-> gone]
             e == [op |-> "changed", cursor |-> 0, heartbeat |-> FALSE]
  <2>2. gone \in SUBSET Channels
    BY ChannelsAssumption
  <2>3. \/ Enter("unsubscribe", <<>> \o <<e>>)
        \/ Enter("unsubscribe", <<d>> \o <<e>>)
    BY <2>1 DEF Unsubscribe
  <2> HIDE DEF gone
  <2>4. Fit(d) /\ Fit(e)
    BY <1>3, <1>4, <1>5, <2>2, TokenFacts
  <2> HIDE DEF d, e
  <2>5. d \in Steps /\ e \in Steps
    BY <2>4 DEF Fit
  <2>6. CASE Enter("unsubscribe", <<>> \o <<e>>)
    <3>1. <<>> \o <<e>> = <<e>>
      BY <2>5
    <3>2. Enter("unsubscribe", <<e>>)
      BY <2>6, <3>1
    <3> QED BY <1>2, <2>4, <3>2
  <2>7. CASE Enter("unsubscribe", <<d>> \o <<e>>)
    <3> DEFINE r == <<d>> \o <<e>>
    <3>1. r \in Seq(Steps) /\ r # <<>> /\ \A i \in DOMAIN r : r[i] = d \/ r[i] = e
      BY <2>5, TwoCalls
    <3>2. Enter("unsubscribe", r)
      BY <2>7
    <3> HIDE DEF r
    <3> QED BY <1>1, <2>4, <3>1, <3>2
  <2> QED BY <2>3, <2>6, <2>7
<1>9. CASE UnsubscribeAll
  <2> DEFINE d == [op |-> "leave", channels |-> subscribables]
             e == Event("UNSUBSCRIBE_ALL", subscribables, context.cursor, FALSE)
             r == <<d, e>>
  <2>1. Enter("unsubscribe_all", r)
    BY <1>9 DEF UnsubscribeAll
  <2>2. Fit(d) /\ Fit(e)
    BY <1>3, <1>5, <1>6
  <2> HIDE DEF d, e
  <2>3. d \in Steps /\ e \in Steps
    BY <2>2 DEF Fit
  <2>4. r \in Seq(Steps) /\ r # <<>> /\ \A i \in DOMAIN r : r[i] = d \/ r[i] = e
    BY <2>3
  <2> HIDE DEF r
  <2> QED BY <1>1, <2>1, <2>2, <2>4
<1>10. CASE Disconnect
  <2> DEFINE e == Event("DISCONNECT", context.channels, context.cursor, FALSE)
  <2>1. Enter("disconnect", <<e>>)
    BY <1>10 DEF Disconnect, CopyEvent
  <2>2. Fit(e)
    BY <1>3, <1>6
  <2> HIDE DEF e
  <2> QED BY <1>2, <2>1, <2>2
<1>11. CASE \E c \in Cursors : Reconnect(c)
  <2>1. PICK c \in Cursors : Reconnect(c)
    BY <1>11
  <2> DEFINE e == Event("RECONNECT", context.channels, c, FALSE)
  <2>2. Enter("reconnect", <<e>>)
    BY <2>1 DEF Reconnect
  <2>3. c \in Tokens
    BY TokenFacts
  <2>4. Fit(e)
    BY <1>3, <1>6, <2>3
  <2> HIDE DEF e
  <2> QED BY <1>2, <2>2, <2>4
<1> QED BY <1>7, <1>8, <1>9, <1>10, <1>11 DEF Call

\* The application enters while the watcher is away, or about to call
\* pubnub_heartbeat.
LEMMA StallCall ==
    ASSUME TInv, LeaveInv, LoopInv, LoopWindows, \A s \in Subscriptions : ChannelsOf[s] # {},
           StallInv, Call
    PROVE  StallInv'
<1>1. UNCHANGED <<state, invocations, current_transaction, pb>>
  BY DEF Call, Subscribe, Unsubscribe, UnsubscribeAll, Disconnect, Reconnect, engine, flags
<1>2. PICK call : \E steps \in Seq(Steps) :
         /\ Enter(call, steps) /\ steps # <<>> /\ Head(steps).op # "heartbeat"
         /\ \A i \in DOMAIN steps : Beats(steps[i])'
  BY CallSends
<1>3. PICK steps \in Seq(Steps) :
         /\ Enter(call, steps) /\ steps # <<>> /\ Head(steps).op # "heartbeat"
         /\ \A i \in DOMAIN steps : Beats(steps[i])'
  BY <1>2
<1>4. /\ todo["app"] = <<>> /\ todo'["app"] = steps /\ todo'["watcher"] = todo["watcher"]
      /\ todo["watcher"] # <<>> => Head(todo["watcher"]).op = "heartbeat"
  BY <1>3 DEF Enter, TInv, Threads, LoopWindows
<1>5. \A u \in Threads : Is(u, {"heartbeat"})' <=> Is(u, {"heartbeat"})
  BY <1>3, <1>4 DEF Is, Threads
<1>6. Tracked'
  BY <1>1, <1>4, <1>5 DEF StallInv, Tracked, Is
<1>7. Buffered'
  BY <1>1, <1>4 DEF StallInv, Buffered, Handing
<1>8. CallBeats'
  <2>1. ASSUME NEW i \in DOMAIN todo["watcher"] PROVE Beats(todo["watcher"][i])'
    <3>1. todo["watcher"] \in Seq(Steps) /\ i \in Nat /\ i >= 1
      BY DEF TInv, Threads
    <3>2. todo["watcher"] # <<>> /\ Head(todo["watcher"]) = todo["watcher"][1]
      BY <3>1
    <3>3. todo["watcher"][1].op = "heartbeat"
      BY <1>4, <3>2
    <3>4. i > 1 => todo["watcher"][i].op = "error"
      BY <3>2, <3>3 DEF LoopInv, CallsInv, Stack, Is, Threads
    <3> QED BY <1>4, <3>1, <3>3, <3>4 DEF Beats
  <2> QED BY <1>3, <1>4, <2>1 DEF CallBeats, Threads, Beats
<1>9. QueueBeats' /\ SentBeats'
  BY <1>1, <1>5 DEF StallInv, QueueBeats, SentBeats
<1> QED BY <1>6, <1>7, <1>8, <1>9 DEF StallInv

\* Nothing that the invariant is about changes.
LEMMA StallStands ==
    ASSUME StallInv, UNCHANGED <<state, invocations, current_transaction, subscribables, pb, todo>>
    PROVE  StallInv'
<1>1. \A u, ops : Is(u, ops)' <=> Is(u, ops)
  BY DEF Is
<1>2. Tracked'
  BY <1>1 DEF StallInv, Tracked
<1>3. Buffered'
  BY DEF StallInv, Buffered, Handing, FirstIs
<1>4. CallBeats'
  BY DEF StallInv, CallBeats, Beats
<1>5. QueueBeats' /\ SentBeats'
  BY <1>1 DEF StallInv, QueueBeats, SentBeats
<1> QED BY <1>2, <1>3, <1>4, <1>5 DEF StallInv

\* At the start nothing is marked, and the read buffer is empty.
LEMMA StallInitial == Init => StallInv
<1> SUFFICES ASSUME Init PROVE StallInv
  OBVIOUS
<1>1. /\ current_transaction = "NONE" /\ invocations = <<>> /\ pb.messages = 0
      /\ \A t \in Threads : todo[t] = <<>>
  BY DEF Init
<1> QED BY <1>1 DEF StallInv, Tracked, Buffered, CallBeats, QueueBeats, SentBeats, Is

\* Every step keeps what is begun on its way to an end.
LEMMA StallStep ==
    ASSUME LoopWindows, \A s \in Subscriptions : ChannelsOf[s] # {}
    PROVE  TInv /\ TInv' /\ LeaveInv /\ LoopInv /\ WaitInv /\ CursorInv /\ StallInv
              /\ "unread" \notin jams' /\ [Next]_vars => StallInv'
<1> SUFFICES ASSUME TInv, TInv', LeaveInv, LoopInv, WaitInv, CursorInv, StallInv,
                    "unread" \notin jams', [Next]_vars
             PROVE  StallInv'
  OBVIOUS
<1>1. ASSUME NEW t \in Threads, ThreadStep(t) PROVE StallInv'
  <2>1. CASE HandleEvent(t)
    BY <2>1, StallHandleEvent
  <2>2. CASE Complete(t) \/ NotRunnable(t) \/ EmitStatus(t) \/ EmitMessages(t)
    BY <2>2, StallComplete, StallNotRunnable, StallEmits
  <2>3. CASE CancelEffect(t) \/ Cancel(t) \/ CancelStarted(t)
    BY <2>3, StallCancelEffect, StallCancel, StallCancelStarted
  <2>4. CASE MakeHeartbeat(t) \/ Heartbeat(t) \/ MakeSubscribeRequest(t) \/ SubscribeError(t)
    BY <2>4, StallMakeHeartbeat, StallHeartbeat, StallMakeSubscribeRequest, StallSubscribeError
  <2>5. CASE SubscriptionChanged(t) \/ Leave(t)
    BY <2>5, StallSubscriptionChanged, StallLeave
  <2> QED BY <1>1, <2>1, <2>2, <2>3, <2>4, <2>5 DEF ThreadStep
<1>2. CASE WatcherStep
  BY <1>2, StallRequeued, StallCallback, StallReport DEF WatcherStep
<1>3. CASE Publish
  <2>1. UNCHANGED <<state, invocations, current_transaction, subscribables, pb, todo>>
    BY <1>3 DEF Publish, engine, flags, calls
  <2> QED BY <2>1, StallStands
<1>4. CASE UNCHANGED vars
  <2>1. UNCHANGED <<state, invocations, current_transaction, subscribables, pb, todo>>
    BY <1>4 DEF vars, engine, flags, calls
  <2> QED BY <2>1, StallStands
<1> QED BY <1>1, <1>2, <1>3, <1>4, StallEnds, StallCall DEF Next

\* Whenever nobody is in the engine and no transaction is in progress there is nothing
\* left to do: no state that needs a request, nothing queued, no cancel or leave that
\* waits; unless a cancel was overwritten in its slot (pbcc_subscribe_ee_cancel_effect) or
\* a handshake left messages in the read buffer.  A paused request, a cancel and a
\* postponed leave each wait for a transaction whose end, a callback, takes them up.  The
\* two threads meet only before pubnub_heartbeat, and a subscription has channels: an
\* entity has a name.
THEOREM LoopNeverStalls ==
    ASSUME LoopWindows, \A s \in Subscriptions : ChannelsOf[s] # {}
    PROVE  Spec => []NeverStalls
<1> DEFINE Read == "unread" \notin jams
<1>1. LeaveWindows
  BY DEF LoopWindows, LeaveWindows
<1>2. TInv /\ LoopInv /\ WaitInv /\ StallInv => NeverStalls
  <2> SUFFICES ASSUME TInv, LoopInv, WaitInv, StallInv, Unattended, CanStart
               PROVE  /\ state \notin Looping /\ invocations = <<>> /\ cancel_invocation = None
                      /\ leave = {} /\ current_transaction = "NONE"
    BY DEF NeverStalls
  <2>1. /\ \A t \in Threads : todo[t] = <<>>
        /\ ~ pb.requeued /\ pb.state \notin {"BUSY", "WAIT_CANCEL"}
    BY DEF Unattended, CanStart
  <2>2. \A t \in Threads : \A ops : ~ Is(t, ops)
    BY <2>1 DEF Is
  <2>3. ~ Live /\ ~ Is("watcher", {"callback"})
    BY <2>1, <2>2 DEF Live, Threads
  <2>4. current_transaction = "NONE"
    BY <2>1, <2>2, <2>3 DEF StallInv, Tracked
  <2>5. cancel_invocation = None
    BY <2>1, <2>3 DEF WaitInv, CancelWaits
  <2>6. leave = {}
    BY <2>1, <2>3, <2>4 DEF WaitInv, LeaveWaits
  <2>7. invocations = <<>>
    BY <2>2, <2>4, <2>5 DEF LoopInv, QueueInv, Progress
  <2>8. state \notin Looping
    <3>1. ~ Awaited
      BY <2>7 DEF Awaited, AwaitedAt
    <3>2. \A t \in Threads : ~ Ending(t) /\ ~ Failing(t)
      BY <2>1 DEF Ending, Failing
    <3> QED BY <2>3, <3>1, <3>2 DEF WaitInv, Needed
  <2> QED BY <2>4, <2>5, <2>6, <2>7, <2>8
<1>3. StuckInv \/ ~ Read => NeverStalls
  <2>1. StuckInv => Lost \/ pb.state = "WAIT_CANCEL"
    BY DEF StuckInv, Overwriting
  <2> QED BY <2>1 DEF NeverStalls, CanStart, Lost
<1>4. TInv /\ LeaveInv /\ ((Going /\ (Read => StallInv)) \/ StuckInv) => NeverStalls
  BY <1>2, <1>3 DEF Going
<1>5. Spec => [](TInv /\ LeaveInv /\ ((Going /\ (Read => StallInv)) \/ StuckInv))
  <2>1. Init => TInv /\ LeaveInv /\ ((Going /\ (Read => StallInv)) \/ StuckInv)
    BY LeaveInitial, InitTyped, GoingInitial, StallInitial
  <2>2. TInv /\ TInv' /\ LeaveInv /\ Going /\ (Read => StallInv) /\ [Next]_vars => (Read' => StallInv')
    <3> SUFFICES ASSUME TInv, TInv', LeaveInv, Going, Read => StallInv, [Next]_vars, Read'
                 PROVE  StallInv'
      OBVIOUS
    <3>1. StallInv
      BY JamsStep
    <3> QED BY <3>1, StallStep DEF Going
  <2>3. TInv /\ LeaveInv /\ ((Going /\ (Read => StallInv)) \/ StuckInv) /\ [Next]_vars
           => (TInv /\ LeaveInv /\ ((Going /\ (Read => StallInv)) \/ StuckInv))'
    BY <1>1, <2>2, StepTyped, LeaveStep, GoingStep, StuckStep
  <2> QED BY <2>1, <2>3, PTL DEF Spec
<1> QED BY <1>4, <1>5, PTL
=============================================================================
