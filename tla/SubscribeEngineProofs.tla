------------------------ MODULE SubscribeEngineProofs ------------------------
(***************************************************************************)
(* The subscribe event engine keeps its type, tells the status of the      *)
(* state it is in and loses no leave, for any channels, subscriptions,     *)
(* cursors and bounds; SubscribeLoopProofs goes on from LoopInv.           *)
(*                                                                         *)
(* TInv is the type invariant, with the calls that may be on a thread's    *)
(* stack (Steps) and the context for what is in it (PbOf).  StatusInv says *)
(* that the status told is the status set, or that an EMIT_STATUS which has*)
(* not run yet is queued.  LeaveInv says where a leave is on its way, and  *)
(* which calls exclude a leave that the callback has prepared: both hold   *)
(* wherever threads meet but in the windows named by LeaveWindows.         *)
(*                                                                         *)
(* LoopInv is about the requests, where the two threads meet only before   *)
(* pubnub_heartbeat (LoopWindows).  CallsInv: which calls the two threads  *)
(* can be in at the same time, and what current_transaction then is.       *)
(* QueueInv: the invocation an effect has begun is the first of the queue, *)
(* and nobody starts another before its end.  RequestsInv: a request in    *)
(* the queue, or in progress, is for the present state and its channels,   *)
(* or its cancel comes first.  ChannelsInv: the state's channels are those *)
(* of the subscriptions, or the event that makes them so is on its way.    *)
(***************************************************************************)
EXTENDS SubscribeEngine, FiniteSetTheorems, SequenceTheorems, NaturalsInduction,
        WellFoundedInduction, TLAPS

Transactions == Requests \cup {"NONE", "HEARTBEAT", "LEAVE"}
EventTypes == {"NONE", "SUBSCRIPTION_CHANGED", "SUBSCRIPTION_RESTORED", "HANDSHAKE_SUCCESS",
               "HANDSHAKE_FAILURE", "RECEIVE_SUCCESS", "RECEIVE_FAILURE", "DISCONNECT",
               "RECONNECT", "UNSUBSCRIBE_ALL"}
Contexts == [channels : SUBSET Channels, cursor : Tokens]
Invocations == [id : Ids, status : {"CREATED", "RUNNING"}, heartbeat : BOOLEAN, ctx : Contexts]
IdOps == {"exec", "done", "cancel", "cancelled", "heartbeat"}

IdSteps == [op : IdOps, id : Ids]
EventSteps == [op : {"event"}, type : EventTypes, heartbeat : BOOLEAN, ctx : Contexts]
ChangedSteps == [op : {"changed"}, cursor : Tokens, heartbeat : BOOLEAN]
LeaveSteps == [op : {"leave"}, channels : SUBSET Channels]
CallbackSteps == [op : {"callback"}, trans : Transactions, ok : BOOLEAN]
ReportSteps == [op : {"report"}, ok : BOOLEAN]
ErrorSteps == [op : {"error"}]

Steps == IdSteps \cup EventSteps \cup ChangedSteps \cup LeaveSteps \cup CallbackSteps
         \cup ReportSteps \cup ErrorSteps

\* The context; what a request is for is known only by PbOf.
PbOf(channels) ==
    [state : {"IDLE", "KEEP_ALIVE_IDLE", "BUSY", "WAIT_CANCEL"}, trans : Transactions,
     requeued : BOOLEAN, messages : Tokens, cursor : Tokens, timetoken : Tokens,
     channels : {channels}]

TInv ==
    /\ state \in States /\ context \in Contexts /\ invocations \in Seq(Invocations)
    /\ current_transaction \in {"NONE", "HEARTBEAT", "LEAVE"}
    /\ cancel_invocation \in Ids \cup {None}
    /\ leave \in SUBSET Channels /\ owed \in SUBSET Channels
    /\ subscribables \in SUBSET Channels /\ subscriptions \in SUBSET Subscriptions
    /\ pb \in PbOf(pb.channels)
    /\ todo \in [Threads -> Seq(Steps)]
    /\ now \in Tokens /\ seen \in Tokens /\ skipped \in BOOLEAN

\* A set of numbers that has a member has a least one.
LEMMA Least ==
    ASSUME NEW S \in SUBSET Nat, S # {}
    PROVE  \E x \in S : \A y \in S : x <= y
<1> DEFINE R == {ss \in Nat \X Nat : ss[1] < ss[2]}
<1>1. IsWellFoundedOn(R, Nat)
  BY NatLessThanWellFounded DEF OpToRel
<1>2. \A x, y \in Nat : y < x => <<y, x>> \in R
  OBVIOUS
<1> HIDE DEF R
<1>3. PICK x \in S : \A y \in S : ~ (<<y, x>> \in R)
  BY <1>1, WFMin
<1>4. ASSUME NEW y \in S PROVE x <= y
  <2>1. ~ (y < x)
    BY <1>2, <1>3
  <2> QED BY <2>1
<1> QED BY <1>4

\* What a step has to say, by its kind
LEMMA StepFacts ==
    ASSUME NEW s \in Steps
    PROVE  /\ s.op \in IdOps => s.id \in Ids
           /\ s.op = "event" => s.type \in EventTypes /\ s.heartbeat \in BOOLEAN /\ s.ctx \in Contexts
           /\ s.op = "changed" => s.cursor \in Tokens /\ s.heartbeat \in BOOLEAN
           /\ s.op = "leave" => s.channels \in SUBSET Channels
           /\ s.op = "callback" => s.trans \in Transactions /\ s.ok \in BOOLEAN
           /\ s.op = "report" => s.ok \in BOOLEAN
<1>1. CASE s \in IdSteps
  BY <1>1 DEF IdSteps, IdOps
<1>2. CASE s \in EventSteps
  BY <1>2 DEF EventSteps, IdOps
<1>3. CASE s \in ChangedSteps
  BY <1>3 DEF ChangedSteps, IdOps
<1>4. CASE s \in LeaveSteps
  BY <1>4 DEF LeaveSteps, IdOps
<1>5. CASE s \in CallbackSteps
  BY <1>5 DEF CallbackSteps, IdOps
<1>6. CASE s \in ReportSteps
  BY <1>6 DEF ReportSteps, IdOps
<1>7. CASE s \in ErrorSteps
  BY <1>7 DEF ErrorSteps, IdOps
<1> QED BY <1>1, <1>2, <1>3, <1>4, <1>5, <1>6, <1>7 DEF Steps

\* The steps that name an invocation
LEMMA IdStep ==
    ASSUME NEW op \in IdOps, NEW id \in Ids
    PROVE  With(op, id) \in Steps /\ With(op, id).op = op /\ With(op, id).id = id
BY DEF With, Steps, IdSteps

\* The event pbcc_subscribe_ee_event_alloc_ makes is one of the steps ...
LEMMA EventStep ==
    ASSUME NEW type \in EventTypes, NEW channels \in SUBSET Channels, NEW cursor \in Tokens,
           NEW heartbeat \in BOOLEAN
    PROVE  Event(type, channels, cursor, heartbeat) \in Steps
<1>1. [channels |-> channels, cursor |-> cursor] \in Contexts
  BY DEF Contexts
<1>2. Event(type, channels, cursor, heartbeat) \in EventSteps
  BY <1>1 DEF Event, EventSteps
<1> QED BY <1>2 DEF Steps

\* ... and so is the copy of the current state.
LEMMA CopyStep ==
    ASSUME TInv, NEW type \in EventTypes
    PROVE  CopyEvent(type) \in Steps
<1>1. context.channels \in SUBSET Channels /\ context.cursor \in Tokens /\ FALSE \in BOOLEAN
  BY DEF TInv, Contexts
<1> QED BY <1>1, EventStep DEF CopyEvent

\* Sequences of none and of one
LEMMA Short ==
    ASSUME NEW S, NEW s \in S
    PROVE  <<>> \in Seq(S) /\ <<s>> \in Seq(S)
OBVIOUS

\* What is left of a call after a step
LEMMA ThenTyped ==
    ASSUME todo \in [Threads -> Seq(Steps)], NEW t \in Threads, todo[t] # <<>>,
           NEW steps \in Seq(Steps), Then(t, steps)
    PROVE  /\ todo' \in [Threads -> Seq(Steps)]
           /\ todo'[t] = steps \o Tail(todo[t])
           /\ \A u \in Threads \ {t} : todo'[u] = todo[u]
<1>1. Tail(todo[t]) \in Seq(Steps)
  OBVIOUS
<1>2. steps \o Tail(todo[t]) \in Seq(Steps)
  BY <1>1
<1> QED BY <1>2 DEF Then

\* What a thread is at
LEMMA HeadTyped ==
    ASSUME todo \in [Threads -> Seq(Steps)], NEW t \in Threads, todo[t] # <<>>
    PROVE  Head(todo[t]) \in Steps
OBVIOUS

\* A function on the first numbers is a sequence.
LEMMA FunctionIsSeq ==
    ASSUME NEW S, NEW n \in Nat, NEW f \in [1..n -> S]
    PROVE  f \in Seq(S) /\ Len(f) = n
BY SeqDef, LenProperties

\* Taking an element out of a sequence
LEMMA DropFacts ==
    ASSUME NEW S, NEW q \in Seq(S), NEW i \in DOMAIN q
    PROVE  /\ Drop(q, i) \in Seq(S)
           /\ \A j \in DOMAIN q : j # i => \E k \in DOMAIN Drop(q, i) : Drop(q, i)[k] = q[j]
           /\ \A k \in DOMAIN Drop(q, i) : \E j \in DOMAIN q : j # i /\ Drop(q, i)[k] = q[j]
<1>1. i \in 1..Len(q) /\ Len(q) \in Nat
  OBVIOUS
<1> DEFINE a == SubSeq(q, 1, i - 1)
           b == SubSeq(q, i + 1, Len(q))
<1>2. a \in Seq(S) /\ Len(a) = i - 1 /\ \A k \in 1..i - 1 : a[k] = q[k]
  BY <1>1
<1>3. b \in Seq(S) /\ Len(b) = Len(q) - i /\ \A k \in 1..Len(q) - i : b[k] = q[i + k]
  BY <1>1
<1> HIDE DEF a, b
<1> DEFINE r == a \o b
           n == Len(q)
<1>4. r \in Seq(S) /\ Len(r) = n - 1
  BY <1>1, <1>2, <1>3
<1>5. \A k \in Nat : 1 <= k /\ k <= n - 1 => r[k] = IF k < i THEN q[k] ELSE q[k + 1]
  BY <1>1, <1>2, <1>3
<1>6. i \in Nat /\ n \in Nat /\ 1 <= i /\ i <= n
  BY <1>1
<1>7. Drop(q, i) = r
  BY DEF Drop, a, b
<1>8. /\ \A k : k \in DOMAIN r <=> k \in Nat /\ 1 <= k /\ k <= n - 1
      /\ \A k : k \in DOMAIN q <=> k \in Nat /\ 1 <= k /\ k <= n
  BY <1>4, <1>6
<1> HIDE DEF r, n
<1>9. ASSUME NEW j \in DOMAIN q, j # i PROVE \E k \in DOMAIN r : r[k] = q[j]
  <2>0. j \in Nat /\ 1 <= j /\ j <= n
    BY <1>8
  <2>1. CASE j < i
    <3>1. j \in DOMAIN r /\ r[j] = q[j]
      BY <1>5, <1>6, <1>8, <2>0, <2>1
    <3> QED BY <3>1
  <2>2. CASE j > i
    <3>1. j - 1 \in Nat /\ 1 <= j - 1 /\ j - 1 <= n - 1 /\ ~ (j - 1 < i) /\ (j - 1) + 1 = j
      BY <1>6, <2>0, <2>2
    <3>2. j - 1 \in DOMAIN r /\ r[j - 1] = q[j]
      BY <3>1, <1>5, <1>8
    <3> QED BY <3>2
  <2> QED BY <1>6, <1>9, <2>0, <2>1, <2>2
<1>10. ASSUME NEW k \in DOMAIN r PROVE \E j \in DOMAIN q : j # i /\ r[k] = q[j]
  <2>0. k \in Nat /\ 1 <= k /\ k <= n - 1
    BY <1>8
  <2>1. CASE k < i
    <3>1. k \in DOMAIN q /\ k # i /\ r[k] = q[k]
      BY <1>5, <1>6, <1>8, <2>0, <2>1
    <3> QED BY <3>1
  <2>2. CASE ~ (k < i)
    <3>1. k + 1 \in Nat /\ 1 <= k + 1 /\ k + 1 <= n /\ k + 1 # i
      BY <1>6, <2>0, <2>2
    <3>2. r[k] = q[k + 1]
      BY <1>5, <2>0, <2>2
    <3>3. k + 1 \in DOMAIN q
      BY <3>1, <1>8
    <3> QED BY <3>1, <3>2, <3>3
  <2> QED BY <2>1, <2>2
<1> QED BY <1>4, <1>7, <1>9, <1>10

\* pbcc_ee_invocation_cancel_by_type takes out requests only.
LEMMA CancelByTypeFacts ==
    ASSUME NEW q \in Seq(Invocations), NEW type
    PROVE  /\ CancelByType(q, type) \in Seq(Invocations)
           /\ \A j \in DOMAIN q : q[j].id[1] # type =>
                 \E k \in DOMAIN CancelByType(q, type) : CancelByType(q, type)[k] = q[j]
<1> DEFINE found == {i \in DOMAIN q : q[i].id[1] = type /\ q[i].status # "RUNNING"}
           first == CHOOSE i \in found : \A j \in found : i <= j
<1>1. CASE found = {}
  <2>1. CancelByType(q, type) = q
    BY <1>1 DEF CancelByType
  <2> QED BY <2>1
<1>2. CASE found # {}
  <2>1. found \in SUBSET Nat
    OBVIOUS
  <2>2. first \in found
    <3> HIDE DEF found
    <3> QED BY <1>2, <2>1, Least
  <2>3. first \in DOMAIN q /\ q[first].id[1] = type
    BY <2>2
  <2>4. CancelByType(q, type) = Drop(q, first)
    BY <1>2 DEF CancelByType
  <2> HIDE DEF found, first
  <2>5. \A j \in DOMAIN q : q[j].id[1] # type => j # first
    BY <2>3
  <2>6. /\ Drop(q, first) \in Seq(Invocations)
        /\ \A j \in DOMAIN q : j # first =>
              \E k \in DOMAIN Drop(q, first) : Drop(q, first)[k] = q[j]
    BY <2>3, DropFacts
  <2> QED BY <2>4, <2>5, <2>6
<1> QED BY <1>1, <1>2

\* A completed invocation is taken out; none that was not run is.
LEMMA CompletedFacts ==
    ASSUME invocations \in Seq(Invocations), NEW id
    PROVE  /\ Completed(id) \in Seq(Invocations)
           /\ \A j \in DOMAIN invocations : invocations[j].status # "RUNNING" =>
                 \E k \in DOMAIN Completed(id) : Completed(id)[k] = invocations[j]
<1>1. CASE Queued(id) /\ invocations[Index(id)].status = "RUNNING"
  <2>1. Index(id) \in DOMAIN invocations
    BY <1>1 DEF Queued, Index
  <2>2. Completed(id) = Drop(invocations, Index(id))
    BY <1>1, Zenon DEF Completed
  <2>3. \A j \in DOMAIN invocations : invocations[j].status # "RUNNING" => j # Index(id)
    BY <1>1
  <2>4. /\ Drop(invocations, Index(id)) \in Seq(Invocations)
        /\ \A j \in DOMAIN invocations : j # Index(id) =>
              \E k \in DOMAIN Drop(invocations, Index(id)) :
                 Drop(invocations, Index(id))[k] = invocations[j]
    BY <2>1, DropFacts
  <2> QED BY <2>2, <2>3, <2>4
<1>2. CASE ~ (Queued(id) /\ invocations[Index(id)].status = "RUNNING")
  <2>1. Completed(id) = invocations
    BY <1>2, Zenon DEF Completed
  <2> QED BY <2>1
<1> QED BY <1>1, <1>2

\* Marking an invocation
LEMMA MarkFacts ==
    ASSUME invocations \in Seq(Invocations), NEW id, NEW s \in {"CREATED", "RUNNING"}
    PROVE  /\ Mark(id, s) \in Seq(Invocations)
           /\ DOMAIN Mark(id, s) = DOMAIN invocations
           /\ \A j \in DOMAIN invocations :
                 /\ Mark(id, s)[j] \in Invocations
                 /\ Mark(id, s)[j].id = invocations[j].id
                 /\ Mark(id, s)[j].status = IF j = Index(id) THEN s ELSE invocations[j].status
                 /\ j # Index(id) => Mark(id, s)[j] = invocations[j]
<1> DEFINE m == Mark(id, s)
           n == Len(invocations)
<1>1. n \in Nat /\ DOMAIN invocations = 1..n
  OBVIOUS
<1>2. DOMAIN m = 1..n
  BY <1>1 DEF Mark
<1>3. ASSUME NEW j \in 1..n
      PROVE  /\ m[j] \in Invocations
             /\ m[j].id = invocations[j].id
             /\ m[j].status = IF j = Index(id) THEN s ELSE invocations[j].status
             /\ j # Index(id) => m[j] = invocations[j]
  <2>1. invocations[j] \in Invocations
    BY <1>1
  <2>2. m[j] = IF j = Index(id) THEN [invocations[j] EXCEPT !.status = s] ELSE invocations[j]
    BY <1>1 DEF Mark
  <2> HIDE DEF m
  <2>3. CASE j = Index(id)
    <3>1. m[j] = [invocations[j] EXCEPT !.status = s]
      BY <2>2, <2>3
    <3>2. [invocations[j] EXCEPT !.status = s] \in Invocations
      BY <2>1 DEF Invocations
    <3> QED BY <2>1, <2>3, <3>1, <3>2 DEF Invocations
  <2>4. CASE j # Index(id)
    BY <2>1, <2>2, <2>4
  <2> QED BY <2>3, <2>4
<1>4. m \in [1..n -> Invocations]
  <2>1. m = [j \in 1..n |-> m[j]]
    BY <1>1 DEF Mark
  <2> HIDE DEF m, n
  <2> QED BY <1>3, <2>1
<1>5. m \in Seq(Invocations)
  <2> HIDE DEF m, n
  <2> QED BY <1>1, <1>4, FunctionIsSeq
<1> QED BY <1>1, <1>2, <1>3, <1>5

\* What is run next is a queued invocation.
LEMMA ProcessNextTyped ==
    ASSUME NEW q \in Seq(Invocations)
    PROVE  ProcessNext(q) \in Seq(Steps)
<1>1. CASE q = <<>>
  BY <1>1 DEF ProcessNext
<1>2. CASE q # <<>>
  <2>1. q[1] \in Invocations
    BY <1>2
  <2>2. q[1].id \in Ids /\ "exec" \in IdOps
    BY <2>1 DEF Invocations, IdOps
  <2>3. With("exec", q[1].id) \in Steps
    BY <2>2, IdStep
  <2>4. ProcessNext(q) = <<With("exec", q[1].id)>>
    BY <1>2 DEF ProcessNext
  <2> QED BY <2>3, <2>4, Short
<1> QED BY <1>1, <1>2

\* The values a function takes on a finite set are finitely many.
LEMMA ImageFinite ==
    ASSUME NEW S, IsFiniteSet(S), NEW f, f = [x \in S |-> f[x]]
    PROVE  IsFiniteSet({f[x] : x \in S})
<1> DEFINE T == {f[x] : x \in S}
<1>1. f \in [S -> T]
  OBVIOUS
<1>2. \A y \in T : \E x \in S : f[x] = y
  OBVIOUS
<1> HIDE DEF T
<1>3. f \in Surjection(S, T)
  BY <1>1, <1>2 DEF Surjection
<1>4. IsFiniteSet(T)
  BY <1>3, FS_Surjection
<1> QED BY <1>4 DEF T

\* The numbers in use are finitely many.
LEMMA UsedFinite ==
    ASSUME invocations \in Seq(Invocations), todo \in [Threads -> Seq(Steps)]
    PROVE  IsFiniteSet(UsedIds)
<1> DEFINE ids(t) == {todo[t][i].id : i \in {j \in DOMAIN todo[t] : "id" \in DOMAIN todo[t][j]}}
<1>1. IsFiniteSet({invocations[i].id : i \in DOMAIN invocations})
  <2>1. Len(invocations) \in Nat /\ DOMAIN invocations = 1..Len(invocations)
    OBVIOUS
  <2>2. IsFiniteSet(1..Len(invocations))
    BY <2>1, FS_Interval
  <2> DEFINE f == [i \in 1..Len(invocations) |-> invocations[i].id]
  <2>3. IsFiniteSet({f[i] : i \in 1..Len(invocations)})
    <3>1. f = [i \in 1..Len(invocations) |-> f[i]]
      OBVIOUS
    <3> HIDE DEF f
    <3> QED BY <2>2, <3>1, ImageFinite
  <2>4. {f[i] : i \in 1..Len(invocations)} = {invocations[i].id : i \in DOMAIN invocations}
    BY <2>1
  <2> QED BY <2>3, <2>4
<1>2. ASSUME NEW t \in Threads PROVE IsFiniteSet(ids(t))
  <2> DEFINE J == {j \in DOMAIN todo[t] : "id" \in DOMAIN todo[t][j]}
  <2>1. Len(todo[t]) \in Nat /\ DOMAIN todo[t] = 1..Len(todo[t])
    OBVIOUS
  <2>2. IsFiniteSet(1..Len(todo[t]))
    BY <2>1, FS_Interval
  <2>3. J \subseteq 1..Len(todo[t])
    BY <2>1
  <2>4. IsFiniteSet(J)
    BY <2>2, <2>3, FS_Subset
  <2> HIDE DEF J
  <2> DEFINE f == [i \in J |-> todo[t][i].id]
  <2>5. IsFiniteSet({f[i] : i \in J})
    <3>1. f = [i \in J |-> f[i]]
      OBVIOUS
    <3> HIDE DEF f
    <3> QED BY <2>4, <3>1, ImageFinite
  <2>6. {f[i] : i \in J} = {todo[t][i].id : i \in J}
    OBVIOUS
  <2> QED BY <2>5, <2>6 DEF J
<1>3. UNION {ids(t) : t \in Threads} = ids("app") \cup ids("watcher")
  BY DEF Threads
<1>4. IsFiniteSet(ids("app")) /\ IsFiniteSet(ids("watcher"))
  BY <1>2 DEF Threads
<1>5. IsFiniteSet(UNION {ids(t) : t \in Threads})
  <2> HIDE DEF ids
  <2>1. IsFiniteSet(ids("app") \cup ids("watcher"))
    BY <1>4, FS_Union
  <2> QED BY <1>3, <2>1
<1>6. IsFiniteSet({cancel_invocation})
  BY FS_Singleton
<1> DEFINE A == {invocations[i].id : i \in DOMAIN invocations}
           B == UNION {ids(t) : t \in Threads}
<1>7. UsedIds = A \cup {cancel_invocation} \cup B
  BY DEF UsedIds
<1> HIDE DEF A, B
<1>8. IsFiniteSet(A) /\ IsFiniteSet(B)
  BY <1>1, <1>5 DEF A, B
<1>9. IsFiniteSet(A \cup {cancel_invocation})
  BY <1>6, <1>8, FS_Union
<1> QED BY <1>7, <1>8, <1>9, FS_Union

\* There is a number for a new invocation, and it is not in use.
LEMMA FreeIdFacts ==
    ASSUME invocations \in Seq(Invocations), todo \in [Threads -> Seq(Steps)],
           NEW type \in Types
    PROVE  /\ FreeId(type) \in Ids
           /\ FreeId(type)[1] = type
           /\ FreeId(type) \notin UsedIds
<1> DEFINE n == Cardinality(UsedIds)
           K == 1..n + 1
           free == {k \in K : <<type, k>> \notin UsedIds}
           least == CHOOSE k \in free : \A j \in free : k <= j
<1>1. IsFiniteSet(UsedIds) /\ n \in Nat
  BY UsedFinite, FS_CardinalityType
<1>2. free # {}
  <2> SUFFICES ASSUME free = {} PROVE FALSE
    OBVIOUS
  <2> DEFINE f == [k \in K |-> <<type, k>>]
  <2>1. \A k \in K : <<type, k>> \in UsedIds
    OBVIOUS
  <2>2. f \in Injection(K, UsedIds)
    <3> HIDE DEF n, K
    <3>1. f \in [K -> UsedIds]
      BY <2>1
    <3>2. \A x, y \in K : f[x] = f[y] => x = y
      OBVIOUS
    <3> HIDE DEF f
    <3> QED BY <3>1, <3>2 DEF Injection, IsInjective
  <2>3. IsFiniteSet(K) /\ Cardinality(K) = n + 1
    <3> HIDE DEF n
    <3>1. 1 \in Int /\ n + 1 \in Int /\ 1 <= n + 1 /\ (n + 1) - 1 + 1 = n + 1
      BY <1>1
    <3> QED BY <3>1, FS_Interval
  <2> HIDE DEF K, f
  <2>5. Cardinality(K) <= n
    BY <1>1, <2>2, <2>3, FS_Injection
  <2> HIDE DEF n
  <2> QED BY <1>1, <2>3, <2>5
<1>3. free \in SUBSET Nat /\ free \subseteq Nat \ {0}
  <2> HIDE DEF n
  <2> QED BY <1>1
<1>4. least \in free
  <2> HIDE DEF free
  <2> QED BY <1>2, <1>3, Least
<1>5. FreeId(type) = <<type, least>>
  BY DEF FreeId
<1>6. least \in Nat \ {0} /\ <<type, least>> \notin UsedIds
  BY <1>3, <1>4
<1> HIDE DEF least
<1> QED BY <1>5, <1>6 DEF Ids

-----------------------------------------------------------------------------
(* Types *)

\* What a context is made of
LEMMA PbFacts ==
    ASSUME NEW channels, NEW p \in PbOf(channels)
    PROVE  /\ p \in PbOf(p.channels) /\ p.channels = channels
           /\ p.state \in {"IDLE", "KEEP_ALIVE_IDLE", "BUSY", "WAIT_CANCEL"}
           /\ p.trans \in Transactions /\ p.requeued \in BOOLEAN
           /\ p.messages \in Tokens /\ p.cursor \in Tokens /\ p.timetoken \in Tokens
BY DEF PbOf

\* Every cursor is a time token.
LEMMA TokenFacts == 0 \in Tokens /\ 1 \in Tokens /\ Cursors \subseteq Tokens
BY BoundsAssumption, ServerAssumption DEF Tokens

\* The context when a transaction starts
LEMMA PbStarted ==
    ASSUME pb \in PbOf(pb.channels), NEW trans \in Transactions, NEW new
    PROVE  /\ Started(trans, new) \in PbOf(new)
           /\ Started(trans, new).state = "BUSY" /\ Started(trans, new).trans = trans
           /\ ~ Started(trans, new).requeued /\ Started(trans, new).channels = new
<1> DEFINE token == IF trans = "LEAVE" THEN 0 ELSE pb.timetoken
<1>1. token \in Tokens
  BY TokenFacts, PbFacts
<1>2. Started(trans, new) =
        [pb EXCEPT !.state = "BUSY", !.requeued = FALSE, !.trans = trans, !.channels = new,
                   !.timetoken = token]
  BY DEF Started
<1> HIDE DEF token
<1> QED BY <1>1, <1>2 DEF PbOf

\* The context after pubnub_cancel: a transaction in progress stays the one it was.
LEMMA PbCancelled ==
    ASSUME pb \in PbOf(pb.channels)
    PROVE  /\ Cancelled \in PbOf(pb.channels)
           /\ ~ Cancelled.requeued /\ Cancelled.channels = pb.channels
           /\ pb.state \in {"BUSY", "WAIT_CANCEL"} =>
                 Cancelled.state = "WAIT_CANCEL" /\ Cancelled.trans = pb.trans
<1>1. CASE pb.state = "IDLE"
  <2>1. Cancelled = [pb EXCEPT !.trans = "NONE", !.requeued = FALSE]
    BY <1>1 DEF Cancelled
  <2>2. "NONE" \in Transactions
    BY DEF Transactions
  <2> QED BY <1>1, <2>1, <2>2 DEF PbOf
<1>2. CASE pb.state # "IDLE"
  <2> DEFINE trans == IF pb.state = "KEEP_ALIVE_IDLE" THEN "NONE" ELSE pb.trans
  <2>1. Cancelled = [pb EXCEPT !.state = "WAIT_CANCEL", !.requeued = FALSE, !.trans = trans]
    BY <1>2 DEF Cancelled
  <2>2. trans \in Transactions
    BY PbFacts DEF Transactions
  <2>3. pb.state # "KEEP_ALIVE_IDLE" => trans = pb.trans
    OBVIOUS
  <2> HIDE DEF trans
  <2> QED BY <1>2, <2>1, <2>2, <2>3 DEF PbOf
<1> QED BY <1>1, <1>2

\* The context when its transaction is over
LEMMA PbOver ==
    ASSUME pb \in PbOf(pb.channels), NEW s \in {"IDLE", "KEEP_ALIVE_IDLE"}
    PROVE  /\ Over(s) \in PbOf({}) /\ Over(s).state = s /\ Over(s).trans = "NONE"
           /\ Over(s).requeued = pb.requeued
<1>1. "NONE" \in Transactions
  BY DEF Transactions
<1> QED BY <1>1 DEF Over, PbOf

\* The history of messages is a time token.
LEMMA SeenTyped ==
    ASSUME TInv, NEW ev \in Steps, ev.op = "event", NEW target
    PROVE  Seen(ev, target) \in Tokens
<1>1. ev.ctx \in Contexts
  BY StepFacts
<1>2. ev.ctx.cursor \in Tokens /\ seen \in Tokens
  BY <1>1 DEF Contexts, TInv
<1> QED BY <1>2, TokenFacts DEF Seen

\* A transition leads to a state or to none.
LEMMA TargetTyped ==
    ASSUME NEW s \in States, NEW type, NEW empty
    PROVE  Target(s, type, empty) \in States \cup {"NONE"}
BY DEF Target, States, Stopped, Looping, Failed

\* The effects of a transition, EMIT_STATUS first when it announces a status
LEMMA EffectsTyped ==
    ASSUME NEW s, NEW type, NEW target
    PROVE  /\ Effects(s, type, target) \in Seq(Types)
           /\ Announced(s, type, target) # "NONE" =>
                 Effects(s, type, target) # <<>> /\ Effects(s, type, target)[1] = "EMIT_STATUS"
<1> DEFINE a == IF Announced(s, type, target) # "NONE" THEN <<"EMIT_STATUS">>
                ELSE IF type = "RECEIVE_SUCCESS" THEN <<"EMIT_MESSAGE">> ELSE <<>>
           b == IF s \in Looping THEN <<"CANCEL">> ELSE <<>>
           c == CASE target = "HANDSHAKING" -> <<"HANDSHAKE">>
                  [] target = "RECEIVING" -> <<"RECEIVE">>
                  [] OTHER -> <<>>
<1>1. "EMIT_STATUS" \in Types /\ "EMIT_MESSAGE" \in Types /\ "CANCEL" \in Types
      /\ "HANDSHAKE" \in Types /\ "RECEIVE" \in Types
  BY DEF Types, Requests
<1>2. a \in Seq(Types)
  BY <1>1
<1>3. b \in Seq(Types)
  BY <1>1
<1>4. c \in Seq(Types)
  BY <1>1
<1>5. Effects(s, type, target) = a \o b \o c
  BY DEF Effects
<1>6. Announced(s, type, target) # "NONE" => a = <<"EMIT_STATUS">>
  OBVIOUS
<1> HIDE DEF a, b, c
<1>7. a = <<"EMIT_STATUS">> => a \o b \o c # <<>> /\ (a \o b \o c)[1] = "EMIT_STATUS"
  BY <1>3, <1>4
<1> QED BY <1>2, <1>3, <1>4, <1>5, <1>6, <1>7

\* The invocations of a transition
New(ev, effects) ==
    [i \in 1 .. Len(effects) |->
        [id |-> FreeId(effects[i]), status |-> "CREATED",
         ctx |-> IF effects[i] \in Requests THEN ev.ctx ELSE NoContext,
         heartbeat |-> effects[i] \in Requests /\ ev.heartbeat]]

\* The invocations that pbcc_ee_handle_event adds, each with a free number
LEMMA NewTyped ==
    ASSUME TInv, NEW ev \in Steps, ev.op = "event", NEW effects \in Seq(Types)
    PROVE  /\ New(ev, effects) \in Seq(Invocations)
           /\ Len(New(ev, effects)) = Len(effects)
           /\ \A i \in 1 .. Len(effects) :
                 /\ New(ev, effects)[i].status = "CREATED"
                 /\ New(ev, effects)[i].id[1] = effects[i]
<1> DEFINE n == Len(effects)
           inv(i) == [id |-> FreeId(effects[i]), status |-> "CREATED",
                      ctx |-> IF effects[i] \in Requests THEN ev.ctx ELSE NoContext,
                      heartbeat |-> effects[i] \in Requests /\ ev.heartbeat]
<1>1. n \in Nat
  OBVIOUS
<1>2. ev.ctx \in Contexts /\ ev.heartbeat \in BOOLEAN
  BY StepFacts
<1>3. NoContext \in Contexts
  BY TokenFacts DEF NoContext, Contexts
<1>4. ASSUME NEW i \in 1..n
      PROVE  inv(i) \in Invocations /\ inv(i).status = "CREATED" /\ inv(i).id[1] = effects[i]
  <2>1. effects[i] \in Types
    OBVIOUS
  <2>2. FreeId(effects[i]) \in Ids /\ FreeId(effects[i])[1] = effects[i]
    BY <2>1, FreeIdFacts DEF TInv
  <2> DEFINE ctx == IF effects[i] \in Requests THEN ev.ctx ELSE NoContext
             heartbeat == effects[i] \in Requests /\ ev.heartbeat
  <2>3. ctx \in Contexts
    BY <1>2, <1>3
  <2>4. heartbeat \in BOOLEAN
    BY <1>2
  <2>5. inv(i) = [id |-> FreeId(effects[i]), status |-> "CREATED", ctx |-> ctx,
                  heartbeat |-> heartbeat]
    OBVIOUS
  <2> HIDE DEF ctx, heartbeat, inv
  <2> QED BY <2>2, <2>3, <2>4, <2>5 DEF Invocations
<1>5. New(ev, effects) = [i \in 1..n |-> inv(i)]
  BY DEF New
<1> HIDE DEF inv, n
<1>6. New(ev, effects) \in [1..n -> Invocations]
  BY <1>4, <1>5
<1>7. New(ev, effects) \in Seq(Invocations) /\ Len(New(ev, effects)) = n
  BY <1>1, <1>6, FunctionIsSeq
<1>8. \A i \in 1..n : New(ev, effects)[i] = inv(i)
  BY <1>5
<1>9. \A i \in 1..n : /\ New(ev, effects)[i].status = "CREATED"
                      /\ New(ev, effects)[i].id[1] = effects[i]
  BY <1>4, <1>8
<1> QED BY <1>7, <1>9 DEF n

\* A thread that takes a step has it on top of its stack.
LEMMA AtFacts ==
    ASSUME NEW t \in Threads, NEW op, At(t, op), todo \in [Threads -> Seq(Steps)]
    PROVE  todo[t] # <<>> /\ Head(todo[t]) \in Steps /\ Head(todo[t]).op = op
BY HeadTyped DEF At

\* What pbcc_ee_handle_event does with the event ev, the first of thread t
Handled(t, ev, target, effects, announced) ==
    /\ ev = Head(todo[t]) /\ ev \in Steps /\ ev.op = "event" /\ todo[t] # <<>>
    /\ target = Target(state, ev.type, ev.ctx.channels = {}) /\ target \in States \cup {"NONE"}
    /\ effects = Effects(state, ev.type, target) /\ effects \in Seq(Types)
    /\ announced = Announced(state, ev.type, target)
    /\ UNCHANGED <<flags, leave, calls, pb, now, owed, told>>
    /\ \/ target = "NONE" /\ Return(t) /\ UNCHANGED <<engine, delivery>>
       \/ /\ target # "NONE" /\ state' = target
          /\ context' = IF target = "UNSUBSCRIBED" THEN NoContext ELSE ev.ctx
          /\ status' = IF announced = "NONE" THEN status ELSE announced
          /\ \E q : /\ q = invocations \/ (\E type \in Requests : q = CancelByType(invocations, type))
                    /\ invocations' = q \o New(ev, effects)
          /\ seen' = Seen(ev, target)
          /\ skipped' \in BOOLEAN
          /\ \E steps : /\ Then(t, steps)
                        /\ \/ steps = <<>>
                           \/ steps = ProcessNext(New(ev, effects))
                           \/ steps = ProcessNext(invocations')

\* What pbcc_ee_handle_event does, with its event, target, effects and status named
LEMMA HandleEventFacts ==
    ASSUME TInv, NEW t \in Threads, HandleEvent(t)
    PROVE  \E ev, target, effects, announced : Handled(t, ev, target, effects, announced)
<1> DEFINE ev == Head(todo[t])
           target == Target(state, ev.type, ev.ctx.channels = {})
           effects == Effects(state, ev.type, target)
           announced == Announced(state, ev.type, target)
<1> SUFFICES Handled(t, ev, target, effects, announced)
  <2> HIDE DEF ev, target, effects, announced
  <2> QED OBVIOUS
<1>1. At(t, "event")
  BY DEF HandleEvent
<1>2. ev \in Steps /\ ev.op = "event" /\ todo[t] # <<>>
  BY <1>1, AtFacts DEF TInv
<1>3. target \in States \cup {"NONE"}
  BY TargetTyped DEF TInv
<1>4. effects \in Seq(Types)
  BY EffectsTyped
<1>5. UNCHANGED <<flags, leave, calls, pb, now, owed>>
  BY DEF HandleEvent
<1> DEFINE new == New(ev, effects)
           Changes ==
              /\ target # "NONE"
              /\ state' = target
              /\ context' = IF target = "UNSUBSCRIBED" THEN NoContext ELSE ev.ctx
              /\ status' = IF announced = "NONE" THEN status ELSE announced
              /\ invocations' = (CASE target = "HANDSHAKING" -> CancelByType(invocations, "HANDSHAKE")
                                   [] target = "RECEIVING" -> CancelByType(invocations, "RECEIVE")
                                   [] OTHER -> invocations) \o new
              /\ seen' = Seen(ev, target)
              /\ skipped' = (skipped \/ /\ Cached /\ ev.type = "HANDSHAKE_SUCCESS"
                                        /\ seen # 0 /\ seen < ev.ctx.cursor)
              /\ Then(t, CASE effects = <<>> -> <<>>
                           [] effects # <<>> /\ effects[1] = "CANCEL" -> ProcessNext(new)
                           [] OTHER -> ProcessNext(invocations'))
              /\ UNCHANGED told
<1>6. (target = "NONE" /\ Return(t) /\ UNCHANGED <<engine, delivery>>) \/ Changes
  BY Zenon DEF HandleEvent, New
<1>7. CASE target = "NONE" /\ Return(t) /\ UNCHANGED <<engine, delivery>>
  <2>1. told' = told
    BY <1>7 DEF delivery
  <2> QED BY <1>2, <1>3, <1>4, <1>5, <1>7, <2>1, Zenon DEF Handled
<1>8. CASE Changes
  <2> DEFINE q == CASE target = "HANDSHAKING" -> CancelByType(invocations, "HANDSHAKE")
                    [] target = "RECEIVING" -> CancelByType(invocations, "RECEIVE")
                    [] OTHER -> invocations
             steps == CASE effects = <<>> -> <<>>
                        [] effects # <<>> /\ effects[1] = "CANCEL" -> ProcessNext(new)
                        [] OTHER -> ProcessNext(invocations')
  <2>1. q = invocations \/ \E type \in Requests : q = CancelByType(invocations, type)
    BY DEF Requests
  <2>2. invocations' = q \o new
    BY <1>8
  <2>3. steps = <<>> \/ steps = ProcessNext(new) \/ steps = ProcessNext(invocations')
    OBVIOUS
  <2>4. Then(t, steps)
    BY <1>8
  <2>5. skipped' \in BOOLEAN
    BY <1>8 DEF TInv
  <2>6. \E r : /\ r = invocations \/ (\E type \in Requests : r = CancelByType(invocations, type))
               /\ invocations' = r \o new
    <3> HIDE DEF q, new
    <3> QED BY <2>1, <2>2
  <2>7. \E r : /\ Then(t, r)
               /\ r = <<>> \/ r = ProcessNext(new) \/ r = ProcessNext(invocations')
    <3> HIDE DEF steps, new
    <3> QED BY <2>3, <2>4
  <2> HIDE DEF q, steps
  <2> QED BY <1>2, <1>3, <1>4, <1>5, <1>8, <2>5, <2>6, <2>7, Zenon DEF Handled
<1> QED BY <1>6, <1>7, <1>8

\* The engine of a new context has its type.
LEMMA InitTyped == Init => TInv
<1> SUFFICES ASSUME Init PROVE TInv
  OBVIOUS
<1>1. state \in States /\ context \in Contexts /\ invocations \in Seq(Invocations)
  BY TokenFacts DEF Init, States, NoContext, Contexts
<1>2. current_transaction \in {"NONE", "HEARTBEAT", "LEAVE"} /\ cancel_invocation \in Ids \cup {None}
  BY DEF Init
<1>3. /\ leave \in SUBSET Channels /\ owed \in SUBSET Channels
      /\ subscribables \in SUBSET Channels /\ subscriptions \in SUBSET Subscriptions
  BY DEF Init
<1>4. pb \in PbOf(pb.channels)
  <2>1. "NONE" \in Transactions /\ FALSE \in BOOLEAN
    BY DEF Transactions
  <2> QED BY <2>1, TokenFacts DEF Init, PbOf
<1>5. todo \in [Threads -> Seq(Steps)]
  BY DEF Init
<1>6. now \in Tokens /\ seen \in Tokens /\ skipped \in BOOLEAN
  BY TokenFacts DEF Init
<1> QED BY <1>1, <1>2, <1>3, <1>4, <1>5, <1>6 DEF TInv

\* pbcc_ee_handle_event keeps the type.
LEMMA HandleEventTyped ==
    ASSUME TInv, NEW t \in Threads, HandleEvent(t)
    PROVE  TInv'
<1>0. PICK ev, target, effects, announced : Handled(t, ev, target, effects, announced)
  BY HandleEventFacts
<1>1. /\ ev \in Steps /\ ev.op = "event" /\ todo[t] # <<>>
      /\ target \in States \cup {"NONE"} /\ effects \in Seq(Types)
      /\ UNCHANGED <<flags, leave, calls, pb, now, owed, told>>
      /\ \/ target = "NONE" /\ Return(t) /\ UNCHANGED <<engine, delivery>>
         \/ /\ target # "NONE" /\ state' = target
            /\ context' = IF target = "UNSUBSCRIBED" THEN NoContext ELSE ev.ctx
            /\ status' = IF announced = "NONE" THEN status ELSE announced
            /\ \E q : /\ q = invocations \/ (\E type \in Requests : q = CancelByType(invocations, type))
                      /\ invocations' = q \o New(ev, effects)
            /\ seen' = Seen(ev, target)
            /\ skipped' \in BOOLEAN
            /\ \E steps : /\ Then(t, steps)
                          /\ \/ steps = <<>>
                             \/ steps = ProcessNext(New(ev, effects))
                             \/ steps = ProcessNext(invocations')
  BY <1>0, Zenon DEF Handled
<1>2. UNCHANGED <<current_transaction, cancel_invocation, leave, subscriptions, subscribables,
                  pb, now, owed>>
  BY <1>1 DEF flags, calls
<1>3. /\ todo \in [Threads -> Seq(Steps)] /\ invocations \in Seq(Invocations)
      /\ context \in Contexts /\ state \in States /\ seen \in Tokens /\ skipped \in BOOLEAN
  BY DEF TInv
<1>4. CASE target = "NONE" /\ Return(t) /\ UNCHANGED <<engine, delivery>>
  <2>1. todo' \in [Threads -> Seq(Steps)]
    <3>1. Then(t, <<>>) /\ <<>> \in Seq(Steps) /\ todo[t] # <<>>
      BY <1>1, <1>4 DEF Return
    <3> QED BY <1>3, <3>1, ThenTyped
  <2> QED BY <1>2, <1>4, <2>1 DEF TInv, engine, delivery
<1>5. CASE target # "NONE"
  <2>1. state' \in States
    BY <1>1, <1>5
  <2>2. context' \in Contexts
    <3>1. ev.ctx \in Contexts
      BY <1>1, StepFacts
    <3>2. NoContext \in Contexts
      BY TokenFacts DEF NoContext, Contexts
    <3> QED BY <1>1, <1>5, <3>1, <3>2
  <2>3. New(ev, effects) \in Seq(Invocations)
    BY <1>1, NewTyped
  <2>4. invocations' \in Seq(Invocations)
    <3>1. PICK q : /\ q = invocations \/ (\E type \in Requests : q = CancelByType(invocations, type))
                   /\ invocations' = q \o New(ev, effects)
      BY <1>1, <1>5
    <3>2. q \in Seq(Invocations)
      BY <1>3, <3>1, CancelByTypeFacts
    <3> QED BY <2>3, <3>1, <3>2
  <2>5. todo' \in [Threads -> Seq(Steps)]
    <3>1. PICK steps : /\ Then(t, steps)
                       /\ \/ steps = <<>>
                          \/ steps = ProcessNext(New(ev, effects))
                          \/ steps = ProcessNext(invocations')
      BY <1>1, <1>5
    <3>2. steps \in Seq(Steps)
      <4>1. ProcessNext(New(ev, effects)) \in Seq(Steps)
        BY <2>3, ProcessNextTyped
      <4>2. ProcessNext(invocations') \in Seq(Steps)
        BY <2>4, ProcessNextTyped
      <4>3. <<>> \in Seq(Steps)
        OBVIOUS
      <4> QED BY <3>1, <4>1, <4>2, <4>3
    <3> QED BY <1>1, <1>3, <3>1, <3>2, ThenTyped
  <2>6. seen' \in Tokens /\ skipped' \in BOOLEAN
    BY <1>1, <1>5, SeenTyped
  <2> QED BY <1>2, <2>1, <2>2, <2>4, <2>5, <2>6 DEF TInv
<1> QED BY <1>1, <1>4, <1>5

\* The steps that run an effect or a part of one
LEMMA EffectsTypedStep ==
    ASSUME TInv, NEW t \in Threads,
           \/ Complete(t) \/ NotRunnable(t) \/ EmitStatus(t) \/ EmitMessages(t)
           \/ CancelEffect(t) \/ Cancel(t) \/ CancelStarted(t)
    PROVE  TInv'
<1> DEFINE h == Head(todo[t])
<1>1. /\ todo \in [Threads -> Seq(Steps)] /\ invocations \in Seq(Invocations)
      /\ pb \in PbOf(pb.channels)
  BY DEF TInv
<1>2. <<>> \in Seq(Steps)
  OBVIOUS
<1>3. \A id \in Ids : \A op \in IdOps : <<With(op, id)>> \in Seq(Steps)
  BY IdStep, Short
<1>4. \A op \in IdOps : At(t, op) => todo[t] # <<>> /\ h \in Steps /\ h.id \in Ids
  BY <1>1, AtFacts, StepFacts
<1>5. /\ "exec" \in IdOps /\ "done" \in IdOps /\ "cancel" \in IdOps
      /\ "cancelled" \in IdOps /\ "heartbeat" \in IdOps
  BY DEF IdOps
<1> HIDE DEF h
<1>6. CASE Complete(t)
  <2>1. todo[t] # <<>> /\ h.id \in Ids
    BY <1>4, <1>5, <1>6 DEF Complete
  <2>2. invocations' = Completed(h.id)
    BY <1>6 DEF Complete, h
  <2>3. invocations' \in Seq(Invocations)
    BY <1>1, <2>2, CompletedFacts
  <2>4. PICK steps : Then(t, steps) /\ (steps = <<>> \/ steps = ProcessNext(invocations'))
    BY <1>6 DEF Complete
  <2>5. todo' \in [Threads -> Seq(Steps)]
    BY <1>1, <1>2, <2>1, <2>3, <2>4, ProcessNextTyped, ThenTyped
  <2> QED BY <1>6, <2>3, <2>5 DEF TInv, Complete, flags, calls, delivery
<1>7. CASE NotRunnable(t)
  <2>1. todo' \in [Threads -> Seq(Steps)]
    BY <1>1, <1>2, <1>4, <1>5, <1>7, ThenTyped DEF NotRunnable, Return
  <2> QED BY <1>7, <2>1 DEF TInv, NotRunnable, engine, flags, calls, delivery
<1>8. ASSUME NEW types, Runs(t, types)
      PROVE  /\ todo[t] # <<>> /\ h.id \in Ids
             /\ \A s \in {"CREATED", "RUNNING"} : Mark(h.id, s) \in Seq(Invocations)
  BY <1>1, <1>4, <1>5, <1>8, MarkFacts DEF Runs
<1>9. CASE EmitStatus(t)
  <2>1. todo' \in [Threads -> Seq(Steps)]
    BY <1>1, <1>3, <1>5, <1>8, <1>9, ThenTyped DEF EmitStatus, h
  <2>2. invocations' \in Seq(Invocations)
    BY <1>8, <1>9 DEF EmitStatus, h
  <2> QED BY <1>9, <2>1, <2>2 DEF TInv, EmitStatus, flags, calls
<1>10. CASE EmitMessages(t)
  <2>1. todo' \in [Threads -> Seq(Steps)]
    BY <1>1, <1>3, <1>5, <1>8, <1>10, ThenTyped DEF EmitMessages, h
  <2>2. invocations' \in Seq(Invocations)
    BY <1>8, <1>10 DEF EmitMessages, h
  <2>3. seen' \in Tokens
    BY <1>1, <1>10, PbFacts DEF EmitMessages, TInv
  <2>4. pb' \in PbOf(pb'.channels)
    <3>1. pb' = [pb EXCEPT !.messages = 0, !.cursor = IF CanStart THEN 0 ELSE pb.cursor]
      BY <1>10 DEF EmitMessages
    <3> DEFINE cursor == IF CanStart THEN 0 ELSE pb.cursor
    <3>2. cursor \in Tokens
      BY <1>1, TokenFacts, PbFacts
    <3> HIDE DEF cursor
    <3>3. pb' = [pb EXCEPT !.messages = 0, !.cursor = cursor]
      BY <3>1 DEF cursor
    <3> QED BY <1>1, <3>2, <3>3, TokenFacts DEF PbOf
  <2> QED BY <1>10, <2>1, <2>2, <2>3, <2>4 DEF TInv, EmitMessages, flags, calls
<1>11. CASE CancelEffect(t)
  <2>1. todo' \in [Threads -> Seq(Steps)]
    BY <1>1, <1>2, <1>3, <1>5, <1>8, <1>11, ThenTyped DEF CancelEffect, Return, h
  <2>2. invocations' \in Seq(Invocations)
    BY <1>1, <1>8, <1>11 DEF CancelEffect, h
  <2> QED BY <1>11, <2>1, <2>2 DEF TInv, CancelEffect, flags, calls, delivery
<1>12. CASE Cancel(t)
  <2>1. todo' \in [Threads -> Seq(Steps)]
    BY <1>1, <1>3, <1>4, <1>5, <1>12, ThenTyped DEF Cancel, h
  <2>2. pb' \in PbOf(pb'.channels)
    BY <1>1, <1>12, PbCancelled DEF Cancel
  <2> QED BY <1>12, <2>1, <2>2 DEF TInv, Cancel, engine, flags, calls, delivery
<1>13. CASE CancelStarted(t)
  <2>1. todo' \in [Threads -> Seq(Steps)]
    BY <1>1, <1>2, <1>4, <1>5, <1>13, ThenTyped DEF CancelStarted, Return
  <2>2. cancel_invocation' \in Ids
    BY <1>4, <1>5, <1>13 DEF CancelStarted, h
  <2> QED BY <1>13, <2>1, <2>2 DEF TInv, CancelStarted, engine, calls, delivery
<1> QED BY <1>6, <1>7, <1>9, <1>10, <1>11, <1>12, <1>13

\* The requests
LEMMA RequestsTypedStep ==
    ASSUME TInv, NEW t \in Threads,
           MakeHeartbeat(t) \/ Heartbeat(t) \/ MakeSubscribeRequest(t) \/ SubscribeError(t)
    PROVE  TInv'
<1> DEFINE h == Head(todo[t])
           inv == Invocation(h.id)
<1>1. /\ todo \in [Threads -> Seq(Steps)] /\ invocations \in Seq(Invocations)
      /\ pb \in PbOf(pb.channels)
  BY DEF TInv
<1>2. <<>> \in Seq(Steps)
  OBVIOUS
<1>3. \A id \in Ids : \A op \in IdOps : <<With(op, id)>> \in Seq(Steps)
  BY IdStep, Short
<1>4. \A op \in IdOps : At(t, op) => todo[t] # <<>> /\ h \in Steps /\ h.id \in Ids
  BY <1>1, AtFacts, StepFacts
<1>5. /\ "exec" \in IdOps /\ "done" \in IdOps /\ "cancel" \in IdOps
      /\ "cancelled" \in IdOps /\ "heartbeat" \in IdOps
  BY DEF IdOps
<1>6. ASSUME NEW types, Runs(t, types)
      PROVE  /\ todo[t] # <<>> /\ h.id \in Ids /\ h.id[1] \in types
             /\ \A s \in {"CREATED", "RUNNING"} : Mark(h.id, s) \in Seq(Invocations)
             /\ Index(h.id) \in DOMAIN invocations /\ inv \in Invocations
  <2>1. At(t, "exec") /\ Queued(h.id) /\ h.id[1] \in types
    BY <1>6 DEF Runs
  <2>2. Index(h.id) \in DOMAIN invocations
    BY <2>1 DEF Queued, Index
  <2>3. inv \in Invocations
    BY <1>1, <2>2 DEF Invocation
  <2> HIDE DEF h, inv
  <2> QED BY <1>1, <1>4, <1>5, <2>1, <2>2, <2>3, MarkFacts
<1>11. \A x \in Requests : x \in Transactions
  BY DEF Transactions
<1> HIDE DEF h, inv
<1>7. CASE MakeHeartbeat(t)
  <2>1. Runs(t, Requests)
    BY <1>7 DEF MakeHeartbeat
  <2>2. /\ todo[t] # <<>> /\ h.id \in Ids
        /\ Index(h.id) \in DOMAIN invocations
        /\ \A s \in {"CREATED", "RUNNING"} : Mark(h.id, s) \in Seq(Invocations)
    BY <1>6, <2>1
  <2>3. todo' \in [Threads -> Seq(Steps)]
    BY <1>1, <1>2, <1>3, <1>5, <1>7, <2>2, ThenTyped DEF MakeHeartbeat, Return, h
  <2>4. CASE invocations' = [invocations EXCEPT ![Index(h.id)].heartbeat = FALSE,
                                                ![Index(h.id)].status = "RUNNING"]
    <3> DEFINE n == Len(invocations)
               k == Index(h.id)
               new == [invocations[k] EXCEPT !.heartbeat = FALSE, !.status = "RUNNING"]
    <3>1. invocations[k] \in Invocations
      BY <1>1, <2>2
    <3>2. new \in Invocations
      <4>1. FALSE \in BOOLEAN
        OBVIOUS
      <4> HIDE DEF k
      <4> QED BY <3>1, <4>1 DEF Invocations
    <3> HIDE DEF new
    <3>3. \A j \in 1..n : invocations'[j] = IF j = k THEN new ELSE invocations[j]
      BY <1>1, <2>2, <2>4 DEF new
    <3>4. n \in Nat /\ DOMAIN invocations = 1..n /\ DOMAIN invocations' = 1..n
      BY <1>1, <2>4
    <3>5. \A j \in 1..n : invocations[j] \in Invocations
      BY <1>1
    <3>6. invocations' = [j \in 1..n |-> IF j = k THEN new ELSE invocations[j]]
      <4>1. invocations' = [j \in DOMAIN invocations |-> invocations'[j]]
        BY <2>4
      <4> QED BY <3>3, <3>4, <4>1
    <3> HIDE DEF n, k
    <3>7. invocations' \in [1..n -> Invocations]
      BY <3>2, <3>3, <3>5, <3>6
    <3>8. invocations' \in Seq(Invocations)
      BY <3>4, <3>7, FunctionIsSeq
    <3>9. current_transaction' \in {"NONE", "HEARTBEAT", "LEAVE"}
      BY <1>7 DEF MakeHeartbeat, TInv
    <3> QED BY <1>7, <2>3, <3>8, <3>9 DEF TInv, MakeHeartbeat, flags, calls, delivery
  <2>5. CASE UNCHANGED <<invocations, current_transaction>>
    BY <1>7, <2>3, <2>5 DEF TInv, MakeHeartbeat, flags, calls, delivery
  <2>6. \/ invocations' = [invocations EXCEPT ![Index(h.id)].heartbeat = FALSE,
                                              ![Index(h.id)].status = "RUNNING"]
        \/ UNCHANGED <<invocations, current_transaction>>
    BY <1>7 DEF MakeHeartbeat, h
  <2> QED BY <2>4, <2>5, <2>6
<1>8. CASE Heartbeat(t)
  <2>1. todo[t] # <<>> /\ h.id \in Ids
    BY <1>4, <1>5, <1>8 DEF Heartbeat
  <2>2. todo' \in [Threads -> Seq(Steps)]
    BY <1>1, <1>2, <1>8, <2>1, ThenTyped DEF Heartbeat, Return
  <2>3. invocations' \in Seq(Invocations)
    BY <1>1, <1>8, MarkFacts DEF Heartbeat
  <2>4. pb' \in PbOf(pb'.channels)
    <3>1. "HEARTBEAT" \in Transactions
      BY DEF Transactions
    <3>2. pb' = Started("HEARTBEAT", inv.ctx.channels) \/ pb' = pb
      BY <1>8 DEF Heartbeat, h, inv
    <3>3. CASE pb' = Started("HEARTBEAT", inv.ctx.channels)
      <4>1. Started("HEARTBEAT", inv.ctx.channels) \in PbOf(inv.ctx.channels)
        BY <1>1, <3>1, PbStarted
      <4> QED BY <3>3, <4>1, PbFacts
    <3>4. CASE pb' = pb
      BY <1>1, <3>4
    <3> QED BY <3>2, <3>3, <3>4
  <2> QED BY <1>8, <2>2, <2>3, <2>4 DEF TInv, Heartbeat, flags, calls, delivery
<1>9. CASE MakeSubscribeRequest(t)
  <2>1. Runs(t, Requests)
    BY <1>9 DEF MakeSubscribeRequest
  <2>2. /\ todo[t] # <<>> /\ h.id \in Ids /\ h.id[1] \in Requests
        /\ \A s \in {"CREATED", "RUNNING"} : Mark(h.id, s) \in Seq(Invocations)
        /\ inv \in Invocations
    BY <1>6, <2>1
  <2>3. inv.ctx.cursor \in Tokens
    BY <2>2 DEF Invocations, Contexts
  <2>4. invocations' \in Seq(Invocations)
    BY <1>1, <1>9, <2>2 DEF MakeSubscribeRequest, h
  <2>5. todo' \in [Threads -> Seq(Steps)]
    <3>1. <<With("done", h.id)>> \in Seq(Steps)
      BY <1>3, <1>5, <2>2
    <3>2. <<Step("error")>> \in Seq(Steps)
      <4>1. Step("error") \in Steps
        BY DEF Step, Steps, ErrorSteps
      <4> QED BY <4>1
    <3>3. <<With("done", h.id)>> \o <<Step("error")>> \in Seq(Steps)
      BY <3>1, <3>2
    <3>4. <<With("done", h.id)>> \o <<>> \in Seq(Steps)
      BY <3>1
    <3>5. PICK steps : /\ Then(t, steps)
                       /\ \/ steps = <<>> \/ steps = <<With("done", h.id)>> \o <<>>
                          \/ steps = <<With("done", h.id)>> \o <<Step("error")>>
      BY <1>9 DEF MakeSubscribeRequest, Return, h
    <3> QED BY <1>1, <1>2, <2>2, <3>3, <3>4, <3>5, ThenTyped
  <2>6. pb' \in PbOf(pb'.channels)
    <3> DEFINE cursor == inv.ctx.cursor
               trans == h.id[1]
               new == inv.ctx.channels
               started == Started(trans, new)
    <3>1. started \in PbOf(new)
      <4>1. trans \in Transactions
        BY <2>2, <1>11
      <4> HIDE DEF trans, new
      <4> QED BY <1>1, <4>1, PbStarted
    <3>2. \/ pb' = pb \/ pb' = [pb EXCEPT !.timetoken = cursor]
          \/ pb' = [started EXCEPT !.timetoken = cursor, !.cursor = cursor]
      BY <1>9 DEF MakeSubscribeRequest, h, inv
    <3> HIDE DEF started, cursor
    <3>3. cursor \in Tokens
      BY <2>3 DEF cursor
    <3>4. CASE pb' = pb
      BY <1>1, <3>4
    <3>5. CASE pb' = [pb EXCEPT !.timetoken = cursor]
      <4>1. pb' \in PbOf(pb.channels)
        BY <1>1, <3>3, <3>5 DEF PbOf
      <4> QED BY <4>1, PbFacts
    <3>6. CASE pb' = [started EXCEPT !.timetoken = cursor, !.cursor = cursor]
      <4>1. pb' \in PbOf(new)
        BY <3>1, <3>3, <3>6 DEF PbOf
      <4> QED BY <4>1, PbFacts
    <3> QED BY <3>2, <3>4, <3>5, <3>6
  <2> QED BY <1>9, <2>4, <2>5, <2>6 DEF TInv, MakeSubscribeRequest, flags, calls, delivery
<1>10. CASE SubscribeError(t)
  <2>1. todo[t] # <<>>
    BY <1>10 DEF SubscribeError, At
  <2>2. \A type \in EventTypes : <<CopyEvent(type)>> \in Seq(Steps)
    BY CopyStep, Short
  <2>3. "HANDSHAKE_FAILURE" \in EventTypes /\ "RECEIVE_FAILURE" \in EventTypes
    BY DEF EventTypes
  <2>4. PICK steps : /\ Then(t, steps)
                     /\ \/ steps = <<>> \/ steps = <<CopyEvent("HANDSHAKE_FAILURE")>>
                        \/ steps = <<CopyEvent("RECEIVE_FAILURE")>>
    BY <1>10 DEF SubscribeError
  <2>5. todo' \in [Threads -> Seq(Steps)]
    BY <1>1, <1>2, <2>1, <2>2, <2>3, <2>4, ThenTyped
  <2> QED BY <1>10, <2>5 DEF TInv, SubscribeError, engine, flags, calls, delivery
<1> QED BY <1>7, <1>8, <1>9, <1>10

\* The ends of transactions and the callback
LEMMA WatcherTypedStep ==
    ASSUME TInv, WatcherStep \/ Ends
    PROVE  TInv'
<1>1. /\ todo \in [Threads -> Seq(Steps)] /\ invocations \in Seq(Invocations)
      /\ pb \in PbOf(pb.channels) /\ leave \in SUBSET Channels /\ owed \in SUBSET Channels
      /\ context \in Contexts
  BY DEF TInv
<1>2. <<>> \in Seq(Steps) /\ "watcher" \in Threads
  BY DEF Threads
<1>3. /\ pb.trans \in Transactions /\ pb.messages \in Tokens /\ pb.cursor \in Tokens
      /\ pb.timetoken \in Tokens /\ now \in Tokens
  BY <1>1, PbFacts DEF TInv
<1>4. "NONE" \in Transactions /\ "LEAVE" \in Transactions
  BY DEF Transactions
<1>5. ASSUME NEW steps \in Seq(Steps), Enters(steps)
      PROVE  todo' \in [Threads -> Seq(Steps)]
  BY <1>1, <1>2, <1>5 DEF Enters
<1>6. \A ok \in BOOLEAN : <<[op |-> "report", ok |-> ok]>> \in Seq(Steps)
  <2> SUFFICES ASSUME NEW ok \in BOOLEAN
               PROVE  <<[op |-> "report", ok |-> ok]>> \in Seq(Steps)
    OBVIOUS
  <2>1. [op |-> "report", ok |-> ok] \in Steps
    BY DEF Steps, ReportSteps
  <2> QED BY <2>1, Short
<1>7. \A result : Callback(result) \in Seq(Steps)
  <2> SUFFICES ASSUME NEW result PROVE Callback(result) \in Seq(Steps)
    OBVIOUS
  <2> DEFINE ok == result = "OK"
  <2>1. ok \in BOOLEAN
    OBVIOUS
  <2>2. \/ Callback(result) = <<[op |-> "report", ok |-> ok]>>
        \/ Callback(result) = <<[op |-> "callback", trans |-> pb.trans, ok |-> ok]>>
    BY DEF Callback
  <2> HIDE DEF ok
  <2>3. [op |-> "callback", trans |-> pb.trans, ok |-> ok] \in Steps
    BY <1>3, <2>1 DEF Steps, CallbackSteps
  <2>4. <<[op |-> "callback", trans |-> pb.trans, ok |-> ok]>> \in Seq(Steps)
    BY <2>3, Short
  <2> QED BY <1>6, <2>1, <2>2, <2>4
<1>8. Messages \in Tokens
  BY <1>3, TokenFacts DEF Messages
<1>9. \A s \in {"IDLE", "KEEP_ALIVE_IDLE"} : Over(s) \in PbOf({})
  BY <1>1, PbOver
<1>10. ASSUME NEW channels, NEW p \in PbOf(channels), NEW messages \in Tokens,
              NEW timetoken \in Tokens, NEW cursor \in Tokens
       PROVE  /\ [p EXCEPT !.messages = messages, !.timetoken = timetoken, !.cursor = cursor]
                    \in PbOf(channels)
              /\ [p EXCEPT !.timetoken = timetoken, !.cursor = cursor] \in PbOf(channels)
              /\ [p EXCEPT !.messages = messages, !.cursor = cursor] \in PbOf(channels)
  BY DEF PbOf
<1>11. CASE EndOk
  <2>1. PICK s \in {"IDLE", "KEEP_ALIVE_IDLE"} :
          pb' = IF pb.trans \in Requests
                THEN [Over(s) EXCEPT !.messages = Messages, !.timetoken = now,
                                     !.cursor = IF Messages = 0 THEN 0 ELSE @]
                ELSE Over(s)
    BY <1>11 DEF EndOk
  <2> DEFINE cursor == IF Messages = 0 THEN 0 ELSE Over(s).cursor
  <2>2. cursor \in Tokens
    BY <1>9, TokenFacts, PbFacts
  <2>3. \/ pb' = [Over(s) EXCEPT !.messages = Messages, !.timetoken = now, !.cursor = cursor]
        \/ pb' = Over(s)
    BY <2>1
  <2> HIDE DEF cursor
  <2>4. [Over(s) EXCEPT !.messages = Messages, !.timetoken = now, !.cursor = cursor] \in PbOf({})
    BY <1>3, <1>8, <1>9, <1>10, <2>2
  <2>5. pb' \in PbOf({})
    BY <1>9, <2>3, <2>4
  <2>6. todo' \in [Threads -> Seq(Steps)]
    BY <1>5, <1>7, <1>11 DEF EndOk
  <2>7. owed' \in SUBSET Channels
    BY <1>1, <1>11 DEF EndOk
  <2> QED BY <1>11, <2>5, <2>6, <2>7, PbFacts DEF TInv, EndOk, engine, flags, calls, delivery
<1>12. CASE EndError
  <2>1. PICK s \in {"IDLE", "KEEP_ALIVE_IDLE"} :
          \E timetoken \in {pb.timetoken} \cup (IF pb.trans \in Requests THEN {0} ELSE {}) :
             pb' = [Over(s) EXCEPT !.timetoken = timetoken,
                                   !.cursor = IF pb.messages = 0 THEN 0 ELSE @]
    BY <1>12 DEF EndError
  <2>2. PICK timetoken \in Tokens :
             pb' = [Over(s) EXCEPT !.timetoken = timetoken,
                                   !.cursor = IF pb.messages = 0 THEN 0 ELSE @]
    BY <1>3, <2>1, TokenFacts
  <2> DEFINE cursor == IF pb.messages = 0 THEN 0 ELSE Over(s).cursor
  <2>3. cursor \in Tokens
    BY <1>9, TokenFacts, PbFacts
  <2>4. pb' = [Over(s) EXCEPT !.timetoken = timetoken, !.cursor = cursor]
    BY <2>2
  <2> HIDE DEF cursor
  <2>5. pb' \in PbOf({})
    BY <1>3, <1>9, <1>10, <2>3, <2>4
  <2>6. todo' \in [Threads -> Seq(Steps)]
    BY <1>5, <1>7, <1>12 DEF EndError
  <2>7. owed' \in SUBSET Channels
    BY <1>1, <1>12 DEF EndError
  <2> QED BY <1>12, <2>5, <2>6, <2>7, PbFacts DEF TInv, EndError, engine, flags, calls, delivery
<1>13. CASE EndCancelled
  <2>1. pb' = [Over("IDLE") EXCEPT !.messages = 0, !.cursor = 0]
    BY <1>13 DEF EndCancelled
  <2>2. pb' \in PbOf({})
    BY <1>3, <1>9, <1>10, <2>1, TokenFacts
  <2>6. todo' \in [Threads -> Seq(Steps)]
    BY <1>5, <1>7, <1>13 DEF EndCancelled
  <2>7. owed' \in SUBSET Channels
    BY <1>1, <1>13 DEF EndCancelled
  <2> QED BY <1>13, <2>2, <2>6, <2>7, PbFacts
          DEF TInv, EndCancelled, engine, flags, calls, delivery
<1>14. CASE Requeued
  <2>1. todo' \in [Threads -> Seq(Steps)]
    BY <1>2, <1>5, <1>14 DEF Requeued
  <2> DEFINE s == IF CanStart THEN "BUSY" ELSE pb.state
  <2>2. pb' = [pb EXCEPT !.requeued = FALSE, !.state = s]
    BY <1>14 DEF Requeued
  <2>3. s \in {"IDLE", "KEEP_ALIVE_IDLE", "BUSY", "WAIT_CANCEL"} /\ FALSE \in BOOLEAN
    BY <1>1, PbFacts
  <2> HIDE DEF s
  <2>4. pb' \in PbOf(pb.channels)
    BY <1>1, <2>2, <2>3 DEF PbOf
  <2> QED BY <1>14, <2>1, <2>4, PbFacts DEF TInv, Requeued, engine, flags, calls, delivery
<1>15. CASE OtherCallback
  <2> DEFINE cb == Head(todo["watcher"])
             ended == cb.trans \in {"HEARTBEAT", "LEAVE"}
             flushed == IF ended THEN [pb EXCEPT !.messages = 0, !.cursor = 0] ELSE pb
  <2>1. todo["watcher"] # <<>> /\ cb.ok \in BOOLEAN
    <3>1. At("watcher", "callback")
      BY <1>15 DEF OtherCallback
    <3>2. todo["watcher"] # <<>> /\ cb \in Steps /\ cb.op = "callback"
      BY <1>1, <1>2, <3>1, AtFacts
    <3> QED BY <3>2, StepFacts
  <2>2. flushed \in PbOf(pb.channels)
    BY <1>1, <1>3, <1>10, TokenFacts
  <2>3. pb' \in PbOf(pb'.channels)
    <3>1. \/ pb' = flushed
          \/ pb' = [flushed EXCEPT !.trans = "LEAVE", !.channels = leave, !.timetoken = 0,
                                   !.requeued = TRUE]
      BY <1>15 DEF OtherCallback
    <3>2. CASE pb' = flushed
      BY <2>2, <3>2, PbFacts
    <3> HIDE DEF flushed
    <3>3. CASE pb' = [flushed EXCEPT !.trans = "LEAVE", !.channels = leave, !.timetoken = 0,
                                     !.requeued = TRUE]
      <4>1. pb' \in PbOf(leave)
        BY <1>4, <2>2, <3>3, TokenFacts DEF PbOf
      <4> QED BY <4>1, PbFacts
    <3> QED BY <3>1, <3>2, <3>3
  <2>4. invocations' \in Seq(Invocations)
    BY <1>1, <1>15, CompletedFacts DEF OtherCallback
  <2>5. todo' \in [Threads -> Seq(Steps)]
    <3>1. PICK steps : /\ Then("watcher", steps)
                       /\ \/ steps = <<>> \/ steps = <<[op |-> "report", ok |-> cb.ok]>>
                          \/ steps = ProcessNext(invocations')
      BY <1>15 DEF OtherCallback
    <3>2. ProcessNext(invocations') \in Seq(Steps)
      BY <2>4, ProcessNextTyped
    <3>3. <<[op |-> "report", ok |-> cb.ok]>> \in Seq(Steps)
      BY <1>6, <2>1
    <3>4. steps \in Seq(Steps)
      BY <1>2, <3>1, <3>2, <3>3
    <3> QED BY <1>1, <1>2, <2>1, <3>1, <3>4, ThenTyped
  <2>6. leave' \in SUBSET Channels /\ current_transaction' \in {"NONE", "HEARTBEAT", "LEAVE"}
    BY <1>1, <1>15 DEF OtherCallback, TInv
  <2>7. cancel_invocation' = None
    BY <1>15 DEF OtherCallback
  <2> QED BY <1>15, <2>3, <2>4, <2>5, <2>6, <2>7 DEF TInv, OtherCallback, calls, delivery
<1>16. CASE Report
  <2>1. todo["watcher"] # <<>>
    BY <1>16 DEF Report, At
  <2>2. /\ \A type \in EventTypes : <<CopyEvent(type)>> \in Seq(Steps)
        /\ \A type \in EventTypes :
              <<Event(type, context.channels, pb.timetoken, FALSE)>> \in Seq(Steps)
    <3>1. context.channels \in SUBSET Channels /\ FALSE \in BOOLEAN
      BY <1>1 DEF Contexts
    <3>2. \A type \in EventTypes : Event(type, context.channels, pb.timetoken, FALSE) \in Steps
      BY <1>3, <3>1, EventStep
    <3>3. \A type \in EventTypes : CopyEvent(type) \in Steps
      BY CopyStep
    <3> QED BY <3>2, <3>3, Short
  <2>3. /\ "HANDSHAKE_SUCCESS" \in EventTypes /\ "RECEIVE_SUCCESS" \in EventTypes
        /\ "HANDSHAKE_FAILURE" \in EventTypes /\ "RECEIVE_FAILURE" \in EventTypes
    BY DEF EventTypes
  <2>4. PICK steps : /\ Then("watcher", steps)
                     /\ \/ steps = <<>>
                        \/ \E type \in EventTypes :
                              \/ steps = <<CopyEvent(type)>>
                              \/ steps = <<Event(type, context.channels, pb.timetoken, FALSE)>>
    <3> DEFINE event(success, failure) ==
                 IF Head(todo["watcher"]).ok
                 THEN Event(success, context.channels, pb.timetoken, FALSE) ELSE CopyEvent(failure)
               steps == CASE state = "HANDSHAKING" -> <<event("HANDSHAKE_SUCCESS", "HANDSHAKE_FAILURE")>>
                          [] state = "RECEIVING" -> <<event("RECEIVE_SUCCESS", "RECEIVE_FAILURE")>>
                          [] OTHER -> <<>>
    <3>1. Then("watcher", steps)
      BY <1>16 DEF Report
    <3>2. \/ steps = <<>>
          \/ \E type \in EventTypes :
                \/ steps = <<CopyEvent(type)>>
                \/ steps = <<Event(type, context.channels, pb.timetoken, FALSE)>>
      BY <2>3
    <3> HIDE DEF steps
    <3> QED BY <3>1, <3>2
  <2>5. steps \in Seq(Steps)
    BY <1>2, <2>2, <2>4
  <2>6. todo' \in [Threads -> Seq(Steps)]
    BY <1>1, <1>2, <2>1, <2>4, <2>5, ThenTyped
  <2> QED BY <1>16, <2>6 DEF TInv, Report, engine, flags, calls, delivery
<1> QED BY <1>11, <1>12, <1>13, <1>14, <1>15, <1>16 DEF WatcherStep, Ends

\* The calls of the application
LEMMA CallTypedStep ==
    ASSUME TInv, Call \/ Publish
    PROVE  TInv'
<1>1. /\ todo \in [Threads -> Seq(Steps)]
      /\ context.channels \in SUBSET Channels /\ context.cursor \in Tokens
      /\ subscribables \in SUBSET Channels /\ subscriptions \in SUBSET Subscriptions
      /\ owed \in SUBSET Channels /\ now \in Tokens
  BY DEF TInv, Contexts
<1>2. <<>> \in Seq(Steps) /\ "app" \in Threads /\ TRUE \in BOOLEAN /\ FALSE \in BOOLEAN
  BY DEF Threads
<1>3. ASSUME NEW call, NEW steps \in Seq(Steps), Enter(call, steps)
      PROVE  todo' \in [Threads -> Seq(Steps)]
  BY <1>1, <1>2, <1>3 DEF Enter
<1>4. ASSUME NEW subs \in SUBSET Subscriptions
      PROVE  SubscribablesOf(subs) \in SUBSET Channels
  BY <1>4, ChannelsAssumption DEF SubscribablesOf
<1>5. ASSUME NEW cursor \in Tokens, NEW heartbeat \in BOOLEAN
      PROVE  [op |-> "changed", cursor |-> cursor, heartbeat |-> heartbeat] \in Steps
  BY DEF Steps, ChangedSteps
<1>6. ASSUME NEW channels \in SUBSET Channels
      PROVE  [op |-> "leave", channels |-> channels] \in Steps
  BY DEF Steps, LeaveSteps
<1>7. CASE \E s \in Subscriptions : \E c \in Cursors : Subscribe(s, c)
  <2>1. PICK s \in Subscriptions, c \in Cursors : Subscribe(s, c)
    BY <1>7
  <2>2. subscriptions' \in SUBSET Subscriptions
    BY <1>1, <2>1 DEF Subscribe
  <2>3. subscribables' \in SUBSET Channels
    BY <1>4, <2>1, <2>2 DEF Subscribe
  <2>4. owed' \in SUBSET Channels
    BY <1>1, <2>1 DEF Subscribe
  <2>5. [op |-> "changed", cursor |-> c, heartbeat |-> TRUE] \in Steps
    BY <1>2, <1>5, TokenFacts
  <2>6. <<[op |-> "changed", cursor |-> c, heartbeat |-> TRUE]>> \in Seq(Steps)
    BY <2>5, Short
  <2>7. todo' \in [Threads -> Seq(Steps)]
    BY <1>3, <2>1, <2>6 DEF Subscribe
  <2> QED BY <2>1, <2>2, <2>3, <2>4, <2>7 DEF TInv, Subscribe, engine, flags, delivery
<1>8. CASE \E s \in Subscriptions : Unsubscribe(s)
  <2>1. PICK s \in Subscriptions : Unsubscribe(s)
    BY <1>8
  <2> DEFINE remaining == SubscribablesOf(subscriptions \ {s})
             gone == ChannelsOf[s] \ remaining
             a == IF gone = {} THEN <<>> ELSE <<[op |-> "leave", channels |-> gone]>>
             b == <<[op |-> "changed", cursor |-> 0, heartbeat |-> FALSE]>>
  <2>2. remaining \in SUBSET Channels
    BY <1>1, <1>4
  <2>3. gone \in SUBSET Channels
    BY ChannelsAssumption
  <2>4. Enter("unsubscribe", a \o b)
    BY <2>1 DEF Unsubscribe
  <2>5. /\ subscriptions' = subscriptions \ {s} /\ subscribables' = remaining
        /\ owed' = owed \cup gone
        /\ UNCHANGED <<engine, flags, leave, pb, now, delivery>>
    BY <2>1 DEF Unsubscribe
  <2> HIDE DEF remaining, gone
  <2>6. a \in Seq(Steps)
    <3>1. [op |-> "leave", channels |-> gone] \in Steps
      BY <1>6, <2>3
    <3>2. <<[op |-> "leave", channels |-> gone]>> \in Seq(Steps)
      BY <3>1, Short
    <3> QED BY <1>2, <3>2
  <2>7. b \in Seq(Steps)
    <3>1. [op |-> "changed", cursor |-> 0, heartbeat |-> FALSE] \in Steps
      BY <1>2, <1>5, TokenFacts
    <3> QED BY <3>1, Short
  <2> HIDE DEF a, b
  <2>8. a \o b \in Seq(Steps)
    BY <2>6, <2>7
  <2>9. todo' \in [Threads -> Seq(Steps)]
    BY <1>3, <2>4, <2>8
  <2> QED BY <1>1, <2>2, <2>3, <2>5, <2>9 DEF TInv, engine, flags, delivery
<1>9. CASE UnsubscribeAll
  <2> DEFINE l == [op |-> "leave", channels |-> subscribables]
             e == Event("UNSUBSCRIBE_ALL", subscribables, context.cursor, FALSE)
  <2>1. Enter("unsubscribe_all", <<l, e>>)
    BY <1>9 DEF UnsubscribeAll
  <2>2. l \in Steps
    BY <1>1, <1>6
  <2>3. e \in Steps
    <3>1. "UNSUBSCRIBE_ALL" \in EventTypes
      BY DEF EventTypes
    <3> QED BY <1>1, <1>2, <3>1, EventStep
  <2> HIDE DEF l, e
  <2>4. <<l, e>> \in Seq(Steps)
    BY <2>2, <2>3
  <2>5. todo' \in [Threads -> Seq(Steps)]
    BY <1>3, <2>1, <2>4
  <2>6. subscriptions' \in SUBSET Subscriptions /\ owed' \in SUBSET Channels
    BY <1>1, <1>9 DEF UnsubscribeAll
  <2> QED BY <1>9, <2>5, <2>6 DEF TInv, UnsubscribeAll, engine, flags, delivery
<1>10. CASE Disconnect
  <2>1. CopyEvent("DISCONNECT") \in Steps
    BY CopyStep DEF EventTypes
  <2>2. <<CopyEvent("DISCONNECT")>> \in Seq(Steps)
    BY <2>1, Short
  <2>3. todo' \in [Threads -> Seq(Steps)]
    BY <1>3, <1>10, <2>2 DEF Disconnect
  <2> QED BY <1>10, <2>3 DEF TInv, Disconnect, engine, flags, calls, delivery
<1>11. CASE \E c \in Cursors : Reconnect(c)
  <2>1. PICK c \in Cursors : Reconnect(c)
    BY <1>11
  <2> DEFINE e == Event("RECONNECT", context.channels, c, FALSE)
  <2>2. e \in Steps
    <3>1. "RECONNECT" \in EventTypes
      BY DEF EventTypes
    <3> QED BY <1>1, <1>2, <3>1, EventStep, TokenFacts
  <2>3. Enter("reconnect", <<e>>)
    BY <2>1 DEF Reconnect
  <2> HIDE DEF e
  <2>4. <<e>> \in Seq(Steps)
    BY <2>2, Short
  <2>5. todo' \in [Threads -> Seq(Steps)]
    BY <1>3, <2>3, <2>4
  <2> QED BY <2>1, <2>5 DEF TInv, Reconnect, engine, flags, calls, delivery
<1>12. CASE Publish
  <2>1. now' \in Tokens
    BY <1>1, <1>12, BoundsAssumption DEF Publish, Tokens
  <2> QED BY <1>12, <2>1 DEF TInv, Publish, engine, flags, calls, delivery
<1> QED BY <1>7, <1>8, <1>9, <1>10, <1>11, <1>12 DEF Call

\* subscribe_ee->current_transaction is written by make_subscribe_request_, the
\* leave and the callback.
LEMMA SubscriptionTypedStep ==
    ASSUME TInv, NEW t \in Threads, SubscriptionChanged(t) \/ Leave(t)
    PROVE  TInv'
<1> DEFINE h == Head(todo[t])
<1>1. /\ todo \in [Threads -> Seq(Steps)] /\ pb \in PbOf(pb.channels)
      /\ context.channels \in SUBSET Channels /\ context.cursor \in Tokens
      /\ subscribables \in SUBSET Channels /\ leave \in SUBSET Channels
  BY DEF TInv, Contexts
<1>2. CASE SubscriptionChanged(t)
  <2> DEFINE a == Event("SUBSCRIPTION_CHANGED", subscribables, context.cursor, h.heartbeat)
             b == Event("SUBSCRIPTION_RESTORED", subscribables, h.cursor, h.heartbeat)
  <2>1. todo[t] # <<>> /\ h \in Steps /\ h.op = "changed"
    BY <1>1, <1>2, AtFacts DEF SubscriptionChanged
  <2>2. h.cursor \in Tokens /\ h.heartbeat \in BOOLEAN
    BY <2>1, StepFacts
  <2>3. Then(t, <<a>>) \/ Then(t, <<b>>)
    BY <1>2 DEF SubscriptionChanged
  <2>4. a \in Steps /\ b \in Steps
    <3>1. "SUBSCRIPTION_CHANGED" \in EventTypes /\ "SUBSCRIPTION_RESTORED" \in EventTypes
      BY DEF EventTypes
    <3> HIDE DEF h
    <3> QED BY <1>1, <2>2, <3>1, EventStep
  <2> HIDE DEF a, b
  <2>5. <<a>> \in Seq(Steps) /\ <<b>> \in Seq(Steps)
    BY <2>4, Short
  <2>6. todo' \in [Threads -> Seq(Steps)]
    BY <1>1, <2>1, <2>3, <2>5, ThenTyped
  <2> QED BY <1>2, <2>6 DEF TInv, SubscriptionChanged, engine, flags, calls, delivery
<1>3. CASE Leave(t)
  <2>1. todo[t] # <<>> /\ h \in Steps /\ h.op = "leave"
    BY <1>1, <1>3, AtFacts DEF Leave
  <2>2. h.channels \in SUBSET Channels
    BY <2>1, StepFacts
  <2>3. todo' \in [Threads -> Seq(Steps)]
    <3>1. Then(t, <<>>) /\ <<>> \in Seq(Steps)
      BY <1>3 DEF Leave, Return
    <3> QED BY <1>1, <2>1, <3>1, ThenTyped
  <2>4. pb' \in PbOf(pb'.channels)
    <3> DEFINE channels == h.channels
    <3>1. "LEAVE" \in Transactions
      BY DEF Transactions
    <3>2. pb' = pb \/ pb' = Started("LEAVE", channels)
      BY <1>3 DEF Leave
    <3> HIDE DEF channels
    <3>3. Started("LEAVE", channels) \in PbOf(channels)
      BY <1>1, <3>1, PbStarted
    <3>4. CASE pb' = Started("LEAVE", channels)
      BY <3>3, <3>4, PbFacts
    <3> QED BY <1>1, <3>2, <3>4
  <2>5. leave' \in SUBSET Channels /\ current_transaction' \in {"NONE", "HEARTBEAT", "LEAVE"}
    BY <1>1, <1>3, <2>2 DEF Leave, TInv
  <2> QED BY <1>3, <2>3, <2>4, <2>5 DEF TInv, Leave, engine, flags, calls, delivery
<1> QED BY <1>2, <1>3

\* Every step keeps the type.
LEMMA StepTyped == TInv /\ [Next]_vars => TInv'
<1> SUFFICES ASSUME TInv, [Next]_vars PROVE TInv'
  OBVIOUS
<1>1. ASSUME NEW t \in Threads, ThreadStep(t) PROVE TInv'
  BY <1>1, HandleEventTyped, EffectsTypedStep, RequestsTypedStep, SubscriptionTypedStep
     DEF ThreadStep
<1>2. CASE UNCHANGED vars
  BY <1>2 DEF TInv, vars, engine, flags, calls, delivery
<1> QED BY <1>1, <1>2, WatcherTypedStep, CallTypedStep DEF Next

\* What stops the loop for good happens in two places.
LEMMA JamsStep ==
    ASSUME [Next]_vars
    PROVE  \/ jams' = jams
           \/ jams' = jams \cup {"overwritten"} /\ \E t \in Threads : CancelStarted(t)
           \/ jams' = jams \cup {"unread"} /\ EndOk
<1>1. ASSUME NEW t \in Threads, ThreadStep(t), ~ CancelStarted(t) PROVE jams' = jams
  <2>1. CASE HandleEvent(t) \/ Complete(t) \/ NotRunnable(t) \/ EmitStatus(t) \/ EmitMessages(t)
    BY <2>1 DEF HandleEvent, Complete, NotRunnable, EmitStatus, EmitMessages
  <2>2. CASE CancelEffect(t) \/ Cancel(t) \/ MakeHeartbeat(t) \/ Heartbeat(t)
    BY <2>2 DEF CancelEffect, Cancel, MakeHeartbeat, Heartbeat
  <2>3. CASE MakeSubscribeRequest(t) \/ SubscribeError(t) \/ SubscriptionChanged(t) \/ Leave(t)
    BY <2>3 DEF MakeSubscribeRequest, SubscribeError, SubscriptionChanged, Leave
  <2> QED BY <1>1, <2>1, <2>2, <2>3 DEF ThreadStep
<1>2. CASE \E t \in Threads : CancelStarted(t)
  BY <1>2 DEF CancelStarted
<1>3. CASE WatcherStep \/ EndError \/ EndCancelled \/ Publish
  BY <1>3 DEF WatcherStep, Requeued, OtherCallback, Report, EndError, EndCancelled, Publish
<1>4. CASE EndOk
  BY <1>4 DEF EndOk
<1>5. CASE Call
  BY <1>5 DEF Call, Subscribe, Unsubscribe, UnsubscribeAll, Disconnect, Reconnect
<1>6. CASE UNCHANGED vars
  BY <1>6 DEF vars
<1> QED BY <1>1, <1>2, <1>3, <1>4, <1>5, <1>6 DEF Next, Ends

\* The variables keep their types in all calls, callbacks and effects: a completed
\* invocation never stays in the queue (pbcc_ee_handle_effect_completion), numbers are free
\* when they are given, and current_transaction is only a heartbeat or a leave.
THEOREM TypeCorrect == Spec => []TypeOK
<1>1. TInv /\ jams \in SUBSET Jams => TypeOK
  <2> SUFFICES ASSUME TInv, jams \in SUBSET Jams PROVE TypeOK
    OBVIOUS
  <2>1. \A i \in DOMAIN invocations : invocations[i] \in Invocations
    BY DEF TInv
  <2>2. /\ pb.state \in {"IDLE", "KEEP_ALIVE_IDLE", "BUSY", "WAIT_CANCEL"}
        /\ pb.messages \in Tokens /\ pb.cursor \in Tokens /\ pb.timetoken \in Tokens
    BY PbFacts DEF TInv
  <2> QED BY <2>1, <2>2 DEF TypeOK, TInv, Invocations, Contexts
<1>2. Spec => []TInv
  BY InitTyped, StepTyped, PTL DEF Spec
<1>3. Spec => [](jams \in SUBSET Jams)
  <2>1. Init => jams \in SUBSET Jams
    BY DEF Init
  <2>2. jams \in SUBSET Jams /\ [Next]_vars => (jams \in SUBSET Jams)'
    BY JamsStep DEF Jams
  <2> QED BY <2>1, <2>2, PTL DEF Spec
<1> QED BY <1>1, <1>2, <1>3, PTL

-----------------------------------------------------------------------------
(* The status *)

\* The statuses that fit a state
Fits(s, announced) ==
    CASE s = "RECEIVING" -> announced \in {"CONNECTED", "SUBSCRIPTION_CHANGED"}
      [] s = "RECEIVE_FAILED" -> announced = "DISCONNECTED_UNEXPECTEDLY"
      [] s = "RECEIVE_STOPPED" -> announced = "DISCONNECTED"
      [] s = "HANDSHAKE_FAILED" -> announced = "CONNECTION_ERROR"
      [] OTHER -> announced \notin {"CONNECTED", "SUBSCRIPTION_CHANGED"}

\* An invocation that will read the status
Announces(inv) == inv.id[1] = "EMIT_STATUS" /\ inv.status = "CREATED"

StatusInv ==
    /\ Fits(state, status)
    /\ told = status \/ \E i \in DOMAIN invocations : Announces(invocations[i])

\* A transition announces what fits its target, or nothing when the old status does.
LEMMA TransitionFits ==
    ASSUME NEW s \in States, NEW type \in EventTypes, NEW empty \in BOOLEAN, NEW old, Fits(s, old),
           NEW target, target = Target(s, type, empty), target # "NONE",
           NEW announced, announced = Announced(s, type, target)
    PROVE  Fits(target, IF announced = "NONE" THEN old ELSE announced)
<1>1. CASE s = "UNSUBSCRIBED"
  BY <1>1 DEF Target, Announced, Fits, Stopped, Failed, Looping
<1>2. CASE s = "HANDSHAKING"
  BY <1>2 DEF Target, Announced, Fits, Stopped, Failed, Looping
<1>3. CASE s = "RECEIVING"
  BY <1>3 DEF Target, Announced, Fits, Stopped, Failed, Looping
<1>4. CASE s = "HANDSHAKE_STOPPED"
  BY <1>4 DEF Target, Announced, Fits, Stopped, Failed, Looping
<1>5. CASE s = "RECEIVE_STOPPED"
  BY <1>5 DEF Target, Announced, Fits, Stopped, Failed, Looping
<1>6. CASE s = "HANDSHAKE_FAILED"
  BY <1>6 DEF Target, Announced, Fits, Stopped, Failed, Looping
<1>7. CASE s = "RECEIVE_FAILED"
  BY <1>7 DEF Target, Announced, Fits, Stopped, Failed, Looping
<1> QED BY <1>1, <1>2, <1>3, <1>4, <1>5, <1>6, <1>7 DEF States, Stopped, Failed, Looping

\* Invocations that announce are not lost between q and r.
Keeps(q, r) ==
    \A j \in DOMAIN q : Announces(q[j]) => \E k \in DOMAIN r : Announces(r[k])

\* pbcc_ee_handle_effect_completion takes out only what was running.
LEMMA KeepsCompleted ==
    ASSUME invocations \in Seq(Invocations), NEW id
    PROVE  Keeps(invocations, Completed(id))
BY CompletedFacts DEF Keeps, Announces

\* Marking another kind of invocation leaves the announcements as they are.
LEMMA KeepsMark ==
    ASSUME invocations \in Seq(Invocations), NEW id, NEW s \in {"CREATED", "RUNNING"},
           s = "CREATED" \/ (Queued(id) /\ id[1] # "EMIT_STATUS")
    PROVE  Keeps(invocations, Mark(id, s))
<1> SUFFICES ASSUME NEW j \in DOMAIN invocations, Announces(invocations[j])
             PROVE  j \in DOMAIN Mark(id, s) /\ Announces(Mark(id, s)[j])
  BY DEF Keeps
<1>1. /\ j \in DOMAIN Mark(id, s)
      /\ Mark(id, s)[j].id = invocations[j].id
      /\ Mark(id, s)[j].status = IF j = Index(id) THEN s ELSE invocations[j].status
  BY MarkFacts
<1>2. ASSUME j = Index(id), s # "CREATED" PROVE FALSE
  <2>1. Queued(id) /\ id[1] # "EMIT_STATUS"
    BY <1>2
  <2>2. invocations[Index(id)].id = id
    BY <2>1 DEF Queued, Index
  <2> QED BY <1>2, <2>1, <2>2 DEF Announces
<1> QED BY <1>1, <1>2 DEF Announces

\* New invocations go behind those that are queued.
LEMMA KeepsConcat ==
    ASSUME NEW q \in Seq(Invocations), NEW new \in Seq(Invocations)
    PROVE  /\ Keeps(q, q \o new) /\ Keeps(new, q \o new)
<1> DEFINE r == q \o new
           n == Len(q)
           m == Len(new)
<1>1. n \in Nat /\ m \in Nat /\ DOMAIN q = 1..n /\ DOMAIN new = 1..m /\ DOMAIN r = 1..n + m
  OBVIOUS
<1>2. \A j \in 1..n : r[j] = q[j] /\ j \in 1..n + m
  BY <1>1
<1>3. \A j \in 1..m : r[n + j] = new[j] /\ n + j \in 1..n + m
  BY <1>1
<1> HIDE DEF r, n, m
<1>4. Keeps(q, r)
  BY <1>1, <1>2 DEF Keeps
<1>5. Keeps(new, r)
  BY <1>1, <1>3 DEF Keeps
<1> QED BY <1>4, <1>5 DEF r

\* A step keeps StatusInv that leaves state and status and loses no announcement.
LEMMA KeepsStatus ==
    ASSUME StatusInv, UNCHANGED <<state, status, told>>, Keeps(invocations, invocations')
    PROVE  StatusInv'
BY DEF StatusInv, Keeps

\* pbcc_ee_handle_event sets a status together with the EMIT_STATUS that will tell it.
LEMMA StatusHandled ==
    ASSUME TInv, StatusInv, NEW t \in Threads, HandleEvent(t)
    PROVE  StatusInv'
<1>1. PICK ev, target, effects, announced : Handled(t, ev, target, effects, announced)
  BY HandleEventFacts
<1>2. /\ ev \in Steps /\ ev.op = "event"
      /\ target = Target(state, ev.type, ev.ctx.channels = {})
      /\ effects = Effects(state, ev.type, target) /\ effects \in Seq(Types)
      /\ announced = Announced(state, ev.type, target)
      /\ told' = told
  BY <1>1 DEF Handled
<1>3. /\ invocations \in Seq(Invocations) /\ state \in States
      /\ ev.type \in EventTypes /\ (ev.ctx.channels = {}) \in BOOLEAN
  BY <1>2, StepFacts DEF TInv
<1>4. CASE target = "NONE"
  <2>1. UNCHANGED engine
    BY <1>1, <1>4 DEF Handled
  <2>2. UNCHANGED <<state, status, invocations>>
    BY <2>1 DEF engine
  <2> QED BY <1>2, <2>2 DEF StatusInv
<1>5. CASE target # "NONE"
  <2>1. /\ state' = target
        /\ status' = IF announced = "NONE" THEN status ELSE announced
        /\ \E q : /\ q = invocations \/ (\E type \in Requests : q = CancelByType(invocations, type))
                  /\ invocations' = q \o New(ev, effects)
    BY <1>1, <1>5 DEF Handled
  <2>2. Fits(state', status')
    <3>1. Fits(state, status)
      BY DEF StatusInv
    <3>2. Fits(target, IF announced = "NONE" THEN status ELSE announced)
      <4> DEFINE type == ev.type
                 empty == ev.ctx.channels = {}
      <4>1. /\ type \in EventTypes /\ empty \in BOOLEAN
            /\ target = Target(state, type, empty) /\ announced = Announced(state, type, target)
        BY <1>2, <1>3
      <4> HIDE DEF type, empty
      <4> QED BY <1>3, <1>5, <3>1, <4>1, TransitionFits
    <3> QED BY <2>1, <3>2
  <2>3. PICK q : /\ q = invocations \/ (\E type \in Requests : q = CancelByType(invocations, type))
                 /\ invocations' = q \o New(ev, effects)
    BY <2>1
  <2>4. q \in Seq(Invocations) /\ Keeps(invocations, q)
    <3>1. CASE q = invocations
      BY <1>3, <3>1 DEF Keeps
    <3>2. ASSUME NEW type \in Requests, q = CancelByType(invocations, type)
          PROVE  q \in Seq(Invocations) /\ Keeps(invocations, q)
      <4>1. type # "EMIT_STATUS"
        BY DEF Requests
      <4>2. /\ q \in Seq(Invocations)
            /\ \A j \in DOMAIN invocations : invocations[j].id[1] # type =>
                  \E k \in DOMAIN q : q[k] = invocations[j]
        BY <1>3, <3>2, CancelByTypeFacts
      <4> QED BY <4>1, <4>2 DEF Keeps, Announces
    <3> QED BY <2>3, <3>1, <3>2
  <2>5. /\ New(ev, effects) \in Seq(Invocations)
        /\ Len(New(ev, effects)) = Len(effects)
        /\ \A i \in 1 .. Len(effects) :
              /\ New(ev, effects)[i].status = "CREATED"
              /\ New(ev, effects)[i].id[1] = effects[i]
    BY <1>2, NewTyped
  <2>6. Keeps(q, invocations') /\ Keeps(New(ev, effects), invocations')
    BY <2>3, <2>4, <2>5, KeepsConcat
  <2>7. CASE announced = "NONE"
    <3>1. status' = status /\ Keeps(invocations, invocations')
      BY <2>1, <2>4, <2>6, <2>7 DEF Keeps
    <3> QED BY <1>2, <2>2, <3>1 DEF StatusInv, Keeps
  <2>8. CASE announced # "NONE"
    <3>3. Len(effects) \in Nat /\ 1 <= Len(effects) /\ effects[1] = "EMIT_STATUS"
      BY <1>2, <2>8, EffectsTyped
    <3>4. 1 \in DOMAIN New(ev, effects) /\ Announces(New(ev, effects)[1])
      BY <2>5, <3>3 DEF Announces
    <3>5. \E k \in DOMAIN invocations' : Announces(invocations'[k])
      BY <2>6, <3>4 DEF Keeps
    <3> QED BY <2>2, <3>5 DEF StatusInv, Announces
  <2> QED BY <2>7, <2>8
<1> QED BY <1>4, <1>5

\* All steps but two leave the status alone and lose none that will announce it.
LEMMA StatusStep == TInv /\ StatusInv /\ [Next]_vars => StatusInv'
<1> SUFFICES ASSUME TInv, StatusInv, [Next]_vars PROVE StatusInv'
  OBVIOUS
<1>1. invocations \in Seq(Invocations) /\ Keeps(invocations, invocations)
  BY DEF TInv, Keeps
<1>2. ASSUME UNCHANGED <<state, status, told>>, invocations' = invocations PROVE StatusInv'
  BY <1>2 DEF StatusInv
<1>3. ASSUME NEW t \in Threads, NEW types, Runs(t, types), "EMIT_STATUS" \notin types
      PROVE  Keeps(invocations, Mark(Head(todo[t]).id, "RUNNING"))
  BY <1>1, <1>3, KeepsMark DEF Runs
<1>4. ASSUME NEW t \in Threads, ThreadStep(t) PROVE StatusInv'
  <2>1. CASE HandleEvent(t)
    BY <2>1, StatusHandled
  <2>2. CASE Complete(t)
    BY <1>1, <2>2, KeepsCompleted, KeepsStatus DEF Complete, delivery
  <2>3. CASE NotRunnable(t)
    BY <1>2, <2>3 DEF NotRunnable, engine, delivery
  <2>4. CASE EmitStatus(t)
    BY <2>4 DEF EmitStatus, StatusInv
  <2>5. CASE EmitMessages(t)
    BY <1>3, <2>5, KeepsStatus DEF EmitMessages
  <2>6. CASE CancelEffect(t)
    BY <1>1, <1>3, <2>6, KeepsStatus DEF CancelEffect, delivery
  <2>7. CASE Cancel(t)
    BY <1>2, <2>7 DEF Cancel, engine, delivery
  <2>8. CASE CancelStarted(t)
    BY <1>2, <2>8 DEF CancelStarted, engine, delivery
  <2>9. CASE MakeHeartbeat(t)
    <3> DEFINE id == Head(todo[t]).id
    <3>1. UNCHANGED <<state, status, told>>
      BY <2>9 DEF MakeHeartbeat, delivery
    <3>2. CASE invocations' = invocations
      BY <1>2, <3>1, <3>2
    <3>3. CASE invocations' = [invocations EXCEPT ![Index(id)].heartbeat = FALSE,
                                                  ![Index(id)].status = "RUNNING"]
      <4>1. Queued(id) /\ id[1] \in Requests
        BY <2>9 DEF MakeHeartbeat, Runs
      <4>2. Index(id) \in DOMAIN invocations /\ invocations[Index(id)].id = id
        BY <4>1 DEF Queued, Index
      <4>3. ~ Announces(invocations[Index(id)])
        BY <4>1, <4>2 DEF Announces, Requests
      <4> HIDE DEF id
      <4>4. DOMAIN invocations' = DOMAIN invocations
            /\ \A j \in DOMAIN invocations : j # Index(id) => invocations'[j] = invocations[j]
        BY <1>1, <3>3
      <4>5. Keeps(invocations, invocations')
        BY <4>3, <4>4 DEF Keeps
      <4> QED BY <3>1, <4>5, KeepsStatus
    <3> QED BY <2>9, <3>2, <3>3 DEF MakeHeartbeat
  <2>10. CASE Heartbeat(t)
    <3>1. Keeps(invocations, Mark(Head(todo[t]).id, "CREATED"))
      BY <1>1, KeepsMark
    <3> QED BY <2>10, <3>1, KeepsStatus DEF Heartbeat, delivery
  <2>11. CASE MakeSubscribeRequest(t)
    <3>1. UNCHANGED <<state, status, told>>
      BY <2>11 DEF MakeSubscribeRequest, delivery
    <3>2. Runs(t, Requests) /\ "EMIT_STATUS" \notin Requests
      BY <2>11 DEF MakeSubscribeRequest, Requests
    <3>3. invocations' = invocations \/ invocations' = Mark(Head(todo[t]).id, "RUNNING")
      BY <2>11 DEF MakeSubscribeRequest
    <3> QED BY <1>1, <1>3, <3>1, <3>2, <3>3, KeepsStatus
  <2>12. CASE SubscribeError(t)
    BY <1>2, <2>12 DEF SubscribeError, engine, delivery
  <2>13. CASE SubscriptionChanged(t)
    BY <1>2, <2>13 DEF SubscriptionChanged, engine, delivery
  <2>14. CASE Leave(t)
    BY <1>2, <2>14 DEF Leave, engine, delivery
  <2> QED BY <1>4, <2>1, <2>2, <2>3, <2>4, <2>5, <2>6, <2>7, <2>8, <2>9, <2>10, <2>11, <2>12,
             <2>13, <2>14 DEF ThreadStep
<1>5. CASE OtherCallback
  <2>1. invocations' = invocations \/ invocations' = Completed(cancel_invocation)
    BY <1>5 DEF OtherCallback
  <2>2. Keeps(invocations, invocations')
    BY <1>1, <2>1, KeepsCompleted
  <2> QED BY <1>5, <2>2, KeepsStatus DEF OtherCallback, delivery
<1>6. CASE Requeued \/ Report
  BY <1>2, <1>6 DEF Requeued, Report, engine, delivery
<1>7. CASE Ends
  BY <1>2, <1>7 DEF Ends, EndOk, EndError, EndCancelled, engine, delivery
<1>8. CASE Call
  BY <1>2, <1>8 DEF Call, Subscribe, Unsubscribe, UnsubscribeAll, Disconnect, Reconnect, engine,
                    delivery
<1>9. CASE Publish
  BY <1>2, <1>9 DEF Publish, engine, delivery
<1>10. CASE UNCHANGED vars
  BY <1>2, <1>10 DEF vars, engine, delivery
<1> QED BY <1>4, <1>5, <1>6, <1>7, <1>8, <1>9, <1>10 DEF Next, WatcherStep

\* At rest the application was last told the status of the state the engine is in:
\* pbcc_subscribe_ee_emit_status_effect reads the status late, but every transition that sets
\* one queues an invocation of its own.
THEOREM StatusCorrect == Spec => []StatusIsCurrent
<1>1. Init => StatusInv
  BY DEF Init, StatusInv, Fits
<1>2. StatusInv => StatusIsCurrent
  <2> SUFFICES ASSUME StatusInv, invocations = <<>>
               PROVE  Fits(state, told)
    BY DEF StatusIsCurrent, Fits
  <2>1. told = status
    BY DEF StatusInv
  <2> QED BY <2>1 DEF StatusInv
<1>3. Spec => [](TInv /\ StatusInv)
  <2>1. Init => TInv /\ StatusInv
    BY <1>1, InitTyped
  <2>2. TInv /\ StatusInv /\ [Next]_vars => (TInv /\ StatusInv)'
    BY StepTyped, StatusStep
  <2> QED BY <2>1, <2>2, PTL DEF Spec
<1> QED BY <1>2, <1>3, PTL

-----------------------------------------------------------------------------
(* Leaves *)

\* Thread t is about to take one of the steps ops.
Is(t, ops) == todo[t] # <<>> /\ Head(todo[t]).op \in ops

\* What calls return to, and what must not come before a prepared leave is taken up
Below == {"error", "changed", "event"}
Critical == {"leave", "cancel", "heartbeat"}

Nested == \A t \in Threads : \A i \in DOMAIN todo[t] : i > 1 => todo[t][i].op \in Below

\* What is left of the leave in the application's call, and in the context
AppLeave == IF Is("app", {"leave"}) THEN Head(todo["app"]).channels ELSE {}
PbLeave == IF pb.trans = "LEAVE" /\ (pb.requeued \/ ~ CanStart) THEN pb.channels ELSE {}

\* A prepared leave is alone: the context is free, the watcher away, and the
\* application at nothing that starts or cancels a transaction.
Prepared ==
    pb.requeued => /\ CanStart /\ current_transaction = "LEAVE"
                   /\ todo["watcher"] = <<>> /\ ~ Is("app", Critical)

\* The application's heartbeat finds the context as make_subscribe_request_ left it.
HeartbeatFree ==
    Is("app", {"heartbeat"}) => todo["watcher"] = <<>> /\ CanStart /\ ~ pb.requeued

\* The callback comes right after the end of a transaction.
CallbackFirst ==
    Is("watcher", {"callback"}) =>
        /\ Len(todo["watcher"]) = 1 /\ pb.trans = "NONE" /\ CanStart /\ ~ Is("app", Critical)

LeaveInv ==
    /\ Nested /\ Prepared /\ HeartbeatFree /\ CallbackFirst
    /\ owed \subseteq leave \cup PbLeave \cup AppLeave

\* The windows in which no prepared leave is lost
LeaveWindows == Windows \cap {"cancel", "leave", "requeued"} = {}

\* The leave of a call is on top of its stack, so Leaving is of three parts.
LEMMA LeavingIs ==
    ASSUME TInv, Nested
    PROVE  Leaving = leave \cup PbLeave \cup AppLeave
<1> DEFINE q == todo["app"]
           J == {j \in DOMAIN q : q[j].op = "leave"}
           U == UNION {q[i].channels : i \in J}
<1>1. q \in Seq(Steps) /\ Len(q) \in Nat /\ DOMAIN q = 1..Len(q)
  BY DEF TInv, Threads
<1>2. ASSUME NEW j \in J PROVE j = 1
  <2>1. j > 1 => q[j].op \in Below
    BY DEF Nested, Threads
  <2> HIDE DEF q
  <2> QED BY <1>1, <2>1 DEF Below
<1>3. U = AppLeave
  <2>1. CASE Is("app", {"leave"})
    <3>1. 1 \in J
      BY <1>1, <2>1 DEF Is
    <3>2. J = {1}
      <4> HIDE DEF J
      <4> QED BY <1>2, <3>1
    <3>3. U = q[1].channels
      <4> HIDE DEF J, q
      <4> QED BY <3>2
    <3>4. AppLeave = q[1].channels
      BY <1>1, <2>1 DEF AppLeave, Is
    <3> QED BY <3>3, <3>4
  <2>2. CASE ~ Is("app", {"leave"})
    <3>1. 1 \notin J
      BY <1>1, <2>2 DEF Is
    <3>2. J = {}
      <4> HIDE DEF J
      <4> QED BY <1>2, <3>1
    <3>3. U = {}
      <4> HIDE DEF J, q
      <4> QED BY <3>2
    <3> QED BY <2>2, <3>3 DEF AppLeave
  <2> QED BY <2>1, <2>2
<1> HIDE DEF U
<1>4. Leaving = leave \cup PbLeave \cup U
  BY Zenon DEF Leaving, PbLeave, U
<1> QED BY <1>3, <1>4

\* A step's new calls: no leave and no callback, and nothing critical but at the top.
Mild(steps) ==
    \A i \in DOMAIN steps : /\ steps[i].op \notin {"leave", "callback"}
                            /\ i > 1 => steps[i].op \in Below

\* Calls with none or one step
LEMMA MildShort ==
    ASSUME NEW s \in Steps, s.op \notin {"leave", "callback"}
    PROVE  Mild(<<>>) /\ Mild(<<s>>)
BY DEF Mild

\* What thread t is at after a step that turned into steps
LEMMA ThenNested ==
    ASSUME TInv, Nested, NEW t \in Threads, todo[t] # <<>>,
           NEW steps \in Seq(Steps), Mild(steps), Then(t, steps)
    PROVE  /\ Nested' /\ \A u \in Threads \ {t} : todo'[u] = todo[u]
           /\ todo'[t] # <<>> /\ steps = <<>> => Head(todo'[t]).op \in Below
           /\ steps # <<>> => todo'[t] # <<>> /\ Head(todo'[t]) = Head(steps)
<1> DEFINE q == todo[t]
           r == todo'[t]
           m == Len(steps)
           n == Len(q)
<1>1. q \in Seq(Steps) /\ q # <<>>
  BY DEF TInv
<1>2. /\ r = steps \o Tail(q) /\ todo' \in [Threads -> Seq(Steps)]
      /\ \A u \in Threads \ {t} : todo'[u] = todo[u]
  BY ThenTyped DEF TInv
<1>3. n \in Nat /\ m \in Nat /\ n > 0 /\ DOMAIN q = 1..n /\ DOMAIN steps = 1..m
  BY <1>1
<1>4. r \in Seq(Steps) /\ Len(r) = m + (n - 1) /\ DOMAIN r = 1..m + (n - 1)
  BY <1>1, <1>2, <1>3
<1>5. \A i \in Nat : /\ 1 <= i /\ i <= m => r[i] = steps[i]
                     /\ m < i /\ i <= m + (n - 1) => r[i] = q[i - m + 1]
  BY <1>1, <1>2, <1>3
<1>6. \A i \in 1..n : i > 1 => q[i].op \in Below
  BY <1>3 DEF Nested
<1>7. \A i \in 1..m : i > 1 => steps[i].op \in Below
  BY <1>3 DEF Mild
<1> HIDE DEF q, r, m, n
<1>8. ASSUME NEW i \in 1..m + (n - 1), i > m \/ i > 1 PROVE r[i].op \in Below
  <2>1. CASE i <= m
    <3>1. i \in 1..m /\ i > 1 /\ r[i] = steps[i]
      BY <1>3, <1>5, <1>8, <2>1
    <3> QED BY <1>7, <3>1
  <2>2. CASE ~ (i <= m)
    <3>1. i \in Nat /\ m < i /\ i <= m + (n - 1) /\ i - m + 1 \in 1..n /\ i - m + 1 > 1
      BY <1>3, <2>2
    <3>2. r[i] = q[i - m + 1]
      BY <1>5, <3>1
    <3> QED BY <1>6, <3>1, <3>2
  <2> QED BY <2>1, <2>2
<1>9. Nested'
  <2> SUFFICES ASSUME NEW u \in Threads, NEW i \in DOMAIN todo'[u], i > 1
               PROVE  todo'[u][i].op \in Below
    BY DEF Nested
  <2>1. CASE u = t
    BY <1>4, <1>8, <2>1 DEF r
  <2>2. CASE u # t
    BY <1>2, <2>2 DEF Nested
  <2> QED BY <2>1, <2>2
<1>10. ASSUME r # <<>>, steps = <<>> PROVE Head(r).op \in Below
  <2>1. m = 0 /\ 1 \in 1..m + (n - 1) /\ Head(r) = r[1]
    BY <1>3, <1>4, <1>10 DEF m
  <2> QED BY <1>8, <2>1
<1>11. ASSUME steps # <<>> PROVE r # <<>> /\ Head(r) = Head(steps)
  BY <1>1, <1>2, <1>11 DEF q
<1> QED BY <1>2, <1>9, <1>10, <1>11 DEF r

\* While the callback is next the application stands still.
LEMMA AppStands ==
    ASSUME NEW op, At("app", op), Is("watcher", {"callback"})
    PROVE  FALSE
<1>1. Head(todo["watcher"]).op \in Windows \/ Blocked("watcher")
  BY DEF At, Is, Threads
<1>2. ~ Blocked("watcher")
  BY DEF Blocked, Monitor
<1>3. "callback" \notin Windows
  BY WindowsAssumption
<1> QED BY <1>1, <1>2, <1>3 DEF Is

\* When a thread may move, and what it must not find then
LEMMA Moves ==
    ASSUME TInv, LeaveInv, NEW t \in Threads, NEW op, At(t, op)
    PROVE  /\ todo[t] # <<>> /\ Head(todo[t]).op = op
           /\ t = "app" => ~ Is("watcher", {"callback"})
           /\ t = "watcher" => ~ pb.requeued /\ ~ Is("app", {"heartbeat"})
           /\ op \in Critical => ~ pb.requeued
<1>1. todo[t] # <<>> /\ Head(todo[t]).op = op
  BY DEF At
<1>2. t = "app" => ~ Is("watcher", {"callback"})
  BY AppStands
<1>3. t = "watcher" => ~ pb.requeued /\ ~ Is("app", {"heartbeat"})
  BY <1>1 DEF LeaveInv, Prepared, HeartbeatFree
<1>4. op \in Critical => ~ pb.requeued
  <2>1. CASE t = "app"
    BY <1>1, <2>1 DEF LeaveInv, Prepared, Is
  <2>2. CASE t = "watcher"
    BY <1>3, <2>2
  <2> QED BY <2>1, <2>2 DEF Threads
<1> QED BY <1>1, <1>2, <1>3, <1>4

\* A step of a thread that leaves leaves alone
LEMMA MildStep ==
    ASSUME TInv, LeaveInv, NEW t \in Threads, NEW op, At(t, op), op \notin {"leave", "callback"},
           NEW steps \in Seq(Steps), Mild(steps), Then(t, steps),
           UNCHANGED <<leave, owed>>, PbLeave \subseteq PbLeave',
           pb'.requeued \in BOOLEAN,
           pb'.requeued => /\ pb.requeued /\ pb'.state = pb.state /\ UNCHANGED current_transaction
                           /\ steps # <<>> => Head(steps).op \notin Critical,
           steps # <<>> /\ Head(steps).op = "heartbeat" /\ t = "app" =>
               todo["watcher"] = <<>> /\ CanStart'
    PROVE  LeaveInv'
<1>1. /\ todo[t] # <<>> /\ Head(todo[t]).op = op
      /\ t = "app" => ~ Is("watcher", {"callback"})
      /\ t = "watcher" => ~ pb.requeued /\ ~ Is("app", {"heartbeat"})
  BY Moves
<1>2. /\ Nested' /\ \A u \in Threads \ {t} : todo'[u] = todo[u]
      /\ todo'[t] # <<>> /\ steps = <<>> => Head(todo'[t]).op \in Below
      /\ steps # <<>> => todo'[t] # <<>> /\ Head(todo'[t]) = Head(steps)
  BY <1>1, ThenNested DEF LeaveInv
<1>3. todo'[t] # <<>> => Head(todo'[t]).op \notin {"leave", "callback"}
  <2>1. CASE steps = <<>>
    BY <1>2, <2>1 DEF Below
  <2>2. CASE steps # <<>>
    BY <1>2, <2>2 DEF Mild
  <2> QED BY <2>1, <2>2
<1>4. t = "app" => todo'["watcher"] = todo["watcher"]
  BY <1>2 DEF Threads
<1>5. t = "watcher" => todo'["app"] = todo["app"]
  BY <1>2 DEF Threads
<1>6. t = "app" \/ t = "watcher"
  BY DEF Threads
<1>7. Prepared'
  <2> SUFFICES ASSUME pb'.requeued
               PROVE  /\ CanStart' /\ current_transaction' = "LEAVE"
                      /\ todo'["watcher"] = <<>> /\ ~ Is("app", Critical)'
    BY DEF Prepared
  <2>1. t = "app" /\ pb'.state = pb.state /\ current_transaction' = current_transaction
    BY <1>1, <1>6
  <2>2. CanStart /\ current_transaction = "LEAVE" /\ todo["watcher"] = <<>>
    BY <2>1 DEF LeaveInv, Prepared
  <2>3. todo'["app"] # <<>> => Head(todo'["app"]).op \notin Critical
    BY <1>2, <2>1 DEF Below, Critical
  <2> QED BY <1>4, <2>1, <2>2, <2>3 DEF CanStart, Is
<1>8. HeartbeatFree'
  <2> SUFFICES ASSUME Is("app", {"heartbeat"})'
               PROVE  todo'["watcher"] = <<>> /\ CanStart' /\ ~ pb'.requeued
    BY DEF HeartbeatFree
  <2>1. t = "app"
    BY <1>1, <1>5, <1>6 DEF Is
  <2>2. Head(todo'["app"]).op = "heartbeat" /\ todo'["app"] # <<>>
    BY DEF Is
  <2>3. steps # <<>> /\ Head(steps).op = "heartbeat"
    BY <1>2, <2>1, <2>2 DEF Below
  <2> QED BY <1>4, <2>1, <2>3 DEF Critical
<1>9. CallbackFirst'
  <2>1. ~ Is("watcher", {"callback"})'
    BY <1>1, <1>3, <1>4, <1>6 DEF Is
  <2> QED BY <2>1 DEF CallbackFirst
<1>10. AppLeave' = AppLeave
  <2>1. CASE t = "app"
    BY <1>1, <1>3, <2>1 DEF AppLeave, Is
  <2>2. CASE t = "watcher"
    BY <1>5, <2>2 DEF AppLeave, Is
  <2> QED BY <1>6, <2>1, <2>2
<1>11. (owed \subseteq leave \cup PbLeave \cup AppLeave)'
  BY <1>10 DEF LeaveInv
<1> QED BY <1>2, <1>7, <1>8, <1>9, <1>11 DEF LeaveInv

\* pbcc_ee_handle_event leaves leaves alone ...
LEMMA HandleEventLeaves ==
    ASSUME TInv, LeaveInv, NEW t \in Threads, HandleEvent(t)
    PROVE  LeaveInv'
<1>1. PICK ev, target, effects, announced : Handled(t, ev, target, effects, announced)
  BY HandleEventFacts
<1>2. UNCHANGED <<leave, pb, owed, current_transaction>>
  BY <1>1 DEF Handled, flags
<1>3. At(t, "event")
  BY DEF HandleEvent
<1>4. New(ev, effects) \in Seq(Invocations) /\ invocations' \in Seq(Invocations)
  <2>1. TInv' /\ ev \in Steps /\ ev.op = "event" /\ effects \in Seq(Types)
    BY <1>1, HandleEventTyped DEF Handled
  <2> QED BY <2>1, NewTyped DEF TInv
<1>5. \A q \in Seq(Invocations) :
         /\ ProcessNext(q) \in Seq(Steps) /\ Mild(ProcessNext(q))
         /\ ProcessNext(q) # <<>> => Head(ProcessNext(q)).op = "exec"
  <2> SUFFICES ASSUME NEW q \in Seq(Invocations)
               PROVE  /\ ProcessNext(q) \in Seq(Steps) /\ Mild(ProcessNext(q))
                      /\ ProcessNext(q) # <<>> => Head(ProcessNext(q)).op = "exec"
    OBVIOUS
  <2>1. CASE q = <<>>
    BY <2>1, ProcessNextTyped DEF ProcessNext, Mild
  <2>2. CASE q # <<>>
    <3>1. q[1] \in Invocations
      BY <2>2
    <3>2. q[1].id \in Ids /\ "exec" \in IdOps
      BY <3>1 DEF Invocations, IdOps
    <3>3. With("exec", q[1].id) \in Steps /\ With("exec", q[1].id).op = "exec"
      BY <3>2, IdStep
    <3>4. ProcessNext(q) = <<With("exec", q[1].id)>>
      BY <2>2 DEF ProcessNext
    <3> QED BY <3>3, <3>4, MildShort, ProcessNextTyped
  <2> QED BY <2>1, <2>2
<1>6. PICK steps : /\ Then(t, steps) /\ steps \in Seq(Steps) /\ Mild(steps)
                   /\ steps # <<>> => Head(steps).op = "exec"
  <2>1. CASE target = "NONE"
    <3>1. Then(t, <<>>)
      BY <1>1, <2>1 DEF Handled, Return
    <3>2. <<>> \in Seq(Steps) /\ Mild(<<>>)
      BY DEF Mild
    <3> QED BY <3>1, <3>2
  <2>2. CASE target # "NONE"
    <3>1. PICK r : /\ Then(t, r)
                   /\ r = <<>> \/ r = ProcessNext(New(ev, effects)) \/ r = ProcessNext(invocations')
      BY <1>1, <2>2 DEF Handled
    <3>2. <<>> \in Seq(Steps) /\ Mild(<<>>)
      BY DEF Mild
    <3>3. r \in Seq(Steps) /\ Mild(r) /\ (r # <<>> => Head(r).op = "exec")
      BY <1>4, <1>5, <3>1, <3>2
    <3> QED BY <3>1, <3>3
  <2> QED BY <2>1, <2>2
<1>7. PbLeave' = PbLeave /\ pb'.requeued \in BOOLEAN
  BY <1>2, PbFacts DEF PbLeave, CanStart, TInv
<1> QED BY <1>2, <1>3, <1>6, <1>7, MildStep DEF Critical

\* Calls that a step turns into, as far as leaves are concerned
LEMMA MildCalls ==
    ASSUME NEW id \in Ids, NEW op \in IdOps
    PROVE  /\ <<>> \in Seq(Steps) /\ Mild(<<>>)
           /\ <<With(op, id)>> \in Seq(Steps) /\ Mild(<<With(op, id)>>)
           /\ <<With(op, id)>> # <<>> /\ Head(<<With(op, id)>>).op = op
<1>1. With(op, id) \in Steps /\ With(op, id).op = op /\ op \notin {"leave", "callback"}
  BY IdStep DEF IdOps
<1> QED BY <1>1, MildShort, Short

\* An event on top of the stack
LEMMA MildEvent ==
    ASSUME NEW e \in Steps, e.op = "event"
    PROVE  /\ <<e>> \in Seq(Steps) /\ Mild(<<e>>) /\ Head(<<e>>).op = "event"
BY MildShort, Short

\* ... as do the effects that start no transaction ...
LEMMA EffectLeaves ==
    ASSUME TInv, LeaveInv, NEW t \in Threads,
           \/ Complete(t) \/ NotRunnable(t) \/ EmitStatus(t) \/ EmitMessages(t)
           \/ CancelEffect(t) \/ CancelStarted(t)
    PROVE  LeaveInv'
<1> DEFINE h == Head(todo[t])
<1>1. todo \in [Threads -> Seq(Steps)] /\ invocations \in Seq(Invocations)
      /\ pb \in PbOf(pb.channels) /\ pb.requeued \in BOOLEAN
  BY PbFacts DEF TInv
<1>2. \A op \in IdOps : At(t, op) => h.id \in Ids
  BY <1>1, AtFacts, StepFacts
<1>3. /\ "exec" \in IdOps /\ "done" \in IdOps /\ "cancel" \in IdOps
      /\ "cancelled" \in IdOps /\ "heartbeat" \in IdOps
  BY DEF IdOps
<1>4. <<>> \in Seq(Steps) /\ Mild(<<>>)
  BY DEF Mild
<1>5. ASSUME pb' = pb PROVE PbLeave' = PbLeave
  BY <1>5 DEF PbLeave, CanStart
<1>6. CASE Complete(t)
  <2>1. At(t, "done") /\ UNCHANGED <<leave, owed, pb, current_transaction>>
    BY <1>6 DEF Complete, flags
  <2>2. invocations' \in Seq(Invocations)
    BY <1>6, EffectsTypedStep DEF TInv
  <2>3. PICK r : Then(t, r) /\ (r = <<>> \/ r = ProcessNext(invocations'))
    BY <1>6 DEF Complete
  <2>4. /\ r \in Seq(Steps) /\ Mild(r) /\ (r # <<>> => Head(r).op = "exec")
    <3>1. CASE r = <<>>
      BY <1>4, <3>1
    <3>2. CASE r # <<>>
      <4>1. r = ProcessNext(invocations') /\ invocations' # <<>>
        BY <2>3, <3>2 DEF ProcessNext
      <4>2. invocations'[1] \in Invocations
        BY <2>2, <4>1
      <4>3. invocations'[1].id \in Ids
        BY <4>2 DEF Invocations
      <4>4. r = <<With("exec", invocations'[1].id)>>
        BY <4>1 DEF ProcessNext
      <4> QED BY <1>3, <4>3, <4>4, MildCalls
    <3> QED BY <3>1, <3>2
  <2> QED BY <1>1, <1>5, <2>1, <2>3, <2>4, MildStep DEF Critical
<1>7. CASE NotRunnable(t)
  <2>1. At(t, "exec") /\ UNCHANGED <<leave, owed, pb, current_transaction>> /\ Then(t, <<>>)
    BY <1>7 DEF NotRunnable, flags, Return
  <2> QED BY <1>1, <1>4, <1>5, <2>1, MildStep
<1>8. CASE EmitStatus(t)
  <2>1. At(t, "exec") /\ UNCHANGED <<leave, owed, pb, current_transaction>>
        /\ Then(t, <<With("done", h.id)>>)
    BY <1>8 DEF EmitStatus, Runs, flags
  <2>2. h.id \in Ids
    BY <1>2, <1>3, <2>1
  <2> HIDE DEF h
  <2> QED BY <1>1, <1>3, <1>5, <2>1, <2>2, MildCalls, MildStep DEF Critical
<1>9. CASE EmitMessages(t)
  <2>1. At(t, "exec") /\ UNCHANGED <<leave, owed, current_transaction>>
        /\ Then(t, <<With("done", h.id)>>)
    BY <1>9 DEF EmitMessages, Runs, flags
  <2>2. h.id \in Ids
    BY <1>2, <1>3, <2>1
  <2>3. /\ pb'.state = pb.state /\ pb'.trans = pb.trans /\ pb'.requeued = pb.requeued
        /\ pb'.channels = pb.channels
    BY <1>1, <1>9 DEF EmitMessages, PbOf
  <2>4. PbLeave' = PbLeave
    BY <2>3 DEF PbLeave, CanStart
  <2> DEFINE steps == <<With("done", h.id)>>
  <2>5. steps \in Seq(Steps) /\ Mild(steps) /\ steps # <<>> /\ Head(steps).op = "done"
    <3> HIDE DEF h
    <3> QED BY <1>3, <2>2, MildCalls
  <2>6. Then(t, steps)
    BY <2>1
  <2> HIDE DEF steps, h
  <2>7. todo[t] # <<>>
    BY <2>1 DEF At
  <2> QED BY <1>1, <2>1, <2>3, <2>4, <2>5, <2>6, MildStep DEF Critical
<1>10. CASE CancelEffect(t)
  <2>1. At(t, "exec") /\ UNCHANGED <<leave, owed, pb, current_transaction>>
    BY <1>10 DEF CancelEffect, Runs, flags
  <2>2. h.id \in Ids
    BY <1>2, <1>3, <2>1
  <2>3. \/ Then(t, <<>>)
        \/ current_transaction = "NONE" /\ Then(t, <<With("cancel", h.id)>>)
    BY <1>10 DEF CancelEffect, Return
  <2> HIDE DEF h
  <2>4. CASE Then(t, <<>>)
    BY <1>1, <1>4, <1>5, <2>1, <2>4, MildStep
  <2>5. CASE current_transaction = "NONE" /\ Then(t, <<With("cancel", h.id)>>)
    <3>1. ~ pb.requeued
      BY <2>5 DEF LeaveInv, Prepared
    <3> QED BY <1>1, <1>3, <1>5, <2>1, <2>2, <2>5, <3>1, MildCalls, MildStep
  <2> QED BY <2>3, <2>4, <2>5
<1>11. CASE CancelStarted(t)
  <2>1. At(t, "cancelled") /\ UNCHANGED <<leave, owed, pb, current_transaction>> /\ Then(t, <<>>)
    BY <1>11 DEF CancelStarted, Return
  <2> QED BY <1>1, <1>4, <1>5, <2>1, MildStep
<1> QED BY <1>6, <1>7, <1>8, <1>9, <1>10, <1>11

\* A call with another to return to
LEMMA TwoCalls ==
    ASSUME NEW S, NEW d \in S, NEW e \in S
    PROVE  LET r == <<d>> \o <<e>> IN
           /\ r \in Seq(S) /\ r # <<>> /\ Head(r) = d
           /\ \A i \in DOMAIN r : (i = 1 /\ r[i] = d) \/ (i > 1 /\ r[i] = e)
<1> DEFINE a == <<d>> 
           b == <<e>>
           r == a \o b
           m == Len(a)
           n == Len(b)
<1>1. a \in Seq(S) /\ b \in Seq(S) /\ m = 1 /\ n = 1 /\ a[1] = d /\ b[1] = e
  OBVIOUS
<1>2. r \in Seq(S) /\ Len(r) = m + n /\ \A i \in 1..m + n : r[i] = IF i <= m THEN a[i] ELSE b[i - m]
  <2>1. a \in Seq(S) /\ b \in Seq(S)
    OBVIOUS
  <2> HIDE DEF a, b
  <2> QED BY <2>1, ConcatProperties
<1>3. DOMAIN r = 1..m + n
  <2> HIDE DEF a, b, r, m, n
  <2> QED BY <1>2
<1> HIDE DEF a, b, r, m, n
<1>4. ASSUME NEW i \in 1..m + n PROVE (i = 1 /\ r[i] = d) \/ (i > 1 /\ r[i] = e)
  <2>1. CASE i <= m
    <3>1. i = 1 /\ r[i] = a[i]
      BY <1>1, <1>2, <2>1
    <3> QED BY <1>1, <3>1
  <2>2. CASE ~ (i <= m)
    <3>1. i > 1 /\ i - m = 1 /\ r[i] = b[i - m]
      BY <1>1, <1>2, <2>2
    <3> QED BY <1>1, <3>1
  <2> QED BY <2>1, <2>2
<1>5. 1 \in 1..m + n /\ r[1] = d
  <2>1. 1 \in 1..m + n
    BY <1>1
  <2> QED BY <1>4, <2>1
<1>6. r # <<>> /\ Head(r) = d
  BY <1>2, <1>3, <1>5
<1>7. \A i \in DOMAIN r : (i = 1 /\ r[i] = d) \/ (i > 1 /\ r[i] = e)
  BY <1>3, <1>4
<1> QED BY <1>2, <1>6, <1>7 DEF r, a, b

\* ... and those that do: they find the context free, and no leave prepared.
LEMMA RequestLeaves ==
    ASSUME TInv, LeaveInv, NEW t \in Threads,
           \/ Cancel(t) \/ MakeHeartbeat(t) \/ Heartbeat(t) \/ MakeSubscribeRequest(t)
           \/ SubscribeError(t) \/ SubscriptionChanged(t)
    PROVE  LeaveInv'
<1> DEFINE h == Head(todo[t])
<1>1. todo \in [Threads -> Seq(Steps)] /\ invocations \in Seq(Invocations)
      /\ pb \in PbOf(pb.channels) /\ pb.requeued \in BOOLEAN
      /\ pb.state \in {"IDLE", "KEEP_ALIVE_IDLE", "BUSY", "WAIT_CANCEL"}
  BY PbFacts DEF TInv
<1>2. \A op \in IdOps : At(t, op) => h.id \in Ids
  BY <1>1, AtFacts, StepFacts
<1>3. /\ "exec" \in IdOps /\ "done" \in IdOps /\ "cancel" \in IdOps
      /\ "cancelled" \in IdOps /\ "heartbeat" \in IdOps
  BY DEF IdOps
<1>4. <<>> \in Seq(Steps) /\ Mild(<<>>)
  BY DEF Mild
<1>5. ASSUME pb' = pb PROVE PbLeave' = PbLeave
  BY <1>5 DEF PbLeave, CanStart
<1>6. /\ t = "watcher" => ~ pb.requeued
      /\ \A op \in Critical : At(t, op) => ~ pb.requeued
  <2>1. ASSUME NEW op, At(t, op) PROVE /\ t = "watcher" => ~ pb.requeued
                                       /\ op \in Critical => ~ pb.requeued
    BY <2>1, Moves
  <2>2. \E op : At(t, op)
    BY DEF Cancel, MakeHeartbeat, Heartbeat, MakeSubscribeRequest, SubscribeError,
           SubscriptionChanged, Runs
  <2> QED BY <2>1, <2>2
<1>7. current_transaction = "NONE" => ~ pb.requeued
  BY DEF LeaveInv, Prepared
<1>8. CanStart /\ ~ pb.requeued => PbLeave = {}
  BY DEF PbLeave
<1> HIDE DEF h
<1>9. CASE Cancel(t)
  <2>1. /\ At(t, "cancel") /\ UNCHANGED <<leave, owed, current_transaction>> /\ pb' = Cancelled
        /\ Then(t, <<With(IF pb.state = "IDLE" THEN "done" ELSE "cancelled", h.id)>>)
    BY <1>9 DEF Cancel, flags, h
  <2>2. ~ pb.requeued
    BY <1>6, <2>1 DEF Critical
  <2>3. PbLeave \subseteq PbLeave' /\ ~ pb'.requeued /\ pb'.requeued \in BOOLEAN
    <3>1. ~ pb'.requeued /\ pb'.channels = pb.channels
          /\ (pb.state \in {"BUSY", "WAIT_CANCEL"} =>
                 pb'.state = "WAIT_CANCEL" /\ pb'.trans = pb.trans)
      <4>1. /\ ~ Cancelled.requeued /\ Cancelled.channels = pb.channels
            /\ pb.state \in {"BUSY", "WAIT_CANCEL"} =>
                  Cancelled.state = "WAIT_CANCEL" /\ Cancelled.trans = pb.trans
        BY <1>1, PbCancelled
      <4>2. pb' = Cancelled
        BY <2>1
      <4> QED BY <4>1, <4>2
    <3>2. Cancelled \in PbOf(pb.channels) /\ pb' = Cancelled
      BY <1>1, <2>1, PbCancelled
    <3>3. pb'.requeued \in BOOLEAN
      BY <3>2, PbFacts
    <3>4. PbLeave \subseteq PbLeave'
      <4>1. CASE CanStart
        BY <1>8, <2>2, <4>1
      <4>2. CASE ~ CanStart
        <5>1. pb.state \in {"BUSY", "WAIT_CANCEL"}
          BY <1>1, <4>2 DEF CanStart
        <5>2. ~ CanStart' /\ pb'.trans = pb.trans /\ pb'.channels = pb.channels
          BY <3>1, <5>1 DEF CanStart
        <5> QED BY <5>2 DEF PbLeave
      <4> QED BY <4>1, <4>2
    <3> QED BY <3>1, <3>3, <3>4
  <2> DEFINE op == IF pb.state = "IDLE" THEN "done" ELSE "cancelled"
  <2>4. op \in IdOps /\ op # "heartbeat" /\ h.id \in Ids
    BY <1>2, <1>3, <2>1
  <2>5. Then(t, <<With(op, h.id)>>)
    BY <2>1
  <2> HIDE DEF op
  <2> QED BY <2>1, <2>3, <2>4, <2>5, MildCalls, MildStep
<1>10. CASE MakeHeartbeat(t)
  <2>1. At(t, "exec") /\ UNCHANGED <<leave, owed, pb>> /\ Monitor(t)
    BY <1>10 DEF MakeHeartbeat, Runs
  <2>2. h.id \in Ids
    BY <1>2, <1>3, <2>1
  <2>3. \/ Then(t, <<>>) /\ UNCHANGED current_transaction
        \/ current_transaction = "NONE" /\ CanStart /\ Then(t, <<With("heartbeat", h.id)>>)
    BY <1>10 DEF MakeHeartbeat, Return, h
  <2>4. CASE Then(t, <<>>) /\ UNCHANGED current_transaction
    BY <1>1, <1>4, <1>5, <2>1, <2>4, MildStep
  <2>5. CASE current_transaction = "NONE" /\ CanStart /\ Then(t, <<With("heartbeat", h.id)>>)
    <3>1. ~ pb.requeued /\ CanStart'
      BY <1>7, <2>1, <2>5 DEF CanStart
    <3>2. t = "app" => todo["watcher"] = <<>>
      BY <2>1 DEF Monitor
    <3> QED BY <1>1, <1>3, <1>5, <2>1, <2>2, <2>5, <3>1, <3>2, MildCalls, MildStep
  <2> QED BY <2>3, <2>4, <2>5
<1>11. CASE Heartbeat(t)
  <2>1. At(t, "heartbeat") /\ UNCHANGED <<leave, owed, current_transaction>> /\ Then(t, <<>>)
    BY <1>11 DEF Heartbeat, flags, Return
  <2>2. ~ pb.requeued
    BY <1>6, <2>1 DEF Critical
  <2>3. PICK channels : \/ pb' = pb
                        \/ CanStart /\ pb' = Started("HEARTBEAT", channels)
    BY <1>11 DEF Heartbeat
  <2>4. PbLeave \subseteq PbLeave' /\ pb'.requeued \in BOOLEAN /\ ~ pb'.requeued
    <3>1. CASE pb' = pb
      BY <1>1, <1>5, <2>2, <3>1
    <3>2. CASE CanStart /\ pb' = Started("HEARTBEAT", channels)
      <4>1. "HEARTBEAT" \in Transactions
        BY DEF Transactions
      <4>2. /\ Started("HEARTBEAT", channels) \in PbOf(channels)
            /\ ~ Started("HEARTBEAT", channels).requeued
        BY <1>1, <4>1, PbStarted
      <4>3. pb'.requeued \in BOOLEAN /\ ~ pb'.requeued
        BY <3>2, <4>2, PbFacts
      <4> QED BY <1>8, <2>2, <3>2, <4>3
    <3> QED BY <2>3, <3>1, <3>2
  <2> QED BY <1>4, <2>1, <2>4, MildStep
<1>12. CASE MakeSubscribeRequest(t)
  <2>1. At(t, "exec") /\ UNCHANGED <<leave, owed, current_transaction>>
        /\ h.id[1] \in Requests
    BY <1>12 DEF MakeSubscribeRequest, Runs, flags, h
  <2>2. h.id \in Ids
    BY <1>2, <1>3, <2>1
  <2> DEFINE inv == Invocation(h.id)
             cursor == inv.ctx.cursor
             channels == inv.ctx.channels
             trans == h.id[1]
  <2>3. \/ Then(t, <<>>) /\ (pb' = pb \/ pb' = [pb EXCEPT !.timetoken = cursor])
        \/ /\ current_transaction = "NONE" /\ CanStart
           /\ \/ pb' = [pb EXCEPT !.timetoken = cursor]
              \/ pb' = [Started(trans, channels) EXCEPT !.timetoken = cursor, !.cursor = cursor]
           /\ \/ Then(t, <<With("done", h.id)>> \o <<Step("error")>>)
              \/ Then(t, <<With("done", h.id)>> \o <<>>)
    BY <1>12 DEF MakeSubscribeRequest, Return, h
  <2> HIDE DEF inv, cursor, channels
  <2>4. ASSUME pb' = [pb EXCEPT !.timetoken = cursor]
        PROVE  pb'.state = pb.state /\ pb'.requeued = pb.requeued /\ PbLeave' = PbLeave
    <3>1. /\ pb'.state = pb.state /\ pb'.trans = pb.trans /\ pb'.requeued = pb.requeued
          /\ pb'.channels = pb.channels
      BY <1>1, <2>4 DEF PbOf
    <3> QED BY <3>1 DEF PbLeave, CanStart
  <2>5. CASE Then(t, <<>>) /\ (pb' = pb \/ pb' = [pb EXCEPT !.timetoken = cursor])
    <3>1. pb'.state = pb.state /\ pb'.requeued = pb.requeued /\ PbLeave' = PbLeave
      BY <1>5, <2>4, <2>5
    <3> QED BY <1>1, <1>4, <2>1, <2>5, <3>1, MildStep
  <2>6. CASE /\ current_transaction = "NONE" /\ CanStart
             /\ \/ pb' = [pb EXCEPT !.timetoken = cursor]
                \/ pb' = [Started(trans, channels) EXCEPT !.timetoken = cursor, !.cursor = cursor]
             /\ \/ Then(t, <<With("done", h.id)>> \o <<Step("error")>>)
                \/ Then(t, <<With("done", h.id)>> \o <<>>)
    <3>1. ~ pb.requeued /\ PbLeave = {}
      BY <1>7, <1>8, <2>6
    <3>2. ~ pb'.requeued /\ pb'.requeued \in BOOLEAN
      <4>1. CASE pb' = [pb EXCEPT !.timetoken = cursor]
        BY <1>1, <2>4, <3>1, <4>1
      <4>2. CASE pb' = [Started(trans, channels) EXCEPT !.timetoken = cursor, !.cursor = cursor]
        <5>1. trans \in Transactions
          BY <2>1 DEF Transactions
        <5> DEFINE started == Started(trans, channels)
        <5> HIDE DEF trans
        <5>2. started \in PbOf(channels) /\ ~ started.requeued /\ started.requeued \in BOOLEAN
          BY <1>1, <5>1, PbStarted, PbFacts
        <5>3. pb' = [started EXCEPT !.timetoken = cursor, !.cursor = cursor]
          BY <4>2
        <5> HIDE DEF started
        <5> QED BY <5>2, <5>3 DEF PbOf
      <4> QED BY <2>6, <4>1, <4>2
    <3>3. With("done", h.id) \in Steps /\ With("done", h.id).op = "done"
      BY <1>3, <2>2, IdStep
    <3>4. Step("error") \in Steps /\ Step("error").op = "error"
      BY DEF Step, Steps, ErrorSteps
    <3> DEFINE d == With("done", h.id)
               e == Step("error")
    <3>5. d \in Steps /\ d.op = "done" /\ e \in Steps /\ e.op = "error"
      BY <3>3, <3>4
    <3>6. \/ Then(t, <<d>> \o <<e>>) \/ Then(t, <<d>> \o <<>>)
      BY <2>6
    <3> HIDE DEF d, e
    <3>7. LET r == <<d>> \o <<e>> IN
          /\ r \in Seq(Steps) /\ r # <<>> /\ Head(r) = d
          /\ \A i \in DOMAIN r : (i = 1 /\ r[i] = d) \/ (i > 1 /\ r[i] = e)
      BY <3>5, TwoCalls
    <3>8. <<d>> \o <<>> = <<d>> /\ <<d>> \in Seq(Steps) /\ <<d>> # <<>> /\ Head(<<d>>) = d
      BY <3>5
    <3>9. Mild(<<d>> \o <<e>>) /\ Mild(<<d>>)
      <4>1. Mild(<<d>>)
        BY <3>5, MildShort
      <4> DEFINE r == <<d>> \o <<e>>
      <4>2. \A i \in DOMAIN r : (i = 1 /\ r[i] = d) \/ (i > 1 /\ r[i] = e)
        BY <3>7
      <4> HIDE DEF r
      <4>4. Mild(r)
        BY <3>5, <4>2 DEF Mild, Below
      <4> QED BY <4>1, <4>4 DEF r
    <3>10. PICK steps : /\ Then(t, steps) /\ steps \in Seq(Steps) /\ Mild(steps)
                        /\ steps # <<>> /\ Head(steps) = d
      BY <3>6, <3>7, <3>8, <3>9
    <3>11. steps \in Seq(Steps) /\ Mild(steps) /\ Head(steps).op = "done"
      BY <3>5, <3>10
    <3>12. PbLeave \subseteq PbLeave' /\ pb'.requeued \in BOOLEAN /\ ~ pb'.requeued
      BY <3>1, <3>2
    <3> QED BY <2>1, <3>10, <3>11, <3>12, MildStep
  <2> QED BY <2>3, <2>5, <2>6
<1>13. CASE SubscribeError(t)
  <2>1. At(t, "error") /\ UNCHANGED <<leave, owed, pb, current_transaction>>
    BY <1>13 DEF SubscribeError, flags
  <2>2. \A type \in EventTypes : CopyEvent(type) \in Steps /\ CopyEvent(type).op = "event"
    BY CopyStep DEF CopyEvent, Event
  <2>3. "HANDSHAKE_FAILURE" \in EventTypes /\ "RECEIVE_FAILURE" \in EventTypes
    BY DEF EventTypes
  <2>4. PICK steps : /\ Then(t, steps)
                     /\ steps = <<>> \/ \E type \in EventTypes : steps = <<CopyEvent(type)>>
    BY <1>13, <2>3 DEF SubscribeError
  <2>5. steps \in Seq(Steps) /\ Mild(steps) /\ (steps # <<>> => Head(steps).op = "event")
    BY <1>4, <2>2, <2>4, MildEvent
  <2> QED BY <1>1, <1>5, <2>1, <2>4, <2>5, MildStep DEF Critical
<1>14. CASE SubscriptionChanged(t)
  <2>1. At(t, "changed") /\ UNCHANGED <<leave, owed, pb, current_transaction>>
    BY <1>14 DEF SubscriptionChanged, flags
  <2>2. todo[t] # <<>> /\ h \in Steps /\ h.op = "changed"
    BY <1>1, <2>1, AtFacts DEF h
  <2>3. h.cursor \in Tokens /\ h.heartbeat \in BOOLEAN
    BY <2>2, StepFacts
  <2>4. /\ subscribables \in SUBSET Channels /\ context.cursor \in Tokens
        /\ "SUBSCRIPTION_CHANGED" \in EventTypes /\ "SUBSCRIPTION_RESTORED" \in EventTypes
    BY DEF TInv, Contexts, EventTypes
  <2> DEFINE a == Event("SUBSCRIPTION_CHANGED", subscribables, context.cursor, h.heartbeat)
             b == Event("SUBSCRIPTION_RESTORED", subscribables, h.cursor, h.heartbeat)
  <2>5. a \in Steps /\ a.op = "event" /\ b \in Steps /\ b.op = "event"
    <3>1. a.op = "event" /\ b.op = "event"
      BY DEF Event
    <3>2. a \in Steps /\ b \in Steps
      BY <2>3, <2>4, EventStep
    <3> QED BY <3>1, <3>2
  <2>6. PICK e \in {a, b} : Then(t, <<e>>)
    BY <1>14 DEF SubscriptionChanged, h
  <2> HIDE DEF a, b
  <2>7. <<e>> \in Seq(Steps) /\ Mild(<<e>>) /\ Head(<<e>>).op = "event"
    BY <2>5, <2>6, MildEvent
  <2> QED BY <1>1, <1>5, <2>1, <2>6, <2>7, MildStep DEF Critical
<1> QED BY <1>9, <1>10, <1>11, <1>12, <1>13, <1>14

\* The leave itself: sent, or kept for the callback
LEMMA LeaveLeaves ==
    ASSUME TInv, LeaveInv, NEW t \in Threads, Leave(t)
    PROVE  LeaveInv'
<1> DEFINE h == Head(todo[t])
           channels == h.channels
<1>1. /\ At(t, "leave") /\ Then(t, <<>>) /\ owed' = owed
      /\ \/ /\ CanStart /\ current_transaction' = "LEAVE" /\ pb' = Started("LEAVE", channels)
            /\ leave' = leave
         \/ /\ ~ CanStart /\ leave' = leave \cup channels
            /\ pb' = pb /\ current_transaction' = current_transaction
  BY DEF Leave, Return
<1>2. /\ todo[t] # <<>> /\ h.op = "leave" /\ ~ pb.requeued
      /\ t = "app" => ~ Is("watcher", {"callback"})
      /\ t = "watcher" => ~ Is("app", {"heartbeat"})
  BY <1>1, Moves DEF Critical
<1>3. <<>> \in Seq(Steps) /\ Mild(<<>>)
  BY DEF Mild
<1>4. /\ Nested' /\ \A u \in Threads \ {t} : todo'[u] = todo[u]
      /\ todo'[t] # <<>> => Head(todo'[t]).op \in Below
  BY <1>1, <1>2, <1>3, ThenNested DEF LeaveInv
<1> HIDE DEF h
<1>5. /\ ~ pb'.requeued
      /\ pb' = Started("LEAVE", channels) =>
            pb'.state = "BUSY" /\ pb'.trans = "LEAVE" /\ pb'.channels = channels
  <2>1. "LEAVE" \in Transactions /\ pb \in PbOf(pb.channels)
    BY DEF TInv, Transactions
  <2> DEFINE new == channels
  <2> HIDE DEF new
  <2>2. /\ ~ Started("LEAVE", new).requeued
        /\ Started("LEAVE", new).state = "BUSY" /\ Started("LEAVE", new).trans = "LEAVE"
        /\ Started("LEAVE", new).channels = new
    BY <2>1, PbStarted
  <2>3. pb' = Started("LEAVE", channels) \/ pb' = pb
    BY <1>1
  <2> HIDE DEF channels
  <2>4. ~ pb'.requeued
    BY <1>2, <2>2, <2>3 DEF new
  <2> QED BY <2>2, <2>4 DEF new
<1>6. Prepared'
  BY <1>5 DEF Prepared
<1>7. ~ Is("app", {"heartbeat"})'
  <2>1. CASE t = "app"
    BY <1>4, <2>1 DEF Is, Below
  <2>2. CASE t = "watcher"
    <3>1. todo'["app"] = todo["app"]
      BY <1>4, <2>2 DEF Threads
    <3> QED BY <1>2, <2>2, <3>1 DEF Is
  <2> QED BY <2>1, <2>2 DEF Threads
<1>8. ~ Is("watcher", {"callback"})'
  <2>1. CASE t = "watcher"
    BY <1>4, <2>1 DEF Is, Below
  <2>2. CASE t = "app"
    <3>1. todo'["watcher"] = todo["watcher"]
      BY <1>4, <2>2 DEF Threads
    <3> QED BY <1>2, <2>2, <3>1 DEF Is
  <2> QED BY <2>1, <2>2 DEF Threads
<1>9. AppLeave \subseteq channels \cup AppLeave'
  <2>1. CASE t = "app"
    BY <1>2, <2>1 DEF AppLeave, Is, h
  <2>2. CASE t = "watcher"
    <3>1. todo'["app"] = todo["app"]
      BY <1>4, <2>2 DEF Threads
    <3> QED BY <3>1 DEF AppLeave, Is
  <2> QED BY <2>1, <2>2 DEF Threads
<1>10. leave \cup PbLeave \cup channels \subseteq leave' \cup PbLeave'
  <2>1. CASE CanStart /\ pb' = Started("LEAVE", channels) /\ leave' = leave
    <3>1. PbLeave = {}
      BY <1>2, <2>1 DEF PbLeave
    <3>2. pb'.state = "BUSY" /\ pb'.trans = "LEAVE" /\ pb'.channels = channels
      BY <1>5, <2>1
    <3>3. PbLeave' = channels
      BY <3>2 DEF PbLeave, CanStart
    <3> QED BY <2>1, <3>1, <3>3
  <2>2. CASE ~ CanStart /\ leave' = leave \cup channels /\ pb' = pb
    <3>1. PbLeave' = PbLeave
      BY <2>2 DEF PbLeave, CanStart
    <3> QED BY <2>2, <3>1
  <2> QED BY <1>1, <2>1, <2>2
<1>11. (owed \subseteq leave \cup PbLeave \cup AppLeave)'
  BY <1>1, <1>9, <1>10 DEF LeaveInv
<1> QED BY <1>4, <1>6, <1>7, <1>8, <1>11 DEF LeaveInv, HeartbeatFree, CallbackFirst

\* The watcher has at most one step left, and the application does not move.
LEMMA WatcherMoves ==
    ASSUME Nested, NEW s, todo'["watcher"] \in {<<>>, <<s>>}, todo'["app"] = todo["app"]
    PROVE  /\ Nested' /\ AppLeave' = AppLeave
           /\ Is("app", {"heartbeat"})' => Is("app", {"heartbeat"})
           /\ Is("app", Critical)' => Is("app", Critical)
<1>1. ASSUME NEW u \in Threads, NEW i \in DOMAIN todo'[u], i > 1
      PROVE  todo'[u][i].op \in Below
  <2>1. CASE u = "app"
    BY <1>1, <2>1 DEF Nested
  <2>2. CASE u = "watcher"
    <3>1. i \notin DOMAIN <<>> /\ i \notin DOMAIN <<s>>
      BY <1>1
    <3> QED BY <1>1, <2>2, <3>1
  <2> QED BY <2>1, <2>2 DEF Threads
<1>2. Nested'
  BY <1>1 DEF Nested
<1> QED BY <1>2 DEF AppLeave, Is

\* A transaction ends, and the watcher is told of it: a leave that was in
\* progress was sent.
LEMMA Ended ==
    ASSUME TInv, LeaveInv, LeaveWindows, ~ CanStart, NEW s, Enters(<<s>>), CanStart',
           pb'.trans = "NONE", pb'.requeued = pb.requeued, UNCHANGED leave,
           owed' = IF pb.trans = "LEAVE" THEN owed \ pb.channels ELSE owed
    PROVE  LeaveInv'
<1>1. /\ todo["watcher"] = <<>> /\ todo'["watcher"] = <<s>> /\ todo'["app"] = todo["app"]
      /\ todo["app"] # <<>> => Head(todo["app"]).op \in Windows
  BY DEF Enters, TInv, Threads
<1>2. ~ pb.requeued /\ ~ Is("app", {"heartbeat"})
  BY DEF LeaveInv, Prepared, HeartbeatFree
<1>3. ~ Is("app", Critical)
  BY <1>1, <1>2 DEF Is, Critical, LeaveWindows
<1>4. /\ Nested' /\ AppLeave' = AppLeave
      /\ Is("app", {"heartbeat"})' => Is("app", {"heartbeat"})
      /\ Is("app", Critical)' => Is("app", Critical)
  BY <1>1, WatcherMoves DEF LeaveInv
<1>5. Prepared' /\ HeartbeatFree'
  BY <1>2, <1>4 DEF Prepared, HeartbeatFree
<1>6. CallbackFirst'
  <2>1. Len(todo'["watcher"]) = 1
    BY <1>1
  <2> QED BY <1>3, <1>4, <2>1 DEF CallbackFirst
<1>7. owed' \subseteq leave \cup AppLeave
  <2>1. owed \subseteq leave \cup PbLeave \cup AppLeave
    BY DEF LeaveInv
  <2> QED BY <2>1 DEF PbLeave
<1> QED BY <1>4, <1>5, <1>6, <1>7 DEF LeaveInv

\* The end of a transaction
LEMMA EndLeaves ==
    ASSUME TInv, LeaveInv, LeaveWindows, Ends
    PROVE  LeaveInv'
<1>1. pb \in PbOf(pb.channels)
  BY DEF TInv
<1>2. \A s \in {"IDLE", "KEEP_ALIVE_IDLE"} :
         /\ Over(s) \in PbOf({}) /\ Over(s).state = s /\ Over(s).trans = "NONE"
         /\ Over(s).requeued = pb.requeued
  BY <1>1, PbOver
<1>3. ASSUME NEW result PROVE \E call : Callback(result) = <<call>>
  BY DEF Callback
<1>4. /\ ~ CanStart /\ UNCHANGED leave
      /\ owed' = IF pb.trans = "LEAVE" THEN owed \ pb.channels ELSE owed
  BY DEF Ends, EndOk, EndError, EndCancelled, CanStart
<1>5. PICK call : Enters(<<call>>)
  <2>1. PICK result : Enters(Callback(result))
    BY DEF Ends, EndOk, EndError, EndCancelled
  <2> QED BY <1>3, <2>1
<1> DEFINE Outcome == /\ pb'.state \in {"IDLE", "KEEP_ALIVE_IDLE"} /\ pb'.trans = "NONE"
                      /\ pb'.requeued = pb.requeued
<1>6. ASSUME NEW s \in {"IDLE", "KEEP_ALIVE_IDLE"}, NEW p, p = Over(s),
             NEW messages, NEW timetoken, NEW cursor,
             \/ pb' = p
             \/ pb' = [p EXCEPT !.messages = messages, !.timetoken = timetoken, !.cursor = cursor]
             \/ pb' = [p EXCEPT !.timetoken = timetoken, !.cursor = cursor]
             \/ pb' = [p EXCEPT !.messages = messages, !.cursor = cursor]
      PROVE  Outcome
  <2>1. p \in PbOf({}) /\ p.state = s /\ p.trans = "NONE" /\ p.requeued = pb.requeued
    BY <1>2, <1>6
  <2>2. pb'.state = p.state /\ pb'.trans = p.trans /\ pb'.requeued = p.requeued
    BY <1>6, <2>1 DEF PbOf
  <2> QED BY <2>1, <2>2
<1>7. Outcome
  <2>1. CASE EndOk
    <3>1. PICK s \in {"IDLE", "KEEP_ALIVE_IDLE"} :
            pb' = IF pb.trans \in Requests
                  THEN [Over(s) EXCEPT !.messages = Messages, !.timetoken = now,
                                       !.cursor = IF Messages = 0 THEN 0 ELSE @]
                  ELSE Over(s)
      BY <2>1 DEF EndOk
    <3> DEFINE c == IF Messages = 0 THEN 0 ELSE Over(s).cursor
               m == Messages
               p == Over(s)
    <3>2. \/ pb' = p
          \/ pb' = [p EXCEPT !.messages = m, !.timetoken = now, !.cursor = c]
      BY <3>1
    <3>3. p = Over(s)
      OBVIOUS
    <3> HIDE DEF c, m, p, Outcome
    <3>4. CASE pb' = p
      BY <1>6, <3>3, <3>4
    <3>5. CASE pb' = [p EXCEPT !.messages = m, !.timetoken = now, !.cursor = c]
      BY <1>6, <3>3, <3>5
    <3> QED BY <3>2, <3>4, <3>5
  <2>2. CASE EndError
    <3>1. PICK s \in {"IDLE", "KEEP_ALIVE_IDLE"} : \E token :
             pb' = [Over(s) EXCEPT !.timetoken = token,
                                   !.cursor = IF pb.messages = 0 THEN 0 ELSE @]
      BY <2>2 DEF EndError
    <3>3. PICK token : pb' = [Over(s) EXCEPT !.timetoken = token,
                                             !.cursor = IF pb.messages = 0 THEN 0 ELSE @]
      BY <3>1
    <3> DEFINE c == IF pb.messages = 0 THEN 0 ELSE Over(s).cursor
               p == Over(s)
    <3>2. pb' = [p EXCEPT !.timetoken = token, !.cursor = c] /\ p = Over(s)
      BY <3>3
    <3> HIDE DEF c, p, Outcome
    <3> QED BY <1>6, <3>2
  <2>3. CASE EndCancelled
    <3> DEFINE s == "IDLE"
               p == Over(s)
    <3>1. pb' = [p EXCEPT !.messages = 0, !.cursor = 0] /\ p = Over(s)
          /\ s \in {"IDLE", "KEEP_ALIVE_IDLE"}
      BY <2>3 DEF EndCancelled
    <3> HIDE DEF s, p, Outcome
    <3> QED BY <1>6, <3>1
  <2> QED BY <2>1, <2>2, <2>3 DEF Ends
<1>8. CanStart'
  BY <1>7 DEF CanStart
<1> QED BY <1>4, <1>5, <1>7, <1>8, Ended

\* The context that a callback prepared is run.
LEMMA RequeuedLeaves ==
    ASSUME TInv, LeaveInv, Requeued
    PROVE  LeaveInv'
<1>1. /\ todo["watcher"] = <<>> /\ todo'["watcher"] = <<>> /\ todo'["app"] = todo["app"]
      /\ pb.requeued /\ UNCHANGED <<leave, owed>>
  BY DEF Requeued, Enters, TInv, Threads
<1>2. CanStart /\ ~ Is("app", Critical)
  BY <1>1 DEF LeaveInv, Prepared
<1>3. /\ Nested' /\ AppLeave' = AppLeave
      /\ Is("app", {"heartbeat"})' => Is("app", {"heartbeat"})
  BY <1>1, WatcherMoves DEF LeaveInv
<1>4. /\ pb'.state = "BUSY" /\ ~ pb'.requeued /\ pb'.trans = pb.trans
      /\ pb'.channels = pb.channels
  <2>1. pb' = [pb EXCEPT !.requeued = FALSE, !.state = "BUSY"] /\ pb \in PbOf(pb.channels)
    BY <1>2 DEF Requeued, TInv
  <2> QED BY <2>1 DEF PbOf
<1>5. PbLeave' = PbLeave
  BY <1>1, <1>4 DEF PbLeave, CanStart
<1>6. ~ Is("app", {"heartbeat"})
  BY <1>2 DEF Is, Critical
<1>7. Prepared' /\ HeartbeatFree' /\ CallbackFirst'
  BY <1>1, <1>3, <1>4, <1>6 DEF Prepared, HeartbeatFree, CallbackFirst, Is
<1> QED BY <1>1, <1>3, <1>5, <1>7 DEF LeaveInv

\* pbcc_subscribe_ee_postponed_unsubscribe_ prepares what was postponed.
LEMMA CallbackLeaves ==
    ASSUME TInv, LeaveInv, OtherCallback
    PROVE  LeaveInv'
<1> DEFINE q == todo["watcher"]
           cb == Head(q)
           ended == cb.trans \in {"HEARTBEAT", "LEAVE"}
           flushed == IF ended THEN [pb EXCEPT !.messages = 0, !.cursor = 0] ELSE pb
           prepared == [flushed EXCEPT !.trans = "LEAVE", !.channels = leave, !.timetoken = 0,
                                       !.requeued = TRUE]
<1>1. q \in Seq(Steps) /\ q # <<>> /\ cb.op = "callback"
  BY DEF OtherCallback, At, TInv, Threads
<1>2. Len(q) = 1 /\ pb.trans = "NONE" /\ CanStart /\ ~ Is("app", Critical) /\ ~ pb.requeued
  BY <1>1 DEF LeaveInv, CallbackFirst, Prepared, Is
<1>3. ~ Is("app", {"heartbeat"}) /\ ~ Is("app", {"leave"})
  BY <1>2 DEF Is, Critical
<1>4. owed \subseteq leave
  BY <1>2, <1>3 DEF LeaveInv, PbLeave, AppLeave
<1>5. UNCHANGED owed
  BY DEF OtherCallback
<1>6. PICK steps : /\ Then("watcher", steps)
                   /\ \/ steps = <<>>
                      \/ leave = {} /\ \E s : steps = <<s>> /\ s.op # "callback"
  <2>1. \/ Then("watcher", <<>>)
        \/ leave = {} /\ Then("watcher", <<[op |-> "report", ok |-> cb.ok]>>)
        \/ leave = {} /\ Then("watcher", ProcessNext(invocations'))
    BY DEF OtherCallback
  <2>2. [op |-> "report", ok |-> cb.ok].op = "report"
    OBVIOUS
  <2>3. \/ ProcessNext(invocations') = <<>>
        \/ /\ ProcessNext(invocations') = <<With("exec", invocations'[1].id)>>
           /\ With("exec", invocations'[1].id).op = "exec"
    BY DEF ProcessNext, With
  <2> QED BY <2>1, <2>2, <2>3
<1>7. PICK s : /\ todo'["watcher"] \in {<<>>, <<s>>} /\ todo'["app"] = todo["app"]
               /\ todo'["watcher"] # <<>> => leave = {} /\ s.op # "callback"
  <2>1. Tail(q) = <<>>
    <3>1. q \in Seq(Steps) /\ q # <<>> /\ Len(q) = 1
      BY <1>1, <1>2
    <3> HIDE DEF q
    <3>2. Tail(q) \in Seq(Steps) /\ Len(Tail(q)) = 0
      BY <3>1
    <3> QED BY <3>2, EmptySeq
  <2>2. todo'["watcher"] = steps \o Tail(q) /\ todo'["app"] = todo["app"]
    BY <1>6 DEF Then, TInv, Threads
  <2>3. steps \o <<>> = steps
    BY <1>6
  <2> QED BY <1>6, <2>1, <2>2, <2>3
<1>8. /\ Nested' /\ AppLeave' = AppLeave
      /\ Is("app", {"heartbeat"})' => Is("app", {"heartbeat"})
      /\ Is("app", Critical)' => Is("app", Critical)
  BY <1>7, WatcherMoves DEF LeaveInv
<1>9. HeartbeatFree' /\ CallbackFirst'
  <2>1. ~ Is("watcher", {"callback"})'
    BY <1>7 DEF Is
  <2> QED BY <1>3, <1>8, <2>1 DEF HeartbeatFree, CallbackFirst
<1>10. \/ pb' = flushed /\ leave' = leave
       \/ leave # {} /\ pb' = prepared /\ leave' = {} /\ current_transaction' = "LEAVE"
  BY DEF OtherCallback
<1>11. flushed.state = pb.state /\ flushed.requeued = pb.requeued
  BY DEF TInv, PbOf
<1>12. prepared.state = pb.state /\ prepared.trans = "LEAVE" /\ prepared.channels = leave
       /\ prepared.requeued
  <2>1. flushed = pb \/ flushed = [pb EXCEPT !.messages = 0, !.cursor = 0]
    OBVIOUS
  <2>2. pb \in PbOf(pb.channels) /\ [pb EXCEPT !.messages = 0, !.cursor = 0] \in PbOf(pb.channels)
    BY TokenFacts DEF TInv, PbOf
  <2>3. flushed \in PbOf(pb.channels)
    BY <2>1, <2>2
  <2> HIDE DEF flushed
  <2> QED BY <1>11, <2>3 DEF PbOf
<1> HIDE DEF flushed, prepared
<1>13. CASE pb' = flushed /\ leave' = leave
  <2>1. ~ pb'.requeued
    BY <1>2, <1>11, <1>13
  <2> QED BY <1>4, <1>5, <1>8, <1>9, <1>13, <2>1 DEF LeaveInv, Prepared
<1>14. CASE leave # {} /\ pb' = prepared /\ leave' = {} /\ current_transaction' = "LEAVE"
  <2>1. CanStart' /\ PbLeave' = leave
    BY <1>2, <1>12, <1>14 DEF PbLeave, CanStart
  <2>2. Prepared'
    BY <1>2, <1>7, <1>8, <1>14, <2>1 DEF Prepared
  <2> QED BY <1>4, <1>5, <1>8, <1>9, <2>1, <2>2 DEF LeaveInv
<1> QED BY <1>10, <1>13, <1>14

\* What is reported leaves leaves alone.
LEMMA ReportLeaves ==
    ASSUME TInv, LeaveInv, Report
    PROVE  LeaveInv'
<1>1. At("watcher", "report") /\ UNCHANGED <<leave, owed, pb, current_transaction>>
      /\ "watcher" \in Threads
  BY DEF Report, flags, Threads
<1>2. context.channels \in SUBSET Channels /\ pb.timetoken \in Tokens /\ FALSE \in BOOLEAN
      /\ pb.requeued \in BOOLEAN /\ PbLeave' = PbLeave
  BY <1>1, PbFacts DEF TInv, Contexts, PbLeave, CanStart
<1>3. \A type \in EventTypes :
         /\ CopyEvent(type) \in Steps /\ CopyEvent(type).op = "event"
         /\ Event(type, context.channels, pb.timetoken, FALSE) \in Steps
         /\ Event(type, context.channels, pb.timetoken, FALSE).op = "event"
  <2>1. ASSUME NEW type \in EventTypes
        PROVE  /\ Event(type, context.channels, pb.timetoken, FALSE) \in Steps
               /\ CopyEvent(type) \in Steps
    BY <1>2, CopyStep, EventStep
  <2> QED BY <2>1 DEF Event, CopyEvent
<1>4. PICK steps : /\ Then("watcher", steps)
                   /\ steps = <<>> \/ \E e \in Steps : e.op = "event" /\ steps = <<e>>
  <2> DEFINE event(success, failure) ==
               IF Head(todo["watcher"]).ok
               THEN Event(success, context.channels, pb.timetoken, FALSE) ELSE CopyEvent(failure)
  <2>1. \A success, failure \in EventTypes :
           event(success, failure) \in Steps /\ event(success, failure).op = "event"
    BY <1>3
  <2>2. /\ "HANDSHAKE_SUCCESS" \in EventTypes /\ "RECEIVE_SUCCESS" \in EventTypes
        /\ "HANDSHAKE_FAILURE" \in EventTypes /\ "RECEIVE_FAILURE" \in EventTypes
    BY DEF EventTypes
  <2>3. \/ Then("watcher", <<>>)
        \/ Then("watcher", <<event("HANDSHAKE_SUCCESS", "HANDSHAKE_FAILURE")>>)
        \/ Then("watcher", <<event("RECEIVE_SUCCESS", "RECEIVE_FAILURE")>>)
    BY DEF Report
  <2> HIDE DEF event
  <2> QED BY <2>1, <2>2, <2>3
<1>5. steps \in Seq(Steps) /\ Mild(steps) /\ (steps # <<>> => Head(steps).op = "event")
  <2>1. <<>> \in Seq(Steps) /\ Mild(<<>>)
    BY DEF Mild
  <2> QED BY <1>4, <2>1, MildEvent
<1> QED BY <1>1, <1>2, <1>4, <1>5, MildStep DEF Critical

\* The application calls the engine; new are the channels it leaves.
LEMMA Called ==
    ASSUME TInv, LeaveInv, LeaveWindows, NEW call, NEW steps \in Seq(Steps), Enter(call, steps),
           \A i \in DOMAIN steps : i > 1 => steps[i].op \in Below,
           steps # <<>> => Head(steps).op \in {"leave", "changed", "event"},
           UNCHANGED <<leave, pb, current_transaction>>,
           NEW new, owed' \subseteq owed \cup new,
           new # {} => steps # <<>> /\ Head(steps).op = "leave" /\ Head(steps).channels = new
    PROVE  LeaveInv'
<1>1. /\ todo["app"] = <<>> /\ todo'["app"] = steps /\ todo'["watcher"] = todo["watcher"]
      /\ todo["watcher"] # <<>> => Head(todo["watcher"]).op \in Windows
      /\ pb.requeued => "requeued" \in Windows
  BY DEF Enter, TInv, Threads
<1>2. ~ pb.requeued /\ AppLeave = {} /\ PbLeave' = PbLeave
  BY <1>1 DEF LeaveWindows, AppLeave, Is, PbLeave, CanStart
<1>3. ~ Is("watcher", {"callback"})'
  BY <1>1, WindowsAssumption DEF Is
<1>4. ~ Is("app", {"heartbeat"})'
  BY <1>1 DEF Is
<1>5. Nested'
  <2> SUFFICES ASSUME NEW u \in Threads, NEW i \in DOMAIN todo'[u], i > 1
               PROVE  todo'[u][i].op \in Below
    BY DEF Nested
  <2>1. CASE u = "app"
    BY <1>1, <2>1
  <2>2. CASE u = "watcher"
    BY <1>1, <2>2 DEF LeaveInv, Nested
  <2> QED BY <2>1, <2>2 DEF Threads
<1>6. Prepared' /\ HeartbeatFree' /\ CallbackFirst'
  BY <1>2, <1>3, <1>4 DEF Prepared, HeartbeatFree, CallbackFirst
<1>7. new \subseteq AppLeave'
  <2>1. CASE new = {}
    BY <2>1
  <2>2. CASE new # {}
    BY <1>1, <2>2 DEF AppLeave, Is
  <2> QED BY <2>1, <2>2
<1>8. owed \subseteq leave \cup PbLeave
  BY <1>2 DEF LeaveInv
<1> QED BY <1>2, <1>5, <1>6, <1>7, <1>8 DEF LeaveInv

\* The calls of the application: a channel is owed as soon as its leave is called for.
LEMMA CallLeaves ==
    ASSUME TInv, LeaveInv, LeaveWindows, Call
    PROVE  LeaveInv'
<1>1. UNCHANGED <<leave, pb, current_transaction>>
  BY DEF Call, Subscribe, Unsubscribe, UnsubscribeAll, Disconnect, Reconnect, flags
<1>2. ASSUME NEW s \in Steps, s.op \in Below
      PROVE  /\ <<s>> \in Seq(Steps) /\ Head(<<s>>) = s
             /\ \A i \in DOMAIN <<s>> : i > 1 => <<s>>[i].op \in Below
  BY <1>2
<1>3. ASSUME NEW call, NEW s \in Steps, s.op \in {"changed", "event"}, Enter(call, <<s>>),
             owed' \subseteq owed
      PROVE  LeaveInv'
  <2>1. s.op \in Below
    BY <1>3 DEF Below
  <2> DEFINE steps == <<s>>
             new == {}
  <2>2. /\ steps \in Seq(Steps) /\ Head(steps).op \in {"leave", "changed", "event"}
        /\ \A i \in DOMAIN steps : i > 1 => steps[i].op \in Below
    BY <1>2, <1>3, <2>1
  <2>3. Enter(call, steps) /\ owed' \subseteq owed \cup new /\ ~ (new # {})
    BY <1>3
  <2> HIDE DEF steps, new
  <2> QED BY <1>1, <2>2, <2>3, Called
<1>4. ASSUME NEW call, NEW d \in Steps, d.op = "leave", NEW e \in Steps, e.op \in {"changed", "event"},
             NEW steps \in Seq(Steps), steps # <<>>, Head(steps) = d,
             \A i \in DOMAIN steps : (i = 1 /\ steps[i] = d) \/ (i > 1 /\ steps[i] = e),
             Enter(call, steps), NEW new, d.channels = new, owed' \subseteq owed \cup new
      PROVE  LeaveInv'
  <2>1. e.op \in Below
    BY <1>4 DEF Below
  <2>2. \A i \in DOMAIN steps : i > 1 => steps[i].op \in Below
    BY <1>4, <2>1
  <2> QED BY <1>1, <1>4, <2>2, Called
<1>5. /\ context.channels \in SUBSET Channels /\ context.cursor \in Tokens
      /\ subscribables \in SUBSET Channels /\ FALSE \in BOOLEAN /\ TRUE \in BOOLEAN
  BY DEF TInv, Contexts
<1>6. ASSUME NEW cursor \in Tokens, NEW heartbeat \in BOOLEAN
      PROVE  [op |-> "changed", cursor |-> cursor, heartbeat |-> heartbeat] \in Steps
  BY DEF Steps, ChangedSteps
<1>7. ASSUME NEW channels \in SUBSET Channels
      PROVE  [op |-> "leave", channels |-> channels] \in Steps
  BY DEF Steps, LeaveSteps
<1>8. CASE \E s \in Subscriptions : \E c \in Cursors : Subscribe(s, c)
  <2>1. PICK s \in Subscriptions, c \in Cursors : Subscribe(s, c)
    BY <1>8
  <2> DEFINE a == [op |-> "changed", cursor |-> c, heartbeat |-> TRUE]
  <2>2. a \in Steps /\ a.op \in {"changed", "event"}
    BY <1>5, <1>6, TokenFacts
  <2>3. Enter("subscribe", <<a>>) /\ owed' \subseteq owed
    BY <2>1 DEF Subscribe
  <2> HIDE DEF a
  <2> QED BY <1>3, <2>2, <2>3
<1>9. CASE \E s \in Subscriptions : Unsubscribe(s)
  <2>1. PICK s \in Subscriptions : Unsubscribe(s)
    BY <1>9
  <2> DEFINE remaining == SubscribablesOf(subscriptions \ {s})
             gone == ChannelsOf[s] \ remaining
             d == [op |-> "leave", channels |-> gone]
             e == [op |-> "changed", cursor |-> 0, heartbeat |-> FALSE]
  <2>2. gone \in SUBSET Channels
    BY ChannelsAssumption
  <2>3. /\ owed' = owed \cup gone
        /\ \/ gone = {} /\ Enter("unsubscribe", <<>> \o <<e>>)
           \/ Enter("unsubscribe", <<d>> \o <<e>>)
    BY <2>1 DEF Unsubscribe
  <2> HIDE DEF gone
  <2>4. e \in Steps /\ e.op \in {"changed", "event"}
    BY <1>5, <1>6, TokenFacts
  <2>5. d \in Steps /\ d.op = "leave" /\ d.channels = gone
    BY <1>7, <2>2
  <2> HIDE DEF d, e
  <2>6. CASE gone = {} /\ Enter("unsubscribe", <<>> \o <<e>>)
    <3>1. <<>> \o <<e>> = <<e>>
      BY <2>4
    <3> QED BY <1>3, <2>3, <2>4, <2>6, <3>1
  <2>7. CASE Enter("unsubscribe", <<d>> \o <<e>>)
    <3> DEFINE r == <<d>> \o <<e>>
    <3>1. /\ r \in Seq(Steps) /\ r # <<>> /\ Head(r) = d
          /\ \A i \in DOMAIN r : (i = 1 /\ r[i] = d) \/ (i > 1 /\ r[i] = e)
      BY <2>4, <2>5, TwoCalls
    <3>2. Enter("unsubscribe", r)
      BY <2>7
    <3> HIDE DEF r
    <3>3. owed' \subseteq owed \cup gone
      BY <2>3
    <3> QED BY <1>4, <2>4, <2>5, <3>1, <3>2, <3>3
  <2> QED BY <2>3, <2>6, <2>7
<1>10. CASE UnsubscribeAll
  <2> DEFINE d == [op |-> "leave", channels |-> subscribables]
             e == Event("UNSUBSCRIBE_ALL", subscribables, context.cursor, FALSE)
             r == <<d, e>>
  <2>1. Enter("unsubscribe_all", r) /\ owed' = owed \cup subscribables
    BY <1>10 DEF UnsubscribeAll
  <2>2. d \in Steps /\ d.op = "leave" /\ d.channels = subscribables
    BY <1>5, <1>7
  <2>3. e \in Steps /\ e.op \in {"changed", "event"}
    <3>1. "UNSUBSCRIBE_ALL" \in EventTypes
      BY DEF EventTypes
    <3>2. e \in Steps
      BY <1>5, <3>1, EventStep
    <3>3. e.op = "event"
      BY DEF Event
    <3> QED BY <3>2, <3>3
  <2> HIDE DEF d, e
  <2>4. /\ r \in Seq(Steps) /\ r # <<>> /\ Head(r) = d
        /\ \A i \in DOMAIN r : (i = 1 /\ r[i] = d) \/ (i > 1 /\ r[i] = e)
    BY <2>2, <2>3
  <2> HIDE DEF r
  <2>5. owed' \subseteq owed \cup subscribables
    BY <2>1
  <2> QED BY <1>4, <2>1, <2>2, <2>3, <2>4, <2>5
<1>11. CASE Disconnect
  <2> DEFINE e == CopyEvent("DISCONNECT")
  <2>1. Enter("disconnect", <<e>>) /\ owed' = owed
    BY <1>11 DEF Disconnect
  <2>2. e \in Steps /\ e.op \in {"changed", "event"}
    <3>1. "DISCONNECT" \in EventTypes
      BY DEF EventTypes
    <3>2. e \in Steps
      BY <3>1, CopyStep
    <3>3. e.op = "event"
      BY DEF CopyEvent, Event
    <3> QED BY <3>2, <3>3
  <2> HIDE DEF e
  <2>3. owed' \subseteq owed
    BY <2>1
  <2> QED BY <1>3, <2>1, <2>2, <2>3
<1>12. CASE \E c \in Cursors : Reconnect(c)
  <2>1. PICK c \in Cursors : Reconnect(c)
    BY <1>12
  <2> DEFINE e == Event("RECONNECT", context.channels, c, FALSE)
  <2>2. Enter("reconnect", <<e>>) /\ owed' = owed
    BY <2>1 DEF Reconnect
  <2>3. e \in Steps /\ e.op \in {"changed", "event"}
    <3>1. "RECONNECT" \in EventTypes
      BY DEF EventTypes
    <3>2. e \in Steps
      BY <1>5, <3>1, EventStep, TokenFacts
    <3>3. e.op = "event"
      BY DEF Event
    <3> QED BY <3>2, <3>3
  <2> HIDE DEF e
  <2>4. owed' \subseteq owed
    BY <2>2
  <2> QED BY <1>3, <2>2, <2>3, <2>4
<1> QED BY <1>8, <1>9, <1>10, <1>11, <1>12 DEF Call

\* Every step keeps the leaves.
LEMMA LeaveStep == TInv /\ LeaveInv /\ LeaveWindows /\ [Next]_vars => LeaveInv'
<1> SUFFICES ASSUME TInv, LeaveInv, LeaveWindows, [Next]_vars PROVE LeaveInv'
  OBVIOUS
<1>1. ASSUME NEW t \in Threads, ThreadStep(t) PROVE LeaveInv'
  BY <1>1, HandleEventLeaves, EffectLeaves, RequestLeaves, LeaveLeaves DEF ThreadStep
<1>2. CASE UNCHANGED <<todo, pb, leave, owed, current_transaction>>
  BY <1>2 DEF LeaveInv, Nested, Prepared, HeartbeatFree, CallbackFirst, PbLeave, AppLeave, Is, CanStart
<1>3. CASE WatcherStep
  BY <1>3, RequeuedLeaves, CallbackLeaves, ReportLeaves DEF WatcherStep
<1>4. CASE Publish
  BY <1>2, <1>4 DEF Publish, flags
<1>5. CASE UNCHANGED vars
  BY <1>2, <1>5 DEF vars, flags
<1> QED BY <1>1, <1>3, <1>4, <1>5, EndLeaves, CallLeaves DEF Next

\* At the start nothing has been left.
LEMMA LeaveInitial == Init => LeaveInv
<1> SUFFICES ASSUME Init PROVE LeaveInv
  OBVIOUS
<1>1. todo["app"] = <<>> /\ todo["watcher"] = <<>> /\ ~ pb.requeued /\ owed = {}
      /\ \A t \in Threads : todo[t] = <<>>
  BY DEF Init, Threads
<1> QED BY <1>1 DEF LeaveInv, Nested, Prepared, HeartbeatFree, CallbackFirst, Is

\* A channel the application left is always on its way to a leave request, wherever
\* threads meet but before pubnub_cancel, before a leave of the application and before the
\* queue processor takes up what pbcc_subscribe_ee_postponed_unsubscribe_ prepared: a second
\* unsubscribe, the end of a transaction and the callback do not lose the first one.
THEOREM LeavesKept ==
    ASSUME LeaveWindows
    PROVE  Spec => []LeavesAreKept
<1>1. TInv /\ LeaveInv => LeavesAreKept
  BY LeavingIs DEF LeaveInv, LeavesAreKept
<1>2. Spec => [](TInv /\ LeaveInv)
  <2>1. Init => TInv /\ LeaveInv
    BY LeaveInitial, InitTyped
  <2>2. TInv /\ LeaveInv /\ [Next]_vars => (TInv /\ LeaveInv)'
    BY StepTyped, LeaveStep
  <2> QED BY <2>1, <2>2, PTL DEF Spec
<1> QED BY <1>1, <1>2, PTL

-----------------------------------------------------------------------------
(* The loop *)

\* Where the other thread may be let in: only before pubnub_heartbeat is called.
LoopWindows == Windows \subseteq {"heartbeat"}

\* What a call that an effect has begun is at
OwnerOps == {"done", "cancel", "cancelled", "heartbeat"}

\* The calls of the application, up to their event
AppTypes == {"SUBSCRIPTION_CHANGED", "SUBSCRIPTION_RESTORED", "DISCONNECT", "RECONNECT",
             "UNSUBSCRIBE_ALL"}
Asking(s) == s.op \in {"leave", "changed"} \/ (s.op = "event" /\ s.type \in AppTypes)

\* The steps that bring the loop up to date with the subscriptions
Fresh == {"SUBSCRIPTION_CHANGED", "SUBSCRIPTION_RESTORED"}
Follows(s) == s.op = "changed" \/ (s.op = "event" /\ s.type = "UNSUBSCRIBE_ALL")
Refreshes(s) == s.op \in {"leave", "changed"}
                \/ (s.op = "event" /\ s.type \in Fresh \cup {"UNSUBSCRIBE_ALL"})

\* Below the top of a stack are errors; below a leave is the rest of the
\* application's call.
Stack ==
    \A t \in Threads :
       IF Is(t, {"leave"}) THEN t = "app" /\ Len(todo[t]) = 2 /\ Follows(todo[t][2])
       ELSE \A i \in DOMAIN todo[t] : i > 1 => todo[t][i].op = "error"

WatcherAnswers == todo["watcher"] # <<>> => ~ Asking(Head(todo["watcher"]))

\* Two threads meet only while a heartbeat is under way.
Meeting == todo["app"] # <<>> /\ todo["watcher"] # <<>> => current_transaction = "HEARTBEAT"

\* The callback of a transaction finds the application away and the context free.
AfterEnd == Is("watcher", {"callback", "report"}) => todo["app"] = <<>> /\ CanStart

PreparedLeave == pb.requeued => pb.trans = "LEAVE"

HeartbeatHeld == \A t \in Threads :
    Is(t, {"heartbeat"}) => current_transaction = "HEARTBEAT" /\ CanStart

CancelHeld == \A t \in Threads :
    /\ Is(t, {"cancel", "cancelled"}) => current_transaction = "NONE"
    /\ Is(t, {"cancelled"}) => pb.state = "WAIT_CANCEL"

CancelKnown == pb.state = "WAIT_CANCEL" =>
    cancel_invocation # None \/ \E t \in Threads : Is(t, {"cancelled"})

TransactionKnown == pb.state = "BUSY" /\ pb.trans \notin Requests => current_transaction # "NONE"

CallsInv == /\ Stack /\ WatcherAnswers /\ Meeting /\ AfterEnd /\ PreparedLeave /\ HeartbeatHeld
            /\ CancelHeld /\ CancelKnown /\ TransactionKnown

FirstIs(id) == invocations # <<>> /\ invocations[1].id = id

Unique == \A i, j \in DOMAIN invocations : invocations[i].id = invocations[j].id => i = j

Owner == \A t \in Threads :
    Is(t, OwnerOps) =>
       /\ FirstIs(Head(todo[t]).id) /\ invocations[1].status = "RUNNING"
       /\ cancel_invocation = None
       /\ Head(todo[t]).op \in {"cancel", "cancelled"} => Head(todo[t]).id[1] = "CANCEL"
       /\ Head(todo[t]).op = "heartbeat" => Head(todo[t]).id[1] \in Requests

OneOwner == \A t, u \in Threads : Is(t, OwnerOps) /\ Is(u, OwnerOps) => t = u

FirstRuns == \A i \in DOMAIN invocations : invocations[i].status = "RUNNING" =>
    i = 1 /\ (cancel_invocation = invocations[1].id \/ \E t \in Threads : Is(t, OwnerOps))

Cancelling == cancel_invocation # None =>
    FirstIs(cancel_invocation) /\ invocations[1].status = "RUNNING"

ExecFirst == \A t \in Threads :
    Is(t, {"exec"}) /\ (current_transaction = "NONE" \/ Head(todo[t]).id[1] \notin Requests \cup {"CANCEL"})
        => FirstIs(Head(todo[t]).id)

Progress == current_transaction = "NONE" /\ cancel_invocation = None /\ invocations # <<>> =>
    \E t \in Threads : Is(t, {"exec", "done", "cancel", "cancelled", "callback"})

QueueInv == Unique /\ Owner /\ OneOwner /\ FirstRuns /\ Cancelling /\ ExecFirst /\ Progress

Live == pb.state = "BUSY" /\ pb.trans \in Requests
ForState(type, s) == (type = "HANDSHAKE" /\ s = "HANDSHAKING") \/ (type = "RECEIVE" /\ s = "RECEIVING")
CancelAt(q, j) == q[j].id[1] = "CANCEL" /\ q[j].status = "CREATED"
RequestAt(q, i) == q[i].id[1] \in Requests
AtCancel == \E t \in Threads : Is(t, {"cancel"})

Covered(q, s, c) == \A i \in DOMAIN q : RequestAt(q, i) =>
    \/ ForState(q[i].id[1], s) /\ q[i].ctx.channels = c.channels
    \/ \E j \in DOMAIN q : i < j /\ CancelAt(q, j)
Separate(q) == \A i, k \in DOMAIN q : i < k /\ RequestAt(q, i) /\ RequestAt(q, k) =>
    \E j \in DOMAIN q : i < j /\ j < k /\ CancelAt(q, j)
Behind(q) == \A i \in DOMAIN q : RequestAt(q, i) /\ q[i].status = "CREATED" =>
    \E j \in DOMAIN q : j < i /\ CancelAt(q, j)

Answered == Live => \/ ForState(pb.trans, state) /\ pb.channels = context.channels
                    \/ \E j \in DOMAIN invocations : CancelAt(invocations, j)
                    \/ AtCancel
RequestsInv == /\ Covered(invocations, state, context) /\ Separate(invocations) /\ Answered
               /\ Live => AtCancel \/ Behind(invocations)

CurrentChannels == \/ state = "UNSUBSCRIBED" \/ context.channels = subscribables
                   \/ todo["app"] # <<>> /\ Refreshes(Head(todo["app"]))
EventChannels == \A t \in Threads : Is(t, {"event"}) =>
    LET ev == Head(todo[t])
    IN  /\ ev.type \in Fresh => ev.ctx.channels = subscribables
        /\ ev.type \notin Fresh \cup {"UNSUBSCRIBE_ALL"} => ev.ctx.channels = context.channels
ChannelsInv == CurrentChannels /\ EventChannels

-----------------------------------------------------------------------------
(* Calls *)

\* The calls of a stack after a step that turned into steps
LEMMA ThenStack ==
    ASSUME TInv, Stack, NEW t \in Threads, todo[t] # <<>>,
           NEW steps \in Seq(Steps), Then(t, steps),
           \A i \in DOMAIN steps : i > 1 => steps[i].op = "error",
           steps # <<>> => Head(steps).op # "leave" /\ Head(todo[t]).op # "leave"
    PROVE  /\ Stack' /\ \A u \in Threads \ {t} : todo'[u] = todo[u]
           /\ steps # <<>> => todo'[t] # <<>> /\ Head(todo'[t]) = Head(steps)
           /\ steps = <<>> /\ todo'[t] # <<>> =>
                 \/ Head(todo[t]).op # "leave" /\ Head(todo'[t]).op = "error"
                 \/ Head(todo[t]).op = "leave" /\ t = "app" /\ Follows(Head(todo'[t]))
<1> DEFINE q == todo[t]
           r == todo'[t]
           m == Len(steps)
           n == Len(q)
<1>1. q \in Seq(Steps) /\ q # <<>>
  BY DEF TInv
<1>2. /\ r = steps \o Tail(q) /\ todo' \in [Threads -> Seq(Steps)]
      /\ \A u \in Threads \ {t} : todo'[u] = todo[u]
  BY ThenTyped DEF TInv
<1>3. n \in Nat /\ m \in Nat /\ n > 0 /\ DOMAIN q = 1..n /\ DOMAIN steps = 1..m
  BY <1>1
<1>4. r \in Seq(Steps) /\ Len(r) = m + (n - 1) /\ DOMAIN r = 1..m + (n - 1)
  BY <1>1, <1>2, <1>3
<1>5. \A i \in Nat : /\ 1 <= i /\ i <= m => r[i] = steps[i]
                     /\ m < i /\ i <= m + (n - 1) => r[i] = q[i - m + 1]
  BY <1>1, <1>2, <1>3
<1>6. \A i \in 1..m : i > 1 => steps[i].op = "error"
  BY <1>3
<1>7. steps # <<>> => r # <<>> /\ Head(r) = Head(steps)
  BY <1>1, <1>2
<1>8. r # <<>> => Head(r) = r[1] /\ 1 \in 1..m + (n - 1)
  BY <1>4
<1>9. \A u \in Threads \ {t} : Is(u, {"leave"})' = Is(u, {"leave"})
  BY <1>2 DEF Is
<1>10. CASE Head(q).op = "leave"
  <2>1. Is(t, {"leave"})
    BY <1>1, <1>10 DEF Is
  <2>2. t = "app" /\ n = 2 /\ Follows(q[2])
    BY <2>1 DEF Stack
  <2>3. steps = <<>> /\ m = 0
    BY <1>10
  <2>4. r[1] = q[2] /\ Len(r) = 1 /\ DOMAIN r = 1..1
    BY <1>4, <1>5, <2>2, <2>3
  <2>5. r # <<>> /\ Head(r) = q[2]
    BY <1>4, <2>4
  <2>6. Follows(Head(r)) /\ Head(r).op # "leave"
    BY <2>2, <2>5 DEF Follows
  <2>7. ~ Is(t, {"leave"})'
    BY <2>6 DEF Is
  <2>8. \A i \in DOMAIN r : i > 1 => r[i].op = "error"
    BY <2>4
  <2>9. Stack'
    <3> SUFFICES ASSUME NEW u \in Threads
                 PROVE  IF Is(u, {"leave"})'
                        THEN u = "app" /\ Len(todo'[u]) = 2 /\ Follows(todo'[u][2])
                        ELSE \A i \in DOMAIN todo'[u] : i > 1 => todo'[u][i].op = "error"
      BY DEF Stack, Follows
    <3>1. CASE u = t
      BY <2>7, <2>8, <3>1
    <3>2. CASE u # t
      BY <1>2, <1>9, <3>2 DEF Stack
    <3> QED BY <3>1, <3>2
  <2> QED BY <1>2, <1>10, <2>2, <2>3, <2>6, <2>9
<1>11. CASE Head(q).op # "leave"
  <2>1. ~ Is(t, {"leave"})
    BY <1>11 DEF Is
  <2>2. \A i \in 1..n : i > 1 => q[i].op = "error"
    BY <1>3, <2>1 DEF Stack
  <2> HIDE DEF q, r, m, n
  <2>3. ASSUME NEW i \in 1..m + (n - 1), i > m \/ i > 1 PROVE r[i].op = "error"
    <3>1. CASE i <= m
      <4>1. i \in 1..m /\ i > 1 /\ r[i] = steps[i]
        BY <1>3, <1>5, <2>3, <3>1
      <4> QED BY <1>6, <4>1
    <3>2. CASE ~ (i <= m)
      <4>1. i \in Nat /\ m < i /\ i <= m + (n - 1) /\ i - m + 1 \in 1..n /\ i - m + 1 > 1
        BY <1>3, <3>2
      <4>2. r[i] = q[i - m + 1]
        BY <1>5, <4>1
      <4> QED BY <2>2, <4>1, <4>2
    <3> QED BY <3>1, <3>2
  <2>4. ASSUME r # <<>>, steps = <<>> PROVE Head(r).op = "error"
    <3>1. m = 0 /\ 1 \in 1..m + (n - 1) /\ Head(r) = r[1]
      BY <1>8, <2>4 DEF m
    <3> QED BY <2>3, <3>1
  <2>5. r # <<>> => Head(r).op # "leave"
    BY <1>7, <2>4
  <2>6. ~ Is(t, {"leave"})'
    BY <2>5 DEF Is, r
  <2>7. Stack'
    <3> SUFFICES ASSUME NEW u \in Threads
                 PROVE  IF Is(u, {"leave"})'
                        THEN u = "app" /\ Len(todo'[u]) = 2 /\ Follows(todo'[u][2])
                        ELSE \A i \in DOMAIN todo'[u] : i > 1 => todo'[u][i].op = "error"
      BY DEF Stack, Follows
    <3>1. CASE u = t
      BY <1>4, <2>3, <2>6, <3>1 DEF r
    <3>2. CASE u # t
      BY <1>2, <1>9, <3>2 DEF Stack
    <3> QED BY <3>1, <3>2
  <2> QED BY <1>2, <1>7, <1>11, <2>4, <2>7 DEF q, r
<1> QED BY <1>10, <1>11

\* What the other thread is at when thread t takes a step
LEMMA Turn ==
    ASSUME TInv, LeaveInv, CallsInv, LoopWindows, NEW t \in Threads, NEW op, At(t, op)
    PROVE  /\ todo[t] # <<>> /\ Head(todo[t]).op = op /\ Head(todo[t]) \in Steps
           /\ \A u \in Threads \ {t} : todo[u] # <<>> =>
                 /\ current_transaction = "HEARTBEAT"
                 /\ \/ u = "watcher" /\ Is(u, {"heartbeat"})
                    \/ u = "app" /\ Is(u, {"leave"})
                    \/ u = "app" /\ Is(u, {"exec"}) /\ Head(todo[u]).id[1] \in Requests
<1>1. todo[t] # <<>> /\ Head(todo[t]).op = op /\ Head(todo[t]) \in Steps
  BY AtFacts DEF TInv
<1>2. ASSUME NEW u \in Threads \ {t}, todo[u] # <<>>
      PROVE  /\ current_transaction = "HEARTBEAT"
             /\ \/ u = "watcher" /\ Is(u, {"heartbeat"})
                \/ u = "app" /\ Is(u, {"leave"})
                \/ u = "app" /\ Is(u, {"exec"}) /\ Head(todo[u]).id[1] \in Requests
  <2>1. (t = "app" /\ u = "watcher") \/ (t = "watcher" /\ u = "app")
    BY DEF Threads
  <2>2. current_transaction = "HEARTBEAT"
    BY <1>1, <1>2, <2>1 DEF CallsInv, Meeting
  <2>3. Head(todo[u]).op \in Windows \/ Blocked(u)
    BY <1>2 DEF At
  <2>4. CASE Head(todo[u]).op \in Windows
    <3>1. Is(u, {"heartbeat"})
      BY <1>2, <2>4 DEF LoopWindows, Is
    <3>2. u # "app"
      BY <1>1, <2>1, <3>1 DEF LeaveInv, HeartbeatFree
    <3> QED BY <2>1, <2>2, <3>1, <3>2
  <2>5. CASE Blocked(u)
    <3>1. u = "app"
      BY <2>1, <2>5 DEF Blocked, Monitor
    <3>2. ~ Is(u, {"cancel"})
      BY <1>2, <2>2 DEF CallsInv, CancelHeld, Is
    <3>3. ~ Is(u, {"heartbeat"})
      BY <1>1, <2>1, <3>1 DEF LeaveInv, HeartbeatFree
    <3> QED BY <1>2, <2>2, <2>5, <3>1, <3>2, <3>3 DEF Blocked, Is
  <2> QED BY <2>3, <2>4, <2>5
<1> QED BY <1>1, <1>2

\* A step of a thread, other than the callback of a transaction, keeps the calls
\* in order.
LEMMA CallsKept ==
    ASSUME TInv, LeaveInv, CallsInv, LoopWindows, NEW t \in Threads, NEW op, At(t, op),
           NEW steps \in Seq(Steps), Then(t, steps),
           \A i \in DOMAIN steps : i > 1 => steps[i].op = "error",
           steps # <<>> =>
              /\ op # "leave" /\ Head(steps).op \notin {"leave", "callback", "report"}
              /\ Head(steps).op = "heartbeat" => current_transaction' = "HEARTBEAT" /\ CanStart'
              /\ Head(steps).op \in {"cancel", "cancelled"} => current_transaction' = "NONE"
              /\ Head(steps).op = "cancelled" => pb'.state = "WAIT_CANCEL",
           (steps # <<>> /\ Asking(Head(steps))) \/ op = "leave" =>
              /\ t = "app" /\ Asking(Head(todo[t]))
              /\ UNCHANGED <<state, cancel_invocation>>
              /\ current_transaction' = "NONE" => current_transaction = "NONE",
           \A u \in Threads \ {t} : todo[u] # <<>> =>
              /\ UNCHANGED current_transaction
              /\ Head(todo[u]).op = "heartbeat" => CanStart' = CanStart,
           pb'.requeued \in BOOLEAN,
           pb'.requeued => pb.requeued /\ pb'.trans = pb.trans,
           pb'.state = "WAIT_CANCEL" =>
              \/ cancel_invocation' # None
              \/ steps # <<>> /\ Head(steps).op = "cancelled"
              \/ pb.state = "WAIT_CANCEL" /\ op # "cancelled" /\ UNCHANGED cancel_invocation,
           pb'.state = "BUSY" /\ pb'.trans \notin Requests => current_transaction' # "NONE"
    PROVE  CallsInv'
<1>1. /\ todo[t] # <<>> /\ Head(todo[t]).op = op
      /\ \A u \in Threads \ {t} : todo[u] # <<>> =>
                 /\ current_transaction = "HEARTBEAT"
                 /\ \/ u = "watcher" /\ Is(u, {"heartbeat"})
                    \/ u = "app" /\ Is(u, {"leave"})
                    \/ u = "app" /\ Is(u, {"exec"}) /\ Head(todo[u]).id[1] \in Requests
  BY Turn
<1>2. /\ Stack' /\ \A u \in Threads \ {t} : todo'[u] = todo[u]
      /\ steps # <<>> => todo'[t] # <<>> /\ Head(todo'[t]) = Head(steps)
      /\ steps = <<>> /\ todo'[t] # <<>> =>
            \/ op # "leave" /\ Head(todo'[t]).op = "error"
            \/ op = "leave" /\ t = "app" /\ Follows(Head(todo'[t]))
  BY <1>1, ThenStack DEF CallsInv
<1>3. (t = "app" /\ Threads \ {t} = {"watcher"}) \/ (t = "watcher" /\ Threads \ {t} = {"app"})
  BY DEF Threads
\* What the other thread is at stays what it is.
<1>4. \A u \in Threads \ {t} : \A ops : Is(u, ops)' = Is(u, ops)
  BY <1>2 DEF Is
<1>5. \A u \in Threads \ {t} : todo'[u] # <<>> =>
         /\ current_transaction' = "HEARTBEAT"
         /\ Head(todo[u]).op = "heartbeat" => CanStart' = CanStart
         /\ Head(todo'[u]) = Head(todo[u])
         /\ Head(todo[u]).op \in {"heartbeat", "leave", "exec"}
  BY <1>1, <1>2 DEF Is
<1>6. todo'[t] # <<>> => Head(todo'[t]).op \notin {"callback", "report", "leave"}
  BY <1>2 DEF Follows
<1>7. todo'[t] # <<>> /\ Head(todo'[t]).op \in OwnerOps => steps # <<>> /\ Head(todo'[t]) = Head(steps)
  BY <1>2 DEF Follows, OwnerOps
<1>8. todo'[t] # <<>> /\ Asking(Head(todo'[t])) =>
              /\ t = "app" /\ Asking(Head(todo[t]))
              /\ UNCHANGED <<state, cancel_invocation>>
              /\ current_transaction' = "NONE" => current_transaction = "NONE"
  <2>1. CASE steps # <<>>
    BY <1>2, <2>1
  <2>2. CASE steps = <<>> /\ op = "leave"
    BY <2>2
  <2>3. CASE steps = <<>> /\ op # "leave" /\ todo'[t] # <<>>
    <3>1. Head(todo'[t]).op = "error"
      BY <1>2, <2>3
    <3> QED BY <3>1 DEF Asking
  <2> QED BY <2>1, <2>2, <2>3
<1>9. WatcherAnswers'
  <2>1. CASE t = "watcher"
    BY <1>8, <2>1 DEF WatcherAnswers, Asking
  <2>2. CASE t = "app"
    BY <1>2, <1>3, <2>2 DEF WatcherAnswers, CallsInv, Asking
  <2> QED BY <1>3, <2>1, <2>2
<1>10. Meeting'
  BY <1>3, <1>5 DEF Meeting
<1>11. AfterEnd'
  BY <1>3, <1>5, <1>6 DEF AfterEnd, Is
<1>12. PreparedLeave'
  BY DEF PreparedLeave, CallsInv
<1>13. HeartbeatHeld'
  <2> SUFFICES ASSUME NEW u \in Threads, Is(u, {"heartbeat"})'
               PROVE  current_transaction' = "HEARTBEAT" /\ CanStart'
    BY DEF HeartbeatHeld, Is
  <2>1. todo'[u] # <<>> /\ Head(todo'[u]).op = "heartbeat"
    BY DEF Is
  <2>2. CASE u = t
    BY <1>7, <2>1, <2>2 DEF OwnerOps
  <2>3. CASE u # t
    BY <1>4, <1>5, <2>1, <2>3 DEF CallsInv, HeartbeatHeld
  <2> QED BY <2>2, <2>3
<1>14. CancelHeld'
  <2> SUFFICES ASSUME NEW u \in Threads, todo'[u] # <<>>,
                      Head(todo'[u]).op \in {"cancel", "cancelled"}
               PROVE  /\ current_transaction' = "NONE"
                      /\ Head(todo'[u]).op = "cancelled" => pb'.state = "WAIT_CANCEL"
    BY DEF CancelHeld, Is
  <2>1. u = t
    BY <1>5
  <2> QED BY <1>7, <2>1 DEF OwnerOps
<1>15. CancelKnown'
  <2> SUFFICES ASSUME pb'.state = "WAIT_CANCEL", cancel_invocation' = None
               PROVE  \E u \in Threads : Is(u, {"cancelled"})'
    BY DEF CancelKnown, Is
  <2>1. CASE steps # <<>> /\ Head(steps).op = "cancelled"
    BY <1>2, <2>1 DEF Is
  <2>2. CASE pb.state = "WAIT_CANCEL" /\ op # "cancelled" /\ UNCHANGED cancel_invocation
    <3>1. PICK u \in Threads : Is(u, {"cancelled"})
      BY <2>2 DEF CallsInv, CancelKnown
    <3>2. u # t
      BY <1>1, <2>2, <3>1 DEF Is
    <3> QED BY <1>4, <3>1, <3>2
  <2> QED BY <2>1, <2>2
<1>16. TransactionKnown'
  BY DEF TransactionKnown
<1> QED BY <1>2, <1>9, <1>10, <1>11, <1>12, <1>13, <1>14, <1>15, <1>16 DEF CallsInv

-----------------------------------------------------------------------------
(* The queue *)

\* Invocations have numbers from 1, so none is None.
LEMMA IdsAreNot ==
    /\ None \notin Ids
    /\ "CANCEL" \notin Requests
BY DEF None, Ids, Requests

\* Where no thread is at an invocation, two threads cannot both be in the engine
\* with no transaction in progress.
LEMMA NoneWaits ==
    ASSUME TInv, LeaveInv, CallsInv, QueueInv, LoopWindows, NEW t \in Threads, NEW op, At(t, op),
           op \notin {"exec", "done", "cancel", "cancelled", "callback"},
           current_transaction = "NONE", cancel_invocation = None
    PROVE  invocations = <<>>
<1>1. /\ todo[t] # <<>> /\ Head(todo[t]).op = op
      /\ \A u \in Threads \ {t} : todo[u] = <<>>
  BY Turn
<1>2. \A u \in Threads : ~ Is(u, {"exec", "done", "cancel", "cancelled", "callback"})
  BY <1>1 DEF Is
<1> QED BY <1>2 DEF QueueInv, Progress

\* A step that leaves the queue alone
LEMMA QueuePasses ==
    ASSUME TInv, LeaveInv, CallsInv, QueueInv, LoopWindows, NEW t \in Threads, NEW op, At(t, op),
           NEW steps \in Seq(Steps), Then(t, steps),
           \A i \in DOMAIN steps : i > 1 => steps[i].op = "error",
           steps # <<>> => Head(steps).op # "leave" /\ op # "leave",
           UNCHANGED <<invocations, cancel_invocation>>,
           current_transaction' = "NONE" => current_transaction = "NONE",
           steps # <<>> => Head(steps).op # "exec",
           steps # <<>> /\ Head(steps).op \in OwnerOps =>
              /\ op \in OwnerOps /\ Head(steps).id = Head(todo[t]).id
              /\ Head(steps).op \in {"cancel", "cancelled"} => op \in {"cancel", "cancelled"}
              /\ Head(steps).op # "heartbeat",
           op \in OwnerOps => steps # <<>> /\ Head(steps).op \in OwnerOps,
           op \in {"exec", "callback"} =>
              current_transaction' # "NONE" \/ cancel_invocation # None \/ invocations = <<>>
    PROVE  QueueInv'
<1>1. /\ todo[t] # <<>> /\ Head(todo[t]).op = op
      /\ \A u \in Threads \ {t} : todo[u] # <<>> =>
                 /\ current_transaction = "HEARTBEAT"
                 /\ \/ u = "watcher" /\ Is(u, {"heartbeat"})
                    \/ u = "app" /\ Is(u, {"leave"})
                    \/ u = "app" /\ Is(u, {"exec"}) /\ Head(todo[u]).id[1] \in Requests
  BY Turn
<1>2. /\ \A u \in Threads \ {t} : todo'[u] = todo[u]
      /\ steps # <<>> => todo'[t] # <<>> /\ Head(todo'[t]) = Head(steps)
      /\ steps = <<>> /\ todo'[t] # <<>> =>
            Head(todo'[t]).op = "error" \/ Follows(Head(todo'[t]))
  BY <1>1, ThenStack DEF CallsInv
<1>3. \A u \in Threads \ {t} : \A ops : Is(u, ops)' = Is(u, ops)
  BY <1>2 DEF Is
<1>4. todo'[t] # <<>> =>
         /\ Head(todo'[t]).op # "exec"
         /\ Head(todo'[t]).op \in OwnerOps =>
               steps # <<>> /\ Head(todo'[t]) = Head(steps) /\ Head(steps).op \in OwnerOps
  <2>1. CASE steps # <<>>
    BY <1>2, <2>1
  <2>2. CASE steps = <<>>
    BY <1>2, <2>2 DEF Follows, OwnerOps
  <2> QED BY <2>1, <2>2
<1>5. Unique' /\ Cancelling'
  BY DEF QueueInv, Unique, Cancelling, FirstIs
<1>6. Owner'
  <2> SUFFICES ASSUME NEW u \in Threads, todo'[u] # <<>>, Head(todo'[u]).op \in OwnerOps
               PROVE  /\ invocations # <<>> /\ invocations[1].id = Head(todo'[u]).id
                      /\ invocations[1].status = "RUNNING" /\ cancel_invocation = None
                      /\ Head(todo'[u]).op \in {"cancel", "cancelled"} => Head(todo'[u]).id[1] = "CANCEL"
                      /\ Head(todo'[u]).op = "heartbeat" => Head(todo'[u]).id[1] \in Requests
    BY DEF Owner, Is, FirstIs
  <2>1. CASE u = t
    <3>1. Is(t, OwnerOps) /\ Head(todo'[t]).id = Head(todo[t]).id
      BY <1>1, <1>4, <2>1 DEF Is
    <3>2. /\ invocations # <<>> /\ invocations[1].id = Head(todo[t]).id
          /\ invocations[1].status = "RUNNING" /\ cancel_invocation = None
          /\ op \in {"cancel", "cancelled"} => Head(todo[t]).id[1] = "CANCEL"
      BY <1>1, <3>1 DEF QueueInv, Owner, FirstIs
    <3> QED BY <1>4, <2>1, <3>1, <3>2
  <2>2. CASE u # t
    <3>1. Is(u, OwnerOps) /\ todo'[u] = todo[u]
      BY <1>2, <2>2 DEF Is
    <3> QED BY <3>1 DEF QueueInv, Owner, FirstIs
  <2> QED BY <2>1, <2>2
<1>7. \A u \in Threads : Is(u, OwnerOps)' <=> Is(u, OwnerOps)
  <2>1. Is(t, OwnerOps)' => Is(t, OwnerOps)
    BY <1>1, <1>4 DEF Is
  <2>2. Is(t, OwnerOps) => Is(t, OwnerOps)'
    BY <1>1, <1>2 DEF Is
  <2> QED BY <1>3, <2>1, <2>2
<1>8. OneOwner'
  <2>1. \A u, v \in Threads : Is(u, OwnerOps)' /\ Is(v, OwnerOps)' => u = v
    BY <1>7 DEF QueueInv, OneOwner
  <2> QED BY <2>1 DEF OneOwner, Is
<1>9. FirstRuns'
  <2> SUFFICES ASSUME NEW i \in DOMAIN invocations, invocations[i].status = "RUNNING"
               PROVE  i = 1 /\ (cancel_invocation = invocations[1].id
                                \/ \E u \in Threads : Is(u, OwnerOps)')
    BY DEF FirstRuns, Is
  <2> QED BY <1>7 DEF QueueInv, FirstRuns
<1>10. ExecFirst'
  <2> SUFFICES ASSUME NEW u \in Threads, Is(u, {"exec"})',
                      current_transaction' = "NONE" \/ Head(todo'[u]).id[1] \notin Requests \cup {"CANCEL"}
               PROVE  FALSE
    BY DEF ExecFirst, Is
  <2>1. u # t
    BY <1>4 DEF Is
  <2>2. Is(u, {"exec"}) /\ Head(todo'[u]) = Head(todo[u]) /\ todo[u] # <<>>
    BY <1>2, <1>3, <2>1 DEF Is
  <2>3. current_transaction = "HEARTBEAT" /\ Head(todo[u]).id[1] \in Requests
    BY <1>1, <2>1, <2>2 DEF Is
  <2> QED BY <2>2, <2>3
<1>11. Progress'
  <2> SUFFICES ASSUME current_transaction' = "NONE", cancel_invocation = None, invocations # <<>>
               PROVE  \E u \in Threads : Is(u, {"exec", "done", "cancel", "cancelled", "callback"})'
    BY DEF Progress, Is
  <2>1. op \in OwnerOps
    BY NoneWaits DEF OwnerOps
  <2>2. /\ Head(steps).op \in {"done", "cancel", "cancelled"}
        /\ todo'[t] # <<>> /\ Head(todo'[t]) = Head(steps)
    BY <1>2, <2>1 DEF OwnerOps
  <2> QED BY <2>2 DEF Is
<1> QED BY <1>5, <1>6, <1>8, <1>9, <1>10, <1>11 DEF QueueInv

\* The first invocation is found by its number.
LEMMA FirstIndex ==
    ASSUME invocations \in Seq(Invocations), Unique, NEW id, FirstIs(id)
    PROVE  /\ Queued(id) /\ Index(id) = 1 /\ Invocation(id) = invocations[1]
           /\ 1 \in DOMAIN invocations
<1>1. 1 \in DOMAIN invocations /\ invocations[1].id = id
  BY DEF FirstIs
<1>2. Index(id) \in DOMAIN invocations /\ invocations[Index(id)].id = id
  BY <1>1 DEF Index
<1>3. Index(id) = 1
  BY <1>1, <1>2 DEF Unique
<1> QED BY <1>1, <1>3 DEF Queued, Invocation

\* Each element of a sequence without one of them
LEMMA DropIndex ==
    ASSUME NEW S, NEW q \in Seq(S), NEW i \in DOMAIN q
    PROVE  /\ Drop(q, i) \in Seq(S) /\ Len(Drop(q, i)) = Len(q) - 1
           /\ \A k \in 1 .. Len(q) - 1 : Drop(q, i)[k] = IF k < i THEN q[k] ELSE q[k + 1]
<1>1. i \in 1..Len(q) /\ Len(q) \in Nat
  OBVIOUS
<1> DEFINE a == SubSeq(q, 1, i - 1)
           b == SubSeq(q, i + 1, Len(q))
<1>2. a \in Seq(S) /\ Len(a) = i - 1 /\ \A k \in 1..i - 1 : a[k] = q[k]
  BY <1>1
<1>3. b \in Seq(S) /\ Len(b) = Len(q) - i /\ \A k \in 1..Len(q) - i : b[k] = q[i + k]
  BY <1>1
<1> HIDE DEF a, b
<1> DEFINE r == a \o b
           n == Len(q)
<1>4. r \in Seq(S) /\ Len(r) = n - 1
  BY <1>1, <1>2, <1>3
<1>5. \A k \in Nat : 1 <= k /\ k <= n - 1 => r[k] = IF k < i THEN q[k] ELSE q[k + 1]
  BY <1>1, <1>2, <1>3
<1>6. Drop(q, i) = r /\ n \in Nat
  BY DEF Drop, a, b
<1> HIDE DEF r, n
<1>7. \A k \in 1 .. n - 1 : k \in Nat /\ 1 <= k /\ k <= n - 1
  BY <1>6
<1> QED BY <1>4, <1>5, <1>6, <1>7 DEF n

\* The threads after a step that turned into steps
LEMMA Stepped ==
    ASSUME TInv, LeaveInv, CallsInv, LoopWindows, NEW t \in Threads, NEW op, At(t, op),
           NEW steps \in Seq(Steps), Then(t, steps),
           \A i \in DOMAIN steps : i > 1 => steps[i].op = "error",
           steps # <<>> => Head(steps).op # "leave" /\ op # "leave"
    PROVE  /\ todo[t] # <<>> /\ Head(todo[t]).op = op /\ Head(todo[t]) \in Steps
           /\ \A u \in Threads \ {t} : todo'[u] = todo[u]
           /\ \A u \in Threads \ {t} : todo[u] # <<>> =>
                 /\ current_transaction = "HEARTBEAT"
                 /\ Head(todo[u]).op \in {"heartbeat", "leave", "exec"}
                 /\ Head(todo[u]).op = "exec" => Head(todo[u]).id[1] \in Requests
                 /\ Head(todo[u]).op = "heartbeat" => u = "watcher"
           /\ steps # <<>> => todo'[t] # <<>> /\ Head(todo'[t]) = Head(steps)
           /\ steps = <<>> /\ todo'[t] # <<>> =>
                 /\ Head(todo'[t]).op \notin OwnerOps \cup {"exec", "callback", "report", "leave"}
                 /\ op # "leave" => Head(todo'[t]).op = "error"
<1>1. /\ todo[t] # <<>> /\ Head(todo[t]).op = op /\ Head(todo[t]) \in Steps
      /\ \A u \in Threads \ {t} : todo[u] # <<>> =>
                 /\ current_transaction = "HEARTBEAT"
                 /\ \/ u = "watcher" /\ Is(u, {"heartbeat"})
                    \/ u = "app" /\ Is(u, {"leave"})
                    \/ u = "app" /\ Is(u, {"exec"}) /\ Head(todo[u]).id[1] \in Requests
  BY Turn
<1>2. /\ \A u \in Threads \ {t} : todo'[u] = todo[u]
      /\ steps # <<>> => todo'[t] # <<>> /\ Head(todo'[t]) = Head(steps)
      /\ steps = <<>> /\ todo'[t] # <<>> =>
                 \/ Head(todo[t]).op # "leave" /\ Head(todo'[t]).op = "error"
                 \/ Head(todo[t]).op = "leave" /\ t = "app" /\ Follows(Head(todo'[t]))
  BY <1>1, ThenStack DEF CallsInv
<1>3. steps = <<>> /\ todo'[t] # <<>> =>
                 /\ Head(todo'[t]).op \notin OwnerOps \cup {"exec", "callback", "report", "leave"}
                 /\ op # "leave" => Head(todo'[t]).op = "error"
  BY <1>1, <1>2 DEF Follows, OwnerOps
<1>4. \A u \in Threads \ {t} : todo[u] # <<>> =>
                 /\ current_transaction = "HEARTBEAT"
                 /\ Head(todo[u]).op \in {"heartbeat", "leave", "exec"}
                 /\ Head(todo[u]).op = "exec" => Head(todo[u]).id[1] \in Requests
                 /\ Head(todo[u]).op = "heartbeat" => u = "watcher"
  BY <1>1 DEF Is
<1> QED BY <1>1, <1>2, <1>3, <1>4

\* The first invocation is run: it is the only one running, and its thread owns it.
LEMMA QueueRuns ==
    ASSUME TInv, LeaveInv, CallsInv, QueueInv, LoopWindows, NEW t \in Threads, At(t, "exec"),
           NEW id, id = Head(todo[t]).id, FirstIs(id), invocations[1].status = "CREATED",
           NEW op \in {"done", "cancel", "heartbeat"},
           op = "cancel" => id[1] = "CANCEL",
           op = "heartbeat" => id[1] \in Requests /\ current_transaction' = "HEARTBEAT",
           NEW steps \in Seq(Steps), Then(t, steps), steps # <<>>, Head(steps) = With(op, id),
           \A i \in DOMAIN steps : i > 1 => steps[i].op = "error",
           invocations' \in Seq(Invocations), DOMAIN invocations' = DOMAIN invocations,
           \A i \in DOMAIN invocations :
              /\ invocations'[i].id = invocations[i].id
              /\ invocations'[i].status = IF i = 1 THEN "RUNNING" ELSE invocations[i].status,
           UNCHANGED cancel_invocation,
           current_transaction' = "NONE" => current_transaction = "NONE"
    PROVE  QueueInv'
<1>0. Head(steps).op = op /\ Head(steps).id = id /\ op # "leave"
  BY DEF With
<1>1. /\ todo[t] # <<>> /\ Head(todo[t]).op = "exec"
      /\ \A u \in Threads \ {t} : todo'[u] = todo[u]
      /\ \A u \in Threads \ {t} : todo[u] # <<>> =>
                 /\ current_transaction = "HEARTBEAT"
                 /\ Head(todo[u]).op \in {"heartbeat", "leave", "exec"}
                 /\ Head(todo[u]).op = "exec" => Head(todo[u]).id[1] \in Requests
      /\ todo'[t] # <<>> /\ Head(todo'[t]) = Head(steps)
  BY <1>0, Stepped
<1>2. 1 \in DOMAIN invocations /\ 1 \in DOMAIN invocations' /\ invocations' # <<>>
  BY DEF FirstIs, TInv
<1>3. invocations'[1].id = id /\ invocations'[1].status = "RUNNING"
  BY <1>2 DEF FirstIs
<1>4. cancel_invocation = None
  BY <1>2 DEF QueueInv, Cancelling
<1>5. \A u \in Threads : ~ Is(u, OwnerOps)
  BY <1>2 DEF QueueInv, Owner
<1>6. \A u \in Threads : Is(u, OwnerOps)' <=> u = t
  <2>1. Is(t, OwnerOps)'
    BY <1>0, <1>1 DEF Is, OwnerOps
  <2>2. \A u \in Threads \ {t} : ~ Is(u, OwnerOps)'
    BY <1>1, <1>5 DEF Is
  <2> QED BY <2>1, <2>2
<1>7. Unique'
  BY DEF QueueInv, Unique
<1>8. Cancelling'
  BY <1>4 DEF Cancelling
<1>9. Owner'
  <2> SUFFICES ASSUME NEW u \in Threads, Is(u, OwnerOps)'
               PROVE  /\ FirstIs(Head(todo[u]).id)' /\ invocations'[1].status = "RUNNING"
                      /\ cancel_invocation' = None
                      /\ Head(todo'[u]).op \in {"cancel", "cancelled"} => Head(todo'[u]).id[1] = "CANCEL"
                      /\ Head(todo'[u]).op = "heartbeat" => Head(todo'[u]).id[1] \in Requests
    BY DEF Owner, Is
  <2>1. u = t
    BY <1>6
  <2> QED BY <1>0, <1>1, <1>2, <1>3, <1>4, <2>1 DEF FirstIs
<1>10. OneOwner'
  <2>1. \A u, v \in Threads : Is(u, OwnerOps)' /\ Is(v, OwnerOps)' => u = v
    BY <1>6
  <2> QED BY <2>1 DEF OneOwner, Is
<1>11. FirstRuns'
  <2>1. \A i \in DOMAIN invocations : i # 1 => invocations[i].status # "RUNNING"
    BY DEF QueueInv, FirstRuns
  <2>2. \A i \in DOMAIN invocations' : invocations'[i].status = "RUNNING" => i = 1
    BY <2>1
  <2>3. Is(t, OwnerOps)'
    BY <1>6
  <2> QED BY <2>2, <2>3 DEF FirstRuns, Is
<1>12. ExecFirst'
  <2> SUFFICES ASSUME NEW u \in Threads, Is(u, {"exec"})',
                      current_transaction' = "NONE" \/ Head(todo'[u]).id[1] \notin Requests \cup {"CANCEL"}
               PROVE  FALSE
    BY DEF ExecFirst, Is
  <2>1. todo'[u] # <<>> /\ Head(todo'[u]).op = "exec"
    BY DEF Is
  <2>2. u # t
    BY <1>0, <1>1, <2>1
  <2> QED BY <1>1, <2>1, <2>2
<1>13. Progress'
  <2>1. CASE op = "heartbeat"
    BY <2>1 DEF Progress
  <2>2. CASE op # "heartbeat"
    <3>1. Is(t, {"exec", "done", "cancel", "cancelled", "callback"})'
      BY <1>0, <1>1, <2>2 DEF Is
    <3> QED BY <3>1 DEF Progress, Is
  <2> QED BY <2>1, <2>2
<1> QED BY <1>7, <1>8, <1>9, <1>10, <1>11, <1>12, <1>13 DEF QueueInv

\* pbcc_ee_process_next_invocation runs the first of the queue.
LEMMA NextFirst ==
    ASSUME NEW q \in Seq(Invocations)
    PROVE  /\ ProcessNext(q) \in Seq(Steps)
           /\ \A i \in DOMAIN ProcessNext(q) : i > 1 => ProcessNext(q)[i].op = "error"
           /\ q = <<>> => ProcessNext(q) = <<>>
           /\ q # <<>> => /\ ProcessNext(q) # <<>> /\ Head(ProcessNext(q)).op = "exec"
                          /\ Head(ProcessNext(q)).id = q[1].id
<1>1. ProcessNext(q) \in Seq(Steps)
  BY ProcessNextTyped
<1>2. CASE q = <<>>
  <2>1. ProcessNext(q) = <<>>
    BY <1>2 DEF ProcessNext
  <2> QED BY <1>1, <1>2, <2>1
<1>3. CASE q # <<>>
  <2> DEFINE s == With("exec", q[1].id)
  <2>1. ProcessNext(q) = <<s>> /\ s.op = "exec" /\ s.id = q[1].id
    BY <1>3 DEF ProcessNext, With
  <2> HIDE DEF s
  <2>2. <<s>> # <<>> /\ Head(<<s>>) = s /\ DOMAIN <<s>> = 1..1
    OBVIOUS
  <2> QED BY <1>1, <1>3, <2>1, <2>2
<1> QED BY <1>2, <1>3

\* One step on a stack
LEMMA OneStep ==
    ASSUME NEW s \in Steps
    PROVE  /\ <<s>> \in Seq(Steps) /\ <<s>> # <<>> /\ Head(<<s>>) = s
           /\ \A i \in DOMAIN <<s>> : i > 1 => <<s>>[i].op = "error"
<1>1. <<s>> \in Seq(Steps) /\ <<s>> # <<>> /\ Head(<<s>>) = s /\ DOMAIN <<s>> = 1..1
  OBVIOUS
<1> QED BY <1>1

\* No step on a stack
LEMMA NoStep ==
    /\ <<>> \in Seq(Steps)
    /\ \A i \in DOMAIN <<>> : i > 1 => <<>>[i].op = "error"
OBVIOUS

\* The queue when nothing is running: the next to be run is the first.
LEMMA QueueAtRest ==
    ASSUME Unique', cancel_invocation' = None,
           \A i \in DOMAIN invocations' : invocations'[i].status # "RUNNING",
           \A t \in Threads : todo'[t] # <<>> =>
              /\ Head(todo'[t]).op \notin OwnerOps
              /\ Head(todo'[t]).op = "exec" =>
                    \/ FirstIs(Head(todo[t]).id)'
                    \/ current_transaction' # "NONE" /\ Head(todo'[t]).id[1] \in Requests,
           Progress'
    PROVE  QueueInv'
<1>1. \A t \in Threads : ~ Is(t, OwnerOps)'
  BY DEF Is
<1>2. Owner' /\ OneOwner'
  BY <1>1 DEF Owner, OneOwner, Is
<1>3. FirstRuns' /\ Cancelling'
  BY DEF FirstRuns, Cancelling
<1>4. ExecFirst'
  BY DEF ExecFirst, Is, FirstIs
<1> QED BY <1>2, <1>3, <1>4 DEF QueueInv

\* The end of an effect takes the first invocation out, and runs the next.
LEMMA QueueCompletes ==
    ASSUME TInv, LeaveInv, CallsInv, QueueInv, LoopWindows, NEW t \in Threads, Complete(t)
    PROVE  /\ QueueInv' /\ CallsInv'
           /\ invocations # <<>> /\ invocations[1].status = "RUNNING"
           /\ invocations' = Drop(invocations, 1)
<1> DEFINE id == Head(todo[t]).id
<1>1. At(t, "done") /\ invocations' = Completed(id)
      /\ Then(t, IF invocations' # invocations THEN ProcessNext(invocations') ELSE <<>>)
      /\ UNCHANGED <<state, context, status, flags, leave, calls, pb, now, delivery, owed>>
  BY DEF Complete
<1>2. todo[t] # <<>> /\ Head(todo[t]).op = "done"
  BY <1>1 DEF At
<1>3. Is(t, OwnerOps)
  BY <1>2 DEF Is, OwnerOps
<1>4. FirstIs(id) /\ invocations[1].status = "RUNNING" /\ cancel_invocation = None
  BY <1>3 DEF QueueInv, Owner
<1>5. invocations \in Seq(Invocations)
  BY DEF TInv
<1>6. Queued(id) /\ Index(id) = 1 /\ 1 \in DOMAIN invocations
  BY <1>4, <1>5, FirstIndex DEF QueueInv
<1>7. invocations' = Drop(invocations, 1)
  BY <1>1, <1>4, <1>6, Zenon DEF Completed
<1>8. /\ invocations' \in Seq(Invocations) /\ Len(invocations') = Len(invocations) - 1
      /\ \A k \in 1 .. Len(invocations) - 1 : invocations'[k] = IF k < 1 THEN invocations[k] ELSE invocations[k + 1]
  BY <1>5, <1>6, <1>7, DropIndex
<1>9. Len(invocations) \in Nat /\ Len(invocations) >= 1 /\ DOMAIN invocations = 1 .. Len(invocations)
      /\ DOMAIN invocations' = 1 .. Len(invocations) - 1 /\ invocations' # invocations
  BY <1>5, <1>6, <1>8
<1>10. \A k \in DOMAIN invocations' : k + 1 \in DOMAIN invocations /\ k + 1 # 1
                                      /\ invocations'[k] = invocations[k + 1]
  BY <1>8, <1>9
<1> DEFINE steps == ProcessNext(invocations')
<1>11. Then(t, steps)
  BY <1>1, <1>9
<1>12. /\ steps \in Seq(Steps) /\ \A i \in DOMAIN steps : i > 1 => steps[i].op = "error"
       /\ invocations' = <<>> => steps = <<>>
       /\ invocations' # <<>> => /\ steps # <<>> /\ Head(steps).op = "exec"
                                 /\ Head(steps).id = invocations'[1].id
  BY <1>8, NextFirst
<1> HIDE DEF steps
<1>13. UNCHANGED <<state, current_transaction, cancel_invocation, pb>>
  BY <1>1 DEF flags
<1>14. /\ \A u \in Threads \ {t} : todo'[u] = todo[u]
       /\ \A u \in Threads \ {t} : todo[u] # <<>> =>
                 /\ current_transaction = "HEARTBEAT"
                 /\ Head(todo[u]).op \in {"heartbeat", "leave", "exec"}
                 /\ Head(todo[u]).op = "exec" => Head(todo[u]).id[1] \in Requests
       /\ steps # <<>> => todo'[t] # <<>> /\ Head(todo'[t]) = Head(steps)
       /\ steps = <<>> /\ todo'[t] # <<>> => Head(todo'[t]).op \notin OwnerOps \cup {"exec", "callback", "report"}
  BY <1>1, <1>11, <1>12, Stepped
<1>15. \A u \in Threads \ {t} : ~ Is(u, OwnerOps)
  BY <1>3 DEF QueueInv, OneOwner
<1>16. Unique'
  <2> SUFFICES ASSUME NEW i \in DOMAIN invocations', NEW j \in DOMAIN invocations',
                      invocations'[i].id = invocations'[j].id
               PROVE  i = j
    BY DEF Unique
  <2>1. i + 1 = j + 1
    BY <1>10 DEF QueueInv, Unique
  <2> QED BY <1>9, <2>1
<1>17. \A i \in DOMAIN invocations' : invocations'[i].status # "RUNNING"
  BY <1>10 DEF QueueInv, FirstRuns
<1>18. \A u \in Threads : todo'[u] # <<>> =>
              /\ Head(todo'[u]).op \notin OwnerOps
              /\ Head(todo'[u]).op = "exec" =>
                    \/ FirstIs(Head(todo[u]).id)'
                    \/ current_transaction' # "NONE" /\ Head(todo'[u]).id[1] \in Requests
  <2> SUFFICES ASSUME NEW u \in Threads, todo'[u] # <<>>
               PROVE  /\ Head(todo'[u]).op \notin OwnerOps
                      /\ Head(todo'[u]).op = "exec" =>
                          \/ FirstIs(Head(todo[u]).id)'
                          \/ current_transaction' # "NONE" /\ Head(todo'[u]).id[1] \in Requests
    OBVIOUS
  <2>1. CASE u = t
    BY <1>12, <1>14, <2>1 DEF OwnerOps, FirstIs
  <2>2. CASE u # t
    BY <1>13, <1>14, <1>15, <2>2 DEF Is
  <2> QED BY <2>1, <2>2
<1>19. Progress'
  <2> SUFFICES ASSUME invocations' # <<>>
               PROVE  \E u \in Threads : Is(u, {"exec", "done", "cancel", "cancelled", "callback"})'
    BY DEF Progress, Is
  <2> QED BY <1>12, <1>14 DEF Is
<1>20. QueueInv'
  BY <1>4, <1>13, <1>16, <1>17, <1>18, <1>19, QueueAtRest
<1>21. CallsInv'
  <2>1. pb'.requeued \in BOOLEAN
    BY <1>13, PbFacts DEF TInv
  <2>2. steps # <<>> => Head(steps).op = "exec" /\ ~ Asking(Head(steps))
    BY <1>12 DEF Asking
  <2>3. (CanStart)' = CanStart
    BY <1>13 DEF CanStart
  <2>4. pb'.state = "WAIT_CANCEL" => pb.state = "WAIT_CANCEL" /\ UNCHANGED cancel_invocation
    BY <1>13
  <2>5. pb'.state = "BUSY" /\ pb'.trans \notin Requests => current_transaction' # "NONE"
    BY <1>13 DEF CallsInv, TransactionKnown
  <2> QED BY <1>1, <1>11, <1>12, <1>13, <2>1, <2>2, <2>3, <2>4, <2>5, CallsKept
<1> QED BY <1>4, <1>6, <1>7, <1>20, <1>21

-----------------------------------------------------------------------------
(* Requests and cancels *)

\* Sequence r is what is left of q, in order: every cancel that has not run is.
Selects(f, r, q) ==
    /\ f \in [DOMAIN r -> DOMAIN q]
    /\ \A i, j \in DOMAIN r : i < j <=> f[i] < f[j]
    /\ \A i \in DOMAIN r : r[i].id = q[f[i]].id /\ r[i].ctx = q[f[i]].ctx
    /\ \A j \in DOMAIN q : CancelAt(q, j) => \E i \in DOMAIN r : f[i] = j /\ CancelAt(r, i)

\* ... and none of its requests was set back.
NoneSetBack(f, r, q) ==
    \A i \in DOMAIN r : RequestAt(r, i) /\ r[i].status = "CREATED" => q[f[i]].status = "CREATED"

\* What is left of a queue keeps its order.
LEMMA OrderKept ==
    ASSUME NEW q \in Seq(Invocations), NEW r \in Seq(Invocations), NEW f, Selects(f, r, q)
    PROVE  /\ \A s, c : Covered(q, s, c) => Covered(r, s, c)
           /\ Separate(q) => Separate(r)
           /\ NoneSetBack(f, r, q) /\ Behind(q) => Behind(r)
           /\ (\E j \in DOMAIN q : CancelAt(q, j)) => \E j \in DOMAIN r : CancelAt(r, j)
<1>1. /\ f \in [DOMAIN r -> DOMAIN q]
      /\ \A i, j \in DOMAIN r : i < j <=> f[i] < f[j]
      /\ \A i \in DOMAIN r : r[i].id = q[f[i]].id /\ r[i].ctx = q[f[i]].ctx
      /\ \A j \in DOMAIN q : CancelAt(q, j) => \E i \in DOMAIN r : f[i] = j /\ CancelAt(r, i)
  BY DEF Selects
<1>2. \A i \in DOMAIN r : f[i] \in DOMAIN q
  BY <1>1
<1>3. ASSUME NEW s, NEW c, Covered(q, s, c) PROVE Covered(r, s, c)
  <2> SUFFICES ASSUME NEW i \in DOMAIN r, RequestAt(r, i)
               PROVE  \/ ForState(r[i].id[1], s) /\ r[i].ctx.channels = c.channels
                      \/ \E j \in DOMAIN r : i < j /\ CancelAt(r, j)
    BY DEF Covered
  <2>1. f[i] \in DOMAIN q /\ RequestAt(q, f[i]) /\ r[i].id = q[f[i]].id /\ r[i].ctx = q[f[i]].ctx
    BY <1>1, <1>2 DEF RequestAt
  <2>2. CASE ForState(q[f[i]].id[1], s) /\ q[f[i]].ctx.channels = c.channels
    BY <2>1, <2>2
  <2>3. CASE \E j \in DOMAIN q : f[i] < j /\ CancelAt(q, j)
    <3>1. PICK j \in DOMAIN q : f[i] < j /\ CancelAt(q, j)
      BY <2>3
    <3>2. PICK k \in DOMAIN r : f[k] = j /\ CancelAt(r, k)
      BY <1>1, <3>1
    <3>3. i < k
      BY <1>1, <3>1, <3>2
    <3> QED BY <3>2, <3>3
  <2> QED BY <1>3, <2>1, <2>2, <2>3 DEF Covered
<1>4. ASSUME Separate(q) PROVE Separate(r)
  <2> SUFFICES ASSUME NEW i \in DOMAIN r, NEW k \in DOMAIN r, i < k, RequestAt(r, i), RequestAt(r, k)
               PROVE  \E j \in DOMAIN r : i < j /\ j < k /\ CancelAt(r, j)
    BY DEF Separate
  <2>1. /\ f[i] \in DOMAIN q /\ RequestAt(q, f[i]) /\ f[k] \in DOMAIN q /\ RequestAt(q, f[k])
        /\ f[i] < f[k]
    BY <1>1, <1>2 DEF RequestAt
  <2>2. PICK j \in DOMAIN q : f[i] < j /\ j < f[k] /\ CancelAt(q, j)
    BY <1>4, <2>1 DEF Separate
  <2>3. PICK m \in DOMAIN r : f[m] = j /\ CancelAt(r, m)
    BY <1>1, <2>2
  <2>4. i < m /\ m < k
    BY <1>1, <2>2, <2>3
  <2> QED BY <2>3, <2>4
<1>5. ASSUME NoneSetBack(f, r, q), Behind(q) PROVE Behind(r)
  <2> SUFFICES ASSUME NEW i \in DOMAIN r, RequestAt(r, i), r[i].status = "CREATED"
               PROVE  \E j \in DOMAIN r : j < i /\ CancelAt(r, j)
    BY DEF Behind
  <2>1. f[i] \in DOMAIN q /\ RequestAt(q, f[i]) /\ q[f[i]].status = "CREATED"
    BY <1>1, <1>2, <1>5 DEF RequestAt, NoneSetBack
  <2>2. PICK j \in DOMAIN q : j < f[i] /\ CancelAt(q, j)
    BY <1>5, <2>1 DEF Behind
  <2>3. PICK m \in DOMAIN r : f[m] = j /\ CancelAt(r, m)
    BY <1>1, <2>2
  <2>4. m < i
    BY <1>1, <2>2, <2>3
  <2> QED BY <2>3, <2>4
<1>6. ASSUME NEW j \in DOMAIN q, CancelAt(q, j) PROVE \E i \in DOMAIN r : CancelAt(r, i)
  BY <1>1, <1>6
<1> QED BY <1>3, <1>4, <1>5, <1>6

\* A queue less one invocation, not a cancel that has not run
LEMMA DropSelects ==
    ASSUME NEW q \in Seq(Invocations), NEW d \in DOMAIN q, ~ CancelAt(q, d)
    PROVE  \E f : /\ Selects(f, Drop(q, d), q) /\ NoneSetBack(f, Drop(q, d), q)
                  /\ \A i \in DOMAIN Drop(q, d) : Drop(q, d)[i] = q[f[i]]
<1> DEFINE r == Drop(q, d)
           n == Len(q)
           f == [i \in 1 .. n - 1 |-> IF i < d THEN i ELSE i + 1]
<1>1. /\ r \in Seq(Invocations) /\ Len(r) = n - 1
      /\ \A k \in 1 .. n - 1 : r[k] = IF k < d THEN q[k] ELSE q[k + 1]
  BY DropIndex
<1>2. n \in Nat /\ DOMAIN q = 1..n /\ DOMAIN r = 1 .. n - 1 /\ d \in 1..n
  BY <1>1
<1> HIDE DEF n, r
<1>3. f \in [DOMAIN r -> DOMAIN q] /\ \A i \in DOMAIN r : f[i] = IF i < d THEN i ELSE i + 1
  BY <1>2
<1> HIDE DEF f
<1>4. \A i, j \in DOMAIN r : i < j <=> f[i] < f[j]
  BY <1>2, <1>3
<1>5. \A i \in DOMAIN r : r[i] = q[f[i]]
  BY <1>1, <1>2, <1>3
<1>6. ASSUME NEW j \in DOMAIN q, CancelAt(q, j) PROVE \E i \in DOMAIN r : f[i] = j /\ CancelAt(r, i)
  <2>1. j # d
    BY <1>6
  <2>2. CASE j < d
    <3>1. j \in DOMAIN r /\ f[j] = j
      BY <1>2, <1>3, <2>2
    <3> QED BY <1>5, <1>6, <3>1 DEF CancelAt
  <2>3. CASE d < j
    <3>1. j - 1 \in DOMAIN r /\ f[j - 1] = j
      BY <1>2, <1>3, <2>3
    <3> QED BY <1>5, <1>6, <3>1 DEF CancelAt
  <2> QED BY <1>2, <2>1, <2>2, <2>3
<1>7. Selects(f, r, q) /\ NoneSetBack(f, r, q)
  BY <1>3, <1>4, <1>5, <1>6 DEF Selects, NoneSetBack
<1> QED BY <1>5, <1>7 DEF r

\* The whole queue
LEMMA AllSelects ==
    ASSUME NEW q \in Seq(Invocations), NEW r \in Seq(Invocations), DOMAIN r = DOMAIN q,
           \A i \in DOMAIN q : r[i].id = q[i].id /\ r[i].ctx = q[i].ctx,
           \A i \in DOMAIN q : CancelAt(q, i) => r[i].status = "CREATED"
    PROVE  \E f : /\ Selects(f, r, q)
                  /\ (\A i \in DOMAIN q : r[i].status = "CREATED" => q[i].status = "CREATED")
                        => NoneSetBack(f, r, q)
<1> DEFINE f == [i \in DOMAIN r |-> i]
<1>1. f \in [DOMAIN r -> DOMAIN q] /\ \A i \in DOMAIN r : f[i] = i
  OBVIOUS
<1> HIDE DEF f
<1>2. ASSUME NEW j \in DOMAIN q, CancelAt(q, j) PROVE \E i \in DOMAIN r : f[i] = j /\ CancelAt(r, i)
  BY <1>1, <1>2 DEF CancelAt
<1>3. Selects(f, r, q)
  BY <1>1, <1>2 DEF Selects
<1>4. (\A i \in DOMAIN q : r[i].status = "CREATED" => q[i].status = "CREATED") => NoneSetBack(f, r, q)
  BY <1>1 DEF NoneSetBack
<1> QED BY <1>3, <1>4

\* A step that leaves the state alone and starts no subscribe request keeps the
\* order of requests and cancels.
LEMMA RequestsKept ==
    ASSUME RequestsInv, TInv, TInv', UNCHANGED <<state, context>>, NEW f,
           Selects(f, invocations', invocations),
           Live' => /\ Live /\ pb'.trans = pb.trans /\ pb'.channels = pb.channels
                    /\ AtCancel => AtCancel'
                    /\ NoneSetBack(f, invocations', invocations)
    PROVE  RequestsInv'
<1>1. invocations \in Seq(Invocations) /\ invocations' \in Seq(Invocations)
  BY DEF TInv
<1>2. /\ \A s, c : Covered(invocations, s, c) => Covered(invocations', s, c)
      /\ Separate(invocations) => Separate(invocations')
      /\ NoneSetBack(f, invocations', invocations) /\ Behind(invocations) => Behind(invocations')
      /\ (\E j \in DOMAIN invocations : CancelAt(invocations, j))
            => \E j \in DOMAIN invocations' : CancelAt(invocations', j)
  BY <1>1, OrderKept
<1>3. Covered(invocations, state, context) /\ Separate(invocations) /\ Answered
      /\ (Live => AtCancel \/ Behind(invocations))
  BY DEF RequestsInv
<1>4. Covered(invocations', state', context') /\ Separate(invocations')
  BY <1>2, <1>3
<1>5. Live' => \/ ForState(pb'.trans, state') /\ pb'.channels = context'.channels
               \/ \E j \in DOMAIN invocations' : CancelAt(invocations', j)
               \/ AtCancel'
  BY <1>2, <1>3 DEF Answered
<1>6. Live' => AtCancel' \/ Behind(invocations')
  BY <1>2, <1>3
<1> QED BY <1>4, <1>5, <1>6 DEF RequestsInv, Answered

-----------------------------------------------------------------------------
(* Channels *)

\* What an event says of the channels
Tells(ev) == /\ ev.type \in Fresh => ev.ctx.channels = subscribables
             /\ ev.type \notin Fresh \cup {"UNSUBSCRIBE_ALL"} => ev.ctx.channels = context.channels

\* A step that leaves the state and the subscriptions alone
LEMMA ChannelsKept ==
    ASSUME TInv, LeaveInv, CallsInv, ChannelsInv, LoopWindows, NEW t \in Threads, NEW op, At(t, op),
           NEW steps \in Seq(Steps), Then(t, steps),
           \A i \in DOMAIN steps : i > 1 => steps[i].op = "error",
           steps # <<>> => Head(steps).op # "leave" /\ op # "leave",
           UNCHANGED <<state, context, subscribables>>,
           steps # <<>> /\ Head(steps).op = "event" => Tells(Head(steps)),
           t = "app" /\ Refreshes(Head(todo[t])) =>
              op = "leave" \/ (steps # <<>> /\ Refreshes(Head(steps)))
    PROVE  ChannelsInv'
<1>1. /\ todo[t] # <<>> /\ Head(todo[t]).op = op /\ todo[t] \in Seq(Steps)
      /\ \A u \in Threads \ {t} : todo'[u] = todo[u]
      /\ \A u \in Threads \ {t} : todo[u] # <<>> => Head(todo[u]).op \in {"heartbeat", "leave", "exec"}
      /\ steps # <<>> => todo'[t] # <<>> /\ Head(todo'[t]) = Head(steps)
  BY Stepped DEF TInv
<1>2. steps = <<>> /\ todo'[t] # <<>> =>
            \/ op # "leave" /\ Head(todo'[t]).op = "error"
            \/ op = "leave" /\ t = "app" /\ Follows(Head(todo'[t]))
  <2>1. steps # <<>> => Head(steps).op # "leave" /\ Head(todo[t]).op # "leave"
    BY <1>1
  <2>2. \/ Head(todo[t]).op # "leave" /\ Head(todo'[t]).op = "error"
        \/ Head(todo[t]).op = "leave" /\ t = "app" /\ Follows(Head(todo'[t]))
        \/ ~ (steps = <<>> /\ todo'[t] # <<>>)
    BY <1>1, <2>1, ThenStack DEF CallsInv
  <2> QED BY <1>1, <2>2
<1>3. op = "leave" => t = "app" /\ steps = <<>> /\ todo'[t] # <<>> /\ Refreshes(Head(todo'[t]))
  <2> SUFFICES ASSUME op = "leave"
               PROVE  t = "app" /\ steps = <<>> /\ todo'[t] # <<>> /\ Refreshes(Head(todo'[t]))
    OBVIOUS
  <2>1. Len(todo[t]) = 2 /\ steps = <<>> /\ t = "app"
    BY <1>1 DEF CallsInv, Stack, Is
  <2>2. todo'[t] = steps \o Tail(todo[t])
    BY <1>1, ThenTyped DEF TInv
  <2>3. todo'[t] # <<>>
    <3> DEFINE rest == Tail(todo[t])
    <3>1. rest \in Seq(Steps) /\ Len(rest) = 1
      BY <1>1, <2>1
    <3> HIDE DEF rest
    <3>2. <<>> \o rest = rest /\ rest # <<>>
      <4>1. <<>> \o rest = rest
        BY <3>1, ConcatEmptySeq
      <4>2. rest # <<>>
        <5> SUFFICES ASSUME rest = <<>> PROVE FALSE
          OBVIOUS
        <5>1. Len(rest) = 0
          BY Zenon, EmptySeq
        <5> QED BY <3>1, <5>1
      <4> QED BY <4>1, <4>2
    <3> QED BY <2>1, <2>2, <3>2 DEF rest
  <2> QED BY <1>2, <2>1, <2>3 DEF Follows, Refreshes
<1>4. CurrentChannels'
  <2> SUFFICES ASSUME state' # "UNSUBSCRIBED", context'.channels # subscribables'
               PROVE  todo'["app"] # <<>> /\ Refreshes(Head(todo'["app"]))
    BY DEF CurrentChannels, Refreshes
  <2>1. todo["app"] # <<>> /\ Refreshes(Head(todo["app"]))
    BY DEF ChannelsInv, CurrentChannels
  <2>2. CASE t = "app"
    BY <1>1, <1>3, <2>1, <2>2
  <2>3. CASE t # "app"
    BY <1>1, <2>1, <2>3 DEF Threads
  <2> QED BY <2>2, <2>3
<1>5. EventChannels'
  <2> SUFFICES ASSUME NEW u \in Threads, todo'[u] # <<>>, Head(todo'[u]).op = "event"
               PROVE  LET ev == Head(todo'[u])
                      IN  /\ ev.type \in Fresh => ev.ctx.channels = subscribables'
                          /\ ev.type \notin Fresh \cup {"UNSUBSCRIBE_ALL"} => ev.ctx.channels = context'.channels
    BY DEF EventChannels, Is
  <2>1. u = t
    BY <1>1
  <2>2. CASE steps # <<>>
    BY <1>1, <2>1, <2>2 DEF Tells
  <2>3. CASE steps = <<>>
    BY <1>2, <2>1, <2>3 DEF Follows, Fresh
  <2> QED BY <2>2, <2>3
<1> QED BY <1>4, <1>5 DEF ChannelsInv

-----------------------------------------------------------------------------
(* The steps of a thread *)

LoopInv == CallsInv /\ QueueInv /\ RequestsInv /\ ChannelsInv

\* Where LoopInv ends: a second cancel is about to begin while the first waits for
\* its callback (pbcc_subscribe_ee_cancel_effect).
Doubled == /\ cancel_invocation # None /\ current_transaction = "NONE"
           /\ \E t \in Threads : /\ Is(t, {"exec"}) /\ Head(todo[t]).id[1] = "CANCEL"
                                /\ Head(todo[t]).id # cancel_invocation

\* A step that only goes on to an event, or returns
LEMMA Passes ==
    ASSUME TInv, TInv', LeaveInv, LoopInv, LoopWindows, NEW t \in Threads, NEW op, At(t, op),
           op \notin OwnerOps, op \notin {"leave", "event", "callback"},
           NEW steps \in Seq(Steps), Then(t, steps),
           \A i \in DOMAIN steps : i > 1 => steps[i].op = "error",
           UNCHANGED <<state, context, invocations, cancel_invocation, subscribables,
                       current_transaction>>,
           pb'.state = pb.state, pb'.trans = pb.trans, pb'.channels = pb.channels,
           pb'.requeued = pb.requeued,
           steps # <<>> => /\ Head(steps).op = "event" /\ Tells(Head(steps)) /\ op # "exec"
                           /\ Head(steps).type \in AppTypes => op = "changed",
           op = "changed" => steps # <<>> /\ Head(steps).type \in Fresh,
           op = "exec" =>
              current_transaction # "NONE" \/ cancel_invocation # None \/ invocations = <<>>
    PROVE  LoopInv'
<1>1. /\ todo[t] # <<>> /\ Head(todo[t]).op = op
      /\ \A u \in Threads \ {t} : todo'[u] = todo[u]
  <2>1. steps # <<>> => Head(steps).op # "leave" /\ op # "leave"
    OBVIOUS
  <2> QED BY <2>1, Stepped DEF LoopInv
<1>2. op = "changed" => t = "app" /\ Asking(Head(todo[t]))
  BY <1>1 DEF LoopInv, CallsInv, WatcherAnswers, Asking, Threads
<1>3. steps # <<>> /\ Asking(Head(steps)) => op = "changed"
  BY DEF Asking
<1>4. (CanStart)' = CanStart /\ pb'.requeued \in BOOLEAN
  BY PbFacts DEF CanStart, TInv
<1>5. "cancelled" \in OwnerOps
  BY DEF OwnerOps
<1>6. pb'.state = "BUSY" /\ pb'.trans \notin Requests => current_transaction' # "NONE"
  BY DEF LoopInv, CallsInv, TransactionKnown
<1>7. CallsInv'
  <2>1. steps # <<>> =>
              /\ op # "leave" /\ Head(steps).op \notin {"leave", "callback", "report"}
              /\ Head(steps).op = "heartbeat" => current_transaction' = "HEARTBEAT" /\ CanStart'
              /\ Head(steps).op \in {"cancel", "cancelled"} => current_transaction' = "NONE"
              /\ Head(steps).op = "cancelled" => pb'.state = "WAIT_CANCEL"
    OBVIOUS
  <2>2. (steps # <<>> /\ Asking(Head(steps))) \/ op = "leave" =>
              /\ t = "app" /\ Asking(Head(todo[t]))
              /\ UNCHANGED <<state, cancel_invocation>>
              /\ current_transaction' = "NONE" => current_transaction = "NONE"
    BY <1>2, <1>3
  <2>3. pb'.state = "WAIT_CANCEL" =>
              \/ cancel_invocation' # None
              \/ steps # <<>> /\ Head(steps).op = "cancelled"
              \/ pb.state = "WAIT_CANCEL" /\ op # "cancelled" /\ UNCHANGED cancel_invocation
    BY <1>5
  <2> QED BY <1>4, <1>6, <2>1, <2>2, <2>3, CallsKept DEF LoopInv
<1>8. QueueInv'
  <2>1. steps # <<>> => Head(steps).op \notin OwnerOps /\ Head(steps).op # "exec"
    BY DEF OwnerOps
  <2> QED BY <2>1, QueuePasses DEF LoopInv
<1>9. RequestsInv'
  <2>1. invocations \in Seq(Invocations)
    BY DEF TInv
  <2>2. \A i \in DOMAIN invocations : CancelAt(invocations, i) => invocations[i].status = "CREATED"
    BY DEF CancelAt
  <2>3. PICK f : Selects(f, invocations, invocations) /\ NoneSetBack(f, invocations, invocations)
    BY <2>1, <2>2, AllSelects
  <2>4. AtCancel => AtCancel'
    <3>1. ~ Is(t, {"cancel"})
      BY <1>1 DEF Is, OwnerOps
    <3>2. \A u \in Threads \ {t} : Is(u, {"cancel"})' = Is(u, {"cancel"})
      BY <1>1 DEF Is
    <3> QED BY <3>1, <3>2 DEF AtCancel, Is
  <2>5. Live' => Live /\ pb'.trans = pb.trans /\ pb'.channels = pb.channels
    BY DEF Live
  <2> QED BY <2>3, <2>4, <2>5, RequestsKept DEF LoopInv
<1>10. ChannelsInv'
  <2>1. t = "app" /\ Refreshes(Head(todo[t])) => steps # <<>> /\ Refreshes(Head(steps))
    BY <1>1 DEF Refreshes
  <2> QED BY <2>1, ChannelsKept DEF LoopInv
<1> QED BY <1>7, <1>8, <1>9, <1>10 DEF LoopInv

\* A step that only returns
LEMMA Returns ==
    ASSUME TInv, TInv', LeaveInv, LoopInv, LoopWindows, NEW t \in Threads, NEW op, At(t, op),
           op \notin OwnerOps, op \notin {"leave", "event", "callback", "changed"},
           Return(t),
           UNCHANGED <<state, context, invocations, cancel_invocation, subscribables,
                       current_transaction>>,
           pb'.state = pb.state, pb'.trans = pb.trans, pb'.channels = pb.channels,
           pb'.requeued = pb.requeued,
           op = "exec" =>
              current_transaction # "NONE" \/ cancel_invocation # None \/ invocations = <<>>
    PROVE  LoopInv'
<1> DEFINE steps == <<>>
<1>1. steps \in Seq(Steps) /\ Then(t, steps) /\ steps = <<>>
  BY DEF Return
<1>2. \A i \in DOMAIN steps : i > 1 => steps[i].op = "error"
  BY NoStep
<1> HIDE DEF steps
<1>3. ~ (steps # <<>>)
  BY <1>1
<1>4. op # "changed"
  OBVIOUS
<1> QED BY <1>1, <1>2, <1>3, <1>4, Passes

\* What is known of an invocation that is about to be run
LEMMA AtExec ==
    ASSUME TInv, LeaveInv, LoopInv, LoopWindows, NEW t \in Threads, At(t, "exec"),
           NEW id, id = Head(todo[t]).id
    PROVE  /\ id \in Ids /\ id # None
           /\ \A u \in Threads : ~ Is(u, {"cancel", "cancelled"})
           /\ current_transaction = "NONE" \/ id[1] \notin Requests \cup {"CANCEL"} =>
                 /\ FirstIs(id) /\ Queued(id) /\ Index(id) = 1 /\ Invocation(id) = invocations[1]
                 /\ 1 \in DOMAIN invocations
<1>1. /\ todo[t] # <<>> /\ Head(todo[t]).op = "exec" /\ Head(todo[t]) \in Steps
      /\ \A u \in Threads \ {t} : todo[u] # <<>> =>
                 /\ current_transaction = "HEARTBEAT"
                 /\ \/ u = "watcher" /\ Is(u, {"heartbeat"})
                    \/ u = "app" /\ Is(u, {"leave"})
                    \/ u = "app" /\ Is(u, {"exec"}) /\ Head(todo[u]).id[1] \in Requests
  BY Turn DEF LoopInv
<1>2. "exec" \in IdOps
  BY DEF IdOps
<1>3. id \in Ids /\ id # None
  BY <1>1, <1>2, StepFacts, IdsAreNot
<1>4. ASSUME NEW u \in Threads PROVE ~ Is(u, {"cancel", "cancelled"})
  <2>1. CASE u = t
    BY <1>1, <2>1 DEF Is
  <2>2. CASE u # t
    BY <1>1, <2>2 DEF Is
  <2> QED BY <2>1, <2>2
<1>5. ASSUME current_transaction = "NONE" \/ id[1] \notin Requests \cup {"CANCEL"}
      PROVE  /\ FirstIs(id) /\ Queued(id) /\ Index(id) = 1 /\ Invocation(id) = invocations[1]
             /\ 1 \in DOMAIN invocations
  <2>1. FirstIs(id)
    BY <1>1, <1>5 DEF LoopInv, QueueInv, ExecFirst, Is
  <2> QED BY <2>1, FirstIndex DEF TInv, LoopInv, QueueInv
<1> QED BY <1>3, <1>4, <1>5

\* make_subscribe_request_ never finds the context taken when
\* current_transaction is free: the request that has it was cancelled first.
LEMMA RequestCanStart ==
    ASSUME TInv, LeaveInv, LoopInv, LoopWindows, NEW t \in Threads, Runs(t, Requests),
           current_transaction = "NONE"
    PROVE  CanStart
<1> DEFINE id == Head(todo[t]).id
<1>1. At(t, "exec") /\ Invocation(id).status = "CREATED" /\ id[1] \in Requests
  BY DEF Runs
<1>2. /\ id # None /\ \A u \in Threads : ~ Is(u, {"cancel", "cancelled"})
      /\ FirstIs(id) /\ Invocation(id) = invocations[1] /\ 1 \in DOMAIN invocations
  BY <1>1, AtExec
<1>3. invocations[1].status = "CREATED" /\ RequestAt(invocations, 1)
  BY <1>1, <1>2 DEF FirstIs, RequestAt
<1>4. cancel_invocation = None
  BY <1>3 DEF LoopInv, QueueInv, Cancelling
<1>5. pb.state # "WAIT_CANCEL"
  BY <1>2, <1>4 DEF LoopInv, CallsInv, CancelKnown, Is
<1>6. ~ Live
  <2> SUFFICES ASSUME Live PROVE FALSE
    OBVIOUS
  <2>1. ~ AtCancel
    BY <1>2 DEF AtCancel, Is
  <2>2. \E j \in DOMAIN invocations : j < 1
    BY <1>2, <1>3, <2>1 DEF LoopInv, RequestsInv, Behind
  <2> QED BY <2>2 DEF TInv
<1>7. pb.state # "BUSY"
  BY <1>6 DEF LoopInv, CallsInv, TransactionKnown, Live
<1>8. pb.state \in {"IDLE", "KEEP_ALIVE_IDLE", "BUSY", "WAIT_CANCEL"}
  BY PbFacts DEF TInv
<1> QED BY <1>5, <1>7, <1>8 DEF CanStart

\* An invocation that is running or gone is not run again: something else goes on.
LEMMA LoopNotRunnable ==
    ASSUME TInv, TInv', LeaveInv, LoopInv, LoopWindows, NEW t \in Threads, NotRunnable(t)
    PROVE  LoopInv'
<1> DEFINE id == Head(todo[t]).id
<1>1. /\ At(t, "exec") /\ Then(t, <<>>)
      /\ Queued(id) => Invocation(id).status # "CREATED"
      /\ UNCHANGED <<engine, flags, leave, calls, pb, now, delivery, owed>>
  BY DEF NotRunnable, Return
<1>2. UNCHANGED <<state, context, invocations, cancel_invocation, subscribables,
                  current_transaction, pb>>
  BY <1>1 DEF engine, flags, calls
<1>3. current_transaction # "NONE" \/ cancel_invocation # None \/ invocations = <<>>
  <2> SUFFICES ASSUME current_transaction = "NONE" PROVE cancel_invocation # None
    OBVIOUS
  <2>1. id # None /\ FirstIs(id) /\ Queued(id) /\ Invocation(id) = invocations[1]
        /\ 1 \in DOMAIN invocations
    BY <1>1, AtExec
  <2>2. invocations[1] \in Invocations
    BY <2>1 DEF TInv
  <2>3. invocations[1].status = "RUNNING"
    BY <1>1, <2>1, <2>2 DEF Invocations
  <2>4. \A u \in Threads : ~ Is(u, OwnerOps)
    <3>1. /\ todo[t] # <<>> /\ Head(todo[t]).op = "exec"
          /\ \A u \in Threads \ {t} : todo[u] # <<>> => current_transaction = "HEARTBEAT"
      BY <1>1, Turn DEF LoopInv
    <3> QED BY <3>1 DEF Is, OwnerOps
  <2>5. cancel_invocation = invocations[1].id
    BY <2>1, <2>3, <2>4 DEF LoopInv, QueueInv, FirstRuns
  <2> QED BY <2>1, <2>5 DEF FirstIs
<1>4. "exec" \notin OwnerOps /\ "exec" \notin {"leave", "event", "callback", "changed"}
  BY DEF OwnerOps
<1> QED BY <1>1, <1>2, <1>3, <1>4, Returns DEF Return

\* A paused effect returns because a transaction is in progress.
LEMMA LoopPaused ==
    ASSUME TInv, TInv', LeaveInv, LoopInv, LoopWindows, NEW t \in Threads, At(t, "exec"), Then(t, <<>>),
           current_transaction # "NONE",
           UNCHANGED <<state, context, invocations, cancel_invocation, subscribables,
                       current_transaction, pb>>
    PROVE  LoopInv'
<1>1. "exec" \notin OwnerOps /\ "exec" \notin {"leave", "event", "callback", "changed"}
  BY DEF OwnerOps
<1> QED BY <1>1, Returns DEF Return

\* An effect begins: what it does to the queue, the calls and the channels
LEMMA Begins ==
    ASSUME TInv, LeaveInv, LoopInv, LoopWindows, NEW t \in Threads, At(t, "exec"),
           NEW id, id = Head(todo[t]).id, FirstIs(id), invocations[1].status = "CREATED",
           NEW op \in {"done", "cancel", "heartbeat"},
           op = "cancel" => id[1] = "CANCEL" /\ current_transaction' = "NONE",
           op = "heartbeat" => id[1] \in Requests /\ current_transaction' = "HEARTBEAT" /\ CanStart',
           NEW steps \in Seq(Steps), Then(t, steps), steps # <<>>, Head(steps) = With(op, id),
           \A i \in DOMAIN steps : i > 1 => steps[i].op = "error",
           invocations' = Mark(id, "RUNNING")
              \/ (/\ invocations' \in Seq(Invocations) /\ DOMAIN invocations' = DOMAIN invocations
                  /\ \A i \in DOMAIN invocations :
                        /\ invocations'[i].id = invocations[i].id
                        /\ invocations'[i].status = IF i = 1 THEN "RUNNING" ELSE invocations[i].status),
           UNCHANGED <<state, context, cancel_invocation, subscribables>>,
           current_transaction' = "NONE" => current_transaction = "NONE",
           \A u \in Threads \ {t} : todo[u] # <<>> => UNCHANGED current_transaction /\ CanStart' = CanStart,
           pb'.requeued \in BOOLEAN, pb'.requeued => pb.requeued /\ pb'.trans = pb.trans,
           pb'.state = "WAIT_CANCEL" => pb.state = "WAIT_CANCEL",
           pb'.state = "BUSY" /\ pb'.trans \notin Requests => current_transaction' # "NONE"
    PROVE  CallsInv' /\ QueueInv' /\ ChannelsInv'
<1>0. Head(steps).op = op /\ Head(steps).id = id
  BY DEF With
<1>1. /\ invocations' \in Seq(Invocations) /\ DOMAIN invocations' = DOMAIN invocations
      /\ \A i \in DOMAIN invocations :
            /\ invocations'[i].id = invocations[i].id
            /\ invocations'[i].status = IF i = 1 THEN "RUNNING" ELSE invocations[i].status
  <2>1. CASE invocations' = Mark(id, "RUNNING")
    <3>1. Index(id) = 1 /\ invocations \in Seq(Invocations)
      BY FirstIndex DEF TInv, LoopInv, QueueInv
    <3>2. /\ Mark(id, "RUNNING") \in Seq(Invocations)
          /\ DOMAIN Mark(id, "RUNNING") = DOMAIN invocations
          /\ \A j \in DOMAIN invocations :
                 /\ Mark(id, "RUNNING")[j].id = invocations[j].id
                 /\ Mark(id, "RUNNING")[j].status =
                       IF j = Index(id) THEN "RUNNING" ELSE invocations[j].status
      BY <3>1, MarkFacts
    <3> QED BY <2>1, <3>1, <3>2
  <2>2. CASE ~ (invocations' = Mark(id, "RUNNING"))
    BY <2>2
  <2> QED BY <2>1, <2>2
<1>2. QueueInv'
  BY <1>1, QueueRuns DEF LoopInv
<1>3. CallsInv'
  <2>1. steps # <<>> =>
              /\ "exec" # "leave" /\ Head(steps).op \notin {"leave", "callback", "report"}
              /\ Head(steps).op = "heartbeat" => current_transaction' = "HEARTBEAT" /\ CanStart'
              /\ Head(steps).op \in {"cancel", "cancelled"} => current_transaction' = "NONE"
              /\ Head(steps).op = "cancelled" => pb'.state = "WAIT_CANCEL"
    BY <1>0
  <2>2. ~ ((steps # <<>> /\ Asking(Head(steps))) \/ "exec" = "leave")
    BY <1>0 DEF Asking
  <2>3. pb'.state = "WAIT_CANCEL" =>
           pb.state = "WAIT_CANCEL" /\ "exec" # "cancelled" /\ UNCHANGED cancel_invocation
    OBVIOUS
  <2> QED BY <2>1, <2>2, <2>3, CallsKept DEF LoopInv
<1>4. ChannelsInv'
  <2>1. Head(todo[t]).op = "exec"
    BY DEF At
  <2>2. ~ Refreshes(Head(todo[t]))
    BY <2>1 DEF Refreshes
  <2>3. Head(steps).op # "leave" /\ Head(steps).op # "event" /\ "exec" # "leave"
    BY <1>0
  <2> QED BY <2>2, <2>3, ChannelsKept DEF LoopInv
<1> QED BY <1>2, <1>3, <1>4

\* Marking the first invocation, which is no cancel, keeps the order.
LEMMA MarkSelects ==
    ASSUME TInv, QueueInv, NEW id, FirstIs(id), id[1] # "CANCEL"
    PROVE  /\ \E f : /\ Selects(f, Mark(id, "RUNNING"), invocations)
                     /\ NoneSetBack(f, Mark(id, "RUNNING"), invocations)
           /\ \E f : Selects(f, Mark(id, "CREATED"), invocations)
<1>1. invocations \in Seq(Invocations) /\ Index(id) = 1 /\ 1 \in DOMAIN invocations
      /\ invocations[1].id = id
  BY FirstIndex DEF TInv, QueueInv, FirstIs
<1>2. ~ CancelAt(invocations, 1)
  BY <1>1 DEF CancelAt
<1>3. ASSUME NEW s \in {"CREATED", "RUNNING"}
      PROVE  /\ Mark(id, s) \in Seq(Invocations) /\ DOMAIN Mark(id, s) = DOMAIN invocations
             /\ \A j \in DOMAIN invocations :
                  /\ Mark(id, s)[j].id = invocations[j].id
                  /\ Mark(id, s)[j].status = IF j = 1 THEN s ELSE invocations[j].status
                  /\ Mark(id, s)[j].ctx = invocations[j].ctx
  <2>1. /\ Mark(id, s) \in Seq(Invocations) /\ DOMAIN Mark(id, s) = DOMAIN invocations
        /\ \A j \in DOMAIN invocations :
              /\ Mark(id, s)[j].id = invocations[j].id
              /\ Mark(id, s)[j].status = IF j = 1 THEN s ELSE invocations[j].status
    BY <1>1, MarkFacts
  <2>2. ASSUME NEW j \in DOMAIN invocations PROVE Mark(id, s)[j].ctx = invocations[j].ctx
    <3>1. invocations[j] \in Invocations
      BY <1>1
    <3>2. Mark(id, s)[j] = IF j = 1 THEN [invocations[j] EXCEPT !.status = s] ELSE invocations[j]
      BY <1>1 DEF Mark
    <3>3. [invocations[j] EXCEPT !.status = s].ctx = invocations[j].ctx
      BY <3>1 DEF Invocations
    <3> QED BY <3>2, <3>3
  <2> QED BY <2>1, <2>2
<1>4. \A s \in {"CREATED", "RUNNING"} : \A j \in DOMAIN invocations :
         CancelAt(invocations, j) => Mark(id, s)[j].status = "CREATED"
  BY <1>2, <1>3 DEF CancelAt
<1>5. \A j \in DOMAIN invocations :
         Mark(id, "RUNNING")[j].status = "CREATED" => invocations[j].status = "CREATED"
  BY <1>3
<1>6. \E f : /\ Selects(f, Mark(id, "RUNNING"), invocations)
             /\ NoneSetBack(f, Mark(id, "RUNNING"), invocations)
  <2>1. PICK f : /\ Selects(f, Mark(id, "RUNNING"), invocations)
                 /\ (\A j \in DOMAIN invocations :
                       Mark(id, "RUNNING")[j].status = "CREATED" => invocations[j].status = "CREATED")
                          => NoneSetBack(f, Mark(id, "RUNNING"), invocations)
    BY <1>1, <1>3, <1>4, AllSelects
  <2> QED BY <1>5, <2>1
<1>7. \E f : Selects(f, Mark(id, "CREATED"), invocations)
  BY <1>1, <1>3, <1>4, AllSelects
<1> QED BY <1>6, <1>7

\* The effects that tell the application begin, with nothing else changed.
LEMMA LoopEmits ==
    ASSUME TInv, TInv', LeaveInv, LoopInv, LoopWindows, NEW t \in Threads,
           EmitStatus(t) \/ EmitMessages(t)
    PROVE  LoopInv'
<1> DEFINE id == Head(todo[t]).id
           s == With("done", id)
<1>1. /\ At(t, "exec") /\ Queued(id) /\ Invocation(id).status = "CREATED"
      /\ id[1] \in {"EMIT_STATUS", "EMIT_MESSAGE"}
      /\ invocations' = Mark(id, "RUNNING") /\ Then(t, <<s>>)
      /\ UNCHANGED <<state, context, flags, calls>>
      /\ pb' = pb \/ pb' = [pb EXCEPT !.messages = 0, !.cursor = IF CanStart THEN 0 ELSE @]
  <2>1. CASE EmitStatus(t)
    BY <2>1 DEF EmitStatus, Runs
  <2>2. CASE EmitMessages(t)
    BY <2>2 DEF EmitMessages, Runs
  <2> QED BY <2>1, <2>2
<1>2. id[1] \notin Requests \cup {"CANCEL"} /\ id[1] # "CANCEL"
  BY <1>1 DEF Requests
<1>3. /\ id \in Ids /\ FirstIs(id) /\ Invocation(id) = invocations[1]
      /\ \A u \in Threads : ~ Is(u, {"cancel", "cancelled"})
  BY <1>1, <1>2, AtExec
<1>4. s \in Steps /\ "done" \in {"done", "cancel", "heartbeat"}
  BY <1>3, IdStep DEF IdOps
<1>5. /\ <<s>> \in Seq(Steps) /\ <<s>> # <<>> /\ Head(<<s>>) = s
      /\ \A i \in DOMAIN <<s>> : i > 1 => <<s>>[i].op = "error"
  BY <1>4, OneStep
<1>6. /\ pb'.state = pb.state /\ pb'.trans = pb.trans /\ pb'.channels = pb.channels
      /\ pb'.requeued = pb.requeued /\ pb.requeued \in BOOLEAN
  <2>1. pb \in PbOf(pb.channels)
    BY DEF TInv
  <2> QED BY <1>1, <2>1 DEF PbOf
<1>7. UNCHANGED <<current_transaction, cancel_invocation, subscribables>> /\ (CanStart)' = CanStart
  BY <1>1, <1>6 DEF flags, calls, CanStart
<1> DEFINE steps == <<s>>
<1>8. /\ steps \in Seq(Steps) /\ steps # <<>> /\ Head(steps) = With("done", id) /\ Then(t, steps)
      /\ \A i \in DOMAIN steps : i > 1 => steps[i].op = "error"
  BY <1>1, <1>5
<1> HIDE DEF steps, s
<1>9. pb'.state = "BUSY" /\ pb'.trans \notin Requests => current_transaction' # "NONE"
  BY <1>6, <1>7 DEF LoopInv, CallsInv, TransactionKnown
<1>10. CallsInv' /\ QueueInv' /\ ChannelsInv'
  <2>1. invocations[1].status = "CREATED"
    BY <1>1, <1>3
  <2>2. UNCHANGED <<state, context, cancel_invocation, subscribables>>
    BY <1>1, <1>7
  <2> HIDE DEF id
  <2>3. id = Head(todo[t]).id
    BY DEF id
  <2> QED BY <1>1, <1>3, <1>4, <1>6, <1>7, <1>8, <1>9, <2>1, <2>2, <2>3, Begins
<1>11. RequestsInv'
  <2>1. PICK f : /\ Selects(f, Mark(id, "RUNNING"), invocations)
                 /\ NoneSetBack(f, Mark(id, "RUNNING"), invocations)
    BY <1>2, <1>3, MarkSelects DEF LoopInv
  <2>2. Selects(f, invocations', invocations) /\ NoneSetBack(f, invocations', invocations)
    BY <1>1, <2>1
  <2>3. ~ AtCancel
    BY <1>3 DEF AtCancel, Is
  <2>4. Live' => Live /\ pb'.trans = pb.trans /\ pb'.channels = pb.channels
    BY <1>6 DEF Live
  <2> QED BY <1>1, <2>2, <2>3, <2>4, RequestsKept DEF LoopInv
<1> QED BY <1>10, <1>11 DEF LoopInv

\* CANCEL begins, or waits for the transaction in progress.
LEMMA LoopCancelEffect ==
    ASSUME TInv, TInv', LeaveInv, LoopInv, LoopWindows, NEW t \in Threads, CancelEffect(t)
    PROVE  LoopInv'
<1> DEFINE id == Head(todo[t]).id
           s == With("cancel", id)
<1>1. /\ At(t, "exec") /\ Queued(id) /\ Invocation(id).status = "CREATED" /\ id[1] = "CANCEL"
      /\ UNCHANGED <<state, context, flags, calls, pb>>
      /\ \/ current_transaction # "NONE" /\ Return(t) /\ UNCHANGED invocations
         \/ /\ current_transaction = "NONE"
            /\ invocations' = Mark(id, "RUNNING") /\ Then(t, <<s>>)
  BY DEF CancelEffect, Runs
<1>2. UNCHANGED <<current_transaction, cancel_invocation, subscribables>> /\ (CanStart)' = CanStart
  BY <1>1 DEF flags, calls, CanStart
<1>3. CASE current_transaction # "NONE" /\ Return(t) /\ UNCHANGED invocations
  BY <1>1, <1>2, <1>3, LoopPaused DEF Return
<1>4. CASE /\ current_transaction = "NONE"
           /\ invocations' = Mark(id, "RUNNING") /\ Then(t, <<s>>)
  <2>1. /\ id \in Ids /\ FirstIs(id) /\ Invocation(id) = invocations[1] /\ Index(id) = 1
        /\ 1 \in DOMAIN invocations
    BY <1>1, <1>4, AtExec
  <2>2. s \in Steps /\ "cancel" \in {"done", "cancel", "heartbeat"}
    BY <2>1, IdStep DEF IdOps
  <2>3. /\ <<s>> \in Seq(Steps) /\ <<s>> # <<>> /\ Head(<<s>>) = s
        /\ \A i \in DOMAIN <<s>> : i > 1 => <<s>>[i].op = "error"
    BY <2>2, OneStep
  <2>4. pb'.requeued \in BOOLEAN /\ pb' = pb
    BY <1>1, PbFacts DEF TInv
  <2> DEFINE steps == <<s>>
  <2>5. /\ steps \in Seq(Steps) /\ steps # <<>> /\ Head(steps) = With("cancel", id) /\ Then(t, steps)
        /\ \A i \in DOMAIN steps : i > 1 => steps[i].op = "error"
    BY <1>4, <2>3
  <2> HIDE DEF steps, s
  <2>6. pb'.state = "BUSY" /\ pb'.trans \notin Requests => current_transaction' # "NONE"
    BY <1>2, <2>4 DEF LoopInv, CallsInv, TransactionKnown
  <2>7. CallsInv' /\ QueueInv' /\ ChannelsInv'
    <3>1. invocations[1].status = "CREATED"
      BY <1>1, <2>1
    <3>2. UNCHANGED <<state, context, cancel_invocation, subscribables>>
      BY <1>1, <1>2
    <3> HIDE DEF id
    <3>3. id = Head(todo[t]).id
      BY DEF id
    <3> QED BY <1>1, <1>2, <1>4, <2>1, <2>2, <2>4, <2>5, <2>6, <3>1, <3>2, <3>3, Begins
  <2>8. AtCancel'
    <3>1. s.op = "cancel"
      BY DEF s, With
    <3>2. todo'[t] # <<>> /\ Head(todo'[t]) = s
      <4>1. Head(steps).op # "leave" /\ "exec" # "leave" /\ Head(steps) = s
        BY <2>3, <3>1 DEF steps
      <4> QED BY <1>1, <2>5, <4>1, Stepped DEF LoopInv
    <3> QED BY <3>1, <3>2 DEF AtCancel, Is
  <2>9. /\ invocations' \in Seq(Invocations) /\ DOMAIN invocations' = DOMAIN invocations
        /\ \A j \in DOMAIN invocations :
              /\ invocations'[j].id = invocations[j].id
              /\ j # 1 => invocations'[j] = invocations[j]
    BY <1>4, <2>1, MarkFacts DEF TInv
  <2>10. \A j \in DOMAIN invocations : j > 1 /\ CancelAt(invocations, j) => CancelAt(invocations', j)
    BY <2>9 DEF CancelAt
  <2>11. \A i \in DOMAIN invocations : RequestAt(invocations', i) => i > 1 /\ invocations'[i] = invocations[i]
                                                                  /\ RequestAt(invocations, i)
    <3> SUFFICES ASSUME NEW i \in DOMAIN invocations, RequestAt(invocations', i)
                 PROVE  i > 1 /\ invocations'[i] = invocations[i] /\ RequestAt(invocations, i)
      OBVIOUS
    <3>1. i # 1
      BY <1>1, <2>1, <2>9, IdsAreNot DEF RequestAt, FirstIs
    <3>2. i > 1
      BY <3>1 DEF TInv
    <3> QED BY <2>9, <3>1, <3>2 DEF RequestAt
  <2>12. \A i \in DOMAIN invocations : i \in Nat /\ i >= 1
    BY DEF TInv
  <2>13. Covered(invocations', state', context')
    <3> SUFFICES ASSUME NEW i \in DOMAIN invocations, RequestAt(invocations', i)
                 PROVE  \/ ForState(invocations'[i].id[1], state) /\ invocations'[i].ctx.channels = context.channels
                        \/ \E j \in DOMAIN invocations : i < j /\ CancelAt(invocations', j)
      BY <1>1, <2>9 DEF Covered
    <3>1. \/ ForState(invocations[i].id[1], state) /\ invocations[i].ctx.channels = context.channels
          \/ \E j \in DOMAIN invocations : i < j /\ CancelAt(invocations, j)
      BY <2>11 DEF LoopInv, RequestsInv, Covered
    <3> QED BY <2>10, <2>11, <2>12, <3>1
  <2>14. Separate(invocations')
    <3> SUFFICES ASSUME NEW i \in DOMAIN invocations, NEW k \in DOMAIN invocations, i < k,
                        RequestAt(invocations', i), RequestAt(invocations', k)
                 PROVE  \E j \in DOMAIN invocations : i < j /\ j < k /\ CancelAt(invocations', j)
      BY <2>9 DEF Separate
    <3>1. PICK j \in DOMAIN invocations : i < j /\ j < k /\ CancelAt(invocations, j)
      BY <2>11 DEF LoopInv, RequestsInv, Separate
    <3> QED BY <2>10, <2>12, <3>1
  <2>15. RequestsInv'
    BY <2>8, <2>13, <2>14 DEF RequestsInv, Answered
  <2> QED BY <2>7, <2>15 DEF LoopInv
<1> QED BY <1>1, <1>3, <1>4

\* pubnub_cancel: the invocation is done, or its thread goes on to note it.
LEMMA LoopCancel ==
    ASSUME TInv, TInv', LeaveInv, LoopInv, LoopWindows, NEW t \in Threads, Cancel(t)
    PROVE  LoopInv'
<1> DEFINE id == Head(todo[t]).id
           op == IF pb.state = "IDLE" THEN "done" ELSE "cancelled"
           s == With(op, id)
<1>1. At(t, "cancel") /\ pb' = Cancelled /\ Then(t, <<s>>)
      /\ UNCHANGED <<engine, flags, leave, calls, now, delivery, owed>>
  BY DEF Cancel
<1>2. UNCHANGED <<state, context, invocations, cancel_invocation, subscribables, current_transaction>>
  BY <1>1 DEF engine, flags, calls
<1>3. todo[t] # <<>> /\ Head(todo[t]).op = "cancel" /\ Head(todo[t]) \in Steps
      /\ \A u \in Threads \ {t} : todo[u] # <<>> => current_transaction = "HEARTBEAT"
  BY <1>1, Turn DEF LoopInv
<1>4. current_transaction = "NONE"
  BY <1>3 DEF LoopInv, CallsInv, CancelHeld, Is
<1>5. id \in Ids
  BY <1>3, StepFacts DEF IdOps
<1>6. op \in {"done", "cancelled"} /\ op \in OwnerOps /\ "cancel" \in OwnerOps
  BY DEF OwnerOps
<1>7. s \in Steps /\ s.op = op /\ s.id = id
  <2>1. op \in IdOps
    BY DEF IdOps
  <2> HIDE DEF op, id
  <2> QED BY <1>5, <2>1, IdStep
<1>8. /\ pb'.state \in {"IDLE", "WAIT_CANCEL"} /\ ~ pb'.requeued /\ pb'.requeued \in BOOLEAN
      /\ pb'.state = "WAIT_CANCEL" => op = "cancelled"
      /\ op = "cancelled" => pb'.state = "WAIT_CANCEL"
  <2>1. pb \in PbOf(pb.channels)
    BY DEF TInv
  <2> QED BY <1>1, <2>1 DEF Cancelled, PbOf
<1> DEFINE steps == <<s>>
<1> HIDE DEF s, op
<1>9. /\ steps \in Seq(Steps) /\ steps # <<>> /\ Head(steps) = s /\ Then(t, steps)
      /\ \A i \in DOMAIN steps : i > 1 => steps[i].op = "error"
  BY <1>1, <1>7, OneStep
<1> HIDE DEF steps, id
<1>10. Head(steps).op = op /\ Head(steps).id = Head(todo[t]).id
  BY <1>7, <1>9 DEF id
<1>11. CallsInv'
  <2>1. /\ op \notin {"leave", "callback", "report", "heartbeat"} /\ op # "event" /\ op # "changed"
        /\ "cancel" # "leave" /\ "cancel" # "cancelled"
    BY <1>6
  <2>2. ~ Asking(Head(steps))
    BY <1>10, <2>1 DEF Asking
  <2>3. \A u \in Threads \ {t} : todo[u] # <<>> => UNCHANGED current_transaction /\ CanStart' = CanStart
    BY <1>3, <1>4
  <2> QED BY <1>1, <1>2, <1>4, <1>8, <1>9, <1>10, <2>1, <2>2, <2>3, CallsKept DEF LoopInv
<1>12. QueueInv'
  <2>1. /\ op # "leave" /\ "cancel" # "leave" /\ op # "exec" /\ op # "heartbeat"
        /\ "cancel" \in {"cancel", "cancelled"} /\ "cancel" \notin {"exec", "callback"}
    BY <1>6
  <2> QED BY <1>1, <1>2, <1>6, <1>9, <1>10, <2>1, QueuePasses DEF LoopInv
<1>13. RequestsInv'
  <2>1. invocations \in Seq(Invocations)
    BY DEF TInv
  <2>2. PICK f : Selects(f, invocations, invocations)
    <3>1. \A i \in DOMAIN invocations : CancelAt(invocations, i) => invocations[i].status = "CREATED"
      BY DEF CancelAt
    <3> QED BY <2>1, <3>1, AllSelects
  <2>3. ~ Live'
    BY <1>8 DEF Live
  <2> QED BY <1>2, <2>2, <2>3, RequestsKept DEF LoopInv
<1>14. ChannelsInv'
  <2>1. ~ Refreshes(Head(todo[t]))
    BY <1>3 DEF Refreshes
  <2>2. op # "leave" /\ "cancel" # "leave" /\ op # "event"
    BY <1>6
  <2> QED BY <1>1, <1>2, <1>9, <1>10, <2>1, <2>2, ChannelsKept DEF LoopInv
<1> QED BY <1>11, <1>12, <1>13, <1>14 DEF LoopInv

\* The cancel that was started is noted, and the effect waits for the callback.
LEMMA LoopCancelStarted ==
    ASSUME TInv, TInv', LeaveInv, LoopInv, LoopWindows, NEW t \in Threads, CancelStarted(t)
    PROVE  LoopInv'
<1> DEFINE id == Head(todo[t]).id
<1>0. PICK steps \in Seq(Steps) : steps = <<>>
  BY NoStep
<1>1. At(t, "cancelled") /\ cancel_invocation' = id /\ Then(t, steps)
      /\ UNCHANGED <<engine, current_transaction, leave, calls, pb, now, delivery, owed>>
  BY <1>0 DEF CancelStarted, Return
<1>2. UNCHANGED <<state, context, invocations, subscribables, current_transaction, pb>>
  BY <1>1 DEF engine, calls
<1>3. /\ steps \in Seq(Steps) /\ ~ (steps # <<>>) /\ steps = <<>>
      /\ \A i \in DOMAIN steps : i > 1 => steps[i].op = "error"
  BY <1>0, NoStep
<1>4. /\ todo[t] # <<>> /\ Head(todo[t]).op = "cancelled" /\ Head(todo[t]) \in Steps
      /\ \A u \in Threads \ {t} : todo'[u] = todo[u]
      /\ \A u \in Threads \ {t} : todo[u] # <<>> => current_transaction = "HEARTBEAT"
      /\ todo'[t] # <<>> => Head(todo'[t]).op \notin OwnerOps \cup {"exec", "callback", "report", "leave"}
  <2>1. steps # <<>> => Head(steps).op # "leave" /\ "cancelled" # "leave"
    BY <1>3
  <2>2. CallsInv /\ At(t, "cancelled") /\ Then(t, steps)
    BY <1>1 DEF LoopInv
  <2>4. steps \in Seq(Steps) /\ \A i \in DOMAIN steps : i > 1 => steps[i].op = "error"
    BY <1>0, <1>3
  <2>3. /\ todo[t] # <<>> /\ Head(todo[t]).op = "cancelled" /\ Head(todo[t]) \in Steps
        /\ \A u \in Threads \ {t} : todo'[u] = todo[u]
        /\ \A u \in Threads \ {t} : todo[u] # <<>> =>
                 /\ current_transaction = "HEARTBEAT"
                 /\ Head(todo[u]).op \in {"heartbeat", "leave", "exec"}
                 /\ Head(todo[u]).op = "exec" => Head(todo[u]).id[1] \in Requests
                 /\ Head(todo[u]).op = "heartbeat" => u = "watcher"
        /\ steps = <<>> /\ todo'[t] # <<>> =>
                 /\ Head(todo'[t]).op \notin OwnerOps \cup {"exec", "callback", "report", "leave"}
                 /\ "cancelled" # "leave" => Head(todo'[t]).op = "error"
    BY <2>1, <2>2, <2>4, Stepped
  <2> QED BY <1>3, <2>3
<1>5. current_transaction = "NONE"
  BY <1>4 DEF LoopInv, CallsInv, CancelHeld, Is
<1>6. id \in Ids /\ id # None
  BY <1>4, StepFacts, IdsAreNot DEF IdOps
<1>7. Is(t, OwnerOps)
  BY <1>4 DEF Is, OwnerOps
<1>8. FirstIs(id) /\ invocations[1].status = "RUNNING"
  BY <1>7 DEF LoopInv, QueueInv, Owner
<1>9. CallsInv'
  <2>1. "cancelled" # "leave" /\ cancel_invocation' # None
    BY <1>1, <1>6
  <2>2. \A u \in Threads \ {t} : todo[u] # <<>> => UNCHANGED current_transaction /\ CanStart' = CanStart
    BY <1>4, <1>5
  <2>3. pb'.requeued \in BOOLEAN /\ (pb'.requeued => pb.requeued /\ pb'.trans = pb.trans)
    BY <1>2, PbFacts DEF TInv
  <2>4. pb'.state = "BUSY" /\ pb'.trans \notin Requests => current_transaction' # "NONE"
    <3>1. pb.state = "WAIT_CANCEL"
      BY <1>4 DEF LoopInv, CallsInv, CancelHeld, Is
    <3> QED BY <1>2, <3>1
  <2>5. steps # <<>> =>
              /\ "cancelled" # "leave" /\ Head(steps).op \notin {"leave", "callback", "report"}
              /\ Head(steps).op = "heartbeat" => current_transaction' = "HEARTBEAT" /\ CanStart'
              /\ Head(steps).op \in {"cancel", "cancelled"} => current_transaction' = "NONE"
              /\ Head(steps).op = "cancelled" => pb'.state = "WAIT_CANCEL"
    BY <1>3
  <2>6. (steps # <<>> /\ Asking(Head(steps))) \/ "cancelled" = "leave" =>
              /\ t = "app" /\ Asking(Head(todo[t]))
              /\ UNCHANGED <<state, cancel_invocation>>
              /\ current_transaction' = "NONE" => current_transaction = "NONE"
    BY <1>3, <2>1
  <2>7. CallsInv /\ At(t, "cancelled") /\ Then(t, steps)
    BY <1>1 DEF LoopInv
  <2> HIDE DEF id
  <2> QED BY <1>3, <2>1, <2>2, <2>3, <2>4, <2>5, <2>6, <2>7, CallsKept
<1>10. QueueInv'
  <2>1. \A u \in Threads : todo'[u] # <<>> => Head(todo'[u]).op \notin OwnerOps \cup {"exec"}
    BY <1>4, <1>5
  <2>2. \A u \in Threads : ~ Is(u, OwnerOps)' /\ ~ Is(u, {"exec"})'
    BY <2>1 DEF Is
  <2>3. Unique' /\ Cancelling'
    BY <1>1, <1>2, <1>8 DEF LoopInv, QueueInv, Unique, Cancelling, FirstIs
  <2>4. Owner' /\ OneOwner' /\ ExecFirst'
    BY <2>2 DEF Owner, OneOwner, ExecFirst, Is
  <2>5. FirstRuns'
    BY <1>1, <1>2, <1>8 DEF LoopInv, QueueInv, FirstRuns, FirstIs
  <2>6. Progress'
    BY <1>1, <1>6 DEF Progress
  <2> QED BY <2>3, <2>4, <2>5, <2>6 DEF QueueInv
<1>11. RequestsInv'
  <2>1. invocations \in Seq(Invocations)
    BY DEF TInv
  <2>2. \A i \in DOMAIN invocations : CancelAt(invocations, i) => invocations[i].status = "CREATED"
    BY DEF CancelAt
  <2>3. PICK f : Selects(f, invocations, invocations)
    BY <2>1, <2>2, AllSelects
  <2>4. ~ Live'
    <3>1. pb.state = "WAIT_CANCEL"
      BY <1>4 DEF LoopInv, CallsInv, CancelHeld, Is
    <3> QED BY <1>2, <3>1 DEF Live
  <2> QED BY <1>2, <2>3, <2>4, RequestsKept DEF LoopInv
<1>12. ChannelsInv'
  <2>1. ~ Refreshes(Head(todo[t])) /\ "cancelled" # "leave"
    BY <1>4 DEF Refreshes
  <2> QED BY <1>1, <1>2, <1>3, <2>1, ChannelsKept DEF LoopInv
<1> QED BY <1>9, <1>10, <1>11, <1>12 DEF LoopInv

\* pubnub_heartbeat is about to be called, or the request waits.
LEMMA LoopMakeHeartbeat ==
    ASSUME TInv, TInv', LeaveInv, LoopInv, LoopWindows, NEW t \in Threads, MakeHeartbeat(t)
    PROVE  LoopInv'
<1> DEFINE id == Head(todo[t]).id
           s == With("heartbeat", id)
<1>1. /\ At(t, "exec") /\ Invocation(id).status = "CREATED" /\ id[1] \in Requests /\ Runs(t, Requests)
      /\ UNCHANGED <<state, context, cancel_invocation, calls, pb>>
      /\ \/ /\ ~ (current_transaction = "NONE" /\ CanStart)
            /\ Return(t) /\ UNCHANGED <<invocations, current_transaction>>
         \/ /\ current_transaction = "NONE" /\ CanStart
            /\ invocations' = [invocations EXCEPT ![Index(id)].heartbeat = FALSE,
                                                  ![Index(id)].status = "RUNNING"]
            /\ current_transaction' = "HEARTBEAT" /\ Then(t, <<s>>)
  BY DEF MakeHeartbeat, Runs
<1>2. UNCHANGED <<cancel_invocation, subscribables>> /\ (CanStart)' = CanStart
  BY <1>1 DEF calls, CanStart
<1>3. CASE ~ (current_transaction = "NONE" /\ CanStart) /\ Return(t) /\ UNCHANGED <<invocations, current_transaction>>
  <2>1. current_transaction # "NONE"
    BY <1>1, <1>3, RequestCanStart
  <2> QED BY <1>1, <1>2, <1>3, <2>1, LoopPaused DEF Return
<1>4. CASE /\ current_transaction = "NONE" /\ CanStart
           /\ invocations' = [invocations EXCEPT ![Index(id)].heartbeat = FALSE,
                                                  ![Index(id)].status = "RUNNING"]
           /\ current_transaction' = "HEARTBEAT" /\ Then(t, <<s>>)
  <2>1. /\ id \in Ids /\ FirstIs(id) /\ Invocation(id) = invocations[1] /\ Index(id) = 1
        /\ 1 \in DOMAIN invocations
    BY <1>1, <1>4, AtExec
  <2>2. s \in Steps /\ "heartbeat" \in {"done", "cancel", "heartbeat"}
    BY <2>1, IdStep DEF IdOps
  <2>3. /\ <<s>> \in Seq(Steps) /\ <<s>> # <<>> /\ Head(<<s>>) = s
        /\ \A i \in DOMAIN <<s>> : i > 1 => <<s>>[i].op = "error"
    BY <2>2, OneStep
  <2>4. pb'.requeued \in BOOLEAN /\ pb' = pb
    BY <1>1, PbFacts DEF TInv
  <2> DEFINE steps == <<s>>
  <2>5. /\ steps \in Seq(Steps) /\ steps # <<>> /\ Head(steps) = With("heartbeat", id) /\ Then(t, steps)
        /\ \A i \in DOMAIN steps : i > 1 => steps[i].op = "error"
    BY <1>4, <2>3
  <2> HIDE DEF steps, s
  <2>6. pb'.state = "BUSY" /\ pb'.trans \notin Requests => current_transaction' # "NONE"
    BY <1>4
  <2>7. /\ invocations' \in Seq(Invocations) /\ DOMAIN invocations' = DOMAIN invocations
        /\ \A i \in DOMAIN invocations :
              /\ invocations'[i].id = invocations[i].id
              /\ invocations'[i].status = IF i = 1 THEN "RUNNING" ELSE invocations[i].status
              /\ invocations'[i].ctx = invocations[i].ctx
    <3>1. invocations' = [invocations EXCEPT ![1].heartbeat = FALSE, ![1].status = "RUNNING"]
      BY <1>4, <2>1
    <3>2. invocations \in Seq(Invocations) /\ invocations' \in Seq(Invocations)
      BY DEF TInv
    <3>3. DOMAIN invocations' = DOMAIN invocations
      BY <3>1
    <3>4. ASSUME NEW i \in DOMAIN invocations
          PROVE  /\ invocations'[i].id = invocations[i].id
                 /\ invocations'[i].status = IF i = 1 THEN "RUNNING" ELSE invocations[i].status
                 /\ invocations'[i].ctx = invocations[i].ctx
      <4>1. invocations[i] \in Invocations
        BY <3>2
      <4>2. CASE i = 1
        <5>1. invocations'[i] = [invocations[i] EXCEPT !.heartbeat = FALSE, !.status = "RUNNING"]
          BY <3>1, <4>2
        <5> QED BY <4>1, <4>2, <5>1 DEF Invocations
      <4>3. CASE i # 1
        <5>1. invocations'[i] = invocations[i]
          BY <3>1, <4>3
        <5> QED BY <4>3, <5>1
      <4> QED BY <4>2, <4>3
    <3> QED BY <3>2, <3>3, <3>4
  <2>8. CallsInv' /\ QueueInv' /\ ChannelsInv'
    <3>1. invocations[1].status = "CREATED"
      BY <1>1, <2>1
    <3>2. UNCHANGED <<state, context, cancel_invocation, subscribables>>
      BY <1>1, <1>2
    <3>3. \A u \in Threads \ {t} : todo[u] # <<>> => UNCHANGED current_transaction /\ CanStart' = CanStart
      BY <1>1, <1>4, Turn DEF LoopInv
    <3>4. CanStart' /\ current_transaction' = "HEARTBEAT" /\ id[1] \in Requests
      BY <1>1, <1>2, <1>4
    <3>5. pb'.state = "WAIT_CANCEL" => pb.state = "WAIT_CANCEL"
      BY <2>4
    <3>6. pb'.requeued => pb.requeued /\ pb'.trans = pb.trans
      BY <2>4
    <3>7. "heartbeat" # "cancel" /\ current_transaction' # "NONE"
      BY <3>4
    <3> HIDE DEF id
    <3>8. id = Head(todo[t]).id
      BY DEF id
    <3>9. /\ invocations' \in Seq(Invocations) /\ DOMAIN invocations' = DOMAIN invocations
          /\ \A i \in DOMAIN invocations :
                /\ invocations'[i].id = invocations[i].id
                /\ invocations'[i].status = IF i = 1 THEN "RUNNING" ELSE invocations[i].status
      BY <2>7
    <3> QED BY <1>1, <2>1, <2>2, <2>4, <2>5, <2>6, <3>9, <3>1, <3>2, <3>3, <3>4, <3>5, <3>6,
               <3>7, <3>8, Begins
  <2>9. RequestsInv'
    <3>1. \A i \in DOMAIN invocations : CancelAt(invocations, i) => invocations'[i].status = "CREATED"
      BY <1>1, <2>1, <2>7, IdsAreNot DEF CancelAt, FirstIs
    <3>2. PICK f : Selects(f, invocations', invocations)
      BY <2>7, <3>1, AllSelects DEF TInv
    <3>3. ~ Live'
      BY <1>4, <2>4 DEF Live, CanStart
    <3> QED BY <1>1, <3>2, <3>3, RequestsKept DEF LoopInv
  <2> QED BY <2>8, <2>9 DEF LoopInv
<1> QED BY <1>1, <1>3, <1>4

\* pubnub_heartbeat returns, and the request waits in the queue.
LEMMA LoopHeartbeat ==
    ASSUME TInv, TInv', LeaveInv, LoopInv, LoopWindows, NEW t \in Threads, Heartbeat(t)
    PROVE  LoopInv'
<1> DEFINE id == Head(todo[t]).id
           channels == Invocation(id).ctx.channels
<1>0. PICK steps \in Seq(Steps) : steps = <<>>
  BY NoStep
<1>1. At(t, "heartbeat") /\ invocations' = Mark(id, "CREATED") /\ Then(t, steps)
      /\ pb' \in {Started("HEARTBEAT", channels), pb}
      /\ UNCHANGED <<state, context, flags, calls>>
  BY <1>0 DEF Heartbeat, Return
<1>2. UNCHANGED <<state, context, cancel_invocation, subscribables, current_transaction>>
  BY <1>1 DEF flags, calls
<1>3. ~ (steps # <<>>) /\ \A i \in DOMAIN steps : i > 1 => steps[i].op = "error"
  BY <1>0, NoStep
<1>4. /\ todo[t] # <<>> /\ Head(todo[t]).op = "heartbeat"
      /\ \A u \in Threads \ {t} : todo'[u] = todo[u]
      /\ \A u \in Threads \ {t} : todo[u] # <<>> =>
            /\ Head(todo[u]).op \in {"heartbeat", "leave", "exec"}
            /\ Head(todo[u]).op = "exec" => Head(todo[u]).id[1] \in Requests
      /\ todo'[t] # <<>> => Head(todo'[t]).op \notin OwnerOps \cup {"exec", "callback", "report", "leave"}
  <2>1. steps # <<>> => Head(steps).op # "leave" /\ "heartbeat" # "leave"
    BY <1>3
  <2>2. CallsInv /\ At(t, "heartbeat") /\ Then(t, steps)
    BY <1>1 DEF LoopInv
  <2>3. /\ todo[t] # <<>> /\ Head(todo[t]).op = "heartbeat" /\ Head(todo[t]) \in Steps
        /\ \A u \in Threads \ {t} : todo'[u] = todo[u]
        /\ \A u \in Threads \ {t} : todo[u] # <<>> =>
                 /\ current_transaction = "HEARTBEAT"
                 /\ Head(todo[u]).op \in {"heartbeat", "leave", "exec"}
                 /\ Head(todo[u]).op = "exec" => Head(todo[u]).id[1] \in Requests
                 /\ Head(todo[u]).op = "heartbeat" => u = "watcher"
        /\ steps = <<>> /\ todo'[t] # <<>> =>
                 /\ Head(todo'[t]).op \notin OwnerOps \cup {"exec", "callback", "report", "leave"}
                 /\ "heartbeat" # "leave" => Head(todo'[t]).op = "error"
    <3> HIDE DEF id, channels
    <3> QED BY <1>0, <1>3, <2>1, <2>2, Stepped
  <2> QED BY <1>0, <2>3
<1>5. /\ Is(t, OwnerOps) /\ current_transaction = "HEARTBEAT" /\ CanStart
  BY <1>4 DEF LoopInv, CallsInv, HeartbeatHeld, Is, OwnerOps
<1>6. /\ FirstIs(id) /\ cancel_invocation = None /\ id[1] \in Requests
      /\ \A u \in Threads \ {t} : ~ Is(u, OwnerOps)
  BY <1>4, <1>5 DEF LoopInv, QueueInv, Owner, OneOwner
<1>7. \A u \in Threads \ {t} : todo[u] # <<>> => Head(todo[u]).op \in {"leave", "exec"}
  BY <1>4, <1>6 DEF Is, OwnerOps
<1>8. /\ pb'.requeued \in BOOLEAN /\ (pb'.requeued => pb.requeued /\ pb'.trans = pb.trans)
      /\ pb'.state # "WAIT_CANCEL" /\ ~ Live'
  <2>1. "HEARTBEAT" \in Transactions /\ "HEARTBEAT" \notin Requests
    BY DEF Transactions, Requests
  <2>2. /\ Started("HEARTBEAT", channels).state = "BUSY" /\ Started("HEARTBEAT", channels).trans = "HEARTBEAT"
        /\ ~ Started("HEARTBEAT", channels).requeued
    BY <2>1, PbStarted DEF TInv
  <2>3. pb'.requeued \in BOOLEAN
    BY PbFacts DEF TInv
  <2> QED BY <1>1, <1>5, <2>1, <2>2, <2>3 DEF Live, CanStart
<1>9. CallsInv'
  <2>1. "heartbeat" # "leave" /\ current_transaction' # "NONE"
    BY <1>2, <1>5
  <2>2. \A u \in Threads \ {t} : todo[u] # <<>> =>
           /\ UNCHANGED current_transaction
           /\ Head(todo[u]).op = "heartbeat" => CanStart' = CanStart
    BY <1>2, <1>7
  <2>3. CallsInv
    BY DEF LoopInv
  <2> HIDE DEF id
  <2> QED BY <1>1, <1>3, <1>8, <2>1, <2>2, <2>3, CallsKept
<1>10. /\ DOMAIN invocations' = DOMAIN invocations
       /\ \A i \in DOMAIN invocations :
             /\ invocations'[i].id = invocations[i].id
             /\ invocations'[i].status = IF i = 1 THEN "CREATED" ELSE invocations[i].status
  <2>1. Index(id) = 1 /\ invocations \in Seq(Invocations)
    BY <1>6, FirstIndex DEF TInv, LoopInv, QueueInv
  <2> QED BY <1>1, <2>1, MarkFacts
<1>11. QueueInv'
  <2>1. Unique'
    BY <1>10 DEF LoopInv, QueueInv, Unique
  <2>2. \A i \in DOMAIN invocations' : invocations'[i].status # "RUNNING"
    BY <1>10 DEF LoopInv, QueueInv, FirstRuns
  <2>3. ASSUME NEW u \in Threads, todo'[u] # <<>>
        PROVE  /\ Head(todo'[u]).op \notin OwnerOps
               /\ Head(todo'[u]).op = "exec" => Head(todo'[u]).id[1] \in Requests
    <3>1. CASE u = t
      BY <1>4, <2>3, <3>1
    <3>2. CASE u # t
      BY <1>4, <1>7, <2>3, <3>2 DEF OwnerOps
    <3> QED BY <3>1, <3>2
  <2>4. Progress' /\ cancel_invocation' = None /\ current_transaction' # "NONE"
    BY <1>2, <1>5, <1>6 DEF Progress
  <2> QED BY <2>1, <2>2, <2>3, <2>4, QueueAtRest
<1>12. RequestsInv'
  <2>1. id[1] # "CANCEL" /\ QueueInv
    BY <1>6, IdsAreNot DEF LoopInv
  <2>2. PICK f : Selects(f, invocations', invocations)
    BY <1>1, <1>6, <2>1, MarkSelects
  <2> QED BY <1>1, <1>8, <2>2, RequestsKept DEF LoopInv
<1>13. ChannelsInv'
  <2>1. ~ Refreshes(Head(todo[t])) /\ "heartbeat" # "leave"
    BY <1>4 DEF Refreshes
  <2> QED BY <1>1, <1>2, <1>3, <2>1, ChannelsKept DEF LoopInv
<1> QED BY <1>9, <1>11, <1>12, <1>13 DEF LoopInv

\* The request is sent, or refused, or waits.
LEMMA LoopMakeSubscribeRequest ==
    ASSUME TInv, TInv', LeaveInv, LoopInv, LoopWindows, NEW t \in Threads, MakeSubscribeRequest(t)
    PROVE  LoopInv'
<1> DEFINE id == Head(todo[t]).id
           inv == Invocation(id)
           refused == inv.ctx.channels = {} \/ pb.messages # 0
           d == With("done", id)
           e == Step("error")
           Goes == /\ current_transaction = "NONE" /\ CanStart
                   /\ invocations' = Mark(id, "RUNNING")
                   /\ pb' = IF refused THEN [pb EXCEPT !.timetoken = inv.ctx.cursor]
                            ELSE [Started(id[1], inv.ctx.channels)
                                     EXCEPT !.timetoken = inv.ctx.cursor, !.cursor = inv.ctx.cursor]
                   /\ Then(t, <<d>> \o IF refused THEN <<e>> ELSE <<>>)
<1>1. /\ At(t, "exec") /\ inv.status = "CREATED" /\ id[1] \in Requests /\ Runs(t, Requests)
      /\ UNCHANGED <<state, context, flags, calls>>
      /\ \/ current_transaction # "NONE" /\ Return(t) /\ UNCHANGED <<invocations, pb>>
         \/ current_transaction = "NONE" /\ ~ CanStart
         \/ Goes
  BY DEF MakeSubscribeRequest, Runs
<1>2. UNCHANGED <<cancel_invocation, subscribables, current_transaction>>
  BY <1>1 DEF calls, flags
<1>3. CASE current_transaction # "NONE" /\ Return(t) /\ UNCHANGED <<invocations, pb>>
  BY <1>1, <1>2, <1>3, LoopPaused DEF Return
<1>4. CASE current_transaction = "NONE" /\ ~ CanStart
  BY <1>1, <1>4, RequestCanStart
<1>5. CASE Goes
  <2>1. /\ id \in Ids /\ FirstIs(id) /\ inv = invocations[1] /\ Index(id) = 1
        /\ 1 \in DOMAIN invocations /\ invocations[1].status = "CREATED"
        /\ \A u \in Threads : ~ Is(u, {"cancel", "cancelled"})
    BY <1>1, <1>5, AtExec
  <2>2. inv.ctx.channels \in SUBSET Channels /\ inv.ctx.cursor \in Tokens
    <3>1. inv \in Invocations
      BY <2>1 DEF TInv
    <3> HIDE DEF inv
    <3> QED BY <3>1 DEF Invocations, Contexts
  <2>3. d \in Steps /\ d.op = "done" /\ e \in Steps /\ e.op = "error"
        /\ "done" \in {"done", "cancel", "heartbeat"}
    BY <2>1, IdStep DEF IdOps, Step, Steps, ErrorSteps
  <2>4. \E steps \in Seq(Steps) : /\ Then(t, steps) /\ steps # <<>> /\ Head(steps) = d
                                  /\ \A i \in DOMAIN steps : i > 1 => steps[i].op = "error"
    <3> HIDE DEF d, e
    <3>1. CASE refused
      <4>1. Then(t, <<d>> \o <<e>>)
        BY <1>5, <3>1
      <4>2. /\ <<d>> \o <<e>> \in Seq(Steps) /\ <<d>> \o <<e>> # <<>> /\ Head(<<d>> \o <<e>>) = d
            /\ \A i \in DOMAIN (<<d>> \o <<e>>) :
                  (i = 1 /\ (<<d>> \o <<e>>)[i] = d) \/ (i > 1 /\ (<<d>> \o <<e>>)[i] = e)
        BY <2>3, TwoCalls
      <4>3. \A i \in DOMAIN (<<d>> \o <<e>>) : i > 1 => (<<d>> \o <<e>>)[i].op = "error"
        BY <2>3, <4>2
      <4> DEFINE r == <<d>> \o <<e>>
      <4>4. /\ r \in Seq(Steps) /\ Then(t, r) /\ r # <<>> /\ Head(r) = d
            /\ \A i \in DOMAIN r : i > 1 => r[i].op = "error"
        BY <4>1, <4>2, <4>3
      <4> HIDE DEF r
      <4> QED BY <4>4
    <3>2. CASE ~ refused
      <4>1. <<d>> \in Seq(Steps) /\ <<d>> # <<>> /\ Head(<<d>>) = d
            /\ \A i \in DOMAIN <<d>> : i > 1 => <<d>>[i].op = "error"
        BY <2>3, OneStep
      <4>2. <<d>> \o <<>> = <<d>>
        BY <4>1, ConcatEmptySeq
      <4>3. Then(t, <<d>>)
        BY <1>5, <3>2, <4>2
      <4> DEFINE r == <<d>>
      <4>4. /\ r \in Seq(Steps) /\ Then(t, r) /\ r # <<>> /\ Head(r) = d
            /\ \A i \in DOMAIN r : i > 1 => r[i].op = "error"
        BY <4>1, <4>3
      <4> HIDE DEF r
      <4> QED BY <4>4
    <3> QED BY <3>1, <3>2
  <2>5. PICK steps \in Seq(Steps) : /\ Then(t, steps) /\ steps # <<>> /\ Head(steps) = d
                                    /\ \A i \in DOMAIN steps : i > 1 => steps[i].op = "error"
    BY <2>4
  <2>6. /\ pb'.requeued \in BOOLEAN /\ (pb'.requeued => pb.requeued /\ pb'.trans = pb.trans)
        /\ pb'.state # "WAIT_CANCEL" /\ (pb'.state = "BUSY" => pb'.trans = id[1] /\ pb'.channels = inv.ctx.channels)
    <3>1. pb \in PbOf(pb.channels) /\ pb.state # "WAIT_CANCEL" /\ pb.state # "BUSY"
      BY <1>5 DEF TInv, CanStart
    <3>2. pb'.requeued \in BOOLEAN
      BY PbFacts DEF TInv
    <3>3. CASE refused
      <4>1. pb' = [pb EXCEPT !.timetoken = inv.ctx.cursor]
        BY <1>5, <3>3
      <4> HIDE DEF inv, refused
      <4> QED BY <3>1, <3>2, <4>1 DEF PbOf
    <3>4. CASE ~ refused
      <4> DEFINE p == Started(id[1], inv.ctx.channels)
      <4>1. pb' = [p EXCEPT !.timetoken = inv.ctx.cursor, !.cursor = inv.ctx.cursor]
        BY <1>5, <3>4
      <4>2. id[1] \in Transactions
        BY <1>1 DEF Transactions
      <4>3. /\ p \in PbOf(inv.ctx.channels) /\ p.state = "BUSY" /\ p.trans = id[1]
            /\ ~ p.requeued /\ p.channels = inv.ctx.channels
        BY <3>1, <4>2, PbStarted
      <4> HIDE DEF p, inv, id, refused
      <4> QED BY <3>2, <4>1, <4>3 DEF PbOf
    <3> QED BY <3>3, <3>4
  <2>7. CallsInv' /\ QueueInv' /\ ChannelsInv'
    <3>1. \A u \in Threads \ {t} : todo[u] # <<>> => UNCHANGED current_transaction /\ CanStart' = CanStart
      BY <1>1, <1>5, Turn DEF LoopInv
    <3>2. UNCHANGED <<state, context, cancel_invocation, subscribables>>
      BY <1>1, <1>2
    <3>3. "done" # "cancel" /\ "done" # "heartbeat" /\ pb'.state # "WAIT_CANCEL"
      BY <2>6
    <3>4. pb'.state = "BUSY" /\ pb'.trans \notin Requests => current_transaction' # "NONE"
      BY <1>1, <2>6
    <3>5. Head(steps) = With("done", id) /\ invocations' = Mark(id, "RUNNING")
      BY <1>5, <2>5
    <3> HIDE DEF id, d
    <3>6. id = Head(todo[t]).id
      BY DEF id
    <3> QED BY <1>1, <1>2, <2>1, <2>3, <2>5, <2>6, <3>1, <3>2, <3>3, <3>4, <3>5, <3>6, Begins
  <2>8. id[1] # "CANCEL" /\ QueueInv
    BY <1>1, IdsAreNot DEF LoopInv
  <2>9. PICK f : Selects(f, invocations', invocations)
    <3>1. invocations' = Mark(id, "RUNNING")
      BY <1>5
    <3> QED BY <2>1, <2>8, <3>1, MarkSelects
  <2>10. /\ \A s, c : Covered(invocations, s, c) => Covered(invocations', s, c)
         /\ Separate(invocations) => Separate(invocations')
         /\ (\E j \in DOMAIN invocations : CancelAt(invocations, j))
               => \E j \in DOMAIN invocations' : CancelAt(invocations', j)
    BY <2>9, OrderKept DEF TInv
  <2>11. Covered(invocations', state', context') /\ Separate(invocations')
    BY <1>1, <2>10 DEF LoopInv, RequestsInv
  <2>12. RequestAt(invocations, 1) /\ invocations[1].id = id
    BY <1>1, <2>1 DEF RequestAt, FirstIs
  <2>13. Answered'
    <3> SUFFICES ASSUME Live'
                 PROVE  \/ ForState(pb'.trans, state') /\ pb'.channels = context'.channels
                        \/ \E j \in DOMAIN invocations' : CancelAt(invocations', j)
      BY DEF Answered
    <3>1. pb'.trans = id[1] /\ pb'.channels = inv.ctx.channels
      BY <2>6 DEF Live
    <3>2. \/ ForState(id[1], state) /\ inv.ctx.channels = context.channels
          \/ \E j \in DOMAIN invocations : CancelAt(invocations, j)
      BY <2>1, <2>12 DEF LoopInv, RequestsInv, Covered
    <3> QED BY <1>1, <2>10, <3>1, <3>2
  <2>14. Behind(invocations')
    <3>1. /\ DOMAIN invocations' = DOMAIN invocations /\ invocations \in Seq(Invocations)
          /\ \A i \in DOMAIN invocations :
                /\ invocations'[i].id = invocations[i].id
                /\ invocations'[i].status = IF i = 1 THEN "RUNNING" ELSE invocations[i].status
      <4>1. invocations \in Seq(Invocations) /\ invocations' = Mark(id, "RUNNING") /\ Index(id) = 1
        BY <1>5, <2>1 DEF TInv
      <4> HIDE DEF id
      <4> QED BY <4>1, MarkFacts
    <3>2. RequestAt(invocations', 1)
      BY <2>1, <2>12, <3>1 DEF RequestAt
    <3> SUFFICES ASSUME NEW i \in DOMAIN invocations', RequestAt(invocations', i),
                        invocations'[i].status = "CREATED"
                 PROVE  \E j \in DOMAIN invocations' : j < i /\ CancelAt(invocations', j)
      BY DEF Behind
    <3>3. i # 1 /\ 1 < i
      BY <3>1
    <3>4. PICK j \in DOMAIN invocations' : 1 < j /\ j < i /\ CancelAt(invocations', j)
      BY <2>1, <2>11, <3>1, <3>2, <3>3 DEF Separate
    <3> QED BY <3>4
  <2> QED BY <2>7, <2>11, <2>13, <2>14 DEF LoopInv, RequestsInv
<1> QED BY <1>1, <1>3, <1>4, <1>5

\* A refused request makes a failure of the state, or of nothing.
LEMMA LoopSubscribeError ==
    ASSUME TInv, TInv', LeaveInv, LoopInv, LoopWindows, NEW t \in Threads, SubscribeError(t)
    PROVE  LoopInv'
<1>1. /\ At(t, "error")
      /\ \/ \E type \in {"HANDSHAKE_FAILURE", "RECEIVE_FAILURE"} : Then(t, <<CopyEvent(type)>>)
         \/ Return(t)
      /\ UNCHANGED <<engine, flags, leave, calls, pb, now, delivery, owed>>
  BY DEF SubscribeError, Return
<1>2. UNCHANGED <<state, context, invocations, cancel_invocation, subscribables,
                  current_transaction, pb>>
  BY <1>1 DEF engine, flags, calls
<1>3. "error" \notin OwnerOps /\ "error" \notin {"leave", "event", "callback", "changed"} /\ "error" # "exec"
  BY DEF OwnerOps
<1>4. CASE Return(t)
  BY <1>1, <1>2, <1>3, <1>4, Returns
<1>5. CASE \E type \in {"HANDSHAKE_FAILURE", "RECEIVE_FAILURE"} : Then(t, <<CopyEvent(type)>>)
  <2>1. PICK type \in {"HANDSHAKE_FAILURE", "RECEIVE_FAILURE"} : Then(t, <<CopyEvent(type)>>)
    BY <1>5
  <2> DEFINE s == CopyEvent(type)
  <2>2. s \in Steps /\ s.op = "event" /\ s.type = type /\ s.ctx.channels = context.channels
    <3>1. type \in EventTypes
      BY DEF EventTypes
    <3> QED BY <3>1, CopyStep DEF CopyEvent, Event
  <2>3. Tells(s) /\ s.type \notin AppTypes
    BY <2>2 DEF Tells, Fresh, AppTypes
  <2>4. Then(t, <<s>>)
    BY <2>1
  <2> HIDE DEF s
  <2>5. \E steps \in Seq(Steps) : /\ Then(t, steps) /\ steps # <<>> /\ Head(steps) = s
                                  /\ \A i \in DOMAIN steps : i > 1 => steps[i].op = "error"
    BY <2>2, <2>4, OneStep
  <2>6. PICK steps \in Seq(Steps) : /\ Then(t, steps) /\ steps # <<>> /\ Head(steps) = s
                                    /\ \A i \in DOMAIN steps : i > 1 => steps[i].op = "error"
    BY <2>5
  <2> QED BY <1>1, <1>2, <1>3, <2>2, <2>3, <2>6, Passes
<1> QED BY <1>1, <1>4, <1>5

\* The event of a call that changed the subscriptions has their channels.
LEMMA LoopSubscriptionChanged ==
    ASSUME TInv, TInv', LeaveInv, LoopInv, LoopWindows, NEW t \in Threads, SubscriptionChanged(t)
    PROVE  LoopInv'
<1> DEFINE c == Head(todo[t])
<1>1. /\ At(t, "changed")
      /\ \E type \in Fresh : \E cursor \in {context.cursor, c.cursor} :
            Then(t, <<Event(type, subscribables, cursor, c.heartbeat)>>)
      /\ UNCHANGED <<engine, flags, leave, calls, pb, now, delivery, owed>>
  BY DEF SubscriptionChanged, Fresh
<1>2. UNCHANGED <<state, context, invocations, cancel_invocation, subscribables,
                  current_transaction, pb>>
  BY <1>1 DEF engine, flags, calls
<1>3. "changed" \notin OwnerOps /\ "changed" \notin {"leave", "event", "callback"} /\ "changed" # "exec"
  BY DEF OwnerOps
<1>4. PICK type \in Fresh, cursor \in {context.cursor, c.cursor} :
            Then(t, <<Event(type, subscribables, cursor, c.heartbeat)>>)
  BY <1>1
<1> DEFINE s == Event(type, subscribables, cursor, c.heartbeat)
<1>5. s \in Steps /\ s.op = "event" /\ s.type = type /\ s.ctx.channels = subscribables
  <2>1. c \in Steps /\ c.op = "changed"
    BY <1>1, AtFacts DEF TInv
  <2>2. c.cursor \in Tokens /\ c.heartbeat \in BOOLEAN
    BY <2>1, StepFacts
  <2>3. cursor \in Tokens /\ subscribables \in SUBSET Channels /\ type \in EventTypes
    BY <2>2 DEF TInv, Contexts, Fresh, EventTypes
  <2> QED BY <2>2, <2>3, EventStep DEF Event
<1>6. Tells(s) /\ s.type \in Fresh
  BY <1>5 DEF Tells, Fresh
<1>7. Then(t, <<s>>)
  BY <1>4
<1> HIDE DEF s
<1>8. \E steps \in Seq(Steps) : /\ Then(t, steps) /\ steps # <<>> /\ Head(steps) = s
                                /\ \A i \in DOMAIN steps : i > 1 => steps[i].op = "error"
  BY <1>5, <1>7, OneStep
<1>9. PICK steps \in Seq(Steps) : /\ Then(t, steps) /\ steps # <<>> /\ Head(steps) = s
                                  /\ \A i \in DOMAIN steps : i > 1 => steps[i].op = "error"
  BY <1>8
<1> QED BY <1>1, <1>2, <1>3, <1>5, <1>6, <1>9, Passes

\* The answer to a request makes an event of the state, or of nothing.
LEMMA LoopReport ==
    ASSUME TInv, TInv', LeaveInv, LoopInv, LoopWindows, Report
    PROVE  LoopInv'
<1> DEFINE t == "watcher"
           Types0 == {"HANDSHAKE_SUCCESS", "HANDSHAKE_FAILURE", "RECEIVE_SUCCESS", "RECEIVE_FAILURE"}
<1>1. /\ At(t, "report")
      /\ \/ \E type \in Types0 : \E cursor \in {context.cursor, pb.timetoken} :
               Then(t, <<Event(type, context.channels, cursor, FALSE)>>)
         \/ Return(t)
      /\ UNCHANGED <<engine, flags, leave, calls, pb, now, delivery, owed>>
  BY DEF Report, CopyEvent, Return
<1>2. UNCHANGED <<state, context, invocations, cancel_invocation, subscribables,
                  current_transaction, pb>>
  BY <1>1 DEF engine, flags, calls
<1>3. "report" \notin OwnerOps /\ "report" \notin {"leave", "event", "callback", "changed"} /\ "report" # "exec"
  BY DEF OwnerOps
<1>4. t \in Threads
  BY DEF Threads
<1> HIDE DEF t
<1>5. CASE Return(t)
  BY <1>1, <1>2, <1>3, <1>4, <1>5, Returns
<1>6. CASE ~ Return(t)
  <2>1. PICK type \in Types0, cursor \in {context.cursor, pb.timetoken} :
               Then(t, <<Event(type, context.channels, cursor, FALSE)>>)
    BY <1>1, <1>6
  <2> DEFINE s == Event(type, context.channels, cursor, FALSE)
  <2>2. s \in Steps /\ s.op = "event" /\ s.type = type /\ s.ctx.channels = context.channels
    <3>1. type \in EventTypes /\ FALSE \in BOOLEAN
      BY DEF EventTypes
    <3>2. cursor \in Tokens /\ context.channels \in SUBSET Channels
      BY PbFacts DEF TInv, Contexts
    <3> QED BY <3>1, <3>2, EventStep DEF Event
  <2>3. Tells(s) /\ s.type \notin AppTypes
    BY <2>2 DEF Tells, Fresh, AppTypes
  <2>4. Then(t, <<s>>)
    BY <2>1
  <2> HIDE DEF s
  <2>5. \E steps \in Seq(Steps) : /\ Then(t, steps) /\ steps # <<>> /\ Head(steps) = s
                                  /\ \A i \in DOMAIN steps : i > 1 => steps[i].op = "error"
    BY <2>2, <2>4, OneStep
  <2>6. PICK steps \in Seq(Steps) : /\ Then(t, steps) /\ steps # <<>> /\ Head(steps) = s
                                    /\ \A i \in DOMAIN steps : i > 1 => steps[i].op = "error"
    BY <2>5
  <2> QED BY <1>1, <1>2, <1>3, <1>4, <2>2, <2>3, <2>6, Passes
<1> QED BY <1>5, <1>6

\* The leave of a call is sent, or kept for the callback.
LEMMA LoopLeave ==
    ASSUME TInv, TInv', LeaveInv, LoopInv, LoopWindows, NEW t \in Threads, Leave(t)
    PROVE  LoopInv'
<1> DEFINE channels == Head(todo[t]).channels
<1>0. PICK steps \in Seq(Steps) : steps = <<>>
  BY NoStep
<1>1. /\ At(t, "leave") /\ Monitor(t) /\ Then(t, steps)
      /\ \/ CanStart /\ current_transaction' = "LEAVE" /\ pb' = Started("LEAVE", channels)
         \/ UNCHANGED <<current_transaction, pb>>
      /\ UNCHANGED <<engine, cancel_invocation, calls>>
  BY <1>0 DEF Leave, Return
<1>2. UNCHANGED <<state, context, invocations, cancel_invocation, subscribables>>
  BY <1>1 DEF engine, calls
<1>3. ~ (steps # <<>>) /\ \A i \in DOMAIN steps : i > 1 => steps[i].op = "error"
  BY <1>0, NoStep
<1>4. todo[t] # <<>> /\ Head(todo[t]).op = "leave"
  BY <1>1 DEF At
<1>5. t = "app" /\ Asking(Head(todo[t]))
  BY <1>4 DEF LoopInv, CallsInv, Stack, Is, Asking
<1>6. \A u \in Threads \ {t} : todo[u] = <<>>
  BY <1>1, <1>5 DEF Monitor, Threads
<1>7. /\ pb'.requeued \in BOOLEAN /\ (pb'.requeued => pb.requeued /\ pb'.trans = pb.trans)
      /\ pb'.state = "WAIT_CANCEL" => pb.state = "WAIT_CANCEL"
      /\ pb'.state = "BUSY" /\ pb'.trans \notin Requests => current_transaction' # "NONE"
      /\ Live' => Live /\ pb'.trans = pb.trans /\ pb'.channels = pb.channels
      /\ current_transaction' = "NONE" => current_transaction = "NONE"
  <2>1. "LEAVE" \in Transactions /\ "LEAVE" \notin Requests
    BY DEF Transactions, Requests
  <2>2. /\ Started("LEAVE", channels).state = "BUSY" /\ Started("LEAVE", channels).trans = "LEAVE"
        /\ ~ Started("LEAVE", channels).requeued
    BY <2>1, PbStarted DEF TInv
  <2>3. pb'.requeued \in BOOLEAN
    BY PbFacts DEF TInv
  <2>4. pb.state = "BUSY" /\ pb.trans \notin Requests => current_transaction # "NONE"
    BY DEF LoopInv, CallsInv, TransactionKnown
  <2> QED BY <1>1, <2>1, <2>2, <2>3, <2>4 DEF Live
<1>8. CallsInv'
  <2>1. \A u \in Threads \ {t} : todo[u] # <<>> =>
           /\ UNCHANGED current_transaction
           /\ Head(todo[u]).op = "heartbeat" => CanStart' = CanStart
    BY <1>6
  <2>2. pb'.state = "WAIT_CANCEL" =>
           pb.state = "WAIT_CANCEL" /\ "leave" # "cancelled" /\ UNCHANGED cancel_invocation
    BY <1>2, <1>7
  <2>3. CallsInv
    BY DEF LoopInv
  <2> QED BY <1>1, <1>2, <1>3, <1>5, <1>7, <2>1, <2>2, <2>3, CallsKept
<1>9. QueueInv'
  <2>1. "leave" \notin OwnerOps /\ "leave" \notin {"exec", "callback"}
    BY DEF OwnerOps
  <2> QED BY <1>1, <1>2, <1>3, <1>7, <2>1, QueuePasses DEF LoopInv
<1>10. RequestsInv'
  <2>1. invocations \in Seq(Invocations)
    BY DEF TInv
  <2>2. \A i \in DOMAIN invocations : CancelAt(invocations, i) => invocations[i].status = "CREATED"
    BY DEF CancelAt
  <2>3. PICK f : Selects(f, invocations, invocations) /\ NoneSetBack(f, invocations, invocations)
    BY <2>1, <2>2, AllSelects
  <2>4. ~ AtCancel
    BY <1>4, <1>6 DEF AtCancel, Is
  <2> QED BY <1>2, <1>7, <2>3, <2>4, RequestsKept DEF LoopInv
<1>11. ChannelsInv'
  BY <1>1, <1>2, <1>3, ChannelsKept DEF LoopInv
<1> QED BY <1>8, <1>9, <1>10, <1>11 DEF LoopInv

\* The end of an effect
LEMMA LoopComplete ==
    ASSUME TInv, TInv', LeaveInv, LoopInv, LoopWindows, NEW t \in Threads, Complete(t)
    PROVE  LoopInv'
<1>1. /\ At(t, "done")
      /\ Then(t, IF invocations' # invocations THEN ProcessNext(invocations') ELSE <<>>)
      /\ UNCHANGED <<state, context, flags, calls, pb>>
  BY DEF Complete
<1>2. UNCHANGED <<current_transaction, cancel_invocation, subscribables>>
  BY <1>1 DEF flags, calls
<1>3. /\ QueueInv' /\ CallsInv'
      /\ invocations # <<>> /\ invocations[1].status = "RUNNING"
      /\ invocations' = Drop(invocations, 1)
  BY QueueCompletes DEF LoopInv
<1>4. invocations \in Seq(Invocations) /\ invocations' \in Seq(Invocations) /\ 1 \in DOMAIN invocations
  BY <1>3 DEF TInv
<1>5. PICK f : Selects(f, invocations', invocations) /\ NoneSetBack(f, invocations', invocations)
  <2>1. ~ CancelAt(invocations, 1)
    BY <1>3 DEF CancelAt
  <2> QED BY <1>3, <1>4, <2>1, DropSelects
<1>6. \E steps \in Seq(Steps) :
         /\ Then(t, steps) /\ \A i \in DOMAIN steps : i > 1 => steps[i].op = "error"
         /\ steps # <<>> => Head(steps).op = "exec"
  <2>1. CASE invocations' # invocations
    <3> DEFINE steps == ProcessNext(invocations')
    <3>1. /\ steps \in Seq(Steps) /\ Then(t, steps) /\ \A i \in DOMAIN steps : i > 1 => steps[i].op = "error"
          /\ steps # <<>> => Head(steps).op = "exec"
      BY <1>1, <1>4, <2>1, NextFirst
    <3> HIDE DEF steps
    <3> QED BY <3>1
  <2>2. CASE invocations' = invocations
    <3>1. PICK steps \in Seq(Steps) : steps = <<>>
      BY NoStep
    <3>2. Then(t, steps) /\ ~ (steps # <<>>)
      BY <1>1, <2>2, <3>1
    <3>3. \A i \in DOMAIN steps : i > 1 => steps[i].op = "error"
      BY <3>1, NoStep
    <3> QED BY <3>2, <3>3
  <2> QED BY <2>1, <2>2
<1>7. PICK steps \in Seq(Steps) :
         /\ Then(t, steps) /\ \A i \in DOMAIN steps : i > 1 => steps[i].op = "error"
         /\ steps # <<>> => Head(steps).op = "exec"
  BY <1>6
<1>8. todo[t] # <<>> /\ Head(todo[t]).op = "done"
      /\ \A u \in Threads \ {t} : todo[u] # <<>> => Head(todo[u]).op \in {"heartbeat", "leave", "exec"}
  <2>1. steps # <<>> => Head(steps).op # "leave" /\ "done" # "leave"
    BY <1>7
  <2> QED BY <1>1, <1>7, <2>1, Stepped DEF LoopInv
<1>9. RequestsInv'
  <2>1. ~ AtCancel
    <3>1. ASSUME NEW u \in Threads PROVE ~ Is(u, {"cancel"})
      <4>1. CASE u = t
        BY <1>8, <4>1 DEF Is
      <4>2. CASE u # t
        BY <1>8, <4>2 DEF Is
      <4> QED BY <4>1, <4>2
    <3> QED BY <3>1 DEF AtCancel
  <2>2. Live' => Live /\ pb'.trans = pb.trans /\ pb'.channels = pb.channels
    BY <1>1 DEF Live
  <2> QED BY <1>1, <1>5, <2>1, <2>2, RequestsKept DEF LoopInv
<1>10. ChannelsInv'
  <2>1. ~ Refreshes(Head(todo[t])) /\ "done" # "leave"
    BY <1>8 DEF Refreshes
  <2> QED BY <1>1, <1>2, <1>7, <2>1, ChannelsKept DEF LoopInv
<1> QED BY <1>3, <1>9, <1>10 DEF LoopInv

-----------------------------------------------------------------------------
(* The watcher, the application and the server *)

\* Nothing that the invariant is about changes.
LEMMA LoopStands ==
    ASSUME LoopInv, UNCHANGED <<state, context, invocations, flags, subscribables, pb, todo>>
    PROVE  LoopInv'
<1>1. UNCHANGED <<state, context, invocations, current_transaction, cancel_invocation,
                  subscribables, pb, todo>>
  BY DEF flags
<1>2. CallsInv'
  BY <1>1 DEF LoopInv, CallsInv, Stack, Is, Follows, WatcherAnswers, Asking, Meeting, AfterEnd,
              CanStart, PreparedLeave, HeartbeatHeld, CancelHeld, CancelKnown, TransactionKnown
<1>3. QueueInv'
  BY <1>1 DEF LoopInv, QueueInv, Unique, Owner, OneOwner, FirstRuns, Cancelling, ExecFirst,
              Progress, Is, FirstIs
<1>4. RequestsInv'
  BY <1>1 DEF LoopInv, RequestsInv, Answered, Live, AtCancel, Is
<1>5. ChannelsInv'
  BY <1>1 DEF LoopInv, ChannelsInv, CurrentChannels, EventChannels, Is
<1> QED BY <1>2, <1>3, <1>4, <1>5 DEF LoopInv

\* The order of a queue that stands
LEMMA OrderStands ==
    ASSUME RequestsInv, TInv, TInv', UNCHANGED <<state, context, invocations>>,
           Live' => /\ Live /\ pb'.trans = pb.trans /\ pb'.channels = pb.channels
                    /\ AtCancel => AtCancel'
    PROVE  RequestsInv'
<1>1. invocations \in Seq(Invocations)
  BY DEF TInv
<1>2. \A i \in DOMAIN invocations : CancelAt(invocations, i) => invocations[i].status = "CREATED"
  BY DEF CancelAt
<1>3. PICK f : Selects(f, invocations, invocations) /\ NoneSetBack(f, invocations, invocations)
  BY <1>1, <1>2, AllSelects
<1> QED BY <1>3, RequestsKept

\* A prepared leave is alone.
LEMMA PreparedAlone ==
    ASSUME TInv, LeaveInv, LoopInv, LoopWindows, pb.requeued,
           todo["app"] # <<>> => Head(todo["app"]).op \in Windows
    PROVE  /\ todo["app"] = <<>> /\ todo["watcher"] = <<>>
           /\ CanStart /\ current_transaction = "LEAVE" /\ pb.trans = "LEAVE"
<1>1. CanStart /\ current_transaction = "LEAVE" /\ todo["watcher"] = <<>> /\ ~ Is("app", Critical)
  BY DEF LeaveInv, Prepared
<1>2. pb.trans = "LEAVE"
  BY DEF LoopInv, CallsInv, PreparedLeave
<1>3. todo["app"] = <<>>
  BY <1>1 DEF Is, Critical, LoopWindows
<1> QED BY <1>1, <1>2, <1>3

\* The leave that a callback prepared is sent.
LEMMA LoopRequeued ==
    ASSUME TInv, TInv', LeaveInv, LoopInv, LoopWindows, Requeued
    PROVE  LoopInv'
<1>1. /\ pb.requeued /\ todo["watcher"] = <<>>
      /\ todo["app"] # <<>> => Head(todo["app"]).op \in Windows
      /\ todo' = [todo EXCEPT !["watcher"] = <<>>]
      /\ pb' = [pb EXCEPT !.requeued = FALSE, !.state = IF CanStart THEN "BUSY" ELSE @]
      /\ UNCHANGED <<engine, flags, calls>>
  BY DEF Requeued, Enters
<1>2. /\ todo["app"] = <<>> /\ CanStart /\ current_transaction = "LEAVE" /\ pb.trans = "LEAVE"
  BY <1>1, PreparedAlone
<1>3. todo' = todo
  BY <1>1 DEF TInv, Threads
<1>4. UNCHANGED <<state, context, invocations, current_transaction, cancel_invocation, subscribables>>
  BY <1>1 DEF engine, flags, calls
<1>5. ~ pb'.requeued /\ pb'.state = "BUSY" /\ pb'.trans = "LEAVE"
  <2>1. pb \in PbOf(pb.channels)
    BY DEF TInv
  <2> QED BY <1>1, <1>2, <2>1 DEF PbOf
<1>6. \A u \in Threads : todo[u] = <<>>
  BY <1>1, <1>2 DEF Threads
<1>7. CallsInv'
  <2>1. Stack' /\ WatcherAnswers' /\ Meeting'
    BY <1>3, <1>4, <1>6 DEF LoopInv, CallsInv, Stack, Is, Follows, WatcherAnswers, Asking, Meeting, Threads
  <2>2. AfterEnd' /\ HeartbeatHeld' /\ CancelHeld'
    BY <1>3, <1>6 DEF AfterEnd, HeartbeatHeld, CancelHeld, Is, Threads
  <2>3. PreparedLeave' /\ CancelKnown' /\ TransactionKnown'
    BY <1>2, <1>4, <1>5 DEF PreparedLeave, CancelKnown, TransactionKnown
  <2> QED BY <2>1, <2>2, <2>3 DEF CallsInv
<1>8. QueueInv'
  BY <1>3, <1>4 DEF LoopInv, QueueInv, Unique, Owner, OneOwner, FirstRuns, Cancelling, ExecFirst,
                    Progress, Is, FirstIs
<1>9. RequestsInv'
  <2>1. ~ Live'
    BY <1>5 DEF Live, Requests
  <2> QED BY <1>4, <2>1, OrderStands DEF LoopInv
<1>10. ChannelsInv'
  BY <1>3, <1>4 DEF LoopInv, ChannelsInv, CurrentChannels, EventChannels, Is
<1> QED BY <1>7, <1>8, <1>9, <1>10 DEF LoopInv

\* What the end of a transaction leaves of the context
LEMMA Outcome ==
    ASSUME TInv, Ends
    PROVE  /\ pb.state \in {"BUSY", "WAIT_CANCEL"}
           /\ pb'.state \in {"IDLE", "KEEP_ALIVE_IDLE"} /\ pb'.trans = "NONE"
           /\ pb'.requeued = pb.requeued
<1>1. pb \in PbOf(pb.channels)
  BY DEF TInv
<1>2. \A s \in {"IDLE", "KEEP_ALIVE_IDLE"} :
         /\ Over(s) \in PbOf({}) /\ Over(s).state = s /\ Over(s).trans = "NONE"
         /\ Over(s).requeued = pb.requeued
  BY <1>1, PbOver
<1> DEFINE Ended0 == /\ pb'.state \in {"IDLE", "KEEP_ALIVE_IDLE"} /\ pb'.trans = "NONE"
                     /\ pb'.requeued = pb.requeued
<1>3. ASSUME NEW s \in {"IDLE", "KEEP_ALIVE_IDLE"}, NEW p, p = Over(s),
             NEW messages, NEW timetoken, NEW cursor,
             \/ pb' = p
             \/ pb' = [p EXCEPT !.messages = messages, !.timetoken = timetoken, !.cursor = cursor]
             \/ pb' = [p EXCEPT !.timetoken = timetoken, !.cursor = cursor]
             \/ pb' = [p EXCEPT !.messages = messages, !.cursor = cursor]
      PROVE  Ended0
  <2>1. p \in PbOf({}) /\ p.state = s /\ p.trans = "NONE" /\ p.requeued = pb.requeued
    BY <1>2, <1>3
  <2>2. pb'.state = p.state /\ pb'.trans = p.trans /\ pb'.requeued = p.requeued
    BY <1>3, <2>1 DEF PbOf
  <2> QED BY <2>1, <2>2
<1>4. CASE EndOk
  <2>1. PICK s \in {"IDLE", "KEEP_ALIVE_IDLE"} :
          pb' = IF pb.trans \in Requests
                THEN [Over(s) EXCEPT !.messages = Messages, !.timetoken = now,
                                     !.cursor = IF Messages = 0 THEN 0 ELSE @]
                ELSE Over(s)
    BY <1>4 DEF EndOk
  <2> DEFINE c == IF Messages = 0 THEN 0 ELSE Over(s).cursor
             m == Messages
             p == Over(s)
  <2>2. pb' = p \/ pb' = [p EXCEPT !.messages = m, !.timetoken = now, !.cursor = c]
    BY <2>1
  <2>3. p = Over(s)
    OBVIOUS
  <2> HIDE DEF c, m, p, Ended0
  <2>4. ASSUME pb' = p PROVE Ended0
    BY <1>3, <2>3, <2>4
  <2>5. ASSUME pb' = [p EXCEPT !.messages = m, !.timetoken = now, !.cursor = c] PROVE Ended0
    BY <1>3, <2>3, <2>5
  <2>6. Ended0
    BY <2>2, <2>4, <2>5
  <2> QED BY <1>4, <2>6 DEF EndOk, Ended0
<1>5. CASE EndError
  <2>1. PICK s \in {"IDLE", "KEEP_ALIVE_IDLE"} : \E token :
           pb' = [Over(s) EXCEPT !.timetoken = token, !.cursor = IF pb.messages = 0 THEN 0 ELSE @]
    BY <1>5 DEF EndError
  <2>2. PICK token :
           pb' = [Over(s) EXCEPT !.timetoken = token, !.cursor = IF pb.messages = 0 THEN 0 ELSE @]
    BY <2>1
  <2> DEFINE c == IF pb.messages = 0 THEN 0 ELSE Over(s).cursor
             p == Over(s)
  <2>3. pb' = [p EXCEPT !.timetoken = token, !.cursor = c] /\ p = Over(s)
    BY <2>2
  <2> HIDE DEF c, p, Ended0
  <2>4. Ended0
    BY <1>3, <2>3
  <2> QED BY <1>5, <2>4 DEF EndError, Ended0
<1>6. CASE EndCancelled
  <2> DEFINE s == "IDLE"
             p == Over(s)
  <2>1. pb' = [p EXCEPT !.messages = 0, !.cursor = 0] /\ p = Over(s)
        /\ s \in {"IDLE", "KEEP_ALIVE_IDLE"}
    BY <1>6 DEF EndCancelled
  <2> HIDE DEF s, p, Ended0
  <2>2. Ended0
    BY <1>3, <2>1
  <2> QED BY <1>6, <2>2 DEF EndCancelled, Ended0
<1> QED BY <1>4, <1>5, <1>6 DEF Ends

\* A transaction ends: the application is away, and the watcher alone goes on.
LEMMA LoopEnds ==
    ASSUME TInv, TInv', LeaveInv, LoopInv, LoopWindows, Ends
    PROVE  LoopInv'
<1>1. /\ pb.state \in {"BUSY", "WAIT_CANCEL"}
      /\ pb'.state \in {"IDLE", "KEEP_ALIVE_IDLE"} /\ pb'.trans = "NONE"
      /\ pb'.requeued = pb.requeued
  BY Outcome
<1>2. ~ CanStart /\ CanStart' /\ ~ Live'
  BY <1>1 DEF CanStart, Live
<1>3. UNCHANGED <<engine, flags, calls>> /\ \E result : Enters(Callback(result))
  BY DEF Ends, EndOk, EndError, EndCancelled
<1>4. UNCHANGED <<state, context, invocations, current_transaction, cancel_invocation, subscribables>>
  BY <1>3 DEF engine, flags, calls
<1>5. \E s : s.op \in {"callback", "report"} /\ Enters(<<s>>)
  <2>1. PICK result : Enters(Callback(result))
    BY <1>3
  <2>2. \E s : s.op \in {"callback", "report"} /\ Callback(result) = <<s>>
    <3>1. CASE result # "CANCELLED" /\ pb.trans \in Requests
      BY <3>1 DEF Callback
    <3>2. CASE ~ (result # "CANCELLED" /\ pb.trans \in Requests)
      BY <3>2 DEF Callback
    <3> QED BY <3>1, <3>2
  <2> QED BY <2>1, <2>2
<1>6. PICK s : s.op \in {"callback", "report"} /\ Enters(<<s>>)
  BY <1>5
<1>7. /\ todo["watcher"] = <<>> /\ todo'["watcher"] = <<s>> /\ todo'["app"] = todo["app"]
      /\ todo["app"] # <<>> => Head(todo["app"]).op = "heartbeat"
  BY <1>6 DEF Enters, TInv, Threads, LoopWindows
<1>8. todo["app"] = <<>>
  BY <1>2, <1>7 DEF LoopInv, CallsInv, HeartbeatHeld, Is, Threads
<1>9. /\ todo'["app"] = <<>> /\ todo'["watcher"] # <<>> /\ Head(todo'["watcher"]) = s
      /\ \A i \in DOMAIN todo'["watcher"] : ~ (i > 1)
      /\ \A u \in Threads : todo[u] = <<>>
  BY <1>7, <1>8 DEF Threads
<1>10. \A u \in Threads : todo'[u] # <<>> => u = "watcher" /\ Head(todo'[u]).op \in {"callback", "report"}
  BY <1>6, <1>9 DEF Threads
<1>11. ~ pb'.requeued
  BY <1>1, <1>2 DEF LeaveInv, Prepared
<1>12. CallsInv'
  <2>1. Stack'
    <3>1. DOMAIN todo'["app"] = {}
      BY <1>9
    <3> QED BY <1>9, <1>10, <3>1 DEF Stack, Is, Follows, Threads
  <2>2. WatcherAnswers' /\ Meeting' /\ AfterEnd'
    BY <1>2, <1>6, <1>9 DEF WatcherAnswers, Asking, Meeting, AfterEnd, Is
  <2>3. HeartbeatHeld' /\ CancelHeld'
    BY <1>10 DEF HeartbeatHeld, CancelHeld, Is
  <2>4. PreparedLeave' /\ CancelKnown' /\ TransactionKnown'
    BY <1>1, <1>11 DEF PreparedLeave, CancelKnown, TransactionKnown
  <2> QED BY <2>1, <2>2, <2>3, <2>4 DEF CallsInv
<1>13. QueueInv'
  <2>1. \A u \in Threads : ~ Is(u, OwnerOps)' /\ ~ Is(u, {"exec"})'
    BY <1>10 DEF Is, OwnerOps
  <2>2. Unique' /\ Cancelling'
    BY <1>4 DEF LoopInv, QueueInv, Unique, Cancelling, FirstIs
  <2>3. Owner' /\ OneOwner' /\ ExecFirst'
    BY <2>1 DEF Owner, OneOwner, ExecFirst, Is
  <2>4. FirstRuns'
    <3>1. \A u \in Threads : ~ Is(u, OwnerOps)
      BY <1>9 DEF Is
    <3> QED BY <1>4, <3>1 DEF LoopInv, QueueInv, FirstRuns
  <2>5. Progress'
    <3>1. \A u \in Threads : ~ Is(u, {"exec", "done", "cancel", "cancelled", "callback"})
      BY <1>9 DEF Is
    <3> QED BY <1>4, <3>1 DEF LoopInv, QueueInv, Progress
  <2> QED BY <2>2, <2>3, <2>4, <2>5 DEF QueueInv
<1>14. RequestsInv'
  BY <1>2, <1>4, OrderStands DEF LoopInv
<1>15. ChannelsInv'
  <2>1. CurrentChannels'
    BY <1>4, <1>8 DEF LoopInv, ChannelsInv, CurrentChannels
  <2>2. EventChannels'
    BY <1>10 DEF EventChannels, Is
  <2> QED BY <2>1, <2>2 DEF ChannelsInv
<1> QED BY <1>12, <1>13, <1>14, <1>15 DEF LoopInv

\* pbcc_subscribe_callback_ of a heartbeat, a leave or what was cancelled: the
\* cancel is done, and either a leave is prepared or the next effect is run.
LEMMA LoopCallback ==
    ASSUME TInv, TInv', LeaveInv, LoopInv, LoopWindows, OtherCallback
    PROVE  LoopInv'
<1> DEFINE t == "watcher"
           cb == Head(todo[t])
           ended == cb.trans \in {"HEARTBEAT", "LEAVE"}
           transaction == IF ended THEN "NONE" ELSE current_transaction
           flushed == IF ended THEN [pb EXCEPT !.messages = 0, !.cursor = 0] ELSE pb
           postponed == leave # {} /\ transaction = "NONE"
           report == [op |-> "report", ok |-> cb.ok]
           steps == CASE leave # {} -> <<>>
                      [] leave = {} /\ invocations' = <<>> -> <<report>>
                      [] OTHER -> ProcessNext(invocations')
<1>1. /\ At(t, "callback")
      /\ invocations' = IF cancel_invocation = None THEN invocations ELSE Completed(cancel_invocation)
      /\ cancel_invocation' = None
      /\ current_transaction' = IF postponed THEN "LEAVE" ELSE transaction
      /\ pb' = IF ~ postponed THEN flushed
               ELSE [flushed EXCEPT !.trans = "LEAVE", !.channels = leave, !.timetoken = 0,
                                    !.requeued = TRUE]
      /\ Then(t, steps)
      /\ UNCHANGED <<state, context, calls>>
  BY DEF OtherCallback
<1>2. UNCHANGED <<state, context, subscribables>>
  BY <1>1 DEF calls
<1>3. /\ todo[t] # <<>> /\ cb \in Steps /\ cb.op = "callback" /\ Is(t, {"callback"})
  BY <1>1, AtFacts DEF TInv, Is, Threads
<1>4. todo["app"] = <<>> /\ CanStart
  BY <1>3 DEF LoopInv, CallsInv, AfterEnd, Is
<1>5. Len(todo[t]) = 1 /\ ~ pb.requeued
  BY <1>3 DEF LeaveInv, CallbackFirst, Prepared
<1>6. /\ pb'.state = pb.state /\ (pb'.requeued => pb'.trans = "LEAVE")
  <2>1. pb \in PbOf(pb.channels)
    BY DEF TInv
  <2>2. /\ flushed \in PbOf(pb.channels) /\ flushed.state = pb.state
        /\ ~ flushed.requeued
    BY <1>5, <2>1, TokenFacts DEF PbOf
  <2> HIDE DEF flushed, postponed
  <2> QED BY <1>1, <2>2 DEF PbOf
<1>7. CanStart' /\ ~ Live' /\ pb'.state \notin {"BUSY", "WAIT_CANCEL"}
  BY <1>4, <1>6 DEF CanStart, Live
<1>8. invocations \in Seq(Invocations) /\ invocations' \in Seq(Invocations)
  BY DEF TInv
<1>9. report \in Steps /\ report.op = "report"
  <2>1. cb.ok \in BOOLEAN
    BY <1>3, StepFacts
  <2> QED BY <2>1 DEF Steps, ReportSteps
<1>10. /\ leave # {} => steps = <<>>
       /\ leave = {} /\ invocations' = <<>> => steps = <<report>>
       /\ leave = {} /\ invocations' # <<>> => steps = ProcessNext(invocations')
  OBVIOUS
<1>12. leave # {} => current_transaction' # "NONE"
  BY <1>1
<1>13. /\ steps \in Seq(Steps)
       /\ steps # <<>> => \/ Head(steps).op = "report"
                          \/ /\ Head(steps).op = "exec" /\ invocations' # <<>>
                             /\ Head(steps).id = invocations'[1].id
       /\ \A i \in DOMAIN steps : i > 1 => steps[i].op = "error"
       /\ steps = <<>> => leave # {}
       /\ invocations' # <<>> /\ steps # <<>> => Head(steps).op = "exec"
  <2> HIDE DEF steps, report
  <2>1. CASE leave # {}
    <3>1. steps = <<>>
      BY <1>10, <2>1
    <3>2. steps \in Seq(Steps) /\ ~ (steps # <<>>) /\ \A i \in DOMAIN steps : i > 1 => steps[i].op = "error"
      BY <3>1, NoStep
    <3> QED BY <2>1, <3>2
  <2>2. CASE leave = {} /\ invocations' = <<>>
    <3>1. steps = <<report>>
      BY <1>10, <2>2
    <3>2. /\ <<report>> \in Seq(Steps) /\ <<report>> # <<>> /\ Head(<<report>>) = report
          /\ \A i \in DOMAIN <<report>> : i > 1 => <<report>>[i].op = "error"
      BY <1>9, OneStep
    <3> QED BY <1>9, <2>2, <3>1, <3>2
  <2>3. CASE leave = {} /\ invocations' # <<>>
    <3>1. steps = ProcessNext(invocations')
      BY <1>10, <2>3
    <3> DEFINE next == ProcessNext(invocations')
    <3>2. /\ next \in Seq(Steps) /\ \A i \in DOMAIN next : i > 1 => next[i].op = "error"
          /\ next # <<>> /\ Head(next).op = "exec" /\ Head(next).id = invocations'[1].id
      BY <1>8, <2>3, NextFirst
    <3>3. steps = next
      BY <3>1
    <3> HIDE DEF next
    <3> QED BY <2>3, <3>2, <3>3
  <2> QED BY <2>1, <2>2, <2>3
<1> HIDE DEF steps, report, flushed, ended, transaction, postponed
<1>14. todo'[t] = steps /\ todo'["app"] = <<>>
  <2>1. todo'[t] = steps \o Tail(todo[t]) /\ todo'["app"] = todo["app"]
    BY <1>1, <1>3, <1>13, ThenTyped DEF TInv, Threads
  <2>2. Tail(todo[t]) = <<>>
    <3> DEFINE q == todo[t]
    <3>1. q \in Seq(Steps) /\ Len(q) = 1
      BY <1>5 DEF TInv, Threads
    <3> HIDE DEF q
    <3>2. Tail(q) \in Seq(Steps) /\ Len(Tail(q)) = 0
      BY <3>1
    <3>3. Tail(q) = <<>>
      BY <3>2, EmptySeq
    <3> QED BY <3>3 DEF q
  <2>3. steps \o <<>> = steps
    BY <1>13, ConcatEmptySeq
  <2> QED BY <1>4, <2>1, <2>2, <2>3
<1>15. ASSUME NEW u \in Threads, todo'[u] # <<>>
       PROVE  /\ u = t /\ todo'[u] = steps
              /\ \/ Head(todo'[u]).op = "report"
                 \/ /\ Head(todo'[u]).op = "exec" /\ invocations' # <<>>
                    /\ Head(todo'[u]).id = invocations'[1].id
  BY <1>13, <1>14, <1>15 DEF Threads
<1>16. CallsInv'
  <2>1. Stack'
    <3>1. \A u \in Threads : ~ Is(u, {"leave"})'
      BY <1>15 DEF Is
    <3>2. ASSUME NEW u \in Threads, NEW i \in DOMAIN todo'[u], i > 1 PROVE todo'[u][i].op = "error"
      <4>1. CASE todo'[u] = <<>>
        BY <4>1
      <4>2. CASE todo'[u] # <<>>
        BY <1>13, <1>15, <3>2, <4>2
      <4> QED BY <4>1, <4>2
    <3> QED BY <3>1, <3>2 DEF Stack, Is, Follows
  <2>2. WatcherAnswers' /\ Meeting' /\ AfterEnd'
    BY <1>1, <1>7, <1>14, <1>15 DEF WatcherAnswers, Asking, Meeting, AfterEnd, Is, Threads
  <2>3. HeartbeatHeld' /\ CancelHeld'
    BY <1>15 DEF HeartbeatHeld, CancelHeld, Is
  <2>4. PreparedLeave' /\ CancelKnown' /\ TransactionKnown'
    BY <1>6, <1>7 DEF PreparedLeave, CancelKnown, TransactionKnown
  <2> QED BY <2>1, <2>2, <2>3, <2>4 DEF CallsInv
<1>17. \A u \in Threads : ~ Is(u, OwnerOps)
  BY <1>3, <1>4 DEF Is, OwnerOps, Threads
<1>18. /\ Unique' /\ \A i \in DOMAIN invocations' : invocations'[i].status # "RUNNING"
       /\ \E f : Selects(f, invocations', invocations)
  <2>1. CASE cancel_invocation = None
    <3>1. invocations' = invocations
      BY <1>1, <2>1
    <3>2. ASSUME NEW i \in DOMAIN invocations, invocations[i].status = "RUNNING" PROVE FALSE
      <4>1. i = 1 /\ cancel_invocation = invocations[1].id
        BY <1>17, <3>2 DEF LoopInv, QueueInv, FirstRuns
      <4>2. invocations[1] \in Invocations
        BY <1>8, <4>1
      <4>3. invocations[1].id \in Ids
        BY <4>2 DEF Invocations
      <4> QED BY <2>1, <4>1, <4>3, IdsAreNot
    <3>3. \A i \in DOMAIN invocations : CancelAt(invocations, i) => invocations[i].status = "CREATED"
      BY DEF CancelAt
    <3>4. PICK f : Selects(f, invocations, invocations)
      BY <1>8, <3>3, AllSelects
    <3> QED BY <3>1, <3>2, <3>4 DEF LoopInv, QueueInv, Unique
  <2>2. CASE cancel_invocation # None
    <3> DEFINE id == cancel_invocation
    <3>1. FirstIs(id) /\ invocations[1].status = "RUNNING"
      BY <2>2 DEF LoopInv, QueueInv, Cancelling
    <3>2. Queued(id) /\ Index(id) = 1 /\ 1 \in DOMAIN invocations
      BY <1>8, <3>1, FirstIndex DEF LoopInv, QueueInv
    <3>3. invocations' = Completed(id)
      BY <1>1, <2>2
    <3>4. invocations' = Drop(invocations, 1)
      BY <3>1, <3>2, <3>3, Zenon DEF Completed
    <3>5. /\ Len(invocations') = Len(invocations) - 1
          /\ \A k \in 1 .. Len(invocations) - 1 :
                invocations'[k] = IF k < 1 THEN invocations[k] ELSE invocations[k + 1]
      BY <1>8, <3>2, <3>4, DropIndex
    <3>6. Len(invocations) \in Nat /\ DOMAIN invocations = 1 .. Len(invocations)
          /\ DOMAIN invocations' = 1 .. Len(invocations) - 1
      BY <1>8, <3>5
    <3>7. \A k \in DOMAIN invocations' : k + 1 \in DOMAIN invocations /\ k + 1 # 1
                                         /\ invocations'[k] = invocations[k + 1]
      BY <3>5, <3>6
    <3>8. Unique'
      <4> SUFFICES ASSUME NEW i \in DOMAIN invocations', NEW j \in DOMAIN invocations',
                          invocations'[i].id = invocations'[j].id
                   PROVE  i = j
        BY DEF Unique
      <4>1. i + 1 = j + 1
        BY <3>7 DEF LoopInv, QueueInv, Unique
      <4> QED BY <3>6, <4>1
    <3>9. \A i \in DOMAIN invocations' : invocations'[i].status # "RUNNING"
      BY <3>7 DEF LoopInv, QueueInv, FirstRuns
    <3>10. ~ CancelAt(invocations, 1)
      BY <3>1 DEF CancelAt
    <3>11. \E f : Selects(f, invocations', invocations)
      BY <1>8, <3>2, <3>4, <3>10, DropSelects
    <3> QED BY <3>8, <3>9, <3>11
  <2> QED BY <2>1, <2>2
<1>19. QueueInv'
  <2>1. \A u \in Threads : todo'[u] # <<>> =>
              /\ Head(todo'[u]).op \notin OwnerOps
              /\ Head(todo'[u]).op = "exec" =>
                    \/ FirstIs(Head(todo[u]).id)'
                    \/ current_transaction' # "NONE" /\ Head(todo'[u]).id[1] \in Requests
    BY <1>15 DEF OwnerOps, FirstIs
  <2>2. Progress'
    <3> SUFFICES ASSUME current_transaction' = "NONE", invocations' # <<>>
                 PROVE  \E u \in Threads : Is(u, {"exec", "done", "cancel", "cancelled", "callback"})'
      BY DEF Progress, Is
    <3>1. steps # <<>> /\ Head(steps).op = "exec"
      BY <1>12, <1>13
    <3> QED BY <1>14, <3>1 DEF Is, Threads
  <2> QED BY <1>1, <1>18, <2>1, <2>2, QueueAtRest
<1>20. RequestsInv'
  <2>1. PICK f : Selects(f, invocations', invocations)
    BY <1>18
  <2> QED BY <1>2, <1>7, <2>1, RequestsKept DEF LoopInv
<1>21. ChannelsInv'
  <2>1. CurrentChannels'
    BY <1>2, <1>4 DEF LoopInv, ChannelsInv, CurrentChannels
  <2>2. EventChannels'
    BY <1>15 DEF EventChannels, Is
  <2> QED BY <2>1, <2>2 DEF ChannelsInv
<1> QED BY <1>16, <1>19, <1>20, <1>21 DEF LoopInv

\* The application enters the engine: the watcher is away, or about to call
\* pubnub_heartbeat.
LEMMA LoopCalled ==
    ASSUME TInv, TInv', LeaveInv, LoopInv, LoopWindows, NEW call, NEW steps \in Seq(Steps),
           Enter(call, steps), steps # <<>>, Asking(Head(steps)),
           IF Head(steps).op = "leave" THEN Len(steps) = 2 /\ Follows(steps[2])
           ELSE \A i \in DOMAIN steps : i > 1 => steps[i].op = "error",
           UNCHANGED <<engine, flags, pb>>,
           UNCHANGED subscribables \/ Refreshes(Head(steps)),
           Head(steps).op = "event" => /\ UNCHANGED subscribables /\ Head(steps).type \notin Fresh
                                       /\ Head(steps).ctx.channels = context.channels
    PROVE  LoopInv'
<1>1. /\ todo["app"] = <<>> /\ todo'["app"] = steps /\ todo'["watcher"] = todo["watcher"]
      /\ todo["watcher"] # <<>> => Head(todo["watcher"]).op \in Windows
  BY DEF Enter, TInv, Threads
<1>2. UNCHANGED <<state, context, invocations, current_transaction, cancel_invocation>>
  BY DEF engine, flags
<1>3. todo["watcher"] # <<>> => Head(todo["watcher"]).op = "heartbeat"
  BY <1>1 DEF LoopWindows
<1>4. todo["watcher"] # <<>> => current_transaction = "HEARTBEAT"
  BY <1>3 DEF LoopInv, CallsInv, HeartbeatHeld, Is, Threads
<1>5. Head(steps).op \in {"leave", "changed", "event"}
  BY DEF Asking
<1>6. (CanStart)' = CanStart
  BY DEF CanStart
<1>7. \A u \in Threads : todo[u] # <<>> => u = "watcher" /\ Head(todo[u]).op = "heartbeat"
  BY <1>1, <1>3 DEF Threads
<1>8. \A u \in Threads : todo'[u] # <<>> =>
         \/ u = "watcher" /\ todo'[u] = todo[u] /\ Head(todo'[u]).op = "heartbeat"
         \/ u = "app" /\ todo'[u] = steps
  BY <1>1, <1>3 DEF Threads
<1>9. \A u \in Threads : Is(u, OwnerOps)' <=> Is(u, OwnerOps)
  <2>1. ~ Is("app", OwnerOps) /\ ~ Is("app", OwnerOps)'
    BY <1>1, <1>5 DEF Is, OwnerOps
  <2>2. Is("watcher", OwnerOps)' <=> Is("watcher", OwnerOps)
    BY <1>1 DEF Is
  <2> QED BY <2>1, <2>2 DEF Threads
<1>10. CallsInv'
  <2>1. Stack'
    <3> SUFFICES ASSUME NEW u \in Threads
                 PROVE  IF Is(u, {"leave"})'
                        THEN u = "app" /\ Len(todo'[u]) = 2 /\ Follows(todo'[u][2])
                        ELSE \A i \in DOMAIN todo'[u] : i > 1 => todo'[u][i].op = "error"
      BY DEF Stack, Follows
    <3>1. CASE u = "app"
      BY <1>1, <3>1 DEF Is
    <3>2. CASE u = "watcher"
      <4>1. ~ Is(u, {"leave"}) /\ ~ Is(u, {"leave"})' /\ todo'[u] = todo[u]
        BY <1>1, <1>3, <3>2 DEF Is
      <4> QED BY <4>1 DEF LoopInv, CallsInv, Stack
    <3> QED BY <3>1, <3>2 DEF Threads
  <2>2. WatcherAnswers' /\ Meeting' /\ AfterEnd'
    <3>1. WatcherAnswers'
      BY <1>1 DEF LoopInv, CallsInv, WatcherAnswers, Asking
    <3>2. Meeting'
      BY <1>1, <1>2, <1>4 DEF Meeting
    <3>3. AfterEnd'
      BY <1>1, <1>3 DEF AfterEnd, Is
    <3> QED BY <3>1, <3>2, <3>3
  <2>3. HeartbeatHeld'
    <3> SUFFICES ASSUME NEW u \in Threads, Is(u, {"heartbeat"})'
                 PROVE  current_transaction' = "HEARTBEAT" /\ CanStart'
      BY DEF HeartbeatHeld, Is
    <3>1. Is(u, {"heartbeat"})
      BY <1>5, <1>8 DEF Is
    <3> QED BY <1>2, <1>6, <3>1 DEF LoopInv, CallsInv, HeartbeatHeld
  <2>4. CancelHeld'
    <3>1. \A u \in Threads : ~ Is(u, {"cancel", "cancelled"})' /\ ~ Is(u, {"cancelled"})'
      BY <1>5, <1>8 DEF Is
    <3> QED BY <3>1 DEF CancelHeld, Is
  <2>5. CancelKnown'
    <3>1. \A u \in Threads : ~ Is(u, {"cancelled"})
      BY <1>7 DEF Is
    <3> QED BY <1>2, <3>1 DEF LoopInv, CallsInv, CancelKnown
  <2>6. PreparedLeave' /\ TransactionKnown'
    BY <1>2 DEF LoopInv, CallsInv, PreparedLeave, TransactionKnown
  <2> QED BY <2>1, <2>2, <2>3, <2>4, <2>5, <2>6 DEF CallsInv
<1>11. QueueInv'
  <2>1. Unique' /\ Cancelling'
    BY <1>2 DEF LoopInv, QueueInv, Unique, Cancelling, FirstIs
  <2>2. Owner'
    <3> SUFFICES ASSUME NEW u \in Threads, Is(u, OwnerOps)'
                 PROVE  /\ FirstIs(Head(todo[u]).id)' /\ invocations'[1].status = "RUNNING"
                        /\ cancel_invocation' = None
                        /\ Head(todo'[u]).op \in {"cancel", "cancelled"} => Head(todo'[u]).id[1] = "CANCEL"
                        /\ Head(todo'[u]).op = "heartbeat" => Head(todo'[u]).id[1] \in Requests
      BY DEF Owner, Is
    <3>1. Is(u, OwnerOps) /\ todo'[u] = todo[u]
      BY <1>1, <1>7, <1>9 DEF Is
    <3> QED BY <1>2, <3>1 DEF LoopInv, QueueInv, Owner, FirstIs
  <2>3. OneOwner'
    <3>1. \A u, v \in Threads : Is(u, OwnerOps)' /\ Is(v, OwnerOps)' => u = v
      BY <1>9 DEF LoopInv, QueueInv, OneOwner
    <3> QED BY <3>1 DEF OneOwner, Is
  <2>4. FirstRuns'
    <3> SUFFICES ASSUME NEW i \in DOMAIN invocations', invocations'[i].status = "RUNNING"
                 PROVE  i = 1 /\ (cancel_invocation' = invocations'[1].id \/ \E u \in Threads : Is(u, OwnerOps)')
      BY DEF FirstRuns, Is
    <3> QED BY <1>2, <1>9 DEF LoopInv, QueueInv, FirstRuns
  <2>5. ExecFirst'
    <3>1. \A u \in Threads : ~ Is(u, {"exec"})'
      BY <1>5, <1>8 DEF Is
    <3> QED BY <3>1 DEF ExecFirst, Is
  <2>6. Progress'
    <3>1. \A u \in Threads : ~ Is(u, {"exec", "done", "cancel", "cancelled", "callback"})
      BY <1>7 DEF Is
    <3> QED BY <1>2, <3>1 DEF LoopInv, QueueInv, Progress
  <2> QED BY <2>1, <2>2, <2>3, <2>4, <2>5, <2>6 DEF QueueInv
<1>12. RequestsInv'
  <2>1. ~ AtCancel
    BY <1>7 DEF AtCancel, Is
  <2>2. Live' => Live /\ pb'.trans = pb.trans /\ pb'.channels = pb.channels
    BY DEF Live
  <2> QED BY <1>2, <2>1, <2>2, OrderStands DEF LoopInv
<1>13. ChannelsInv'
  <2>1. CurrentChannels'
    <3>1. CASE Refreshes(Head(steps))
      BY <1>1, <3>1 DEF CurrentChannels, Refreshes
    <3>2. CASE UNCHANGED subscribables
      BY <1>1, <1>2, <3>2 DEF LoopInv, ChannelsInv, CurrentChannels
    <3> QED BY <3>1, <3>2
  <2>2. EventChannels'
    <3> SUFFICES ASSUME NEW u \in Threads, todo'[u] # <<>>, Head(todo'[u]).op = "event"
                 PROVE  LET ev == Head(todo'[u])
                        IN  /\ ev.type \in Fresh => ev.ctx.channels = subscribables'
                            /\ ev.type \notin Fresh \cup {"UNSUBSCRIBE_ALL"} => ev.ctx.channels = context'.channels
      BY DEF EventChannels, Is
    <3>1. todo'[u] = steps
      BY <1>8
    <3> QED BY <1>2, <3>1
  <2> QED BY <2>1, <2>2 DEF ChannelsInv
<1> QED BY <1>10, <1>11, <1>12, <1>13 DEF LoopInv

\* The calls of the application
LEMMA LoopCall ==
    ASSUME TInv, TInv', LeaveInv, LoopInv, LoopWindows, Call
    PROVE  LoopInv'
<1>1. UNCHANGED <<engine, flags, pb>>
  BY DEF Call, Subscribe, Unsubscribe, UnsubscribeAll, Disconnect, Reconnect
<1>2. ASSUME NEW call, NEW s \in Steps, Asking(s), s.op # "leave", Enter(call, <<s>>),
             UNCHANGED subscribables \/ Refreshes(s),
             s.op = "event" => /\ UNCHANGED subscribables /\ s.type \notin Fresh
                               /\ s.ctx.channels = context.channels
      PROVE  LoopInv'
  <2>1. PICK steps \in Seq(Steps) : /\ Enter(call, steps) /\ steps # <<>> /\ Head(steps) = s
                                    /\ \A i \in DOMAIN steps : i > 1 => steps[i].op = "error"
    <3> DEFINE r == <<s>>
    <3>1. /\ r \in Seq(Steps) /\ Enter(call, r) /\ r # <<>> /\ Head(r) = s
          /\ \A i \in DOMAIN r : i > 1 => r[i].op = "error"
      BY <1>2, OneStep
    <3> HIDE DEF r
    <3> QED BY <3>1
  <2> QED BY <1>1, <1>2, <2>1, LoopCalled
<1>3. ASSUME NEW call, NEW d \in Steps, d.op = "leave", NEW e \in Steps, Follows(e),
             NEW steps \in Seq(Steps), steps # <<>>, Enter(call, steps), Len(steps) = 2,
             steps[1] = d, steps[2] = e
      PROVE  LoopInv'
  <2>1. steps # <<>> /\ Head(steps) = d
    BY <1>3
  <2>2. Asking(d) /\ Refreshes(d)
    BY <1>3 DEF Asking, Refreshes
  <2> QED BY <1>1, <1>3, <2>1, <2>2, LoopCalled
<1>4. /\ context.channels \in SUBSET Channels /\ context.cursor \in Tokens
      /\ subscribables \in SUBSET Channels /\ FALSE \in BOOLEAN /\ TRUE \in BOOLEAN
  BY DEF TInv, Contexts
<1>5. ASSUME NEW cursor \in Tokens, NEW heartbeat \in BOOLEAN
      PROVE  [op |-> "changed", cursor |-> cursor, heartbeat |-> heartbeat] \in Steps
  BY DEF Steps, ChangedSteps
<1>6. ASSUME NEW channels \in SUBSET Channels
      PROVE  [op |-> "leave", channels |-> channels] \in Steps
  BY DEF Steps, LeaveSteps
<1>7. CASE \E s \in Subscriptions : \E c \in Cursors : Subscribe(s, c)
  <2>1. PICK s \in Subscriptions, c \in Cursors : Subscribe(s, c)
    BY <1>7
  <2> DEFINE a == [op |-> "changed", cursor |-> c, heartbeat |-> TRUE]
  <2>2. a \in Steps /\ a.op = "changed"
    BY <1>4, <1>5, TokenFacts
  <2>3. Enter("subscribe", <<a>>)
    BY <2>1 DEF Subscribe
  <2> HIDE DEF a
  <2>4. Asking(a) /\ Refreshes(a)
    BY <2>2 DEF Asking, Refreshes
  <2> QED BY <1>2, <2>2, <2>3, <2>4
<1>8. CASE \E s \in Subscriptions : Unsubscribe(s)
  <2>1. PICK s \in Subscriptions : Unsubscribe(s)
    BY <1>8
  <2> DEFINE remaining == SubscribablesOf(subscriptions \ {s})
             gone == ChannelsOf[s] \ remaining
             d == [op |-> "leave", channels |-> gone]
             e == [op |-> "changed", cursor |-> 0, heartbeat |-> FALSE]
  <2>2. gone \in SUBSET Channels
    BY ChannelsAssumption
  <2>3. \/ Enter("unsubscribe", <<>> \o <<e>>)
        \/ Enter("unsubscribe", <<d>> \o <<e>>)
    BY <2>1 DEF Unsubscribe
  <2> HIDE DEF gone
  <2>4. e \in Steps /\ e.op = "changed"
    BY <1>4, <1>5, TokenFacts
  <2>5. d \in Steps /\ d.op = "leave"
    BY <1>6, <2>2
  <2> HIDE DEF d, e
  <2>6. CASE Enter("unsubscribe", <<>> \o <<e>>)
    <3>1. <<>> \o <<e>> = <<e>>
      BY <2>4
    <3>2. Asking(e) /\ Refreshes(e)
      BY <2>4 DEF Asking, Refreshes
    <3> QED BY <1>2, <2>4, <2>6, <3>1, <3>2
  <2>7. CASE Enter("unsubscribe", <<d>> \o <<e>>)
    <3> DEFINE r == <<d>> \o <<e>>
    <3>1. r \in Seq(Steps) /\ r # <<>> /\ Len(r) = 2 /\ r[1] = d /\ r[2] = e
      BY <2>4, <2>5
    <3>2. Enter("unsubscribe", r)
      BY <2>7
    <3> HIDE DEF r
    <3>3. Follows(e)
      BY <2>4 DEF Follows
    <3> QED BY <1>3, <2>4, <2>5, <3>1, <3>2, <3>3
  <2> QED BY <2>3, <2>6, <2>7
<1>9. CASE UnsubscribeAll
  <2> DEFINE d == [op |-> "leave", channels |-> subscribables]
             e == Event("UNSUBSCRIBE_ALL", subscribables, context.cursor, FALSE)
             r == <<d, e>>
  <2>1. Enter("unsubscribe_all", r)
    BY <1>9 DEF UnsubscribeAll
  <2>2. d \in Steps /\ d.op = "leave"
    BY <1>4, <1>6
  <2>3. e \in Steps /\ Follows(e)
    <3>1. "UNSUBSCRIBE_ALL" \in EventTypes
      BY DEF EventTypes
    <3>2. e \in Steps
      BY <1>4, <3>1, EventStep
    <3>3. e.op = "event" /\ e.type = "UNSUBSCRIBE_ALL"
      BY DEF Event
    <3> QED BY <3>2, <3>3 DEF Follows
  <2> HIDE DEF d, e
  <2>4. r \in Seq(Steps) /\ r # <<>> /\ Len(r) = 2 /\ r[1] = d /\ r[2] = e
    BY <2>2, <2>3
  <2> HIDE DEF r
  <2> QED BY <1>3, <2>1, <2>2, <2>3, <2>4
<1>10. ASSUME NEW call, NEW type \in {"DISCONNECT", "RECONNECT"}, NEW cursor \in Tokens,
              Enter(call, <<Event(type, context.channels, cursor, FALSE)>>), UNCHANGED subscribables
       PROVE  LoopInv'
  <2> DEFINE e == Event(type, context.channels, cursor, FALSE)
  <2>1. e \in Steps
    BY <1>4, EventStep DEF EventTypes
  <2>2. e.op = "event" /\ e.type = type /\ e.ctx.channels = context.channels
    BY DEF Event
  <2>3. Enter(call, <<e>>)
    BY <1>10
  <2> HIDE DEF e
  <2>4. Asking(e) /\ e.type \notin Fresh
    BY <2>2 DEF Asking, AppTypes, Fresh
  <2> QED BY <1>2, <1>10, <2>1, <2>2, <2>3, <2>4
<1>11. CASE Disconnect
  <2>1. Enter("disconnect", <<Event("DISCONNECT", context.channels, context.cursor, FALSE)>>)
        /\ UNCHANGED subscribables
    BY <1>11 DEF Disconnect, CopyEvent, calls
  <2> QED BY <1>4, <1>10, <2>1
<1>12. CASE \E c \in Cursors : Reconnect(c)
  <2>1. PICK c \in Cursors : Reconnect(c)
    BY <1>12
  <2>2. Enter("reconnect", <<Event("RECONNECT", context.channels, c, FALSE)>>)
        /\ UNCHANGED subscribables
    BY <2>1 DEF Reconnect, calls
  <2>3. c \in Tokens
    BY TokenFacts
  <2> QED BY <1>10, <2>2, <2>3
<1> QED BY <1>7, <1>8, <1>9, <1>11, <1>12 DEF Call

-----------------------------------------------------------------------------
(* Events *)

\* Each element of two sequences in a row
LEMMA Joined ==
    ASSUME NEW S, NEW q \in Seq(S), NEW r \in Seq(S)
    PROVE  /\ q \o r \in Seq(S) /\ Len(q) \in Nat
           /\ \A i \in DOMAIN q : i \in DOMAIN (q \o r) /\ (q \o r)[i] = q[i] /\ i \in 1 .. Len(q)
           /\ \A k \in DOMAIN r : /\ Len(q) + k \in DOMAIN (q \o r) /\ (q \o r)[Len(q) + k] = r[k]
                                  /\ k \in Nat /\ k >= 1
           /\ \A i \in DOMAIN (q \o r) : i \in DOMAIN q \/ \E k \in DOMAIN r : i = Len(q) + k
<1> DEFINE c == q \o r
           m == Len(q)
           n == Len(r)
<1>1. /\ m \in Nat /\ n \in Nat /\ DOMAIN q = 1..m /\ DOMAIN r = 1..n
  OBVIOUS
<1>2. c \in Seq(S) /\ Len(c) = m + n /\ \A i \in 1 .. m + n : c[i] = IF i <= m THEN q[i] ELSE r[i - m]
  BY ConcatProperties
<1>3. DOMAIN c = 1 .. m + n
  BY <1>2
<1> HIDE DEF c, m, n
<1>4. ASSUME NEW i \in 1..m PROVE i \in 1 .. m + n /\ c[i] = q[i]
  BY <1>1, <1>2
<1>5. ASSUME NEW k \in 1..n PROVE m + k \in 1 .. m + n /\ c[m + k] = r[k] /\ k \in Nat /\ k >= 1
  <2>1. k \in Nat /\ k >= 1 /\ k <= n
    BY <1>1
  <2> DEFINE i == m + k
  <2>2. i \in 1 .. m + n /\ ~ (i <= m) /\ i - m = k
    BY <1>1, <2>1
  <2> HIDE DEF i
  <2>3. c[i] = r[k]
    BY <1>2, <2>2
  <2> QED BY <2>1, <2>2, <2>3 DEF i
<1>6. ASSUME NEW i \in 1 .. m + n PROVE i \in 1..m \/ \E k \in 1..n : i = m + k
  <2>1. CASE i <= m
    BY <1>1, <2>1
  <2>2. CASE ~ (i <= m)
    <3>1. i - m \in 1..n /\ i = m + (i - m)
      BY <1>1, <2>2
    <3> QED BY <3>1
  <2> QED BY <2>1, <2>2
<1> QED BY <1>1, <1>2, <1>3, <1>4, <1>5, <1>6 DEF c, m

\* A transition that begins with a cancel: it announces nothing.
LEMMA QuietTransition ==
    ASSUME NEW s \in Looping, NEW type \in EventTypes, NEW empty, NEW target,
           target = Target(s, type, empty), target # "NONE",
           Announced(s, type, target) = "NONE", type # "RECEIVE_SUCCESS"
    PROVE  s = "HANDSHAKING" /\ type \in AppTypes
<1>1. CASE s = "HANDSHAKING"
  <2>1. type \notin {"HANDSHAKE_SUCCESS", "HANDSHAKE_FAILURE"}
    BY <1>1 DEF Announced
  <2>2. type \notin {"NONE", "RECEIVE_SUCCESS", "RECEIVE_FAILURE"}
    BY <1>1 DEF Target
  <2> QED BY <1>1, <2>1, <2>2 DEF EventTypes, AppTypes
<1>2. CASE s = "RECEIVING"
  <2>1. type # "RECEIVE_FAILURE"
    BY <1>2 DEF Announced
  <2>2. target \notin {"UNSUBSCRIBED", "RECEIVE_STOPPED", s}
    BY <1>2, <2>1 DEF Announced
  <2> QED BY <1>2, <2>1, <2>2 DEF Target, Stopped, Failed
<1> QED BY <1>1, <1>2 DEF Looping

\* Sequences of at most one element
LEMMA AtMostOne ==
    ASSUME NEW S
    PROVE  /\ <<>> \in Seq(S) /\ Len(<<>>) = 0
           /\ \A x \in S : <<x>> \in Seq(S) /\ Len(<<x>>) = 1 /\ <<x>>[1] = x
OBVIOUS

\* The effects of a transition: each at most once, a request last and for the new
\* state, after the cancel of the old one's.
LEMMA EffectsShape ==
    ASSUME NEW s, NEW type \in EventTypes, NEW empty, NEW target,
           target = Target(s, type, empty), target # "NONE",
           NEW e, e = Effects(s, type, target)
    PROVE  /\ e \in Seq(Types)
           /\ \A i, j \in DOMAIN e : e[i] = e[j] => i = j
           /\ \A i \in DOMAIN e : e[i] \in Requests => ForState(e[i], target)
           /\ s \in Looping => \E j \in DOMAIN e :
                 e[j] = "CANCEL" /\ \A i \in DOMAIN e : e[i] \in Requests => j < i
           /\ e # <<>> /\ e[1] = "CANCEL" => s = "HANDSHAKING" /\ type \in AppTypes
<1> DEFINE quiet == Announced(s, type, target) = "NONE" /\ type # "RECEIVE_SUCCESS"
           Told == {"EMIT_STATUS", "EMIT_MESSAGE"}
           a == IF Announced(s, type, target) # "NONE" THEN <<"EMIT_STATUS">>
                ELSE IF type = "RECEIVE_SUCCESS" THEN <<"EMIT_MESSAGE">> ELSE <<>>
           b == IF s \in Looping THEN <<"CANCEL">> ELSE <<>>
           c == CASE target = "HANDSHAKING" -> <<"HANDSHAKE">>
                  [] target = "RECEIVING" -> <<"RECEIVE">>
                  [] OTHER -> <<>>
           la == Len(a)
           lb == Len(b)
           lc == Len(c)
<1>1. Told \subseteq Types /\ "CANCEL" \in Types /\ Requests \subseteq Types
      /\ "CANCEL" \notin Told /\ "CANCEL" \notin Requests /\ Told \cap Requests = {}
  BY DEF Types, Requests
<1>2. a \in Seq(Told) /\ la \in 0..1 /\ (la = 0 <=> quiet)
  <2>1. CASE quiet
    <3>1. a = <<>>
      BY <2>1
    <3>2. a \in Seq(Told) /\ Len(a) = 0
      BY <3>1, AtMostOne
    <3> QED BY <2>1, <3>2
  <2>2. CASE ~ quiet
    <3>1. PICK x \in Told : a = <<x>>
      BY <2>2
    <3>2. a \in Seq(Told) /\ Len(a) = 1
      BY <3>1, AtMostOne
    <3> QED BY <2>2, <3>2
  <2> QED BY <2>1, <2>2
<1>3. b \in Seq({"CANCEL"}) /\ lb \in 0..1 /\ (lb = 1 <=> s \in Looping)
  <2>1. CASE s \in Looping
    <3>1. b = <<"CANCEL">>
      BY <2>1
    <3>2. b \in Seq({"CANCEL"}) /\ Len(b) = 1
      BY <3>1, AtMostOne
    <3> QED BY <2>1, <3>2
  <2>2. CASE s \notin Looping
    <3>1. b = <<>>
      BY <2>2
    <3>2. b \in Seq({"CANCEL"}) /\ Len(b) = 0
      BY <3>1, AtMostOne
    <3> QED BY <2>2, <3>2
  <2> QED BY <2>1, <2>2
<1>4. c \in Seq(Requests) /\ lc \in 0..1 /\ (lc = 1 => ForState(c[1], target))
  <2>1. CASE target \in Looping
    <3>1. PICK x \in Requests : c = <<x>> /\ ForState(x, target)
      BY <2>1 DEF Requests, ForState, Looping
    <3>2. c \in Seq(Requests) /\ Len(c) = 1 /\ c[1] = x
      BY <3>1, AtMostOne
    <3> QED BY <3>1, <3>2
  <2>2. CASE target \notin Looping
    <3>1. c = <<>>
      BY <2>2 DEF Looping
    <3>2. c \in Seq(Requests) /\ Len(c) = 0
      BY <3>1, AtMostOne
    <3> QED BY <3>2
  <2> QED BY <2>1, <2>2
<1>5. e = a \o b \o c
  BY DEF Effects
<1> HIDE DEF a, b, c, quiet, Told, la, lb, lc
<1>6. a \in Seq(Types) /\ b \in Seq(Types) /\ c \in Seq(Types)
  <2>1. Seq(Told) \subseteq Seq(Types) /\ Seq({"CANCEL"}) \subseteq Seq(Types) /\ Seq(Requests) \subseteq Seq(Types)
    BY <1>1
  <2> QED BY <1>2, <1>3, <1>4, <2>1
<1>7. e \in Seq(Types) /\ Len(e) = la + lb + lc
  BY <1>5, <1>6 DEF la, lb, lc
<1>8. DOMAIN e = 1 .. la + lb + lc
  BY <1>7
<1>9. ASSUME NEW i \in DOMAIN e
      PROVE  /\ i \in 1 .. la + lb + lc
             /\ i <= la => e[i] \in Told /\ i = 1
             /\ la < i /\ i <= la + lb => e[i] = "CANCEL" /\ i = la + 1
             /\ la + lb < i => e[i] \in Requests /\ e[i] = c[1] /\ lc = 1 /\ i = la + lb + 1
  <2>1. i \in 1 .. la + lb + lc /\ DOMAIN a = 1..la /\ DOMAIN b = 1..lb /\ DOMAIN c = 1..lc
    BY <1>6, <1>8 DEF la, lb, lc
  <2> DEFINE ab == a \o b
  <2>2. ab \in Seq(Types) /\ Len(ab) = la + lb
        /\ \A k \in 1 .. la + lb : ab[k] = IF k <= la THEN a[k] ELSE b[k - la]
    BY <1>6, ConcatProperties DEF la, lb
  <2>3. e = ab \o c
    BY <1>5
  <2> HIDE DEF ab
  <2>4. \A k \in 1 .. Len(ab) + Len(c) : (ab \o c)[k] = IF k <= Len(ab) THEN ab[k] ELSE c[k - Len(ab)]
    BY <1>6, <2>2, ConcatProperties
  <2>5. e[i] = IF i <= la + lb THEN ab[i] ELSE c[i - (la + lb)]
    BY <2>1, <2>2, <2>3, <2>4 DEF lc
  <2>6. CASE i <= la
    <3>1. i = 1 /\ i \in DOMAIN a /\ i \in 1 .. la + lb
      BY <1>2, <1>3, <2>1, <2>6
    <3>2. e[i] = a[i]
      BY <1>3, <2>2, <2>5, <2>6, <3>1
    <3>3. a[i] \in Told
      BY <1>2, <3>1
    <3> QED BY <1>2, <1>3, <2>1, <2>6, <3>1, <3>2, <3>3
  <2>7. CASE la < i /\ i <= la + lb
    <3>1. i = la + 1 /\ i - la \in DOMAIN b /\ i \in 1 .. la + lb /\ ~ (i <= la)
      BY <1>2, <1>3, <2>1, <2>7
    <3>2. e[i] = b[i - la]
      BY <2>2, <2>5, <2>7, <3>1
    <3>3. b[i - la] = "CANCEL"
      BY <1>3, <3>1
    <3> QED BY <1>2, <1>3, <2>1, <2>7, <3>1, <3>2, <3>3
  <2>8. CASE la + lb < i
    <3>1. i = la + lb + 1 /\ i - (la + lb) = 1 /\ 1 \in DOMAIN c /\ lc = 1 /\ ~ (i <= la + lb)
      BY <1>2, <1>3, <1>4, <2>1, <2>8
    <3>2. e[i] = c[1]
      BY <2>5, <3>1
    <3>3. c[1] \in Requests
      BY <1>4, <3>1
    <3> QED BY <1>2, <1>3, <2>1, <2>8, <3>1, <3>2, <3>3
  <2> QED BY <1>2, <1>3, <2>1, <2>6, <2>7, <2>8
<1>10. \A i, j \in DOMAIN e : e[i] = e[j] => i = j
  <2> SUFFICES ASSUME NEW i \in DOMAIN e, NEW j \in DOMAIN e, e[i] = e[j] PROVE i = j
    OBVIOUS
  <2>1. /\ i <= la => e[i] \in Told /\ i = 1
        /\ la < i /\ i <= la + lb => e[i] = "CANCEL" /\ i = la + 1
        /\ la + lb < i => e[i] \in Requests /\ i = la + lb + 1
        /\ i \in 1 .. la + lb + lc
    BY <1>9
  <2>2. /\ j <= la => e[j] \in Told /\ j = 1
        /\ la < j /\ j <= la + lb => e[j] = "CANCEL" /\ j = la + 1
        /\ la + lb < j => e[j] \in Requests /\ j = la + lb + 1
        /\ j \in 1 .. la + lb + lc
    BY <1>9
  <2>3. la \in 0..1 /\ lb \in 0..1 /\ lc \in 0..1
    BY <1>2, <1>3, <1>4
  <2> QED BY <1>1, <2>1, <2>2, <2>3
<1>11. \A i \in DOMAIN e : e[i] \in Requests => ForState(e[i], target) /\ la + lb < i
  <2> SUFFICES ASSUME NEW i \in DOMAIN e, e[i] \in Requests PROVE ForState(e[i], target) /\ la + lb < i
    OBVIOUS
  <2>1. ~ (i <= la) /\ ~ (la < i /\ i <= la + lb) /\ i \in 1 .. la + lb + lc
    BY <1>1, <1>9
  <2>2. la + lb < i
    BY <1>2, <1>3, <1>4, <2>1
  <2> QED BY <1>4, <1>9, <2>2
<1>12. ASSUME s \in Looping
       PROVE  \E j \in DOMAIN e : e[j] = "CANCEL" /\ \A i \in DOMAIN e : e[i] \in Requests => j < i
  <2>1. la + 1 \in DOMAIN e /\ la < la + 1 /\ la + 1 <= la + lb /\ la + 1 = la + lb
    BY <1>2, <1>3, <1>4, <1>8, <1>12
  <2>2. e[la + 1] = "CANCEL"
    BY <1>9, <2>1
  <2>3. \A i \in DOMAIN e : e[i] \in Requests => la + 1 < i
    BY <1>11, <2>1
  <2> QED BY <2>1, <2>2, <2>3
<1>13. ASSUME e # <<>>, e[1] = "CANCEL" PROVE s = "HANDSHAKING" /\ type \in AppTypes
  <2>1. 1 \in DOMAIN e
    BY <1>7, <1>13
  <2>2. ~ (1 <= la) /\ ~ (la + lb < 1)
    BY <1>1, <1>9, <1>13, <2>1
  <2>3. la = 0 /\ lb = 1
    BY <1>2, <1>3, <2>2
  <2>4. quiet /\ s \in Looping
    BY <1>2, <1>3, <2>3
  <2> QED BY <2>4, QuietTransition DEF quiet
<1> QED BY <1>7, <1>10, <1>11, <1>12, <1>13

\* What is left of q when at most one invocation is taken out, not a running one
LeftOf(f, r, q) ==
    /\ Selects(f, r, q) /\ NoneSetBack(f, r, q)
    /\ \A i \in DOMAIN r : r[i] = q[f[i]]
    /\ q # <<>> /\ q[1].status = "RUNNING" => r # <<>> /\ r[1] = q[1]
    /\ q = <<>> => r = <<>>

LEMMA AllLeft ==
    ASSUME NEW q \in Seq(Invocations)
    PROVE  \E f : LeftOf(f, q, q)
<1> DEFINE f == [i \in DOMAIN q |-> i]
<1>1. f \in [DOMAIN q -> DOMAIN q] /\ \A i \in DOMAIN q : f[i] = i
  OBVIOUS
<1> HIDE DEF f
<1>2. Selects(f, q, q)
  BY <1>1 DEF Selects
<1>3. NoneSetBack(f, q, q)
  BY <1>1 DEF NoneSetBack
<1>4. \A i \in DOMAIN q : q[i] = q[f[i]]
  BY <1>1
<1>5. LeftOf(f, q, q)
  BY <1>2, <1>3, <1>4, Zenon DEF LeftOf
<1> QED BY <1>5

\* pbcc_ee_invocation_cancel_by_type of a request leaves what runs and every cancel.
LEMMA CancelByTypeLeaves ==
    ASSUME NEW q \in Seq(Invocations), NEW type \in Requests
    PROVE  /\ CancelByType(q, type) \in Seq(Invocations)
           /\ \E f : LeftOf(f, CancelByType(q, type), q)
<1> DEFINE found == {i \in DOMAIN q : q[i].id[1] = type /\ q[i].status # "RUNNING"}
           d == CHOOSE i \in found : \A j \in found : i <= j
<1>1. CASE found = {}
  <2>1. CancelByType(q, type) = q
    BY <1>1 DEF CancelByType
  <2> QED BY <2>1, AllLeft
<1>2. CASE found # {}
  <2>1. CancelByType(q, type) = Drop(q, d)
    BY <1>2 DEF CancelByType
  <2>2. found \in SUBSET Nat
    OBVIOUS
  <2>3. \E i \in found : \A j \in found : i <= j
    <3> HIDE DEF found
    <3> QED BY <1>2, <2>2, Least
  <2>4. d \in found
    BY <2>3
  <2> DEFINE r == Drop(q, d)
             n == Len(q)
  <2> HIDE DEF d
  <2>5. d \in DOMAIN q /\ q[d].id[1] = type /\ q[d].status # "RUNNING"
    BY <2>4
  <2>6. ~ CancelAt(q, d)
    BY <2>5, IdsAreNot DEF CancelAt
  <2>7. r \in Seq(Invocations) /\ Len(r) = n - 1 /\ \A k \in 1 .. n - 1 : r[k] = IF k < d THEN q[k] ELSE q[k + 1]
    BY <2>5, DropIndex
  <2>8. n \in Nat /\ d \in 1..n /\ DOMAIN r = 1 .. n - 1
    BY <2>5, <2>7
  <2>9. PICK f : Selects(f, r, q) /\ NoneSetBack(f, r, q) /\ \A i \in DOMAIN r : r[i] = q[f[i]]
    BY <2>5, <2>6, DropSelects
  <2>10. q # <<>>
    BY <2>5
  <2> HIDE DEF r, n, found
  <2>11. ASSUME q[1].status = "RUNNING" PROVE r # <<>> /\ r[1] = q[1]
    <3>1. 1 < d /\ 1 \in 1 .. n - 1
      BY <2>5, <2>8, <2>11
    <3>2. r[1] = q[1] /\ 1 \in DOMAIN r
      BY <2>7, <2>8, <3>1
    <3> QED BY <3>2
  <2>12. LeftOf(f, r, q)
    BY <2>9, <2>10, <2>11, Zenon DEF LeftOf
  <2> QED BY <2>1, <2>7, <2>12 DEF r
<1> QED BY <1>1, <1>2

\* The invocations of a transition, each with a number that nobody uses
Adds(new, ev, e) ==
    /\ new \in Seq(Invocations) /\ DOMAIN new = DOMAIN e
    /\ \A k \in DOMAIN new : /\ new[k].status = "CREATED" /\ new[k].id[1] = e[k]
                             /\ new[k].id \notin UsedIds
                             /\ e[k] \in Requests => new[k].ctx = ev.ctx
                             /\ new[k].heartbeat => e[k] \in Requests /\ ev.heartbeat

\* What pbcc_ee_handle_event makes of the effects of a transition
LEMMA NewAdds ==
    ASSUME TInv, NEW ev \in Steps, ev.op = "event", NEW e \in Seq(Types)
    PROVE  Adds(New(ev, e), ev, e)
<1> DEFINE new == New(ev, e)
           n == Len(e)
<1>1. /\ new \in Seq(Invocations) /\ Len(new) = n
      /\ \A i \in 1 .. n : new[i].status = "CREATED" /\ new[i].id[1] = e[i]
  BY NewTyped
<1>2. n \in Nat /\ DOMAIN e = 1..n /\ DOMAIN new = 1..n
  BY <1>1
<1>3. ASSUME NEW i \in 1..n
      PROVE  /\ new[i].id \notin UsedIds /\ (e[i] \in Requests => new[i].ctx = ev.ctx)
             /\ new[i].heartbeat => e[i] \in Requests /\ ev.heartbeat
  <2>1. e[i] \in Types
    BY <1>2
  <2>2. FreeId(e[i]) \notin UsedIds
    BY <2>1, FreeIdFacts DEF TInv
  <2>3. /\ new[i].id = FreeId(e[i]) /\ new[i].ctx = IF e[i] \in Requests THEN ev.ctx ELSE NoContext
        /\ new[i].heartbeat = (e[i] \in Requests /\ ev.heartbeat)
    BY DEF New
  <2> QED BY <2>2, <2>3
<1> HIDE DEF new, n
<1>4. Adds(new, ev, e)
  BY <1>1, <1>2, <1>3 DEF Adds
<1> QED BY <1>4 DEF new

\* The numbers in use: of what is queued, of calls and of what is being cancelled
LEMMA Used ==
    ASSUME TInv
    PROVE  /\ \A i \in DOMAIN invocations : invocations[i].id \in UsedIds
           /\ cancel_invocation \in UsedIds
           /\ \A t \in Threads : Is(t, IdOps) => Head(todo[t]).id \in UsedIds
<1>1. ASSUME NEW t \in Threads, Is(t, IdOps) PROVE Head(todo[t]).id \in UsedIds
  <2> DEFINE ids(u) == {todo[u][i].id : i \in {j \in DOMAIN todo[u] : "id" \in DOMAIN todo[u][j]}}
  <2>1. todo[t] \in Seq(Steps) /\ todo[t] # <<>> /\ Head(todo[t]).op \in IdOps
    BY <1>1 DEF Is, TInv
  <2>2. 1 \in DOMAIN todo[t] /\ Head(todo[t]) = todo[t][1] /\ todo[t][1] \in Steps
    BY <2>1
  <2>3. "id" \in DOMAIN todo[t][1]
    BY <2>1, <2>2 DEF Steps, IdSteps, EventSteps, ChangedSteps, LeaveSteps, CallbackSteps,
                      ReportSteps, ErrorSteps, IdOps
  <2>4. todo[t][1].id \in ids(t)
    BY <2>2, <2>3
  <2>5. todo[t][1].id \in UNION {ids(u) : u \in Threads}
    <3> HIDE DEF ids
    <3> QED BY <2>4
  <2> QED BY <2>2, <2>5 DEF UsedIds
<1>2. \A i \in DOMAIN invocations : invocations[i].id \in UsedIds
  BY DEF UsedIds
<1>3. cancel_invocation \in UsedIds
  BY DEF UsedIds
<1> QED BY <1>1, <1>2, <1>3

\* What pbcc_ee_handle_event does with an event ev that the state takes
Taken(t, ev, target, e, q, f, new, steps) ==
    /\ At(t, "event") /\ ev = Head(todo[t]) /\ ev \in Steps /\ ev.op = "event"
    /\ target = Target(state, ev.type, ev.ctx.channels = {}) /\ target # "NONE"
    /\ e = Effects(state, ev.type, target) /\ e \in Seq(Types)
    /\ state' = target
    /\ context' = IF target = "UNSUBSCRIBED" THEN NoContext ELSE ev.ctx
    /\ UNCHANGED <<flags, calls, pb>>
    /\ q \in Seq(Invocations) /\ LeftOf(f, q, invocations)
    /\ Adds(new, ev, e) /\ invocations' = q \o new
    /\ steps \in Seq(Steps) /\ Then(t, steps)
    /\ \A i \in DOMAIN steps : i > 1 => steps[i].op = "error"
    /\ e = <<>> => steps = <<>>
    /\ e # <<>> => /\ steps # <<>> /\ Head(steps).op = "exec" /\ new # <<>>
                   /\ Head(steps).id = IF e[1] = "CANCEL" THEN new[1].id ELSE invocations'[1].id

LEMMA HandleEventTakes ==
    ASSUME TInv, TInv', NEW t \in Threads, HandleEvent(t)
    PROVE  \/ /\ At(t, "event") /\ Return(t)
              /\ Target(state, Head(todo[t]).type, Head(todo[t]).ctx.channels = {}) = "NONE"
              /\ UNCHANGED <<engine, flags, calls, pb>>
           \/ \E ev, target, e, q, f, new, steps : Taken(t, ev, target, e, q, f, new, steps)
<1> DEFINE ev == Head(todo[t])
           target == Target(state, ev.type, ev.ctx.channels = {})
           e == Effects(state, ev.type, target)
           new == New(ev, e)
           q == CASE target = "HANDSHAKING" -> CancelByType(invocations, "HANDSHAKE")
                  [] target = "RECEIVING" -> CancelByType(invocations, "RECEIVE")
                  [] OTHER -> invocations
           steps == CASE e = <<>> -> <<>>
                      [] e # <<>> /\ e[1] = "CANCEL" -> ProcessNext(new)
                      [] OTHER -> ProcessNext(invocations')
           Changes == /\ target # "NONE" /\ state' = target
                      /\ context' = IF target = "UNSUBSCRIBED" THEN NoContext ELSE ev.ctx
                      /\ invocations' = q \o new
                      /\ Then(t, steps)
<1>1. At(t, "event") /\ UNCHANGED <<flags, calls, pb>>
  BY DEF HandleEvent
<1>2. ev \in Steps /\ ev.op = "event" /\ todo[t] # <<>>
  BY <1>1, AtFacts DEF TInv
<1>3. e \in Seq(Types)
  BY EffectsTyped
<1>4. (target = "NONE" /\ Return(t) /\ UNCHANGED engine) \/ Changes
  BY Zenon DEF HandleEvent, New
<1>5. CASE Changes
  <2>1. q = invocations \/ \E type \in Requests : q = CancelByType(invocations, type)
    BY DEF Requests
  <2>2. invocations \in Seq(Invocations) /\ invocations' \in Seq(Invocations)
    BY DEF TInv
  <2> HIDE DEF q
  <2>3. q \in Seq(Invocations) /\ \E f : LeftOf(f, q, invocations)
    BY <2>1, <2>2, CancelByTypeLeaves, AllLeft
  <2>4. PICK f : LeftOf(f, q, invocations)
    BY <2>3
  <2>5. Adds(new, ev, e)
    BY <1>2, <1>3, NewAdds
  <2>6. steps = <<>> \/ steps = ProcessNext(new) \/ steps = ProcessNext(invocations')
    OBVIOUS
  <2>7. e = <<>> => steps = <<>>
    OBVIOUS
  <2>8. e # <<>> => steps = IF e[1] = "CANCEL" THEN ProcessNext(new) ELSE ProcessNext(invocations')
    OBVIOUS
  <2> HIDE DEF steps, new, e, ev, target
  <2>9. new \in Seq(Invocations) /\ DOMAIN new = DOMAIN e /\ invocations' = q \o new
    BY <1>5, <2>5 DEF Adds
  <2>10. steps \in Seq(Steps) /\ \A i \in DOMAIN steps : i > 1 => steps[i].op = "error"
    <3>1. CASE steps = <<>>
      BY <3>1, NoStep
    <3>2. CASE steps = ProcessNext(new)
      BY <2>9, <3>2, NextFirst
    <3>3. CASE steps = ProcessNext(invocations')
      BY <2>2, <3>3, NextFirst
    <3> QED BY <2>6, <3>1, <3>2, <3>3
  <2>11. ASSUME e # <<>>
         PROVE  /\ steps # <<>> /\ Head(steps).op = "exec" /\ new # <<>>
                /\ Head(steps).id = IF e[1] = "CANCEL" THEN new[1].id ELSE invocations'[1].id
    <3>1. new # <<>> /\ 1 \in DOMAIN new
      <4>1. 1 \in DOMAIN e
        BY <1>3, <2>11
      <4> QED BY <2>9, <4>1
    <3>2. Len(q) + 1 \in DOMAIN (q \o new)
      BY <2>3, <2>9, <3>1, Joined
    <3>3. invocations' # <<>>
      BY <2>9, <3>2
    <3>4. CASE e[1] = "CANCEL"
      <4>1. steps = ProcessNext(new)
        BY <2>8, <2>11, <3>4
      <4> QED BY <2>9, <3>1, <3>4, <4>1, NextFirst
    <3>5. CASE e[1] # "CANCEL"
      <4>1. steps = ProcessNext(invocations')
        BY <2>8, <2>11, <3>5
      <4> QED BY <2>2, <3>1, <3>3, <3>5, <4>1, NextFirst
    <3> QED BY <3>4, <3>5
  <2>12. Taken(t, ev, target, e, q, f, new, steps)
    BY <1>1, <1>2, <1>3, <1>5, <2>3, <2>4, <2>5, <2>7, <2>10, <2>11, Zenon DEF Taken, ev, target, e
  <2> QED BY <2>12
<1> QED BY <1>1, <1>4, <1>5

\* After the event the thread is at an invocation, or at nothing of the engine's.
LEMMA TakenCalls ==
    ASSUME TInv, LeaveInv, LoopInv, LoopWindows, NEW t \in Threads, NEW ev, NEW target, NEW e,
           NEW q, NEW f, NEW new, NEW steps, Taken(t, ev, target, e, q, f, new, steps)
    PROVE  /\ Is(t, {"event"}) /\ ev = Head(todo[t])
           /\ \A u \in Threads \ {t} : todo'[u] = todo[u]
           /\ \A u \in Threads \ {t} : todo[u] # <<>> =>
                 /\ current_transaction = "HEARTBEAT"
                 /\ Head(todo[u]).op \in {"heartbeat", "leave", "exec"}
                 /\ Head(todo[u]).op = "exec" => Head(todo[u]).id[1] \in Requests
           /\ todo'[t] # <<>> =>
                 /\ Head(todo'[t]).op \notin OwnerOps /\ Head(todo'[t]).op # "event"
                 /\ Head(todo'[t]).op = "exec" =>
                       e # <<>> /\ Head(todo'[t]).id = IF e[1] = "CANCEL" THEN new[1].id ELSE invocations'[1].id
           /\ e # <<>> => Is(t, {"exec"})'
<1>1. /\ At(t, "event") /\ ev = Head(todo[t])
      /\ steps \in Seq(Steps) /\ Then(t, steps)
      /\ \A i \in DOMAIN steps : i > 1 => steps[i].op = "error"
      /\ e = <<>> => steps = <<>>
      /\ e # <<>> => /\ steps # <<>> /\ Head(steps).op = "exec"
                     /\ Head(steps).id = IF e[1] = "CANCEL" THEN new[1].id ELSE invocations'[1].id
  BY DEF Taken
<1>2. steps # <<>> => Head(steps).op # "leave" /\ "event" # "leave"
  BY <1>1
<1>3. CallsInv
  BY DEF LoopInv
<1>4. /\ todo[t] # <<>> /\ Head(todo[t]).op = "event" /\ Head(todo[t]) \in Steps
      /\ \A u \in Threads \ {t} : todo'[u] = todo[u]
      /\ \A u \in Threads \ {t} : todo[u] # <<>> =>
            /\ current_transaction = "HEARTBEAT"
            /\ Head(todo[u]).op \in {"heartbeat", "leave", "exec"}
            /\ Head(todo[u]).op = "exec" => Head(todo[u]).id[1] \in Requests
      /\ steps # <<>> => todo'[t] # <<>> /\ Head(todo'[t]) = Head(steps)
  BY <1>1, <1>2, <1>3, Stepped
<1>5. steps = <<>> /\ todo'[t] # <<>> => Head(todo'[t]).op = "error"
  <2>1. \/ Head(todo[t]).op # "leave" /\ Head(todo'[t]).op = "error"
        \/ Head(todo[t]).op = "leave" /\ t = "app" /\ Follows(Head(todo'[t]))
        \/ ~ (steps = <<>> /\ todo'[t] # <<>>)
    BY <1>1, <1>2, <1>3, <1>4, ThenStack DEF CallsInv
  <2> QED BY <1>4, <2>1
<1>6. "exec" \notin OwnerOps /\ "error" \notin OwnerOps
  BY DEF OwnerOps
<1>7. Is(t, {"event"})
  BY <1>4 DEF Is
<1>8. todo'[t] # <<>> =>
                 /\ Head(todo'[t]).op \notin OwnerOps /\ Head(todo'[t]).op # "event"
                 /\ Head(todo'[t]).op = "exec" =>
                       e # <<>> /\ Head(todo'[t]).id = IF e[1] = "CANCEL" THEN new[1].id ELSE invocations'[1].id
  <2>1. CASE e = <<>>
    BY <1>1, <1>5, <1>6, <2>1
  <2>2. CASE e # <<>>
    BY <1>1, <1>4, <1>6, <2>2
  <2> QED BY <2>1, <2>2
<1>9. e # <<>> => Is(t, {"exec"})'
  BY <1>1, <1>4 DEF Is
<1> QED BY <1>1, <1>4, <1>7, <1>8, <1>9

\* The calls after the event
LEMMA TakenCallsInv ==
    ASSUME TInv, TInv', LeaveInv, LoopInv, LoopWindows, NEW t \in Threads, NEW ev, NEW target, NEW e,
           NEW q, NEW f, NEW new, NEW steps, Taken(t, ev, target, e, q, f, new, steps)
    PROVE  CallsInv'
<1>1. /\ At(t, "event") /\ steps \in Seq(Steps) /\ Then(t, steps)
      /\ \A i \in DOMAIN steps : i > 1 => steps[i].op = "error"
      /\ steps # <<>> => Head(steps).op = "exec"
      /\ UNCHANGED <<current_transaction, cancel_invocation, pb>>
  BY DEF Taken, flags
<1>2. pb'.requeued \in BOOLEAN
  BY PbFacts DEF TInv
<1>3. CallsInv
  BY DEF LoopInv
<1>4. pb'.state = "BUSY" /\ pb'.trans \notin Requests => current_transaction' # "NONE"
  BY <1>1, <1>3 DEF CallsInv, TransactionKnown
<1>5. ~ ((steps # <<>> /\ Asking(Head(steps))) \/ "event" = "leave")
  BY <1>1 DEF Asking
<1>6. steps # <<>> =>
              /\ "event" # "leave" /\ Head(steps).op \notin {"leave", "callback", "report"}
              /\ Head(steps).op = "heartbeat" => current_transaction' = "HEARTBEAT" /\ CanStart'
              /\ Head(steps).op \in {"cancel", "cancelled"} => current_transaction' = "NONE"
              /\ Head(steps).op = "cancelled" => pb'.state = "WAIT_CANCEL"
  BY <1>1
<1>7. CanStart' = CanStart
  BY <1>1 DEF CanStart
<1>8. pb'.state = "WAIT_CANCEL" =>
         pb.state = "WAIT_CANCEL" /\ "event" # "cancelled" /\ UNCHANGED cancel_invocation
  BY <1>1
<1>9. pb'.requeued => pb.requeued /\ pb'.trans = pb.trans
  BY <1>1
<1>10. \A u \in Threads \ {t} : todo[u] # <<>> =>
              /\ UNCHANGED current_transaction
              /\ Head(todo[u]).op = "heartbeat" => CanStart' = CanStart
  BY <1>1, <1>7
<1> QED BY <1>1, <1>2, <1>3, <1>4, <1>5, <1>6, <1>8, <1>9, <1>10, CallsKept

\* The channels after the event
LEMMA TakenChannels ==
    ASSUME TInv, LeaveInv, LoopInv, LoopWindows, NEW t \in Threads, NEW ev, NEW target, NEW e,
           NEW q, NEW f, NEW new, NEW steps, Taken(t, ev, target, e, q, f, new, steps)
    PROVE  ChannelsInv'
<1>1. /\ Is(t, {"event"}) /\ ev = Head(todo[t])
      /\ \A u \in Threads \ {t} : todo'[u] = todo[u]
      /\ \A u \in Threads \ {t} : todo[u] # <<>> => Head(todo[u]).op \in {"heartbeat", "leave", "exec"}
      /\ todo'[t] # <<>> => Head(todo'[t]).op # "event"
  BY TakenCalls
<1>2. /\ target = Target(state, ev.type, ev.ctx.channels = {}) /\ target # "NONE"
      /\ state' = target /\ context' = IF target = "UNSUBSCRIBED" THEN NoContext ELSE ev.ctx
      /\ UNCHANGED calls /\ ev.op = "event"
  BY DEF Taken
<1>3. EventChannels'
  <2>1. \A u \in Threads : ~ Is(u, {"event"})'
    BY <1>1 DEF Is
  <2> QED BY <2>1 DEF EventChannels
<1>4. CurrentChannels'
  <2> SUFFICES ASSUME state' # "UNSUBSCRIBED"
               PROVE  \/ context'.channels = subscribables'
                      \/ todo'["app"] # <<>> /\ Refreshes(Head(todo'["app"]))
    BY DEF CurrentChannels, Refreshes
  <2>1. context' = ev.ctx /\ subscribables' = subscribables
    BY <1>2 DEF calls
  <2>2. /\ ev.type \in Fresh => ev.ctx.channels = subscribables
        /\ ev.type \notin Fresh \cup {"UNSUBSCRIBE_ALL"} => ev.ctx.channels = context.channels
    BY <1>1 DEF LoopInv, ChannelsInv, EventChannels
  <2>3. CASE ev.type \in Fresh
    BY <2>1, <2>2, <2>3
  <2>4. ev.type # "UNSUBSCRIBE_ALL"
    BY <1>2 DEF Target
  <2>5. CASE ev.type \notin Fresh
    <3>1. context'.channels = context.channels
      BY <2>1, <2>2, <2>4, <2>5
    <3>2. state # "UNSUBSCRIBED"
      BY <1>2, <2>4, <2>5 DEF Target, Fresh, Stopped, Failed
    <3>3. CASE context.channels = subscribables
      BY <2>1, <3>1, <3>3
    <3>4. CASE todo["app"] # <<>> /\ Refreshes(Head(todo["app"]))
      <4>1. t # "app"
        BY <1>1, <1>2, <2>4, <2>5, <3>4 DEF Refreshes
      <4>2. todo'["app"] = todo["app"]
        BY <1>1, <4>1 DEF Threads
      <4> QED BY <3>4, <4>2
    <3> QED BY <3>2, <3>3, <3>4 DEF LoopInv, ChannelsInv, CurrentChannels
  <2> QED BY <2>3, <2>5
<1> QED BY <1>3, <1>4 DEF ChannelsInv

\* The queue after the event, place by place
LEMMA TakenPlaces ==
    ASSUME TInv, TInv', NEW t \in Threads, NEW ev, NEW target, NEW e,
           NEW q, NEW f, NEW new, NEW steps, Taken(t, ev, target, e, q, f, new, steps),
           NEW n, n = Len(q)
    PROVE  /\ n \in Nat /\ DOMAIN q = 1..n
           /\ \A i \in DOMAIN q : i \in DOMAIN invocations' /\ invocations'[i] = q[i]
           /\ \A k \in DOMAIN new : n + k \in DOMAIN invocations' /\ invocations'[n + k] = new[k]
           /\ \A k \in DOMAIN new : k \in Nat /\ k >= 1
           /\ \A i \in DOMAIN invocations' : i \in DOMAIN q \/ \E k \in DOMAIN new : i = n + k
           /\ \A i \in DOMAIN e : i \in DOMAIN new
           /\ \A i, j \in DOMAIN e : e[i] = e[j] => i = j
           /\ \A i \in DOMAIN e : e[i] \in Requests => ForState(e[i], target)
           /\ state \in Looping => \E j \in DOMAIN e :
                 e[j] = "CANCEL" /\ \A i \in DOMAIN e : e[i] \in Requests => j < i
           /\ e # <<>> /\ e[1] = "CANCEL" => state = "HANDSHAKING" /\ ev.type \in AppTypes
           /\ e # <<>> => 1 \in DOMAIN e
<1>1. /\ q \in Seq(Invocations) /\ Adds(new, ev, e) /\ invocations' = q \o new
      /\ e = Effects(state, ev.type, target) /\ e \in Seq(Types)
      /\ target = Target(state, ev.type, ev.ctx.channels = {}) /\ target # "NONE"
      /\ ev \in Steps /\ ev.op = "event"
  BY DEF Taken
<1>2. new \in Seq(Invocations) /\ DOMAIN new = DOMAIN e
  BY <1>1 DEF Adds
<1>3. ev.type \in EventTypes
  BY <1>1, StepFacts
<1>4. /\ \A i, j \in DOMAIN e : e[i] = e[j] => i = j
      /\ \A i \in DOMAIN e : e[i] \in Requests => ForState(e[i], target)
      /\ state \in Looping => \E j \in DOMAIN e :
            e[j] = "CANCEL" /\ \A i \in DOMAIN e : e[i] \in Requests => j < i
      /\ e # <<>> /\ e[1] = "CANCEL" => state = "HANDSHAKING" /\ ev.type \in AppTypes
  <2> DEFINE type == ev.type
             empty == ev.ctx.channels = {}
  <2>1. /\ type \in EventTypes /\ target = Target(state, type, empty) /\ target # "NONE"
        /\ e = Effects(state, type, target)
    BY <1>1, <1>3
  <2> HIDE DEF type, empty
  <2>2. /\ \A i, j \in DOMAIN e : e[i] = e[j] => i = j
        /\ \A i \in DOMAIN e : e[i] \in Requests => ForState(e[i], target)
        /\ state \in Looping => \E j \in DOMAIN e :
              e[j] = "CANCEL" /\ \A i \in DOMAIN e : e[i] \in Requests => j < i
        /\ e # <<>> /\ e[1] = "CANCEL" => state = "HANDSHAKING" /\ type \in AppTypes
    BY <2>1, EffectsShape
  <2> QED BY <2>2 DEF type
<1>5. n \in Nat /\ DOMAIN q = 1..n
  BY <1>1
<1>6. /\ \A i \in DOMAIN q : i \in DOMAIN invocations' /\ invocations'[i] = q[i]
      /\ \A k \in DOMAIN new : n + k \in DOMAIN invocations' /\ invocations'[n + k] = new[k]
      /\ \A k \in DOMAIN new : k \in Nat /\ k >= 1
      /\ \A i \in DOMAIN invocations' : i \in DOMAIN q \/ \E k \in DOMAIN new : i = n + k
  <2> DEFINE c == q \o new
  <2>0. q \in Seq(Invocations) /\ new \in Seq(Invocations)
    BY <1>1, <1>2
  <2>1. \A i \in DOMAIN q : i \in DOMAIN c /\ c[i] = q[i]
    BY <2>0, Joined
  <2>3. \A k \in DOMAIN new : Len(q) + k \in DOMAIN c /\ c[Len(q) + k] = new[k]
    BY <2>0, Joined
  <2>4. \A k \in DOMAIN new : k \in Nat /\ k >= 1
    BY <2>0, Joined
  <2>5. \A i \in DOMAIN c : i \in DOMAIN q \/ \E k \in DOMAIN new : i = Len(q) + k
    BY <2>0, Joined
  <2>2. invocations' = c
    BY <1>1
  <2> HIDE DEF c
  <2> QED BY <2>1, <2>2, <2>3, <2>4, <2>5
<1>7. e # <<>> => 1 \in DOMAIN e
  BY <1>1
<1> QED BY <1>2, <1>4, <1>5, <1>6, <1>7

\* The first invocation stays first while it runs; what follows it has other numbers.
LEMMA TakenFirst ==
    ASSUME TInv, TInv', Unique, NEW t \in Threads, NEW ev, NEW target, NEW e,
           NEW q, NEW f, NEW new, NEW steps, Taken(t, ev, target, e, q, f, new, steps)
    PROVE  /\ Unique'
           /\ invocations # <<>> /\ invocations[1].status = "RUNNING" =>
                 invocations' # <<>> /\ invocations'[1] = invocations[1]
           /\ FirstRuns => \A i \in DOMAIN invocations' : invocations'[i].status = "RUNNING" =>
                 /\ i = 1 /\ invocations # <<>> /\ invocations[1].status = "RUNNING"
                 /\ cancel_invocation = invocations[1].id \/ \E u \in Threads : Is(u, OwnerOps)
           /\ invocations = <<>> /\ e # <<>> => invocations' # <<>> /\ invocations'[1] = new[1]
           /\ invocations' # <<>> => invocations # <<>> \/ e # <<>>
<1> DEFINE n == Len(q)
<1>1. /\ n \in Nat /\ DOMAIN q = 1..n
      /\ \A i \in DOMAIN q : i \in DOMAIN invocations' /\ invocations'[i] = q[i]
      /\ \A k \in DOMAIN new : n + k \in DOMAIN invocations' /\ invocations'[n + k] = new[k]
      /\ \A k \in DOMAIN new : k \in Nat /\ k >= 1
      /\ \A i \in DOMAIN invocations' : i \in DOMAIN q \/ \E k \in DOMAIN new : i = n + k
      /\ \A i, j \in DOMAIN e : e[i] = e[j] => i = j
      /\ \A i \in DOMAIN e : i \in DOMAIN new
      /\ e # <<>> => 1 \in DOMAIN e
  BY TakenPlaces
<1>2. /\ DOMAIN new = DOMAIN e
      /\ \A k \in DOMAIN new : /\ new[k].status = "CREATED" /\ new[k].id[1] = e[k]
                               /\ new[k].id \notin UsedIds
  BY DEF Taken, Adds
<1>3. /\ f \in [DOMAIN q -> DOMAIN invocations]
      /\ \A i, j \in DOMAIN q : i < j <=> f[i] < f[j]
      /\ \A i \in DOMAIN q : q[i] = invocations[f[i]]
      /\ invocations # <<>> /\ invocations[1].status = "RUNNING" => q # <<>> /\ q[1] = invocations[1]
      /\ invocations = <<>> => q = <<>>
  BY DEF Taken, LeftOf, Selects
<1>4. q \in Seq(Invocations) /\ invocations \in Seq(Invocations) /\ invocations' \in Seq(Invocations)
  BY DEF Taken, TInv
<1>5. \A i \in DOMAIN invocations : invocations[i].id \in UsedIds
  BY Used
<1>6. \A i \in DOMAIN q : f[i] \in DOMAIN invocations /\ q[i].id \in UsedIds
  BY <1>3, <1>5
<1>7. \A i \in DOMAIN invocations : i \in Nat /\ i >= 1
  BY <1>4
<1>8. \A i \in DOMAIN q : i \in Nat /\ i >= 1 /\ (i # 1 => 1 \in DOMAIN q /\ 1 < i)
  BY <1>1
<1>9. q # <<>> => 1 \in DOMAIN q
  BY <1>4
<1>10. invocations' # <<>> => DOMAIN invocations' # {}
  <2> DEFINE c == invocations'
  <2>1. c \in Seq(Invocations)
    BY <1>4
  <2> HIDE DEF c
  <2>2. c # <<>> => 1 \in DOMAIN c
    BY <2>1
  <2> QED BY <2>2 DEF c
<1>11. Unique'
  <2> SUFFICES ASSUME NEW i \in DOMAIN invocations', NEW j \in DOMAIN invocations',
                      invocations'[i].id = invocations'[j].id
               PROVE  i = j
    BY DEF Unique
  <2>1. CASE i \in DOMAIN q /\ j \in DOMAIN q
    <3>1. invocations[f[i]].id = invocations[f[j]].id /\ f[i] \in DOMAIN invocations
          /\ f[j] \in DOMAIN invocations
      BY <1>1, <1>3, <1>6, <2>1
    <3>2. f[i] = f[j]
      BY <3>1 DEF Unique
    <3>3. ~ (i < j) /\ ~ (j < i)
      BY <1>3, <1>7, <2>1, <3>1, <3>2
    <3> QED BY <1>8, <2>1, <3>3
  <2>2. CASE i \in DOMAIN q /\ ~ (j \in DOMAIN q)
    BY <1>1, <1>2, <1>6, <2>2
  <2>3. CASE ~ (i \in DOMAIN q) /\ j \in DOMAIN q
    BY <1>1, <1>2, <1>6, <2>3
  <2>4. CASE ~ (i \in DOMAIN q) /\ ~ (j \in DOMAIN q)
    <3>1. PICK k \in DOMAIN new : i = n + k
      BY <1>1, <2>4
    <3>2. PICK m \in DOMAIN new : j = n + m
      BY <1>1, <2>4
    <3>3. new[k].id = new[m].id
      BY <1>1, <3>1, <3>2
    <3>4. k = m
      BY <1>1, <1>2, <3>3
    <3> QED BY <3>1, <3>2, <3>4
  <2> QED BY <2>1, <2>2, <2>3, <2>4
<1>12. ASSUME invocations # <<>>, invocations[1].status = "RUNNING"
       PROVE  invocations' # <<>> /\ invocations'[1] = invocations[1]
  BY <1>1, <1>3, <1>9, <1>12
<1>13. ASSUME FirstRuns, NEW i \in DOMAIN invocations', invocations'[i].status = "RUNNING"
       PROVE  /\ i = 1 /\ invocations # <<>> /\ invocations[1].status = "RUNNING"
              /\ cancel_invocation = invocations[1].id \/ \E u \in Threads : Is(u, OwnerOps)
  <2>1. i \in DOMAIN q
    BY <1>1, <1>2, <1>13
  <2>2. invocations[f[i]].status = "RUNNING" /\ f[i] \in DOMAIN invocations
    BY <1>1, <1>3, <1>6, <1>13, <2>1
  <2>3. f[i] = 1 /\ (cancel_invocation = invocations[1].id \/ \E u \in Threads : Is(u, OwnerOps))
    BY <1>13, <2>2 DEF FirstRuns
  <2>4. i = 1
    <3> SUFFICES ASSUME i # 1 PROVE FALSE
      OBVIOUS
    <3>1. 1 \in DOMAIN q /\ 1 < i
      BY <1>8, <2>1
    <3>2. f[1] < 1 /\ f[1] \in DOMAIN invocations
      BY <1>3, <1>6, <2>1, <2>3, <3>1
    <3> QED BY <1>7, <3>2
  <2> QED BY <2>2, <2>3, <2>4
<1>14. ASSUME invocations = <<>>, e # <<>> PROVE invocations' # <<>> /\ invocations'[1] = new[1]
  <2>1. n = 0
    BY <1>3, <1>14
  <2>2. 1 \in DOMAIN new /\ n + 1 = 1
    BY <1>1, <1>14, <2>1
  <2>3. 1 \in DOMAIN invocations' /\ invocations'[1] = new[1]
    BY <1>1, <2>2
  <2> QED BY <2>3
<1>15. ASSUME invocations' # <<>>, invocations = <<>> PROVE e # <<>>
  <2>1. q = <<>>
    BY <1>3, <1>15
  <2>2. PICK i : i \in DOMAIN invocations'
    BY <1>10, <1>15
  <2>3. PICK k \in DOMAIN new : i = n + k
    BY <1>1, <2>1, <2>2
  <2> QED BY <1>2, <2>3
<1> HIDE DEF n
<1> QED BY <1>11, <1>12, <1>13, <1>14, <1>15

\* The queue after the event
LEMMA TakenQueue ==
    ASSUME TInv, TInv', LeaveInv, LoopInv, LoopWindows, NEW t \in Threads, NEW ev, NEW target, NEW e,
           NEW q, NEW f, NEW new, NEW steps, Taken(t, ev, target, e, q, f, new, steps), ~ Doubled'
    PROVE  QueueInv'
<1>1. /\ Is(t, {"event"}) /\ ev = Head(todo[t])
      /\ \A u \in Threads \ {t} : todo'[u] = todo[u]
      /\ \A u \in Threads \ {t} : todo[u] # <<>> =>
            /\ current_transaction = "HEARTBEAT"
            /\ Head(todo[u]).op \in {"heartbeat", "leave", "exec"}
            /\ Head(todo[u]).op = "exec" => Head(todo[u]).id[1] \in Requests
      /\ todo'[t] # <<>> =>
            /\ Head(todo'[t]).op \notin OwnerOps /\ Head(todo'[t]).op # "event"
            /\ Head(todo'[t]).op = "exec" =>
                  e # <<>> /\ Head(todo'[t]).id = IF e[1] = "CANCEL" THEN new[1].id ELSE invocations'[1].id
      /\ e # <<>> => Is(t, {"exec"})'
  BY TakenCalls
<1>2. /\ Unique'
      /\ invocations # <<>> /\ invocations[1].status = "RUNNING" =>
            invocations' # <<>> /\ invocations'[1] = invocations[1]
      /\ \A i \in DOMAIN invocations' : invocations'[i].status = "RUNNING" =>
            /\ i = 1 /\ invocations # <<>> /\ invocations[1].status = "RUNNING"
            /\ cancel_invocation = invocations[1].id \/ \E u \in Threads : Is(u, OwnerOps)
      /\ invocations = <<>> /\ e # <<>> => invocations' # <<>> /\ invocations'[1] = new[1]
      /\ invocations' # <<>> => invocations # <<>> \/ e # <<>>
  BY TakenFirst DEF LoopInv, QueueInv
<1>3. /\ At(t, "event") /\ UNCHANGED <<current_transaction, cancel_invocation>>
      /\ \A k \in DOMAIN new : new[k].id[1] = e[k]
      /\ ev.op = "event"
  BY DEF Taken, flags, Adds
<1>4. /\ \A i \in DOMAIN e : i \in DOMAIN new
      /\ e # <<>> /\ e[1] = "CANCEL" => state = "HANDSHAKING" /\ ev.type \in AppTypes
      /\ e # <<>> => 1 \in DOMAIN e
  <2>1. PICK n : n = Len(q)
    OBVIOUS
  <2> QED BY <2>1, TakenPlaces
<1>5. \A u \in Threads : Is(u, OwnerOps)' => u # t /\ Is(u, OwnerOps) /\ todo'[u] = todo[u]
  BY <1>1 DEF Is
<1>6. ~ Is(t, OwnerOps)
  BY <1>1 DEF Is, OwnerOps
<1>7. \A u \in Threads : Is(u, OwnerOps) => Is(u, OwnerOps)'
  BY <1>1, <1>6 DEF Is
<1>8. /\ Unique /\ Owner /\ OneOwner /\ FirstRuns /\ Cancelling /\ ExecFirst /\ Progress
  BY DEF LoopInv, QueueInv
<1>9. ASSUME current_transaction = "NONE", cancel_invocation = None PROVE invocations = <<>>
  <2>1. "event" \notin {"exec", "done", "cancel", "cancelled", "callback"}
    OBVIOUS
  <2> QED BY <1>3, <1>9, <2>1, NoneWaits DEF LoopInv
<1>10. Owner'
  <2> SUFFICES ASSUME NEW u \in Threads, Is(u, OwnerOps)'
               PROVE  /\ FirstIs(Head(todo[u]).id)' /\ invocations'[1].status = "RUNNING"
                      /\ cancel_invocation' = None
                      /\ Head(todo'[u]).op \in {"cancel", "cancelled"} => Head(todo'[u]).id[1] = "CANCEL"
                      /\ Head(todo'[u]).op = "heartbeat" => Head(todo'[u]).id[1] \in Requests
    BY DEF Owner
  <2>1. Is(u, OwnerOps) /\ todo'[u] = todo[u]
    BY <1>5
  <2>2. /\ FirstIs(Head(todo[u]).id) /\ invocations[1].status = "RUNNING"
        /\ cancel_invocation = None
        /\ Head(todo[u]).op \in {"cancel", "cancelled"} => Head(todo[u]).id[1] = "CANCEL"
        /\ Head(todo[u]).op = "heartbeat" => Head(todo[u]).id[1] \in Requests
    BY <1>8, <2>1 DEF Owner
  <2>3. invocations' # <<>> /\ invocations'[1] = invocations[1] /\ invocations[1].id = Head(todo[u]).id
    BY <1>2, <2>2 DEF FirstIs
  <2>4. FirstIs(Head(todo[u]).id)'
    BY <2>1, <2>3 DEF FirstIs
  <2> QED BY <1>3, <2>1, <2>2, <2>3, <2>4
<1>11. OneOwner'
  <2> SUFFICES ASSUME NEW u \in Threads, NEW v \in Threads, Is(u, OwnerOps)', Is(v, OwnerOps)'
               PROVE  u = v
    BY DEF OneOwner
  <2> QED BY <1>5, <1>8 DEF OneOwner
<1>12. FirstRuns'
  <2> SUFFICES ASSUME NEW i \in DOMAIN invocations', invocations'[i].status = "RUNNING"
               PROVE  i = 1 /\ (cancel_invocation' = invocations'[1].id \/ \E u \in Threads : Is(u, OwnerOps)')
    BY DEF FirstRuns
  <2> QED BY <1>2, <1>3, <1>7
<1>13. Cancelling'
  <2> SUFFICES ASSUME cancel_invocation' # None
               PROVE  FirstIs(cancel_invocation)' /\ invocations'[1].status = "RUNNING"
    BY DEF Cancelling
  <2>1. FirstIs(cancel_invocation) /\ invocations[1].status = "RUNNING"
    BY <1>3, <1>8 DEF Cancelling
  <2> QED BY <1>2, <1>3, <2>1 DEF FirstIs
<1>14. ExecFirst'
  <2> SUFFICES ASSUME NEW u \in Threads, Is(u, {"exec"})',
                      current_transaction' = "NONE" \/ Head(todo'[u]).id[1] \notin Requests \cup {"CANCEL"}
               PROVE  FirstIs(Head(todo[u]).id)'
    BY DEF ExecFirst
  <2>1. u = t
    BY <1>1, <1>3 DEF Is
  <2>2. e # <<>> /\ Head(todo'[t]).id = IF e[1] = "CANCEL" THEN new[1].id ELSE invocations'[1].id
    BY <1>1, <2>1 DEF Is
  <2>3. CASE e[1] = "CANCEL"
    <3>1. Head(todo'[t]).id[1] = "CANCEL"
      BY <1>3, <1>4, <2>2, <2>3
    <3>2. current_transaction = "NONE"
      BY <1>3, <2>1, <3>1
    <3>3. state = "HANDSHAKING" /\ Asking(ev)
      BY <1>3, <1>4, <2>2, <2>3 DEF Asking
    <3>4. cancel_invocation \in UsedIds /\ new[1].id \notin UsedIds
      BY <1>4, <2>2, Used DEF Taken, Adds
    <3>5. cancel_invocation = None
      BY <1>3, <2>1, <2>2, <2>3, <3>1, <3>2, <3>4 DEF Doubled
    <3>6. invocations' # <<>> /\ invocations'[1] = new[1]
      BY <1>2, <1>9, <2>2, <3>2, <3>5
    <3> QED BY <2>1, <2>2, <2>3, <3>6 DEF FirstIs
  <2>4. CASE e[1] # "CANCEL"
    <3>1. invocations' # <<>>
      <4>1. invocations' = q \o new /\ q \in Seq(Invocations) /\ new \in Seq(Invocations)
        BY DEF Taken, Adds
      <4>2. Len(q) + 1 \in DOMAIN invocations'
        BY <1>4, <2>2, <4>1, Joined
      <4> QED BY <4>2
    <3> QED BY <2>1, <2>2, <2>4, <3>1 DEF FirstIs
  <2> QED BY <2>3, <2>4
<1>15. Progress'
  <2> SUFFICES ASSUME current_transaction' = "NONE", cancel_invocation' = None, invocations' # <<>>
               PROVE  \E u \in Threads : Is(u, {"exec", "done", "cancel", "cancelled", "callback"})'
    BY DEF Progress
  <2>1. e # <<>>
    BY <1>2, <1>3, <1>9
  <2>2. Is(t, {"exec"})'
    BY <1>1, <2>1
  <2> QED BY <2>2 DEF Is
<1> QED BY <1>2, <1>10, <1>11, <1>12, <1>13, <1>14, <1>15 DEF QueueInv

\* The requests after the event: the new one is for the new state, and the old
\* ones have the new cancel behind them, or one that was there before.
LEMMA TakenRequests ==
    ASSUME TInv, TInv', LeaveInv, LoopInv, LoopWindows, NEW t \in Threads, NEW ev, NEW target, NEW e,
           NEW q, NEW f, NEW new, NEW steps, Taken(t, ev, target, e, q, f, new, steps)
    PROVE  RequestsInv'
<1> DEFINE n == Len(q)
           c == invocations'
<1>1. /\ n \in Nat /\ DOMAIN q = 1..n
      /\ \A i \in DOMAIN q : i \in DOMAIN c /\ c[i] = q[i]
      /\ \A k \in DOMAIN new : n + k \in DOMAIN c /\ c[n + k] = new[k]
      /\ \A k \in DOMAIN new : k \in Nat /\ k >= 1
      /\ \A i \in DOMAIN c : i \in DOMAIN q \/ \E k \in DOMAIN new : i = n + k
      /\ \A i, j \in DOMAIN e : e[i] = e[j] => i = j
      /\ \A i \in DOMAIN e : e[i] \in Requests => ForState(e[i], target)
      /\ state \in Looping => \E j \in DOMAIN e :
            e[j] = "CANCEL" /\ \A i \in DOMAIN e : e[i] \in Requests => j < i
  <2> HIDE DEF n
  <2>1. n = Len(q)
    BY DEF n
  <2> QED BY <2>1, TakenPlaces
<1>2. /\ DOMAIN new = DOMAIN e
      /\ \A k \in DOMAIN new : /\ new[k].status = "CREATED" /\ new[k].id[1] = e[k]
                               /\ e[k] \in Requests => new[k].ctx = ev.ctx
  BY DEF Taken, Adds
<1>3. /\ q \in Seq(Invocations) /\ invocations \in Seq(Invocations)
      /\ Selects(f, q, invocations) /\ NoneSetBack(f, q, invocations)
      /\ state' = target /\ context' = IF target = "UNSUBSCRIBED" THEN NoContext ELSE ev.ctx
      /\ pb' = pb
  BY DEF Taken, LeftOf, TInv
<1>4. /\ Covered(invocations, state, context) /\ Separate(invocations) /\ Answered
      /\ Live => AtCancel \/ Behind(invocations)
  BY DEF LoopInv, RequestsInv
<1>5. /\ Covered(q, state, context) /\ Separate(q)
      /\ Behind(invocations) => Behind(q)
      /\ (\E j \in DOMAIN invocations : CancelAt(invocations, j)) => \E j \in DOMAIN q : CancelAt(q, j)
  BY <1>3, <1>4, OrderKept
<1>6. AtCancel => AtCancel'
  <2> SUFFICES ASSUME AtCancel PROVE AtCancel'
    OBVIOUS
  <2>1. PICK u \in Threads : Is(u, {"cancel"})
    BY DEF AtCancel
  <2>2. Is(t, {"event"}) /\ \A v \in Threads \ {t} : todo'[v] = todo[v]
    BY TakenCalls
  <2>3. u # t
    BY <2>1, <2>2 DEF Is
  <2>4. Is(u, {"cancel"})'
    BY <2>1, <2>2, <2>3 DEF Is
  <2> QED BY <2>4 DEF AtCancel
<1>7. \A i \in DOMAIN q : i <= n /\ i \in Nat
  BY <1>1
<1> HIDE DEF n, c
<1>8. \A i \in DOMAIN q : (RequestAt(c, i) <=> RequestAt(q, i)) /\ (CancelAt(c, i) <=> CancelAt(q, i))
  BY <1>1 DEF RequestAt, CancelAt
<1>9. \A k \in DOMAIN new : /\ n + k \in DOMAIN c /\ n + k > n
                            /\ RequestAt(c, n + k) => e[k] \in Requests
                            /\ e[k] = "CANCEL" => CancelAt(c, n + k)
  BY <1>1, <1>2 DEF RequestAt, CancelAt
<1>10. \A s, type : ForState(type, s) => s \in Looping
  BY DEF ForState, Looping
\* A cancel behind an old request
<1>11. ASSUME NEW i \in DOMAIN q, RequestAt(q, i)
       PROVE  \E j \in DOMAIN c : /\ i < j /\ CancelAt(c, j)
                                  /\ \A k \in DOMAIN new : e[k] \in Requests => j < n + k
  <2>1. CASE state \in Looping
    <3>1. PICK j \in DOMAIN e : e[j] = "CANCEL" /\ \A k \in DOMAIN e : e[k] \in Requests => j < k
      BY <1>1, <2>1
    <3>2. n + j \in DOMAIN c /\ i < n + j /\ CancelAt(c, n + j)
      BY <1>1, <1>2, <1>7, <1>9, <3>1
    <3>3. \A k \in DOMAIN new : e[k] \in Requests => n + j < n + k
      BY <1>1, <1>2, <3>1
    <3> QED BY <3>2, <3>3
  <2>2. CASE state \notin Looping
    <3>1. PICK j \in DOMAIN q : i < j /\ CancelAt(q, j)
      BY <1>5, <1>10, <1>11, <2>2 DEF Covered
    <3>2. j \in DOMAIN c /\ CancelAt(c, j)
      BY <1>1, <1>8, <3>1
    <3>3. \A k \in DOMAIN new : j < n + k
      BY <1>1, <1>7, <3>1
    <3> QED BY <3>1, <3>2, <3>3
  <2> QED BY <2>1, <2>2
<1>12. Covered(c, state', context')
  <2> SUFFICES ASSUME NEW i \in DOMAIN c, RequestAt(c, i)
               PROVE  \/ ForState(c[i].id[1], state') /\ c[i].ctx.channels = context'.channels
                      \/ \E j \in DOMAIN c : i < j /\ CancelAt(c, j)
    BY DEF Covered
  <2>1. CASE i \in DOMAIN q
    BY <1>8, <1>11, <2>1
  <2>2. CASE i \notin DOMAIN q
    <3>1. PICK k \in DOMAIN new : i = n + k
      BY <1>1, <2>2
    <3>2. e[k] \in Requests /\ k \in DOMAIN e /\ c[i] = new[k]
      BY <1>1, <1>2, <1>9, <3>1
    <3>3. ForState(e[k], target) /\ c[i].id[1] = e[k] /\ c[i].ctx = ev.ctx
      BY <1>1, <1>2, <3>2
    <3>4. target # "UNSUBSCRIBED"
      BY <1>10, <3>3 DEF Looping
    <3> QED BY <1>3, <3>3, <3>4
  <2> QED BY <2>1, <2>2
<1>13. Separate(c)
  <2> SUFFICES ASSUME NEW i \in DOMAIN c, NEW k \in DOMAIN c, i < k, RequestAt(c, i), RequestAt(c, k)
               PROVE  \E j \in DOMAIN c : i < j /\ j < k /\ CancelAt(c, j)
    BY DEF Separate
  <2>1. CASE i \in DOMAIN q /\ k \in DOMAIN q
    <3>1. PICK j \in DOMAIN q : i < j /\ j < k /\ CancelAt(q, j)
      BY <1>5, <1>8, <2>1 DEF Separate
    <3> QED BY <1>1, <1>8, <3>1
  <2>2. CASE i \in DOMAIN q /\ k \notin DOMAIN q
    <3>1. PICK m \in DOMAIN new : k = n + m
      BY <1>1, <2>2
    <3>2. PICK j \in DOMAIN c : /\ i < j /\ CancelAt(c, j)
                                /\ \A l \in DOMAIN new : e[l] \in Requests => j < n + l
      BY <1>8, <1>11, <2>2
    <3> QED BY <1>9, <3>1, <3>2
  <2>3. CASE i \notin DOMAIN q
    <3>1. PICK a \in DOMAIN new : i = n + a
      BY <1>1, <2>3
    <3>2. k \notin DOMAIN q
      <4>1. n + a > n /\ a \in Nat
        BY <1>1, <3>1
      <4> QED BY <1>1, <1>7, <3>1, <4>1
    <3>3. PICK b \in DOMAIN new : k = n + b
      BY <1>1, <3>2
    <3>4. e[a] \in Requests /\ e[b] \in Requests
      BY <1>9, <3>1, <3>3
    <3>5. ForState(e[a], target) /\ ForState(e[b], target)
      BY <1>1, <1>2, <3>4
    <3>6. e[a] = e[b]
      BY <3>5 DEF ForState
    <3>7. a = b
      BY <1>1, <1>2, <3>6
    <3>8. i = k
      BY <3>1, <3>3, <3>7
    <3>9. i \in Nat /\ k \in Nat
      BY <1>1, <3>1, <3>3
    <3> QED BY <3>8, <3>9
  <2> QED BY <2>1, <2>2, <2>3
\* A live request has a cancel in the new queue, or a thread is at one.
<1>14. ASSUME Live, ~ AtCancel
       PROVE  \E j \in DOMAIN c : /\ CancelAt(c, j)
                                  /\ \A k \in DOMAIN new : e[k] \in Requests => j < n + k
  <2>1. CASE state \in Looping
    <3>1. PICK j \in DOMAIN e : e[j] = "CANCEL" /\ \A k \in DOMAIN e : e[k] \in Requests => j < k
      BY <1>1, <2>1
    <3>2. n + j \in DOMAIN c /\ CancelAt(c, n + j)
      BY <1>1, <1>2, <1>9, <3>1
    <3>3. \A k \in DOMAIN new : e[k] \in Requests => n + j < n + k
      BY <1>1, <1>2, <3>1
    <3> QED BY <3>2, <3>3
  <2>2. CASE state \notin Looping
    <3>1. \E j \in DOMAIN invocations : CancelAt(invocations, j)
      BY <1>4, <1>10, <1>14, <2>2 DEF Answered
    <3>2. PICK j \in DOMAIN q : CancelAt(q, j)
      BY <1>5, <3>1
    <3>3. j \in DOMAIN c /\ CancelAt(c, j)
      BY <1>1, <1>8, <3>2
    <3>4. \A k \in DOMAIN new : j < n + k
      BY <1>1, <1>7, <3>2
    <3> QED BY <3>3, <3>4
  <2> QED BY <2>1, <2>2
<1>15. Live' = Live
  BY <1>3 DEF Live
<1>16. Answered'
  BY <1>6, <1>14, <1>15 DEF Answered, c
<1>17. Live' => AtCancel' \/ Behind(c)
  <2> SUFFICES ASSUME Live, ~ AtCancel PROVE Behind(c)
    BY <1>6, <1>15
  <2>1. Behind(q)
    BY <1>4, <1>5
  <2> SUFFICES ASSUME NEW i \in DOMAIN c, RequestAt(c, i), c[i].status = "CREATED"
               PROVE  \E j \in DOMAIN c : j < i /\ CancelAt(c, j)
    BY DEF Behind
  <2>2. CASE i \in DOMAIN q
    <3>1. PICK j \in DOMAIN q : j < i /\ CancelAt(q, j)
      BY <1>1, <1>8, <2>1, <2>2 DEF Behind
    <3> QED BY <1>1, <1>8, <3>1
  <2>3. CASE i \notin DOMAIN q
    <3>1. PICK k \in DOMAIN new : i = n + k
      BY <1>1, <2>3
    <3> QED BY <1>9, <1>14, <3>1
  <2> QED BY <2>2, <2>3
<1> QED BY <1>12, <1>13, <1>16, <1>17 DEF RequestsInv, c

\* An event that the state does not take
LEMMA LoopIgnores ==
    ASSUME TInv, TInv', LeaveInv, LoopInv, LoopWindows, NEW t \in Threads, At(t, "event"), Return(t),
           Target(state, Head(todo[t]).type, Head(todo[t]).ctx.channels = {}) = "NONE",
           UNCHANGED <<engine, flags, calls, pb>>
    PROVE  LoopInv'
<1> DEFINE ev == Head(todo[t])
<1>0. PICK steps \in Seq(Steps) : steps = <<>>
  BY NoStep
<1>1. At(t, "event") /\ Then(t, steps)
  BY <1>0 DEF Return
<1>2. UNCHANGED <<state, context, invocations, cancel_invocation, current_transaction,
                  subscribables, pb>>
  BY DEF engine, flags, calls
<1>3. ~ (steps # <<>>) /\ \A i \in DOMAIN steps : i > 1 => steps[i].op = "error"
  BY <1>0, NoStep
<1>4. CallsInv /\ QueueInv /\ RequestsInv /\ ChannelsInv
  BY DEF LoopInv
<1>5. /\ todo[t] # <<>> /\ ev.op = "event"
      /\ \A u \in Threads \ {t} : todo'[u] = todo[u]
      /\ \A u \in Threads \ {t} : todo[u] # <<>> => Head(todo[u]).op \in {"heartbeat", "leave", "exec"}
      /\ todo'[t] # <<>> => Head(todo'[t]).op = "error"
  <2>1. steps # <<>> => Head(steps).op # "leave" /\ "event" # "leave"
    BY <1>3
  <2>4. steps \in Seq(Steps) /\ \A i \in DOMAIN steps : i > 1 => steps[i].op = "error"
    BY <1>0, <1>3
  <2>2. /\ todo[t] # <<>> /\ ev.op = "event"
        /\ \A u \in Threads \ {t} : todo'[u] = todo[u]
        /\ \A u \in Threads \ {t} : todo[u] # <<>> => Head(todo[u]).op \in {"heartbeat", "leave", "exec"}
    BY <1>1, <1>4, <2>1, <2>4, Stepped
  <2>3. \/ Head(todo[t]).op # "leave" /\ Head(todo'[t]).op = "error"
        \/ Head(todo[t]).op = "leave" /\ t = "app" /\ Follows(Head(todo'[t]))
        \/ ~ (steps = <<>> /\ todo'[t] # <<>>)
    BY <1>1, <1>4, <2>1, <2>2, <2>4, ThenStack DEF CallsInv
  <2> QED BY <1>0, <2>2, <2>3
<1>6. CallsInv'
  <2>1. CanStart' = CanStart /\ pb'.requeued \in BOOLEAN
    BY <1>2, PbFacts DEF CanStart, TInv
  <2>2. ~ ((steps # <<>> /\ Asking(Head(steps))) \/ "event" = "leave")
    BY <1>3
  <2>3. pb'.state = "WAIT_CANCEL" =>
           pb.state = "WAIT_CANCEL" /\ "event" # "cancelled" /\ UNCHANGED cancel_invocation
    BY <1>2
  <2>4. pb'.state = "BUSY" /\ pb'.trans \notin Requests => current_transaction' # "NONE"
    BY <1>2, <1>4 DEF CallsInv, TransactionKnown
  <2>5. pb'.requeued => pb.requeued /\ pb'.trans = pb.trans
    BY <1>2
  <2>6. \A u \in Threads \ {t} : todo[u] # <<>> =>
              /\ UNCHANGED current_transaction
              /\ Head(todo[u]).op = "heartbeat" => CanStart' = CanStart
    BY <1>2, <2>1
  <2> QED BY <1>1, <1>3, <1>4, <2>1, <2>2, <2>3, <2>4, <2>5, <2>6, CallsKept
<1>7. QueueInv'
  <2>1. "event" \notin OwnerOps /\ "event" \notin {"exec", "callback"}
    BY DEF OwnerOps
  <2> QED BY <1>1, <1>2, <1>3, <1>4, <2>1, QueuePasses
<1>8. RequestsInv'
  <2>1. AtCancel => AtCancel'
    <3> SUFFICES ASSUME NEW u \in Threads, Is(u, {"cancel"}) PROVE Is(u, {"cancel"})'
      BY DEF AtCancel
    <3> QED BY <1>5 DEF Is
  <2>2. Live' => Live /\ pb'.trans = pb.trans /\ pb'.channels = pb.channels
    BY <1>2 DEF Live
  <2> QED BY <1>2, <1>4, <2>1, <2>2, OrderStands
<1>9. EventChannels'
  <2>1. \A u \in Threads : ~ Is(u, {"event"})'
    BY <1>5 DEF Is
  <2> QED BY <2>1 DEF EventChannels
<1>10. CurrentChannels'
  <2> SUFFICES ASSUME state # "UNSUBSCRIBED", context.channels # subscribables
               PROVE  todo'["app"] # <<>> /\ Refreshes(Head(todo'["app"]))
    BY <1>2 DEF CurrentChannels, Refreshes
  <2>1. todo["app"] # <<>> /\ Refreshes(Head(todo["app"]))
    BY <1>4 DEF ChannelsInv, CurrentChannels
  <2>2. ev.type # "UNSUBSCRIBE_ALL"
    BY DEF Target
  <2>3. ev.type \notin Fresh
    <3>1. state \in States
      BY DEF TInv
    <3> QED BY <3>1 DEF Target, Fresh, States, Looping, Stopped, Failed
  <2>4. t # "app"
    BY <1>5, <2>1, <2>2, <2>3 DEF Refreshes
  <2>5. todo'["app"] = todo["app"]
    BY <1>5, <2>4 DEF Threads
  <2> QED BY <2>1, <2>5
<1> QED BY <1>6, <1>7, <1>8, <1>9, <1>10 DEF LoopInv, ChannelsInv

\* pbcc_ee_handle_event
LEMMA LoopHandleEvent ==
    ASSUME TInv, TInv', LeaveInv, LoopInv, LoopWindows, NEW t \in Threads, HandleEvent(t), ~ Doubled'
    PROVE  LoopInv'
<1>1. CASE /\ At(t, "event") /\ Return(t)
           /\ Target(state, Head(todo[t]).type, Head(todo[t]).ctx.channels = {}) = "NONE"
           /\ UNCHANGED <<engine, flags, calls, pb>>
  BY <1>1, LoopIgnores
<1>2. ASSUME NEW ev, NEW target, NEW e, NEW q, NEW f, NEW new, NEW steps,
             Taken(t, ev, target, e, q, f, new, steps)
      PROVE  LoopInv'
  <2>1. CallsInv'
    BY <1>2, TakenCallsInv
  <2>2. QueueInv'
    BY <1>2, TakenQueue
  <2>3. RequestsInv'
    BY <1>2, TakenRequests
  <2>4. ChannelsInv'
    BY <1>2, TakenChannels
  <2> QED BY <2>1, <2>2, <2>3, <2>4 DEF LoopInv
<1> QED BY <1>1, <1>2, HandleEventTakes

-----------------------------------------------------------------------------
(* The loop is current *)

\* At the start no thread is in the engine and nothing is queued.
LEMMA LoopInitial == Init => LoopInv
<1> SUFFICES ASSUME Init PROVE LoopInv
  OBVIOUS
<1>1. /\ todo["app"] = <<>> /\ todo["watcher"] = <<>> /\ \A t \in Threads : todo[t] = <<>>
      /\ state = "UNSUBSCRIBED" /\ cancel_invocation = None
      /\ pb.state = "IDLE" /\ ~ pb.requeued
  BY DEF Init, Threads
<1>2. DOMAIN invocations = {}
  BY DEF Init
<1>3. CallsInv
  BY <1>1 DEF CallsInv, Stack, Is, WatcherAnswers, Meeting, AfterEnd, PreparedLeave,
              HeartbeatHeld, CancelHeld, CancelKnown, TransactionKnown
<1>4. QueueInv
  <2>1. invocations = <<>>
    BY DEF Init
  <2> QED BY <1>1, <1>2, <2>1 DEF QueueInv, Unique, Owner, OneOwner, FirstRuns, Cancelling, ExecFirst,
                                  Progress, Is
<1>5. RequestsInv
  BY <1>1, <1>2 DEF RequestsInv, Covered, Separate, Answered, Live
<1>6. ChannelsInv
  BY <1>1 DEF ChannelsInv, CurrentChannels, EventChannels, Is
<1> QED BY <1>3, <1>4, <1>5, <1>6 DEF LoopInv

LEMMA LoopStep ==
    TInv /\ TInv' /\ LeaveInv /\ LoopInv /\ LoopWindows /\ [Next]_vars
        => LoopInv' \/ (Doubled' /\ \E t \in Threads : HandleEvent(t))
<1> SUFFICES ASSUME TInv, TInv', LeaveInv, LoopInv, LoopWindows, [Next]_vars,
                    \A t \in Threads : HandleEvent(t) => ~ Doubled'
             PROVE  LoopInv'
  OBVIOUS
<1>1. ASSUME NEW t \in Threads, ThreadStep(t) PROVE LoopInv'
  <2>1. CASE HandleEvent(t)
    BY <2>1, LoopHandleEvent
  <2>2. CASE Complete(t) \/ NotRunnable(t) \/ EmitStatus(t) \/ EmitMessages(t)
    BY <2>2, LoopComplete, LoopNotRunnable, LoopEmits
  <2>3. CASE CancelEffect(t) \/ Cancel(t) \/ CancelStarted(t)
    BY <2>3, LoopCancelEffect, LoopCancel, LoopCancelStarted
  <2>4. CASE MakeHeartbeat(t) \/ Heartbeat(t) \/ MakeSubscribeRequest(t) \/ SubscribeError(t)
    BY <2>4, LoopMakeHeartbeat, LoopHeartbeat, LoopMakeSubscribeRequest, LoopSubscribeError
  <2>5. CASE SubscriptionChanged(t) \/ Leave(t)
    BY <2>5, LoopSubscriptionChanged, LoopLeave
  <2> QED BY <1>1, <2>1, <2>2, <2>3, <2>4, <2>5 DEF ThreadStep
<1>2. CASE WatcherStep
  BY <1>2, LoopRequeued, LoopCallback, LoopReport DEF WatcherStep
<1>3. CASE Publish
  <2>1. UNCHANGED <<state, context, invocations, flags, subscribables, pb, todo>>
    BY <1>3 DEF Publish, engine, calls
  <2> QED BY <2>1, LoopStands
<1>4. CASE UNCHANGED vars
  <2>1. UNCHANGED <<state, context, invocations, flags, subscribables, pb, todo>>
    BY <1>4 DEF vars, engine, calls
  <2> QED BY <2>1, LoopStands
<1> QED BY <1>1, <1>2, <1>3, <1>4, LoopEnds, LoopCall DEF Next

=============================================================================
