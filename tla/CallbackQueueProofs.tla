-------------------------- MODULE CallbackQueueProofs --------------------------
(***************************************************************************)
(* The ring buffer of CallbackQueue keeps its indices in range, its        *)
(* entries and its notifications, for every number of slots, contexts and  *)
(* threads, and implements ContextFifo.  For the last, the live slots are  *)
(* laid out as a row, oldest first: an insertion appends to it, a pop takes*)
(* its first entry, a removal blanks one; what a row holds without its     *)
(* holes follows through FilledConcat.                                     *)
(***************************************************************************)
EXTENDS CallbackQueue, SequenceTheorems, NaturalsInduction, WellFoundedInduction, TLAPS

\* One step of an index stays in the array.
LEMMA SuccInSlots ==
    ASSUME NEW i \in Slots
    PROVE  Succ(i) \in Slots
  BY SizeAssumption DEF Slots, Succ

\* The slot at the head is free: an accepted entry overwrites nothing.
LEMMA HeadIsFree == TypeOK => head \notin Live
  BY SizeAssumption DEF TypeOK, Live, Slots

\* With room for it, moving the head adds the head's slot and no other.
LEMMA HeadMoves ==
    ASSUME TypeOK, Succ(head) # tail, head' = Succ(head), tail' = tail
    PROVE  Live' = Live \cup {head}
  BY SizeAssumption DEF TypeOK, Live, Slots, Succ

\* Moving the tail of a queue that is not empty frees the tail's slot only.
LEMMA TailMoves ==
    ASSUME TypeOK, head # tail, tail' = Succ(tail), head' = head
    PROVE  Live' = Live \ {tail} /\ tail \in Live
  BY SizeAssumption DEF TypeOK, Live, Slots, Succ

-----------------------------------------------------------------------------
(* Indices, slots and thread states keep their types                        *)
(* (core/pbpal_ntf_callback_queue.c, for any queue->size above one).        *)
THEOREM TypeCorrect == Spec => []TypeOK
<1>1. Init => TypeOK
  BY SizeAssumption DEF Init, TypeOK, Slots, Entries
<1>2. TypeOK /\ [Next]_vars => TypeOK'
  <2> SUFFICES ASSUME TypeOK, [Next]_vars PROVE TypeOK'
    OBVIOUS
  <2> USE SuccInSlots DEF TypeOK, Entries
  <2>1. ASSUME NEW t \in Threads, NEW pb \in Contexts, Enqueue(t, pb) PROVE TypeOK'
    BY <2>1 DEF Enqueue, enqueue_for_processing
  <2>2. ASSUME NEW t \in Threads, NEW pb \in Contexts, RequeueSearch(t, pb) PROVE TypeOK'
    BY <2>2 DEF RequeueSearch
  <2>3. ASSUME NEW t \in Threads, RequeueEnqueue(t) PROVE TypeOK'
    BY <2>3 DEF RequeueEnqueue, enqueue_for_processing
  <2>4. ASSUME NEW pb \in Contexts, RemoveFromQueue(pb) PROVE TypeOK'
    BY <2>4 DEF RemoveFromQueue
  <2>5. CASE Pop
    BY <2>5 DEF Pop
  <2>6. CASE Processed
    BY <2>6 DEF Processed
  <2>7. CASE UNCHANGED vars
    BY <2>7 DEF vars
  <2> QED
    BY <2>1, <2>2, <2>3, <2>4, <2>5, <2>6, <2>7 DEF Next
<1> QED
  BY <1>1, <1>2, PTL DEF Spec

-----------------------------------------------------------------------------
\* An insertion keeps what is in the queue and adds pb when it is accepted.
LEMMA EnqueueKeeps ==
    ASSUME TypeOK, NotificationsKept, NEW pb \in Contexts, enqueue_for_processing(pb)
    PROVE  NotificationsKept'
<1>1. CASE Succ(head) # tail
  <2>1. /\ apb' = [apb EXCEPT ![head] = pb]
        /\ head' = Succ(head)
        /\ due' = due \cup {pb}
        /\ tail' = tail
    BY <1>1 DEF enqueue_for_processing
  <2>2. Live' = Live \cup {head}
    BY <1>1, <2>1, HeadMoves
  <2>3. \A i \in Live : apb'[i] = apb[i]
    BY <2>1, HeadIsFree DEF TypeOK, Live
  <2>4. apb'[head] = pb
    BY <2>1 DEF TypeOK
  <2> QED
    BY <2>1, <2>2, <2>3, <2>4 DEF NotificationsKept, Holds
<1>2. CASE Succ(head) = tail
  BY <1>2 DEF enqueue_for_processing, NotificationsKept, Holds, Live
<1> QED
  BY <1>1, <1>2

\* Every step keeps the notifications of all contexts.
LEMMA NotificationsStep == TypeOK /\ NotificationsKept /\ [Next]_vars => NotificationsKept'
<1> SUFFICES ASSUME TypeOK, NotificationsKept, [Next]_vars PROVE NotificationsKept'
  OBVIOUS
<1>1. ASSUME NEW t \in Threads, NEW pb \in Contexts, Enqueue(t, pb) PROVE NotificationsKept'
  BY <1>1, EnqueueKeeps DEF Enqueue
<1>2. ASSUME NEW t \in Threads, NEW pb \in Contexts, RequeueSearch(t, pb)
      PROVE  NotificationsKept'
  BY <1>2 DEF RequeueSearch, NotificationsKept, Holds, Live
<1>3. ASSUME NEW t \in Threads, RequeueEnqueue(t) PROVE NotificationsKept'
  <2>1. requeuing[t] \in Contexts
    BY <1>3 DEF RequeueEnqueue, TypeOK, Entries
  <2> QED
    BY <1>3, <2>1, EnqueueKeeps DEF RequeueEnqueue
<1>4. ASSUME NEW pb \in Contexts, RemoveFromQueue(pb) PROVE NotificationsKept'
  <2>1. PICK i \in Live : apb[i] = pb /\ apb' = [apb EXCEPT ![i] = NULL]
    BY <1>4 DEF RemoveFromQueue
  <2>2. Live' = Live /\ due' = due \ {pb}
    BY <1>4 DEF RemoveFromQueue, Live
  <2>3. \A j \in Live : apb[j] # pb => apb'[j] = apb[j]
    BY <2>1 DEF TypeOK, Live
  <2> QED
    BY <2>2, <2>3 DEF NotificationsKept, Holds
<1>5. CASE Pop
  <2>1. Live' = Live \ {tail} /\ apb' = apb /\ due' = due \ {apb[tail]}
    BY <1>5, TailMoves DEF Pop
  <2> QED
    BY <2>1 DEF NotificationsKept, Holds
<1>6. CASE Processed
  BY <1>6 DEF Processed, NotificationsKept, Holds, Live
<1>7. CASE UNCHANGED vars
  BY <1>7 DEF vars, NotificationsKept, Holds, Live
<1> QED
  BY <1>1, <1>2, <1>3, <1>4, <1>5, <1>6, <1>7 DEF Next

(* A context that was notified is in the queue until it is taken or its     *)
(* socket is lost, whatever the size of the queue and however many threads  *)
(* use it (core/pbpal_ntf_callback_queue.c:24-91).                          *)
THEOREM NoLostNotification == Spec => []NotificationsKept
<1>1. Init => NotificationsKept
  BY DEF Init, NotificationsKept
<1> QED
  BY <1>1, NotificationsStep, TypeCorrect, PTL DEF Spec

-----------------------------------------------------------------------------
\* What one step may do to the entries already in the queue.
EntriesSurviveStep ==
    \A i \in Live : i # tail => i \in Live' /\ apb'[i] \in {apb[i], NULL}

\* An insertion leaves every entry as it is.
LEMMA EnqueueSurvives ==
    ASSUME TypeOK, NEW pb \in Contexts, enqueue_for_processing(pb)
    PROVE  EntriesSurviveStep
<1>1. CASE Succ(head) # tail
  <2>1. /\ apb' = [apb EXCEPT ![head] = pb]
        /\ head' = Succ(head)
        /\ tail' = tail
    BY <1>1 DEF enqueue_for_processing
  <2>2. Live' = Live \cup {head}
    BY <1>1, <2>1, HeadMoves
  <2>3. \A i \in Live : apb'[i] = apb[i]
    BY <2>1, HeadIsFree DEF TypeOK, Live
  <2> QED
    BY <2>2, <2>3 DEF EntriesSurviveStep
<1>2. CASE Succ(head) = tail
  BY <1>2 DEF enqueue_for_processing, EntriesSurviveStep, Live
<1> QED
  BY <1>1, <1>2

(* No operation drops or replaces an entry it was not asked to: a full      *)
(* queue refuses instead of overwriting, a pop frees the oldest slot only   *)
(* (core/pbpal_ntf_callback_queue.c:38-41, 82-90, 98-101).                  *)
THEOREM NothingOverwritten == Spec => EntriesSurvive
<1>1. TypeOK /\ [Next]_vars => [EntriesSurviveStep]_vars
  <2> SUFFICES ASSUME TypeOK, Next PROVE EntriesSurviveStep
    OBVIOUS
  <2>1. ASSUME NEW t \in Threads, NEW pb \in Contexts, Enqueue(t, pb)
        PROVE  EntriesSurviveStep
    BY <2>1, EnqueueSurvives DEF Enqueue
  <2>2. ASSUME NEW t \in Threads, NEW pb \in Contexts, RequeueSearch(t, pb)
        PROVE  EntriesSurviveStep
    BY <2>2 DEF RequeueSearch, EntriesSurviveStep, Live
  <2>3. ASSUME NEW t \in Threads, RequeueEnqueue(t) PROVE EntriesSurviveStep
    <3>1. requeuing[t] \in Contexts
      BY <2>3 DEF RequeueEnqueue, TypeOK, Entries
    <3> QED
      BY <2>3, <3>1, EnqueueSurvives DEF RequeueEnqueue
  <2>4. ASSUME NEW pb \in Contexts, RemoveFromQueue(pb) PROVE EntriesSurviveStep
    <3>1. PICK i \in Live : apb' = [apb EXCEPT ![i] = NULL]
      BY <2>4 DEF RemoveFromQueue
    <3>2. Live' = Live
      BY <2>4 DEF RemoveFromQueue, Live
    <3> QED
      BY <3>1, <3>2 DEF EntriesSurviveStep, TypeOK, Live
  <2>5. CASE Pop
    BY <2>5, TailMoves DEF Pop, EntriesSurviveStep
  <2>6. CASE Processed
    BY <2>6 DEF Processed, EntriesSurviveStep, Live
  <2> QED
    BY <2>1, <2>2, <2>3, <2>4, <2>5, <2>6 DEF Next
<1> QED
  BY <1>1, TypeCorrect, PTL DEF Spec, EntriesSurvive, EntriesSurviveStep

-----------------------------------------------------------------------------
(* The contexts a row of slots holds *)

\* A set of numbers that has a member has a least one: induction over a row is by
\* the first entry that would break the claim.
LEMMA Least ==
    ASSUME NEW S \in SUBSET Nat, S # {}
    PROVE  \E x \in S : \A y \in S : x <= y
<1> DEFINE R == {ss \in Nat \X Nat : ss[1] < ss[2]}
<1>1. IsWellFoundedOn(R, Nat)
  BY NatLessThanWellFounded DEF OpToRel
<1>2. \A x, y \in Nat : y < x => <<y, x>> \in R
  OBVIOUS
<1> HIDE DEF R
<1>3. PICK x \in S : \A y \in S : ~ (<<y, x>> \in R)
  BY <1>1, WFMin
<1>4. ASSUME NEW y \in S PROVE x <= y
  <2>1. ~ (y < x)
    BY <1>2, <1>3
  <2> QED BY <2>1
<1> QED BY <1>4

\* What slots hold in some order, holes included
Rows == Seq(Entries)

\* What is pending
Queues == Seq(Contexts)

\* A row has a length and holds contexts and holes.
LEMMA RowFacts ==
    ASSUME NEW s \in Rows
    PROVE  /\ Len(s) \in Nat /\ DOMAIN s = 1..Len(s)
           /\ \A i \in 1..Len(s) : s[i] \in Contexts \/ s[i] = NULL
  BY LenProperties, ElementOfSeq DEF Rows, Entries

\* g[k] is what the first k entries of s hold, for k up to n.
Gathers(s, n, g) ==
    /\ g \in [0..n -> Queues] /\ g[0] = <<>>
    /\ \A k \in 1..n : g[k] = IF s[k] = NULL THEN g[k - 1] ELSE Append(g[k - 1], s[k])

\* Every row has its gathered prefixes.
LEMMA GatherExists ==
    ASSUME NEW s \in Rows
    PROVE  \E g : Gathers(s, Len(s), g)
<1> DEFINE S == {n \in 0..Len(s) : ~ \E g : Gathers(s, n, g)}
<1>1. Len(s) \in Nat /\ \A k \in 1..Len(s) : s[k] \in Contexts \/ s[k] = NULL
  BY RowFacts
<1>2. ASSUME S # {} PROVE FALSE
  <2>1. S \in SUBSET Nat /\ S # {}
    BY <1>1, <1>2
  <2>2. PICK n \in S : \A j \in S : n <= j
    <3> HIDE DEF S
    <3> QED BY <2>1, Least
  <2>3. n \in 0..Len(s) /\ ~ \E g : Gathers(s, n, g)
    OBVIOUS
  <2>4. CASE n = 0
    <3> DEFINE g == [k \in 0..0 |-> <<>>]
    <3>1. <<>> \in Queues
      BY EmptySeq DEF Queues
    <3>2. g \in [0..0 -> Queues] /\ g[0] = <<>>
      BY <3>1
    <3>3. \A k \in 1..0 : FALSE
      OBVIOUS
    <3> HIDE DEF g
    <3>4. Gathers(s, 0, g)
      BY <3>2, <3>3 DEF Gathers
    <3> QED BY <2>3, <2>4, <3>4
  <2>5. CASE n # 0
    <3>1. n - 1 \in 0..Len(s) /\ n \in 1..Len(s) /\ ~ (n <= n - 1) /\ n \in Nat
      BY <1>1, <2>3, <2>5
    <3>2. n - 1 \notin S
      BY <2>2, <3>1
    <3>3. PICK g : Gathers(s, n - 1, g)
      BY <3>1, <3>2
    <3>4. g \in [0..n - 1 -> Queues] /\ g[0] = <<>>
          /\ \A k \in 1..n - 1 : g[k] = IF s[k] = NULL THEN g[k - 1]
               ELSE Append(g[k - 1], s[k])
      BY <3>3 DEF Gathers
    <3> DEFINE v == IF s[n] = NULL THEN g[n - 1] ELSE Append(g[n - 1], s[n])
               e == [k \in 0..n |-> IF k = n THEN v ELSE g[k]]
    <3>5. v \in Queues
      <4>1. g[n - 1] \in Queues
        BY <3>1, <3>4
      <4>2. s[n] # NULL => Append(g[n - 1], s[n]) \in Queues
        BY <1>1, <3>1, <4>1, AppendProperties DEF Queues
      <4> QED BY <4>1, <4>2
    <3>6. ASSUME NEW k \in 0..n PROVE k # n => g[k] \in Queues
      <4>1. k # n => k \in 0..n - 1
        BY <3>1
      <4> QED BY <3>4, <4>1
    <3>7. DOMAIN e = 0..n /\ \A k \in 0..n : e[k] = IF k = n THEN v ELSE g[k]
      OBVIOUS
    <3>8. e \in [0..n -> Queues]
      <4> HIDE DEF v
      <4> QED BY <3>5, <3>6
    <3> HIDE DEF e
    <3>9. e[0] = <<>>
      BY <2>5, <3>1, <3>4, <3>7
    <3>10. ASSUME NEW k \in 1..n
           PROVE  e[k] = IF s[k] = NULL THEN e[k - 1] ELSE Append(e[k - 1], s[k])
      <4>1. k - 1 \in 0..n /\ k - 1 # n /\ k \in 0..n
        BY <3>1
      <4>2. e[k - 1] = g[k - 1]
        BY <3>7, <4>1
      <4>3. CASE k = n
        <5>1. e[k] = v
          BY <3>7, <4>1, <4>3
        <5> QED BY <4>2, <4>3, <5>1
      <4>4. CASE k # n
        <5>1. k \in 1..n - 1
          BY <3>1, <4>4
        <5>2. e[k] = g[k]
          BY <3>7, <4>1, <4>4
        <5> QED BY <3>4, <4>2, <5>1, <5>2
      <4> QED BY <4>3, <4>4
    <3> HIDE DEF v
    <3>11. Gathers(s, n, e)
      BY <3>8, <3>9, <3>10 DEF Gathers
    <3> QED BY <2>3, <3>11
  <2> QED BY <2>4, <2>5
<1>3. Len(s) \in 0..Len(s)
  BY <1>1
<1> QED BY <1>2, <1>3

\* Filled is any function that satisfies its equation.
LEMMA FilledIs ==
    ASSUME NEW s \in Rows, NEW g, Gathers(s, Len(s), g)
    PROVE  Filled(s) = g[Len(s)]
<1> DEFINE step(f) == [k \in 0..Len(s) |-> IF k = 0 THEN <<>>
      ELSE IF s[k] = NULL THEN f[k - 1] ELSE Append(f[k - 1], s[k])]
           up == CHOOSE f : f = step(f)
<1>1. Len(s) \in Nat
  BY RowFacts
<1>2. g = [k \in 0..Len(s) |-> g[k]] /\ g[0] = <<>>
  BY DEF Gathers
<1>3. \A k \in 0..Len(s) : g[k] = IF k = 0 THEN <<>> ELSE IF s[k] = NULL THEN g[k - 1]
        ELSE Append(g[k - 1], s[k])
  <2>1. ASSUME NEW k \in 0..Len(s), k # 0 PROVE k \in 1..Len(s)
    BY <1>1, <2>1
  <2> QED BY <1>2, <2>1 DEF Gathers
<1>4. g = step(g)
  BY <1>2, <1>3
<1>5. up = step(up)
  BY <1>4
<1> HIDE DEF up
<1>6. \A k \in 0..Len(s) : up[k] = IF k = 0 THEN <<>> ELSE IF s[k] = NULL THEN up[k - 1]
        ELSE Append(up[k - 1], s[k])
  BY <1>5
<1>7. \A k \in 0..Len(s) : up[k] = g[k]
  <2> DEFINE S == {k \in 0..Len(s) : up[k] # g[k]}
  <2>1. ASSUME S # {} PROVE FALSE
    <3>1. S \in SUBSET Nat /\ S # {}
      BY <1>1, <2>1
    <3>2. PICK k \in S : \A j \in S : k <= j
      <4> HIDE DEF S
      <4> QED BY <3>1, Least
    <3>3. k \in 0..Len(s) /\ up[k] # g[k]
      OBVIOUS
    <3>4. k # 0 => up[k - 1] = g[k - 1]
      <4>1. ASSUME k # 0 PROVE k - 1 \in 0..Len(s) /\ ~ (k <= k - 1)
        BY <1>1, <3>3, <4>1
      <4> QED BY <3>2, <4>1
    <3>5. up[k] = IF k = 0 THEN <<>> ELSE IF s[k] = NULL THEN up[k - 1]
            ELSE Append(up[k - 1], s[k])
      BY <1>6, <3>3
    <3>6. g[k] = IF k = 0 THEN <<>> ELSE IF s[k] = NULL THEN g[k - 1]
            ELSE Append(g[k - 1], s[k])
      BY <1>3, <3>3
    <3> QED BY <3>3, <3>4, <3>5, <3>6
  <2> QED BY <2>1
<1>8. Len(s) \in 0..Len(s)
  BY <1>1
<1>9. Filled(s) = up[Len(s)]
  BY DEF Filled, up
<1> QED BY <1>7, <1>8, <1>9

\* What a row holds is what its prefixes gathered in the end, a queue.
LEMMA GatheredOf ==
    ASSUME NEW s \in Rows
    PROVE  \E g : Gathers(s, Len(s), g) /\ Filled(s) = g[Len(s)] /\ Filled(s) \in Queues
<1>1. PICK g : Gathers(s, Len(s), g)
  BY GatherExists
<1>2. Filled(s) = g[Len(s)]
  BY <1>1, FilledIs
<1>3. Len(s) \in Nat
  BY RowFacts
<1>4. g[Len(s)] \in Queues
  <2>1. Len(s) \in 0..Len(s)
    BY <1>3
  <2> QED BY <1>1, <2>1 DEF Gathers
<1> QED BY <1>1, <1>2, <1>4

\* To append to the second part is to append to the whole.
LEMMA AppendAfter ==
    ASSUME NEW a \in Queues, NEW b \in Queues, NEW x \in Contexts
    PROVE  Append(a \o b, x) = a \o Append(b, x)
<1>1. a \o b \in Queues
  BY ConcatProperties DEF Queues
<1>2. <<x>> \in Queues
  BY DEF Queues
<1>3. Append(a \o b, x) = (a \o b) \o <<x>>
  BY <1>1, AppendIsConcat DEF Queues
<1>4. Append(b, x) = b \o <<x>>
  BY AppendIsConcat DEF Queues
<1>5. (a \o b) \o <<x>> = a \o (b \o <<x>>)
  BY <1>2, ConcatAssociative DEF Queues
<1> QED BY <1>3, <1>4, <1>5

\* The contexts of two rows in line are those of the one, then those of the other.
LEMMA FilledConcat ==
    ASSUME NEW s \in Rows, NEW t \in Rows
    PROVE  /\ s \o t \in Rows
           /\ Filled(s \o t) = Filled(s) \o Filled(t)
<1> DEFINE st == s \o t
           n == Len(s)
           m == Len(t)
<1>1. st \in Rows /\ Len(st) = n + m
      /\ \A i \in 1..n + m : st[i] = IF i <= n THEN s[i] ELSE t[i - n]
  BY ConcatProperties DEF Rows
<1>2. n \in Nat /\ m \in Nat
      /\ (\A i \in 1..n : s[i] \in Contexts \/ s[i] = NULL)
      /\ (\A i \in 1..m : t[i] \in Contexts \/ t[i] = NULL)
  BY RowFacts
<1>3. PICK p : Gathers(s, n, p) /\ Filled(s) = p[n] /\ Filled(s) \in Queues
  BY GatheredOf
<1>4. PICK q : Gathers(t, m, q) /\ Filled(t) = q[m] /\ Filled(t) \in Queues
  BY GatheredOf
<1> HIDE DEF st, n, m
<1>5. p \in [0..n -> Queues] /\ p[0] = <<>>
      /\ \A k \in 1..n : p[k] = IF s[k] = NULL THEN p[k - 1] ELSE Append(p[k - 1], s[k])
  BY <1>3 DEF Gathers
<1>6. q \in [0..m -> Queues] /\ q[0] = <<>>
      /\ \A k \in 1..m : q[k] = IF t[k] = NULL THEN q[k - 1] ELSE Append(q[k - 1], t[k])
  BY <1>4 DEF Gathers
<1>7. p[n] \in Queues
  BY <1>3
<1>8. \A k \in 0..m : p[n] \o q[k] \in Queues
  <2>1. ASSUME NEW k \in 0..m PROVE p[n] \o q[k] \in Queues
    <3>1. q[k] \in Queues
      BY <1>6
    <3> QED BY <1>7, <3>1, ConcatProperties DEF Queues
  <2> QED BY <2>1
<1>9. p[n] \o q[0] = p[n]
  BY <1>6, <1>7, ConcatEmptySeq DEF Queues
<1> DEFINE g == [k \in 0..n + m |-> IF k <= n THEN p[k] ELSE p[n] \o q[k - n]]
<1>10. g \in [0..n + m -> Queues]
  <2>1. ASSUME NEW k \in 0..n + m
        PROVE  (IF k <= n THEN p[k] ELSE p[n] \o q[k - n]) \in Queues
    <3>1. CASE k <= n
      <4>1. k \in 0..n
        BY <1>2, <3>1
      <4> QED BY <1>5, <3>1, <4>1
    <3>2. CASE ~ (k <= n)
      <4>1. k - n \in 0..m
        BY <1>2, <3>2
      <4> QED BY <1>8, <3>2, <4>1
    <3> QED BY <3>1, <3>2
  <2> QED BY <2>1
<1>11. \A k \in 0..n + m : g[k] = IF k <= n THEN p[k] ELSE p[n] \o q[k - n]
  OBVIOUS
<1> HIDE DEF g
<1>12. \A k \in 0..m : g[n + k] = p[n] \o q[k]
  <2>1. ASSUME NEW k \in 0..m PROVE g[n + k] = p[n] \o q[k]
    <3>1. n + k \in 0..n + m
      BY <1>2
    <3>2. CASE k = 0
      <4>1. n + k = n /\ n <= n
        BY <1>2, <3>2
      <4> QED BY <1>9, <1>11, <3>1, <3>2, <4>1
    <3>3. CASE k # 0
      <4>1. ~ (n + k <= n) /\ (n + k) - n = k
        BY <1>2, <3>3
      <4>2. g[n + k] = p[n] \o q[(n + k) - n]
        BY <1>11, <3>1, <4>1
      <4> QED BY <4>1, <4>2
    <3> QED BY <3>2, <3>3
  <2> QED BY <2>1
<1>13. g[0] = <<>>
  <2>1. 0 \in 0..n + m /\ 0 <= n
    BY <1>2
  <2> QED BY <1>5, <1>11, <2>1
<1>14. ASSUME NEW k \in 1..n + m
       PROVE  g[k] = IF st[k] = NULL THEN g[k - 1] ELSE Append(g[k - 1], st[k])
  <2>1. CASE k <= n
    <3>1. k \in 1..n /\ k - 1 \in 0..n + m /\ k - 1 <= n /\ k \in 0..n + m
      BY <1>2, <2>1
    <3>2. g[k] = p[k] /\ g[k - 1] = p[k - 1]
      BY <1>11, <2>1, <3>1
    <3>3. st[k] = s[k]
      BY <1>1, <2>1
    <3> QED BY <1>5, <3>1, <3>2, <3>3
  <2>2. CASE ~ (k <= n)
    <3> DEFINE j == k - n
    <3>1. j \in 1..m /\ j \in 0..m /\ j - 1 \in 0..m /\ n + j = k /\ n + (j - 1) = k - 1
      BY <1>2, <2>2
    <3>2. st[k] = t[j]
      BY <1>1, <2>2
    <3> HIDE DEF j
    <3>3. g[n + j] = p[n] \o q[j] /\ g[n + (j - 1)] = p[n] \o q[j - 1]
      BY <1>12, <3>1
    <3>4. g[k] = p[n] \o q[j] /\ g[k - 1] = p[n] \o q[j - 1]
      BY <3>1, <3>3
    <3>5. q[j] = IF t[j] = NULL THEN q[j - 1] ELSE Append(q[j - 1], t[j])
      BY <1>6, <3>1
    <3>6. CASE t[j] = NULL
      BY <3>2, <3>4, <3>5, <3>6
    <3>7. CASE t[j] # NULL
      <4>1. t[j] \in Contexts
        BY <1>2, <3>1, <3>7
      <4>2. q[j - 1] \in Queues
        BY <1>6, <3>1
      <4>3. Append(p[n] \o q[j - 1], t[j]) = p[n] \o Append(q[j - 1], t[j])
        BY <1>7, <4>1, <4>2, AppendAfter
      <4> QED BY <3>2, <3>4, <3>5, <3>7, <4>3
    <3> QED BY <3>6, <3>7
  <2> QED BY <2>1, <2>2
<1>15. Gathers(st, Len(st), g)
  BY <1>1, <1>10, <1>13, <1>14 DEF Gathers
<1>16. Filled(st) = g[Len(st)]
  BY <1>1, <1>15, FilledIs
<1>17. g[n + m] = p[n] \o q[m]
  <2>1. m \in 0..m
    BY <1>2
  <2> QED BY <1>12, <2>1
<1>18. Filled(st) = Filled(s) \o Filled(t)
  BY <1>1, <1>3, <1>4, <1>16, <1>17
<1> QED BY <1>1, <1>18 DEF st

\* One slot holds its context, or nothing when it was blanked.
LEMMA FilledOne ==
    ASSUME NEW e \in Entries
    PROVE  <<e>> \in Rows /\ Filled(<<e>>) = IF e = NULL THEN <<>> ELSE <<e>>
<1>1. <<e>> \in Rows /\ Len(<<e>>) = 1 /\ <<e>>[1] = e
  BY DEF Rows
<1> DEFINE s == <<e>>
<1> HIDE DEF s
<1>2. s \in Rows /\ Len(s) = 1 /\ s[1] = e
  BY <1>1 DEF s
<1>3. PICK g : Gathers(s, Len(s), g) /\ Filled(s) = g[Len(s)]
  BY <1>2, GatheredOf
<1>4. g[0] = <<>> /\ \A k \in 1..1 : g[k] = IF s[k] = NULL THEN g[k - 1]
        ELSE Append(g[k - 1], s[k])
  BY <1>2, <1>3 DEF Gathers
<1>5. g[1] = IF e = NULL THEN <<>> ELSE Append(<<>>, e)
  <2>1. g[1] = IF s[1] = NULL THEN g[1 - 1] ELSE Append(g[1 - 1], s[1])
    BY <1>4
  <2>2. 1 - 1 = 0
    OBVIOUS
  <2> QED BY <1>2, <1>4, <2>1, <2>2
<1>6. Append(<<>>, e) = <<e>>
  OBVIOUS
<1>7. Filled(s) = IF e = NULL THEN <<>> ELSE <<e>>
  BY <1>2, <1>3, <1>5, <1>6
<1> QED BY <1>1, <1>7 DEF s

\* An empty row holds nothing.
LEMMA FilledEmpty == <<>> \in Rows /\ Filled(<<>>) = <<>>
<1>1. <<>> \in Rows /\ Len(<<>>) = 0
  BY EmptySeq DEF Rows
<1> DEFINE s == <<>>
<1> HIDE DEF s
<1>2. s \in Rows /\ Len(s) = 0
  BY <1>1 DEF s
<1>3. PICK g : Gathers(s, Len(s), g) /\ Filled(s) = g[Len(s)]
  BY <1>2, GatheredOf
<1>4. g[0] = <<>>
  BY <1>3 DEF Gathers
<1>5. Filled(s) = <<>>
  BY <1>2, <1>3, <1>4
<1> QED BY <1>1, <1>5 DEF s

\* What a row does not hold, it does not yield.
LEMMA FilledWithout ==
    ASSUME NEW s \in Rows, NEW c \in Contexts, \A i \in 1..Len(s) : s[i] # c
    PROVE  \A i \in 1..Len(Filled(s)) : Filled(s)[i] # c
<1>1. Len(s) \in Nat /\ \A i \in 1..Len(s) : s[i] \in Contexts \/ s[i] = NULL
  BY RowFacts
<1>2. PICK g : Gathers(s, Len(s), g) /\ Filled(s) = g[Len(s)]
  BY GatheredOf
<1>3. g \in [0..Len(s) -> Queues] /\ g[0] = <<>>
      /\ \A k \in 1..Len(s) : g[k] = IF s[k] = NULL THEN g[k - 1]
           ELSE Append(g[k - 1], s[k])
  BY <1>2 DEF Gathers
<1> DEFINE S == {k \in 0..Len(s) : \E i \in 1..Len(g[k]) : g[k][i] = c}
<1>4. ASSUME S # {} PROVE FALSE
  <2>1. S \in SUBSET Nat /\ S # {}
    BY <1>1, <1>4
  <2>2. PICK k \in S : \A j \in S : k <= j
    <3> HIDE DEF S
    <3> QED BY <2>1, Least
  <2>3. k \in 0..Len(s) /\ \E i \in 1..Len(g[k]) : g[k][i] = c
    OBVIOUS
  <2>4. PICK i \in 1..Len(g[k]) : g[k][i] = c
    BY <2>3
  <2>5. k # 0
    <3>1. Len(<<>>) = 0
      BY EmptySeq
    <3>2. ASSUME k = 0 PROVE FALSE
      <4>1. i \in 1..0
        BY <1>3, <3>1, <3>2
      <4> QED BY <4>1
    <3> QED BY <3>2
  <2>6. k \in 1..Len(s) /\ k - 1 \in 0..Len(s) /\ ~ (k <= k - 1)
    BY <1>1, <2>3, <2>5
  <2>7. ~ \E j \in 1..Len(g[k - 1]) : g[k - 1][j] = c
    BY <2>2, <2>6
  <2>8. g[k] = IF s[k] = NULL THEN g[k - 1] ELSE Append(g[k - 1], s[k])
    BY <1>3, <2>6
  <2>9. CASE s[k] = NULL
    BY <2>4, <2>7, <2>8, <2>9
  <2>10. CASE s[k] # NULL
    <3> DEFINE a == g[k - 1]
    <3>1. a \in Queues /\ s[k] \in Contexts /\ s[k] # c /\ g[k] = Append(a, s[k])
      BY <1>1, <1>3, <2>6, <2>8, <2>10
    <3> HIDE DEF a
    <3>2. Len(a) \in Nat
      BY <3>1, LenProperties DEF Queues
    <3>3. Len(g[k]) = Len(a) + 1 /\ (\A j \in 1..Len(a) : g[k][j] = a[j])
            /\ g[k][Len(a) + 1] = s[k]
      BY <3>1, AppendProperties DEF Queues
    <3>4. i \in 1..Len(a) \/ i = Len(a) + 1
      BY <3>2, <3>3
    <3>5. ~ \E j \in 1..Len(a) : a[j] = c
      BY <2>7 DEF a
    <3> QED BY <2>4, <3>1, <3>3, <3>4, <3>5
  <2> QED BY <2>9, <2>10
<1>5. Len(s) \in 0..Len(s)
  BY <1>1
<1> QED BY <1>2, <1>4, <1>5

-----------------------------------------------------------------------------
(* The live slots as a row *)

\* How many slots lie from the tail t up to the head h
Span(h, t) == IF h >= t THEN h - t ELSE h + Size - t

\* The slot k places behind the tail t
Behind(t, k) == IF t + k < Size THEN t + k ELSE t + k - Size

\* The entries of the array a from the tail t up to the head h
Row(a, h, t) == [k \in 1..Span(h, t) |-> a[Behind(t, k - 1)]]

\* `entries` is the row of the queue's array and indices.
LEMMA RowIsEntries == entries = Row(apb, head, tail) /\ entries' = Row(apb', head', tail')
  BY DEF entries, Row, Span, Behind, Age, SlotBehind

\* The places behind the tail are different slots, and the head is the last of them.
LEMMA SpanFacts ==
    ASSUME NEW h \in Slots, NEW t \in Slots
    PROVE  /\ Span(h, t) \in Nat /\ Span(h, t) < Size
           /\ \A k \in 0..Span(h, t) : Behind(t, k) \in Slots
           /\ Behind(t, Span(h, t)) = h
           /\ \A k \in 0..Span(h, t), j \in 0..Span(h, t) :
                Behind(t, k) = Behind(t, j) => k = j
<1>1. Size \in Nat /\ Size > 1 /\ h \in Nat /\ h < Size /\ t \in Nat /\ t < Size
  BY SizeAssumption DEF Slots
<1>2. Span(h, t) \in Nat /\ Span(h, t) < Size
  BY <1>1 DEF Span
<1>3. \A k \in 0..Span(h, t) : k \in Nat /\ k < Size
  <2> DEFINE n == Span(h, t)
  <2>1. n \in Nat /\ n < Size
    BY <1>2
  <2> HIDE DEF n
  <2>2. \A k \in 0..n : k \in Nat /\ k < Size
    BY <1>1, <2>1
  <2> QED BY <2>2 DEF n
<1>4. ASSUME NEW k \in 0..Span(h, t) PROVE Behind(t, k) \in Slots
  <2>1. k \in Nat /\ k < Size
    BY <1>1, <1>3
  <2> QED BY <1>1, <2>1 DEF Behind, Slots
<1>5. Behind(t, Span(h, t)) = h
  BY <1>1 DEF Behind, Span
<1>6. ASSUME NEW k \in 0..Span(h, t), NEW j \in 0..Span(h, t), Behind(t, k) = Behind(t, j)
      PROVE  k = j
  <2>1. k \in Nat /\ k < Size /\ j \in Nat /\ j < Size
    BY <1>1, <1>3
  <2> QED BY <1>1, <1>6, <2>1 DEF Behind
<1> QED BY <1>2, <1>4, <1>5, <1>6

\* A function on 1..n is a sequence of length n.
LEMMA FunctionIsSeq ==
    ASSUME NEW S, NEW n \in Nat, NEW f \in [1..n -> S]
    PROVE  f \in Seq(S) /\ Len(f) = n
<1>1. f \in Seq(S)
  BY SeqDef
<1>2. Len(f) \in Nat /\ DOMAIN f = 1..Len(f) /\ DOMAIN f = 1..n
  BY <1>1, LenProperties
<1>3. ASSUME NEW a \in Nat, NEW b \in Nat, 1..a = 1..b PROVE a = b
  <2>1. a \in 1..a <=> a # 0
    OBVIOUS
  <2>2. b \in 1..b <=> b # 0
    OBVIOUS
  <2> QED BY <1>3, <2>1, <2>2
<1> DEFINE len == Len(f)
<1>4. len \in Nat /\ 1..len = 1..n
  BY <1>2
<1> HIDE DEF len
<1>5. len = n
  BY <1>3, <1>4
<1> QED BY <1>1, <1>5 DEF len

\* The live slots of an array are a row.
LEMMA RowIsRow ==
    ASSUME NEW a \in [Slots -> Entries], NEW h \in Slots, NEW t \in Slots
    PROVE  /\ Row(a, h, t) \in Rows
           /\ Len(Row(a, h, t)) = Span(h, t)
           /\ \A k \in 1..Span(h, t) : Row(a, h, t)[k] = a[Behind(t, k - 1)]
<1> DEFINE n == Span(h, t)
           r == Row(a, h, t)
<1>1. n \in Nat /\ \A k \in 0..n : Behind(t, k) \in Slots
  BY SpanFacts
<1>2. ASSUME NEW k \in 1..n PROVE a[Behind(t, k - 1)] \in Entries
  <2>1. k - 1 \in 0..n
    BY <1>1
  <2>2. Behind(t, k - 1) \in Slots
    BY <1>1, <2>1
  <2> QED BY <2>2
<1>3. r \in [1..n -> Entries]
  <2> HIDE DEF n
  <2>1. r = [k \in 1..n |-> a[Behind(t, k - 1)]]
    BY DEF Row, n
  <2> QED BY <1>2, <2>1
<1>4. \A k \in 1..n : r[k] = a[Behind(t, k - 1)]
  <2> HIDE DEF n
  <2>1. r = [k \in 1..n |-> a[Behind(t, k - 1)]]
    BY DEF Row, n
  <2> HIDE DEF r
  <2> QED BY <2>1
<1> HIDE DEF r
<1>5. r \in Rows /\ Len(r) = n
  <2> HIDE DEF n
  <2> QED BY <1>1, <1>3, FunctionIsSeq DEF Rows
<1> QED BY <1>4, <1>5 DEF r

\* Rows with the same entries are equal.
LEMMA SameRow ==
    ASSUME NEW s \in Rows, NEW t \in Rows, Len(s) = Len(t), \A i \in 1..Len(s) : s[i] = t[i]
    PROVE  s = t
  BY SeqEqual DEF Rows

\* An accepted entry is the newest.
LEMMA RowGrows ==
    ASSUME NEW a \in [Slots -> Entries], NEW h \in Slots, NEW t \in Slots,
           NEW c \in Contexts,
           Succ(h) # t
    PROVE  Row([a EXCEPT ![h] = c], Succ(h), t) = Row(a, h, t) \o <<c>>
<1> DEFINE b == [a EXCEPT ![h] = c]
           n == Span(h, t)
           r == Row(a, h, t)
           s == Row(b, Succ(h), t)
<1>1. b \in [Slots -> Entries] /\ b[h] = c /\ \A i \in Slots : i # h => b[i] = a[i]
  BY DEF Entries
<1>2. Succ(h) \in Slots
  BY SuccInSlots
<1>3. n \in Nat /\ (\A k \in 0..n : Behind(t, k) \in Slots) /\ Behind(t, n) = h
      /\ \A k \in 0..n, j \in 0..n : Behind(t, k) = Behind(t, j) => k = j
  BY SpanFacts
<1>4. Span(Succ(h), t) = n + 1
  BY SizeAssumption DEF Span, Succ, Slots
<1> HIDE DEF b
<1>5. r \in Rows /\ Len(r) = n /\ \A k \in 1..n : r[k] = a[Behind(t, k - 1)]
  BY RowIsRow
<1>6. s \in Rows /\ Len(s) = n + 1 /\ \A k \in 1..n + 1 : s[k] = b[Behind(t, k - 1)]
  <2>1. s \in Rows /\ Len(s) = Span(Succ(h), t)
        /\ \A k \in 1..Span(Succ(h), t) : s[k] = b[Behind(t, k - 1)]
    BY <1>1, <1>2, RowIsRow
  <2> HIDE DEF s, n
  <2> QED BY <1>4, <2>1
<1>7. <<c>> \in Rows /\ Len(<<c>>) = 1 /\ <<c>>[1] = c
  BY DEF Rows, Entries
<1> DEFINE o == r \o <<c>>
<1> HIDE DEF r, s, n
<1>8. o \in Rows /\ Len(o) = n + 1 /\ \A i \in 1..n + 1 : o[i] = IF i <= n THEN r[i]
        ELSE <<c>>[i - n]
  <2>1. o \in Rows /\ Len(o) = Len(r) + Len(<<c>>)
        /\ \A i \in 1..Len(r) + Len(<<c>>) : o[i] = IF i <= Len(r) THEN r[i]
             ELSE <<c>>[i - Len(r)]
    BY <1>5, <1>7, ConcatProperties DEF Rows
  <2> HIDE DEF o
  <2> QED BY <1>5, <1>7, <2>1
<1> HIDE DEF o
<1>9. ASSUME NEW k \in 1..n + 1 PROVE s[k] = o[k]
  <2>1. k - 1 \in 0..n
    BY <1>3
  <2>2. CASE k <= n
    <3>1. k \in 1..n /\ k - 1 # n /\ n \in 0..n
      BY <1>3, <2>2
    <3>2. Behind(t, k - 1) # h /\ Behind(t, k - 1) \in Slots
      BY <1>3, <2>1, <3>1
    <3> QED BY <1>1, <1>5, <1>6, <1>8, <2>2, <3>1, <3>2
  <2>3. CASE ~ (k <= n)
    <3>1. k - 1 = n /\ k - n = 1
      BY <1>3, <2>3
    <3>2. s[k] = b[h]
      BY <1>3, <1>6, <3>1
    <3>3. o[k] = <<c>>[k - n]
      BY <1>8, <2>3
    <3> QED BY <1>1, <1>7, <3>1, <3>2, <3>3
  <2> QED BY <2>2, <2>3
<1>10. s = o
  BY <1>6, <1>8, <1>9, SameRow
<1> QED BY <1>10 DEF s, o, r, b

\* A pop takes the oldest entry.
LEMMA RowShrinks ==
    ASSUME NEW a \in [Slots -> Entries], NEW h \in Slots, NEW t \in Slots, h # t
    PROVE  /\ Row(a, h, t) = <<a[t]>> \o Row(a, h, Succ(t))
           /\ Row(a, h, Succ(t)) \in Rows
<1> DEFINE u == Succ(t)
           n == Span(h, u)
           r == Row(a, h, u)
           s == Row(a, h, t)
           one == <<a[t]>>
           o == one \o r
<1>1. u \in Slots
  BY SuccInSlots
<1>2. n \in Nat
  BY <1>1, SpanFacts
<1>3. Span(h, t) = n + 1 /\ Behind(t, 0) = t
  BY SizeAssumption DEF Span, Succ, Slots, Behind
<1>4. ASSUME NEW k \in 1..n PROVE Behind(u, k - 1) = Behind(t, k)
  <2>1. Span(h, t) < Size /\ Size \in Nat /\ t \in Nat /\ t < Size
    BY SizeAssumption, SpanFacts DEF Slots
  <2>2. k \in Nat /\ k < Size /\ k > 0
    BY <1>2, <1>3, <2>1
  <2> HIDE DEF n
  <2> QED BY <2>1, <2>2 DEF Behind, Succ
<1>5. r \in Rows /\ Len(r) = n /\ \A k \in 1..n : r[k] = a[Behind(u, k - 1)]
  BY <1>1, RowIsRow
<1>6. s \in Rows /\ Len(s) = n + 1 /\ \A k \in 1..n + 1 : s[k] = a[Behind(t, k - 1)]
  <2>1. s \in Rows /\ Len(s) = Span(h, t)
        /\ \A k \in 1..Span(h, t) : s[k] = a[Behind(t, k - 1)]
    BY RowIsRow
  <2> HIDE DEF s, n
  <2> QED BY <1>3, <2>1
<1>7. one \in Rows /\ Len(one) = 1 /\ one[1] = a[t]
  <2>1. a[t] \in Entries
    OBVIOUS
  <2> QED BY <2>1 DEF Rows
<1> HIDE DEF r, s, n, one, u
<1>8. o \in Rows /\ Len(o) = n + 1 /\ \A i \in 1..n + 1 : o[i] = IF i <= 1 THEN one[i]
        ELSE r[i - 1]
  <2>1. o \in Rows /\ Len(o) = Len(one) + Len(r)
        /\ \A i \in 1..Len(one) + Len(r) : o[i] = IF i <= Len(one) THEN one[i]
             ELSE r[i - Len(one)]
    BY <1>5, <1>7, ConcatProperties DEF Rows
  <2>2. Len(one) + Len(r) = n + 1
    BY <1>2, <1>5, <1>7
  <2> HIDE DEF o
  <2> QED BY <1>7, <2>1, <2>2
<1> HIDE DEF o
<1>9. ASSUME NEW k \in 1..n + 1 PROVE s[k] = o[k]
  <2>1. CASE k = 1
    <3>1. s[k] = a[Behind(t, 1 - 1)] /\ o[k] = one[1]
      BY <1>6, <1>8, <2>1
    <3>2. 1 - 1 = 0
      OBVIOUS
    <3> QED BY <1>3, <1>7, <3>1, <3>2
  <2>2. CASE k # 1
    <3> DEFINE j == k - 1
    <3>1. j \in 1..n /\ ~ (k <= 1)
      BY <1>2, <2>2
    <3>2. s[k] = a[Behind(t, j)] /\ o[k] = r[j]
      BY <1>6, <1>8, <3>1
    <3> HIDE DEF j
    <3>3. r[j] = a[Behind(u, j - 1)] /\ Behind(u, j - 1) = Behind(t, j)
      BY <1>4, <1>5, <3>1
    <3> QED BY <3>2, <3>3
  <2> QED BY <2>1, <2>2
<1>10. s = o
  BY <1>6, <1>8, <1>9, SameRow
<1> QED BY <1>5, <1>10 DEF s, o, r, one, u

\* A row that differs from s at k only is s around its own entry k.
LEMMA SplitRow ==
    ASSUME NEW s \in Rows, NEW k \in 1..Len(s), NEW z \in Rows, Len(z) = Len(s), 
           \A i \in 1..Len(s) : i # k => z[i] = s[i]
    PROVE  LET u == SubSeq(s, 1, k - 1)
               w == SubSeq(s, k + 1, Len(s))
           IN  /\ u \in Rows /\ Len(u) = k - 1 /\ w \in Rows
               /\ \A i \in 1..k - 1 : u[i] = s[i]
               /\ z = u \o (<<z[k]>> \o w)
<1> DEFINE n == Len(s)
           u == SubSeq(s, 1, k - 1)
           w == SubSeq(s, k + 1, n)
<1>1. n \in Nat /\ k \in Nat /\ k > 0 /\ k <= n /\ \A i \in 1..n : s[i] \in Entries
  BY LenProperties, ElementOfSeq DEF Rows
<1> HIDE DEF n
<1>2. u \in Rows /\ Len(u) = k - 1 /\ \A i \in 1..k - 1 : u[i] = s[i]
  <2>1. \A i \in 1..k - 1 : s[i] \in Entries
    BY <1>1
  <2>2. /\ u \in Rows
        /\ Len(u) = IF 1 <= k - 1 THEN (k - 1) - 1 + 1 ELSE 0
        /\ \A i \in 1..(k - 1) - 1 + 1 : u[i] = s[1 + i - 1]
    <3>1. 1 \in Int /\ k - 1 \in Int
      BY <1>1
    <3> QED BY <2>1, <3>1, SubSeqProperties DEF Rows
  <2> HIDE DEF u
  <2>3. Len(u) = k - 1
    BY <1>1, <2>2
  <2>4. ASSUME NEW i \in 1..k - 1 PROVE u[i] = s[i]
    <3>1. i \in 1..(k - 1) - 1 + 1 /\ 1 + i - 1 = i
      BY <1>1
    <3>2. u[i] = s[1 + i - 1]
      BY <2>2, <3>1
    <3> QED BY <3>1, <3>2
  <2> QED BY <2>2, <2>3, <2>4
<1>3. w \in Rows /\ Len(w) = n - k /\ \A i \in 1..n - k : w[i] = s[k + i]
  <2>1. \A i \in k + 1..n : s[i] \in Entries
    BY <1>1
  <2>2. /\ w \in Rows
        /\ Len(w) = IF k + 1 <= n THEN n - (k + 1) + 1 ELSE 0
        /\ \A i \in 1..n - (k + 1) + 1 : w[i] = s[k + 1 + i - 1]
    <3>1. k + 1 \in Int /\ n \in Int
      BY <1>1
    <3> QED BY <2>1, <3>1, SubSeqProperties DEF Rows
  <2> HIDE DEF w
  <2>3. Len(w) = n - k
    BY <1>1, <2>2
  <2>4. ASSUME NEW i \in 1..n - k PROVE w[i] = s[k + i]
    <3>1. i \in 1..n - (k + 1) + 1 /\ k + 1 + i - 1 = k + i
      BY <1>1
    <3>2. w[i] = s[k + 1 + i - 1]
      BY <2>2, <3>1
    <3> QED BY <3>1, <3>2
  <2> QED BY <2>2, <2>3, <2>4
<1> DEFINE one == <<z[k]>>
           v == one \o w
           o == u \o v
<1>4. one \in Rows /\ Len(one) = 1 /\ one[1] = z[k]
  <2>1. k \in 1..Len(z)
    BY <1>1
  <2>2. z[k] \in Entries
    BY <2>1, ElementOfSeq DEF Rows
  <2> QED BY <2>2 DEF Rows
<1> HIDE DEF u, w, one
<1>5. v \in Rows /\ Len(v) = n - k + 1 /\ \A i \in 1..n - k + 1 :
        v[i] = IF i <= 1 THEN one[i] ELSE w[i - 1]
  <2>1. v \in Rows /\ Len(v) = Len(one) + Len(w)
        /\ \A i \in 1..Len(one) + Len(w) : v[i] = IF i <= Len(one) THEN one[i]
             ELSE w[i - Len(one)]
    <3>1. one \in Seq(Entries) /\ w \in Seq(Entries)
      BY <1>3, <1>4 DEF Rows
    <3> QED BY <3>1, ConcatProperties DEF Rows
  <2>2. Len(one) + Len(w) = n - k + 1
    BY <1>1, <1>3, <1>4
  <2> HIDE DEF v
  <2> QED BY <1>4, <2>1, <2>2
<1> HIDE DEF v
<1>6. o \in Rows /\ Len(o) = n /\ \A i \in 1..n : o[i] = IF i <= k - 1 THEN u[i]
        ELSE v[i - (k - 1)]
  <2>1. o \in Rows /\ Len(o) = Len(u) + Len(v)
        /\ \A i \in 1..Len(u) + Len(v) : o[i] = IF i <= Len(u) THEN u[i] ELSE v[i - Len(u)]
    <3>1. u \in Seq(Entries) /\ v \in Seq(Entries)
      BY <1>2, <1>5 DEF Rows
    <3> QED BY <3>1, ConcatProperties DEF Rows
  <2>2. Len(u) + Len(v) = n
    BY <1>1, <1>2, <1>5
  <2> HIDE DEF o
  <2> QED BY <1>2, <2>1, <2>2
<1> HIDE DEF o
<1>7. ASSUME NEW i \in 1..n PROVE z[i] = o[i]
  <2>1. CASE i <= k - 1
    <3>1. i \in 1..k - 1 /\ i # k
      BY <1>1, <2>1
    <3>2. z[i] = s[i]
      BY <3>1 DEF n
    <3> QED BY <1>2, <1>6, <2>1, <3>1, <3>2
  <2>2. CASE i = k
    <3>1. ~ (i <= k - 1) /\ i - (k - 1) = 1 /\ 1 \in 1..n - k + 1
      BY <1>1, <2>2
    <3>2. o[i] = v[1]
      BY <1>6, <3>1
    <3>3. v[1] = one[1]
      BY <1>5, <3>1
    <3> QED BY <1>4, <2>2, <3>2, <3>3
  <2>3. CASE i > k
    <3> DEFINE j == i - k
    <3>1. ~ (i <= k - 1) /\ i - (k - 1) = j + 1 /\ j + 1 \in 1..n - k + 1 /\ ~ (j + 1 <= 1)
          /\ (j + 1) - 1 = j /\ j \in 1..n - k /\ k + j = i /\ i # k
      BY <1>1, <2>3
    <3> HIDE DEF j
    <3>2. o[i] = v[j + 1]
      BY <1>6, <3>1
    <3>3. v[j + 1] = w[(j + 1) - 1]
      BY <1>5, <3>1
    <3>4. w[j] = s[k + j]
      BY <1>3, <3>1
    <3>5. z[i] = s[i]
      BY <3>1 DEF n
    <3> QED BY <3>1, <3>2, <3>3, <3>4, <3>5
  <2>4. i <= k - 1 \/ i = k \/ i > k
    BY <1>1
  <2> QED BY <2>1, <2>2, <2>3, <2>4
<1>8. z = o
  <2>1. Len(z) = n
    BY DEF n
  <2> QED BY <1>6, <1>7, <2>1, SameRow
<1> QED BY <1>2, <1>3, <1>8 DEF n, u, w, o, v, one

-----------------------------------------------------------------------------
(* The operations on what is pending *)

\* The parts of a concatenation are found in it.
LEMMA Pieces ==
    ASSUME NEW a \in Queues, NEW b \in Queues
    PROVE  /\ SubSeq(a \o b, 1, Len(a)) = a
           /\ SubSeq(a \o b, Len(a) + 1, Len(a \o b)) = b
<1> DEFINE n == Len(a)
           m == Len(b)
           ab == a \o b
<1>1. n \in Nat /\ m \in Nat
  BY LenProperties DEF Queues
<1>2. (\A i \in 1..n : a[i] \in Contexts) /\ (\A i \in 1..m : b[i] \in Contexts)
  BY ElementOfSeq DEF Queues
<1>3. ab \in Queues /\ Len(ab) = n + m
      /\ \A i \in 1..n + m : ab[i] = IF i <= n THEN a[i] ELSE b[i - n]
  BY ConcatProperties DEF Queues
<1>4. Len(a) = n /\ Len(b) = m
  OBVIOUS
<1> HIDE DEF ab, n, m
<1>5. \A i \in 1..n + m : ab[i] \in Contexts
  BY <1>3, ElementOfSeq DEF Queues
<1> DEFINE u == SubSeq(ab, 1, n)
           w == SubSeq(ab, n + 1, n + m)
<1>6. u = a
  <2>1. \A i \in 1..n : ab[i] \in Contexts
    BY <1>1, <1>5
  <2>2. u \in Queues /\ Len(u) = (IF 1 <= n THEN n - 1 + 1 ELSE 0)
        /\ \A i \in 1..(n - 1 + 1) : u[i] = ab[1 + i - 1]
    <3>1. 1 \in Int /\ n \in Int
      BY <1>1
    <3> QED BY <2>1, <3>1, SubSeqProperties DEF Queues
  <2> HIDE DEF u
  <2>3. Len(u) = n
    BY <1>1, <2>2
  <2>4. ASSUME NEW i \in 1..n PROVE u[i] = a[i]
    <3>1. i \in 1..(n - 1 + 1) /\ 1 + i - 1 = i /\ i \in 1..n + m /\ i <= n
      BY <1>1
    <3>2. u[i] = ab[1 + i - 1]
      BY <2>2, <3>1
    <3>3. ab[i] = a[i]
      BY <1>3, <3>1
    <3> QED BY <3>1, <3>2, <3>3
  <2> QED BY <1>4, <2>2, <2>3, <2>4, SeqEqual DEF Queues
<1>7. w = b
  <2>1. \A i \in n + 1..n + m : ab[i] \in Contexts
    BY <1>1, <1>5
  <2>2. w \in Queues /\ Len(w) = (IF n + 1 <= n + m THEN (n + m) - (n + 1) + 1 ELSE 0)
        /\ \A i \in 1..((n + m) - (n + 1) + 1) : w[i] = ab[n + 1 + i - 1]
    <3>1. n + 1 \in Int /\ n + m \in Int
      BY <1>1
    <3> QED BY <2>1, <3>1, SubSeqProperties DEF Queues
  <2> HIDE DEF w
  <2>3. Len(w) = m
    BY <1>1, <2>2
  <2>4. ASSUME NEW i \in 1..m PROVE w[i] = b[i]
    <3>1. i \in 1..((n + m) - (n + 1) + 1) /\ n + 1 + i - 1 = n + i /\ n + i \in 1..n + m
          /\ ~ (n + i <= n) /\ (n + i) - n = i
      BY <1>1
    <3>2. w[i] = ab[n + 1 + i - 1]
      BY <2>2, <3>1
    <3>3. ab[n + i] = b[(n + i) - n]
      BY <1>3, <3>1
    <3> QED BY <3>1, <3>2, <3>3
  <2> QED BY <1>4, <2>2, <2>3, <2>4, SeqEqual DEF Queues
<1>8. Len(ab) = n + m
  BY <1>3
<1> QED BY <1>6, <1>7, <1>8 DEF ab, n, u, w

\* c stands in p after a, and p without it is a and b.
Cuts(p, a, c, b) ==
    \E i \in DOMAIN p :
        /\ i - 1 = Len(a) /\ p[i] = c /\ \A j \in 1..(i - 1) : p[j] = a[j]
        /\ SubSeq(p, 1, i - 1) \o SubSeq(p, i + 1, Len(p)) = a \o b

\* The element between two parts of a queue can be removed.
LEMMA Cut ==
    ASSUME NEW a \in Queues, NEW c \in Contexts, NEW b \in Queues,
           NEW p, p = a \o (<<c>> \o b)
    PROVE  Cuts(p, a, c, b)
<1> DEFINE i == Len(a) + 1
           n == Len(a)
           m == Len(b)
           one == <<c>>
           cb == one \o b
           ac == a \o one
<1>1. n \in Nat /\ m \in Nat
  BY LenProperties DEF Queues
<1>2. one \in Queues /\ Len(one) = 1 /\ one[1] = c
  BY DEF Queues
<1> HIDE DEF one
<1>3. cb \in Queues /\ Len(cb) = 1 + m
      /\ cb[1] = c
  <2>1. cb \in Queues /\ Len(cb) = Len(one) + Len(b)
        /\ \A k \in 1..Len(one) + Len(b) : cb[k] = IF k <= Len(one) THEN one[k]
             ELSE b[k - Len(one)]
    <3>1. one \in Seq(Contexts) /\ b \in Seq(Contexts)
      BY <1>2 DEF Queues
    <3> QED BY <3>1, ConcatProperties DEF Queues
  <2>2. 1 \in 1..Len(one) + Len(b) /\ 1 <= Len(one)
    BY <1>1, <1>2
  <2> HIDE DEF cb
  <2> QED BY <1>2, <2>1, <2>2
<1>4. ac \in Queues /\ Len(ac) = n + 1
  <2>1. one \in Seq(Contexts) /\ a \in Seq(Contexts)
    BY <1>2 DEF Queues
  <2>2. ac \in Seq(Contexts) /\ Len(ac) = Len(a) + Len(one)
    BY <2>1, ConcatProperties
  <2> HIDE DEF ac
  <2> QED BY <1>2, <2>2 DEF Queues
<1>5. p = ac \o b
  BY <1>2, ConcatAssociative DEF Queues, one
<1>6. p = a \o cb
  BY DEF one
<1> HIDE DEF cb, ac
<1>7. p \in Queues /\ Len(p) = n + (1 + m)
      /\ \A k \in 1..n + (1 + m) : p[k] = IF k <= n THEN a[k] ELSE cb[k - n]
  <2>1. p \in Queues /\ Len(p) = Len(a) + Len(cb)
        /\ \A k \in 1..Len(a) + Len(cb) : p[k] = IF k <= Len(a) THEN a[k]
             ELSE cb[k - Len(a)]
    <3>1. a \in Seq(Contexts) /\ cb \in Seq(Contexts)
      BY <1>3 DEF Queues
    <3> QED BY <1>6, <3>1, ConcatProperties DEF Queues
  <2> QED BY <1>3, <2>1
<1>8. SubSeq(p, 1, Len(a)) = a
  BY <1>3, <1>6, Pieces
<1>9. SubSeq(p, Len(ac) + 1, Len(p)) = b
  BY <1>4, <1>5, Pieces
<1>10. i - 1 = n /\ i + 1 = Len(ac) + 1 /\ i \in 1..n + (1 + m) /\ ~ (i <= n) /\ i - n = 1
  BY <1>1, <1>4
<1> HIDE DEF i
<1>11. DOMAIN p = 1..n + (1 + m)
  BY <1>7, LenProperties DEF Queues
<1>12. p[i] = c
  BY <1>3, <1>7, <1>10
<1>13. ASSUME NEW j \in 1..(i - 1) PROVE p[j] = a[j]
  <2>1. j \in 1..n + (1 + m) /\ j <= n
    BY <1>1, <1>10
  <2> QED BY <1>7, <2>1
<1>14. SubSeq(p, 1, i - 1) = a
  BY <1>8, <1>10
<1>15. SubSeq(p, i + 1, Len(p)) = b
  BY <1>9, <1>10
<1>16. i \in DOMAIN p /\ i - 1 = Len(a)
  BY <1>10, <1>11
<1>17. SubSeq(p, 1, i - 1) \o SubSeq(p, i + 1, Len(p)) = a \o b
  BY <1>14, <1>15
<1> QED BY <1>12, <1>13, <1>16, <1>17 DEF Cuts

\* The first element of a queue can be taken.
LEMMA Behead ==
    ASSUME NEW c \in Contexts, NEW b \in Queues, NEW p, p = <<c>> \o b
    PROVE  p # <<>> /\ Head(p) = c /\ Tail(p) = b
<1>1. <<c>> \in Queues /\ Len(<<c>>) = 1 /\ <<c>>[1] = c
  BY DEF Queues
<1> DEFINE one == <<c>>
           m == Len(b)
<1> HIDE DEF one
<1>2. one \in Queues /\ Len(one) = 1 /\ one[1] = c /\ p = one \o b
  BY <1>1 DEF one
<1>3. m \in Nat
  BY LenProperties DEF Queues
<1>4. p \in Queues /\ Len(p) = 1 + m /\ \A k \in 1..1 + m : p[k] = IF k <= 1 THEN one[k]
        ELSE b[k - 1]
  <2>1. p \in Queues /\ Len(p) = Len(one) + Len(b)
        /\ \A k \in 1..Len(one) + Len(b) : p[k] = IF k <= Len(one) THEN one[k]
             ELSE b[k - Len(one)]
    <3>1. one \in Seq(Contexts) /\ b \in Seq(Contexts)
      BY <1>2 DEF Queues
    <3> QED BY <1>2, <3>1, ConcatProperties DEF Queues
  <2> QED BY <1>2, <2>1
<1>5. p # <<>>
  BY <1>3, <1>4, EmptySeq
<1>6. p[1] = c
  <2>1. 1 \in 1..1 + m /\ 1 <= 1
    BY <1>3
  <2> QED BY <1>2, <1>4, <2>1
<1> DEFINE t == Tail(p)
<1>7. t \in Queues /\ Len(t) = Len(p) - 1 /\ \A i \in 1..Len(t) : t[i] = p[i + 1]
  BY <1>4, <1>5, HeadTailProperties DEF Queues
<1>8. Head(p) = p[1]
  OBVIOUS
<1> HIDE DEF t, m
<1>9. Len(t) = m
  BY <1>3, <1>4, <1>7
<1>10. ASSUME NEW i \in 1..m PROVE t[i] = b[i]
  <2>1. i + 1 \in 1..1 + m /\ ~ (i + 1 <= 1) /\ (i + 1) - 1 = i
    BY <1>3
  <2>2. t[i] = p[i + 1]
    BY <1>7, <1>9
  <2>3. p[i + 1] = b[(i + 1) - 1]
    BY <1>4, <2>1
  <2> QED BY <2>1, <2>2, <2>3
<1>11. t = b
  <2>1. Len(b) = m
    BY DEF m
  <2> QED BY <1>7, <1>9, <1>10, <2>1, SeqEqual DEF Queues
<1> QED BY <1>5, <1>6, <1>8, <1>11 DEF t

\* The refinement mapping is what the live slots hold.
LEMMA PendingIs == pendingContexts = Filled(Row(apb, head, tail))
                   /\ pendingContexts' = Filled(Row(apb', head', tail'))
  BY RowIsEntries DEF pendingContexts

\* pbpal_ntf_callback_enqueue_for_processing puts the context last, or refuses it.
LEMMA EnqueueIsAccept ==
    ASSUME TypeOK, NEW pb \in Contexts, enqueue_for_processing(pb)
    PROVE  pendingContexts' = Append(pendingContexts, pb)
             \/ pendingContexts' = pendingContexts
<1>1. apb \in [Slots -> Entries] /\ head \in Slots /\ tail \in Slots
  BY DEF TypeOK
<1> DEFINE r == Row(apb, head, tail)
<1>2. r \in Rows
  BY <1>1, RowIsRow
<1>3. CASE Succ(head) # tail
  <2>1. apb' = [apb EXCEPT ![head] = pb] /\ head' = Succ(head) /\ tail' = tail
    BY <1>3 DEF enqueue_for_processing
  <2>2. Row(apb', head', tail') = r \o <<pb>>
    BY <1>1, <1>3, <2>1, RowGrows
  <2>3. <<pb>> \in Rows /\ Filled(<<pb>>) = <<pb>>
    BY FilledOne, NullAssumption DEF Entries
  <2>4. Filled(r) \in Queues
    BY <1>2, GatheredOf
  <2> HIDE DEF r
  <2>5. Filled(r \o <<pb>>) = Filled(r) \o <<pb>>
    <3>1. Filled(r \o <<pb>>) = Filled(r) \o Filled(<<pb>>)
      BY <1>2, <2>3, FilledConcat
    <3> QED BY <2>3, <3>1
  <2>6. Append(Filled(r), pb) = Filled(r) \o <<pb>>
    BY <2>4, AppendIsConcat DEF Queues
  <2>7. pendingContexts = Filled(r) /\ pendingContexts' = Filled(r \o <<pb>>)
    BY <2>2, PendingIs DEF r
  <2> QED BY <2>5, <2>6, <2>7
<1>4. CASE Succ(head) = tail
  <2>1. apb' = apb /\ head' = head /\ tail' = tail
    BY <1>4 DEF enqueue_for_processing
  <2> QED BY <2>1, PendingIs
<1> QED BY <1>3, <1>4

\* A turn of pbpal_ntf_callback_process_queue takes the first context, unless it met
\* a blanked slot.
LEMMA PopIsTake ==
    ASSUME TypeOK, Pop
    PROVE  IF apb[tail] = NULL
           THEN pendingContexts' = pendingContexts
           ELSE /\ pendingContexts # <<>>
                /\ Head(pendingContexts) = apb[tail]
                /\ pendingContexts' = Tail(pendingContexts)
<1>1. apb \in [Slots -> Entries] /\ head \in Slots /\ tail \in Slots
  BY DEF TypeOK
<1>2. apb' = apb /\ head' = head /\ tail' = Succ(tail) /\ head # tail
  BY DEF Pop
<1> DEFINE r == Row(apb, head, Succ(tail))
           e == apb[tail]
<1>3. Row(apb, head, tail) = <<e>> \o r /\ r \in Rows
  BY <1>1, <1>2, RowShrinks
<1>4. e \in Entries
  BY <1>1
<1>5. pendingContexts = Filled(<<e>> \o r) /\ pendingContexts' = Filled(r)
  BY <1>2, <1>3, PendingIs
<1> HIDE DEF r, e
<1>6. <<e>> \in Rows /\ Filled(<<e>>) = IF e = NULL THEN <<>> ELSE <<e>>
  BY <1>4, FilledOne
<1>7. Filled(<<e>> \o r) = Filled(<<e>>) \o Filled(r)
  BY <1>3, <1>6, FilledConcat
<1>8. Filled(r) \in Queues
  BY <1>3, GatheredOf
<1>9. CASE e = NULL
  <2>1. <<>> \o Filled(r) = Filled(r)
    BY <1>8, ConcatEmptySeq DEF Queues
  <2>2. pendingContexts' = pendingContexts
    BY <1>5, <1>6, <1>7, <1>9, <2>1
  <2> QED BY <1>9, <2>2 DEF e
<1>10. CASE e # NULL
  <2>1. e \in Contexts
    BY <1>4, <1>10 DEF Entries
  <2>2. pendingContexts = <<e>> \o Filled(r)
    BY <1>5, <1>6, <1>7, <1>10
  <2>3. pendingContexts # <<>> /\ Head(pendingContexts) = e
          /\ Tail(pendingContexts) = Filled(r)
    BY <1>8, <2>1, <2>2, Behead
  <2> QED BY <1>5, <1>10, <2>3 DEF e
<1> QED BY <1>9, <1>10

\* pbpal_ntf_callback_remove_from_queue withdraws the oldest entry of the context.
LEMMA RemovalIsWithdrawal ==
    ASSUME TypeOK, NEW pb \in Contexts, RemoveFromQueue(pb)
    PROVE  \E i \in DOMAIN pendingContexts :
              /\ pendingContexts[i] = pb
              /\ \A j \in 1..(i - 1) : pendingContexts[j] # pb
              /\ pendingContexts' = SubSeq(pendingContexts, 1, i - 1)
                                    \o SubSeq(pendingContexts, i + 1, Len(pendingContexts))
<1>1. apb \in [Slots -> Entries] /\ head \in Slots /\ tail \in Slots
  BY DEF TypeOK
<1>2. PICK at \in Live : /\ apb[at] = pb
                         /\ \A j \in Live : apb[j] = pb => Age(at) <= Age(j)
                         /\ apb' = [apb EXCEPT ![at] = NULL]
  BY DEF RemoveFromQueue
<1>3. head' = head /\ tail' = tail
  BY DEF RemoveFromQueue
<1> DEFINE n == Span(head, tail)
           r == Row(apb, head, tail)
           z == Row(apb', head, tail)
           k == Age(at) + 1
<1>4. n \in Nat /\ n < Size
  BY <1>1, SpanFacts
<1>5. \A i \in 0..n : Behind(tail, i) \in Slots
  BY <1>1, SpanFacts
<1>6. \A i \in 0..n, j \in 0..n : Behind(tail, i) = Behind(tail, j) => i = j
  BY <1>1, SpanFacts
<1>7. k \in 1..n /\ Behind(tail, k - 1) = at /\ at \in Slots
  <2>1. Size \in Nat /\ head \in Nat /\ head < Size /\ tail \in Nat /\ tail < Size
          /\ at \in Nat /\ at < Size
    BY <1>1, SizeAssumption DEF Slots, Live
  <2>2. IF tail <= head THEN tail <= at /\ at < head ELSE tail <= at \/ at < head
    BY <1>2 DEF Live
  <2>3. Age(at) \in Nat /\ Age(at) < n /\ Behind(tail, Age(at)) = at
    BY <2>1, <2>2 DEF Age, Behind, Span
  <2>4. (Age(at) + 1) - 1 = Age(at)
    BY <2>3
  <2> HIDE DEF n
  <2>5. k \in 1..n
    BY <1>4, <2>3
  <2> QED BY <2>3, <2>4, <2>5 DEF Live
<1>8. ASSUME NEW j \in 1..n
      PROVE  Behind(tail, j - 1) \in Live /\ Age(Behind(tail, j - 1)) = j - 1
  <2>1. Size \in Nat /\ head \in Nat /\ head < Size /\ tail \in Nat /\ tail < Size
    BY <1>1, SizeAssumption DEF Slots
  <2> DEFINE d == j - 1
  <2>2. d \in Nat /\ d < n
    <3> HIDE DEF n
    <3> QED BY <1>4
  <2> HIDE DEF d
  <2>3. Behind(tail, d) \in Slots
    <3>1. d \in 0..n
      <4> HIDE DEF n
      <4> QED BY <1>4, <2>2
    <3> QED BY <1>5, <3>1
  <2>4. Behind(tail, d) \in Live /\ Age(Behind(tail, d)) = d
    BY <2>1, <2>2, <2>3 DEF Behind, Live, Age, Span
  <2> QED BY <2>4 DEF d
<1>9. r \in Rows /\ Len(r) = n /\ \A j \in 1..n : r[j] = apb[Behind(tail, j - 1)]
  BY <1>1, RowIsRow
<1>10. apb' \in [Slots -> Entries] /\ apb'[at] = NULL /\ \A j \in Slots :
         j # at => apb'[j] = apb[j]
  BY <1>1, <1>2, <1>7 DEF Entries
<1>11. z \in Rows /\ Len(z) = n /\ \A j \in 1..n : z[j] = apb'[Behind(tail, j - 1)]
  BY <1>1, <1>10, RowIsRow
<1> HIDE DEF n, r, z, k
<1>12. r[k] = pb /\ z[k] = NULL
  BY <1>2, <1>7, <1>9, <1>10, <1>11
<1>13. ASSUME NEW j \in 1..n, j # k PROVE z[j] = r[j]
  <2>1. j - 1 \in 0..n /\ k - 1 \in 0..n /\ j - 1 # k - 1
    BY <1>4, <1>7, <1>13
  <2>2. Behind(tail, j - 1) # at /\ Behind(tail, j - 1) \in Slots
    BY <1>5, <1>6, <1>7, <2>1
  <2> QED BY <1>9, <1>10, <1>11, <2>2
<1>14. ASSUME NEW j \in 1..k - 1 PROVE r[j] # pb
  <2>1. j \in 1..n /\ j < k /\ k \in Nat
    BY <1>4, <1>7
  <2>2. Behind(tail, j - 1) \in Live /\ Age(Behind(tail, j - 1)) = j - 1
    BY <1>8, <2>1
  <2>3. Age(at) = k - 1
    <3>1. Age(at) \in Int
      BY <1>7, SizeAssumption, <1>1 DEF Age, Slots
    <3> QED BY <3>1 DEF k
  <2>4. ~ (Age(at) <= j - 1)
    BY <2>1, <2>3
  <2> QED BY <1>2, <1>9, <2>1, <2>2, <2>4
<1> DEFINE u == SubSeq(r, 1, k - 1)
           w == SubSeq(r, k + 1, Len(r))
<1>15. /\ u \in Rows /\ Len(u) = k - 1 /\ w \in Rows
       /\ \A i \in 1..k - 1 : u[i] = r[i]
       /\ r = u \o (<<r[k]>> \o w)
  BY <1>7, <1>9, SplitRow
<1>16. z = u \o (<<z[k]>> \o w)
  BY <1>7, <1>9, <1>11, <1>13, SplitRow
<1> HIDE DEF u, w
<1>17. /\ Filled(r) = Filled(u) \o (<<pb>> \o Filled(w))
       /\ Filled(z) = Filled(u) \o Filled(w)
  <2>1. <<pb>> \in Rows /\ Filled(<<pb>>) = <<pb>>
    BY FilledOne, NullAssumption DEF Entries
  <2>2. <<NULL>> \in Rows /\ Filled(<<NULL>>) = <<>>
    BY FilledOne DEF Entries
  <2>3. <<pb>> \o w \in Rows /\ Filled(<<pb>> \o w) = Filled(<<pb>>) \o Filled(w)
    BY <1>15, <2>1, FilledConcat
  <2>4. <<NULL>> \o w \in Rows /\ Filled(<<NULL>> \o w) = Filled(<<NULL>>) \o Filled(w)
    BY <1>15, <2>2, FilledConcat
  <2>5. Filled(w) \in Queues
    BY <1>15, GatheredOf
  <2>6. <<>> \o Filled(w) = Filled(w)
    BY <2>5, ConcatEmptySeq DEF Queues
  <2>7. Filled(u \o (<<pb>> \o w)) = Filled(u) \o Filled(<<pb>> \o w)
    BY <1>15, <2>3, FilledConcat
  <2>8. Filled(u \o (<<NULL>> \o w)) = Filled(u) \o Filled(<<NULL>> \o w)
    BY <1>15, <2>4, FilledConcat
  <2>9. Filled(r) = Filled(u) \o (<<pb>> \o Filled(w))
    BY <1>12, <1>15, <2>1, <2>3, <2>7
  <2>10. Filled(z) = Filled(u) \o Filled(w)
    BY <1>12, <1>16, <2>2, <2>4, <2>6, <2>8
  <2> QED BY <2>9, <2>10
<1>18. Filled(u) \in Queues /\ Filled(w) \in Queues
  BY <1>15, GatheredOf
<1>19. \A j \in 1..Len(Filled(u)) : Filled(u)[j] # pb
  <2>1. \A j \in 1..Len(u) : u[j] # pb
    BY <1>14, <1>15
  <2> QED BY <1>15, <2>1, FilledWithout
<1>20. pendingContexts = Filled(r) /\ pendingContexts' = Filled(z)
  BY <1>3, PendingIs DEF r, z
<1> DEFINE a == Filled(u)
           b == Filled(w)
<1>21. a \in Queues /\ b \in Queues /\ pendingContexts = a \o (<<pb>> \o b)
  BY <1>17, <1>18, <1>20
<1>22. pendingContexts' = a \o b /\ \A j \in 1..Len(a) : a[j] # pb
  BY <1>17, <1>19, <1>20
<1> HIDE DEF a, b
<1> DEFINE p == pendingContexts
<1>23. p = a \o (<<pb>> \o b)
  BY <1>21
<1> HIDE DEF p
<1>24. PICK i \in DOMAIN p :
           /\ i - 1 = Len(a) /\ p[i] = pb /\ \A j \in 1..(i - 1) : p[j] = a[j]
           /\ SubSeq(p, 1, i - 1) \o SubSeq(p, i + 1, Len(p)) = a \o b
  <2>1. Cuts(p, a, pb, b)
    BY <1>21, <1>23, Cut
  <2> QED BY <2>1 DEF Cuts
<1>25. \A j \in 1..(i - 1) : p[j] # pb
  BY <1>22, <1>24
<1>26. pendingContexts' = SubSeq(p, 1, i - 1) \o SubSeq(p, i + 1, Len(p))
  BY <1>22, <1>24
<1> QED BY <1>24, <1>25, <1>26 DEF p

\* The circular buffer implements a queue of contexts: whatever its size, however often
\* it wraps and wherever it was blanked, contexts are handed to the watcher in the
\* order they were accepted (core/pbpal_ntf_callback_queue.c).
THEOREM ImplementsFifo == Spec => IsFifo
<1>1. Init => Fifo!Init
  <2> SUFFICES ASSUME Init PROVE Fifo!Init
    OBVIOUS
  <2>1. head = 0 /\ tail = 0 /\ processing = NULL
    BY DEF Init
  <2>2. Span(head, tail) = 0
    BY <2>1 DEF Span
  <2>3. apb \in [Slots -> Entries] /\ 0 \in Slots
    BY SizeAssumption DEF Init, Slots, Entries
  <2>4. Row(apb, head, tail) \in Rows /\ Len(Row(apb, head, tail)) = 0
    BY <2>1, <2>2, <2>3, RowIsRow
  <2>5. Row(apb, head, tail) = <<>>
    BY <2>4, EmptySeq DEF Rows
  <2>6. pendingContexts = <<>>
    BY <2>5, PendingIs, FilledEmpty
  <2> QED BY <2>1, <2>6 DEF Fifo!Init
<1>2. TypeOK /\ [Next]_vars => [Fifo!Next]_(Fifo!fifoVars)
  <2> SUFFICES ASSUME TypeOK, [Next]_vars PROVE [Fifo!Next]_(Fifo!fifoVars)
    OBVIOUS
  <2>1. ASSUME UNCHANGED <<pendingContexts, processing>> PROVE UNCHANGED Fifo!fifoVars
    BY <2>1 DEF Fifo!fifoVars
  <2>2. ASSUME NEW pb \in Contexts, enqueue_for_processing(pb), processing' = processing
        PROVE  Fifo!Accept(pb) \/ UNCHANGED <<pendingContexts, processing>>
    BY <2>2, EnqueueIsAccept DEF Fifo!Accept
  <2>3. ASSUME UNCHANGED <<apb, head, tail>>, processing' = processing
        PROVE  UNCHANGED <<pendingContexts, processing>>
    BY <2>3, PendingIs
  <2>4. ASSUME NEW t \in Threads, NEW pb \in Contexts, Enqueue(t, pb)
        PROVE  Fifo!Accept(pb) \/ UNCHANGED <<pendingContexts, processing>>
    BY <2>2, <2>4 DEF Enqueue
  <2>5. ASSUME NEW t \in Threads, NEW pb \in Contexts, RequeueSearch(t, pb)
        PROVE  UNCHANGED <<pendingContexts, processing>>
    BY <2>3, <2>5 DEF RequeueSearch
  <2>6. ASSUME NEW t \in Threads, RequeueEnqueue(t)
        PROVE  (\E c \in Contexts : Fifo!Accept(c)) \/ UNCHANGED <<pendingContexts,
                 processing>>
    <3>1. requeuing[t] \in Contexts
      BY <2>6 DEF RequeueEnqueue, TypeOK, Entries
    <3>2. enqueue_for_processing(requeuing[t]) /\ processing' = processing
      BY <2>6 DEF RequeueEnqueue
    <3> QED BY <2>2, <3>1, <3>2
  <2>7. ASSUME NEW pb \in Contexts, RemoveFromQueue(pb) PROVE Fifo!Withdraw(pb)
    <3>1. processing' = processing
      BY <2>7 DEF RemoveFromQueue
    <3> QED BY <2>7, <3>1, RemovalIsWithdrawal DEF Fifo!Withdraw, Fifo!RemoveAt
  <2>8. ASSUME Pop PROVE Fifo!Take \/ UNCHANGED <<pendingContexts, processing>>
    <3>1. processing = NULL /\ processing' = apb[tail]
      BY <2>8 DEF Pop
    <3>2. CASE apb[tail] = NULL
      BY <2>8, <3>1, <3>2, PopIsTake
    <3>3. CASE apb[tail] # NULL
      BY <2>8, <3>1, <3>3, PopIsTake DEF Fifo!Take
    <3> QED BY <3>2, <3>3
  <2>9. ASSUME Processed PROVE Fifo!Finish
    <3>1. UNCHANGED <<apb, head, tail>>
      BY <2>9 DEF Processed
    <3>2. pendingContexts' = pendingContexts
      BY <3>1, PendingIs
    <3> QED BY <2>9, <3>2 DEF Processed, Fifo!Finish
  <2>10. CASE UNCHANGED vars
    <3>1. UNCHANGED <<apb, head, tail>> /\ processing' = processing
      BY <2>10 DEF vars
    <3> QED BY <2>1, <2>3, <3>1
  <2> QED BY <2>1, <2>4, <2>5, <2>6, <2>7, <2>8, <2>9, <2>10 DEF Next, Fifo!Next
<1> QED BY <1>1, <1>2, TypeCorrect, PTL DEF Spec, IsFifo, Fifo!Spec
=============================================================================
