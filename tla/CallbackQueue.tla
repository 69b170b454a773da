---------------------------- MODULE CallbackQueue ----------------------------
(***************************************************************************)
(* The circular buffer of contexts the watcher thread processes            *)
(* (core/pbpal_ntf_callback_queue.c).  Application threads, the poller and *)
(* the expiry loop put contexts in; the watcher thread takes them out and  *)
(* runs their state machine with the queue unlocked.  One slot is always   *)
(* kept free; a context that lost its socket is overwritten with NULL and  *)
(* its slot stays taken until the watcher passes it.                       *)
(*                                                                         *)
(* Every action is one critical section of the queue's mutex.  The search  *)
(* and the insertion of "requeue" are two of them.                         *)
(***************************************************************************)
EXTENDS Integers, Sequences

CONSTANTS Contexts,   \* the contexts that use the queue
          Threads,    \* the threads that put contexts into it
          Size,       \* PBPAL_NTF_CALLBACK_QUEUE_LIMIT
          NULL

ASSUME SizeAssumption == Size \in Nat /\ Size > 1
ASSUME NullAssumption == NULL \notin Contexts

VARIABLES apb, head, tail,  \* struct pbpal_ntf_callback_queue
          requeuing,        \* context a thread searched for in vain and will enqueue
          processing,       \* context whose state machine the watcher is to run
          due               \* history: contexts notified and not yet taken or removed

ring == <<apb, head, tail>>
vars == <<apb, head, tail, requeuing, processing, due>>

Slots == 0 .. Size - 1
Entries == Contexts \cup {NULL}

\* Mutant: the index wraps one slot too late.
WrapsLate(i) == IF i = Size THEN 0 ELSE i + 1

Succ(i) == IF i + 1 = Size THEN 0 ELSE i + 1

\* The slots from tail up to head, around the end of the array.
Live == {i \in Slots : IF tail <= head THEN tail <= i /\ i < head
                       ELSE tail <= i \/ i < head}

\* How far slot i is from the oldest entry.
Age(i) == IF i >= tail THEN i - tail ELSE i + Size - tail

Holds(c) == \E i \in Live : apb[i] = c

Init == /\ apb = [i \in Slots |-> NULL]
        /\ head = 0
        /\ tail = 0
        /\ requeuing = [t \in Threads |-> NULL]
        /\ processing = NULL
        /\ due = {}

\* Mutant: the slot that keeps a full queue apart from an empty one is used too.
FillsEverySlot(pb) ==
    /\ apb' = [apb EXCEPT ![head] = pb]
    /\ head' = Succ(head)
    /\ due' = due \cup {pb}
    /\ UNCHANGED tail

\* The critical section of pbpal_ntf_callback_enqueue_for_processing: -1 when full.
enqueue_for_processing(pb) ==
    /\ IF Succ(head) # tail
       THEN /\ apb' = [apb EXCEPT ![head] = pb]
            /\ head' = Succ(head)
            /\ due' = due \cup {pb}
       ELSE UNCHANGED <<apb, head, due>>
    /\ UNCHANGED tail

Enqueue(t, pb) ==
    /\ requeuing[t] = NULL
    /\ enqueue_for_processing(pb)
    /\ UNCHANGED <<requeuing, processing>>

\* Mutant: the search looks at stale slots behind the tail as well.
SearchWholeArray(t, pb) ==
    /\ requeuing[t] = NULL
    /\ IF \E i \in Slots : apb[i] = pb
       THEN due' = due \cup {pb} /\ UNCHANGED requeuing
       ELSE requeuing' = [requeuing EXCEPT ![t] = pb] /\ UNCHANGED due
    /\ UNCHANGED <<apb, head, tail, processing>>

\* pbpal_ntf_callback_requeue_for_processing, up to the unlock after its search
RequeueSearch(t, pb) ==
    /\ requeuing[t] = NULL
    /\ IF Holds(pb)
       THEN due' = due \cup {pb} /\ UNCHANGED requeuing
       ELSE requeuing' = [requeuing EXCEPT ![t] = pb] /\ UNCHANGED due
    /\ UNCHANGED <<apb, head, tail, processing>>

\* ... and its call of enqueue, when the context was not found
RequeueEnqueue(t) ==
    /\ requeuing[t] # NULL
    /\ enqueue_for_processing(requeuing[t])
    /\ requeuing' = [requeuing EXCEPT ![t] = NULL]
    /\ UNCHANGED processing

\* Mutant: the newest entry of the context is blanked, not the oldest.
RemoveNewest(pb) ==
    /\ \E i \in Live : /\ apb[i] = pb
                       /\ \A j \in Live : apb[j] = pb => Age(i) >= Age(j)
                       /\ apb' = [apb EXCEPT ![i] = NULL]
    /\ due' = due \ {pb}
    /\ UNCHANGED <<head, tail, requeuing, processing>>

\* pbpal_ntf_callback_remove_from_queue: blanks the oldest entry of pb only.
RemoveFromQueue(pb) ==
    /\ \E i \in Live : /\ apb[i] = pb
                       /\ \A j \in Live : apb[j] = pb => Age(i) <= Age(j)
                       /\ apb' = [apb EXCEPT ![i] = NULL]
    /\ due' = due \ {pb}
    /\ UNCHANGED <<head, tail, requeuing, processing>>

\* Mutant: a blanked slot makes the watcher stop instead of passing it.
StopAtHole ==
    /\ processing = NULL
    /\ head # tail
    /\ apb[tail] # NULL
    /\ tail' = Succ(tail)
    /\ processing' = apb[tail]
    /\ due' = due \ {apb[tail]}
    /\ UNCHANGED <<apb, head, requeuing>>

\* One turn of the loop of pbpal_ntf_callback_process_queue, queue locked.
Pop ==
    /\ processing = NULL
    /\ head # tail
    /\ tail' = Succ(tail)
    /\ processing' = apb[tail]
    /\ due' = due \ {apb[tail]}
    /\ UNCHANGED <<apb, head, requeuing>>

\* The state machine of the popped context ran, or its memory was freed.
Processed ==
    /\ processing # NULL
    /\ processing' = NULL
    /\ UNCHANGED <<apb, head, tail, requeuing, due>>

Next == \/ \E t \in Threads, pb \in Contexts : Enqueue(t, pb) \/ RequeueSearch(t, pb)
        \/ \E t \in Threads : RequeueEnqueue(t)
        \/ \E pb \in Contexts : RemoveFromQueue(pb)
        \/ Pop
        \/ Processed

\* The watcher thread loops for ever: it keeps popping and returns from every
\* state machine run (none of them blocks).
Fairness == WF_vars(Pop) /\ WF_vars(Processed)

Spec == Init /\ [][Next]_vars /\ Fairness

-----------------------------------------------------------------------------
(* Indices stay in the array and slots hold contexts or null                *)
(* (core/pbpal_ntf_callback_queue.c wraps them at queue->size).             *)
TypeOK == /\ apb \in [Slots -> Entries]
          /\ head \in Slots
          /\ tail \in Slots
          /\ requeuing \in [Threads -> Entries]
          /\ processing \in Entries
          /\ due \in SUBSET Contexts

(* A context that was enqueued, or found in the queue by a requeue, is in   *)
(* the queue until the watcher takes it or its socket is lost: no thread's  *)
(* notification is dropped by a wrap of the array, a full queue or an entry *)
(* blanked for another context (core/pbpal_ntf_callback_queue.c:24-91).     *)
NotificationsKept == \A c \in due : Holds(c)

(* An operation never drops or replaces an entry of another context: only   *)
(* the oldest entry leaves, an entry that stays is unchanged or blanked     *)
(* (core/pbpal_ntf_callback_queue.c:38-41, 82-90, 98-101).                  *)
EntriesSurvive ==
    [][\A i \in Live : i # tail => i \in Live' /\ apb'[i] \in {apb[i], NULL}]_vars

(* Whoever is in the queue is taken by the watcher, unless its socket is    *)
(* lost: holes and wrap-around never stall the watcher                      *)
(* (core/pbpal_ntf_callback_queue.c:94-117).                                *)
PendingIsTaken == \A c \in Contexts : (c \in due) ~> (c \notin due)

-----------------------------------------------------------------------------
\* The slot k places behind the tail, around the end of the array.
SlotBehind(k) == IF tail + k < Size THEN tail + k ELSE tail + k - Size

\* What is in the live slots, the oldest first.
entries == [k \in 1..Age(head) |-> apb[SlotBehind(k - 1)]]

\* s without its holes
Filled(s) ==
    LET upTo[k \in 0..Len(s)] ==
            IF k = 0 THEN <<>>
            ELSE IF s[k] = NULL THEN upTo[k - 1] ELSE Append(upTo[k - 1], s[k])
    IN  upTo[Len(s)]

\* The contexts in the order the watcher meets them
pendingContexts == Filled(entries)

Fifo == INSTANCE ContextFifo WITH pending <- pendingContexts, inHand <- processing

(* The ring buffer implements a queue: contexts are handled in the order    *)
(* they were accepted, each entry once (core/pbpal_ntf_callback_queue.c).   *)
IsFifo == Fifo!Spec
=============================================================================
