------------------------------ MODULE TimerList ------------------------------
(***************************************************************************)
(* The list of running timers shared by all contexts                       *)
(* (core/pubnub_timer_list.c) and its two users under the watcher's        *)
(* `timerlock` (core/pbpal_ntf_callback_handle_timer_list.c): the expiry   *)
(* loop and the "safe" removal.  A context is its own list node; a node    *)
(* holds the milliseconds between its own expiry and the expiry of the     *)
(* node before it.                                                         *)
(*                                                                         *)
(* Walking the list is written with the sequence of its nodes: the C loops *)
(* stop at the first node whose accumulated delta exceeds the time given.  *)
(***************************************************************************)
EXTENDS Integers, SequencesExt

CONSTANTS Contexts, Timeouts, Ticks, NULL

ASSUME TimesArePositive ==                \* PUBNUB_ASSERT_OPT(... > 0)
    /\ Timeouts \subseteq Nat \ {0}
    /\ Ticks \subseteq Nat \ {0}
ASSUME NullIsNoContext == NULL \notin Contexts
ASSUME ContextsAreFinite == IsFiniteSet(Contexts)

VARIABLES list,    \* [head, next, previous, timeout_left_ms]
          expired  \* cursor of the loop in pbntf_handle_timer_list

vars == <<list, expired>>

\* The nodes met from node h on.  A list longer than the number of contexts
\* has a cycle: one node is then repeated at the end.
NodesFrom(l, h) ==
    LET nth[k \in 0..Cardinality(Contexts)] ==
            IF k = 0 THEN h
            ELSE IF nth[k - 1] = NULL THEN NULL ELSE l.next[nth[k - 1]]
    IN  [k \in 1..Cardinality({i \in DOMAIN nth : nth[i] # NULL}) |-> nth[k - 1]]

Nodes(l) == NodesFrom(l, l.head)

\* Time until node k of s expires: its delta and all those before it.
Due(l, s, k) ==
    LET ms[i \in 0..Len(s)] == IF i = 0 THEN 0 ELSE ms[i - 1] + l.timeout_left_ms[s[i]]
    IN  ms[k]

\* f[c] := v, unless c is the null pointer
Store(f, c, v) == IF c = NULL THEN f ELSE [f EXCEPT ![c] = v]

\* The place of a timer of ms: before the first node that expires later than
\* it does, hence after those that expire with it.
Place(l, ms) ==
    LET s == Nodes(l)
    IN  CHOOSE k \in 1..(Len(s) + 1) :
           /\ k > Len(s) \/ ms < Due(l, s, k)
           /\ \A j \in 1..(k - 1) : ms >= Due(l, s, j)

\* Links c in as node `at`, `left` ms after its predecessor.
LinkAt(l, c, at, left) ==
    LET s    == Nodes(l)
        prev == IF at = 1 THEN NULL ELSE s[at - 1]
        nxt  == IF at > Len(s) THEN NULL ELSE s[at]
    IN  [head     |-> IF at = 1 THEN c ELSE l.head,
         next     |-> Store([l.next EXCEPT ![c] = nxt], prev, c),
         previous |-> Store([l.previous EXCEPT ![c] = prev], nxt, c),
         timeout_left_ms |->
             [d \in Contexts |->
                 CASE d = c   -> left
                   [] d = nxt -> l.timeout_left_ms[d] - left
                   [] OTHER   -> l.timeout_left_ms[d]]]

\* Mutant: the walk does not take the time of the nodes it passes off ms.
AddWithoutDelta(l, c, ms) == LinkAt(l, c, Place(l, ms), ms)

pubnub_timer_list_add(l, c, ms) ==
    LinkAt(l, c, Place(l, ms), ms - Due(l, Nodes(l), Place(l, ms) - 1))

\* pubnub_timer_list_remove: the next node takes over the time of the removed.
pubnub_timer_list_remove(l, c) ==
    LET prev == IF l.head = c THEN NULL ELSE l.previous[c]
        nxt  == l.next[c]
    IN  [head     |-> IF l.head = c THEN nxt ELSE l.head,
         next     |-> Store([l.next EXCEPT ![c] = NULL], prev, nxt),
         previous |-> Store([l.previous EXCEPT ![c] = NULL], nxt, prev),
         timeout_left_ms |->
             IF nxt = NULL THEN l.timeout_left_ms
             ELSE [l.timeout_left_ms EXCEPT ![nxt] = @ + l.timeout_left_ms[c]]]

\* Mutant: a timer that has just run out is left in the list.
ExpiredStrictly(l, ms) ==
    Cardinality({k \in 1..Len(Nodes(l)) : Due(l, Nodes(l), k) < ms})

\* How many nodes at the front have run out after ms.
ExpiredCount(l, ms) ==
    Cardinality({k \in 1..Len(Nodes(l)) : Due(l, Nodes(l), k) <= ms})

\* pubnub_timer_list_as_time_goes_by: cuts the expired nodes off the front.
pubnub_timer_list_as_time_goes_by(l, ms) ==
    LET s    == Nodes(l)
        n    == ExpiredCount(l, ms)
        rest == IF n = Len(s) THEN NULL ELSE s[n + 1]
    IN  [head     |-> rest,
         next     |-> IF n > 0 THEN [l.next EXCEPT ![s[n]] = NULL] ELSE l.next,
         previous |-> Store(l.previous, rest, NULL),
         timeout_left_ms |->
             IF rest = NULL THEN l.timeout_left_ms
             ELSE [l.timeout_left_ms EXCEPT ![rest] = @ - (ms - Due(l, s, n))]]

\* Mutant: the only node of a list has no links and is taken for unlisted.
RemoveIfLinked(l, c) ==
    IF l.previous[c] # NULL \/ l.next[c] # NULL THEN pubnub_timer_list_remove(l, c) ELSE l

pbpal_remove_timer_safe(l, c) ==
    IF l.previous[c] # NULL \/ l.next[c] # NULL \/ c = l.head
    THEN pubnub_timer_list_remove(l, c)
    ELSE l

-----------------------------------------------------------------------------
Init == /\ list = [head            |-> NULL,
                   next            |-> [c \in Contexts |-> NULL],
                   previous        |-> [c \in Contexts |-> NULL],
                   timeout_left_ms |-> [c \in Contexts |-> 0]]
        /\ expired = NULL

\* `timerlock` is not held by the expiry loop.
Unlocked == expired = NULL

\* pbntf_got_socket: adds without removing; its callers have no timer running
\* (the assertions of pubnub_timer_list_add).
GotSocket(c, ms) ==
    /\ Unlocked
    /\ c \notin ToSet(Nodes(list))
    /\ list' = pubnub_timer_list_add(list, c, ms)
    /\ UNCHANGED expired

\* pbntf_start_wait_connect_timer and pbntf_start_transaction_timer
StartTimer(c, ms) ==
    /\ Unlocked
    /\ list' = pubnub_timer_list_add(pbpal_remove_timer_safe(list, c), c, ms)
    /\ UNCHANGED expired

\* pbntf_lost_socket, whether the context has a timer running or not
LostSocket(c) ==
    /\ Unlocked
    /\ list' = pbpal_remove_timer_safe(list, c)
    /\ UNCHANGED expired

\* The watcher thread measured ms: pbntf_handle_timer_list up to its loop.
TimePasses(ms) ==
    /\ Unlocked
    /\ list' = pubnub_timer_list_as_time_goes_by(list, ms)
    /\ expired' = IF ExpiredCount(list, ms) > 0 THEN list.head ELSE NULL

\* Mutant: the loop leaves the previous pointer of the expired context.
HandleExpiredKeepsPrevious ==
    /\ expired # NULL
    /\ expired' = list.next[expired]
    /\ list' = [list EXCEPT !.next[expired] = NULL]

\* One turn of the loop: the context is stopped and taken off the expired list.
HandleExpired ==
    /\ expired # NULL
    /\ expired' = list.next[expired]
    /\ list' = [list EXCEPT !.next[expired] = NULL, !.previous[expired] = NULL]

Next == \/ \E c \in Contexts, ms \in Timeouts : GotSocket(c, ms) \/ StartTimer(c, ms)
        \/ \E c \in Contexts : LostSocket(c)
        \/ \E ms \in Ticks : TimePasses(ms)
        \/ HandleExpired

Spec == Init /\ [][Next]_vars

-----------------------------------------------------------------------------
Pointers == Contexts \cup {NULL}

(* Every pointer of the list is a context or null and no node has a         *)
(* negative time left (core/pubnub_timer_list.c subtracts deltas).          *)
TypeOK == /\ list.head \in Pointers
          /\ list.next \in [Contexts -> Pointers]
          /\ list.previous \in [Contexts -> Pointers]
          /\ list.timeout_left_ms \in [Contexts -> Nat]
          /\ expired \in Pointers

Linked(s) == \A i \in 1..Len(s) :
    list.previous[s[i]] = IF i = 1 THEN NULL ELSE s[i - 1]

(* The list and the list of expired contexts are acyclic and disjoint, and  *)
(* the list is linked the same way in both directions, through every add,   *)
(* remove and expiry (core/pubnub_timer_list.c:14-169).                     *)
WellLinked ==
    LET live == Nodes(list)
        gone == NodesFrom(list, expired)
    IN  /\ IsInjective(live \o gone)
        /\ Linked(live)

(* The test pbpal_remove_timer_safe makes on the links of a context tells   *)
(* exactly whether the context is in the list                               *)
(* (core/pbpal_ntf_callback_handle_timer_list.c:39-40), expiry of others,   *)
(* removal at the tail and re-adding included: a context taken for listed   *)
(* would be unlinked through stale pointers.                                *)
SafeRemovalIsExact ==
    Unlocked => \A c \in Contexts :
        (list.previous[c] # NULL \/ list.next[c] # NULL \/ c = list.head)
            <=> c \in ToSet(Nodes(list))

-----------------------------------------------------------------------------
(* The delta list implements plain countdown timers: nobody expires early   *)
(* or late, a removal leaves the others' times alone, and expired contexts  *)
(* are handled earliest first (core/pubnub_timer_list.c:14-169).            *)
remainingMs == [c \in Contexts |->
    IF c \in ToSet(Nodes(list))
    THEN Due(list, Nodes(list), CHOOSE k \in DOMAIN Nodes(list) : Nodes(list)[k] = c)
    ELSE -1]

Countdown == INSTANCE Timers WITH remaining <- remainingMs,
                                  expiring  <- NodesFrom(list, expired)

IsCountdown == Countdown!Spec
=============================================================================
