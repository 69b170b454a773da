--------------------------- MODULE EventListener ---------------------------
(***************************************************************************)
(* The listeners of the subscribe event engine and the containers they are  *)
(* kept in: core/pbcc_subscribe_event_listener.c, lib/pbarray.c,            *)
(* lib/pbhash_set.c, lib/pbref_counter.c.                                   *)
(*                                                                          *)
(* One listener of a subscription set is in one array per name of the set   *)
(* and is freed by its reference counter.  Every function runs under one    *)
(* recursive mutex: threads take turns, but a listener that is being called *)
(* may add and remove listeners itself, while its array is walked.          *)
(* What reads freed memory or through a NULL pointer ends in "crashed".     *)
(* Failures of memory allocation are left out.                              *)
(***************************************************************************)
EXTENDS Integers, FiniteSets, Sequences, SequencesExt

CONSTANTS
    NULL,
    Names,         \* channels and groups
    Subscriptions, \* subscriptions and subscription sets
    NamesOf,       \* the sets of names each of them may have, in turn
    Types,         \* types of updates
    Callbacks,     \* pairs of a function and its user data
    InitialLength, \* first length of an array of listeners (5 in the code)
    MaxAdded       \* bound: listeners added

PossibleArrays == [elements : Seq(Nat), length : Nat]
Emissions == [where : {"status", "global", "object"}, type : Types \cup {"STATUS"},
              name : Names \cup {NULL}, index : Nat \ {0}, count : Nat, called : BOOLEAN]
ASSUME NullAssumption ==
    /\ NULL \notin Subscriptions \cup PossibleArrays \cup Emissions
    /\ \A N \in SUBSET Names : NULL \notin [N -> PossibleArrays]
ASSUME NamesAssumption ==
    IsFiniteSet(Names) /\ NamesOf \in [Subscriptions -> SUBSET SUBSET Names]
ASSUME TypesAssumption == "STATUS" \notin Types
ASSUME LengthAssumption == InitialLength \in Nat \ {0, 1}

VARIABLES
    heap,          \* the listeners allocated so far, with their counters
    global_status, \* array of status listeners, or NULL
    global_events, \* array of the context's listeners, or NULL
    listeners,     \* from names to arrays of listeners, or NULL
    names,         \* the names each subscription has now
    emitting,      \* where the emission in progress is, or NULL
    process,       \* "runs", "freed" (the event listener is) or "crashed"
    \* History
    due,           \* the listeners added for the update's type, when the emission began
    told,          \* the listeners it told
    removed,       \* whether a listener was removed during it
    gone,          \* what was removed and not added again
    shrunk         \* the subscriptions that lost a name

arrays == <<heap, global_status, global_events, listeners>>
vars == <<arrays, names, emitting, process, due, told, removed, gone, shrunk>>

Keys == [subscription : Subscriptions \cup {NULL}, type : Types \cup {"STATUS"},
         callback : Callbacks]
Key(s, t, c) == [subscription |-> s, type |-> t, callback |-> c]

-----------------------------------------------------------------------------
(* pbarray.c, of the arrays that are resized by half their first length *)

\* Mutant: an array that is just full is not resized
target_length_late(array, increase) ==
    LET count == Len(array.elements)
        step == InitialLength \div 2
    IN CASE increase /\ count <= array.length -> array.length
         [] increase /\ count > array.length -> array.length + step
         [] ~increase /\ array.length - count < step -> array.length
         [] ~increase /\ array.length - count >= step -> array.length - step

pbarray_target_length_(array, increase) ==
    LET count == Len(array.elements)
        step == InitialLength \div 2
    IN CASE increase /\ count < array.length -> array.length
         [] increase /\ count >= array.length -> array.length + step
         [] ~increase /\ array.length - count < step -> array.length
         [] ~increase /\ array.length - count >= step -> array.length - step

\* An array is not made smaller than one element
pbarray_resize_(array, increase) ==
    LET length == pbarray_target_length_(array, increase)
    IN IF length = 0 THEN array ELSE [array EXCEPT !.length = length]

pbarray_alloc == [elements |-> <<>>, length |-> InitialLength]

pbcc_initialize_array_(array) == IF array = NULL THEN pbarray_alloc ELSE array

pbarray_add(array, l) ==
    [pbarray_resize_(array, TRUE) EXCEPT !.elements = Append(@, l)]

\* s without the elements of S
Without(s, S) ==
    LET upTo[k \in 0..Len(s)] ==
            IF k = 0 THEN <<>>
            ELSE IF s[k] \in S THEN upTo[k - 1] ELSE Append(upTo[k - 1], s[k])
    IN  upTo[Len(s)]

pbarray_remove(array, l) ==
    pbarray_resize_([array EXCEPT !.elements = Without(@, {l})], FALSE)

Elements(array) == IF array = NULL THEN <<>> ELSE array.elements

-----------------------------------------------------------------------------
(* Listeners and their reference counters *)

\* What is in the array of a name; a name without listeners has none
ArrayOf(n) == IF listeners # NULL /\ n \in DOMAIN listeners THEN listeners[n] ELSE NULL
Matching(array, key) == {l \in ToSet(Elements(array)) : heap[l].key = key}
Left(l, before, after) == l \in ToSet(Elements(before)) \ ToSet(Elements(after))

\* Mutant: the arrays do not count
Allocated_alone(key, added) ==
    [key |-> key, added |-> added, count |-> 1, freed |-> FALSE]

\* pbcc_listener_alloc_ and pbcc_add_listener_: one reference of its own, and
\* one for every array it was added to
Allocated(key, added) ==
    [key |-> key, added |-> added, count |-> 1 + added, freed |-> FALSE]

\* pbcc_remove_listener_ and pbcc_listener_free_: the counter goes down twice
\* for every array the listener is taken out of, to zero at most
Released(l, times) ==
    LET count == IF heap[l].count > 2 * times THEN heap[l].count - 2 * times ELSE 0
    IN [heap[l] EXCEPT !.count = count, !.freed = (count = 0)]

\* A listener that was freed when it left one array is looked at in the next
Dangling(l, times) == times > 1 /\ heap[l].count <= 2 * (times - 1)

\* A listener that was freed and is still in an array is looked at with it
HoldsFreed(array) == \E l \in ToSet(Elements(array)) : heap[l].freed

\* Mutant: the element that moves up to the place of a removed one is skipped
pbcc_remove_listener_skips(array, key) ==
    IF Matching(array, key) = {} THEN array
    ELSE pbarray_remove(array, CHOOSE l \in Matching(array, key) : TRUE)

\* after[k] is the array when its k-th element was looked at
pbcc_remove_listener_(array, key) ==
    LET after[k \in 0..Len(array.elements)] ==
            IF k = 0 THEN array
            ELSE IF array.elements[k] \in Matching(array, key)
                 THEN pbarray_remove(after[k - 1], array.elements[k]) ELSE after[k - 1]
    IN  after[Len(array.elements)]

-----------------------------------------------------------------------------
(* The API.  A call is made between two emissions, or by a listener that is  *)
(* being called.                                                             *)

Calls == process = "runs" /\ (emitting # NULL => emitting.called)
\* Bound: a listener that is called makes one call
Called(isRemoval) ==
    /\ emitting' = IF emitting = NULL THEN NULL ELSE [emitting EXCEPT !.called = FALSE]
    /\ removed' = (removed \/ (isRemoval /\ emitting # NULL))
    /\ UNCHANGED <<names, due, told, shrunk>>

Adds(key, added) ==
    /\ Calls /\ Len(heap) < MaxAdded
    /\ heap' = Append(heap, Allocated(key, added))
    /\ gone' = gone \ {key}
    /\ Called(FALSE) /\ UNCHANGED process
Removes(key) ==
    /\ Calls
    /\ gone' = gone \cup ({key} \cap {heap[l].key : l \in DOMAIN heap})
    /\ Called(TRUE)

\* A status listener is not counted by its array
pbcc_event_listener_add_status_listener(c) ==
    /\ Adds(Key(NULL, "STATUS", c), 0)
    /\ global_status' = pbarray_add(pbcc_initialize_array_(global_status), Len(heap'))
    /\ UNCHANGED <<global_events, listeners>>

pbcc_event_listener_remove_status_listener(c) ==
    LET key == Key(NULL, "STATUS", c)
        matching == Matching(global_status, key)
    IN /\ Removes(key)
       /\ global_status # NULL
       /\ heap' = [l \in DOMAIN heap |->
                      IF l \in matching THEN [heap[l] EXCEPT !.count = 0, !.freed = TRUE]
                      ELSE heap[l]]
       /\ global_status' = [global_status EXCEPT
                               !.elements = Without(@, matching)]
       /\ UNCHANGED <<global_events, listeners, process>>

pbcc_event_listener_add_message_listener(t, c) ==
    /\ Adds(Key(NULL, t, c), 1)
    /\ global_events' = pbarray_add(pbcc_initialize_array_(global_events), Len(heap'))
    /\ UNCHANGED <<global_status, listeners>>

pbcc_event_listener_remove_message_listener(t, c) ==
    LET key == Key(NULL, t, c)
        after == pbcc_remove_listener_(global_events, key)
    IN /\ Removes(key)
       /\ global_events # NULL
       /\ heap' = [l \in DOMAIN heap |->
                      IF Left(l, global_events, after) THEN Released(l, 1) ELSE heap[l]]
       /\ global_events' = after
       /\ UNCHANGED <<global_status, listeners, process>>

pbcc_event_listener_add_subscription_object_listener(s, t, c) ==
    /\ Adds(Key(s, t, c), Cardinality(names[s]))
    /\ listeners' =
           [n \in names[s] \cup (IF listeners = NULL THEN {} ELSE DOMAIN listeners) |->
               IF n \in names[s]
               THEN pbarray_add(pbcc_initialize_array_(ArrayOf(n)), Len(heap'))
               ELSE ArrayOf(n)]
    /\ UNCHANGED <<global_status, global_events>>

\* The names are those the subscription has now.  A name whose last listener
\* goes leaves the hash set.
pbcc_event_listener_remove_subscription_object_listener(s, t, c) ==
    LET key == Key(s, t, c)
        after == [n \in DOMAIN listeners |->
                     IF n \in names[s] THEN pbcc_remove_listener_(listeners[n], key)
                     ELSE listeners[n]]
        Times(l) == Cardinality({n \in DOMAIN after : Left(l, listeners[n], after[n])})
    IN /\ Removes(key)
       /\ listeners # NULL
       /\ IF \/ \E l \in DOMAIN heap : Dangling(l, Times(l))
             \/ \E n \in names[s] : HoldsFreed(ArrayOf(n))
          THEN process' = "crashed" /\ UNCHANGED arrays
          ELSE /\ heap' = [l \in DOMAIN heap |->
                              IF Times(l) > 0 THEN Released(l, Times(l)) ELSE heap[l]]
               /\ listeners' = [n \in {m \in DOMAIN after : after[m].elements # <<>>} |->
                                   after[n]]
               /\ UNCHANGED <<global_status, global_events, process>>

\* pubnub_subscription_set_add and pubnub_subscription_set_remove do not tell
\* the event listener
subscription_set_changes(s, N) ==
    /\ process = "runs" /\ emitting = NULL
    /\ names' = [names EXCEPT ![s] = N]
    /\ shrunk' = IF names[s] \subseteq N THEN shrunk ELSE shrunk \cup {s}
    /\ UNCHANGED <<arrays, emitting, process, due, told, removed, gone>>

-----------------------------------------------------------------------------
(* Emissions.  The number of listeners is read before the first is called.   *)

Walk(where, t, n, array) ==
    [where |-> where, type |-> t, name |-> n, index |-> 1,
     count |-> Len(Elements(array)), called |-> FALSE]

\* A listener of the context is called for every type
Wants(l, t) == heap[l].key.subscription = NULL \/ heap[l].key.type = t

Begins(walk, registered) ==
    /\ process = "runs" /\ emitting = NULL
    /\ emitting' = walk
    /\ due' = {l \in registered : heap[l].key.type = walk.type}
    /\ UNCHANGED <<arrays, names, process, told, removed, gone, shrunk>>

pbcc_event_listener_emit_status ==
    Begins(Walk("status", "STATUS", NULL, global_status), ToSet(Elements(global_status)))

pbcc_event_listener_emit_message(n, t) ==
    Begins(Walk("global", t, n, global_events),
           ToSet(Elements(global_events)) \cup ToSet(Elements(ArrayOf(n))))

Walked == CASE emitting.where = "status" -> Elements(global_status)
            [] emitting.where = "global" -> Elements(global_events)
            [] emitting.where = "object" -> Elements(ArrayOf(emitting.name))

Walks == process = "runs" /\ emitting # NULL
WalkEnds == Walks /\ emitting.index > emitting.count

\* One turn of the loop; an element that is not there any more is NULL
pbcc_event_listener_emit_message_ ==
    /\ Walks /\ ~WalkEnds
    /\ IF emitting.index > Len(Walked) \/ heap[Walked[emitting.index]].freed
       THEN process' = "crashed" /\ UNCHANGED <<emitting, told>>
       ELSE LET l == Walked[emitting.index]
            IN /\ emitting' = [emitting EXCEPT !.index = @ + 1,
                                               !.called = Wants(l, emitting.type)]
               /\ told' = IF Wants(l, emitting.type) THEN Append(told, l) ELSE told
               /\ UNCHANGED process
    /\ UNCHANGED <<arrays, names, due, removed, gone, shrunk>>

\* Mutant: the listeners of the subscription are told when there are no others
emit_object_alone ==
    /\ WalkEnds
    /\ emitting.where = "global"
    /\ emitting' = IF global_events = NULL
                   THEN Walk("object", emitting.type, emitting.name, ArrayOf(emitting.name))
                   ELSE Walk("object", emitting.type, emitting.name, NULL)
    /\ UNCHANGED <<arrays, names, process, due, told, removed, gone, shrunk>>

\* After the context's listeners those of the name; the hash set is not there
\* before a first subscription listener was added
emit_object ==
    /\ WalkEnds
    /\ emitting.where = "global"
    /\ IF listeners = NULL THEN process' = "crashed" /\ UNCHANGED emitting
       ELSE /\ emitting' = Walk("object", emitting.type, emitting.name, ArrayOf(emitting.name))
            /\ UNCHANGED process
    /\ UNCHANGED <<arrays, names, due, told, removed, gone, shrunk>>

emit_ends ==
    /\ WalkEnds
    /\ emitting.where # "global"
    /\ emitting' = NULL
    /\ due' = {} /\ told' = <<>> /\ removed' = FALSE
    /\ UNCHANGED <<arrays, names, process, gone, shrunk>>

\* The status listeners' array is forgotten, and what the other listeners
\* counted for themselves is left
pbcc_event_listener_free ==
    LET Times(l) == Cardinality({n \in Names : l \in ToSet(Elements(ArrayOf(n)))})
                    + (IF l \in ToSet(Elements(global_events)) THEN 1 ELSE 0)
        registered == {l \in DOMAIN heap : Times(l) > 0}
    IN /\ process = "runs" /\ emitting = NULL
       /\ IF \E l \in registered : heap[l].freed \/ heap[l].count < Times(l)
          THEN process' = "crashed" /\ UNCHANGED arrays
          ELSE /\ process' = "freed"
               /\ heap' = [l \in DOMAIN heap |->
                              IF l \notin registered THEN heap[l]
                              ELSE [heap[l] EXCEPT !.count = @ - Times(l),
                                                   !.freed = heap[l].count = Times(l)]]
               /\ global_events' = NULL /\ listeners' = NULL
               /\ UNCHANGED global_status
       /\ UNCHANGED <<names, emitting, due, told, removed, gone, shrunk>>

-----------------------------------------------------------------------------
Init ==
    /\ heap = <<>> /\ global_status = NULL /\ global_events = NULL /\ listeners = NULL
    /\ names \in [Subscriptions -> SUBSET Names] /\ \A s \in Subscriptions : names[s] \in NamesOf[s]
    /\ emitting = NULL /\ process = "runs"
    /\ due = {} /\ told = <<>> /\ removed = FALSE
    /\ gone = {} /\ shrunk = {}

Next ==
    \/ \E c \in Callbacks :
           \/ pbcc_event_listener_add_status_listener(c)
           \/ pbcc_event_listener_remove_status_listener(c)
           \/ \E t \in Types :
                  \/ pbcc_event_listener_add_message_listener(t, c)
                  \/ pbcc_event_listener_remove_message_listener(t, c)
                  \/ \E s \in Subscriptions :
                         \/ pbcc_event_listener_add_subscription_object_listener(s, t, c)
                         \/ pbcc_event_listener_remove_subscription_object_listener(s, t, c)
    \/ \E s \in Subscriptions : \E N \in NamesOf[s] : subscription_set_changes(s, N)
    \/ pbcc_event_listener_emit_status
    \/ \E n \in Names, t \in Types : pbcc_event_listener_emit_message(n, t)
    \/ pbcc_event_listener_emit_message_ \/ emit_object \/ emit_ends
    \/ pbcc_event_listener_free

Spec == Init /\ [][Next]_vars

-----------------------------------------------------------------------------
(* Properties *)

Arrays == [elements : Seq(DOMAIN heap), length : Nat \ {0}]
Fits(array) == array # NULL => array \in Arrays /\ Len(array.elements) <= array.length

\* The types, and that no array ever holds more listeners than there is room
\* for in it after all the resizing up and down of pbarray_resize_.
TypeOK ==
    /\ heap \in Seq([key : Keys, added : Nat, count : Nat, freed : BOOLEAN])
    /\ Fits(global_status) /\ Fits(global_events)
    /\ \A n \in Names : Fits(ArrayOf(n))
    /\ names \in [Subscriptions -> SUBSET Names]
    /\ emitting \in Emissions \cup {NULL}
    /\ process \in {"runs", "freed", "crashed"}
    /\ removed \in BOOLEAN /\ gone \subseteq Keys /\ shrunk \subseteq Subscriptions

Registered ==
    UNION {ToSet(Elements(array)) :
              array \in {global_status, global_events} \cup {ArrayOf(n) : n \in Names}}

\* A listener is freed when it leaves its last array and not earlier, whatever
\* is added to and removed from the sets of names meanwhile, as long as it was
\* not added under more than two names at once (pbcc_remove_listener_ counts
\* every array twice) nor for a set without names (nobody frees that one).
\* Memory that was freed is read, or NULL, only after a listener with more than
\* two names, a removal by a listener that is being called, or an update for a
\* context without subscription listeners.
AllocatedWhileRegistered ==
    /\ process = "runs" =>
           \A l \in DOMAIN heap :
               heap[l].key.subscription = NULL \/ heap[l].added \in {1, 2} =>
                   (heap[l].freed <=> l \notin Registered)
    /\ process = "crashed" =>
           removed \/ listeners = NULL \/ \E l \in DOMAIN heap : heap[l].added > 2

\* An emission during which no listener is removed tells every listener that
\* was registered for the update and its type when it began, and none of them
\* twice, also when listeners that are being called add others (the count of
\* pbcc_event_listener_emit_message_ is read once).  A listener of another type
\* ("Type of real-time update for which listener will be called",
\* core/pubnub_subscribe_event_listener.h) is told only if it is the context's.
ToldAsRegistered ==
    WalkEnds /\ emitting.where # "global" /\ ~removed =>
        /\ due \subseteq ToSet(told) /\ IsInjective(told)
        /\ \A l \in ToSet(told) :
               heap[l].key.type = emitting.type \/ heap[l].key.subscription = NULL

\* After a removal nothing with the removed type, function and data is in any
\* array, however often it had been added, unless its subscription set has
\* lost a name: that name's array is not searched any more.
RemovedIsGone ==
    process = "runs" =>
        \A l \in Registered :
            heap[l].key \in gone => heap[l].key.subscription \in shrunk
=============================================================================
