------------------------ MODULE AutoHeartbeatProofs ------------------------
(***************************************************************************)
(* The slots, the mutexes, the calls and the timers of AutoHeartbeat.tla.  *)
(* A context and its slot name each other whenever no call is half way     *)
(* through giving the slot up (Tenure), every slot with a context is       *)
(* counted (Counted), and a mutex is held by the call that needs it and by *)
(* no other (Held).  From these follow TypeOK, IdleHoldsNothing and        *)
(* SlotsAgree, for every number of contexts, slots and periods.            *)
(*                                                                         *)
(* In the slots that are used as their contexts expect (plain), time is    *)
(* left exactly for the timers that are in the array, once each (Timing);  *)
(* what a callback, a start of the timer or the heartbeat watcher has      *)
(* found out about a slot is still so when it acts on it, unless the slot  *)
(* was given up meanwhile (Watching, Beating); and the array is never full *)
(* when a timer starts, with every slot used that way (Intact).            *)
(***************************************************************************)
EXTENDS AutoHeartbeat, FiniteSetTheorems, SequenceTheorems, TLAPS

-----------------------------------------------------------------------------
(* What the variables hold *)

\* Where a call of the application may stand,
AppSteps == {"idle", "form", "init", "set_period", "setting_period", "release", "stop",
             "stop_timer", "released", "prepare"}

\* ... one of the watcher,
WatcherSteps == {"idle", "ongoing", "stop_auto", "stop", "stop_timer", "parse", "parsed",
                 "start", "start_announce", "start_period", "start_timer", "thump",
                 "thumping", "thump_cancel", "callback", "callback_announce", "done"}

\* ... and one of the heartbeat watcher
HeartSteps == {"idle", "timers", "expired", "thump", "thumping", "thump_cancel"}
Steps == AppSteps \cup WatcherSteps \cup HeartSteps
Answers == {"none", "PNR_OK", "error", "PNR_CANCELLED"}
Indexes == {s \in Seq(Thumpers) : Len(s) <= MaxThumpers}
Seconds == Periods \cup {MinPeriod, 0}

\* A slot's context, or none
Owned == Contexts \cup {NULL}
Slots == Thumpers \cup {UNASSIGNED}
Subjects == Contexts \cup Thumpers \cup {NULL}
Keys == {KeysOf[c] : c \in Contexts} \cup {NoKeys}

\* The calls, the slots, and the parts of a context automatic heartbeats use
Frames == [at : Steps, pb : Owned, thumper : Slots, of : Subjects, then : Steps,
           started : BOOLEAN, period : Seconds, result : Answers, indexes : Indexes,
           i : Nat \ {0}]
Data == [pb : Owned, keys : Keys, cb : BOOLEAN, period_sec : Seconds]
Parts == [thumperIndex : Slots, use_smart_heartbeat : BOOLEAN,
          should_announce_presence : BOOLEAN, waiting_announce_presence : BOOLEAN,
          channels : BOOLEAN, state : {"IDLE", "STARTED"},
          last_result : {"none", "PNR_OK", "error"}]
Beats == {"IDLE", "KEEP_ALIVE_IDLE", "STARTED", "WAIT_CANCEL"}

\* Every variable but the mutexes and the count of slots holds what it should.
Typed ==
    /\ heartbeat_data \in [Thumpers -> Data]
    /\ heartbeat_timers \in [Thumpers -> Nat]
    /\ timer_index_array \in Indexes
    /\ pb \in [Contexts -> Parts]
    /\ beat \in [Thumpers -> Beats]
    /\ call \in [Threads -> Frames]
    /\ failed \subseteq {"pb", "active_timers", "thumper_index"} /\ plain \subseteq Thumpers
    /\ given_up \subseteq Contexts \cup Thumpers

\* A mutex is free or held by a thread.
Owners == Threads \cup {NoThread}
Locks ==
    /\ mutw \in Owners /\ timerlock \in Owners
    /\ monitor \in [Contexts \cup Thumpers -> Owners]
    /\ thumper_monitor \in [Contexts -> Owners]

\* The steps of a timer's start, of a beat, and of a stop
Started == {"start", "start_announce", "start_period", "start_timer"}
Thumped == {"thump", "thumping", "thump_cancel"}
Stops == {"stop_auto", "stop", "stop_timer"}

\* What a call carries, by where it stands: the context it is for, the slot it
\* found, the period it sets, and where it returns to
AppFrame(f) ==
    /\ f.at \in AppSteps
    /\ f.at # "idle" => f.of \in Contexts
    /\ f.at \in {"form", "init", "set_period", "setting_period"} => f.period > 0
    /\ f.at \in {"init", "release", "stop", "stop_timer", "released"}
         => f.thumper \in Thumpers
    /\ f.at \in {"release", "stop", "stop_timer"} => f.then = "released"
WatcherFrame(f) ==
    /\ f.at \in WatcherSteps
    /\ f.at # "idle" => f.of \in Contexts \cup Thumpers
    /\ f.at \in {"ongoing", "parse", "parsed"} \cup Stops => f.of \in Contexts
    /\ f.at \in {"callback", "callback_announce"} \cup Stops \cup Started \cup Thumped
          => f.thumper \in Thumpers
    /\ f.at \in {"start_announce", "callback_announce", "thumping"} => f.pb \in Contexts
    /\ f.at \in Stops => f.then = "parse"
    /\ f.at \in Thumped => f.then \in {"start_period", "done"}
HeartFrame(f) ==
    /\ f.at \in HeartSteps
    /\ f.at \in {"expired"} \cup Thumped => f.thumper \in Thumpers
    /\ f.at = "thumping" => f.pb \in Contexts
    /\ f.at \in Thumped => f.then = "timers"
Shaped == AppFrame(call["app"]) /\ WatcherFrame(call["watcher"])
    /\ HeartFrame(call["heart"])

\* Only the call of t goes on.
Only(t) ==
    /\ call' \in [Threads -> Frames]
    /\ \A u \in Threads : u # t => call'[u] = call[u]

\* Call g carries what f carried.
Kept(f, g) ==
    /\ g.pb = f.pb /\ g.thumper = f.thumper /\ g.of = f.of /\ g.then = f.then
    /\ g.started = f.started /\ g.period = f.period /\ g.result = f.result
    /\ g.indexes = f.indexes /\ g.i = f.i

-----------------------------------------------------------------------------
(* The members of these sets *)

\* What belongs to which set (ThumpersAssumption, NullAssumption, PeriodsAssumption)
LEMMA Members ==
    /\ NULL \in Owned /\ Contexts \subseteq Owned /\ NULL \notin Contexts
    /\ Thumpers \subseteq Slots /\ UNASSIGNED \in Slots /\ UNASSIGNED \notin Thumpers
    /\ NULL \in Subjects /\ Contexts \subseteq Subjects /\ Thumpers \subseteq Subjects
    /\ 0 \in Seconds /\ MinPeriod \in Seconds /\ Periods \subseteq Seconds
    /\ Seconds \subseteq Nat
    /\ <<>> \in Indexes
    /\ \A c \in Contexts : KeysOf[c] \in Keys
    /\ Thumpers \subseteq Nat /\ 1 \in Nat \ {0}
  BY ThumpersAssumption, NullAssumption, PeriodsAssumption
     DEF Owned, Slots, Subjects, Seconds, Indexes, Thumpers, UNASSIGNED, Keys

\* The names of the places a call may stand at
LEMMA StepNames ==
    /\ {"idle", "form", "init", "set_period", "setting_period", "release", "stop",
        "stop_timer", "released", "prepare"} \subseteq Steps
    /\ {"ongoing", "stop_auto", "parse", "parsed",
                 "start", "start_announce", "start_period", "start_timer", "thump",
                 "thumping", "thump_cancel", "callback", "callback_announce", "done"} \subseteq Steps
    /\ {"timers", "expired"} \subseteq Steps
  BY DEF Steps, AppSteps, WatcherSteps, HeartSteps

\* A record with every field of its type is a call.
LEMMA FrameFields ==
    \A a \in Steps, b \in Owned, c \in Slots, d \in Subjects, e \in Steps, f \in BOOLEAN,
  g \in Seconds, h \in Answers, k \in Indexes, l \in Nat \ {0} :
  [at |-> a, pb |-> b, thumper |-> c, of |-> d, then |-> e,
         started |-> f, period |-> g, result |-> h, indexes |-> k, i |-> l] \in Frames
  BY DEF Frames

\* The call of a thread that has none in progress
LEMMA IdleFrame ==
    /\ Idle \in Frames /\ Idle.at = "idle" /\ Idle.i = 1 /\ Idle.thumper = UNASSIGNED
    /\ Idle.pb = NULL /\ Idle.of = NULL /\ Idle.then = "done"
<1>1. Idle \in Frames
  <2>1. "none" \in Answers
    BY DEF Answers
  <2>2. FALSE \in BOOLEAN
    OBVIOUS
  <2> QED BY FrameFields, <2>1, <2>2, Members, StepNames DEF Idle
<1>2. Idle.at = "idle" /\ Idle.i = 1 /\ Idle.thumper = UNASSIGNED
  BY DEF Idle
<1>3. Idle.pb = NULL /\ Idle.of = NULL /\ Idle.then = "done"
  BY DEF Idle
<1> QED BY <1>1, <1>2, <1>3

\* The least of a set of numbers is in it.
LEMMA MinOf ==
    ASSUME NEW S \in SUBSET Nat, S # {}
    PROVE  Min(S) \in S
<1> DEFINE R == {ss \in Nat \X Nat : ss[1] < ss[2]}
<1>1. IsWellFoundedOn(R, Nat)
  BY NatLessThanWellFounded DEF OpToRel
<1>2. \A x, y \in Nat : y < x => <<y, x>> \in R
  OBVIOUS
<1> HIDE DEF R
<1>3. PICK x \in S : \A y \in S : ~ (<<y, x>> \in R)
  BY <1>1, WFMin
<1>4. \A y \in S : x =< y
  <2> SUFFICES ASSUME NEW y \in S PROVE ~ (y < x)
    BY SMT
  <2>1. y \in Nat /\ x \in Nat
    OBVIOUS
  <2> QED BY <1>2, <1>3, <2>1
<1> QED BY <1>3, <1>4 DEF Min

\* The parts of a context stay of their type when one of them is set.
LEMMA PartsSet ==
    ASSUME NEW p \in Parts
    PROVE  /\ \A x \in Slots : [p EXCEPT !.thumperIndex = x] \in Parts
           /\ \A x \in BOOLEAN : /\ [p EXCEPT !.use_smart_heartbeat = x] \in Parts
                                 /\ [p EXCEPT !.should_announce_presence = x] \in Parts
                                 /\ [p EXCEPT !.waiting_announce_presence = x] \in Parts
                                 /\ [p EXCEPT !.channels = x] \in Parts
           /\ \A x \in {"IDLE", "STARTED"} : [p EXCEPT !.state = x] \in Parts
           /\ \A x \in {"none", "PNR_OK", "error"} : [p EXCEPT !.last_result = x] \in Parts
  BY DEF Parts

\* A slot stays of its type when one of its fields is set.
LEMMA DataSet ==
    ASSUME NEW d \in Data
    PROVE  /\ \A x \in Owned : [d EXCEPT !.pb = x] \in Data
           /\ \A x \in Keys : [d EXCEPT !.keys = x] \in Data
           /\ \A x \in BOOLEAN : [d EXCEPT !.cb = x] \in Data
           /\ \A x \in Seconds : [d EXCEPT !.period_sec = x] \in Data
  BY DEF Data

-----------------------------------------------------------------------------
(* How a call goes on *)

\* Setting the call of one thread leaves the others alone.
LEMMA Moves ==
    ASSUME Typed, NEW t \in Threads, NEW g \in Frames, call' = [call EXCEPT ![t] = g]
    PROVE  Only(t) /\ call'[t] = g
  BY DEF Typed, Only

\* A call that goes on to another place carries what it carried.
LEMMA Goes ==
    ASSUME NEW f \in Frames, NEW l \in Steps
    PROVE  [f EXCEPT !.at = l] \in Frames /\ [f EXCEPT !.at = l].at = l
             /\ Kept(f, [f EXCEPT !.at = l])
  BY DEF Frames, Kept

\* Goto moves one call, and nothing it carries.
LEMMA GoesTo ==
    ASSUME Typed, NEW t \in Threads, NEW l \in Steps, Goto(t, l)
    PROVE  Only(t) /\ call'[t].at = l /\ Kept(call[t], call'[t])
<1>1. call[t] \in Frames
  BY DEF Typed
<1>2. call' = [call EXCEPT ![t] = [call[t] EXCEPT !.at = l]]
  BY DEF Goto
<1> QED BY <1>1, <1>2, Goes, Moves

\* The application's call is over.
LEMMA Returns ==
    ASSUME Typed, app_returns
    PROVE  Only("app") /\ call'["app"] = Idle
  BY Moves, IdleFrame DEF app_returns, Threads

\* pubnub_enable_auto_heartbeat calls form_heartbeat_thumper, or sets the period.
LEMMA EnableMoves ==
    ASSUME Typed, NEW c \in Contexts, NEW period \in Periods,
           pubnub_enable_auto_heartbeat(c, period)
    PROVE  /\ Only("app")
           /\ call'["app"].of = c /\ call'["app"].period = period
           /\ call'["app"].at = IF pb[c].thumperIndex = UNASSIGNED THEN "form"
                ELSE "set_period"
<1> DEFINE l == IF pb[c].thumperIndex = UNASSIGNED THEN "form" ELSE "set_period"
           g == [[Idle EXCEPT !.of = c, !.period = period] EXCEPT !.at = l]
<1>1. l \in Steps
  BY StepNames, Members DEF Typed, Threads, Data, Parts, Answers
<1>2. call' = [call EXCEPT !["app"] = g]
  BY DEF pubnub_enable_auto_heartbeat
<1> HIDE DEF l
<1>3. g \in Frames /\ g.of = c /\ g.period = period /\ g.at = l
  BY <1>1, IdleFrame, Members, StepNames DEF Frames
<1> HIDE DEF g
<1>4. Only("app") /\ call'["app"] = g
  BY <1>2, <1>3, Moves DEF Threads
<1> QED
  BY <1>3, <1>4 DEF l

\* pubnub_set_heartbeat_period goes on to the thumper monitor.
LEMMA PeriodMoves ==
    ASSUME Typed, NEW c \in Contexts, NEW period \in Periods,
           pubnub_set_heartbeat_period(c, period)
    PROVE  /\ Only("app")
           /\ call'["app"].of = c /\ call'["app"].period = period
           /\ call'["app"].at = "set_period"
<1> DEFINE g == [Idle EXCEPT !.of = c, !.period = period, !.at = "set_period"]
<1>1. "app" \in Threads
  BY StepNames, Members DEF Typed, Threads, Data, Parts, Answers
<1>2. call' = [call EXCEPT !["app"] = g]
  BY DEF pubnub_set_heartbeat_period
<1>3. g \in Frames /\ g.of = c /\ g.period = period /\ g.at = "set_period"
  BY <1>1, IdleFrame, Members, StepNames DEF Frames
<1> HIDE DEF g
<1>4. Only("app") /\ call'["app"] = g
  BY <1>2, <1>3, Moves DEF Threads
<1> QED
  BY <1>3, <1>4

\* pubnub_disable_auto_heartbeat releases the slot it found.
LEMMA DisableMoves ==
    ASSUME Typed, NEW c \in Contexts, pubnub_disable_auto_heartbeat(c),
           pb[c].thumperIndex # UNASSIGNED
    PROVE  /\ Only("app")
           /\ call'["app"].of = c /\ call'["app"].at = "release"
           /\ call'["app"].then = "released" /\ call'["app"].thumper = pb[c].thumperIndex
<1> DEFINE g == [Idle EXCEPT !.of = c, !.at = "release", !.then = "released",
      !.thumper = pb[c].thumperIndex]
<1>1. pb[c].thumperIndex \in Slots
  BY StepNames, Members DEF Typed, Threads, Data, Parts, Answers
<1>2. call' = [call EXCEPT !["app"] = g]
  BY DEF pubnub_disable_auto_heartbeat
<1>3. g \in Frames /\ g.of = c /\ g.at = "release" /\ g.then = "released"
        /\ g.thumper = pb[c].thumperIndex
  BY <1>1, IdleFrame, Members, StepNames DEF Frames
<1> HIDE DEF g
<1>4. Only("app") /\ call'["app"] = g
  BY <1>2, <1>3, Moves DEF Threads
<1> QED
  BY <1>3, <1>4

\* A subscribe goes on to prepare its channels.
LEMMA SubscribeMoves ==
    ASSUME Typed, NEW c \in Contexts, pubnub_subscribe(c)
    PROVE  /\ Only("app")
           /\ call'["app"].of = c /\ call'["app"].at = "prepare"
<1> DEFINE g == [Idle EXCEPT !.of = c, !.at = "prepare"]
<1>1. "app" \in Threads
  BY StepNames, Members DEF Typed, Threads, Data, Parts, Answers
<1>2. call' = [call EXCEPT !["app"] = g]
  BY DEF pubnub_subscribe
<1>3. g \in Frames /\ g.of = c /\ g.at = "prepare"
  BY <1>1, IdleFrame, Members, StepNames DEF Frames
<1> HIDE DEF g
<1>4. Only("app") /\ call'["app"] = g
  BY <1>2, <1>3, Moves DEF Threads
<1> QED
  BY <1>3, <1>4

\* A transaction in smart mode stops the heartbeats of its context first.
LEMMA OngoingMoves ==
    ASSUME Typed, NEW c \in Contexts, transaction_ongoing(c)
    PROVE  /\ Only("watcher")
           /\ call'["watcher"].of = c
           /\ call'["watcher"].at = IF pb[c].thumperIndex # UNASSIGNED
                /\ pb[c].use_smart_heartbeat
                                    THEN "ongoing" ELSE "parse"
<1> DEFINE l == IF pb[c].thumperIndex # UNASSIGNED /\ pb[c].use_smart_heartbeat
      THEN "ongoing" ELSE "parse"
           g == [Idle EXCEPT !.of = c, !.at = l]
<1>1. l \in Steps
  BY StepNames, Members DEF Typed, Threads, Data, Parts, Answers
<1>2. call' = [call EXCEPT !["watcher"] = g]
  BY DEF transaction_ongoing
<1> HIDE DEF l
<1>3. g \in Frames /\ g.of = c /\ g.at = l
  BY <1>1, IdleFrame, Members, StepNames DEF Frames
<1> HIDE DEF g
<1>4. Only("watcher") /\ call'["watcher"] = g
  BY <1>2, <1>3, Moves DEF Threads
<1> QED
  BY <1>3, <1>4 DEF l

\* After the answer the timer of the slot is started.
LEMMA ParsedMoves ==
    ASSUME Typed, index_read_again, call["watcher"].at = "parsed",
           pb[call["watcher"].of].thumperIndex # UNASSIGNED, call["watcher"].of \in Contexts
    PROVE  /\ Only("watcher")
           /\ call'["watcher"].of = call["watcher"].of /\ call'["watcher"].at = "start"
           /\ call'["watcher"].thumper = pb[call["watcher"].of].thumperIndex
<1> DEFINE f == call["watcher"]
           s == pb[f.of].thumperIndex
           g == [f EXCEPT !.at = "start", !.thumper = s]
<1>1. f \in Frames /\ s \in Slots
  BY StepNames, Members DEF Typed, Threads, Data, Parts, Answers
<1>2. call' = [call EXCEPT !["watcher"] = g]
  BY DEF index_read_again, StartTimer
<1> HIDE DEF s
<1>3. g \in Frames /\ g.of = f.of /\ g.at = "start" /\ g.thumper = s
  BY <1>1, IdleFrame, Members, StepNames DEF Frames
<1> HIDE DEF g
<1>4. Only("watcher") /\ call'["watcher"] = g
  BY <1>2, <1>3, Moves DEF Threads
<1> QED
  BY <1>3, <1>4 DEF s

\* stop_auto_heartbeat is called with the slot read a second time.
LEMMA StopMoves ==
    ASSUME Typed, index_read_again, call["watcher"].at = "ongoing",
           pb[call["watcher"].of].thumperIndex # UNASSIGNED, call["watcher"].of \in Contexts
    PROVE  /\ Only("watcher")
           /\ call'["watcher"].of = call["watcher"].of /\ call'["watcher"].at = "stop_auto"
           /\ call'["watcher"].then = "parse"
           /\ call'["watcher"].thumper = pb[call["watcher"].of].thumperIndex
<1> DEFINE f == call["watcher"]
           s == pb[f.of].thumperIndex
           g == [f EXCEPT !.at = "stop_auto", !.thumper = s, !.then = "parse"]
<1>1. f \in Frames /\ s \in Slots
  BY StepNames, Members DEF Typed, Threads, Data, Parts, Answers
<1>2. call' = [call EXCEPT !["watcher"] = g]
  BY DEF index_read_again, StartTimer
<1> HIDE DEF s
<1>3. g \in Frames /\ g.of = f.of /\ g.at = "stop_auto" /\ g.thumper = s /\ g.then = "parse"
  BY <1>1, IdleFrame, Members, StepNames DEF Frames
<1> HIDE DEF g
<1>4. Only("watcher") /\ call'["watcher"] = g
  BY <1>2, <1>3, Moves DEF Threads
<1> QED
  BY <1>3, <1>4 DEF s

\* A heartbeat transaction that ends calls auto_heartbeat_callback.
LEMMA EndMoves ==
    ASSUME Typed, NEW i \in Thumpers, NEW result \in Answers,
           call' = [call EXCEPT !["watcher"] = [Idle EXCEPT !.of = i, !.thumper = i,
               !.at = "callback",
                                                             !.result = result]]
    PROVE  /\ Only("watcher")
           /\ call'["watcher"].of = i /\ call'["watcher"].thumper = i
           /\ call'["watcher"].at = "callback"
<1> DEFINE g == [Idle EXCEPT !.of = i, !.thumper = i, !.at = "callback", !.result = result]
<1>1. "watcher" \in Threads
  BY StepNames, Members DEF Typed, Threads, Data, Parts, Answers
<1>2. call' = [call EXCEPT !["watcher"] = g]
  BY DEF Typed
<1>3. g \in Frames /\ g.of = i /\ g.thumper = i /\ g.at = "callback"
  BY <1>1, IdleFrame, Members, StepNames DEF Frames
<1> HIDE DEF g
<1>4. Only("watcher") /\ call'["watcher"] = g
  BY <1>2, <1>3, Moves DEF Threads
<1> QED
  BY <1>3, <1>4

\* auto_heartbeat_callback goes on to look at the context of its slot.
LEMMA NoticeMoves ==
    ASSUME Typed, NEW c \in Owned,
           call' = [call EXCEPT !["watcher"]
               = [call["watcher"] EXCEPT !.at = "callback_announce", !.pb = c]]
    PROVE  /\ Only("watcher")
           /\ call'["watcher"].of = call["watcher"].of
           /\ call'["watcher"].thumper = call["watcher"].thumper
           /\ call'["watcher"].at = "callback_announce" /\ call'["watcher"].pb = c
<1> DEFINE f == call["watcher"]
           g == [f EXCEPT !.at = "callback_announce", !.pb = c]
<1>1. f \in Frames
  BY StepNames, Members DEF Typed, Threads, Data, Parts, Answers
<1>2. call' = [call EXCEPT !["watcher"] = g]
  BY DEF Typed
<1>3. g \in Frames /\ g.of = f.of /\ g.thumper = f.thumper /\ g.at = "callback_announce"
        /\ g.pb = c
  BY <1>1, IdleFrame, Members, StepNames DEF Frames
<1> HIDE DEF g
<1>4. Only("watcher") /\ call'["watcher"] = g
  BY <1>2, <1>3, Moves DEF Threads
<1> QED
  BY <1>3, <1>4

\* form_heartbeat_thumper goes on to make a context for the slot.
LEMMA InitMoves ==
    ASSUME Typed, NEW i \in Thumpers,
           call' = [call EXCEPT !["app"].at = "init", !["app"].thumper = i]
    PROVE  /\ Only("app")
           /\ call'["app"].of = call["app"].of /\ call'["app"].thumper = i
           /\ call'["app"].at = "init" /\ call'["app"].period = call["app"].period
<1> DEFINE f == call["app"]
           g == [f EXCEPT !.at = "init", !.thumper = i]
<1>1. f \in Frames
  BY StepNames, Members DEF Typed, Threads, Data, Parts, Answers
<1>2. call' = [call EXCEPT !["app"] = g]
  BY DEF Typed
<1>3. g \in Frames /\ g.of = f.of /\ g.thumper = i /\ g.at = "init" /\ g.period = f.period
  BY <1>1, IdleFrame, Members, StepNames DEF Frames
<1> HIDE DEF g
<1>4. Only("app") /\ call'["app"] = g
  BY <1>2, <1>3, Moves DEF Threads
<1> QED
  BY <1>3, <1>4

\* A call that goes on to heartbeat_thump carries the context to beat for.
LEMMA ThumpFrame ==
    ASSUME NEW f \in Frames, NEW c \in Owned, NEW l \in Steps
    PROVE  LET g == Thump(f, c, l)
           IN  /\ g \in Frames /\ g.at = "thump" /\ g.pb = c /\ g.then = l
               /\ g.of = f.of /\ g.thumper = f.thumper /\ g.period = f.period
               /\ g.indexes = f.indexes /\ g.i = f.i
  BY StepNames DEF Frames, Thump

\* The callback starts the timer, thumps again, or is done.
LEMMA AnswerMoves ==
    ASSUME Typed, NEW c \in Owned, Answer(call["watcher"], c),
           call["watcher"].thumper \in Thumpers
    PROVE  LET f == call["watcher"]
               g == call'["watcher"]
           IN  /\ Only("watcher") /\ g.of = f.of /\ g.thumper = f.thumper
               /\ g.at \in {"start", "thump", "done"}
               /\ g.at = "thump" => g.pb = c /\ g.then = "done"
<1> DEFINE f == call["watcher"]
<1>1. f \in Frames
  BY DEF Typed, Threads
<1>2. PICK g : /\ call' = [call EXCEPT !["watcher"] = g]
               /\ g \in {StartTimer(f, f.thumper), Thump(f, c, "done"),
                    [f EXCEPT !.at = "done"]}
  BY DEF Answer
<1>3. /\ g \in Frames /\ g.of = f.of /\ g.thumper = f.thumper
           /\ g.at \in {"start", "thump", "done"}
      /\ g.at = "thump" => g.pb = c /\ g.then = "done"
  <2>1. CASE g = StartTimer(f, f.thumper)
    BY <1>1, <2>1, StepNames, Members DEF Frames, StartTimer
  <2>2. CASE g = Thump(f, c, "done")
    BY <1>1, <2>2, StepNames DEF Frames, Thump
  <2>3. CASE g = [f EXCEPT !.at = "done"]
    BY <1>1, <2>3, StepNames DEF Frames
  <2> QED BY <1>2, <2>1, <2>2, <2>3
<1>4. Only("watcher") /\ call'["watcher"] = g
  BY <1>2, <1>3, Moves DEF Threads
<1> QED BY <1>3, <1>4

\* start_heartbeat_timer announces with a thump, then goes on or is done.
LEMMA AnnounceMoves ==
    ASSUME Typed, start_announce("watcher"), call["watcher"].pb \in Contexts
    PROVE  LET f == call["watcher"]
               g == call'["watcher"]
               next == IF f.started /\ ~ pb[f.pb].use_smart_heartbeat THEN "done"
                   ELSE "start_period"
           IN  /\ Only("watcher") /\ g.of = f.of /\ g.thumper = f.thumper
               /\ g.pb = f.pb
               /\ (g.at = "thump" /\ g.then = next) \/ g.at = next
<1> DEFINE f == call["watcher"]
           next == IF f.started /\ ~ pb[f.pb].use_smart_heartbeat THEN "done"
               ELSE "start_period"
<1>1. f \in Frames /\ next \in Steps /\ f.pb \in Owned
  BY StepNames, Members DEF Typed, Threads
<1>2. PICK g : /\ call' = [call EXCEPT !["watcher"] = g]
               /\ g \in {Thump(f, f.pb, next), [f EXCEPT !.at = next]}
  BY DEF start_announce
<1> HIDE DEF next
<1>3. /\ g \in Frames /\ g.of = f.of /\ g.thumper = f.thumper /\ g.pb = f.pb
      /\ (g.at = "thump" /\ g.then = next) \/ g.at = next
  <2>1. CASE g = Thump(f, f.pb, next)
    BY <1>1, <2>1, ThumpFrame
  <2>2. CASE g = [f EXCEPT !.at = next]
    BY <1>1, <2>2 DEF Frames
  <2> QED BY <1>2, <2>1, <2>2
<1>4. Only("watcher") /\ call'["watcher"] = g
  BY <1>2, <1>3, Moves DEF Threads
<1> QED BY <1>3, <1>4 DEF next

\* start_heartbeat_timer reads whether the timer runs and whom the slot is for.
LEMMA StartMoves ==
    ASSUME Typed, start_is_started("watcher"), mutw = "watcher",
           call["watcher"].thumper \in Thumpers
    PROVE  LET f == call["watcher"]
               g == call'["watcher"]
           IN  /\ Only("watcher") /\ g.of = f.of /\ g.thumper = f.thumper
               /\ g.pb = heartbeat_data[f.thumper].pb
               /\ g.started = (heartbeat_timers[f.thumper] > 0)
               /\ g.at = IF g.pb = NULL THEN "start_period" ELSE "start_announce"
<1> DEFINE f == call["watcher"]
           l == IF heartbeat_data[f.thumper].pb = NULL THEN "start_period"
               ELSE "start_announce"
           b == heartbeat_timers[f.thumper] > 0
           c == heartbeat_data[f.thumper].pb
           g == [f EXCEPT !.at = l, !.started = b, !.pb = c]
<1>1. f \in Frames /\ l \in Steps /\ b \in BOOLEAN /\ c \in Owned
  BY StepNames DEF Typed, Threads, Data
<1>2. call' = [call EXCEPT !["watcher"] = g]
  BY DEF start_is_started
<1> HIDE DEF l, b, c
<1>3. g \in Frames /\ g.at = l /\ g.started = b /\ g.pb = c /\ g.of = f.of
        /\ g.thumper = f.thumper
  BY <1>1 DEF Frames
<1> HIDE DEF g
<1>4. Only("watcher") /\ call'["watcher"] = g
  BY <1>2, <1>3, Moves DEF Threads
<1> QED BY <1>3, <1>4 DEF l, b, c

\* start_heartbeat_timer reads the period of the slot.
LEMMA TimedMoves ==
    ASSUME Typed, start_period("watcher"), call["watcher"].thumper \in Thumpers
    PROVE  /\ Only("watcher")
           /\ call'["watcher"].of = call["watcher"].of
           /\ call'["watcher"].thumper = call["watcher"].thumper
           /\ call'["watcher"].at = "start_timer"
           /\ call'["watcher"].period = heartbeat_data[call["watcher"].thumper].period_sec
<1> DEFINE f == call["watcher"]
           s == heartbeat_data[f.thumper].period_sec
           g == [f EXCEPT !.at = "start_timer", !.period = s]
<1>1. f \in Frames /\ s \in Seconds
  BY StepNames, Members DEF Typed, Threads, Data, Parts, Answers
<1>2. call' = [call EXCEPT !["watcher"] = g]
  BY DEF start_period
<1> HIDE DEF s
<1>3. g \in Frames /\ g.of = f.of /\ g.thumper = f.thumper /\ g.at = "start_timer"
        /\ g.period = s
  BY <1>1, IdleFrame, Members, StepNames DEF Frames
<1> HIDE DEF g
<1>4. Only("watcher") /\ call'["watcher"] = g
  BY <1>2, <1>3, Moves DEF Threads
<1> QED
  BY <1>3, <1>4 DEF s

\* The watcher's call is over.
LEMMA DoneMoves ==
    ASSUME Typed, call' = [call EXCEPT !["watcher"] = Idle]
    PROVE  /\ Only("watcher")
           /\ call'["watcher"] = Idle
<1> DEFINE g == Idle
<1>1. "watcher" \in Threads
  BY StepNames, Members DEF Typed, Threads, Data, Parts, Answers
<1>2. call' = [call EXCEPT !["watcher"] = g]
  BY DEF Typed
<1>3. g \in Frames /\ g = Idle
  BY <1>1, IdleFrame, Members, StepNames DEF Frames
<1> HIDE DEF g
<1>4. Only("watcher") /\ call'["watcher"] = g
  BY <1>2, <1>3, Moves DEF Threads
<1> QED
  BY <1>3, <1>4

\* The heartbeat watcher begins to go over the array.
LEMMA WakeMoves ==
    ASSUME Typed, heart_wakes
    PROVE  /\ Only("heart")
           /\ call'["heart"].at = "timers" /\ call'["heart"].indexes = timer_index_array
           /\ call'["heart"].i = 1
<1> DEFINE g == [Idle EXCEPT !.at = "timers", !.indexes = timer_index_array]
<1>1. timer_index_array \in Indexes
  BY StepNames, Members DEF Typed, Threads, Data, Parts, Answers
<1>2. call' = [call EXCEPT !["heart"] = g]
  BY DEF heart_wakes
<1>3. g \in Frames /\ g.at = "timers" /\ g.indexes = timer_index_array /\ g.i = 1
  BY <1>1, IdleFrame, Members, StepNames DEF Frames
<1> HIDE DEF g
<1>4. Only("heart") /\ call'["heart"] = g
  BY <1>2, <1>3, Moves DEF Threads
<1> QED
  BY <1>3, <1>4

\* The heartbeat watcher has gone over the array.
LEMMA SleepMoves ==
    ASSUME Typed, heart_sleeps
    PROVE  /\ Only("heart")
           /\ call'["heart"] = Idle
<1> DEFINE g == Idle
<1>1. "heart" \in Threads
  BY StepNames, Members DEF Typed, Threads, Data, Parts, Answers
<1>2. call' = [call EXCEPT !["heart"] = g]
  BY DEF heart_sleeps
<1>3. g \in Frames /\ g = Idle
  BY <1>1, IdleFrame, Members, StepNames DEF Frames
<1> HIDE DEF g
<1>4. Only("heart") /\ call'["heart"] = g
  BY <1>2, <1>3, Moves DEF Threads
<1> QED
  BY <1>3, <1>4

\* A timer that expired calls heartbeat_thump for the context of its slot.
LEMMA ExpiredMoves ==
    ASSUME Typed, expired, call["heart"].thumper \in Thumpers
    PROVE  /\ Only("heart")
           /\ LET f == call["heart"]
                  g == call'["heart"]
              IN  /\ g.at = "thump" /\ g.pb = heartbeat_data[f.thumper].pb
                       /\ g.then = "timers"
                  /\ g.thumper = f.thumper /\ g.indexes = f.indexes /\ g.i = f.i
<1> DEFINE f == call["heart"]
           c == heartbeat_data[f.thumper].pb
           g == Thump(f, c, "timers")
<1>1. f \in Frames /\ c \in Owned
  BY StepNames, Members DEF Typed, Threads, Data, Parts, Answers
<1>2. call' = [call EXCEPT !["heart"] = g]
  BY DEF expired
<1> HIDE DEF c
<1>3. g \in Frames /\ g.at = "thump" /\ g.pb = c /\ g.then = "timers"
        /\ g.thumper = f.thumper /\ g.indexes = f.indexes /\ g.i = f.i
  BY <1>1, StepNames DEF Frames, Thump
<1> HIDE DEF g
<1>4. Only("heart") /\ call'["heart"] = g
  BY <1>2, <1>3, Moves DEF Threads
<1> QED
  BY <1>3, <1>4 DEF c

-----------------------------------------------------------------------------
(* Arrays of slots: taking an element out, appending one, counting *)

\* Slot x is in the array,
Occurs(s, x) == \E k \in 1 .. Len(s) : s[k] = x

\* ... and is in it once at most.
Once(s, x) == \A j, k \in 1 .. Len(s) : s[j] = x /\ s[k] = x => j = k

\* remove_heartbeat_timer moves the rest of the array down by one.
LEMMA TakenOut ==
    ASSUME NEW s \in Seq(Thumpers), NEW k \in 1 .. Len(s)
    PROVE  /\ TakeOut(s, k) \in Seq(Thumpers) /\ Len(TakeOut(s, k)) = Len(s) - 1
           /\ \A j \in 1 .. Len(s) - 1 :
                 TakeOut(s, k)[j] = IF j < k THEN s[j] ELSE s[j + 1]
<1> DEFINE a == SubSeq(s, 1, k - 1)
           b == SubSeq(s, k + 1, Len(s))
<1>1. Len(s) \in Nat /\ \A j \in 1 .. Len(s) : s[j] \in Thumpers
  BY LenProperties, ElementOfSeq
<1>2. /\ a \in Seq(Thumpers) /\ Len(a) = k - 1
      /\ \A j \in 1 .. k - 1 : a[j] = s[j]
  <2>1. \A j \in 1 .. k - 1 : s[j] \in Thumpers
    BY <1>1
  <2>2. /\ a \in Seq(Thumpers) /\ Len(a) = IF 1 <= k - 1 THEN k - 1 - 1 + 1 ELSE 0
        /\ \A j \in 1 .. (k - 1) - 1 + 1 : a[j] = s[1 + j - 1]
    BY <1>1, <2>1, SubSeqProperties
  <2> QED
    BY <1>1, <2>2
<1>3. /\ b \in Seq(Thumpers) /\ Len(b) = Len(s) - k
      /\ \A j \in 1 .. Len(s) - k : b[j] = s[k + j]
  <2>1. \A j \in k + 1 .. Len(s) : s[j] \in Thumpers
    BY <1>1
  <2>2. /\ b \in Seq(Thumpers) /\ Len(b) = IF k + 1 <= Len(s) THEN Len(s) - (k + 1) + 1
             ELSE 0
        /\ \A j \in 1 .. Len(s) - (k + 1) + 1 : b[j] = s[(k + 1) + j - 1]
    BY <1>1, <2>1, SubSeqProperties
  <2> QED
    BY <1>1, <2>2
<1>4. TakeOut(s, k) = a \o b
  BY DEF TakeOut, RemoveAt
<1> HIDE DEF a, b
<1>5. /\ a \o b \in Seq(Thumpers) /\ Len(a \o b) = Len(a) + Len(b)
      /\ \A j \in 1 .. Len(a) + Len(b) : (a \o b)[j] = IF j <= Len(a) THEN a[j]
           ELSE b[j - Len(a)]
  BY <1>2, <1>3, ConcatProperties
<1>6. \A j \in 1 .. Len(s) - 1 : (a \o b)[j] = IF j < k THEN s[j] ELSE s[j + 1]
  <2> SUFFICES ASSUME NEW j \in 1 .. Len(s) - 1
               PROVE  (a \o b)[j] = IF j < k THEN s[j] ELSE s[j + 1]
    OBVIOUS
  <2>1. /\ k \in Nat /\ j \in 1 .. Len(a) + Len(b)
        /\ (a \o b)[j] = IF j <= Len(a) THEN a[j] ELSE b[j - Len(a)]
    BY <1>1, <1>2, <1>3, <1>5
  <2>2. CASE j < k
    BY <1>1, <1>2, <2>1, <2>2
  <2>3. CASE ~ (j < k)
    <3>1. /\ j - Len(a) \in 1 .. Len(s) - k /\ k + (j - Len(a)) = j + 1
          /\ ~ (j <= Len(a))
      BY <1>1, <1>2, <2>1, <2>3
    <3> QED
      BY <1>3, <2>1, <2>3, <3>1
  <2> QED
    BY <2>2, <2>3
<1>7. a \o b \in Seq(Thumpers) /\ Len(a \o b) = Len(s) - 1
  BY <1>1, <1>2, <1>3, <1>5
<1> QED
  BY <1>4, <1>6, <1>7, Zenon

\* Another slot is in the array as it was; the slot taken out, having been in it
\* once, is in it no more.
LEMMA Removal ==
    ASSUME NEW s \in Seq(Thumpers), NEW k \in 1 .. Len(s), NEW x
    PROVE  /\ x # s[k] => (Occurs(TakeOut(s, k), x) <=> Occurs(s, x))
           /\ Once(s, x) => Once(TakeOut(s, k), x)
           /\ Once(s, x) /\ x = s[k] => ~ Occurs(TakeOut(s, k), x)
<1> DEFINE r == TakeOut(s, k)
<1>1. /\ r \in Seq(Thumpers) /\ Len(r) = Len(s) - 1 /\ Len(s) \in Nat
      /\ \A j \in 1 .. Len(s) - 1 : r[j] = IF j < k THEN s[j] ELSE s[j + 1]
  BY TakenOut, LenProperties
<1> HIDE DEF r
<1>2. ASSUME x # s[k], Occurs(r, x) PROVE Occurs(s, x)
  <2>1. PICK j \in 1 .. Len(s) - 1 : r[j] = x
    BY <1>1, <1>2 DEF Occurs
  <2>2. CASE j < k
    BY <1>1, <2>1, <2>2 DEF Occurs
  <2>3. CASE ~ (j < k)
    BY <1>1, <2>1, <2>3 DEF Occurs
  <2> QED BY <2>2, <2>3
<1>3. ASSUME x # s[k], Occurs(s, x) PROVE Occurs(r, x)
  <2>1. PICK j \in 1 .. Len(s) : s[j] = x
    BY <1>3 DEF Occurs
  <2>2. CASE j < k
    BY <1>1, <2>1, <2>2 DEF Occurs
  <2>3. CASE j > k
    <3>1. j - 1 \in 1 .. Len(s) - 1 /\ r[j - 1] = x
      BY <1>1, <2>1, <2>3
    <3> QED BY <1>1, <3>1 DEF Occurs
  <2> QED BY <1>3, <2>1, <2>2, <2>3
<1>4. ASSUME Once(s, x) PROVE Once(r, x)
  BY <1>1, <1>4 DEF Once
<1>5. ASSUME Once(s, x), x = s[k] PROVE ~ Occurs(r, x)
  <2> SUFFICES ASSUME NEW j \in 1 .. Len(s) - 1 PROVE r[j] # x
    BY <1>1 DEF Occurs
  <2> QED BY <1>1, <1>5 DEF Once
<1> QED BY <1>2, <1>3, <1>4, <1>5 DEF r

\* start_heartbeat_timer puts its slot at the end of the array.
LEMMA Appending ==
    ASSUME NEW s \in Seq(Thumpers), NEW y \in Thumpers, NEW x
    PROVE  /\ Append(s, y) \in Seq(Thumpers) /\ Len(Append(s, y)) = Len(s) + 1
           /\ Occurs(Append(s, y), x) <=> (x = y \/ Occurs(s, x))
           /\ x # y => (Once(s, x) => Once(Append(s, y), x))
           /\ ~ Occurs(s, y) => Once(Append(s, y), y)
<1> DEFINE r == Append(s, y)
<1>1. /\ r \in Seq(Thumpers) /\ Len(r) = Len(s) + 1 /\ Len(s) \in Nat
      /\ \A j \in 1 .. Len(s) : r[j] = s[j]
      /\ r[Len(s) + 1] = y
  BY AppendProperties, LenProperties
<1> HIDE DEF r
<1>2. Occurs(r, x) <=> (x = y \/ Occurs(s, x))
  BY <1>1 DEF Occurs
<1>3. x # y /\ Once(s, x) => Once(r, x)
  BY <1>1 DEF Once
<1>4. ~ Occurs(s, y) => Once(r, y)
  BY <1>1 DEF Once, Occurs
<1> QED BY <1>1, <1>2, <1>3, <1>4 DEF r

\* An array that has every slot at most once and one not at all has room.
LEMMA Crowded ==
    ASSUME NEW s \in Seq(Thumpers), \A x \in Thumpers : Once(s, x), NEW y \in Thumpers,
           ~ Occurs(s, y)
    PROVE  Len(s) < MaxThumpers
<1>1. Len(s) \in Nat /\ s \in [1 .. Len(s) -> Thumpers]
  BY LenProperties
<1>2. /\ IsFiniteSet(1 .. Len(s)) /\ Cardinality(1 .. Len(s)) = Len(s)
      /\ IsFiniteSet(Thumpers) /\ Cardinality(Thumpers) = MaxThumpers
  <2>1. \A a, b \in Int : /\ IsFiniteSet(a .. b)
                          /\ Cardinality(a .. b) = IF a > b THEN 0 ELSE b - a + 1
    BY FS_Interval
  <2>2. Cardinality(1 .. Len(s)) = IF 1 > Len(s) THEN 0 ELSE Len(s) - 1 + 1
    BY <1>1, <2>1
  <2>3. Cardinality(Thumpers) = IF 0 > MaxThumpers - 1 THEN 0 ELSE MaxThumpers - 1 - 0 + 1
    BY <2>1, ThumpersAssumption DEF Thumpers
  <2>4. IsFiniteSet(1 .. Len(s)) /\ IsFiniteSet(Thumpers)
    BY <1>1, <2>1, ThumpersAssumption DEF Thumpers
  <2> QED
    BY <1>1, <2>2, <2>3, <2>4, ThumpersAssumption
<1>3. IsFiniteSet(Thumpers \ {y}) /\ Cardinality(Thumpers \ {y}) = MaxThumpers - 1
  BY <1>2, FS_RemoveElement
<1>4. s \in [1 .. Len(s) -> Thumpers \ {y}]
  BY <1>1 DEF Occurs
<1>5. SUFFICES ASSUME Len(s) >= MaxThumpers PROVE FALSE
  BY <1>1, ThumpersAssumption
<1>6. Cardinality(Thumpers \ {y}) < Cardinality(1 .. Len(s))
  BY <1>1, <1>2, <1>3, <1>5, ThumpersAssumption
<1>7. PICK j, k \in 1 .. Len(s) : j # k /\ s[j] = s[k]
  BY <1>2, <1>3, <1>4, <1>6, FS_PigeonHole
<1> QED
  BY <1>1, <1>7 DEF Once

\* A slot that is in the array once is counted once, and one that is not, never.
LEMMA Counting ==
    ASSUME NEW s \in Seq(Thumpers), NEW x
    PROVE  LET n == Cardinality({k \in DOMAIN s : s[k] = x})
           IN  /\ Once(s, x) /\ Occurs(s, x) => n = 1
               /\ ~ Occurs(s, x) => n = 0
<1> DEFINE P == {k \in DOMAIN s : s[k] = x}
<1>1. DOMAIN s = 1 .. Len(s)
  BY LenProperties
<1>2. ~ Occurs(s, x) => P = {}
  BY <1>1 DEF Occurs
<1>3. ASSUME Once(s, x), Occurs(s, x) PROVE \E k : P = {k}
  <2>1. PICK k \in 1 .. Len(s) : s[k] = x
    BY <1>3 DEF Occurs
  <2>2. P = {k}
    BY <1>1, <1>3, <2>1 DEF Once
  <2> QED BY <2>2
<1> HIDE DEF P
<1>4. \A k : Cardinality({k}) = 1
  BY FS_Singleton
<1> QED
  BY <1>2, <1>3, <1>4, FS_EmptySet DEF P

-----------------------------------------------------------------------------
(* Slots and contexts: the inductive invariant *)

\* The first slot without a context (form_heartbeat_thumper)
First == Min({k \in Thumpers : heartbeat_data[k].pb = NULL})

\* A beat that ends is announced to a context that still has the slot.
Noticed ==
    LET c == heartbeat_data[call["watcher"].thumper].pb
    IN  c # NULL /\ ~ pb[c].use_smart_heartbeat

\* Where start_heartbeat_timer goes on once it has announced
Onward == IF call["watcher"].started /\ ~ pb[call["watcher"].pb].use_smart_heartbeat
          THEN "done" ELSE "start_period"

\* A call that gives up a slot has cleared the slot and not yet the context.
Ending == {"stop", "stop_timer", "released"}

\* A slot names a context exactly when the context names the slot, but for a
\* call between the two assignments.
Tenure ==
    /\ \A c \in Contexts, i \in Thumpers :
         heartbeat_data[i].pb = c <=>
           /\ pb[c].thumperIndex = i
           /\ ~ (call["app"].of = c /\ call["app"].at \in Ending)
    /\ call["app"].at \in {"form", "init"} => pb[call["app"].of].thumperIndex = UNASSIGNED
    /\ call["app"].at \in {"release"} \cup Ending =>
         pb[call["app"].of].thumperIndex = call["app"].thumper
    /\ call["app"].at = "init" => heartbeat_data[call["app"].thumper].pb = NULL

\* The slots with a context, which thumpers_in_use counts
Taken == {i \in Thumpers : heartbeat_data[i].pb # NULL}
Counted == thumpers_in_use = Cardinality(Taken)

\* There are PUBNUB_MAX_HEARTBEAT_THUMPERS slots.
LEMMA SlotsFinite == IsFiniteSet(Thumpers) /\ Cardinality(Thumpers) = MaxThumpers
<1>1. \A a, b \in Int : /\ IsFiniteSet(a .. b)
                        /\ Cardinality(a .. b) = IF a > b THEN 0 ELSE b - a + 1
  BY FS_Interval
<1>2. Cardinality(Thumpers) = IF 0 > MaxThumpers - 1 THEN 0 ELSE MaxThumpers - 1 - 0 + 1
  BY <1>1, ThumpersAssumption DEF Thumpers
<1>3. IsFiniteSet(Thumpers)
  BY <1>1, ThumpersAssumption DEF Thumpers
<1> QED BY <1>2, <1>3, ThumpersAssumption

\* While fewer slots are counted than there are, form_heartbeat_thumper finds one.
LEMMA FirstFree ==
    ASSUME Counted, thumpers_in_use < MaxThumpers
    PROVE  First \in Thumpers /\ heartbeat_data[First].pb = NULL
<1> DEFINE S == {k \in Thumpers : heartbeat_data[k].pb = NULL}
<1>1. ASSUME S = {} PROVE FALSE
  <2>1. Taken = Thumpers
    BY <1>1 DEF Taken
  <2>2. thumpers_in_use = MaxThumpers
    BY <2>1, SlotsFinite DEF Counted
  <2> QED BY <2>2, ThumpersAssumption
<1>2. S \subseteq Nat
  BY Members
<1>3. Min(S) \in S
  BY <1>1, <1>2, MinOf
<1> QED
  BY <1>3 DEF First

\* A context has no slot or one of them.
LEMMA IndexKinds ==
    ASSUME Typed, NEW c \in Contexts
    PROVE  pb[c].thumperIndex = UNASSIGNED \/ pb[c].thumperIndex \in Thumpers
  BY DEF Typed, Parts, Slots

\* A call returns to a place a call may stand at.
LEMMA ThenSteps ==
    ASSUME Typed, NEW t \in Threads
    PROVE  call[t].then \in Steps
  BY DEF Typed, Frames

\* handle_heartbeat_timers counts the timer down and goes on to the next, or takes
\* it out of the array and thumps.
LEMMA HandleMoves ==
    ASSUME Typed, handle_heartbeat_timers
    PROVE  LET f == call["heart"]
               g == call'["heart"]
               i == f.indexes[f.i]
           IN  /\ Only("heart") /\ f.at = "timers" /\ i \in Thumpers
                    /\ f.i \in 1 .. Len(f.indexes)
               /\ f.indexes \in Seq(Thumpers)
               /\ \/ /\ heartbeat_timers[i] <= 1 /\ g.at = "expired" /\ g.thumper = i
                     /\ g.indexes = TakeOut(f.indexes, f.i) /\ g.i = f.i
                     /\ heartbeat_timers' = [heartbeat_timers EXCEPT ![i] = 0]
                  \/ /\ heartbeat_timers[i] > 1 /\ g.at = "timers" /\ g.i = f.i + 1
                     /\ g.indexes = f.indexes
                     /\ heartbeat_timers' = [heartbeat_timers EXCEPT ![i]
                          = heartbeat_timers[i] - 1]
<1> DEFINE f == call["heart"]
           i == f.indexes[f.i]
           s == TakeOut(f.indexes, f.i)
           n == f.i + 1
           g == [f EXCEPT !.indexes = s, !.thumper = i, !.at = "expired"]
           h == [f EXCEPT !.i = n]
<1>1. /\ f \in Frames /\ f.at = "timers" /\ f.i \in 1 .. Len(f.indexes)
      /\ f.indexes \in Seq(Thumpers) /\ Len(f.indexes) <= MaxThumpers
  BY LenProperties DEF handle_heartbeat_timers, Typed, Threads, Frames, Indexes
<1>2. i \in Thumpers
  BY <1>1, ElementOfSeq
<1>3. heartbeat_timers[i] \in Nat /\ i \in Slots
  BY <1>2, Members DEF Typed
<1>4. s \in Indexes
  BY <1>1, TakenOut, LenProperties, ThumpersAssumption DEF Indexes
<1>5. n \in Nat \ {0}
  BY <1>1
<1>6. CASE heartbeat_timers[i] - 1 <= 0
  <2>1. call' = [call EXCEPT !["heart"] = g]
          /\ heartbeat_timers' = [heartbeat_timers EXCEPT ![i] = 0]
    BY <1>6 DEF handle_heartbeat_timers
  <2> HIDE DEF s, i
  <2>2. g \in Frames /\ g.indexes = s /\ g.thumper = i /\ g.at = "expired" /\ g.i = f.i
    BY <1>1, <1>3, <1>4, StepNames DEF Frames
  <2> HIDE DEF g
  <2>3. Only("heart") /\ call'["heart"] = g
    BY <2>1, <2>2, Moves DEF Threads
  <2> QED
    BY <1>1, <1>2, <1>3, <1>6, <2>1, <2>2, <2>3 DEF i, s
<1>7. CASE ~ (heartbeat_timers[i] - 1 <= 0)
  <2>1. /\ call' = [call EXCEPT !["heart"] = h]
        /\ heartbeat_timers' = [heartbeat_timers EXCEPT ![i] = heartbeat_timers[i] - 1]
    BY <1>7 DEF handle_heartbeat_timers
  <2> HIDE DEF n, i
  <2>2. h \in Frames /\ h.indexes = f.indexes /\ h.at = f.at /\ h.i = n
    BY <1>1, <1>5 DEF Frames
  <2> HIDE DEF h
  <2>3. Only("heart") /\ call'["heart"] = h
    BY <2>1, <2>2, Moves DEF Threads
  <2> QED
    BY <1>1, <1>2, <1>3, <1>7, <2>1, <2>2, <2>3 DEF i, n
<1> QED BY <1>6, <1>7

-----------------------------------------------------------------------------
(* What each operation does to the calls *)

\* What pubnub_enable_auto_heartbeat does to the calls in progress
LEMMA EnableDoes ==
    ASSUME Typed, Shaped, Counted, NEW c \in Contexts, NEW period \in Periods,
           pubnub_enable_auto_heartbeat(c, period)
    PROVE  /\ Only("app")
           /\ call["app"].at = "idle" /\ call'["app"].of = c /\ call'["app"].period = period
           /\ call'["app"].at = IF pb[c].thumperIndex = UNASSIGNED THEN "form"
                ELSE "set_period"
  BY EnableMoves DEF pubnub_enable_auto_heartbeat, Called

\* What pubnub_set_heartbeat_period does to the calls in progress
LEMMA SetPeriodDoes ==
    ASSUME Typed, Shaped, Counted, NEW c \in Contexts, NEW period \in Periods,
           pubnub_set_heartbeat_period(c, period)
    PROVE  /\ Only("app")
           /\ call["app"].at = "idle" /\ call'["app"].of = c /\ call'["app"].period = period
           /\ call'["app"].at = "set_period"
  BY PeriodMoves DEF pubnub_set_heartbeat_period, Called

\* What pubnub_disable_auto_heartbeat does to the calls in progress
LEMMA DisableDoes ==
    ASSUME Typed, Shaped, Counted, NEW c \in Contexts, pubnub_disable_auto_heartbeat(c)
    PROVE  /\ Only("app")
           /\ call["app"].at = "idle"
           /\ \/ pb[c].thumperIndex = UNASSIGNED /\ call'["app"] = call["app"]
              \/ /\ pb[c].thumperIndex # UNASSIGNED /\ pb[c].thumperIndex \in Thumpers
                 /\ call'["app"].of = c /\ call'["app"].at = "release"
                 /\ call'["app"].then = "released"
                 /\ call'["app"].thumper = pb[c].thumperIndex
<1>1. CASE pb[c].thumperIndex = UNASSIGNED
  BY <1>1 DEF Typed, Only, pubnub_disable_auto_heartbeat, Called
<1>2. CASE pb[c].thumperIndex # UNASSIGNED
  BY <1>2, DisableMoves, IndexKinds DEF pubnub_disable_auto_heartbeat, Called
<1> QED
  BY <1>1, <1>2 DEF pubnub_disable_auto_heartbeat, Called, First

\* What pubnub_smart_heartbeat does to the calls in progress
LEMMA SmartDoes ==
    ASSUME Typed, Shaped, Counted, NEW c \in Contexts, NEW enable \in BOOLEAN,
           pubnub_smart_heartbeat(c, enable)
    PROVE  /\ Only("app")
           /\ call["app"].at = "idle" /\ call' = call /\ call'["app"] = call["app"]
  BY DEF Typed, Only, pubnub_smart_heartbeat, Called

\* What pubnub_subscribe does to the calls in progress
LEMMA SubscribeDoes ==
    ASSUME Typed, Shaped, Counted, NEW c \in Contexts, pubnub_subscribe(c)
    PROVE  /\ Only("app")
           /\ call["app"].at = "idle" /\ call'["app"].of = c /\ call'["app"].at = "prepare"
  BY SubscribeMoves DEF pubnub_subscribe, Called

\* What pubnub_leave does to the calls in progress
LEMMA LeaveDoes ==
    ASSUME Typed, Shaped, Counted, NEW c \in Contexts, pubnub_leave(c)
    PROVE  /\ Only("app")
           /\ call["app"].at = "idle" /\ call' = call /\ call'["app"] = call["app"]
  BY DEF Typed, Only, pubnub_leave, Called

\* What form_heartbeat_thumper does to the calls in progress
LEMMA FormDoes ==
    ASSUME Typed, Shaped, Counted, form_heartbeat_thumper
    PROVE  /\ Only("app")
           /\ call["app"].at = "form"
           /\ \/ thumpers_in_use >= MaxThumpers /\ call'["app"] = Idle
              \/ /\ thumpers_in_use < MaxThumpers /\ First \in Thumpers
                      /\ heartbeat_data[First].pb = NULL
                 /\ \/ heartbeat_data[First].keys # NoKeys
                         /\ call'["app"].at = "set_period"
                         /\ Kept(call["app"], call'["app"])
                    \/ /\ heartbeat_data[First].keys = NoKeys /\ call'["app"].at = "init"
                       /\ call'["app"].of = call["app"].of
                       /\ call'["app"].period = call["app"].period
                       /\ call'["app"].thumper = First
<1>1. CASE thumpers_in_use >= MaxThumpers /\ app_returns
  BY <1>1, Returns DEF form_heartbeat_thumper
<1>2. CASE thumpers_in_use < MaxThumpers /\ heartbeat_data[First].keys # NoKeys
        /\ Goto("app", "set_period")
  BY <1>2, FirstFree, GoesTo, StepNames DEF form_heartbeat_thumper, Threads
<1>3. CASE /\ thumpers_in_use < MaxThumpers /\ heartbeat_data[First].keys = NoKeys
             /\ call' = [call EXCEPT !["app"].at = "init", !["app"].thumper = First]
  BY <1>3, FirstFree, InitMoves DEF form_heartbeat_thumper
<1> QED
  BY <1>1, <1>2, <1>3 DEF form_heartbeat_thumper, Formed, First

\* What init_new_thumper_pb does to the calls in progress
LEMMA NewThumperDoes ==
    ASSUME Typed, Shaped, Counted, init_new_thumper_pb
    PROVE  /\ Only("app")
           /\ call["app"].at = "init"
           /\ \/ call'["app"].at = "set_period" /\ Kept(call["app"], call'["app"])
              \/ call'["app"] = Idle
<1>1. CASE Goto("app", "set_period")
  BY <1>1, GoesTo, StepNames DEF init_new_thumper_pb, Threads
<1>2. CASE app_returns
  BY <1>2, Returns DEF init_new_thumper_pb
<1> QED
  BY <1>1, <1>2 DEF init_new_thumper_pb, Formed, First

\* What set_period_lock does to the calls in progress
LEMMA PeriodLockDoes ==
    ASSUME Typed, Shaped, Counted, set_period_lock
    PROVE  /\ Only("app")
           /\ call["app"].at = "set_period"
           /\ \/ pb[call["app"].of].thumperIndex = UNASSIGNED /\ call'["app"] = Idle
              \/ /\ pb[call["app"].of].thumperIndex # UNASSIGNED
                 /\ call'["app"].at = "setting_period" /\ Kept(call["app"], call'["app"])
<1>1. CASE pb[call["app"].of].thumperIndex # UNASSIGNED
  BY <1>1, GoesTo, StepNames DEF set_period_lock, Threads
<1>2. CASE pb[call["app"].of].thumperIndex = UNASSIGNED
  BY <1>2, Returns DEF set_period_lock
<1> QED
  BY <1>1, <1>2 DEF set_period_lock, First

\* What setting_period does to the calls in progress
LEMMA SettingDoes ==
    ASSUME Typed, Shaped, Counted, setting_period
    PROVE  /\ Only("app")
           /\ call["app"].at = "setting_period" /\ call'["app"] = Idle
  BY Returns DEF setting_period

\* What release_thumper does to the calls in progress
LEMMA ReleaseDoes ==
    ASSUME Typed, Shaped, Counted, release_thumper
    PROVE  /\ Only("app")
           /\ call["app"].at = "release" /\ call'["app"].at = "stop"
           /\ Kept(call["app"], call'["app"])
  BY GoesTo, StepNames DEF release_thumper, Threads

\* What stop_heartbeat does to the calls in progress
LEMMA StopDoes ==
    ASSUME Typed, Shaped, Counted, NEW t \in {"app", "watcher"}, stop_heartbeat(t)
    PROVE  /\ Only(t)
           /\ call[t].at = "stop" /\ Kept(call[t], call'[t])
           /\ call'[t].at = IF CanStart(beat[call[t].thumper]) THEN "stop_timer"
                ELSE call[t].then
<1>1. CASE CanStart(beat[call[t].thumper])
  BY <1>1, GoesTo, StepNames DEF stop_heartbeat, Threads
<1>2. CASE ~ CanStart(beat[call[t].thumper])
  BY <1>2, GoesTo, ThenSteps DEF stop_heartbeat, Threads
<1> QED
  BY <1>1, <1>2 DEF stop_heartbeat, First

\* What auto_heartbeat_stop_timer does to the calls in progress
LEMMA StopTimerDoes ==
    ASSUME Typed, Shaped, Counted, NEW t \in {"app", "watcher"},
           auto_heartbeat_stop_timer(t)
    PROVE  /\ Only(t)
           /\ call[t].at = "stop_timer" /\ Kept(call[t], call'[t])
           /\ call'[t].at = call[t].then
  BY GoesTo, ThenSteps DEF auto_heartbeat_stop_timer, Threads

\* What released does to the calls in progress
LEMMA ReleasedDoes ==
    ASSUME Typed, Shaped, Counted, released
    PROVE  /\ Only("app")
           /\ call["app"].at = "released" /\ call'["app"] = Idle
  BY Returns DEF released

\* What prepare_channels_and_ch_groups does to the calls in progress
LEMMA PrepareDoes ==
    ASSUME Typed, Shaped, Counted, prepare_channels_and_ch_groups
    PROVE  /\ Only("app")
           /\ call["app"].at = "prepare" /\ call'["app"] = Idle
  BY Returns DEF prepare_channels_and_ch_groups

\* What transaction_ongoing does to the calls in progress
LEMMA OngoingDoes ==
    ASSUME Typed, Shaped, Counted, NEW c \in Contexts, transaction_ongoing(c)
    PROVE  /\ Only("watcher")
           /\ call["watcher"].at = "idle" /\ call'["watcher"].of = c
           /\ call'["watcher"].at = IF pb[c].thumperIndex # UNASSIGNED
                /\ pb[c].use_smart_heartbeat
                                   THEN "ongoing" ELSE "parse"
  BY OngoingMoves DEF transaction_ongoing

\* What index_read_again does to the calls in progress
LEMMA ReadAgainDoes ==
    ASSUME Typed, Shaped, Counted, index_read_again
    PROVE  /\ Only("watcher")
           /\ call["watcher"].of \in Contexts
           /\ call["watcher"].at \in {"ongoing", "parsed"}
           /\ \/ pb[call["watcher"].of].thumperIndex = UNASSIGNED
                   /\ call'["watcher"] = call["watcher"]
              \/ /\ pb[call["watcher"].of].thumperIndex \in Thumpers
                 /\ call'["watcher"].of = call["watcher"].of
                 /\ call'["watcher"].thumper = pb[call["watcher"].of].thumperIndex
                 /\ \/ call["watcher"].at = "parsed" /\ call'["watcher"].at = "start"
                    \/ /\ call["watcher"].at = "ongoing"
                            /\ call'["watcher"].at = "stop_auto"
                       /\ call'["watcher"].then = "parse"
<1>1. call["watcher"].of \in Contexts
  BY DEF index_read_again, Shaped, WatcherFrame, Stops
<1>2. CASE pb[call["watcher"].of].thumperIndex = UNASSIGNED
  BY <1>1, <1>2 DEF Typed, Only, index_read_again
<1>3. CASE pb[call["watcher"].of].thumperIndex # UNASSIGNED /\ call["watcher"].at = "parsed"
  BY <1>1, <1>3, ParsedMoves, IndexKinds DEF index_read_again
<1>4. CASE pb[call["watcher"].of].thumperIndex # UNASSIGNED
        /\ call["watcher"].at = "ongoing"
  BY <1>1, <1>4, StopMoves, IndexKinds DEF index_read_again
<1> QED
  BY <1>1, <1>2, <1>3, <1>4 DEF index_read_again, First

\* What stop_auto_heartbeat does to the calls in progress
LEMMA StopAutoDoes ==
    ASSUME Typed, Shaped, Counted, stop_auto_heartbeat
    PROVE  /\ Only("watcher")
           /\ call["watcher"].at = "stop_auto" /\ call'["watcher"].at = "stop"
           /\ Kept(call["watcher"], call'["watcher"])
  BY GoesTo, StepNames DEF stop_auto_heartbeat, Threads

\* What parse_pubnub_result does to the calls in progress
LEMMA ParseDoes ==
    ASSUME Typed, Shaped, Counted, parse_pubnub_result
    PROVE  /\ Only("watcher")
           /\ call["watcher"].at = "parse" /\ Kept(call["watcher"], call'["watcher"])
           /\ \/ call'["watcher"].at = "done"
              \/ pb[call["watcher"].of].thumperIndex # UNASSIGNED
                   /\ call'["watcher"].at = "parsed"
<1>1. CASE Goto("watcher", "done")
  BY <1>1, GoesTo, StepNames DEF parse_pubnub_result, Threads
<1>2. CASE Goto("watcher", "parsed") /\ pb[call["watcher"].of].thumperIndex # UNASSIGNED
  BY <1>2, GoesTo, StepNames DEF parse_pubnub_result, Threads
<1> QED
  BY <1>1, <1>2 DEF parse_pubnub_result, First

\* What watcher_done does to the calls in progress
LEMMA DoneDoes ==
    ASSUME Typed, Shaped, Counted, watcher_done
    PROVE  /\ Only("watcher")
           /\ call["watcher"].at = "done" /\ call'["watcher"] = Idle
  BY DoneMoves DEF watcher_done

\* What beat_ends does to the calls in progress
LEMMA EndsDoes ==
    ASSUME Typed, Shaped, Counted, NEW i \in Thumpers, beat_ends(i)
    PROVE  /\ Only("watcher")
           /\ call["watcher"].at = "idle"
           /\ \/ call'["watcher"] = call["watcher"] /\ ~ heartbeat_data[i].cb
              \/ /\ call'["watcher"].of = i /\ call'["watcher"].thumper = i
                 /\ call'["watcher"].at = "callback" /\ heartbeat_data[i].cb
<1>1. CASE heartbeat_data[i].cb
  <2>1. PICK result \in Answers :
         call' = [call EXCEPT !["watcher"] = [Idle EXCEPT !.of = i, !.thumper = i,
             !.at = "callback",
                                                           !.result = result]]
    BY <1>1 DEF beat_ends, Answers
  <2> QED BY <1>1, <2>1, EndMoves DEF beat_ends
<1>2. CASE ~ heartbeat_data[i].cb
  BY <1>2 DEF Typed, Only, beat_ends
<1> QED
  BY <1>1, <1>2 DEF beat_ends, First

\* What auto_heartbeat_callback does to the calls in progress
LEMMA CallbackDoes ==
    ASSUME Typed, Shaped, Counted, auto_heartbeat_callback
    PROVE  /\ Only("watcher")
           /\ call["watcher"].at = "callback" /\ call["watcher"].thumper \in Thumpers
           /\ call'["watcher"].of = call["watcher"].of
           /\ call'["watcher"].thumper = call["watcher"].thumper
           /\ \/ /\ Noticed /\ heartbeat_data[call["watcher"].thumper].pb \in Contexts
                 /\ call'["watcher"].at = "callback_announce"
                 /\ call'["watcher"].pb = heartbeat_data[call["watcher"].thumper].pb
              \/ /\ ~ Noticed /\ call'["watcher"].at \in {"start", "thump", "done"}
                 /\ call'["watcher"].at = "thump"
                      => /\ call'["watcher"].pb = heartbeat_data[call["watcher"].thumper].pb
                                                    /\ call'["watcher"].then = "done"
<1>1. /\ call["watcher"].thumper \in Thumpers /\ call["watcher"].at = "callback"
      /\ heartbeat_data[call["watcher"].thumper].pb \in Owned
  BY DEF auto_heartbeat_callback, Shaped, WatcherFrame, Typed, Data
<1>2. CASE Noticed
  BY <1>1, <1>2, NoticeMoves DEF auto_heartbeat_callback, Noticed, Owned
<1>3. CASE ~ Noticed
  BY <1>1, <1>3, AnswerMoves DEF auto_heartbeat_callback, Noticed
<1> QED
  BY <1>1, <1>2, <1>3 DEF auto_heartbeat_callback, First

\* What callback_announce does to the calls in progress
LEMMA CallbackAnnounceDoes ==
    ASSUME Typed, Shaped, Counted, callback_announce
    PROVE  /\ Only("watcher")
           /\ call["watcher"].at = "callback_announce" /\ call["watcher"].pb \in Contexts
           /\ call["watcher"].thumper \in Thumpers
           /\ call'["watcher"].of = call["watcher"].of
           /\ call'["watcher"].thumper = call["watcher"].thumper
           /\ call'["watcher"].at \in {"start", "thump", "done"}
           /\ call'["watcher"].at = "thump" => /\ call'["watcher"].pb = call["watcher"].pb
                                              /\ call'["watcher"].then = "done"
<1>1. /\ call["watcher"].thumper \in Thumpers /\ call["watcher"].at = "callback_announce"
      /\ call["watcher"].pb \in Contexts
  BY DEF callback_announce, Shaped, WatcherFrame
<1>2. CASE pb[call["watcher"].pb].waiting_announce_presence
  BY <1>1, <1>2, GoesTo, StepNames DEF callback_announce, Threads, Kept
<1>3. CASE ~ pb[call["watcher"].pb].waiting_announce_presence
  BY <1>1, <1>3, AnswerMoves DEF callback_announce, Owned
<1> QED
  BY <1>1, <1>2, <1>3 DEF callback_announce, First

\* What start_is_started does to the calls in progress
LEMMA IsStartedDoes ==
    ASSUME Typed, Shaped, Counted, start_is_started("watcher")
    PROVE  /\ Only("watcher")
           /\ call["watcher"].at = "start" /\ call["watcher"].thumper \in Thumpers
           /\ \/ mutw # "watcher" /\ call'["watcher"] = call["watcher"] /\ call' = call
                   /\ mutw' = "watcher"
              \/ /\ mutw = "watcher" /\ Free(timerlock, "watcher")
                 /\ call'["watcher"].of = call["watcher"].of
                 /\ call'["watcher"].thumper = call["watcher"].thumper
                 /\ call'["watcher"].pb = heartbeat_data[call["watcher"].thumper].pb
                 /\ call'["watcher"].started
                      = (heartbeat_timers[call["watcher"].thumper] > 0)
                 /\ \/ call'["watcher"].pb = NULL /\ call'["watcher"].at = "start_period"
                         /\ mutw' = NoThread
                    \/ call'["watcher"].pb \in Contexts
                         /\ call'["watcher"].at = "start_announce" /\ mutw' = "watcher"
<1>1. /\ call["watcher"].thumper \in Thumpers /\ call["watcher"].at = "start"
      /\ heartbeat_data[call["watcher"].thumper].pb \in Contexts \cup {NULL}
  BY DEF start_is_started, Shaped, WatcherFrame, Started, Typed, Data, Owned
<1>2. CASE mutw # "watcher"
  BY <1>1, <1>2 DEF Typed, Only, start_is_started
<1>3. CASE mutw = "watcher"
  BY <1>1, <1>3, StartMoves DEF start_is_started
<1> QED
  BY <1>1, <1>2, <1>3 DEF start_is_started, First

\* What start_announce does to the calls in progress
LEMMA AnnounceDoes ==
    ASSUME Typed, Shaped, Counted, start_announce("watcher")
    PROVE  /\ Only("watcher")
           /\ call["watcher"].at = "start_announce" /\ call["watcher"].pb \in Contexts
           /\ call["watcher"].thumper \in Thumpers
           /\ call'["watcher"].of = call["watcher"].of
           /\ call'["watcher"].thumper = call["watcher"].thumper
           /\ call'["watcher"].pb = call["watcher"].pb
           /\ \/ call'["watcher"].at = "thump" /\ call'["watcher"].then = Onward
              \/ call'["watcher"].at = Onward
<1>1. /\ call["watcher"].thumper \in Thumpers /\ call["watcher"].at = "start_announce"
      /\ call["watcher"].pb \in Contexts
  BY DEF start_announce, Shaped, WatcherFrame, Started
<1> QED
  BY <1>1, AnnounceMoves DEF Onward

\* What start_period does to the calls in progress
LEMMA PeriodDoes ==
    ASSUME Typed, Shaped, Counted, start_period("watcher")
    PROVE  /\ Only("watcher")
           /\ call["watcher"].at = "start_period" /\ call["watcher"].thumper \in Thumpers
           /\ call'["watcher"].of = call["watcher"].of
           /\ call'["watcher"].thumper = call["watcher"].thumper
           /\ call'["watcher"].at = "start_timer"
           /\ call'["watcher"].period = heartbeat_data[call["watcher"].thumper].period_sec
<1>1. /\ call["watcher"].thumper \in Thumpers /\ call["watcher"].at = "start_period"
  BY DEF start_period, Shaped, WatcherFrame, Started
<1> QED
  BY <1>1, TimedMoves

\* What start_heartbeat_timer does to the calls in progress
LEMMA TimerDoes ==
    ASSUME Typed, Shaped, Counted, start_heartbeat_timer("watcher")
    PROVE  /\ Only("watcher")
           /\ call["watcher"].at = "start_timer" /\ call["watcher"].thumper \in Thumpers
           /\ \/ call'["watcher"].at = "done" /\ Kept(call["watcher"], call'["watcher"])
              \/ call'["watcher"] = call["watcher"]
<1>1. /\ call["watcher"].thumper \in Thumpers /\ call["watcher"].at = "start_timer"
  BY DEF start_heartbeat_timer, Shaped, WatcherFrame, Started
<1>2. CASE Len(timer_index_array) < MaxThumpers
  BY <1>1, <1>2, GoesTo, StepNames DEF start_heartbeat_timer, Threads
<1>3. CASE ~ (Len(timer_index_array) < MaxThumpers)
  BY <1>1, <1>3 DEF Typed, Only, start_heartbeat_timer
<1> QED
  BY <1>1, <1>2, <1>3 DEF start_heartbeat_timer, First

\* What thump_assert does to the calls in progress
LEMMA AssertsDoes ==
    ASSUME Typed, Shaped, Counted, NEW t \in {"watcher", "heart"}, thump_assert(t)
    PROVE  /\ Only(t)
           /\ call[t].at = "thump" /\ call' = call /\ call'[t] = call[t]
  BY DEF Typed, Only, thump_assert

\* What thump_lock does to the calls in progress
LEMMA ThumpLockDoes ==
    ASSUME Typed, Shaped, Counted, NEW t \in {"watcher", "heart"}, thump_lock(t)
    PROVE  /\ Only(t)
           /\ call[t].at = "thump" /\ call[t].pb \in Contexts
           /\ call'[t].at = "thumping" /\ Kept(call[t], call'[t])
<1>1. call[t].pb \in Contexts
  BY DEF thump_lock, Typed, Threads, Frames, Owned
<1> QED
  BY <1>1, GoesTo, StepNames DEF thump_lock, Threads

\* What heartbeat_thump does to the calls in progress
LEMMA ThumpsDoes ==
    ASSUME Typed, Shaped, Counted, NEW t \in {"watcher", "heart"}, heartbeat_thump(t)
    PROVE  /\ Only(t)
           /\ call[t].at = "thumping" /\ call[t].pb \in Contexts
           /\ call[t].thumper \in Thumpers
           /\ call'[t].at \in {call[t].then, "thump_cancel"} /\ Kept(call[t], call'[t])
<1>1. call[t].pb \in Contexts /\ call[t].thumper \in Thumpers
  BY DEF heartbeat_thump, Shaped, WatcherFrame, HeartFrame, Thumped
<1> QED
  BY <1>1, GoesTo, ThenSteps, StepNames DEF heartbeat_thump, Threads

\* What thump_cancel does to the calls in progress
LEMMA ThumpCancelDoes ==
    ASSUME Typed, Shaped, Counted, NEW t \in {"watcher", "heart"}, thump_cancel(t)
    PROVE  /\ Only(t)
           /\ call[t].at = "thump_cancel" /\ call[t].thumper \in Thumpers
           /\ call'[t].at = call[t].then /\ Kept(call[t], call'[t])
<1>1. call[t].thumper \in Thumpers
  BY DEF thump_cancel, Shaped, WatcherFrame, HeartFrame, Thumped
<1> QED
  BY <1>1, GoesTo, ThenSteps DEF thump_cancel, Threads

\* What heart_wakes does to the calls in progress
LEMMA WakesDoes ==
    ASSUME Typed, Shaped, Counted, heart_wakes
    PROVE  /\ Only("heart")
           /\ call["heart"].at = "idle" /\ call'["heart"].at = "timers"
           /\ call'["heart"].indexes = timer_index_array /\ call'["heart"].i = 1
  BY WakeMoves DEF heart_wakes

\* What expired does to the calls in progress
LEMMA ExpiresDoes ==
    ASSUME Typed, Shaped, Counted, expired
    PROVE  /\ Only("heart")
           /\ call["heart"].at = "expired" /\ call["heart"].thumper \in Thumpers
           /\ call'["heart"].at = "thump"
           /\ call'["heart"].pb = heartbeat_data[call["heart"].thumper].pb
           /\ call'["heart"].then = "timers"
           /\ call'["heart"].thumper = call["heart"].thumper
           /\ call'["heart"].indexes = call["heart"].indexes
           /\ call'["heart"].i = call["heart"].i
<1>1. call["heart"].thumper \in Thumpers
  BY DEF expired, Shaped, HeartFrame
<1> QED
  BY <1>1, ExpiredMoves DEF expired

\* What heart_sleeps does to the calls in progress
LEMMA SleepsDoes ==
    ASSUME Typed, Shaped, Counted, heart_sleeps
    PROVE  /\ Only("heart")
           /\ call["heart"].at = "timers" /\ call["heart"].i > Len(call["heart"].indexes)
           /\ call'["heart"] = Idle
  BY SleepMoves DEF heart_sleeps

-----------------------------------------------------------------------------
(* Types and shapes *)

\* Contexts stay of their type when the parts of one are replaced.
LEMMA PartsPut ==
    ASSUME Typed, NEW c \in Contexts
    PROVE  \A p \in Parts : [pb EXCEPT ![c] = p] \in [Contexts -> Parts]
  BY DEF Typed

\* Slots stay of their type when one is replaced.
LEMMA DataPut ==
    ASSUME Typed, NEW i
    PROVE  \A d : (i \in Thumpers => d \in Data)
             => [heartbeat_data EXCEPT ![i] = d] \in [Thumpers -> Data]
  BY DEF Typed

\* Giving a slot to a context keeps every type.
LEMMA FormedTypes ==
    ASSUME Typed, NEW c \in Contexts, NEW i \in Thumpers, NEW k \in Keys, NEW b \in BOOLEAN,
           Formed(c, i, k, b), Only("app"), UNCHANGED <<timers, beat, failed, given_up>>
    PROVE  Typed'
<1> DEFINE d == [pb |-> c, keys |-> k, cb |-> b, period_sec |-> MinPeriod]
<1>1. d \in Data
  BY Members DEF Data
<1>2. heartbeat_data' \in [Thumpers -> Data]
  BY <1>1, DataPut DEF Formed
<1>3. pb' \in [Contexts -> Parts]
  BY Members, PartsSet DEF Formed, Typed
<1>4. plain' \subseteq Thumpers
  BY DEF Formed, Typed
<1> QED
  BY <1>2, <1>3, <1>4 DEF Typed, Only, timers

\* So does what the callback does to the slot and its monitor.
LEMMA AnswerTypes ==
    ASSUME Typed, NEW c \in Owned, Answer(call["watcher"], c)
    PROVE  /\ heartbeat_data' \in [Thumpers -> Data]
           /\ Locks => monitor' \in [Contexts \cup Thumpers -> Owners]
<1>1. heartbeat_data' \in [Thumpers -> Data]
  <2> DEFINE i == call["watcher"].thumper
             d == [heartbeat_data[i] EXCEPT !.keys = KeysOf[c], !.cb = FALSE]
  <2>1. CASE UNCHANGED heartbeat_data
    BY <2>1 DEF Typed
  <2>2. CASE c # NULL /\ heartbeat_data' = [heartbeat_data EXCEPT ![i].keys = KeysOf[c],
          ![i].cb = FALSE]
    <3>1. KeysOf[c] \in Keys
      BY <2>2, Members DEF Owned
    <3>2. i \in Thumpers => d \in Data
      BY <3>1 DEF Typed, Data
    <3>3. heartbeat_data' = [heartbeat_data EXCEPT ![i] = d]
      BY <2>2 DEF Typed
    <3> HIDE DEF d
    <3> QED BY <3>2, <3>3, DataPut
  <2> QED
    BY <2>1, <2>2 DEF Answer
<1>2. Locks => monitor' \in [Contexts \cup Thumpers -> Owners]
  BY DEF Answer, Locks, Owners
<1> QED
  BY <1>1, <1>2

\* The array is a sequence of slots, no longer than there are slots.
LEMMA ArrayKinds ==
    ASSUME Typed
    PROVE  /\ timer_index_array \in Seq(Thumpers) /\ Len(timer_index_array) \in Nat
           /\ Len(timer_index_array) <= MaxThumpers
           /\ DOMAIN timer_index_array = 1 .. Len(timer_index_array)
  BY LenProperties DEF Typed, Indexes

\* auto_heartbeat_stop_timer takes its slot out of the array if it is there.
LEMMA StoppedArray ==
    ASSUME Typed, NEW t \in {"app", "watcher"}, auto_heartbeat_stop_timer(t)
    PROVE  \/ /\ timer_index_array' = timer_index_array
              /\ ~ Occurs(timer_index_array, call[t].thumper)
           \/ \E k \in 1 .. Len(timer_index_array) :
                /\ timer_index_array[k] = call[t].thumper
                /\ timer_index_array' = TakeOut(timer_index_array, k)
<1> DEFINE at == {k \in DOMAIN timer_index_array : timer_index_array[k] = call[t].thumper}
<1>1. DOMAIN timer_index_array = 1 .. Len(timer_index_array)
  BY ArrayKinds
<1>2. CASE at = {}
  <2>1. timer_index_array' = timer_index_array
    BY <1>2 DEF auto_heartbeat_stop_timer
  <2> QED BY <1>1, <1>2, <2>1 DEF Occurs
<1>3. CASE at # {}
  <2>1. timer_index_array' = TakeOut(timer_index_array, Min(at))
    BY <1>3 DEF auto_heartbeat_stop_timer
  <2>2. at \subseteq Nat
    BY <1>1
  <2>3. Min(at) \in at
    BY <1>3, <2>2, MinOf
  <2>4. Min(at) \in 1 .. Len(timer_index_array)
          /\ timer_index_array[Min(at)] = call[t].thumper
    BY <1>1, <2>3
  <2> QED BY <2>1, <2>4
<1> QED BY <1>2, <1>3

\* pubnub_enable_auto_heartbeat keeps the types, the mutexes and the shapes of the calls.
LEMMA EnableTypes ==
    ASSUME Typed, Locks, Shaped, Counted, NEW c \in Contexts, NEW period \in Periods,
           pubnub_enable_auto_heartbeat(c, period)
    PROVE  Typed' /\ Locks' /\ Shaped'
<1>1. Typed'
  BY EnableDoes, Members, PartsSet, DataSet
     DEF Typed, Only, Threads, slots, timers, locks, pubnub_enable_auto_heartbeat, Called
<1>2. Locks'
  BY DEF Typed, Locks, Owners, Threads, slots, timers, locks, pubnub_enable_auto_heartbeat
<1>3. Shaped'
  BY EnableDoes, PeriodsAssumption
     DEF Shaped, Only, Kept, Threads, AppFrame, WatcherFrame, HeartFrame,
     Started, Thumped, Stops, AppSteps, WatcherSteps, HeartSteps
<1> QED BY <1>1, <1>2, <1>3

\* pubnub_set_heartbeat_period keeps the types, the mutexes and the shapes of the calls.
LEMMA SetPeriodTypes ==
    ASSUME Typed, Locks, Shaped, Counted, NEW c \in Contexts, NEW period \in Periods,
           pubnub_set_heartbeat_period(c, period)
    PROVE  Typed' /\ Locks' /\ Shaped'
<1>1. Typed'
  BY SetPeriodDoes, Members, PartsSet, DataSet
     DEF Typed, Only, Threads, slots, timers, locks, pubnub_set_heartbeat_period, Called
<1>2. Locks'
  BY SetPeriodDoes
     DEF Typed, Locks, Owners, Threads, slots, timers, locks, pubnub_set_heartbeat_period,
         Called
<1>3. Shaped'
  BY SetPeriodDoes, PeriodsAssumption
     DEF Shaped, Only, Kept, Threads, AppFrame, WatcherFrame, HeartFrame,
     Started, Thumped, Stops, AppSteps, WatcherSteps, HeartSteps
<1> QED BY <1>1, <1>2, <1>3

\* pubnub_disable_auto_heartbeat keeps the types, the mutexes and the shapes of the calls.
LEMMA DisableTypes ==
    ASSUME Typed, Locks, Shaped, Counted, NEW c \in Contexts,
           pubnub_disable_auto_heartbeat(c)
    PROVE  Typed' /\ Locks' /\ Shaped'
<1>1. Typed'
  BY DisableDoes, Members, PartsSet, DataSet
     DEF Typed, Only, Threads, slots, timers, locks, pubnub_disable_auto_heartbeat, Called
<1>2. Locks'
  BY DisableDoes
     DEF Typed, Locks, Owners, Threads, slots, timers, locks,
         pubnub_disable_auto_heartbeat, Called
<1>3. Shaped'
  BY DisableDoes, IdleFrame, Members
     DEF Shaped, Only, Kept, Threads, AppFrame, WatcherFrame, HeartFrame,
     Started, Thumped, Stops, AppSteps, WatcherSteps, HeartSteps
<1> QED BY <1>1, <1>2, <1>3

\* pubnub_smart_heartbeat keeps the types, the mutexes and the shapes of the calls.
LEMMA SmartTypes ==
    ASSUME Typed, Locks, Shaped, Counted, NEW c \in Contexts, NEW enable \in BOOLEAN,
           pubnub_smart_heartbeat(c, enable)
    PROVE  Typed' /\ Locks' /\ Shaped'
<1>1. Typed'
  BY SmartDoes, Members, PartsSet, DataSet
     DEF Typed, Only, Threads, slots, timers, locks, pubnub_smart_heartbeat, Called
<1>2. Locks'
  BY SmartDoes
     DEF Typed, Locks, Owners, Threads, slots, timers, locks, pubnub_smart_heartbeat, Called
<1>3. Shaped'
  BY SmartDoes, IdleFrame, Members
     DEF Shaped, Only, Kept, Threads, AppFrame, WatcherFrame, HeartFrame,
     Started, Thumped, Stops, AppSteps, WatcherSteps, HeartSteps
<1> QED BY <1>1, <1>2, <1>3

\* pubnub_subscribe keeps the types, the mutexes and the shapes of the calls.
LEMMA SubscribeTypes ==
    ASSUME Typed, Locks, Shaped, Counted, NEW c \in Contexts, pubnub_subscribe(c)
    PROVE  Typed' /\ Locks' /\ Shaped'
<1>1. Typed'
  BY SubscribeDoes, Members, PartsSet, DataSet
     DEF Typed, Only, Threads, slots, timers, locks, pubnub_subscribe, Called
<1>2. Locks'
  BY SubscribeDoes
     DEF Typed, Locks, Owners, Threads, slots, timers, locks, pubnub_subscribe, Called
<1>3. Shaped'
  BY SubscribeDoes, IdleFrame, Members
     DEF Shaped, Only, Kept, Threads, AppFrame, WatcherFrame, HeartFrame,
     Started, Thumped, Stops, AppSteps, WatcherSteps, HeartSteps
<1> QED BY <1>1, <1>2, <1>3

\* pubnub_leave keeps the types, the mutexes and the shapes of the calls.
LEMMA LeaveTypes ==
    ASSUME Typed, Locks, Shaped, Counted, NEW c \in Contexts, pubnub_leave(c)
    PROVE  Typed' /\ Locks' /\ Shaped'
<1>1. Typed'
  BY LeaveDoes, Members, PartsSet, DataSet
     DEF Typed, Only, Threads, slots, timers, locks, pubnub_leave, Called
<1>2. Locks'
  BY LeaveDoes DEF Typed, Locks, Owners, Threads, slots, timers, locks, pubnub_leave, Called
<1>3. Shaped'
  BY LeaveDoes, IdleFrame, Members
     DEF Shaped, Only, Kept, Threads, AppFrame, WatcherFrame, HeartFrame,
     Started, Thumped, Stops, AppSteps, WatcherSteps, HeartSteps
<1> QED BY <1>1, <1>2, <1>3

\* form_heartbeat_thumper keeps the types, the mutexes and the shapes of the calls.
LEMMA FormTypes ==
    ASSUME Typed, Locks, Shaped, Counted, form_heartbeat_thumper
    PROVE  Typed' /\ Locks' /\ Shaped'
<1>1. Typed'
  <2>1. Only("app") /\ call["app"].at = "form"
    BY FormDoes
  <2>2. call["app"].of \in Contexts
    BY <2>1 DEF Shaped, AppFrame
  <2>3. CASE UNCHANGED <<slots, pb, plain>>
    BY <2>1, <2>3 DEF form_heartbeat_thumper, Typed, Only, slots, timers
  <2>4. CASE /\ thumpers_in_use < MaxThumpers
             /\ Formed(call["app"].of, First, heartbeat_data[First].keys,
                  heartbeat_data[First].cb)
    <3>1. First \in Thumpers
      BY <2>4, FirstFree
    <3>2. heartbeat_data[First].keys \in Keys /\ heartbeat_data[First].cb \in BOOLEAN
      BY <3>1 DEF Typed, Data
    <3>3. UNCHANGED <<timers, beat, failed, given_up>>
      BY DEF form_heartbeat_thumper
    <3> QED BY <2>1, <2>2, <2>4, <3>1, <3>2, <3>3, FormedTypes
  <2> QED
    BY <2>3, <2>4 DEF form_heartbeat_thumper, First
<1>2. Locks'
  BY FormDoes
     DEF Typed, Locks, Owners, Threads, slots, timers, locks, form_heartbeat_thumper, Formed
<1>3. Shaped'
  BY FormDoes, IdleFrame, Members
     DEF Shaped, Only, Kept, Threads, AppFrame, WatcherFrame, HeartFrame,
     Started, Thumped, Stops, AppSteps, WatcherSteps, HeartSteps
<1> QED BY <1>1, <1>2, <1>3

\* init_new_thumper_pb keeps the types, the mutexes and the shapes of the calls.
LEMMA NewThumperTypes ==
    ASSUME Typed, Locks, Shaped, Counted, init_new_thumper_pb
    PROVE  Typed' /\ Locks' /\ Shaped'
<1>1. Typed'
  <2>1. Only("app") /\ call["app"].at = "init"
    BY NewThumperDoes
  <2>2. call["app"].of \in Contexts /\ call["app"].thumper \in Thumpers
    BY <2>1 DEF Shaped, AppFrame
  <2>3. CASE UNCHANGED <<slots, pb, plain>>
    BY <2>1, <2>3 DEF init_new_thumper_pb, Typed, Only, slots, timers
  <2>4. CASE Formed(call["app"].of, call["app"].thumper, KeysOf[call["app"].of], TRUE)
    <3>1. KeysOf[call["app"].of] \in Keys /\ TRUE \in BOOLEAN
      BY <2>2, Members
    <3>2. UNCHANGED <<timers, beat, failed, given_up>>
      BY DEF init_new_thumper_pb
    <3> QED BY <2>1, <2>2, <2>4, <3>1, <3>2, FormedTypes
  <2> QED
    BY <2>3, <2>4 DEF init_new_thumper_pb
<1>2. Locks'
  BY NewThumperDoes
     DEF Typed, Locks, Owners, Threads, slots, timers, locks, init_new_thumper_pb, Formed
<1>3. Shaped'
  BY NewThumperDoes, IdleFrame, Members
     DEF Shaped, Only, Kept, Threads, AppFrame, WatcherFrame, HeartFrame,
     Started, Thumped, Stops, AppSteps, WatcherSteps, HeartSteps
<1> QED BY <1>1, <1>2, <1>3

\* set_period_lock keeps the types, the mutexes and the shapes of the calls.
LEMMA PeriodLockTypes ==
    ASSUME Typed, Locks, Shaped, Counted, set_period_lock
    PROVE  Typed' /\ Locks' /\ Shaped'
<1>1. Typed'
  BY PeriodLockDoes, Members, PartsSet, DataSet
     DEF Typed, Only, Threads, slots, timers, locks, set_period_lock
<1>2. Locks'
  BY PeriodLockDoes DEF Typed, Locks, Owners, Threads, slots, timers, locks, set_period_lock
<1>3. Shaped'
  BY PeriodLockDoes, IdleFrame, Members
     DEF Shaped, Only, Kept, Threads, AppFrame, WatcherFrame, HeartFrame,
     Started, Thumped, Stops, AppSteps, WatcherSteps, HeartSteps
<1> QED BY <1>1, <1>2, <1>3

\* setting_period keeps the types, the mutexes and the shapes of the calls.
LEMMA SettingTypes ==
    ASSUME Typed, Locks, Shaped, Counted, setting_period
    PROVE  Typed' /\ Locks' /\ Shaped'
<1>1. Typed'
  <2> DEFINE x == pb[call["app"].of].thumperIndex
             p == call["app"].period
  <2>1. p \in Seconds
    BY DEF Typed, Frames, Threads
  <2>2. heartbeat_data' = [heartbeat_data EXCEPT ![x].period_sec = p]
    BY DEF setting_period
  <2> HIDE DEF x, p
  <2>3. heartbeat_data' \in [Thumpers -> Data]
    BY <2>1, <2>2, DataSet DEF Typed
  <2> QED
    BY <2>3, SettingDoes DEF setting_period, Typed, Only, timers
<1>2. Locks'
  BY SettingDoes DEF Typed, Locks, Owners, Threads, slots, timers, locks, setting_period
<1>3. Shaped'
  BY SettingDoes, IdleFrame, Members
     DEF Shaped, Only, Kept, Threads, AppFrame, WatcherFrame, HeartFrame,
     Started, Thumped, Stops, AppSteps, WatcherSteps, HeartSteps
<1> QED BY <1>1, <1>2, <1>3

\* release_thumper keeps the types, the mutexes and the shapes of the calls.
LEMMA ReleaseTypes ==
    ASSUME Typed, Locks, Shaped, Counted, release_thumper
    PROVE  Typed' /\ Locks' /\ Shaped'
<1>1. Typed'
  <2>1. given_up' \subseteq Contexts \cup Thumpers
    BY ReleaseDoes DEF Typed, Shaped, AppFrame, release_thumper
  <2> QED
    BY <2>1, ReleaseDoes, Members, PartsSet, DataSet
       DEF Typed, Only, Threads, slots, timers, locks, release_thumper
<1>2. Locks'
  BY ReleaseDoes DEF Typed, Locks, Owners, Threads, slots, timers, locks, release_thumper
<1>3. Shaped'
  BY ReleaseDoes, IdleFrame, Members
     DEF Shaped, Only, Kept, Threads, AppFrame, WatcherFrame, HeartFrame,
     Started, Thumped, Stops, AppSteps, WatcherSteps, HeartSteps
<1> QED BY <1>1, <1>2, <1>3

\* stop_heartbeat keeps the types, the mutexes and the shapes of the calls.
LEMMA StopTypes ==
    ASSUME Typed, Locks, Shaped, Counted, NEW t \in {"app", "watcher"}, stop_heartbeat(t)
    PROVE  Typed' /\ Locks' /\ Shaped'
<1>1. Typed'
  <2>1. beat' \in [Thumpers -> Beats]
    BY DEF stop_heartbeat, Typed, Beats, Cancelled
  <2> QED
    BY <2>1, StopDoes DEF stop_heartbeat, Typed, Only, slots, timers
<1>2. Locks'
  BY StopDoes DEF Typed, Locks, Owners, Threads, slots, timers, locks, stop_heartbeat
<1>3. Shaped'
  BY StopDoes, IdleFrame, Members
     DEF Shaped, Only, Kept, Threads, AppFrame, WatcherFrame, HeartFrame,
     Started, Thumped, Stops, AppSteps, WatcherSteps, HeartSteps
<1> QED BY <1>1, <1>2, <1>3

\* auto_heartbeat_stop_timer keeps the types, the mutexes and the shapes of the calls.
LEMMA StopTimerTypes ==
    ASSUME Typed, Locks, Shaped, Counted, NEW t \in {"app", "watcher"},
           auto_heartbeat_stop_timer(t)
    PROVE  Typed' /\ Locks' /\ Shaped'
<1>1. Typed'
  <2>1. timer_index_array' \in Indexes
    <3>1. CASE timer_index_array' = timer_index_array
      BY <3>1 DEF Typed
    <3>2. ASSUME NEW k \in 1 .. Len(timer_index_array),
                 timer_index_array' = TakeOut(timer_index_array, k)
          PROVE  timer_index_array' \in Indexes
      BY <3>2, ArrayKinds, TakenOut, ThumpersAssumption DEF Indexes
    <3> QED
      BY <3>1, <3>2, StoppedArray
  <2> QED
    BY <2>1, StopTimerDoes DEF auto_heartbeat_stop_timer, Typed, Only, slots
<1>2. Locks'
  BY StopTimerDoes
     DEF Typed, Locks, Owners, Threads, slots, timers, locks, auto_heartbeat_stop_timer
<1>3. Shaped'
  BY StopTimerDoes, IdleFrame, Members
     DEF Shaped, Only, Kept, Threads, AppFrame, WatcherFrame, HeartFrame,
     Started, Thumped, Stops, AppSteps, WatcherSteps, HeartSteps
<1> QED BY <1>1, <1>2, <1>3

\* released keeps the types, the mutexes and the shapes of the calls.
LEMMA ReleasedTypes ==
    ASSUME Typed, Locks, Shaped, Counted, released
    PROVE  Typed' /\ Locks' /\ Shaped'
<1>1. Typed'
  BY ReleasedDoes, Members, PartsSet, DataSet
     DEF Typed, Only, Threads, slots, timers, locks, released
<1>2. Locks'
  BY ReleasedDoes DEF Typed, Locks, Owners, Threads, slots, timers, locks, released
<1>3. Shaped'
  BY ReleasedDoes, IdleFrame, Members
     DEF Shaped, Only, Kept, Threads, AppFrame, WatcherFrame, HeartFrame,
     Started, Thumped, Stops, AppSteps, WatcherSteps, HeartSteps
<1> QED BY <1>1, <1>2, <1>3

\* prepare_channels_and_ch_groups keeps the types, the mutexes and the shapes of the calls.
LEMMA PrepareTypes ==
    ASSUME Typed, Locks, Shaped, Counted, prepare_channels_and_ch_groups
    PROVE  Typed' /\ Locks' /\ Shaped'
<1>1. Typed'
  <2> DEFINE c == call["app"].of
  <2>1. c \in Contexts
    BY PrepareDoes DEF Shaped, AppFrame
  <2>2. PICK b \in BOOLEAN :
          pb' = [pb EXCEPT ![c].should_announce_presence = @ \/ b, ![c].channels = TRUE,
                           ![c].state = "STARTED", ![c].last_result = "none"]
    BY DEF prepare_channels_and_ch_groups
  <2> HIDE DEF c
  <2> DEFINE d == pb[c].should_announce_presence \/ b
             p == [pb[c] EXCEPT !.should_announce_presence = d, !.channels = TRUE,
                                !.state = "STARTED", !.last_result = "none"]
  <2>3. pb[c] \in Parts /\ pb' = [pb EXCEPT ![c] = p]
    BY <2>1, <2>2 DEF Typed
  <2>4. d \in BOOLEAN
    BY Zenon
  <2> HIDE DEF d
  <2>5. p \in Parts
    BY <2>3, <2>4 DEF Parts
  <2> HIDE DEF p
  <2> QED
    BY <2>1, <2>3, <2>5, PartsPut, PrepareDoes
       DEF prepare_channels_and_ch_groups, Typed, Only, slots, timers
<1>2. Locks'
  BY PrepareDoes
     DEF Typed, Locks, Owners, Threads, slots, timers, locks, prepare_channels_and_ch_groups
<1>3. Shaped'
  BY PrepareDoes, IdleFrame, Members
     DEF Shaped, Only, Kept, Threads, AppFrame, WatcherFrame, HeartFrame,
     Started, Thumped, Stops, AppSteps, WatcherSteps, HeartSteps
<1> QED BY <1>1, <1>2, <1>3

\* transaction_ongoing keeps the types, the mutexes and the shapes of the calls.
LEMMA OngoingTypes ==
    ASSUME Typed, Locks, Shaped, Counted, NEW c \in Contexts, transaction_ongoing(c)
    PROVE  Typed' /\ Locks' /\ Shaped'
<1>1. Typed'
  BY OngoingDoes, Members, PartsSet, DataSet
     DEF Typed, Only, Threads, slots, timers, locks, transaction_ongoing
<1>2. Locks'
  BY OngoingDoes
     DEF Typed, Locks, Owners, Threads, slots, timers, locks, transaction_ongoing
<1>3. Shaped'
  BY OngoingDoes, IdleFrame, Members
     DEF Shaped, Only, Kept, Threads, AppFrame, WatcherFrame, HeartFrame,
     Started, Thumped, Stops, AppSteps, WatcherSteps, HeartSteps
<1> QED BY <1>1, <1>2, <1>3

\* index_read_again keeps the types, the mutexes and the shapes of the calls.
LEMMA ReadAgainTypes ==
    ASSUME Typed, Locks, Shaped, Counted, index_read_again
    PROVE  Typed' /\ Locks' /\ Shaped'
<1>1. Typed'
  BY ReadAgainDoes, Members, PartsSet, DataSet
     DEF Typed, Only, Threads, slots, timers, locks, index_read_again
<1>2. Locks'
  BY ReadAgainDoes DEF Typed, Locks, Owners, Threads, slots, timers, locks, index_read_again
<1>3. Shaped'
  BY ReadAgainDoes, IdleFrame, Members
     DEF Shaped, Only, Kept, Threads, AppFrame, WatcherFrame, HeartFrame,
     Started, Thumped, Stops, AppSteps, WatcherSteps, HeartSteps
<1> QED BY <1>1, <1>2, <1>3

\* stop_auto_heartbeat keeps the types, the mutexes and the shapes of the calls.
LEMMA StopAutoTypes ==
    ASSUME Typed, Locks, Shaped, Counted, stop_auto_heartbeat
    PROVE  Typed' /\ Locks' /\ Shaped'
<1>1. Typed'
  BY StopAutoDoes, Members, PartsSet, DataSet
     DEF Typed, Only, Threads, slots, timers, locks, stop_auto_heartbeat
<1>2. Locks'
  BY StopAutoDoes
     DEF Typed, Locks, Owners, Threads, slots, timers, locks, stop_auto_heartbeat
<1>3. Shaped'
  BY StopAutoDoes, IdleFrame, Members
     DEF Shaped, Only, Kept, Threads, AppFrame, WatcherFrame, HeartFrame,
     Started, Thumped, Stops, AppSteps, WatcherSteps, HeartSteps
<1> QED BY <1>1, <1>2, <1>3

\* parse_pubnub_result keeps the types, the mutexes and the shapes of the calls.
LEMMA ParseTypes ==
    ASSUME Typed, Locks, Shaped, Counted, parse_pubnub_result
    PROVE  Typed' /\ Locks' /\ Shaped'
<1>1. Typed'
  <2> DEFINE c == call["watcher"].of
  <2>1. c \in Contexts
    BY ParseDoes DEF Shaped, WatcherFrame
  <2>2. PICK r \in {"PNR_OK", "error"} :
          pb' = [pb EXCEPT ![c].state = "IDLE", ![c].last_result = r]
    BY DEF parse_pubnub_result
  <2> HIDE DEF c
  <2> DEFINE p == [pb[c] EXCEPT !.state = "IDLE", !.last_result = r]
  <2>3. pb[c] \in Parts /\ pb' = [pb EXCEPT ![c] = p]
    BY <2>1, <2>2 DEF Typed
  <2>4. p \in Parts
    BY <2>3 DEF Parts
  <2> HIDE DEF p
  <2> QED
    BY <2>1, <2>3, <2>4, PartsPut, ParseDoes
       DEF parse_pubnub_result, Typed, Only, slots, timers
<1>2. Locks'
  BY ParseDoes DEF Typed, Locks, Owners, Threads, slots, timers, locks, parse_pubnub_result
<1>3. Shaped'
  BY ParseDoes, IdleFrame, Members
     DEF Shaped, Only, Kept, Threads, AppFrame, WatcherFrame, HeartFrame,
     Started, Thumped, Stops, AppSteps, WatcherSteps, HeartSteps
<1> QED BY <1>1, <1>2, <1>3

\* watcher_done keeps the types, the mutexes and the shapes of the calls.
LEMMA DoneTypes ==
    ASSUME Typed, Locks, Shaped, Counted, watcher_done
    PROVE  Typed' /\ Locks' /\ Shaped'
<1>1. Typed'
  BY DoneDoes, Members, PartsSet, DataSet
     DEF Typed, Only, Threads, slots, timers, locks, watcher_done
<1>2. Locks'
  BY DoneDoes DEF Typed, Locks, Owners, Threads, slots, timers, locks, watcher_done
<1>3. Shaped'
  BY DoneDoes, IdleFrame, Members
     DEF Shaped, Only, Kept, Threads, AppFrame, WatcherFrame, HeartFrame,
     Started, Thumped, Stops, AppSteps, WatcherSteps, HeartSteps
<1> QED BY <1>1, <1>2, <1>3

\* beat_ends keeps the types, the mutexes and the shapes of the calls.
LEMMA EndsTypes ==
    ASSUME Typed, Locks, Shaped, Counted, NEW i \in Thumpers, beat_ends(i)
    PROVE  Typed' /\ Locks' /\ Shaped'
<1>1. Typed'
  <2>1. beat' \in [Thumpers -> Beats]
    BY DEF beat_ends, Typed, Beats, Cancelled
  <2> QED
    BY <2>1, EndsDoes DEF beat_ends, Typed, Only, slots, timers
<1>2. Locks'
  BY EndsDoes DEF Typed, Locks, Owners, Threads, slots, timers, locks, beat_ends
<1>3. Shaped'
  BY EndsDoes, IdleFrame, Members
     DEF Shaped, Only, Kept, Threads, AppFrame, WatcherFrame, HeartFrame,
     Started, Thumped, Stops, AppSteps, WatcherSteps, HeartSteps
<1> QED BY <1>1, <1>2, <1>3

\* auto_heartbeat_callback keeps the types, the mutexes and the shapes of the calls.
LEMMA CallbackTypes ==
    ASSUME Typed, Locks, Shaped, Counted, auto_heartbeat_callback
    PROVE  Typed' /\ Locks' /\ Shaped'
<1>1. Typed'
  <2>1. call["watcher"].thumper \in Thumpers
          /\ heartbeat_data[call["watcher"].thumper].pb \in Owned
    BY CallbackDoes DEF Typed, Data, Owned
  <2>2. heartbeat_data' \in [Thumpers -> Data]
    BY <2>1, AnswerTypes DEF auto_heartbeat_callback, Typed
  <2> QED
    BY <2>2, CallbackDoes, PartsSet DEF auto_heartbeat_callback, Typed, Only, slots, timers
<1>2. Locks'
  <2>1. heartbeat_data[call["watcher"].thumper].pb \in Owned
    BY CallbackDoes DEF Typed, Data, Owned
  <2>2. monitor' \in [Contexts \cup Thumpers -> Owners]
    BY <2>1, AnswerTypes DEF auto_heartbeat_callback, Locks
  <2> QED
    BY <2>2 DEF auto_heartbeat_callback, Locks, Owners, Threads
<1>3. Shaped'
  BY CallbackDoes, IdleFrame, Members
     DEF Shaped, Only, Kept, Threads, AppFrame, WatcherFrame, HeartFrame,
     Started, Thumped, Stops, AppSteps, WatcherSteps, HeartSteps
<1> QED BY <1>1, <1>2, <1>3

\* callback_announce keeps the types, the mutexes and the shapes of the calls.
LEMMA CallbackAnnounceTypes ==
    ASSUME Typed, Locks, Shaped, Counted, callback_announce
    PROVE  Typed' /\ Locks' /\ Shaped'
<1>1. Typed'
  <2>1. call["watcher"].thumper \in Thumpers /\ call["watcher"].pb \in Owned
    BY CallbackAnnounceDoes DEF Typed, Data, Owned
  <2>2. heartbeat_data' \in [Thumpers -> Data]
    BY <2>1, AnswerTypes DEF callback_announce, Typed
  <2>3. pb' \in [Contexts -> Parts]
    <3> DEFINE c == call["watcher"].pb
               p == [pb[c] EXCEPT !.waiting_announce_presence = FALSE]
    <3>1. c \in Contexts
      BY CallbackAnnounceDoes
    <3>2. p \in Parts /\ pb[c] \in Parts
      <4>1. pb[c] \in Parts /\ FALSE \in BOOLEAN
        BY <3>1 DEF Typed
      <4> QED BY <4>1, PartsSet
    <3>3. pb' = pb \/ pb' = [pb EXCEPT ![c] = p]
      BY <3>1 DEF callback_announce, Typed
    <3> HIDE DEF p, c
    <3> QED
      BY <3>1, <3>2, <3>3, PartsPut DEF Typed
  <2> QED
    BY <2>2, <2>3, CallbackAnnounceDoes, PartsSet
       DEF callback_announce, Typed, Only, slots, timers
<1>2. Locks'
  <2>1. call["watcher"].pb \in Owned
    BY CallbackAnnounceDoes DEF Typed, Data, Owned
  <2>2. monitor' \in [Contexts \cup Thumpers -> Owners]
    BY <2>1, AnswerTypes DEF callback_announce, Locks
  <2> QED
    BY <2>2 DEF callback_announce, Locks, Owners, Threads
<1>3. Shaped'
  BY CallbackAnnounceDoes, IdleFrame, Members
     DEF Shaped, Only, Kept, Threads, AppFrame, WatcherFrame, HeartFrame,
     Started, Thumped, Stops, AppSteps, WatcherSteps, HeartSteps
<1> QED BY <1>1, <1>2, <1>3

\* start_is_started keeps the types, the mutexes and the shapes of the calls.
LEMMA IsStartedTypes ==
    ASSUME Typed, Locks, Shaped, Counted, start_is_started("watcher")
    PROVE  Typed' /\ Locks' /\ Shaped'
<1>1. Typed'
  BY IsStartedDoes, Members, PartsSet, DataSet
     DEF Typed, Only, Threads, slots, timers, locks, start_is_started
<1>2. Locks'
  BY IsStartedDoes DEF Typed, Locks, Owners, Threads, slots, timers, locks, start_is_started
<1>3. Shaped'
  BY IsStartedDoes, IdleFrame, Members
     DEF Shaped, Only, Kept, Threads, AppFrame, WatcherFrame, HeartFrame,
     Started, Thumped, Stops, AppSteps, WatcherSteps, HeartSteps
<1> QED BY <1>1, <1>2, <1>3

\* start_announce keeps the types, the mutexes and the shapes of the calls.
LEMMA AnnounceTypes ==
    ASSUME Typed, Locks, Shaped, Counted, start_announce("watcher")
    PROVE  Typed' /\ Locks' /\ Shaped'
<1>1. Typed'
  BY AnnounceDoes, Members, PartsSet, DataSet
     DEF Typed, Only, Threads, slots, timers, locks, start_announce
<1>2. Locks'
  BY AnnounceDoes DEF Typed, Locks, Owners, Threads, slots, timers, locks, start_announce
<1>3. Shaped'
  BY AnnounceDoes, Members
     DEF Shaped, Onward, Only, Kept, Threads, AppFrame, WatcherFrame, HeartFrame,
     Started, Thumped, Stops, AppSteps, WatcherSteps, HeartSteps
<1> QED BY <1>1, <1>2, <1>3

\* start_period keeps the types, the mutexes and the shapes of the calls.
LEMMA PeriodTypes ==
    ASSUME Typed, Locks, Shaped, Counted, start_period("watcher")
    PROVE  Typed' /\ Locks' /\ Shaped'
<1>1. Typed'
  BY PeriodDoes, Members, PartsSet, DataSet
     DEF Typed, Only, Threads, slots, timers, locks, start_period
<1>2. Locks'
  BY PeriodDoes DEF Typed, Locks, Owners, Threads, slots, timers, locks, start_period
<1>3. Shaped'
  BY PeriodDoes, IdleFrame, Members
     DEF Shaped, Only, Kept, Threads, AppFrame, WatcherFrame, HeartFrame,
     Started, Thumped, Stops, AppSteps, WatcherSteps, HeartSteps
<1> QED BY <1>1, <1>2, <1>3

\* start_heartbeat_timer keeps the types, the mutexes and the shapes of the calls.
LEMMA TimerTypes ==
    ASSUME Typed, Locks, Shaped, Counted, start_heartbeat_timer("watcher")
    PROVE  Typed' /\ Locks' /\ Shaped'
<1>1. Typed'
  <2>1. call["watcher"].thumper \in Thumpers /\ call["watcher"].period \in Nat
    BY TimerDoes, Members DEF Typed, Frames, Threads
  <2>2. timer_index_array' \in Indexes
    BY <2>1, ArrayKinds, Appending, ThumpersAssumption
       DEF start_heartbeat_timer, Indexes, timers
  <2>3. heartbeat_timers' \in [Thumpers -> Nat]
    BY <2>1 DEF start_heartbeat_timer, Typed, timers
  <2> QED
    BY <2>2, <2>3, TimerDoes DEF start_heartbeat_timer, Typed, Only, slots
<1>2. Locks'
  BY TimerDoes
     DEF Typed, Locks, Owners, Threads, slots, timers, locks, start_heartbeat_timer
<1>3. Shaped'
  BY TimerDoes, IdleFrame, Members
     DEF Shaped, Only, Kept, Threads, AppFrame, WatcherFrame, HeartFrame,
     Started, Thumped, Stops, AppSteps, WatcherSteps, HeartSteps
<1> QED BY <1>1, <1>2, <1>3

\* thump_assert keeps the types, the mutexes and the shapes of the calls.
LEMMA AssertsTypes ==
    ASSUME Typed, Locks, Shaped, Counted, NEW t \in {"watcher", "heart"}, thump_assert(t)
    PROVE  Typed' /\ Locks' /\ Shaped'
<1>1. Typed'
  BY AssertsDoes, Members, PartsSet, DataSet
     DEF Typed, Only, Threads, slots, timers, locks, thump_assert
<1>2. Locks'
  BY AssertsDoes DEF Typed, Locks, Owners, Threads, slots, timers, locks, thump_assert
<1>3. Shaped'
  BY AssertsDoes, IdleFrame, Members
     DEF Shaped, Only, Kept, Threads, AppFrame, WatcherFrame, HeartFrame,
     Started, Thumped, Stops, AppSteps, WatcherSteps, HeartSteps
<1> QED BY <1>1, <1>2, <1>3

\* thump_lock keeps the types, the mutexes and the shapes of the calls.
LEMMA ThumpLockTypes ==
    ASSUME Typed, Locks, Shaped, Counted, NEW t \in {"watcher", "heart"}, thump_lock(t)
    PROVE  Typed' /\ Locks' /\ Shaped'
<1>1. Typed'
  BY ThumpLockDoes, Members, PartsSet, DataSet
     DEF Typed, Only, Threads, slots, timers, locks, thump_lock
<1>2. Locks'
  BY ThumpLockDoes DEF Typed, Locks, Owners, Threads, slots, timers, locks, thump_lock
<1>3. Shaped'
  BY ThumpLockDoes, IdleFrame, Members
     DEF Shaped, Only, Kept, Threads, AppFrame, WatcherFrame, HeartFrame,
     Started, Thumped, Stops, AppSteps, WatcherSteps, HeartSteps
<1> QED BY <1>1, <1>2, <1>3

\* heartbeat_thump keeps the types, the mutexes and the shapes of the calls.
LEMMA ThumpsTypes ==
    ASSUME Typed, Locks, Shaped, Counted, NEW t \in {"watcher", "heart"}, heartbeat_thump(t)
    PROVE  Typed' /\ Locks' /\ Shaped'
<1>1. Typed'
  <2>1. beat' \in [Thumpers -> Beats]
    BY DEF heartbeat_thump, Typed, Beats, Cancelled
  <2> QED
    BY <2>1, ThumpsDoes DEF heartbeat_thump, Typed, Only, slots, timers
<1>2. Locks'
  BY ThumpsDoes DEF Typed, Locks, Owners, Threads, slots, timers, locks, heartbeat_thump
<1>3. Shaped'
  BY ThumpsDoes, IdleFrame, Members
     DEF Shaped, Only, Kept, Threads, AppFrame, WatcherFrame, HeartFrame,
     Started, Thumped, Stops, AppSteps, WatcherSteps, HeartSteps
<1> QED BY <1>1, <1>2, <1>3

\* thump_cancel keeps the types, the mutexes and the shapes of the calls.
LEMMA ThumpCancelTypes ==
    ASSUME Typed, Locks, Shaped, Counted, NEW t \in {"watcher", "heart"}, thump_cancel(t)
    PROVE  Typed' /\ Locks' /\ Shaped'
<1>1. Typed'
  <2>1. beat' \in [Thumpers -> Beats]
    BY DEF thump_cancel, Typed, Beats, Cancelled
  <2> QED
    BY <2>1, ThumpCancelDoes DEF thump_cancel, Typed, Only, slots, timers
<1>2. Locks'
  BY ThumpCancelDoes DEF Typed, Locks, Owners, Threads, slots, timers, locks, thump_cancel
<1>3. Shaped'
  BY ThumpCancelDoes, IdleFrame, Members
     DEF Shaped, Only, Kept, Threads, AppFrame, WatcherFrame, HeartFrame,
     Started, Thumped, Stops, AppSteps, WatcherSteps, HeartSteps
<1> QED BY <1>1, <1>2, <1>3

\* heart_wakes keeps the types, the mutexes and the shapes of the calls.
LEMMA WakesTypes ==
    ASSUME Typed, Locks, Shaped, Counted, heart_wakes
    PROVE  Typed' /\ Locks' /\ Shaped'
<1>1. Typed'
  BY WakesDoes, Members, PartsSet, DataSet
     DEF Typed, Only, Threads, slots, timers, locks, heart_wakes
<1>2. Locks'
  BY WakesDoes DEF Typed, Locks, Owners, Threads, slots, timers, locks, heart_wakes
<1>3. Shaped'
  BY WakesDoes, IdleFrame, Members
     DEF Shaped, Only, Kept, Threads, AppFrame, WatcherFrame, HeartFrame,
     Started, Thumped, Stops, AppSteps, WatcherSteps, HeartSteps
<1> QED BY <1>1, <1>2, <1>3

\* handle_heartbeat_timers keeps the types, the mutexes and the shapes of the calls.
LEMMA HandlesTypes ==
    ASSUME Typed, Locks, Shaped, Counted, handle_heartbeat_timers
    PROVE  Typed' /\ Locks' /\ Shaped'
<1>1. Typed'
  <2>1. heartbeat_timers' \in [Thumpers -> Nat]
    <3> DEFINE i == call["heart"].indexes[call["heart"].i]
    <3>1. i \in Thumpers
      BY HandleMoves
    <3>2. heartbeat_timers[i] \in Nat
      BY <3>1 DEF Typed
    <3>3. PICK n \in Nat : heartbeat_timers' = [heartbeat_timers EXCEPT ![i] = n]
      BY <3>2, HandleMoves
    <3> HIDE DEF i
    <3> QED BY <3>3 DEF Typed
  <2>2. Only("heart")
    BY HandleMoves
  <2> QED
    BY <2>1, <2>2 DEF handle_heartbeat_timers, Typed, Only, slots
<1>2. Locks'
  BY HandleMoves
     DEF Typed, Locks, Owners, Threads, slots, timers, locks, handle_heartbeat_timers
<1>3. Shaped'
  BY HandleMoves, IdleFrame, Members
     DEF Shaped, Only, Kept, Threads, AppFrame, WatcherFrame, HeartFrame,
     Started, Thumped, Stops, AppSteps, WatcherSteps, HeartSteps
<1> QED BY <1>1, <1>2, <1>3

\* expired keeps the types, the mutexes and the shapes of the calls.
LEMMA ExpiresTypes ==
    ASSUME Typed, Locks, Shaped, Counted, expired
    PROVE  Typed' /\ Locks' /\ Shaped'
<1>1. Typed'
  BY ExpiresDoes, Members, PartsSet, DataSet
     DEF Typed, Only, Threads, slots, timers, locks, expired
<1>2. Locks'
  BY ExpiresDoes DEF Typed, Locks, Owners, Threads, slots, timers, locks, expired
<1>3. Shaped'
  BY ExpiresDoes, IdleFrame, Members
     DEF Shaped, Only, Kept, Threads, AppFrame, WatcherFrame, HeartFrame,
     Started, Thumped, Stops, AppSteps, WatcherSteps, HeartSteps
<1> QED BY <1>1, <1>2, <1>3

\* heart_sleeps keeps the types, the mutexes and the shapes of the calls.
LEMMA SleepsTypes ==
    ASSUME Typed, Locks, Shaped, Counted, heart_sleeps
    PROVE  Typed' /\ Locks' /\ Shaped'
<1>1. Typed'
  <2>1. call["heart"].indexes \in Indexes
    BY DEF Typed, Frames, Threads
  <2> QED
    BY <2>1, SleepsDoes DEF heart_sleeps, Typed, Only, slots
<1>2. Locks'
  BY SleepsDoes DEF Typed, Locks, Owners, Threads, slots, timers, locks, heart_sleeps
<1>3. Shaped'
  BY SleepsDoes, IdleFrame, Members
     DEF Shaped, Only, Kept, Threads, AppFrame, WatcherFrame, HeartFrame,
     Started, Thumped, Stops, AppSteps, WatcherSteps, HeartSteps
<1> QED BY <1>1, <1>2, <1>3

-----------------------------------------------------------------------------
(* Operations that move no slot, and the agreement of slots and contexts *)

\* No slot changes hands.
SlotsKept ==
    /\ \A i \in Thumpers : heartbeat_data'[i].pb = heartbeat_data[i].pb
    /\ \A c \in Contexts : pb'[c].thumperIndex = pb[c].thumperIndex
    /\ thumpers_in_use' = thumpers_in_use

\* pubnub_enable_auto_heartbeat moves no slot between contexts.
LEMMA EnableKeeps ==
    ASSUME Typed, NEW c \in Contexts, NEW period \in Periods,
           pubnub_enable_auto_heartbeat(c, period)
    PROVE  SlotsKept
  BY DEF SlotsKept, Typed, Data, Parts, slots, pubnub_enable_auto_heartbeat, Called

\* pubnub_set_heartbeat_period moves no slot between contexts.
LEMMA SetPeriodKeeps ==
    ASSUME Typed, NEW c \in Contexts, NEW period \in Periods,
           pubnub_set_heartbeat_period(c, period)
    PROVE  SlotsKept
  BY DEF SlotsKept, Typed, Data, Parts, slots, pubnub_set_heartbeat_period, Called

\* pubnub_disable_auto_heartbeat moves no slot between contexts.
LEMMA DisableKeeps ==
    ASSUME Typed, NEW c \in Contexts, pubnub_disable_auto_heartbeat(c)
    PROVE  SlotsKept
  BY DEF SlotsKept, Typed, Data, Parts, slots, pubnub_disable_auto_heartbeat, Called

\* pubnub_smart_heartbeat moves no slot between contexts.
LEMMA SmartKeeps ==
    ASSUME Typed, NEW c \in Contexts, NEW enable \in BOOLEAN,
           pubnub_smart_heartbeat(c, enable)
    PROVE  SlotsKept
  BY DEF SlotsKept, Typed, Data, Parts, slots, pubnub_smart_heartbeat, Called

\* pubnub_subscribe moves no slot between contexts.
LEMMA SubscribeKeeps ==
    ASSUME Typed, NEW c \in Contexts, pubnub_subscribe(c)
    PROVE  SlotsKept
  BY DEF SlotsKept, Typed, Data, Parts, slots, pubnub_subscribe, Called

\* pubnub_leave moves no slot between contexts.
LEMMA LeaveKeeps ==
    ASSUME Typed, NEW c \in Contexts, pubnub_leave(c)
    PROVE  SlotsKept
  BY DEF SlotsKept, Typed, Data, Parts, slots, pubnub_leave, Called

\* set_period_lock moves no slot between contexts.
LEMMA PeriodLockKeeps ==
    ASSUME Typed, set_period_lock
    PROVE  SlotsKept
  BY DEF SlotsKept, Typed, Data, Parts, slots, set_period_lock

\* setting_period moves no slot between contexts.
LEMMA SettingKeeps ==
    ASSUME Typed, setting_period
    PROVE  SlotsKept
  BY DEF SlotsKept, Typed, Data, Parts, slots, setting_period

\* stop_heartbeat moves no slot between contexts.
LEMMA StopKeeps ==
    ASSUME Typed, NEW t \in {"app", "watcher"}, stop_heartbeat(t)
    PROVE  SlotsKept
  BY DEF SlotsKept, Typed, Data, Parts, slots, stop_heartbeat

\* auto_heartbeat_stop_timer moves no slot between contexts.
LEMMA StopTimerKeeps ==
    ASSUME Typed, NEW t \in {"app", "watcher"}, auto_heartbeat_stop_timer(t)
    PROVE  SlotsKept
  BY DEF SlotsKept, Typed, Data, Parts, slots, auto_heartbeat_stop_timer

\* prepare_channels_and_ch_groups moves no slot between contexts.
LEMMA PrepareKeeps ==
    ASSUME Typed, prepare_channels_and_ch_groups
    PROVE  SlotsKept
  BY DEF SlotsKept, Typed, Data, Parts, slots, prepare_channels_and_ch_groups

\* transaction_ongoing moves no slot between contexts.
LEMMA OngoingKeeps ==
    ASSUME Typed, NEW c \in Contexts, transaction_ongoing(c)
    PROVE  SlotsKept
  BY DEF SlotsKept, Typed, Data, Parts, slots, transaction_ongoing

\* index_read_again moves no slot between contexts.
LEMMA ReadAgainKeeps ==
    ASSUME Typed, index_read_again
    PROVE  SlotsKept
  BY DEF SlotsKept, Typed, Data, Parts, slots, index_read_again

\* stop_auto_heartbeat moves no slot between contexts.
LEMMA StopAutoKeeps ==
    ASSUME Typed, stop_auto_heartbeat
    PROVE  SlotsKept
  BY DEF SlotsKept, Typed, Data, Parts, slots, stop_auto_heartbeat

\* parse_pubnub_result moves no slot between contexts.
LEMMA ParseKeeps ==
    ASSUME Typed, parse_pubnub_result
    PROVE  SlotsKept
<1>1. PICK r \in {"PNR_OK", "error"} :
        pb' = [pb EXCEPT ![call["watcher"].of].state = "IDLE",
            ![call["watcher"].of].last_result = r]
  BY DEF parse_pubnub_result
<1>2. \A c \in Contexts : pb'[c].thumperIndex = pb[c].thumperIndex
  BY <1>1 DEF Typed, Parts
<1> QED
  BY <1>2 DEF SlotsKept, slots, parse_pubnub_result

\* watcher_done moves no slot between contexts.
LEMMA DoneKeeps ==
    ASSUME Typed, watcher_done
    PROVE  SlotsKept
  BY DEF SlotsKept, Typed, Data, Parts, slots, watcher_done

\* beat_ends moves no slot between contexts.
LEMMA EndsKeeps ==
    ASSUME Typed, NEW i \in Thumpers, beat_ends(i)
    PROVE  SlotsKept
  BY DEF SlotsKept, Typed, Data, Parts, slots, beat_ends

\* auto_heartbeat_callback moves no slot between contexts.
LEMMA CallbackKeeps ==
    ASSUME Typed, auto_heartbeat_callback
    PROVE  SlotsKept
  BY DEF SlotsKept, Typed, Data, Parts, slots, auto_heartbeat_callback, Answer

\* callback_announce moves no slot between contexts.
LEMMA CallbackAnnounceKeeps ==
    ASSUME Typed, callback_announce
    PROVE  SlotsKept
<1>1. \A i \in Thumpers : heartbeat_data'[i].pb = heartbeat_data[i].pb
  BY DEF Typed, Data, callback_announce, Answer
<1>2. \A c \in Contexts : pb'[c].thumperIndex = pb[c].thumperIndex
  BY DEF Typed, Parts, callback_announce
<1> QED
  BY <1>1, <1>2 DEF SlotsKept, callback_announce

\* start_is_started moves no slot between contexts.
LEMMA IsStartedKeeps ==
    ASSUME Typed, start_is_started("watcher")
    PROVE  SlotsKept
  BY DEF SlotsKept, Typed, Data, Parts, slots, start_is_started

\* start_announce moves no slot between contexts.
LEMMA AnnounceKeeps ==
    ASSUME Typed, start_announce("watcher")
    PROVE  SlotsKept
  BY DEF SlotsKept, Typed, Data, Parts, slots, start_announce

\* start_period moves no slot between contexts.
LEMMA PeriodKeeps ==
    ASSUME Typed, start_period("watcher")
    PROVE  SlotsKept
  BY DEF SlotsKept, Typed, Data, Parts, slots, start_period

\* start_heartbeat_timer moves no slot between contexts.
LEMMA TimerKeeps ==
    ASSUME Typed, start_heartbeat_timer("watcher")
    PROVE  SlotsKept
  BY DEF SlotsKept, Typed, Data, Parts, slots, start_heartbeat_timer

\* thump_assert moves no slot between contexts.
LEMMA AssertsKeeps ==
    ASSUME Typed, NEW t \in {"watcher", "heart"}, thump_assert(t)
    PROVE  SlotsKept
  BY DEF SlotsKept, Typed, Data, Parts, slots, thump_assert

\* thump_lock moves no slot between contexts.
LEMMA ThumpLockKeeps ==
    ASSUME Typed, NEW t \in {"watcher", "heart"}, thump_lock(t)
    PROVE  SlotsKept
  BY DEF SlotsKept, Typed, Data, Parts, slots, thump_lock

\* heartbeat_thump moves no slot between contexts.
LEMMA ThumpsKeeps ==
    ASSUME Typed, NEW t \in {"watcher", "heart"}, heartbeat_thump(t)
    PROVE  SlotsKept
  BY DEF SlotsKept, Typed, Data, Parts, slots, heartbeat_thump

\* thump_cancel moves no slot between contexts.
LEMMA ThumpCancelKeeps ==
    ASSUME Typed, NEW t \in {"watcher", "heart"}, thump_cancel(t)
    PROVE  SlotsKept
  BY DEF SlotsKept, Typed, Data, Parts, slots, thump_cancel

\* heart_wakes moves no slot between contexts.
LEMMA WakesKeeps ==
    ASSUME Typed, heart_wakes
    PROVE  SlotsKept
  BY DEF SlotsKept, Typed, Data, Parts, slots, heart_wakes

\* handle_heartbeat_timers moves no slot between contexts.
LEMMA HandlesKeeps ==
    ASSUME Typed, handle_heartbeat_timers
    PROVE  SlotsKept
  BY DEF SlotsKept, Typed, Data, Parts, slots, handle_heartbeat_timers

\* expired moves no slot between contexts.
LEMMA ExpiresKeeps ==
    ASSUME Typed, expired
    PROVE  SlotsKept
  BY DEF SlotsKept, Typed, Data, Parts, slots, expired

\* heart_sleeps moves no slot between contexts.
LEMMA SleepsKeeps ==
    ASSUME Typed, heart_sleeps
    PROVE  SlotsKept
  BY DEF SlotsKept, Typed, Data, Parts, slots, heart_sleeps

\* Where no slot changes hands, agreement needs only that no release begins.
LEMMA TenureKept ==
    ASSUME Typed, Shaped, Tenure, Counted, SlotsKept
    PROVE  /\ Counted'
           /\ (/\ call'["app"].at \notin {"form", "init", "release"} \cup Ending
               /\ call["app"].at \notin Ending) => Tenure'
           /\ call'["app"] = call["app"] => Tenure'
<1>1. Taken' = Taken
  BY DEF Taken, SlotsKept
<1>2. Counted'
  BY <1>1 DEF Counted, SlotsKept
<1>3. ASSUME call'["app"].at \notin {"form", "init", "release"} \cup Ending,
             call["app"].at \notin Ending
      PROVE  Tenure'
  BY <1>3 DEF Tenure, SlotsKept, Ending
<1>4. ASSUME call'["app"] = call["app"] PROVE Tenure'
  BY <1>4 DEF Tenure, SlotsKept, Ending, Shaped, AppFrame, AppSteps
<1> QED BY <1>2, <1>3, <1>4

\* pubnub_enable_auto_heartbeat keeps slots and contexts in agreement.
LEMMA EnableTenure ==
    ASSUME Typed, Shaped, Tenure, Counted, NEW c \in Contexts, NEW period \in Periods,
           pubnub_enable_auto_heartbeat(c, period)
    PROVE  Tenure' /\ Counted'
  BY TenureKept, EnableDoes, EnableKeeps, IdleFrame, Members
     DEF Ending, Tenure, SlotsKept, Kept

\* pubnub_set_heartbeat_period keeps slots and contexts in agreement.
LEMMA SetPeriodTenure ==
    ASSUME Typed, Shaped, Tenure, Counted, NEW c \in Contexts, NEW period \in Periods,
           pubnub_set_heartbeat_period(c, period)
    PROVE  Tenure' /\ Counted'
  BY TenureKept, SetPeriodDoes, SetPeriodKeeps, IdleFrame, Members
     DEF Ending, Tenure, SlotsKept, Kept

\* pubnub_disable_auto_heartbeat keeps slots and contexts in agreement.
LEMMA DisableTenure ==
    ASSUME Typed, Shaped, Tenure, Counted, NEW c \in Contexts,
           pubnub_disable_auto_heartbeat(c)
    PROVE  Tenure' /\ Counted'
  BY TenureKept, DisableDoes, DisableKeeps, IdleFrame, Members
     DEF Ending, Tenure, SlotsKept, Kept

\* pubnub_subscribe keeps slots and contexts in agreement.
LEMMA SubscribeTenure ==
    ASSUME Typed, Shaped, Tenure, Counted, NEW c \in Contexts, pubnub_subscribe(c)
    PROVE  Tenure' /\ Counted'
  BY TenureKept, SubscribeDoes, SubscribeKeeps, IdleFrame, Members
     DEF Ending, Tenure, SlotsKept, Kept

\* set_period_lock keeps slots and contexts in agreement.
LEMMA PeriodLockTenure ==
    ASSUME Typed, Shaped, Tenure, Counted, set_period_lock
    PROVE  Tenure' /\ Counted'
  BY TenureKept, PeriodLockDoes, PeriodLockKeeps, IdleFrame, Members
     DEF Ending, Tenure, SlotsKept, Kept

\* setting_period keeps slots and contexts in agreement.
LEMMA SettingTenure ==
    ASSUME Typed, Shaped, Tenure, Counted, setting_period
    PROVE  Tenure' /\ Counted'
  BY TenureKept, SettingDoes, SettingKeeps, IdleFrame, Members
     DEF Ending, Tenure, SlotsKept, Kept

\* prepare_channels_and_ch_groups keeps slots and contexts in agreement.
LEMMA PrepareTenure ==
    ASSUME Typed, Shaped, Tenure, Counted, prepare_channels_and_ch_groups
    PROVE  Tenure' /\ Counted'
  BY TenureKept, PrepareDoes, PrepareKeeps, IdleFrame, Members
     DEF Ending, Tenure, SlotsKept, Kept

-----------------------------------------------------------------------------
(* Operations that give a slot to a context or take it back *)

\* The slots with a context are finitely many, at most as many as there are.
LEMMA TakenFinite == IsFiniteSet(Taken) /\ Cardinality(Taken) \in 0 .. MaxThumpers
<1>1. Taken \subseteq Thumpers
  BY DEF Taken
<1>2. /\ IsFiniteSet(Taken) /\ Cardinality(Taken) <= Cardinality(Thumpers)
  BY <1>1, SlotsFinite, FS_Subset
<1>3. Cardinality(Taken) \in Nat
  BY <1>2, FS_CardinalityType
<1> QED BY <1>2, <1>3, SlotsFinite, ThumpersAssumption

\* A slot without a context given to a context without a slot
LEMMA FormedTenure ==
    ASSUME Typed, Shaped, Tenure, Counted, call["app"].at \in {"form", "init"},
           NEW i \in Thumpers, heartbeat_data[i].pb = NULL, NEW k, NEW b,
           Formed(call["app"].of, i, k, b), call'["app"].at = "set_period"
    PROVE  Tenure' /\ Counted'
<1> DEFINE c == call["app"].of
           d == [pb |-> c, keys |-> k, cb |-> b, period_sec |-> MinPeriod]
<1>1. c \in Contexts /\ pb[c].thumperIndex = UNASSIGNED /\ call["app"].at \notin Ending
  BY DEF Shaped, AppFrame, Tenure, Ending
<1>2. heartbeat_data' = [heartbeat_data EXCEPT ![i] = d] /\ d.pb = c
  BY DEF Formed
<1> HIDE DEF d
<1>3. heartbeat_data'[i].pb = c /\ \A j \in Thumpers :
        j # i => heartbeat_data'[j].pb = heartbeat_data[j].pb
  BY <1>2 DEF Typed
<1>4. /\ pb'[c].thumperIndex = i
      /\ \A e \in Contexts : e # c => pb'[e].thumperIndex = pb[e].thumperIndex
  BY <1>1 DEF Formed, Typed, Parts
<1>5. Tenure'
  <2>1. ASSUME NEW e \in Contexts, NEW j \in Thumpers
        PROVE  heartbeat_data'[j].pb = e <=> pb'[e].thumperIndex = j
    BY <1>1, <1>3, <1>4, Members DEF Tenure
  <2> QED BY <2>1 DEF Tenure, Ending
<1>6. Counted'
  <2>1. Taken' = Taken \cup {i} /\ i \notin Taken
    BY <1>1, <1>3, Members DEF Taken
  <2>2. Cardinality(Taken') = Cardinality(Taken) + 1
    BY <2>1, TakenFinite, FS_AddElement
  <2>3. thumpers_in_use' = thumpers_in_use + 1
    BY DEF Formed
  <2> QED BY <2>2, <2>3 DEF Counted
<1> QED BY <1>5, <1>6

\* form_heartbeat_thumper keeps slots and contexts in agreement.
LEMMA FormTenure ==
    ASSUME Typed, Shaped, Tenure, Counted, form_heartbeat_thumper
    PROVE  Tenure' /\ Counted'
<1>1. CASE Formed(call["app"].of, First, heartbeat_data[First].keys,
        heartbeat_data[First].cb)
           /\ thumpers_in_use < MaxThumpers /\ call'["app"].at = "set_period"
  BY <1>1, FirstFree, FormedTenure DEF form_heartbeat_thumper
<1>2. CASE SlotsKept /\ call'["app"] = Idle
  BY <1>2, TenureKept, IdleFrame DEF Ending, form_heartbeat_thumper
<1>3. CASE /\ SlotsKept /\ call'["app"].at = "init" /\ First \in Thumpers
        /\ heartbeat_data[First].pb = NULL
           /\ call'["app"].of = call["app"].of /\ call'["app"].thumper = First
  BY <1>3, TenureKept
     DEF Ending, SlotsKept, Tenure, form_heartbeat_thumper, Shaped, AppFrame
<1>4. UNCHANGED <<slots, pb>> => SlotsKept
  BY DEF SlotsKept, slots
<1>5. \/ UNCHANGED <<slots, pb>> /\ thumpers_in_use >= MaxThumpers
      \/ /\ thumpers_in_use < MaxThumpers /\ heartbeat_data[First].keys # NoKeys
         /\ Formed(call["app"].of, First, heartbeat_data[First].keys,
              heartbeat_data[First].cb)
      \/ UNCHANGED <<slots, pb>> /\ thumpers_in_use < MaxThumpers
           /\ heartbeat_data[First].keys = NoKeys
  BY DEF form_heartbeat_thumper, First
<1>6. thumpers_in_use \in Nat
  BY TakenFinite DEF Counted
<1> QED
  BY <1>1, <1>2, <1>3, <1>4, <1>5, <1>6, FormDoes, ThumpersAssumption

\* init_new_thumper_pb keeps slots and contexts in agreement.
LEMMA NewThumperTenure ==
    ASSUME Typed, Shaped, Tenure, Counted, init_new_thumper_pb
    PROVE  Tenure' /\ Counted'
<1>1. /\ call["app"].at = "init" /\ call["app"].thumper \in Thumpers
      /\ heartbeat_data[call["app"].thumper].pb = NULL
  BY DEF init_new_thumper_pb, Shaped, AppFrame, Tenure
<1>2. CASE Formed(call["app"].of, call["app"].thumper, KeysOf[call["app"].of], TRUE)
  <2>1. call'["app"].at = "set_period"
    BY <1>2, GoesTo, StepNames DEF Formed, Threads
  <2> QED BY <1>1, <1>2, <2>1, FormedTenure
<1>3. CASE UNCHANGED <<slots, pb>> /\ app_returns
  <2>1. SlotsKept /\ call'["app"] = Idle
    BY <1>3, Returns DEF SlotsKept, slots
  <2> QED BY <1>1, <2>1, TenureKept, IdleFrame DEF Ending
<1> QED BY <1>2, <1>3 DEF init_new_thumper_pb

\* release_thumper keeps slots and contexts in agreement.
LEMMA ReleaseTenure ==
    ASSUME Typed, Shaped, Tenure, Counted, release_thumper
    PROVE  Tenure' /\ Counted'
<1> DEFINE i == call["app"].thumper
           c == call["app"].of
<1>1. /\ call["app"].at = "release" /\ i \in Thumpers /\ c \in Contexts
      /\ pb[c].thumperIndex = i /\ call'["app"].at = "stop"
      /\ Kept(call["app"], call'["app"])
  BY ReleaseDoes DEF Shaped, AppFrame, Tenure
<1>2. heartbeat_data[i].pb = c
  BY <1>1 DEF Tenure, Ending
<1>3. /\ heartbeat_data'[i].pb = NULL
      /\ \A j \in Thumpers : j # i => heartbeat_data'[j].pb = heartbeat_data[j].pb
  BY <1>1 DEF release_thumper, Typed, Data
<1>4. Tenure'
  <2>1. \A e \in Contexts : pb'[e].thumperIndex = pb[e].thumperIndex
    BY DEF release_thumper
  <2>2. ASSUME NEW e \in Contexts, NEW j \in Thumpers
        PROVE  heartbeat_data'[j].pb = e <=>
                 pb'[e].thumperIndex = j /\ ~ (call'["app"].of = e
                     /\ call'["app"].at \in Ending)
    BY <1>1, <1>2, <1>3, <2>1, <2>2, Members DEF Tenure, Ending, Kept
  <2> QED BY <1>1, <2>1, <2>2 DEF Tenure, Ending, Kept
<1>5. Counted'
  <2>1. Taken' = Taken \ {i} /\ i \in Taken
    BY <1>1, <1>2, <1>3, Members DEF Taken
  <2>2. Cardinality(Taken') = Cardinality(Taken) - 1
    BY <2>1, TakenFinite, FS_RemoveElement
  <2>3. thumpers_in_use' = thumpers_in_use - 1
    BY DEF release_thumper
  <2> QED BY <2>2, <2>3 DEF Counted
<1> QED BY <1>4, <1>5

\* released keeps slots and contexts in agreement.
LEMMA ReleasedTenure ==
    ASSUME Typed, Shaped, Tenure, Counted, released
    PROVE  Tenure' /\ Counted'
<1> DEFINE c == call["app"].of
<1>1. /\ call["app"].at = "released" /\ c \in Contexts /\ call'["app"] = Idle /\ c # NULL
  BY ReleasedDoes, Members DEF Shaped, AppFrame
<1>2. pb'[c].thumperIndex = UNASSIGNED /\ \A e \in Contexts :
        e # c => pb'[e].thumperIndex = pb[e].thumperIndex
  BY <1>1 DEF released, Typed, Parts
<1>3. UNCHANGED slots
  BY DEF released
<1>4. ASSUME NEW e \in Contexts, NEW j \in Thumpers
      PROVE  heartbeat_data'[j].pb = e <=> pb'[e].thumperIndex = j
  BY <1>1, <1>2, <1>3, Members DEF Tenure, Ending, slots
<1>5. Tenure'
  BY <1>1, <1>4, IdleFrame DEF Tenure, Ending
<1>6. Taken' = Taken
  BY <1>3 DEF Taken, slots
<1> QED BY <1>3, <1>5, <1>6 DEF Counted, slots

\* Stopping heartbeats, for a release or a transaction, moves no slot.
LEMMA StopTenure ==
    ASSUME Typed, Shaped, Tenure, Counted, NEW t \in {"app", "watcher"},
           stop_heartbeat(t) \/ auto_heartbeat_stop_timer(t)
    PROVE  Tenure' /\ Counted'
<1>1. SlotsKept
  BY StopKeeps, StopTimerKeeps
<1>2. CASE t = "watcher"
  <2>1. call'["app"] = call["app"]
    BY <1>2, StopDoes, StopTimerDoes DEF Only, Threads
  <2> QED BY <1>1, <2>1, TenureKept
<1>3. CASE t = "app"
  <2>1. /\ call["app"].at \in {"stop", "stop_timer"} /\ call["app"].then = "released"
        /\ call'["app"].at \in {"stop_timer", "released"} /\ Kept(call["app"], call'["app"])
    BY <1>3, StopDoes, StopTimerDoes DEF Shaped, AppFrame
  <2>2. call["app"].of \in Contexts
    BY <2>1 DEF Shaped, AppFrame
  <2>3. Counted'
    BY <1>1, TenureKept
  <2>4. Tenure'
    BY <1>1, <2>1, <2>2 DEF Tenure, SlotsKept, Ending, Kept
  <2> QED BY <2>3, <2>4
<1> QED BY <1>2, <1>3

\* A step of another thread that moves no slot leaves them in agreement.
LEMMA ElsewhereTenure ==
    ASSUME Typed, Shaped, Tenure, Counted, SlotsKept, NEW t \in {"watcher", "heart"},
           Only(t)
    PROVE  Tenure' /\ Counted'
  BY TenureKept DEF Only, Threads

-----------------------------------------------------------------------------
(* The invariant of types, shapes and slots *)

\* Types, shapes and slots: inductive
Sound == Typed /\ Locks /\ Shaped /\ Tenure /\ Counted

\* No context has a slot when the program starts.
LEMMA SoundInit == Init => Sound
<1> SUFFICES ASSUME Init PROVE Sound
  OBVIOUS
<1>1. \A t \in Threads : call[t] = Idle
  BY DEF Init
<1>2. PICK smart \in BOOLEAN :
         pb = [c \in Contexts |-> [thumperIndex |-> UNASSIGNED,
             use_smart_heartbeat |-> smart,
                                  should_announce_presence |-> TRUE,
                                      waiting_announce_presence |-> FALSE,
                                  channels |-> FALSE, state |-> "IDLE",
                                      last_result |-> "none"]]
  BY DEF Init
<1>3. /\ \A c \in Contexts : pb[c].thumperIndex = UNASSIGNED
      /\ pb \in [Contexts -> Parts]
  BY <1>2, Members DEF Parts
<1>4. heartbeat_data \in [Thumpers -> Data] /\ \A i \in Thumpers :
        heartbeat_data[i].pb = NULL
  BY Members DEF Init, Data, Keys
<1>5. Typed
  <2>1. call \in [Threads -> Frames]
    BY IdleFrame DEF Init
  <2> QED BY <1>3, <1>4, <2>1, Members DEF Typed, Init, Beats
<1>6. Locks
  BY DEF Init, Locks, Owners
<1>7. Shaped
  BY <1>1, IdleFrame
     DEF Shaped, AppFrame, WatcherFrame, HeartFrame, Threads, AppSteps, WatcherSteps,
     HeartSteps, Started, Thumped, Stops
<1>8. Tenure
  BY <1>1, <1>3, <1>4, IdleFrame, Members DEF Tenure, Ending, Threads
<1>9. Counted
  <2>1. Taken = {}
    BY <1>4 DEF Taken
  <2> QED BY <2>1, FS_EmptySet DEF Counted, Init
<1> QED BY <1>5, <1>6, <1>7, <1>8, <1>9 DEF Sound

\* The steps of the application keep the invariant,
LEMMA SoundApp ==
    ASSUME Sound, App
    PROVE  Sound'
<1>1. ASSUME NEW c \in Contexts, NEW period \in Periods,
        pubnub_enable_auto_heartbeat(c, period) PROVE Sound'
  BY <1>1, EnableTypes, EnableTenure DEF Sound
<1>2. ASSUME NEW c \in Contexts, NEW period \in Periods,
        pubnub_set_heartbeat_period(c, period) PROVE Sound'
  BY <1>2, SetPeriodTypes, SetPeriodTenure DEF Sound
<1>3. ASSUME NEW c \in Contexts, pubnub_disable_auto_heartbeat(c) PROVE Sound'
  BY <1>3, DisableTypes, DisableTenure DEF Sound
<1>4. ASSUME NEW c \in Contexts, NEW enable \in BOOLEAN, pubnub_smart_heartbeat(c, enable)
      PROVE  Sound'
  BY <1>4, SmartTypes, SmartDoes, SmartKeeps, TenureKept DEF Sound
<1>5. ASSUME NEW c \in Contexts, pubnub_subscribe(c) PROVE Sound'
  BY <1>5, SubscribeTypes, SubscribeTenure DEF Sound
<1>6. ASSUME NEW c \in Contexts, pubnub_leave(c) PROVE Sound'
  BY <1>6, LeaveTypes, LeaveDoes, LeaveKeeps, TenureKept DEF Sound
<1>7. ASSUME form_heartbeat_thumper PROVE Sound'
  BY <1>7, FormTypes, FormTenure DEF Sound
<1>8. ASSUME init_new_thumper_pb PROVE Sound'
  BY <1>8, NewThumperTypes, NewThumperTenure DEF Sound
<1>9. ASSUME set_period_lock PROVE Sound'
  BY <1>9, PeriodLockTypes, PeriodLockTenure DEF Sound
<1>10. ASSUME setting_period PROVE Sound'
  BY <1>10, SettingTypes, SettingTenure DEF Sound
<1>11. ASSUME release_thumper PROVE Sound'
  BY <1>11, ReleaseTypes, ReleaseTenure DEF Sound
<1>12. ASSUME NEW t \in {"app", "watcher"}, stop_heartbeat(t) PROVE Sound'
  BY <1>12, StopTypes, StopTenure DEF Sound
<1>13. ASSUME NEW t \in {"app", "watcher"}, auto_heartbeat_stop_timer(t) PROVE Sound'
  BY <1>13, StopTimerTypes, StopTenure DEF Sound
<1>14. ASSUME released PROVE Sound'
  BY <1>14, ReleasedTypes, ReleasedTenure DEF Sound
<1>15. ASSUME prepare_channels_and_ch_groups PROVE Sound'
  BY <1>15, PrepareTypes, PrepareTenure DEF Sound
<1> QED BY <1>1, <1>2, <1>3, <1>4, <1>5, <1>6, <1>7, <1>8, <1>9, <1>10, <1>11, <1>12,
      <1>13, <1>14, <1>15 DEF App

\* ... those of the watcher,
LEMMA SoundWatcher ==
    ASSUME Sound, Watcher
    PROVE  Sound'
<1>1. ASSUME NEW t \in {"app", "watcher"}, stop_heartbeat(t) PROVE Sound'
  BY <1>1, StopTypes, StopTenure DEF Sound
<1>2. ASSUME NEW t \in {"app", "watcher"}, auto_heartbeat_stop_timer(t) PROVE Sound'
  BY <1>2, StopTimerTypes, StopTenure DEF Sound
<1>3. ASSUME NEW c \in Contexts, transaction_ongoing(c) PROVE Sound'
  BY <1>3, OngoingTypes, OngoingDoes, OngoingKeeps, ElsewhereTenure DEF Sound
<1>4. ASSUME index_read_again PROVE Sound'
  BY <1>4, ReadAgainTypes, ReadAgainDoes, ReadAgainKeeps, ElsewhereTenure DEF Sound
<1>5. ASSUME stop_auto_heartbeat PROVE Sound'
  BY <1>5, StopAutoTypes, StopAutoDoes, StopAutoKeeps, ElsewhereTenure DEF Sound
<1>6. ASSUME parse_pubnub_result PROVE Sound'
  BY <1>6, ParseTypes, ParseDoes, ParseKeeps, ElsewhereTenure DEF Sound
<1>7. ASSUME watcher_done PROVE Sound'
  BY <1>7, DoneTypes, DoneDoes, DoneKeeps, ElsewhereTenure DEF Sound
<1>8. ASSUME NEW i \in Thumpers, beat_ends(i) PROVE Sound'
  BY <1>8, EndsTypes, EndsDoes, EndsKeeps, ElsewhereTenure DEF Sound
<1>9. ASSUME auto_heartbeat_callback PROVE Sound'
  BY <1>9, CallbackTypes, CallbackDoes, CallbackKeeps, ElsewhereTenure DEF Sound
<1>10. ASSUME callback_announce PROVE Sound'
  BY <1>10, CallbackAnnounceTypes, CallbackAnnounceDoes, CallbackAnnounceKeeps,
     ElsewhereTenure DEF Sound
<1>11. ASSUME start_is_started("watcher") PROVE Sound'
  BY <1>11, IsStartedTypes, IsStartedDoes, IsStartedKeeps, ElsewhereTenure DEF Sound
<1>12. ASSUME start_announce("watcher") PROVE Sound'
  BY <1>12, AnnounceTypes, AnnounceDoes, AnnounceKeeps, ElsewhereTenure DEF Sound
<1>13. ASSUME start_period("watcher") PROVE Sound'
  BY <1>13, PeriodTypes, PeriodDoes, PeriodKeeps, ElsewhereTenure DEF Sound
<1>14. ASSUME start_heartbeat_timer("watcher") PROVE Sound'
  BY <1>14, TimerTypes, TimerDoes, TimerKeeps, ElsewhereTenure DEF Sound
<1>15. ASSUME NEW t \in {"watcher", "heart"}, thump_assert(t) PROVE Sound'
  BY <1>15, AssertsTypes, AssertsDoes, AssertsKeeps, ElsewhereTenure DEF Sound
<1>16. ASSUME NEW t \in {"watcher", "heart"}, thump_lock(t) PROVE Sound'
  BY <1>16, ThumpLockTypes, ThumpLockDoes, ThumpLockKeeps, ElsewhereTenure DEF Sound
<1>17. ASSUME NEW t \in {"watcher", "heart"}, heartbeat_thump(t) PROVE Sound'
  BY <1>17, ThumpsTypes, ThumpsDoes, ThumpsKeeps, ElsewhereTenure DEF Sound
<1>18. ASSUME NEW t \in {"watcher", "heart"}, thump_cancel(t) PROVE Sound'
  BY <1>18, ThumpCancelTypes, ThumpCancelDoes, ThumpCancelKeeps, ElsewhereTenure DEF Sound
<1> QED BY <1>1, <1>2, <1>3, <1>4, <1>5, <1>6, <1>7, <1>8, <1>9, <1>10, <1>11, <1>12,
      <1>13, <1>14, <1>15, <1>16, <1>17, <1>18 DEF Watcher

\* ... and those of the heartbeat watcher.
LEMMA SoundHeart ==
    ASSUME Sound, Heart
    PROVE  Sound'
<1>1. ASSUME NEW t \in {"watcher", "heart"}, thump_assert(t) PROVE Sound'
  BY <1>1, AssertsTypes, AssertsDoes, AssertsKeeps, ElsewhereTenure DEF Sound
<1>2. ASSUME NEW t \in {"watcher", "heart"}, thump_lock(t) PROVE Sound'
  BY <1>2, ThumpLockTypes, ThumpLockDoes, ThumpLockKeeps, ElsewhereTenure DEF Sound
<1>3. ASSUME NEW t \in {"watcher", "heart"}, heartbeat_thump(t) PROVE Sound'
  BY <1>3, ThumpsTypes, ThumpsDoes, ThumpsKeeps, ElsewhereTenure DEF Sound
<1>4. ASSUME heart_wakes PROVE Sound'
  BY <1>4, WakesTypes, WakesDoes, WakesKeeps, ElsewhereTenure DEF Sound
<1>5. ASSUME handle_heartbeat_timers PROVE Sound'
  BY <1>5, HandlesTypes, HandleMoves, HandlesKeeps, ElsewhereTenure DEF Sound
<1>6. ASSUME expired PROVE Sound'
  BY <1>6, ExpiresTypes, ExpiresDoes, ExpiresKeeps, ElsewhereTenure DEF Sound
<1>7. ASSUME heart_sleeps PROVE Sound'
  BY <1>7, SleepsTypes, SleepsDoes, SleepsKeeps, ElsewhereTenure DEF Sound
<1>8. ASSUME NEW t \in {"watcher", "heart"}, thump_cancel(t) PROVE Sound'
  BY <1>8, ThumpCancelTypes, ThumpCancelDoes, ThumpCancelKeeps, ElsewhereTenure DEF Sound
<1> QED BY <1>1, <1>2, <1>3, <1>4, <1>5, <1>6, <1>7, <1>8 DEF Heart

\* Every step keeps it.
LEMMA SoundStep == Sound /\ [Next]_vars => Sound'
<1> SUFFICES ASSUME Sound, [Next]_vars PROVE Sound'
  OBVIOUS
<1>1. CASE Next
  BY <1>1, SoundApp, SoundWatcher, SoundHeart DEF Next
<1>2. CASE UNCHANGED vars
  BY <1>2
     DEF Sound, Typed, Locks, Shaped, Tenure, Counted, Taken, vars, slots, timers, locks
<1> QED BY <1>1, <1>2

\* Types, shapes and slots are sound in every behaviour.
LEMMA SoundAlways == Spec => []Sound
  BY SoundInit, SoundStep, PTL DEF Spec

\* No variable ever leaves its type: the slots, the timers, the array and the parts
\* of a context hold what pbauto_heartbeat.c expects, and no more slots are counted
\* than there are, however the calls of the three threads interleave.
THEOREM TypeCorrect == Spec => []TypeOK
<1>1. Sound => TypeOK
  <2> SUFFICES ASSUME Sound PROVE TypeOK
    OBVIOUS
  <2>1. thumpers_in_use \in 0 .. MaxThumpers
    BY TakenFinite DEF Sound, Counted
  <2>2. Range(timer_index_array) \subseteq Thumpers /\ Len(timer_index_array) <= MaxThumpers
    BY LenProperties, ElementOfSeq DEF Sound, Typed, Indexes, Range
  <2>3. \A t \in Threads : call[t].pb \in Contexts \cup {NULL}
    BY DEF Sound, Typed, Frames, Owned
  <2>4. {mutw, timerlock} \subseteq Threads \cup {NoThread}
    BY DEF Sound, Locks, Owners
  <2>5. /\ heartbeat_data \in [Thumpers -> [pb : Contexts \cup {NULL},
                                            keys : {KeysOf[c] : c \in Contexts} \cup {NoKeys}, cb : BOOLEAN,
                                            period_sec : Periods \cup {MinPeriod, 0}]]
        /\ pb \in [Contexts -> [thumperIndex :
             Thumpers \cup {UNASSIGNED}, use_smart_heartbeat : BOOLEAN,
                                should_announce_presence :
                                    BOOLEAN, waiting_announce_presence : BOOLEAN,
                                channels : BOOLEAN, state : {"IDLE", "STARTED"},
                                last_result : {"none", "PNR_OK", "error"}]]
        /\ beat \in [Thumpers -> {"IDLE", "KEEP_ALIVE_IDLE", "STARTED", "WAIT_CANCEL"}]
    BY DEF Sound, Typed, Data, Owned, Keys, Seconds, Parts, Slots, Beats
  <2> QED
    BY <2>1, <2>2, <2>3, <2>4, <2>5 DEF Sound, Typed, Locks, Owners, TypeOK
<1> QED BY <1>1, SoundAlways, PTL

-----------------------------------------------------------------------------
(* The mutexes: which call may hold which *)

\* What a monitor belongs to: a context, or a slot's own context for heartbeats
Subject == Contexts \cup Thumpers

\* Where a call of the application holds the thumper monitor of its context
Private == {"form", "init", "setting_period", "release"} \cup Ending

\* Who may hold the mutexes of the module (mutw, timerlock),
HeldModule ==
    /\ mutw # "heart" /\ (mutw = "app" <=> call["app"].at = "init")
    /\ mutw = "watcher" => call["watcher"].at \in {"start", "start_announce",
         "callback_announce"}
    /\ call["watcher"].at \in {"start_announce", "callback_announce"} => mutw = "watcher"
    /\ timerlock \in {NoThread, "heart"}
         /\ (timerlock = "heart" <=> call["heart"].at # "idle")

\* ... the monitors of the contexts,
HeldMonitors ==
    \A x \in Subject :
         /\ monitor[x] # "heart"
         /\ monitor[x] = "app" =>
              \/ call["app"].at = "prepare" /\ x = call["app"].of
              \/ call["app"].at = "stop_timer" /\ x = call["app"].thumper
         /\ monitor[x] = "watcher" =>
              \/ call["watcher"].at # "idle" /\ x = call["watcher"].of
              \/ call["watcher"].at = "stop_timer" /\ x = call["watcher"].thumper

\* ... and their thumper monitors
HeldThumpers ==
    \A c \in Contexts :
         /\ thumper_monitor[c] = "app" <=> c = call["app"].of /\ call["app"].at \in Private
         /\ \A t \in {"watcher", "heart"} :
              thumper_monitor[c] = t <=> call[t].at = "thumping" /\ call[t].pb = c
Held == HeldModule /\ HeldMonitors /\ HeldThumpers

\* What pubnub_enable_auto_heartbeat takes and gives back
LEMMA EnableLocking ==
    ASSUME Typed, Locks, Shaped, Counted, NEW c \in Contexts, NEW period \in Periods,
           pubnub_enable_auto_heartbeat(c, period)
    PROVE  /\ mutw' = mutw
           /\ timerlock' = timerlock
           /\ monitor' = monitor
           /\ \A x \in Contexts : thumper_monitor'[x] = IF x = c
                /\ pb[c].thumperIndex = UNASSIGNED THEN "app" ELSE thumper_monitor[x]
           /\ Free(thumper_monitor[c], "app")
  BY EnableDoes, Members, IdleFrame
     DEF Locks, Subject, Free, locks, pubnub_enable_auto_heartbeat, Called

\* What pubnub_set_heartbeat_period takes and gives back
LEMMA SetPeriodLocking ==
    ASSUME Typed, Locks, Shaped, Counted, NEW c \in Contexts, NEW period \in Periods,
           pubnub_set_heartbeat_period(c, period)
    PROVE  /\ mutw' = mutw
           /\ timerlock' = timerlock
           /\ monitor' = monitor
           /\ thumper_monitor' = thumper_monitor
  BY SetPeriodDoes, Members, IdleFrame
     DEF Locks, Subject, Free, locks, pubnub_set_heartbeat_period, Called

\* What pubnub_disable_auto_heartbeat takes and gives back
LEMMA DisableLocking ==
    ASSUME Typed, Locks, Shaped, Counted, NEW c \in Contexts,
           pubnub_disable_auto_heartbeat(c)
    PROVE  /\ mutw' = mutw
           /\ timerlock' = timerlock
           /\ monitor' = monitor
           /\ \A x \in Contexts : thumper_monitor'[x] = IF x = c
                /\ pb[c].thumperIndex # UNASSIGNED THEN "app" ELSE thumper_monitor[x]
           /\ Free(thumper_monitor[c], "app")
  BY DisableDoes, Members, IdleFrame
     DEF Locks, Subject, Free, locks, pubnub_disable_auto_heartbeat, Called

\* What pubnub_smart_heartbeat takes and gives back
LEMMA SmartLocking ==
    ASSUME Typed, Locks, Shaped, Counted, NEW c \in Contexts, NEW enable \in BOOLEAN,
           pubnub_smart_heartbeat(c, enable)
    PROVE  /\ mutw' = mutw
           /\ timerlock' = timerlock
           /\ monitor' = monitor
           /\ thumper_monitor' = thumper_monitor
  BY SmartDoes, Members, IdleFrame
     DEF Locks, Subject, Free, locks, pubnub_smart_heartbeat, Called

\* What pubnub_subscribe takes and gives back
LEMMA SubscribeLocking ==
    ASSUME Typed, Locks, Shaped, Counted, NEW c \in Contexts, pubnub_subscribe(c)
    PROVE  /\ mutw' = mutw
           /\ timerlock' = timerlock
           /\ \A x \in Subject : monitor'[x] = IF x = c THEN "app" ELSE monitor[x]
           /\ Free(monitor[c], "app")
           /\ thumper_monitor' = thumper_monitor
  BY SubscribeDoes, Members, IdleFrame
     DEF Locks, Subject, Free, locks, pubnub_subscribe, Called

\* What pubnub_leave takes and gives back
LEMMA LeaveLocking ==
    ASSUME Typed, Locks, Shaped, Counted, NEW c \in Contexts, pubnub_leave(c)
    PROVE  /\ mutw' = mutw
           /\ timerlock' = timerlock
           /\ monitor' = monitor
           /\ thumper_monitor' = thumper_monitor
  BY LeaveDoes, Members, IdleFrame DEF Locks, Subject, Free, locks, pubnub_leave, Called

\* What form_heartbeat_thumper takes and gives back
LEMMA FormLocking ==
    ASSUME Typed, Locks, Shaped, Counted, form_heartbeat_thumper
    PROVE  /\ mutw' = IF call'["app"].at = "init" THEN "app" ELSE mutw
           /\ Free(mutw, "app")
           /\ timerlock' = timerlock
           /\ monitor' = monitor
           /\ \A x \in Contexts : thumper_monitor'[x] = IF x = call["app"].of
                /\ call'["app"].at # "init" THEN NoThread ELSE thumper_monitor[x]
<1>1. thumpers_in_use \in Nat
  BY TakenFinite DEF Counted
<1>2. /\ timerlock' = timerlock /\ monitor' = monitor /\ Free(mutw, "app")
      /\ \/ /\ thumpers_in_use >= MaxThumpers /\ app_returns /\ mutw' = mutw
            /\ thumper_monitor' = [thumper_monitor EXCEPT ![call["app"].of] = NoThread]
         \/ /\ thumpers_in_use < MaxThumpers /\ heartbeat_data[First].keys # NoKeys
                 /\ mutw' = mutw
            /\ thumper_monitor' = [thumper_monitor EXCEPT ![call["app"].of] = NoThread]
         \/ /\ thumpers_in_use < MaxThumpers /\ heartbeat_data[First].keys = NoKeys
                 /\ mutw' = "app"
            /\ thumper_monitor' = thumper_monitor
  BY DEF form_heartbeat_thumper, Formed, First
<1>3. CASE app_returns
  BY <1>1, <1>2, <1>3, Returns, FormDoes, IdleFrame, ThumpersAssumption DEF Locks
<1>4. CASE ~ app_returns
  BY <1>1, <1>2, <1>4, FormDoes, ThumpersAssumption DEF Locks
<1> QED
  BY <1>3, <1>4

\* What init_new_thumper_pb takes and gives back
LEMMA NewThumperLocking ==
    ASSUME Typed, Locks, Shaped, Counted, init_new_thumper_pb
    PROVE  /\ mutw' = NoThread
           /\ timerlock' = timerlock
           /\ monitor' = monitor
           /\ \A x \in Contexts : thumper_monitor'[x] = IF x = call["app"].of THEN NoThread
                ELSE thumper_monitor[x]
  BY NewThumperDoes, Members, IdleFrame
     DEF Locks, Subject, Free, locks, init_new_thumper_pb, Formed

\* What set_period_lock takes and gives back
LEMMA PeriodLockLocking ==
    ASSUME Typed, Locks, Shaped, Counted, set_period_lock
    PROVE  /\ mutw' = mutw
           /\ timerlock' = timerlock
           /\ monitor' = monitor
           /\ \A x \in Contexts : thumper_monitor'[x] = IF x = call["app"].of
                /\ pb[call["app"].of].thumperIndex # UNASSIGNED THEN "app"
                     ELSE thumper_monitor[x]
           /\ Free(thumper_monitor[call["app"].of], "app")
  BY PeriodLockDoes, Members, IdleFrame DEF Locks, Subject, Free, locks, set_period_lock

\* What setting_period takes and gives back
LEMMA SettingLocking ==
    ASSUME Typed, Locks, Shaped, Counted, setting_period
    PROVE  /\ mutw' = mutw
           /\ timerlock' = timerlock
           /\ monitor' = monitor
           /\ \A x \in Contexts : thumper_monitor'[x] = IF x = call["app"].of THEN NoThread
                ELSE thumper_monitor[x]
  BY SettingDoes, Members, IdleFrame DEF Locks, Subject, Free, locks, setting_period

\* What release_thumper takes and gives back
LEMMA ReleaseLocking ==
    ASSUME Typed, Locks, Shaped, Counted, release_thumper
    PROVE  /\ mutw' = mutw
           /\ timerlock' = timerlock
           /\ monitor' = monitor
           /\ thumper_monitor' = thumper_monitor
  BY ReleaseDoes, Members, IdleFrame DEF Locks, Subject, Free, locks, release_thumper

\* What stop_heartbeat takes and gives back
LEMMA StopLocking ==
    ASSUME Typed, Locks, Shaped, Counted, NEW t \in {"app", "watcher"}, stop_heartbeat(t)
    PROVE  /\ mutw' = mutw
           /\ timerlock' = timerlock
           /\ \A x \in Subject : monitor'[x] = IF x = call[t].thumper
                /\ CanStart(beat[call[t].thumper]) THEN t ELSE monitor[x]
           /\ Free(monitor[call[t].thumper], t)
           /\ thumper_monitor' = thumper_monitor
  BY StopDoes, Members, IdleFrame DEF Locks, Subject, Free, locks, stop_heartbeat

\* What auto_heartbeat_stop_timer takes and gives back
LEMMA StopTimerLocking ==
    ASSUME Typed, Locks, Shaped, Counted, NEW t \in {"app", "watcher"},
           auto_heartbeat_stop_timer(t)
    PROVE  /\ mutw' = mutw
           /\ timerlock' = timerlock
           /\ \A x \in Subject : monitor'[x] = IF x = call[t].thumper THEN NoThread
                ELSE monitor[x]
           /\ thumper_monitor' = thumper_monitor
  BY StopTimerDoes, Members, IdleFrame
     DEF Locks, Subject, Free, locks, auto_heartbeat_stop_timer

\* What released takes and gives back
LEMMA ReleasedLocking ==
    ASSUME Typed, Locks, Shaped, Counted, released
    PROVE  /\ mutw' = mutw
           /\ timerlock' = timerlock
           /\ monitor' = monitor
           /\ \A x \in Contexts : thumper_monitor'[x] = IF x = call["app"].of THEN NoThread
                ELSE thumper_monitor[x]
  BY ReleasedDoes, Members, IdleFrame DEF Locks, Subject, Free, locks, released

\* What prepare_channels_and_ch_groups takes and gives back
LEMMA PrepareLocking ==
    ASSUME Typed, Locks, Shaped, Counted, prepare_channels_and_ch_groups
    PROVE  /\ mutw' = mutw
           /\ timerlock' = timerlock
           /\ \A x \in Subject : monitor'[x] = IF x = call["app"].of THEN NoThread
                ELSE monitor[x]
           /\ thumper_monitor' = thumper_monitor
  BY PrepareDoes, Members, IdleFrame
     DEF Locks, Subject, Free, locks, prepare_channels_and_ch_groups

\* What transaction_ongoing takes and gives back
LEMMA OngoingLocking ==
    ASSUME Typed, Locks, Shaped, Counted, NEW c \in Contexts, transaction_ongoing(c)
    PROVE  /\ mutw' = mutw
           /\ timerlock' = timerlock
           /\ \A x \in Subject : monitor'[x] = IF x = c THEN "watcher" ELSE monitor[x]
           /\ Free(monitor[c], "watcher")
           /\ thumper_monitor' = thumper_monitor
  BY OngoingDoes, Members, IdleFrame DEF Locks, Subject, Free, locks, transaction_ongoing

\* What index_read_again takes and gives back
LEMMA ReadAgainLocking ==
    ASSUME Typed, Locks, Shaped, Counted, index_read_again
    PROVE  /\ mutw' = mutw
           /\ timerlock' = timerlock
           /\ monitor' = monitor
           /\ thumper_monitor' = thumper_monitor
  BY ReadAgainDoes, Members, IdleFrame DEF Locks, Subject, Free, locks, index_read_again

\* What stop_auto_heartbeat takes and gives back
LEMMA StopAutoLocking ==
    ASSUME Typed, Locks, Shaped, Counted, stop_auto_heartbeat
    PROVE  /\ mutw' = mutw
           /\ timerlock' = timerlock
           /\ monitor' = monitor
           /\ thumper_monitor' = thumper_monitor
  BY StopAutoDoes, Members, IdleFrame DEF Locks, Subject, Free, locks, stop_auto_heartbeat

\* What parse_pubnub_result takes and gives back
LEMMA ParseLocking ==
    ASSUME Typed, Locks, Shaped, Counted, parse_pubnub_result
    PROVE  /\ mutw' = mutw
           /\ timerlock' = timerlock
           /\ monitor' = monitor
           /\ thumper_monitor' = thumper_monitor
  BY ParseDoes, Members, IdleFrame DEF Locks, Subject, Free, locks, parse_pubnub_result

\* What watcher_done takes and gives back
LEMMA DoneLocking ==
    ASSUME Typed, Locks, Shaped, Counted, watcher_done
    PROVE  /\ mutw' = mutw
           /\ timerlock' = timerlock
           /\ \A x \in Subject : monitor'[x] = IF x = call["watcher"].of THEN NoThread
                ELSE monitor[x]
           /\ thumper_monitor' = thumper_monitor
  BY DoneDoes, Members, IdleFrame DEF Locks, Subject, Free, locks, watcher_done

\* What beat_ends takes and gives back
LEMMA EndsLocking ==
    ASSUME Typed, Locks, Shaped, Counted, NEW i \in Thumpers, beat_ends(i)
    PROVE  /\ mutw' = mutw
           /\ timerlock' = timerlock
           /\ \A x \in Subject : monitor'[x] = IF x = i /\ heartbeat_data[i].cb
                THEN "watcher" ELSE monitor[x]
           /\ Free(monitor[i], "watcher")
           /\ thumper_monitor' = thumper_monitor
  BY EndsDoes, Members, IdleFrame DEF Locks, Subject, Free, locks, beat_ends

\* What auto_heartbeat_callback takes and gives back
LEMMA CallbackLocking ==
    ASSUME Typed, Locks, Shaped, Counted, auto_heartbeat_callback
    PROVE  /\ mutw' = IF Noticed THEN "watcher" ELSE mutw
           /\ Free(mutw, "watcher")
           /\ timerlock' = timerlock
           /\ \A x \in Subject : monitor'[x] \in {monitor[x], NoThread}
           /\ thumper_monitor' = thumper_monitor
  BY CallbackDoes, Members, IdleFrame
     DEF Locks, Subject, Free, locks, auto_heartbeat_callback, Answer, Noticed

\* What callback_announce takes and gives back
LEMMA CallbackAnnounceLocking ==
    ASSUME Typed, Locks, Shaped, Counted, callback_announce
    PROVE  /\ mutw' = NoThread
           /\ timerlock' = timerlock
           /\ \A x \in Subject : monitor'[x] \in {monitor[x], NoThread}
           /\ thumper_monitor' = thumper_monitor
  BY CallbackAnnounceDoes, Members, IdleFrame
     DEF Locks, Subject, Free, locks, callback_announce, Answer

\* What start_is_started takes and gives back
LEMMA IsStartedLocking ==
    ASSUME Typed, Locks, Shaped, Counted, start_is_started("watcher")
    PROVE  /\ mutw' \in {mutw, "watcher", NoThread}
           /\ Free(mutw, "watcher")
           /\ timerlock' = timerlock
           /\ monitor' = monitor
           /\ thumper_monitor' = thumper_monitor
  BY IsStartedDoes, Members, IdleFrame DEF Locks, Subject, Free, locks, start_is_started

\* What start_announce takes and gives back
LEMMA AnnounceLocking ==
    ASSUME Typed, Locks, Shaped, Counted, start_announce("watcher")
    PROVE  /\ mutw' = NoThread
           /\ timerlock' = timerlock
           /\ monitor' = monitor
           /\ thumper_monitor' = thumper_monitor
  BY AnnounceDoes, Members, IdleFrame DEF Locks, Subject, Free, locks, start_announce

\* What start_period takes and gives back
LEMMA PeriodLocking ==
    ASSUME Typed, Locks, Shaped, Counted, start_period("watcher")
    PROVE  /\ mutw' = mutw
           /\ timerlock' = timerlock
           /\ monitor' = monitor
           /\ thumper_monitor' = thumper_monitor
  BY PeriodDoes, Members, IdleFrame DEF Locks, Subject, Free, locks, start_period

\* What start_heartbeat_timer takes and gives back
LEMMA TimerLocking ==
    ASSUME Typed, Locks, Shaped, Counted, start_heartbeat_timer("watcher")
    PROVE  /\ mutw' = mutw
           /\ timerlock' = timerlock
           /\ monitor' = monitor
           /\ thumper_monitor' = thumper_monitor
  BY TimerDoes, Members, IdleFrame DEF Locks, Subject, Free, locks, start_heartbeat_timer

\* What thump_assert takes and gives back
LEMMA AssertsLocking ==
    ASSUME Typed, Locks, Shaped, Counted, NEW t \in {"watcher", "heart"}, thump_assert(t)
    PROVE  /\ mutw' = mutw
           /\ timerlock' = timerlock
           /\ monitor' = monitor
           /\ thumper_monitor' = thumper_monitor
  BY AssertsDoes, Members, IdleFrame DEF Locks, Subject, Free, locks, thump_assert

\* What thump_lock takes and gives back
LEMMA ThumpLockLocking ==
    ASSUME Typed, Locks, Shaped, Counted, NEW t \in {"watcher", "heart"}, thump_lock(t)
    PROVE  /\ mutw' = mutw
           /\ timerlock' = timerlock
           /\ monitor' = monitor
           /\ \A x \in Contexts : thumper_monitor'[x] = IF x = call[t].pb THEN t
                ELSE thumper_monitor[x]
           /\ Free(thumper_monitor[call[t].pb], t)
  BY ThumpLockDoes, Members, IdleFrame DEF Locks, Subject, Free, locks, thump_lock

\* What heartbeat_thump takes and gives back
LEMMA ThumpsLocking ==
    ASSUME Typed, Locks, Shaped, Counted, NEW t \in {"watcher", "heart"}, heartbeat_thump(t)
    PROVE  /\ mutw' = mutw
           /\ timerlock' = timerlock
           /\ monitor' = monitor
           /\ \A x \in Contexts : thumper_monitor'[x] = IF x = call[t].pb THEN NoThread
                ELSE thumper_monitor[x]
  BY ThumpsDoes, Members, IdleFrame DEF Locks, Subject, Free, locks, heartbeat_thump

\* thump_cancel keeps no mutex.
LEMMA ThumpCancelLocking ==
    ASSUME Typed, Locks, Shaped, Counted, NEW t \in {"watcher", "heart"}, thump_cancel(t)
    PROVE  /\ mutw' = mutw
           /\ timerlock' = timerlock
           /\ monitor' = monitor
           /\ thumper_monitor' = thumper_monitor
  BY ThumpCancelDoes, Members, IdleFrame DEF Locks, Subject, Free, locks, thump_cancel

\* What heart_wakes takes and gives back
LEMMA WakesLocking ==
    ASSUME Typed, Locks, Shaped, Counted, heart_wakes
    PROVE  /\ mutw' = mutw
           /\ timerlock' = "heart"
           /\ monitor' = monitor
           /\ thumper_monitor' = thumper_monitor
  BY WakesDoes, Members, IdleFrame DEF Locks, Subject, Free, locks, heart_wakes

\* What handle_heartbeat_timers takes and gives back
LEMMA HandlesLocking ==
    ASSUME Typed, Locks, Shaped, Counted, handle_heartbeat_timers
    PROVE  /\ mutw' = mutw
           /\ timerlock' = timerlock
           /\ monitor' = monitor
           /\ thumper_monitor' = thumper_monitor
  BY HandleMoves, Members, IdleFrame
     DEF Locks, Subject, Free, locks, handle_heartbeat_timers

\* What expired takes and gives back
LEMMA ExpiresLocking ==
    ASSUME Typed, Locks, Shaped, Counted, expired
    PROVE  /\ mutw' = mutw
           /\ timerlock' = timerlock
           /\ monitor' = monitor
           /\ thumper_monitor' = thumper_monitor
  BY ExpiresDoes, Members, IdleFrame DEF Locks, Subject, Free, locks, expired

\* What heart_sleeps takes and gives back
LEMMA SleepsLocking ==
    ASSUME Typed, Locks, Shaped, Counted, heart_sleeps
    PROVE  /\ mutw' = mutw
           /\ timerlock' = NoThread
           /\ monitor' = monitor
           /\ thumper_monitor' = thumper_monitor
  BY SleepsDoes, Members, IdleFrame DEF Locks, Subject, Free, locks, heart_sleeps

-----------------------------------------------------------------------------
(* Every operation leaves the mutexes that way *)

\* pubnub_enable_auto_heartbeat leaves each mutex with the call that needs it.
LEMMA EnableHeld ==
    ASSUME Sound, Held, NEW c \in Contexts, NEW period \in Periods,
           pubnub_enable_auto_heartbeat(c, period)
    PROVE  Held'
<1>1. Typed /\ Locks /\ Shaped /\ Counted
  BY DEF Sound
<1>2. HeldModule'
  BY <1>1, EnableDoes, EnableLocking, IdleFrame, Members
     DEF Held, HeldModule, Stops, Shaped, AppFrame, WatcherFrame, Only, Kept,
     Threads, NoThread, Free, Started, Thumped
<1>3. HeldMonitors'
  BY <1>1, EnableDoes, EnableLocking, IdleFrame, Members
     DEF Held, HeldMonitors, Subject, Private, Ending, Shaped, AppFrame, WatcherFrame,
         Only, Kept,
     Threads, NoThread, Free, Started, Thumped
<1>4. HeldThumpers'
  BY <1>1, EnableDoes, EnableLocking, IdleFrame, Members
     DEF Held, HeldThumpers, Private, Ending, Shaped, AppFrame, WatcherFrame, Only, Kept,
     Threads, NoThread, Free, Started, Thumped
<1> QED BY <1>2, <1>3, <1>4 DEF Held

\* pubnub_set_heartbeat_period leaves each mutex with the call that needs it.
LEMMA SetPeriodHeld ==
    ASSUME Sound, Held, NEW c \in Contexts, NEW period \in Periods,
           pubnub_set_heartbeat_period(c, period)
    PROVE  Held'
<1>1. Typed /\ Locks /\ Shaped /\ Counted
  BY DEF Sound
<1>2. HeldModule'
  BY <1>1, SetPeriodDoes, SetPeriodLocking, IdleFrame, Members
     DEF Held, HeldModule, Stops, Shaped, AppFrame, WatcherFrame, Only, Kept,
     Threads, NoThread, Free, Started, Thumped
<1>3. HeldMonitors'
  BY <1>1, SetPeriodDoes, SetPeriodLocking, IdleFrame, Members
     DEF Held, HeldMonitors, Subject, Private, Ending, Shaped, AppFrame, WatcherFrame,
         Only, Kept,
     Threads, NoThread, Free, Started, Thumped
<1>4. HeldThumpers'
  BY <1>1, SetPeriodDoes, SetPeriodLocking, IdleFrame, Members
     DEF Held, HeldThumpers, Private, Ending, Shaped, AppFrame, WatcherFrame, Only, Kept,
     Threads, NoThread, Free, Started, Thumped
<1> QED BY <1>2, <1>3, <1>4 DEF Held

\* pubnub_disable_auto_heartbeat leaves each mutex with the call that needs it.
LEMMA DisableHeld ==
    ASSUME Sound, Held, NEW c \in Contexts, pubnub_disable_auto_heartbeat(c)
    PROVE  Held'
<1>1. Typed /\ Locks /\ Shaped /\ Counted
  BY DEF Sound
<1>2. HeldModule'
  BY <1>1, DisableDoes, DisableLocking, IdleFrame, Members
     DEF Held, HeldModule, Stops, Shaped, AppFrame, WatcherFrame, Only, Kept,
     Threads, NoThread, Free, Started, Thumped
<1>3. HeldMonitors'
  BY <1>1, DisableDoes, DisableLocking, IdleFrame, Members
     DEF Held, HeldMonitors, Subject, Private, Ending, Shaped, AppFrame, WatcherFrame,
         Only, Kept,
     Threads, NoThread, Free, Started, Thumped
<1>4. HeldThumpers'
  BY <1>1, DisableDoes, DisableLocking, IdleFrame, Members
     DEF Held, HeldThumpers, Private, Ending, Shaped, AppFrame, WatcherFrame, Only, Kept,
     Threads, NoThread, Free, Started, Thumped
<1> QED BY <1>2, <1>3, <1>4 DEF Held

\* pubnub_smart_heartbeat leaves each mutex with the call that needs it.
LEMMA SmartHeld ==
    ASSUME Sound, Held, NEW c \in Contexts, NEW enable \in BOOLEAN,
           pubnub_smart_heartbeat(c, enable)
    PROVE  Held'
<1>1. Typed /\ Locks /\ Shaped /\ Counted
  BY DEF Sound
<1>2. HeldModule'
  BY <1>1, SmartDoes, SmartLocking, IdleFrame, Members
     DEF Held, HeldModule, Stops, Shaped, AppFrame, WatcherFrame, Only, Kept,
     Threads, NoThread, Free, Started, Thumped
<1>3. HeldMonitors'
  BY <1>1, SmartDoes, SmartLocking, IdleFrame, Members
     DEF Held, HeldMonitors, Subject, Private, Ending, Shaped, AppFrame, WatcherFrame,
         Only, Kept,
     Threads, NoThread, Free, Started, Thumped
<1>4. HeldThumpers'
  BY <1>1, SmartDoes, SmartLocking, IdleFrame, Members
     DEF Held, HeldThumpers, Private, Ending, Shaped, AppFrame, WatcherFrame, Only, Kept,
     Threads, NoThread, Free, Started, Thumped
<1> QED BY <1>2, <1>3, <1>4 DEF Held

\* pubnub_subscribe leaves each mutex with the call that needs it.
LEMMA SubscribeHeld ==
    ASSUME Sound, Held, NEW c \in Contexts, pubnub_subscribe(c)
    PROVE  Held'
<1>1. Typed /\ Locks /\ Shaped /\ Counted
  BY DEF Sound
<1>2. HeldModule'
  BY <1>1, SubscribeDoes, SubscribeLocking, IdleFrame, Members
     DEF Held, HeldModule, Stops, Shaped, AppFrame, WatcherFrame, Only, Kept,
     Threads, NoThread, Free, Started, Thumped
<1>3. HeldMonitors'
  BY <1>1, SubscribeDoes, SubscribeLocking, IdleFrame, Members
     DEF Held, HeldMonitors, Subject, Private, Ending, Shaped, AppFrame, WatcherFrame,
         Only, Kept,
     Threads, NoThread, Free, Started, Thumped
<1>4. HeldThumpers'
  BY <1>1, SubscribeDoes, SubscribeLocking, IdleFrame, Members
     DEF Held, HeldThumpers, Private, Ending, Shaped, AppFrame, WatcherFrame, Only, Kept,
     Threads, NoThread, Free, Started, Thumped
<1> QED BY <1>2, <1>3, <1>4 DEF Held

\* pubnub_leave leaves each mutex with the call that needs it.
LEMMA LeaveHeld ==
    ASSUME Sound, Held, NEW c \in Contexts, pubnub_leave(c)
    PROVE  Held'
<1>1. Typed /\ Locks /\ Shaped /\ Counted
  BY DEF Sound
<1>2. HeldModule'
  BY <1>1, LeaveDoes, LeaveLocking, IdleFrame, Members
     DEF Held, HeldModule, Stops, Shaped, AppFrame, WatcherFrame, Only, Kept,
     Threads, NoThread, Free, Started, Thumped
<1>3. HeldMonitors'
  BY <1>1, LeaveDoes, LeaveLocking, IdleFrame, Members
     DEF Held, HeldMonitors, Subject, Private, Ending, Shaped, AppFrame, WatcherFrame,
         Only, Kept,
     Threads, NoThread, Free, Started, Thumped
<1>4. HeldThumpers'
  BY <1>1, LeaveDoes, LeaveLocking, IdleFrame, Members
     DEF Held, HeldThumpers, Private, Ending, Shaped, AppFrame, WatcherFrame, Only, Kept,
     Threads, NoThread, Free, Started, Thumped
<1> QED BY <1>2, <1>3, <1>4 DEF Held

\* form_heartbeat_thumper leaves each mutex with the call that needs it.
LEMMA FormHeld ==
    ASSUME Sound, Held, form_heartbeat_thumper
    PROVE  Held'
<1>1. Typed /\ Locks /\ Shaped /\ Counted
  BY DEF Sound
<1>2. HeldModule'
  BY <1>1, FormDoes, FormLocking, IdleFrame, Members
     DEF Held, HeldModule, Stops, Shaped, AppFrame, WatcherFrame, Only, Kept,
     Threads, NoThread, Free, Started, Thumped
<1>3. HeldMonitors'
  BY <1>1, FormDoes, FormLocking, IdleFrame, Members
     DEF Held, HeldMonitors, Subject, Private, Ending, Shaped, AppFrame, WatcherFrame,
         Only, Kept,
     Threads, NoThread, Free, Started, Thumped
<1>4. HeldThumpers'
  BY <1>1, FormDoes, FormLocking, IdleFrame, Members
     DEF Held, HeldThumpers, Private, Ending, Shaped, AppFrame, WatcherFrame, Only, Kept,
     Threads, NoThread, Free, Started, Thumped
<1> QED BY <1>2, <1>3, <1>4 DEF Held

\* init_new_thumper_pb leaves each mutex with the call that needs it.
LEMMA NewThumperHeld ==
    ASSUME Sound, Held, init_new_thumper_pb
    PROVE  Held'
<1>1. Typed /\ Locks /\ Shaped /\ Counted
  BY DEF Sound
<1>2. HeldModule'
  BY <1>1, NewThumperDoes, NewThumperLocking, IdleFrame, Members
     DEF Held, HeldModule, Stops, Shaped, AppFrame, WatcherFrame, Only, Kept,
     Threads, NoThread, Free, Started, Thumped
<1>3. HeldMonitors'
  BY <1>1, NewThumperDoes, NewThumperLocking, IdleFrame, Members
     DEF Held, HeldMonitors, Subject, Private, Ending, Shaped, AppFrame, WatcherFrame,
         Only, Kept,
     Threads, NoThread, Free, Started, Thumped
<1>4. HeldThumpers'
  BY <1>1, NewThumperDoes, NewThumperLocking, IdleFrame, Members
     DEF Held, HeldThumpers, Private, Ending, Shaped, AppFrame, WatcherFrame, Only, Kept,
     Threads, NoThread, Free, Started, Thumped
<1> QED BY <1>2, <1>3, <1>4 DEF Held

\* set_period_lock leaves each mutex with the call that needs it.
LEMMA PeriodLockHeld ==
    ASSUME Sound, Held, set_period_lock
    PROVE  Held'
<1>1. Typed /\ Locks /\ Shaped /\ Counted
  BY DEF Sound
<1>2. HeldModule'
  BY <1>1, PeriodLockDoes, PeriodLockLocking, IdleFrame, Members
     DEF Held, HeldModule, Stops, Shaped, AppFrame, WatcherFrame, Only, Kept,
     Threads, NoThread, Free, Started, Thumped
<1>3. HeldMonitors'
  BY <1>1, PeriodLockDoes, PeriodLockLocking, IdleFrame, Members
     DEF Held, HeldMonitors, Subject, Private, Ending, Shaped, AppFrame, WatcherFrame,
         Only, Kept,
     Threads, NoThread, Free, Started, Thumped
<1>4. HeldThumpers'
  BY <1>1, PeriodLockDoes, PeriodLockLocking, IdleFrame, Members
     DEF Held, HeldThumpers, Private, Ending, Shaped, AppFrame, WatcherFrame, Only, Kept,
     Threads, NoThread, Free, Started, Thumped
<1> QED BY <1>2, <1>3, <1>4 DEF Held

\* setting_period leaves each mutex with the call that needs it.
LEMMA SettingHeld ==
    ASSUME Sound, Held, setting_period
    PROVE  Held'
<1>1. Typed /\ Locks /\ Shaped /\ Counted
  BY DEF Sound
<1>2. HeldModule'
  BY <1>1, SettingDoes, SettingLocking, IdleFrame, Members
     DEF Held, HeldModule, Stops, Shaped, AppFrame, WatcherFrame, Only, Kept,
     Threads, NoThread, Free, Started, Thumped
<1>3. HeldMonitors'
  BY <1>1, SettingDoes, SettingLocking, IdleFrame, Members
     DEF Held, HeldMonitors, Subject, Private, Ending, Shaped, AppFrame, WatcherFrame,
         Only, Kept,
     Threads, NoThread, Free, Started, Thumped
<1>4. HeldThumpers'
  BY <1>1, SettingDoes, SettingLocking, IdleFrame, Members
     DEF Held, HeldThumpers, Private, Ending, Shaped, AppFrame, WatcherFrame, Only, Kept,
     Threads, NoThread, Free, Started, Thumped
<1> QED BY <1>2, <1>3, <1>4 DEF Held

\* release_thumper leaves each mutex with the call that needs it.
LEMMA ReleaseHeld ==
    ASSUME Sound, Held, release_thumper
    PROVE  Held'
<1>1. Typed /\ Locks /\ Shaped /\ Counted
  BY DEF Sound
<1>2. HeldModule'
  BY <1>1, ReleaseDoes, ReleaseLocking, IdleFrame, Members
     DEF Held, HeldModule, Stops, Shaped, AppFrame, WatcherFrame, Only, Kept,
     Threads, NoThread, Free, Started, Thumped
<1>3. HeldMonitors'
  BY <1>1, ReleaseDoes, ReleaseLocking, IdleFrame, Members
     DEF Held, HeldMonitors, Subject, Private, Ending, Shaped, AppFrame, WatcherFrame,
         Only, Kept,
     Threads, NoThread, Free, Started, Thumped
<1>4. HeldThumpers'
  BY <1>1, ReleaseDoes, ReleaseLocking, IdleFrame, Members
     DEF Held, HeldThumpers, Private, Ending, Shaped, AppFrame, WatcherFrame, Only, Kept,
     Threads, NoThread, Free, Started, Thumped
<1> QED BY <1>2, <1>3, <1>4 DEF Held

\* stop_heartbeat leaves each mutex with the call that needs it.
LEMMA StopHeld ==
    ASSUME Sound, Held, NEW t \in {"app", "watcher"}, stop_heartbeat(t)
    PROVE  Held'
<1>1. Typed /\ Locks /\ Shaped /\ Counted
  BY DEF Sound
<1>2. HeldModule'
  BY <1>1, StopDoes, StopLocking, IdleFrame, Members
     DEF Held, HeldModule, Stops, Shaped, AppFrame, WatcherFrame, Only, Kept,
     Threads, NoThread, Free, Started, Thumped
<1>3. HeldMonitors'
  <2>1. CASE t = "app"
    BY <1>1, <2>1, StopLocking, StopDoes
       DEF Held, HeldMonitors, Subject, Shaped, AppFrame, WatcherFrame, HeartFrame, Only,
           Kept,
     Threads, NoThread, Free, Started, Thumped, Stops, Private, Ending
  <2>2. CASE t = "watcher"
    BY <1>1, <2>2, StopLocking, StopDoes
       DEF Held, HeldMonitors, Subject, Shaped, AppFrame, WatcherFrame, HeartFrame, Only,
           Kept,
     Threads, NoThread, Free, Started, Thumped, Stops, Private, Ending
  <2> QED BY <2>1, <2>2
<1>4. HeldThumpers'
  <2>1. CASE t = "app"
    BY <1>1, <2>1, StopLocking, StopDoes
       DEF Held, HeldThumpers, HeldThumpers, Shaped, AppFrame, WatcherFrame, HeartFrame,
           Only, Kept,
     Threads, NoThread, Free, Started, Thumped, Stops, Private, Ending
  <2>2. CASE t = "watcher"
    BY <1>1, <2>2, StopLocking, StopDoes
       DEF Held, HeldThumpers, HeldThumpers, Shaped, AppFrame, WatcherFrame, HeartFrame,
           Only, Kept,
     Threads, NoThread, Free, Started, Thumped, Stops, Private, Ending
  <2> QED BY <2>1, <2>2
<1> QED BY <1>2, <1>3, <1>4 DEF Held

\* auto_heartbeat_stop_timer leaves each mutex with the call that needs it.
LEMMA StopTimerHeld ==
    ASSUME Sound, Held, NEW t \in {"app", "watcher"}, auto_heartbeat_stop_timer(t)
    PROVE  Held'
<1>1. Typed /\ Locks /\ Shaped /\ Counted
  BY DEF Sound
<1>2. HeldModule'
  BY <1>1, StopTimerDoes, StopTimerLocking, IdleFrame, Members
     DEF Held, HeldModule, Stops, Shaped, AppFrame, WatcherFrame, Only, Kept,
     Threads, NoThread, Free, Started, Thumped
<1>3. HeldMonitors'
  <2>1. CASE t = "app"
    BY <1>1, <2>1, StopTimerLocking, StopTimerDoes
       DEF Held, HeldMonitors, Subject, Shaped, AppFrame, WatcherFrame, HeartFrame, Only,
           Kept,
     Threads, NoThread, Free, Started, Thumped, Stops, Private, Ending
  <2>2. CASE t = "watcher"
    BY <1>1, <2>2, StopTimerLocking, StopTimerDoes
       DEF Held, HeldMonitors, Subject, Shaped, AppFrame, WatcherFrame, HeartFrame, Only,
           Kept,
     Threads, NoThread, Free, Started, Thumped, Stops, Private, Ending
  <2> QED BY <2>1, <2>2
<1>4. HeldThumpers'
  <2>1. CASE t = "app"
    BY <1>1, <2>1, StopTimerLocking, StopTimerDoes
       DEF Held, HeldThumpers, HeldThumpers, Shaped, AppFrame, WatcherFrame, HeartFrame,
           Only, Kept,
     Threads, NoThread, Free, Started, Thumped, Stops, Private, Ending
  <2>2. CASE t = "watcher"
    BY <1>1, <2>2, StopTimerLocking, StopTimerDoes
       DEF Held, HeldThumpers, HeldThumpers, Shaped, AppFrame, WatcherFrame, HeartFrame,
           Only, Kept,
     Threads, NoThread, Free, Started, Thumped, Stops, Private, Ending
  <2> QED BY <2>1, <2>2
<1> QED BY <1>2, <1>3, <1>4 DEF Held

\* released leaves each mutex with the call that needs it.
LEMMA ReleasedHeld ==
    ASSUME Sound, Held, released
    PROVE  Held'
<1>1. Typed /\ Locks /\ Shaped /\ Counted
  BY DEF Sound
<1>2. HeldModule'
  BY <1>1, ReleasedDoes, ReleasedLocking, IdleFrame, Members
     DEF Held, HeldModule, Stops, Shaped, AppFrame, WatcherFrame, Only, Kept,
     Threads, NoThread, Free, Started, Thumped
<1>3. HeldMonitors'
  BY <1>1, ReleasedDoes, ReleasedLocking, IdleFrame, Members
     DEF Held, HeldMonitors, Subject, Private, Ending, Shaped, AppFrame, WatcherFrame,
         Only, Kept,
     Threads, NoThread, Free, Started, Thumped
<1>4. HeldThumpers'
  BY <1>1, ReleasedDoes, ReleasedLocking, IdleFrame, Members
     DEF Held, HeldThumpers, Private, Ending, Shaped, AppFrame, WatcherFrame, Only, Kept,
     Threads, NoThread, Free, Started, Thumped
<1> QED BY <1>2, <1>3, <1>4 DEF Held

\* prepare_channels_and_ch_groups leaves each mutex with the call that needs it.
LEMMA PrepareHeld ==
    ASSUME Sound, Held, prepare_channels_and_ch_groups
    PROVE  Held'
<1>1. Typed /\ Locks /\ Shaped /\ Counted
  BY DEF Sound
<1>2. HeldModule'
  BY <1>1, PrepareDoes, PrepareLocking, IdleFrame, Members
     DEF Held, HeldModule, Stops, Shaped, AppFrame, WatcherFrame, Only, Kept,
     Threads, NoThread, Free, Started, Thumped
<1>3. HeldMonitors'
  BY <1>1, PrepareDoes, PrepareLocking, IdleFrame, Members
     DEF Held, HeldMonitors, Subject, Private, Ending, Shaped, AppFrame, WatcherFrame,
         Only, Kept,
     Threads, NoThread, Free, Started, Thumped
<1>4. HeldThumpers'
  BY <1>1, PrepareDoes, PrepareLocking, IdleFrame, Members
     DEF Held, HeldThumpers, Private, Ending, Shaped, AppFrame, WatcherFrame, Only, Kept,
     Threads, NoThread, Free, Started, Thumped
<1> QED BY <1>2, <1>3, <1>4 DEF Held

\* transaction_ongoing leaves each mutex with the call that needs it.
LEMMA OngoingHeld ==
    ASSUME Sound, Held, NEW c \in Contexts, transaction_ongoing(c)
    PROVE  Held'
<1>1. Typed /\ Locks /\ Shaped /\ Counted
  BY DEF Sound
<1>2. HeldModule'
  BY <1>1, OngoingDoes, OngoingLocking, IdleFrame, Members
     DEF Held, HeldModule, Stops, Shaped, AppFrame, WatcherFrame, Only, Kept,
     Threads, NoThread, Free, Started, Thumped
<1>3. HeldMonitors'
  BY <1>1, OngoingDoes, OngoingLocking, IdleFrame, Members
     DEF Held, HeldMonitors, Subject, Private, Ending, Shaped, AppFrame, WatcherFrame,
         Only, Kept,
     Threads, NoThread, Free, Started, Thumped
<1>4. HeldThumpers'
  BY <1>1, OngoingDoes, OngoingLocking, IdleFrame, Members
     DEF Held, HeldThumpers, Private, Ending, Shaped, AppFrame, WatcherFrame, Only, Kept,
     Threads, NoThread, Free, Started, Thumped
<1> QED BY <1>2, <1>3, <1>4 DEF Held

\* index_read_again leaves each mutex with the call that needs it.
LEMMA ReadAgainHeld ==
    ASSUME Sound, Held, index_read_again
    PROVE  Held'
<1>1. Typed /\ Locks /\ Shaped /\ Counted
  BY DEF Sound
<1>2. HeldModule'
  BY <1>1, ReadAgainDoes, ReadAgainLocking, IdleFrame, Members
     DEF Held, HeldModule, Stops, Shaped, AppFrame, WatcherFrame, Only, Kept,
     Threads, NoThread, Free, Started, Thumped
<1>3. HeldMonitors'
  BY <1>1, ReadAgainDoes, ReadAgainLocking, IdleFrame, Members
     DEF Held, HeldMonitors, Subject, Private, Ending, Shaped, AppFrame, WatcherFrame,
         Only, Kept,
     Threads, NoThread, Free, Started, Thumped
<1>4. HeldThumpers'
  BY <1>1, ReadAgainDoes, ReadAgainLocking, IdleFrame, Members
     DEF Held, HeldThumpers, Private, Ending, Shaped, AppFrame, WatcherFrame, Only, Kept,
     Threads, NoThread, Free, Started, Thumped
<1> QED BY <1>2, <1>3, <1>4 DEF Held

\* stop_auto_heartbeat leaves each mutex with the call that needs it.
LEMMA StopAutoHeld ==
    ASSUME Sound, Held, stop_auto_heartbeat
    PROVE  Held'
<1>1. Typed /\ Locks /\ Shaped /\ Counted
  BY DEF Sound
<1>2. HeldModule'
  BY <1>1, StopAutoDoes, StopAutoLocking, IdleFrame, Members
     DEF Held, HeldModule, Stops, Shaped, AppFrame, WatcherFrame, Only, Kept,
     Threads, NoThread, Free, Started, Thumped
<1>3. HeldMonitors'
  BY <1>1, StopAutoDoes, StopAutoLocking, IdleFrame, Members
     DEF Held, HeldMonitors, Subject, Private, Ending, Shaped, AppFrame, WatcherFrame,
         Only, Kept,
     Threads, NoThread, Free, Started, Thumped
<1>4. HeldThumpers'
  BY <1>1, StopAutoDoes, StopAutoLocking, IdleFrame, Members
     DEF Held, HeldThumpers, Private, Ending, Shaped, AppFrame, WatcherFrame, Only, Kept,
     Threads, NoThread, Free, Started, Thumped
<1> QED BY <1>2, <1>3, <1>4 DEF Held

\* parse_pubnub_result leaves each mutex with the call that needs it.
LEMMA ParseHeld ==
    ASSUME Sound, Held, parse_pubnub_result
    PROVE  Held'
<1>1. Typed /\ Locks /\ Shaped /\ Counted
  BY DEF Sound
<1>2. HeldModule'
  BY <1>1, ParseDoes, ParseLocking, IdleFrame, Members
     DEF Held, HeldModule, Stops, Shaped, AppFrame, WatcherFrame, Only, Kept,
     Threads, NoThread, Free, Started, Thumped
<1>3. HeldMonitors'
  BY <1>1, ParseDoes, ParseLocking, IdleFrame, Members
     DEF Held, HeldMonitors, Subject, Private, Ending, Shaped, AppFrame, WatcherFrame,
         Only, Kept,
     Threads, NoThread, Free, Started, Thumped
<1>4. HeldThumpers'
  BY <1>1, ParseDoes, ParseLocking, IdleFrame, Members
     DEF Held, HeldThumpers, Private, Ending, Shaped, AppFrame, WatcherFrame, Only, Kept,
     Threads, NoThread, Free, Started, Thumped
<1> QED BY <1>2, <1>3, <1>4 DEF Held

\* watcher_done leaves each mutex with the call that needs it.
LEMMA DoneHeld ==
    ASSUME Sound, Held, watcher_done
    PROVE  Held'
<1>1. Typed /\ Locks /\ Shaped /\ Counted
  BY DEF Sound
<1>2. HeldModule'
  BY <1>1, DoneDoes, DoneLocking, IdleFrame, Members
     DEF Held, HeldModule, Stops, Shaped, AppFrame, WatcherFrame, Only, Kept,
     Threads, NoThread, Free, Started, Thumped
<1>3. HeldMonitors'
  BY <1>1, DoneDoes, DoneLocking, IdleFrame, Members
     DEF Held, HeldMonitors, Subject, Private, Ending, Shaped, AppFrame, WatcherFrame,
         Only, Kept,
     Threads, NoThread, Free, Started, Thumped
<1>4. HeldThumpers'
  BY <1>1, DoneDoes, DoneLocking, IdleFrame, Members
     DEF Held, HeldThumpers, Private, Ending, Shaped, AppFrame, WatcherFrame, Only, Kept,
     Threads, NoThread, Free, Started, Thumped
<1> QED BY <1>2, <1>3, <1>4 DEF Held

\* beat_ends leaves each mutex with the call that needs it.
LEMMA EndsHeld ==
    ASSUME Sound, Held, NEW i \in Thumpers, beat_ends(i)
    PROVE  Held'
<1>1. Typed /\ Locks /\ Shaped /\ Counted
  BY DEF Sound
<1>2. HeldModule'
  BY <1>1, EndsDoes, EndsLocking, IdleFrame, Members
     DEF Held, HeldModule, Stops, Shaped, AppFrame, WatcherFrame, Only, Kept,
     Threads, NoThread, Free, Started, Thumped
<1>3. HeldMonitors'
  BY <1>1, EndsDoes, EndsLocking, IdleFrame, Members
     DEF Held, HeldMonitors, Subject, Private, Ending, Shaped, AppFrame, WatcherFrame,
         Only, Kept,
     Threads, NoThread, Free, Started, Thumped
<1>4. HeldThumpers'
  BY <1>1, EndsDoes, EndsLocking, IdleFrame, Members
     DEF Held, HeldThumpers, Private, Ending, Shaped, AppFrame, WatcherFrame, Only, Kept,
     Threads, NoThread, Free, Started, Thumped
<1> QED BY <1>2, <1>3, <1>4 DEF Held

\* auto_heartbeat_callback leaves each mutex with the call that needs it.
LEMMA CallbackHeld ==
    ASSUME Sound, Held, auto_heartbeat_callback
    PROVE  Held'
<1>1. Typed /\ Locks /\ Shaped /\ Counted
  BY DEF Sound
<1>2. HeldModule'
  BY <1>1, CallbackDoes, CallbackLocking, IdleFrame, Members
     DEF Held, HeldModule, Stops, Shaped, AppFrame, WatcherFrame, Only, Kept,
     Threads, NoThread, Free, Started, Thumped
<1>3. HeldMonitors'
  BY <1>1, CallbackDoes, CallbackLocking, IdleFrame, Members
     DEF Held, HeldMonitors, Subject, Private, Ending, Shaped, AppFrame, WatcherFrame,
         Only, Kept,
     Threads, NoThread, Free, Started, Thumped
<1>4. HeldThumpers'
  BY <1>1, CallbackDoes, CallbackLocking, IdleFrame, Members
     DEF Held, HeldThumpers, Private, Ending, Shaped, AppFrame, WatcherFrame, Only, Kept,
     Threads, NoThread, Free, Started, Thumped
<1> QED BY <1>2, <1>3, <1>4 DEF Held

\* callback_announce leaves each mutex with the call that needs it.
LEMMA CallbackAnnounceHeld ==
    ASSUME Sound, Held, callback_announce
    PROVE  Held'
<1>1. Typed /\ Locks /\ Shaped /\ Counted
  BY DEF Sound
<1>2. HeldModule'
  BY <1>1, CallbackAnnounceDoes, CallbackAnnounceLocking, IdleFrame, Members
     DEF Held, HeldModule, Stops, Shaped, AppFrame, WatcherFrame, Only, Kept,
     Threads, NoThread, Free, Started, Thumped
<1>3. HeldMonitors'
  BY <1>1, CallbackAnnounceDoes, CallbackAnnounceLocking, IdleFrame, Members
     DEF Held, HeldMonitors, Subject, Private, Ending, Shaped, AppFrame, WatcherFrame,
         Only, Kept,
     Threads, NoThread, Free, Started, Thumped
<1>4. HeldThumpers'
  BY <1>1, CallbackAnnounceDoes, CallbackAnnounceLocking, IdleFrame, Members
     DEF Held, HeldThumpers, Private, Ending, Shaped, AppFrame, WatcherFrame, Only, Kept,
     Threads, NoThread, Free, Started, Thumped
<1> QED BY <1>2, <1>3, <1>4 DEF Held

\* start_is_started leaves each mutex with the call that needs it.
LEMMA IsStartedHeld ==
    ASSUME Sound, Held, start_is_started("watcher")
    PROVE  Held'
<1>1. Typed /\ Locks /\ Shaped /\ Counted
  BY DEF Sound
<1>2. HeldModule'
  BY <1>1, IsStartedDoes, IsStartedLocking, IdleFrame, Members
     DEF Held, HeldModule, Stops, Shaped, AppFrame, WatcherFrame, Only, Kept,
     Threads, NoThread, Free, Started, Thumped
<1>3. HeldMonitors'
  BY <1>1, IsStartedDoes, IsStartedLocking, IdleFrame, Members
     DEF Held, HeldMonitors, Subject, Private, Ending, Shaped, AppFrame, WatcherFrame,
         Only, Kept,
     Threads, NoThread, Free, Started, Thumped
<1>4. HeldThumpers'
  BY <1>1, IsStartedDoes, IsStartedLocking, IdleFrame, Members
     DEF Held, HeldThumpers, Private, Ending, Shaped, AppFrame, WatcherFrame, Only, Kept,
     Threads, NoThread, Free, Started, Thumped
<1> QED BY <1>2, <1>3, <1>4 DEF Held

\* start_announce leaves each mutex with the call that needs it.
LEMMA AnnounceHeld ==
    ASSUME Sound, Held, start_announce("watcher")
    PROVE  Held'
<1>1. Typed /\ Locks /\ Shaped /\ Counted
  BY DEF Sound
<1>2. HeldModule'
  BY <1>1, AnnounceDoes, AnnounceLocking
     DEF Onward, Held, HeldModule, Subject, Shaped, AppFrame, WatcherFrame, HeartFrame,
         Only, Kept,
     Threads, NoThread, Free, Started, Thumped, Stops, Private, Ending
<1>3. HeldMonitors'
  BY <1>1, AnnounceDoes, AnnounceLocking
     DEF Onward, Held, HeldMonitors, Subject, Shaped, AppFrame, WatcherFrame, HeartFrame,
         Only, Kept,
     Threads, NoThread, Free, Started, Thumped, Stops, Private, Ending
<1>4. HeldThumpers'
  BY <1>1, AnnounceDoes, AnnounceLocking
     DEF Onward, Held, HeldThumpers, Subject, Shaped, AppFrame, WatcherFrame, HeartFrame,
         Only, Kept,
     Threads, NoThread, Free, Started, Thumped, Stops, Private, Ending
<1> QED BY <1>2, <1>3, <1>4 DEF Held

\* start_period leaves each mutex with the call that needs it.
LEMMA PeriodHeld ==
    ASSUME Sound, Held, start_period("watcher")
    PROVE  Held'
<1>1. Typed /\ Locks /\ Shaped /\ Counted
  BY DEF Sound
<1>2. HeldModule'
  BY <1>1, PeriodDoes, PeriodLocking, IdleFrame, Members
     DEF Held, HeldModule, Stops, Shaped, AppFrame, WatcherFrame, Only, Kept,
     Threads, NoThread, Free, Started, Thumped
<1>3. HeldMonitors'
  BY <1>1, PeriodDoes, PeriodLocking, IdleFrame, Members
     DEF Held, HeldMonitors, Subject, Private, Ending, Shaped, AppFrame, WatcherFrame,
         Only, Kept,
     Threads, NoThread, Free, Started, Thumped
<1>4. HeldThumpers'
  BY <1>1, PeriodDoes, PeriodLocking, IdleFrame, Members
     DEF Held, HeldThumpers, Private, Ending, Shaped, AppFrame, WatcherFrame, Only, Kept,
     Threads, NoThread, Free, Started, Thumped
<1> QED BY <1>2, <1>3, <1>4 DEF Held

\* start_heartbeat_timer leaves each mutex with the call that needs it.
LEMMA TimerHeld ==
    ASSUME Sound, Held, start_heartbeat_timer("watcher")
    PROVE  Held'
<1>1. Typed /\ Locks /\ Shaped /\ Counted
  BY DEF Sound
<1>2. HeldModule'
  BY <1>1, TimerDoes, TimerLocking, IdleFrame, Members
     DEF Held, HeldModule, Stops, Shaped, AppFrame, WatcherFrame, Only, Kept,
     Threads, NoThread, Free, Started, Thumped
<1>3. HeldMonitors'
  BY <1>1, TimerDoes, TimerLocking, IdleFrame, Members
     DEF Held, HeldMonitors, Subject, Private, Ending, Shaped, AppFrame, WatcherFrame,
         Only, Kept,
     Threads, NoThread, Free, Started, Thumped
<1>4. HeldThumpers'
  BY <1>1, TimerDoes, TimerLocking, IdleFrame, Members
     DEF Held, HeldThumpers, Private, Ending, Shaped, AppFrame, WatcherFrame, Only, Kept,
     Threads, NoThread, Free, Started, Thumped
<1> QED BY <1>2, <1>3, <1>4 DEF Held

\* thump_assert leaves each mutex with the call that needs it.
LEMMA AssertsHeld ==
    ASSUME Sound, Held, NEW t \in {"watcher", "heart"}, thump_assert(t)
    PROVE  Held'
<1>1. Typed /\ Locks /\ Shaped /\ Counted
  BY DEF Sound
<1>2. HeldModule'
  BY <1>1, AssertsDoes, AssertsLocking, IdleFrame, Members
     DEF Held, HeldModule, Stops, Shaped, AppFrame, WatcherFrame, Only, Kept,
     Threads, NoThread, Free, Started, Thumped
<1>3. HeldMonitors'
  BY <1>1, AssertsDoes, AssertsLocking, IdleFrame, Members
     DEF Held, HeldMonitors, Subject, Private, Ending, Shaped, AppFrame, WatcherFrame,
         Only, Kept,
     Threads, NoThread, Free, Started, Thumped
<1>4. HeldThumpers'
  BY <1>1, AssertsDoes, AssertsLocking, IdleFrame, Members
     DEF Held, HeldThumpers, Private, Ending, Shaped, AppFrame, WatcherFrame, Only, Kept,
     Threads, NoThread, Free, Started, Thumped
<1> QED BY <1>2, <1>3, <1>4 DEF Held

\* thump_lock leaves each mutex with the call that needs it.
LEMMA ThumpLockHeld ==
    ASSUME Sound, Held, NEW t \in {"watcher", "heart"}, thump_lock(t)
    PROVE  Held'
<1>1. Typed /\ Locks /\ Shaped /\ Counted
  BY DEF Sound
<1>2. HeldModule'
  BY <1>1, ThumpLockDoes, ThumpLockLocking, IdleFrame, Members
     DEF Held, HeldModule, Stops, Shaped, AppFrame, WatcherFrame, Only, Kept,
     Threads, NoThread, Free, Started, Thumped
<1>3. HeldMonitors'
  BY <1>1, ThumpLockDoes, ThumpLockLocking, IdleFrame, Members
     DEF Held, HeldMonitors, Subject, Private, Ending, Shaped, AppFrame, WatcherFrame,
         Only, Kept,
     Threads, NoThread, Free, Started, Thumped
<1>4. HeldThumpers'
  BY <1>1, ThumpLockDoes, ThumpLockLocking, IdleFrame, Members
     DEF Held, HeldThumpers, Private, Ending, Shaped, AppFrame, WatcherFrame, Only, Kept,
     Threads, NoThread, Free, Started, Thumped
<1> QED BY <1>2, <1>3, <1>4 DEF Held

\* heartbeat_thump leaves each mutex with the call that needs it.
LEMMA ThumpsHeld ==
    ASSUME Sound, Held, NEW t \in {"watcher", "heart"}, heartbeat_thump(t)
    PROVE  Held'
<1>1. Typed /\ Locks /\ Shaped /\ Counted
  BY DEF Sound
<1>2. HeldModule'
  <2>1. CASE t = "watcher"
    BY <1>1, <2>1, ThumpsLocking, ThumpsDoes
       DEF Held, HeldModule, HeldModule, Shaped, AppFrame, WatcherFrame, HeartFrame, Only,
           Kept,
     Threads, NoThread, Free, Started, Thumped, Stops, Private, Ending
  <2>2. CASE t = "heart"
    BY <1>1, <2>2, ThumpsLocking, ThumpsDoes
       DEF Held, HeldModule, HeldModule, Shaped, AppFrame, WatcherFrame, HeartFrame, Only,
           Kept,
     Threads, NoThread, Free, Started, Thumped, Stops, Private, Ending
  <2> QED BY <2>1, <2>2
<1>3. HeldMonitors'
  BY <1>1, ThumpsDoes, ThumpsLocking, IdleFrame, Members
     DEF Held, HeldMonitors, Subject, Private, Ending, Shaped, AppFrame, WatcherFrame,
         Only, Kept,
     Threads, NoThread, Free, Started, Thumped
<1>4. HeldThumpers'
  <2>1. CASE t = "watcher"
    BY <1>1, <2>1, ThumpsLocking, ThumpsDoes
       DEF Held, HeldThumpers, HeldThumpers, Shaped, AppFrame, WatcherFrame, HeartFrame,
           Only, Kept,
     Threads, NoThread, Free, Started, Thumped, Stops, Private, Ending
  <2>2. CASE t = "heart"
    BY <1>1, <2>2, ThumpsLocking, ThumpsDoes
       DEF Held, HeldThumpers, HeldThumpers, Shaped, AppFrame, WatcherFrame, HeartFrame,
           Only, Kept,
     Threads, NoThread, Free, Started, Thumped, Stops, Private, Ending
  <2> QED BY <2>1, <2>2
<1> QED BY <1>2, <1>3, <1>4 DEF Held

\* thump_cancel leaves each mutex with the call that needs it.
LEMMA ThumpCancelHeld ==
    ASSUME Sound, Held, NEW t \in {"watcher", "heart"}, thump_cancel(t)
    PROVE  Held'
<1>1. Typed /\ Locks /\ Shaped /\ Counted
  BY DEF Sound
<1>2. HeldModule'
  <2>1. CASE t = "watcher"
    BY <1>1, <2>1, ThumpCancelLocking, ThumpCancelDoes
       DEF Held, HeldModule, HeldModule, Shaped, AppFrame, WatcherFrame, HeartFrame, Only,
           Kept,
     Threads, NoThread, Free, Started, Thumped, Stops, Private, Ending
  <2>2. CASE t = "heart"
    BY <1>1, <2>2, ThumpCancelLocking, ThumpCancelDoes
       DEF Held, HeldModule, HeldModule, Shaped, AppFrame, WatcherFrame, HeartFrame, Only,
           Kept,
     Threads, NoThread, Free, Started, Thumped, Stops, Private, Ending
  <2> QED BY <2>1, <2>2
<1>3. HeldMonitors'
  BY <1>1, ThumpCancelDoes, ThumpCancelLocking, IdleFrame, Members
     DEF Held, HeldMonitors, Subject, Private, Ending, Shaped, AppFrame, WatcherFrame,
         Only, Kept,
     Threads, NoThread, Free, Started, Thumped
<1>4. HeldThumpers'
  <2>1. CASE t = "watcher"
    BY <1>1, <2>1, ThumpCancelLocking, ThumpCancelDoes
       DEF Held, HeldThumpers, HeldThumpers, Shaped, AppFrame, WatcherFrame, HeartFrame,
           Only, Kept,
     Threads, NoThread, Free, Started, Thumped, Stops, Private, Ending
  <2>2. CASE t = "heart"
    BY <1>1, <2>2, ThumpCancelLocking, ThumpCancelDoes
       DEF Held, HeldThumpers, HeldThumpers, Shaped, AppFrame, WatcherFrame, HeartFrame,
           Only, Kept,
     Threads, NoThread, Free, Started, Thumped, Stops, Private, Ending
  <2> QED BY <2>1, <2>2
<1> QED BY <1>2, <1>3, <1>4 DEF Held

\* heart_wakes leaves each mutex with the call that needs it.
LEMMA WakesHeld ==
    ASSUME Sound, Held, heart_wakes
    PROVE  Held'
<1>1. Typed /\ Locks /\ Shaped /\ Counted
  BY DEF Sound
<1>2. HeldModule'
  BY <1>1, WakesDoes, WakesLocking, IdleFrame, Members
     DEF Held, HeldModule, Stops, Shaped, AppFrame, WatcherFrame, Only, Kept,
     Threads, NoThread, Free, Started, Thumped
<1>3. HeldMonitors'
  BY <1>1, WakesDoes, WakesLocking, IdleFrame, Members
     DEF Held, HeldMonitors, Subject, Private, Ending, Shaped, AppFrame, WatcherFrame,
         Only, Kept,
     Threads, NoThread, Free, Started, Thumped
<1>4. HeldThumpers'
  BY <1>1, WakesDoes, WakesLocking, IdleFrame, Members
     DEF Held, HeldThumpers, Private, Ending, Shaped, AppFrame, WatcherFrame, Only, Kept,
     Threads, NoThread, Free, Started, Thumped
<1> QED BY <1>2, <1>3, <1>4 DEF Held

\* handle_heartbeat_timers leaves each mutex with the call that needs it.
LEMMA HandlesHeld ==
    ASSUME Sound, Held, handle_heartbeat_timers
    PROVE  Held'
<1>1. Typed /\ Locks /\ Shaped /\ Counted
  BY DEF Sound
<1>2. HeldModule'
  BY <1>1, HandleMoves, HandlesLocking, IdleFrame, Members
     DEF Held, HeldModule, Stops, Shaped, AppFrame, WatcherFrame, Only, Kept,
     Threads, NoThread, Free, Started, Thumped
<1>3. HeldMonitors'
  BY <1>1, HandleMoves, HandlesLocking, IdleFrame, Members
     DEF Held, HeldMonitors, Subject, Private, Ending, Shaped, AppFrame, WatcherFrame,
         Only, Kept,
     Threads, NoThread, Free, Started, Thumped
<1>4. HeldThumpers'
  BY <1>1, HandleMoves, HandlesLocking, IdleFrame, Members
     DEF Held, HeldThumpers, Private, Ending, Shaped, AppFrame, WatcherFrame, Only, Kept,
     Threads, NoThread, Free, Started, Thumped
<1> QED BY <1>2, <1>3, <1>4 DEF Held

\* expired leaves each mutex with the call that needs it.
LEMMA ExpiresHeld ==
    ASSUME Sound, Held, expired
    PROVE  Held'
<1>1. Typed /\ Locks /\ Shaped /\ Counted
  BY DEF Sound
<1>2. HeldModule'
  BY <1>1, ExpiresDoes, ExpiresLocking, IdleFrame, Members
     DEF Held, HeldModule, Stops, Shaped, AppFrame, WatcherFrame, Only, Kept,
     Threads, NoThread, Free, Started, Thumped
<1>3. HeldMonitors'
  BY <1>1, ExpiresDoes, ExpiresLocking, IdleFrame, Members
     DEF Held, HeldMonitors, Subject, Private, Ending, Shaped, AppFrame, WatcherFrame,
         Only, Kept,
     Threads, NoThread, Free, Started, Thumped
<1>4. HeldThumpers'
  BY <1>1, ExpiresDoes, ExpiresLocking, IdleFrame, Members
     DEF Held, HeldThumpers, Private, Ending, Shaped, AppFrame, WatcherFrame, Only, Kept,
     Threads, NoThread, Free, Started, Thumped
<1> QED BY <1>2, <1>3, <1>4 DEF Held

\* heart_sleeps leaves each mutex with the call that needs it.
LEMMA SleepsHeld ==
    ASSUME Sound, Held, heart_sleeps
    PROVE  Held'
<1>1. Typed /\ Locks /\ Shaped /\ Counted
  BY DEF Sound
<1>2. HeldModule'
  BY <1>1, SleepsDoes, SleepsLocking, IdleFrame, Members
     DEF Held, HeldModule, Stops, Shaped, AppFrame, WatcherFrame, Only, Kept,
     Threads, NoThread, Free, Started, Thumped
<1>3. HeldMonitors'
  BY <1>1, SleepsDoes, SleepsLocking, IdleFrame, Members
     DEF Held, HeldMonitors, Subject, Private, Ending, Shaped, AppFrame, WatcherFrame,
         Only, Kept,
     Threads, NoThread, Free, Started, Thumped
<1>4. HeldThumpers'
  BY <1>1, SleepsDoes, SleepsLocking, IdleFrame, Members
     DEF Held, HeldThumpers, Private, Ending, Shaped, AppFrame, WatcherFrame, Only, Kept,
     Threads, NoThread, Free, Started, Thumped
<1> QED BY <1>2, <1>3, <1>4 DEF Held

-----------------------------------------------------------------------------
(* The invariant of the mutexes, and the theorems it gives *)

\* No mutex is held when the program starts.
LEMMA HeldInit == Init => Held
<1> SUFFICES ASSUME Init PROVE Held
  OBVIOUS
<1>1. \A t \in Threads : call[t].at = "idle"
  BY IdleFrame DEF Init
<1> QED
  BY <1>1
     DEF Init, Held, HeldModule, HeldMonitors, HeldThumpers, Subject, Private, Ending,
         Threads, NoThread

\* The steps of the application keep the mutexes with their calls,
LEMMA HeldApp ==
    ASSUME Sound, Held, App
    PROVE  Held'
<1>1. ASSUME NEW c \in Contexts, NEW period \in Periods,
        pubnub_enable_auto_heartbeat(c, period) PROVE Held'
  BY <1>1, EnableHeld
<1>2. ASSUME NEW c \in Contexts, NEW period \in Periods,
        pubnub_set_heartbeat_period(c, period) PROVE Held'
  BY <1>2, SetPeriodHeld
<1>3. ASSUME NEW c \in Contexts, pubnub_disable_auto_heartbeat(c) PROVE Held'
  BY <1>3, DisableHeld
<1>4. ASSUME NEW c \in Contexts, NEW enable \in BOOLEAN, pubnub_smart_heartbeat(c, enable)
      PROVE  Held'
  BY <1>4, SmartHeld
<1>5. ASSUME NEW c \in Contexts, pubnub_subscribe(c) PROVE Held'
  BY <1>5, SubscribeHeld
<1>6. ASSUME NEW c \in Contexts, pubnub_leave(c) PROVE Held'
  BY <1>6, LeaveHeld
<1>7. ASSUME form_heartbeat_thumper PROVE Held'
  BY <1>7, FormHeld
<1>8. ASSUME init_new_thumper_pb PROVE Held'
  BY <1>8, NewThumperHeld
<1>9. ASSUME set_period_lock PROVE Held'
  BY <1>9, PeriodLockHeld
<1>10. ASSUME setting_period PROVE Held'
  BY <1>10, SettingHeld
<1>11. ASSUME release_thumper PROVE Held'
  BY <1>11, ReleaseHeld
<1>12. ASSUME NEW t \in {"app", "watcher"}, stop_heartbeat(t) PROVE Held'
  BY <1>12, StopHeld
<1>13. ASSUME NEW t \in {"app", "watcher"}, auto_heartbeat_stop_timer(t) PROVE Held'
  BY <1>13, StopTimerHeld
<1>14. ASSUME released PROVE Held'
  BY <1>14, ReleasedHeld
<1>15. ASSUME prepare_channels_and_ch_groups PROVE Held'
  BY <1>15, PrepareHeld
<1> QED BY <1>1, <1>2, <1>3, <1>4, <1>5, <1>6, <1>7, <1>8, <1>9, <1>10, <1>11, <1>12,
      <1>13, <1>14, <1>15 DEF App

\* ... those of the watcher,
LEMMA HeldWatcher ==
    ASSUME Sound, Held, Watcher
    PROVE  Held'
<1>1. ASSUME NEW t \in {"app", "watcher"}, stop_heartbeat(t) PROVE Held'
  BY <1>1, StopHeld
<1>2. ASSUME NEW t \in {"app", "watcher"}, auto_heartbeat_stop_timer(t) PROVE Held'
  BY <1>2, StopTimerHeld
<1>3. ASSUME NEW c \in Contexts, transaction_ongoing(c) PROVE Held'
  BY <1>3, OngoingHeld
<1>4. ASSUME index_read_again PROVE Held'
  BY <1>4, ReadAgainHeld
<1>5. ASSUME stop_auto_heartbeat PROVE Held'
  BY <1>5, StopAutoHeld
<1>6. ASSUME parse_pubnub_result PROVE Held'
  BY <1>6, ParseHeld
<1>7. ASSUME watcher_done PROVE Held'
  BY <1>7, DoneHeld
<1>8. ASSUME NEW i \in Thumpers, beat_ends(i) PROVE Held'
  BY <1>8, EndsHeld
<1>9. ASSUME auto_heartbeat_callback PROVE Held'
  BY <1>9, CallbackHeld
<1>10. ASSUME callback_announce PROVE Held'
  BY <1>10, CallbackAnnounceHeld
<1>11. ASSUME start_is_started("watcher") PROVE Held'
  BY <1>11, IsStartedHeld
<1>12. ASSUME start_announce("watcher") PROVE Held'
  BY <1>12, AnnounceHeld
<1>13. ASSUME start_period("watcher") PROVE Held'
  BY <1>13, PeriodHeld
<1>14. ASSUME start_heartbeat_timer("watcher") PROVE Held'
  BY <1>14, TimerHeld
<1>15. ASSUME NEW t \in {"watcher", "heart"}, thump_assert(t) PROVE Held'
  BY <1>15, AssertsHeld
<1>16. ASSUME NEW t \in {"watcher", "heart"}, thump_lock(t) PROVE Held'
  BY <1>16, ThumpLockHeld
<1>17. ASSUME NEW t \in {"watcher", "heart"}, heartbeat_thump(t) PROVE Held'
  BY <1>17, ThumpsHeld
<1>18. ASSUME NEW t \in {"watcher", "heart"}, thump_cancel(t) PROVE Held'
  BY <1>18, ThumpCancelHeld
<1> QED BY <1>1, <1>2, <1>3, <1>4, <1>5, <1>6, <1>7, <1>8, <1>9, <1>10, <1>11, <1>12,
      <1>13, <1>14, <1>15, <1>16, <1>17, <1>18 DEF Watcher

\* ... and those of the heartbeat watcher.
LEMMA HeldHeart ==
    ASSUME Sound, Held, Heart
    PROVE  Held'
<1>1. ASSUME NEW t \in {"watcher", "heart"}, thump_assert(t) PROVE Held'
  BY <1>1, AssertsHeld
<1>2. ASSUME NEW t \in {"watcher", "heart"}, thump_lock(t) PROVE Held'
  BY <1>2, ThumpLockHeld
<1>3. ASSUME NEW t \in {"watcher", "heart"}, heartbeat_thump(t) PROVE Held'
  BY <1>3, ThumpsHeld
<1>4. ASSUME heart_wakes PROVE Held'
  BY <1>4, WakesHeld
<1>5. ASSUME handle_heartbeat_timers PROVE Held'
  BY <1>5, HandlesHeld
<1>6. ASSUME expired PROVE Held'
  BY <1>6, ExpiresHeld
<1>7. ASSUME heart_sleeps PROVE Held'
  BY <1>7, SleepsHeld
<1>8. ASSUME NEW t \in {"watcher", "heart"}, thump_cancel(t) PROVE Held'
  BY <1>8, ThumpCancelHeld
<1> QED BY <1>1, <1>2, <1>3, <1>4, <1>5, <1>6, <1>7, <1>8 DEF Heart

\* Every step does.
LEMMA HeldStep == Sound /\ Held /\ [Next]_vars => Held'
<1> SUFFICES ASSUME Sound, Held, [Next]_vars PROVE Held'
  OBVIOUS
<1>1. CASE Next
  BY <1>1, HeldApp, HeldWatcher, HeldHeart DEF Next
<1>2. CASE UNCHANGED vars
  BY <1>2 DEF Held, HeldModule, HeldMonitors, HeldThumpers, vars, locks
<1> QED BY <1>1, <1>2

\* The mutexes are with the calls that need them in every behaviour.
LEMMA HeldAlways == Spec => []Held
  BY HeldInit, HeldStep, SoundAlways, PTL DEF Spec

\* Every early return of pbauto_heartbeat.c gives back what its call took: a thread
\* without a call in progress holds neither m_watcher.mutw nor timerlock, no
\* monitor of a context and no thumper monitor.
THEOREM NothingHeldIdle == Spec => []IdleHoldsNothing
<1>1. Sound /\ Held => IdleHoldsNothing
  <2> SUFFICES ASSUME Sound, Held, NEW t \in Threads, call[t].at = "idle"
               PROVE  /\ t \notin {mutw, timerlock}
                      /\ \A x \in DOMAIN monitor : monitor[x] # t
                      /\ \A c \in Contexts : thumper_monitor[c] # t
    BY DEF IdleHoldsNothing
  <2>1. t \notin {mutw, timerlock}
    BY DEF Held, HeldModule, Threads, NoThread
  <2>2. ASSUME NEW x \in DOMAIN monitor PROVE monitor[x] # t
    <3>1. x \in Subject
      BY DEF Sound, Locks, Subject
    <3> QED BY <3>1 DEF Held, HeldMonitors, Threads
  <2>3. ASSUME NEW c \in Contexts PROVE thumper_monitor[c] # t
    <3>1. CASE t = "app"
      BY <3>1 DEF Held, HeldThumpers, Private, Ending
    <3>2. CASE t \in {"watcher", "heart"}
      BY <3>2 DEF Held, HeldThumpers
    <3> QED BY <3>1, <3>2 DEF Threads
  <2> QED BY <2>1, <2>2, <2>3
<1> QED BY <1>1, SoundAlways, HeldAlways, PTL

\* While no call holds the thumper monitor of a context, that context and its slot
\* name each other, no other slot names it, and thumpers_in_use counts the slots
\* with a context: form_heartbeat_thumper, release_thumper and the copies of
\* thumperIndex never disagree for anybody who takes the mutex.
THEOREM SlotsAlwaysAgree == Spec => []SlotsAgree
<1>1. Sound /\ Held => SlotsAgree
  <2> SUFFICES ASSUME Sound, Held PROVE SlotsAgree
    OBVIOUS
  <2>1. ASSUME NEW c \in Contexts, thumper_monitor[c] = NoThread
        PROVE  {i \in Thumpers : heartbeat_data[i].pb = c}
                 = {pb[c].thumperIndex} \ {UNASSIGNED}
    <3>1. ~ (call["app"].of = c /\ call["app"].at \in Ending)
      BY <2>1 DEF Held, HeldThumpers, Private, NoThread
    <3>2. \A i \in Thumpers : heartbeat_data[i].pb = c <=> pb[c].thumperIndex = i
      BY <3>1 DEF Sound, Tenure
    <3>3. pb[c].thumperIndex = UNASSIGNED \/ pb[c].thumperIndex \in Thumpers
      BY IndexKinds DEF Sound
    <3> QED BY <3>2, <3>3, Members
  <2>2. thumpers_in_use = Cardinality({i \in Thumpers : heartbeat_data[i].pb # NULL})
    BY DEF Sound, Counted, Taken
  <2> QED BY <2>1, <2>2 DEF SlotsAgree
<1> QED BY <1>1, SoundAlways, HeldAlways, PTL

-----------------------------------------------------------------------------
(* The timers: the inductive invariant *)

\* The array of running timers: while the heartbeat watcher goes over it, the
\* copy in its call is the array.
Array == IF call["heart"].at = "idle" THEN timer_index_array ELSE call["heart"].indexes

\* A timer in the array has time left, is in it once, and no other has any.
Running ==
    \A i \in plain : Once(Array, i) /\ (Occurs(Array, i) <=> heartbeat_timers[i] > 0)

\* A slot that has had no context yet neither beats nor has a timer.
Quiet ==
    \A i \in Thumpers : i \notin given_up /\ heartbeat_data[i].pb = NULL
        => i \in plain /\ beat[i] = "IDLE" /\ heartbeat_timers[i] = 0

\* A slot used as its context expects was never given up;
Fresh == \A i \in plain : i \notin given_up

\* one being given up is not used like that any more,
Retired == call["app"].at \in Ending =>
    /\ call["app"].thumper \notin plain
    /\ call["app"].thumper \in given_up /\ call["app"].of \in given_up

\* ... nor is the slot of a context in smart mode.
Apart == \A c \in Contexts : pb[c].use_smart_heartbeat => pb[c].thumperIndex \notin plain

\* A slot with a context has a period.
Periodic == \A i \in Thumpers :
    heartbeat_data[i].pb # NULL => heartbeat_data[i].period_sec > 0
Timing == Running /\ Quiet /\ Fresh /\ Retired /\ Apart /\ Periodic

\* Where the watcher works on a slot it has looked up
Working == {"callback", "callback_announce"} \cup Stops \cup Started \cup Thumped

\* Where the timer of that slot is known not to run
Unstarted(f) ==
    \/ f.at \in Stops \cup {"start_period", "start_timer"}
    \/ f.at \in Thumped /\ f.then = "start_period"
    \/ f.at = "start_announce" /\ ~ f.started

\* What the watcher found out about a slot still holds,
Watching ==
    LET f == call["watcher"]
        i == pb[f.of].thumperIndex
    IN  /\ f.at \in Working /\ f.thumper \notin given_up => heartbeat_data[f.thumper].pb # NULL
        /\ Unstarted(f) /\ f.thumper \in plain => heartbeat_timers[f.thumper] = 0
        /\ f.at = "ongoing" /\ i \in plain => heartbeat_timers[i] = 0
        /\ f.at = "start_announce" => f.pb = heartbeat_data[f.thumper].pb
        /\ f.at = "start_timer" /\ f.thumper \in plain => f.period > 0
        /\ f.at = "thump" /\ f.thumper \notin given_up => f.pb # NULL
        /\ f.at \in {"ongoing", "parsed"} /\ f.of \notin given_up => i # UNASSIGNED

\* ... and what the heartbeat watcher did
Beating ==
    LET f == call["heart"]
    IN  /\ f.at \in {"expired"} \cup Thumped /\ f.thumper \notin given_up
             => heartbeat_data[f.thumper].pb # NULL
        /\ f.at = "thump" /\ f.thumper \notin given_up => f.pb # NULL

\* The assertion of start_heartbeat_timer
Intact == "active_timers" \in failed => plain # Thumpers

-----------------------------------------------------------------------------
(* Operations that leave the timers alone *)

\* Timers, periods, slots and heartbeat transactions stay as they are.
DataKept ==
    /\ UNCHANGED <<heartbeat_timers, timer_index_array, beat, plain, given_up>>
    /\ SlotsKept
    /\ \A c \in Contexts : pb'[c].use_smart_heartbeat = pb[c].use_smart_heartbeat
    /\ \A i \in Thumpers : heartbeat_data'[i].period_sec = heartbeat_data[i].period_sec

\* pubnub_enable_auto_heartbeat leaves timers, periods and heartbeat transactions alone.
LEMMA EnableData ==
    ASSUME Typed, NEW c \in Contexts, NEW period \in Periods,
           pubnub_enable_auto_heartbeat(c, period)
    PROVE  DataKept /\ failed' = failed
  BY EnableKeeps
     DEF DataKept, Typed, Data, Parts, slots, timers, pubnub_enable_auto_heartbeat, Called

\* pubnub_set_heartbeat_period leaves timers, periods and heartbeat transactions alone.
LEMMA SetPeriodData ==
    ASSUME Typed, NEW c \in Contexts, NEW period \in Periods,
           pubnub_set_heartbeat_period(c, period)
    PROVE  DataKept /\ failed' = failed
  BY SetPeriodKeeps
     DEF DataKept, Typed, Data, Parts, slots, timers, pubnub_set_heartbeat_period, Called

\* pubnub_disable_auto_heartbeat leaves timers, periods and heartbeat transactions alone.
LEMMA DisableData ==
    ASSUME Typed, NEW c \in Contexts, pubnub_disable_auto_heartbeat(c)
    PROVE  DataKept /\ failed' = failed
  BY DisableKeeps
     DEF DataKept, Typed, Data, Parts, slots, timers, pubnub_disable_auto_heartbeat, Called

\* pubnub_subscribe leaves timers, periods and heartbeat transactions alone.
LEMMA SubscribeData ==
    ASSUME Typed, NEW c \in Contexts, pubnub_subscribe(c)
    PROVE  DataKept /\ failed' = failed
  BY SubscribeKeeps
     DEF DataKept, Typed, Data, Parts, slots, timers, pubnub_subscribe, Called

\* pubnub_leave leaves timers, periods and heartbeat transactions alone.
LEMMA LeaveData ==
    ASSUME Typed, NEW c \in Contexts, pubnub_leave(c)
    PROVE  DataKept /\ failed' = failed
  BY LeaveKeeps DEF DataKept, Typed, Data, Parts, slots, timers, pubnub_leave, Called

\* set_period_lock leaves timers, periods and heartbeat transactions alone.
LEMMA PeriodLockData ==
    ASSUME Typed, set_period_lock
    PROVE  DataKept /\ failed' = failed
  BY PeriodLockKeeps DEF DataKept, Typed, Data, Parts, slots, timers, set_period_lock

\* prepare_channels_and_ch_groups leaves timers, periods and heartbeat transactions alone.
LEMMA PrepareData ==
    ASSUME Typed, prepare_channels_and_ch_groups
    PROVE  DataKept /\ failed' = failed
<1>1. \A c \in Contexts : pb'[c].use_smart_heartbeat = pb[c].use_smart_heartbeat
  BY DEF Typed, Parts, prepare_channels_and_ch_groups
<1>2. \A i \in Thumpers : heartbeat_data'[i].period_sec = heartbeat_data[i].period_sec
  BY DEF Typed, Data, slots, prepare_channels_and_ch_groups
<1> QED
  BY <1>1, <1>2, PrepareKeeps DEF DataKept, slots, timers, prepare_channels_and_ch_groups

\* transaction_ongoing leaves timers, periods and heartbeat transactions alone.
LEMMA OngoingData ==
    ASSUME Typed, NEW c \in Contexts, transaction_ongoing(c)
    PROVE  DataKept /\ failed' = failed
  BY OngoingKeeps DEF DataKept, Typed, Data, Parts, slots, timers, transaction_ongoing

\* index_read_again leaves timers, periods and heartbeat transactions alone.
LEMMA ReadAgainData ==
    ASSUME Typed, index_read_again
    PROVE  DataKept
  BY ReadAgainKeeps DEF DataKept, Typed, Data, Parts, slots, timers, index_read_again

\* stop_auto_heartbeat leaves timers, periods and heartbeat transactions alone.
LEMMA StopAutoData ==
    ASSUME Typed, stop_auto_heartbeat
    PROVE  DataKept /\ failed' = failed
  BY StopAutoKeeps DEF DataKept, Typed, Data, Parts, slots, timers, stop_auto_heartbeat

\* parse_pubnub_result leaves timers, periods and heartbeat transactions alone.
LEMMA ParseData ==
    ASSUME Typed, parse_pubnub_result
    PROVE  DataKept /\ failed' = failed
<1>1. \A c \in Contexts : pb'[c].use_smart_heartbeat = pb[c].use_smart_heartbeat
  <2>1. PICK r \in {"PNR_OK", "error"} :
          pb' = [pb EXCEPT ![call["watcher"].of].state = "IDLE",
              ![call["watcher"].of].last_result = r]
    BY DEF parse_pubnub_result
  <2> QED BY <2>1 DEF Typed, Parts
<1>2. \A i \in Thumpers : heartbeat_data'[i].period_sec = heartbeat_data[i].period_sec
  BY DEF Typed, Data, slots, parse_pubnub_result
<1> QED
  BY <1>1, <1>2, ParseKeeps DEF DataKept, slots, timers, parse_pubnub_result

\* watcher_done leaves timers, periods and heartbeat transactions alone.
LEMMA DoneData ==
    ASSUME Typed, watcher_done
    PROVE  DataKept /\ failed' = failed
  BY DoneKeeps DEF DataKept, Typed, Data, Parts, slots, timers, watcher_done

\* auto_heartbeat_callback leaves timers, periods and heartbeat transactions alone.
LEMMA CallbackData ==
    ASSUME Typed, auto_heartbeat_callback
    PROVE  DataKept /\ failed' = failed
  BY CallbackKeeps
     DEF DataKept, Typed, Data, Parts, slots, timers, auto_heartbeat_callback, Answer

\* callback_announce leaves timers, periods and heartbeat transactions alone.
LEMMA CallbackAnnounceData ==
    ASSUME Typed, callback_announce
    PROVE  DataKept /\ failed' = failed
<1>1. \A c \in Contexts : pb'[c].use_smart_heartbeat = pb[c].use_smart_heartbeat
  BY DEF Typed, Parts, callback_announce, Answer
<1>2. \A i \in Thumpers : heartbeat_data'[i].period_sec = heartbeat_data[i].period_sec
  BY DEF Typed, Data, slots, callback_announce, Answer
<1> QED
  BY <1>1, <1>2, CallbackAnnounceKeeps
     DEF DataKept, slots, timers, callback_announce, Answer

\* start_is_started leaves timers, periods and heartbeat transactions alone.
LEMMA IsStartedData ==
    ASSUME Typed, start_is_started("watcher")
    PROVE  DataKept /\ failed' = failed
  BY IsStartedKeeps DEF DataKept, Typed, Data, Parts, slots, timers, start_is_started

\* start_announce leaves timers, periods and heartbeat transactions alone.
LEMMA AnnounceData ==
    ASSUME Typed, start_announce("watcher")
    PROVE  DataKept /\ failed' = failed
  BY AnnounceKeeps DEF DataKept, Typed, Data, Parts, slots, timers, start_announce

\* start_period leaves timers, periods and heartbeat transactions alone.
LEMMA PeriodData ==
    ASSUME Typed, start_period("watcher")
    PROVE  DataKept /\ failed' = failed
  BY PeriodKeeps DEF DataKept, Typed, Data, Parts, slots, timers, start_period

\* thump_lock leaves timers, periods and heartbeat transactions alone.
LEMMA ThumpLockData ==
    ASSUME Typed, NEW t \in {"watcher", "heart"}, thump_lock(t)
    PROVE  DataKept /\ failed' = failed
  BY ThumpLockKeeps DEF DataKept, Typed, Data, Parts, slots, timers, thump_lock

\* expired leaves timers, periods and heartbeat transactions alone.
LEMMA ExpiresData ==
    ASSUME Typed, expired
    PROVE  DataKept /\ failed' = failed
  BY ExpiresKeeps DEF DataKept, Typed, Data, Parts, slots, timers, expired

\* heart_wakes leaves timers, periods and heartbeat transactions alone.
LEMMA WakesData ==
    ASSUME Typed, heart_wakes
    PROVE  DataKept /\ failed' = failed
  BY WakesKeeps DEF DataKept, Typed, Data, Parts, slots, timers, heart_wakes

-----------------------------------------------------------------------------
(* What keeps each part of the invariant *)

\* No slot comes into plain, and no timer is started there; a slot that loses its
\* context is given up.
Milder ==
    /\ plain' \subseteq plain /\ given_up \subseteq given_up'
    /\ \A i \in Thumpers : i \notin given_up' /\ heartbeat_data[i].pb # NULL
                           => heartbeat_data'[i].pb # NULL
    /\ \A i \in plain' : heartbeat_timers[i] = 0 => heartbeat_timers'[i] = 0

\* An operation that leaves the timers alone does none of that.
LEMMA DataMilder ==
    ASSUME Typed, DataKept
    PROVE  Milder
  BY DEF Typed, DataKept, SlotsKept, Milder

\* The application's call is not half way through giving up a slot, or was before.
Unreleased ==
    call'["app"].at \in Ending =>
        /\ call["app"].at \in Ending /\ call'["app"].thumper = call["app"].thumper
        /\ call'["app"].of = call["app"].of

\* The timers stay in order where nothing about them changes.
LEMMA TimingKept ==
    ASSUME Typed, Timing, DataKept, Array' = Array, Unreleased
    PROVE  Timing'
<1>1. Running'
  BY DEF Timing, Running, DataKept
<1>2. Quiet' /\ Fresh' /\ Periodic'
  BY DEF Timing, Quiet, Fresh, Periodic, DataKept, SlotsKept, Typed
<1>3. Retired'
  BY DEF Timing, Retired, DataKept, Unreleased
<1>4. Apart'
  BY DEF Timing, Apart, DataKept, SlotsKept
<1> QED BY <1>1, <1>2, <1>3, <1>4 DEF Timing

\* What the heartbeat watcher found out holds as long as no slot loses its context.
LEMMA BeatingKept ==
    ASSUME Shaped, Beating, call'["heart"] = call["heart"], given_up \subseteq given_up',
           \A i \in Thumpers : i \notin given_up' /\ heartbeat_data[i].pb # NULL
                              => heartbeat_data'[i].pb # NULL
    PROVE  Beating'
  BY DEF Beating, Shaped, HeartFrame

\* What the watcher found out holds as long as its own call does not move and the
\* others do no worse than that.
LEMMA WatchingKept ==
    ASSUME Typed, Shaped, Watching, Milder, call'["watcher"] = call["watcher"],
           call["watcher"].at = "start_announce" =>
               heartbeat_data'[call["watcher"].thumper].pb
                   = heartbeat_data[call["watcher"].thumper].pb,
           \A c \in Contexts :
               \/ pb'[c].thumperIndex = pb[c].thumperIndex
               \/ /\ pb'[c].thumperIndex \in Thumpers
                  /\ pb'[c].thumperIndex \in plain
                       => heartbeat_timers'[pb'[c].thumperIndex] = 0
               \/ c \in given_up' /\ pb'[c].thumperIndex \notin plain
    PROVE  Watching'
<1> DEFINE f == call["watcher"]
           i == pb'[f.of].thumperIndex
<1>1. f.at \in {"ongoing", "parsed"} => f.of \in Contexts
  BY DEF Shaped, WatcherFrame
<1>2. /\ f.at \in Working /\ f.thumper \notin given_up' => heartbeat_data'[f.thumper].pb # NULL
      /\ Unstarted(f) /\ f.thumper \in plain' => heartbeat_timers'[f.thumper] = 0
  BY DEF Watching, Milder, Working, Shaped, WatcherFrame
<1>3. f.at = "ongoing" /\ i \in plain' => heartbeat_timers'[i] = 0
  BY <1>1 DEF Watching, Milder
<1>4. f.at = "start_announce" => f.pb = heartbeat_data'[f.thumper].pb
  BY DEF Watching
<1>5. /\ f.at = "start_timer" /\ f.thumper \in plain' => f.period > 0
      /\ f.at = "thump" /\ f.thumper \notin given_up' => f.pb # NULL
  BY DEF Watching, Milder
<1>6. f.at \in {"ongoing", "parsed"} /\ f.of \notin given_up' => i # UNASSIGNED
  BY <1>1, Members DEF Watching, Milder, Typed
<1> QED BY <1>2, <1>3, <1>4, <1>5, <1>6 DEF Watching

\* The array stays as it is while the heartbeat watcher does not move.
LEMMA ArrayKept ==
    ASSUME call'["heart"] = call["heart"], timer_index_array' = timer_index_array
    PROVE  Array' = Array
  BY DEF Array

-----------------------------------------------------------------------------
(* The operations of the application *)

\* What is known of types, slots and mutexes
Ready == Sound /\ Held

\* The invariant of the timers
Orderly == Timing /\ Watching /\ Beating /\ Intact

\* The parts of it that the steps below cite
LEMMA ReadyFacts ==
    ASSUME Ready
    PROVE  /\ Typed /\ Locks /\ Shaped /\ Tenure /\ Counted /\ plain \subseteq Thumpers
           /\ HeldModule /\ Held
  BY DEF Ready, Sound, Held, Typed

\* No assertion fails in a step that records none.
LEMMA IntactKept ==
    ASSUME Typed, Intact, failed' = failed, plain' \subseteq plain
    PROVE  Intact'
  BY DEF Intact, Typed

\* The watcher that does not move
LEMMA WatchingUnmoved ==
    ASSUME Ready, Watching, DataKept, call'["watcher"] = call["watcher"]
    PROVE  Watching'
<1>1. call["watcher"].at = "start_announce" =>
         heartbeat_data'[call["watcher"].thumper].pb
             = heartbeat_data[call["watcher"].thumper].pb
  BY ReadyFacts DEF DataKept, SlotsKept, Shaped, WatcherFrame, Started
<1>2. \A c \in Contexts : pb'[c].thumperIndex = pb[c].thumperIndex
  BY DEF DataKept, SlotsKept
<1> QED BY <1>1, <1>2, ReadyFacts, DataMilder, WatchingKept

\* The heartbeat watcher that does not move
LEMMA BeatingUnmoved ==
    ASSUME Ready, Beating, SlotsKept, given_up' = given_up, call'["heart"] = call["heart"]
    PROVE  Beating'
  BY ReadyFacts, BeatingKept DEF SlotsKept

\* A step of the application that leaves the timers alone, and begins no release
LEMMA AppData ==
    ASSUME Ready, Orderly, Only("app"), DataKept, failed' = failed,
           call'["app"].at \notin Ending \/ call'["app"] = call["app"]
    PROVE  Orderly'
<1>1. /\ call'["watcher"] = call["watcher"] /\ call'["heart"] = call["heart"]
      /\ Unreleased
  BY DEF Only, Threads, Unreleased
<1>2. Array' = Array
  BY <1>1, ArrayKept DEF DataKept
<1>3. Timing'
  BY <1>1, <1>2, ReadyFacts, TimingKept DEF Orderly
<1>4. Watching'
  BY <1>1, WatchingUnmoved DEF Orderly
<1>5. Beating'
  BY <1>1, BeatingUnmoved DEF Orderly, DataKept
<1>6. Intact'
  BY ReadyFacts, IntactKept DEF Orderly, DataKept
<1> QED BY <1>3, <1>4, <1>5, <1>6 DEF Orderly

\* pubnub_smart_heartbeat keeps the timers in order.
LEMMA SmartOrderly ==
    ASSUME Ready, Orderly, NEW c \in Contexts, NEW enable \in BOOLEAN,
           pubnub_smart_heartbeat(c, enable)
    PROVE  Orderly'
<1>1. call' = call /\ plain' \subseteq plain /\ UNCHANGED <<slots, timers, beat, failed, given_up>>
  BY SmartDoes, ReadyFacts DEF pubnub_smart_heartbeat
<1>2. Array' = Array
  BY <1>1 DEF Array, timers
<1>3. \A e \in Contexts : pb'[e].thumperIndex = pb[e].thumperIndex
  BY SmartKeeps, ReadyFacts DEF SlotsKept
<1>4. Apart'
  <2> SUFFICES ASSUME NEW e \in Contexts, pb'[e].use_smart_heartbeat
               PROVE  pb'[e].thumperIndex \notin plain'
    BY DEF Apart
  <2>1. CASE e = c
    <3>1. enable
      BY <2>1, ReadyFacts DEF pubnub_smart_heartbeat, Typed, Parts
    <3> QED BY <2>1, <3>1, <1>3 DEF pubnub_smart_heartbeat
  <2>2. CASE e # c
    <3>1. pb[e].use_smart_heartbeat
      BY <2>2, ReadyFacts DEF pubnub_smart_heartbeat, Typed
    <3> QED BY <3>1, <1>1, <1>3 DEF Orderly, Timing, Apart
  <2> QED BY <2>1, <2>2
<1>5. Quiet'
  <2> SUFFICES ASSUME NEW i \in Thumpers, i \notin given_up, heartbeat_data[i].pb = NULL
               PROVE  i \in plain' /\ beat[i] = "IDLE" /\ heartbeat_timers[i] = 0
    BY <1>1 DEF Quiet, slots, timers
  <2>1. call["app"].at = "idle"
    BY DEF pubnub_smart_heartbeat, Called
  <2>2. pb[c].thumperIndex # i
    BY <2>1, ReadyFacts, Members DEF Tenure, Ending
  <2>3. i \in plain /\ beat[i] = "IDLE" /\ heartbeat_timers[i] = 0
    BY DEF Orderly, Timing, Quiet
  <2> QED BY <2>2, <2>3 DEF pubnub_smart_heartbeat
<1>6. Timing'
  BY <1>1, <1>2, <1>4, <1>5
     DEF Orderly, Timing, Running, Fresh, Retired, Periodic, slots, timers
<1>7. Watching'
  BY <1>1, <1>3, ReadyFacts, WatchingKept DEF Orderly, Milder, slots, timers
<1>8. Beating'
  BY <1>1, ReadyFacts, BeatingKept DEF Orderly, slots
<1>9. Intact'
  BY <1>1, ReadyFacts, IntactKept DEF Orderly
<1> QED BY <1>6, <1>7, <1>8, <1>9 DEF Orderly

\* A slot given to a context has a period, no timer and no heartbeat yet.
LEMMA FormedOrderly ==
    ASSUME Ready, Orderly, Only("app"), call["app"].at \in {"form", "init"},
           NEW i \in Thumpers, heartbeat_data[i].pb = NULL, NEW k, NEW b,
           Formed(call["app"].of, i, k, b), call'["app"].at = "set_period",
           UNCHANGED <<timers, beat, failed, given_up>>, call["watcher"].at # "start_announce"
    PROVE  Orderly'
<1> DEFINE c == call["app"].of
           d == [pb |-> c, keys |-> k, cb |-> b, period_sec |-> MinPeriod]
<1>1. c \in Contexts /\ c # NULL
  BY ReadyFacts, Members DEF Shaped, AppFrame
<1>2. heartbeat_data' = [heartbeat_data EXCEPT ![i] = d] /\ d.pb = c
        /\ d.period_sec = MinPeriod
  BY DEF Formed
<1> HIDE DEF d
<1>3. /\ heartbeat_data'[i].pb = c /\ heartbeat_data'[i].period_sec = MinPeriod
      /\ \A j \in Thumpers : j # i => heartbeat_data'[j] = heartbeat_data[j]
  BY <1>2, ReadyFacts DEF Typed
<1>4. /\ pb'[c].thumperIndex = i /\ pb'[c].use_smart_heartbeat = pb[c].use_smart_heartbeat
      /\ \A e \in Contexts : e # c => pb'[e] = pb[e]
  BY <1>1, ReadyFacts DEF Formed, Typed, Parts
<1>5. /\ plain' \subseteq plain /\ plain' \subseteq Thumpers /\ plain \subseteq plain' \cup {i}
      /\ pb[c].use_smart_heartbeat => i \notin plain'
  BY ReadyFacts DEF Formed
<1>6. call'["watcher"] = call["watcher"] /\ call'["heart"] = call["heart"]
  BY DEF Only, Threads
<1>7. Array' = Array
  BY <1>6, ArrayKept DEF timers
<1>8. Running' /\ Fresh' /\ Retired'
  BY <1>5, <1>7 DEF Orderly, Timing, Running, Fresh, Retired, timers, Ending
<1>9. Quiet'
  BY <1>1, <1>3, <1>5 DEF Orderly, Timing, Quiet, timers
<1>10. Apart'
  BY <1>1, <1>4, <1>5 DEF Orderly, Timing, Apart
<1>11. Periodic'
  BY <1>3, PeriodsAssumption DEF Orderly, Timing, Periodic
<1>12. Milder
  BY <1>1, <1>3, <1>5 DEF Milder, timers
<1>13. \A e \in Contexts :
          \/ pb'[e].thumperIndex = pb[e].thumperIndex
          \/ /\ pb'[e].thumperIndex \in Thumpers
             /\ pb'[e].thumperIndex \in plain => heartbeat_timers'[pb'[e].thumperIndex] = 0
  BY <1>1, <1>4 DEF Orderly, Timing, Quiet, Fresh, timers
<1>14. Watching'
  BY <1>6, <1>12, <1>13, ReadyFacts, WatchingKept DEF Orderly
<1>15. Beating'
  BY <1>5, <1>6, <1>12, ReadyFacts, BeatingKept DEF Orderly, Milder
<1>16. Intact'
  BY <1>5, ReadyFacts, IntactKept DEF Orderly
<1> QED BY <1>8, <1>9, <1>10, <1>11, <1>14, <1>15, <1>16 DEF Orderly, Timing

\* form_heartbeat_thumper keeps the timers in order.
LEMMA FormOrderly ==
    ASSUME Ready, Orderly, form_heartbeat_thumper
    PROVE  Orderly'
<1>1. /\ Only("app") /\ call["app"].at = "form" /\ UNCHANGED <<timers, beat, failed, given_up>>
      /\ thumpers_in_use \in Nat
  BY FormDoes, ReadyFacts, TakenFinite DEF form_heartbeat_thumper, Counted
<1>2. \/ UNCHANGED <<slots, pb, plain>> /\ call'["app"].at \in {"idle", "init"}
      \/ /\ thumpers_in_use < MaxThumpers /\ call'["app"].at = "set_period"
         /\ Formed(call["app"].of, First, heartbeat_data[First].keys,
              heartbeat_data[First].cb)
  <2>1. \/ UNCHANGED <<slots, pb, plain>> /\ thumpers_in_use >= MaxThumpers
        \/ /\ thumpers_in_use < MaxThumpers /\ heartbeat_data[First].keys # NoKeys
           /\ Formed(call["app"].of, First, heartbeat_data[First].keys,
                heartbeat_data[First].cb)
        \/ UNCHANGED <<slots, pb,
             plain>> /\ thumpers_in_use < MaxThumpers /\ heartbeat_data[First].keys = NoKeys
    BY DEF form_heartbeat_thumper, First
  <2> QED BY <1>1, <2>1, ReadyFacts, FormDoes, IdleFrame, ThumpersAssumption
<1>3. CASE UNCHANGED <<slots, pb, plain>> /\ call'["app"].at \in {"idle", "init"}
  BY <1>1, <1>3, AppData DEF DataKept, SlotsKept, slots, timers, Ending
<1>4. CASE /\ thumpers_in_use < MaxThumpers /\ call'["app"].at = "set_period"
           /\ Formed(call["app"].of, First, heartbeat_data[First].keys,
                heartbeat_data[First].cb)
  <2>1. call["watcher"].at # "start_announce"
    BY ReadyFacts DEF form_heartbeat_thumper, HeldModule, Free, NoThread
  <2> QED BY <1>1, <1>4, <2>1, ReadyFacts, FirstFree, FormedOrderly
<1> QED BY <1>2, <1>3, <1>4

\* init_new_thumper_pb keeps the timers in order.
LEMMA NewThumperOrderly ==
    ASSUME Ready, Orderly, init_new_thumper_pb
    PROVE  Orderly'
<1>1. /\ Only("app") /\ call["app"].at = "init" /\ call["app"].thumper \in Thumpers
      /\ heartbeat_data[call["app"].thumper].pb = NULL
      /\ UNCHANGED <<timers, beat, failed, given_up>>
  BY NewThumperDoes, ReadyFacts DEF init_new_thumper_pb, Shaped, AppFrame, Tenure
<1>2. CASE Formed(call["app"].of, call["app"].thumper, KeysOf[call["app"].of], TRUE)
  <2>1. call'["app"].at = "set_period"
    BY <1>2, ReadyFacts, GoesTo, StepNames DEF Formed, Threads
  <2>2. call["watcher"].at # "start_announce"
    BY <1>1, ReadyFacts DEF HeldModule
  <2> QED BY <1>1, <1>2, <2>1, <2>2, FormedOrderly
<1>3. CASE UNCHANGED <<slots, pb, plain>> /\ app_returns
  BY <1>1, <1>3, ReadyFacts, Returns, IdleFrame, AppData
     DEF DataKept, SlotsKept, slots, timers, Ending
<1> QED BY <1>2, <1>3 DEF init_new_thumper_pb

\* setting_period keeps the timers in order.
LEMMA SettingOrderly ==
    ASSUME Ready, Orderly, setting_period
    PROVE  Orderly'
<1>1. /\ call["app"].at = "setting_period" /\ call'["app"].at = "idle" /\ Only("app")
      /\ UNCHANGED <<timers, pb, beat, failed, plain, given_up>> /\ SlotsKept
  BY ReadyFacts, SettingDoes, SettingKeeps, IdleFrame DEF setting_period
<1>2. call["app"].period > 0
  BY <1>1, ReadyFacts DEF Shaped, AppFrame
<1>3. call'["watcher"] = call["watcher"] /\ call'["heart"] = call["heart"]
  BY <1>1 DEF Only, Threads
<1>4. Array' = Array
  BY <1>1, <1>3, ArrayKept DEF timers
<1>5. Running' /\ Quiet' /\ Fresh' /\ Retired' /\ Apart'
  BY <1>1, <1>4, ReadyFacts
     DEF Orderly, Timing, Running, Quiet, Fresh, Retired, Apart, timers, SlotsKept, Ending
<1>6. Periodic'
  <2>1. PICK x : heartbeat_data'
          = [heartbeat_data EXCEPT ![x].period_sec = call["app"].period]
    BY DEF setting_period
  <2>2. \A j \in Thumpers : \/ heartbeat_data'[j].period_sec = heartbeat_data[j].period_sec
                            \/ heartbeat_data'[j].period_sec = call["app"].period
    BY <2>1, ReadyFacts DEF Typed, Data
  <2> QED BY <1>1, <1>2, <2>2 DEF Orderly, Timing, Periodic, SlotsKept
<1>7. Watching'
  BY <1>1, <1>3, ReadyFacts, WatchingKept
     DEF Orderly, Milder, SlotsKept, timers, Shaped, WatcherFrame, Started
<1>8. Beating'
  BY <1>1, <1>3, BeatingUnmoved DEF Orderly
<1>9. Intact'
  BY <1>1, ReadyFacts, IntactKept DEF Orderly
<1> QED BY <1>5, <1>6, <1>7, <1>8, <1>9 DEF Orderly, Timing

\* release_thumper keeps the timers in order.
LEMMA ReleaseOrderly ==
    ASSUME Ready, Orderly, release_thumper
    PROVE  Orderly'
<1> DEFINE i == call["app"].thumper
<1>1. /\ call["app"].at = "release" /\ i \in Thumpers /\ Only("app")
      /\ call'["app"].at = "stop" /\ call'["app"].thumper = i
      /\ call'["app"].of = call["app"].of /\ call["app"].of \in Contexts
      /\ UNCHANGED <<timers, pb, beat, failed>> /\ plain' = plain \ {i}
      /\ given_up' = given_up \cup {i, call["app"].of}
  BY ReadyFacts, ReleaseDoes DEF release_thumper, Kept, Shaped, AppFrame
<1>2. /\ heartbeat_data'[i].pb = NULL
      /\ \A j \in Thumpers : j # i => heartbeat_data'[j] = heartbeat_data[j]
  BY <1>1, ReadyFacts DEF release_thumper, Typed, Data
<1>3. call'["watcher"] = call["watcher"] /\ call'["heart"] = call["heart"]
  BY <1>1 DEF Only, Threads
<1>4. Array' = Array
  BY <1>1, <1>3, ArrayKept DEF timers
<1>5. call["watcher"].at # "start_announce"
  BY ReadyFacts DEF release_thumper, HeldModule, Free, NoThread
<1>6. Timing'
  <2>1. Fresh'
    BY <1>1, ReadyFacts, ContextsAssumption DEF Orderly, Timing, Fresh, Thumpers
  <2> QED
    BY <1>1, <1>2, <1>4, <2>1, ReadyFacts
       DEF Orderly, Timing, Running, Quiet, Retired, Apart, Periodic, timers
<1>7. Milder
  BY <1>1, <1>2, ReadyFacts DEF Milder, timers
<1>8. Watching'
  BY <1>1, <1>3, <1>5, <1>7, ReadyFacts, WatchingKept DEF Orderly
<1>9. Beating'
  BY <1>3, <1>7, ReadyFacts, BeatingKept DEF Orderly, Milder
<1>10. Intact'
  BY <1>1, ReadyFacts, IntactKept DEF Orderly
<1> QED BY <1>6, <1>8, <1>9, <1>10 DEF Orderly

\* released keeps the timers in order.
LEMMA ReleasedOrderly ==
    ASSUME Ready, Orderly, released
    PROVE  Orderly'
<1> DEFINE c == call["app"].of
<1>1. /\ call["app"].at = "released" /\ c \in Contexts /\ Only("app")
           /\ call'["app"].at = "idle"
      /\ c \in given_up
      /\ UNCHANGED <<slots, timers, beat, failed, plain, given_up>>
  BY ReadyFacts, ReleasedDoes, IdleFrame
     DEF released, Shaped, AppFrame, Orderly, Timing, Retired, Ending
<1>2. /\ pb'[c].thumperIndex = UNASSIGNED
      /\ \A e \in Contexts : e # c => pb'[e] = pb[e]
  BY <1>1, ReadyFacts DEF released, Typed, Parts
<1>3. call'["watcher"] = call["watcher"] /\ call'["heart"] = call["heart"]
  BY <1>1 DEF Only, Threads
<1>4. Array' = Array
  BY <1>1, <1>3, ArrayKept DEF timers
<1>5. UNASSIGNED \notin plain
  BY <1>1, ReadyFacts, Members
<1>6. Timing'
  BY <1>1, <1>2, <1>4, <1>5
     DEF Orderly, Timing, Running, Quiet, Fresh, Retired, Apart, Periodic, slots, timers, Ending
<1>7. Watching'
  BY <1>1, <1>2, <1>3, <1>5, ReadyFacts, WatchingKept DEF Orderly, Milder, slots, timers
<1>8. Beating'
  BY <1>1, <1>3, ReadyFacts, BeatingKept DEF Orderly, slots
<1>9. Intact'
  BY <1>1, ReadyFacts, IntactKept DEF Orderly
<1> QED BY <1>6, <1>7, <1>8, <1>9 DEF Orderly

-----------------------------------------------------------------------------
(* The operations of the watcher *)

\* A step of the watcher that leaves the timers alone
LEMMA WatcherData ==
    ASSUME Ready, Orderly, Only("watcher"), DataKept
    PROVE  Timing' /\ Beating'
<1>1. call'["app"] = call["app"] /\ call'["heart"] = call["heart"] /\ Unreleased
  BY DEF Only, Threads, Unreleased
<1>2. Array' = Array
  BY <1>1, ArrayKept DEF DataKept
<1>3. Timing'
  BY <1>1, <1>2, ReadyFacts, TimingKept DEF Orderly
<1>4. Beating'
  BY <1>1, BeatingUnmoved DEF Orderly, DataKept
<1> QED BY <1>3, <1>4

\* ... and knows about its slot what it should
LEMMA WatcherMoved ==
    ASSUME Ready, Orderly, Only("watcher"), DataKept, failed' = failed, Watching'
    PROVE  Orderly'
  BY WatcherData, ReadyFacts, IntactKept DEF Orderly, DataKept

\* transaction_ongoing keeps the timers in order.
LEMMA OngoingOrderly ==
    ASSUME Ready, Orderly, NEW c \in Contexts, transaction_ongoing(c)
    PROVE  Orderly'
<1>1. /\ Only("watcher") /\ DataKept /\ failed' = failed
      /\ call'["watcher"].of = c /\ pb'[c].thumperIndex = pb[c].thumperIndex
      /\ \/ call'["watcher"].at = "parse"
         \/ /\ call'["watcher"].at = "ongoing" /\ pb[c].thumperIndex # UNASSIGNED
            /\ pb[c].use_smart_heartbeat
  BY ReadyFacts, OngoingDoes, OngoingData DEF DataKept, SlotsKept
<1>2. call'["watcher"].at = "ongoing" => pb[c].thumperIndex \notin plain
  BY <1>1 DEF Orderly, Timing, Apart
<1>3. Watching'
  BY <1>1, <1>2 DEF Watching, DataKept, Working, Unstarted, Stops, Started, Thumped
<1> QED BY <1>1, <1>3, WatcherMoved

\* The slot of a context is for that context, unless it was given up.
LEMMA OwnSlot ==
    ASSUME Ready, Orderly, NEW c \in Contexts, pb[c].thumperIndex \in Thumpers,
           pb[c].thumperIndex \notin given_up
    PROVE  heartbeat_data[pb[c].thumperIndex].pb = c
<1>1. ~ (call["app"].of = c /\ call["app"].at \in Ending)
  BY ReadyFacts DEF Tenure, Orderly, Timing, Retired
<1> QED BY <1>1, ReadyFacts DEF Tenure

\* index_read_again keeps the timers in order.
LEMMA ReadAgainOrderly ==
    ASSUME Ready, Orderly, index_read_again
    PROVE  Orderly'
<1> DEFINE c == call["watcher"].of
           i == pb[c].thumperIndex
<1>1. /\ Only("watcher") /\ DataKept /\ c \in Contexts /\ c # NULL
      /\ call["watcher"].at \in {"ongoing", "parsed"}
      /\ \/ i = UNASSIGNED /\ call'["watcher"] = call["watcher"]
         \/ /\ i \in Thumpers /\ call'["watcher"].of = c /\ call'["watcher"].thumper = i
            /\ \/ call["watcher"].at = "parsed" /\ call'["watcher"].at = "start"
               \/ call["watcher"].at = "ongoing" /\ call'["watcher"].at = "stop_auto"
  BY ReadyFacts, ReadAgainDoes, ReadAgainData, Members
<1>2. failed' \in {failed, failed \cup {"thumper_index"}}
  BY <1>1 DEF index_read_again
<1>3. Intact'
  BY <1>1, <1>2 DEF Orderly, Intact, DataKept
<1>4. Watching'
  <2>1. CASE i = UNASSIGNED /\ call'["watcher"] = call["watcher"]
    BY <1>1, <2>1, WatchingUnmoved DEF Orderly
  <2>2. CASE /\ i \in Thumpers /\ call'["watcher"].of = c /\ call'["watcher"].thumper = i
             /\ \/ call["watcher"].at = "parsed" /\ call'["watcher"].at = "start"
                \/ call["watcher"].at = "ongoing" /\ call'["watcher"].at = "stop_auto"
    <3>1. i \notin given_up => heartbeat_data'[i].pb = c
      BY <1>1, <2>2, OwnSlot DEF DataKept, SlotsKept
    <3>2. call["watcher"].at = "ongoing" /\ i \in plain => heartbeat_timers[i] = 0
      BY DEF Orderly, Watching
    <3> QED
      BY <1>1, <2>2, <3>1, <3>2
         DEF Watching, DataKept, Working, Unstarted, Stops, Started, Thumped
  <2> QED BY <1>1, <2>1, <2>2
<1> QED BY <1>1, <1>3, <1>4, WatcherData DEF Orderly

\* stop_auto_heartbeat keeps the timers in order.
LEMMA StopAutoOrderly ==
    ASSUME Ready, Orderly, stop_auto_heartbeat
    PROVE  Orderly'
<1>1. /\ Only("watcher") /\ DataKept /\ failed' = failed
      /\ call["watcher"].at = "stop_auto" /\ call["watcher"].thumper \in Thumpers
      /\ call'["watcher"].at = "stop" /\ Kept(call["watcher"], call'["watcher"])
  BY ReadyFacts, StopAutoDoes, StopAutoData DEF Shaped, WatcherFrame, Stops
<1>2. Watching'
  BY <1>1
     DEF Orderly, Watching, DataKept, SlotsKept, Working, Unstarted, Stops, Started,
         Thumped, Kept
<1> QED BY <1>1, <1>2, WatcherMoved

\* parse_pubnub_result keeps the timers in order.
LEMMA ParseOrderly ==
    ASSUME Ready, Orderly, parse_pubnub_result
    PROVE  Orderly'
<1>1. /\ Only("watcher") /\ DataKept /\ failed' = failed
      /\ call["watcher"].at = "parse" /\ call["watcher"].of \in Contexts
      /\ call'["watcher"].of = call["watcher"].of
      /\ \/ call'["watcher"].at = "done"
         \/ pb[call["watcher"].of].thumperIndex # UNASSIGNED
              /\ call'["watcher"].at = "parsed"
  BY ReadyFacts, ParseDoes, ParseData DEF Shaped, WatcherFrame, Kept
<1>2. Watching'
  BY <1>1
     DEF Orderly, Watching, DataKept, SlotsKept, Working, Unstarted, Stops, Started, Thumped
<1> QED BY <1>1, <1>2, WatcherMoved

\* watcher_done keeps the timers in order.
LEMMA DoneOrderly ==
    ASSUME Ready, Orderly, watcher_done
    PROVE  Orderly'
<1>1. Only("watcher") /\ DataKept /\ failed' = failed /\ call'["watcher"].at = "idle"
  BY ReadyFacts, DoneDoes, DoneData, IdleFrame
<1>2. Watching'
  BY <1>1 DEF Watching, Working, Unstarted, Stops, Started, Thumped
<1> QED BY <1>1, <1>2, WatcherMoved

\* auto_heartbeat_callback and callback_announce keep the timers in order.
LEMMA CallbackOrderly ==
    ASSUME Ready, Orderly, auto_heartbeat_callback \/ callback_announce
    PROVE  Orderly'
<1>1. /\ Only("watcher") /\ DataKept /\ failed' = failed
      /\ call["watcher"].at \in {"callback", "callback_announce"}
      /\ call["watcher"].thumper \in Thumpers
      /\ call'["watcher"].of = call["watcher"].of
      /\ call'["watcher"].thumper = call["watcher"].thumper
      /\ call'["watcher"].at \in {"callback_announce", "start", "thump", "done"}
      /\ call'["watcher"].at = "thump" =>
           /\ call'["watcher"].then = "done"
           /\ \/ call'["watcher"].pb = heartbeat_data[call["watcher"].thumper].pb
              \/ call'["watcher"].pb \in Contexts
  BY ReadyFacts, CallbackDoes, CallbackData, CallbackAnnounceDoes, CallbackAnnounceData
<1>2. Watching'
  BY <1>1, Members
     DEF Orderly, Watching, DataKept, SlotsKept, Working, Unstarted, Stops, Started, Thumped
<1> QED BY <1>1, <1>2, WatcherMoved

\* start_is_started keeps the timers in order.
LEMMA IsStartedOrderly ==
    ASSUME Ready, Orderly, start_is_started("watcher")
    PROVE  Orderly'
<1> DEFINE i == call["watcher"].thumper
<1>1. /\ Only("watcher") /\ DataKept /\ failed' = failed
      /\ call["watcher"].at = "start" /\ i \in Thumpers
      /\ \/ call'["watcher"] = call["watcher"]
         \/ /\ call'["watcher"].thumper = i /\ call'["watcher"].pb = heartbeat_data[i].pb
            /\ call'["watcher"].started = (heartbeat_timers[i] > 0)
            /\ \/ call'["watcher"].pb = NULL /\ call'["watcher"].at = "start_period"
               \/ call'["watcher"].pb \in Contexts /\ call'["watcher"].at = "start_announce"
      /\ heartbeat_timers[i] \in Nat
  BY ReadyFacts, IsStartedDoes, IsStartedData DEF Typed
<1>2. /\ i \notin given_up => heartbeat_data[i].pb # NULL
      /\ i \in plain => i \notin given_up
  BY <1>1 DEF Orderly, Timing, Fresh, Watching, Working, Started
<1>3. heartbeat_data'[i].pb = heartbeat_data[i].pb
  BY <1>1 DEF DataKept, SlotsKept
<1>4. Watching'
  <2>1. CASE call'["watcher"] = call["watcher"]
    BY <1>1, <2>1, WatchingUnmoved DEF Orderly
  <2>2. CASE call'["watcher"] # call["watcher"]
    <3>1. call'["watcher"].started = (heartbeat_timers[i] > 0)
      BY <1>1, <2>2
    <3>2. ~ call'["watcher"].started => ~ (heartbeat_timers[i] > 0)
      BY <3>1, Zenon
    <3>3. ~ call'["watcher"].started => heartbeat_timers[i] = 0
      BY <1>1, <3>2
    <3>4. /\ call'["watcher"].thumper = i /\ call'["watcher"].pb = heartbeat_data[i].pb
          /\ \/ call'["watcher"].pb = NULL /\ call'["watcher"].at = "start_period"
             \/ call'["watcher"].pb \in Contexts /\ call'["watcher"].at = "start_announce"
      BY <1>1, <2>2
    <3> QED
    BY <1>1, <1>2, <1>3, <3>3, <3>4
       DEF Watching, DataKept, Working, Unstarted, Stops, Started, Thumped
  <2> QED BY <2>1, <2>2
<1> QED BY <1>1, <1>4, WatcherMoved

\* start_announce keeps the timers in order.
LEMMA AnnounceOrderly ==
    ASSUME Ready, Orderly, start_announce("watcher")
    PROVE  Orderly'
<1> DEFINE i == call["watcher"].thumper
           c == call["watcher"].pb
<1>1. /\ Only("watcher") /\ DataKept /\ failed' = failed
      /\ call["watcher"].at = "start_announce" /\ i \in Thumpers /\ c \in Contexts
      /\ c # NULL
      /\ call'["watcher"].thumper = i /\ call'["watcher"].pb = c
      /\ \/ call'["watcher"].at = "thump" /\ call'["watcher"].then = Onward
         \/ call'["watcher"].at = Onward
      /\ Onward \in {"done", "start_period"}
  BY ReadyFacts, AnnounceDoes, AnnounceData, Members DEF Onward
<1>2. /\ heartbeat_data[i].pb = c
      /\ i \in plain /\ ~ call["watcher"].started => heartbeat_timers[i] = 0
  BY <1>1 DEF Orderly, Watching, Working, Unstarted, Started
<1>3. pb[c].use_smart_heartbeat => i \notin plain
  BY <1>1, <1>2, ReadyFacts DEF Orderly, Timing, Apart, Tenure
<1>4. i \in plain /\ Onward = "start_period" => heartbeat_timers[i] = 0
  BY <1>2, <1>3 DEF Onward
<1>5. heartbeat_data'[i].pb = heartbeat_data[i].pb
  BY <1>1 DEF DataKept, SlotsKept
<1>6. Watching'
  BY <1>1, <1>2, <1>4, <1>5
     DEF Watching, DataKept, Working, Unstarted, Stops, Started, Thumped
<1> QED BY <1>1, <1>6, WatcherMoved

\* start_period keeps the timers in order.
LEMMA PeriodOrderly ==
    ASSUME Ready, Orderly, start_period("watcher")
    PROVE  Orderly'
<1> DEFINE i == call["watcher"].thumper
<1>1. /\ Only("watcher") /\ DataKept /\ failed' = failed
      /\ call["watcher"].at = "start_period" /\ i \in Thumpers
      /\ call'["watcher"].thumper = i /\ call'["watcher"].at = "start_timer"
      /\ call'["watcher"].period = heartbeat_data[i].period_sec
      /\ heartbeat_data'[i].pb = heartbeat_data[i].pb
  BY ReadyFacts, PeriodDoes, PeriodData DEF DataKept, SlotsKept
<1>2. /\ i \notin given_up => heartbeat_data[i].pb # NULL
      /\ i \in plain => heartbeat_timers[i] = 0
  BY <1>1 DEF Orderly, Watching, Working, Unstarted, Started
<1>3. i \in plain => heartbeat_data[i].period_sec > 0
  BY <1>1, <1>2 DEF Orderly, Timing, Fresh, Periodic
<1>4. Watching'
  BY <1>1, <1>2, <1>3 DEF Watching, DataKept, Working, Unstarted, Stops, Started, Thumped
<1> QED BY <1>1, <1>4, WatcherMoved

\* Stopping a timer without time left takes out of the array nothing that is in it.
LEMMA StopTimerArray ==
    ASSUME Ready, Orderly, NEW t \in {"app", "watcher"}, auto_heartbeat_stop_timer(t)
    PROVE  Running' /\ call'["heart"] = call["heart"]
<1> DEFINE i == call[t].thumper
<1>1. /\ timerlock = NoThread /\ call["heart"].at = "idle" /\ call'["heart"] = call["heart"]
      /\ call[t].at = "stop_timer" /\ UNCHANGED <<heartbeat_timers, plain, given_up>>
  BY ReadyFacts, StopTimerDoes
     DEF auto_heartbeat_stop_timer, HeldModule, Free, NoThread, Only, Threads
<1>2. i \in plain => heartbeat_timers[i] = 0
  BY <1>1 DEF Orderly, Timing, Retired, Ending, Watching, Unstarted, Stops
<1>3. Array = timer_index_array /\ Array' = timer_index_array'
  BY <1>1 DEF Array
<1>4. timer_index_array \in Seq(Thumpers)
  BY ReadyFacts, ArrayKinds
<1>5. CASE timer_index_array' = timer_index_array
  BY <1>1, <1>3, <1>5 DEF Orderly, Timing, Running
<1>6. ASSUME NEW k \in 1 .. Len(timer_index_array), timer_index_array[k] = i,
             timer_index_array' = TakeOut(timer_index_array, k)
      PROVE  Running'
  <2>1. Occurs(timer_index_array, i)
    BY <1>6 DEF Occurs
  <2>2. i \notin plain
    BY <1>2, <1>3, <2>1 DEF Orderly, Timing, Running
  <2>3. ASSUME NEW x \in plain
        PROVE  Once(timer_index_array', x)
                 /\ (Occurs(timer_index_array', x) <=> heartbeat_timers[x] > 0)
    BY <1>3, <1>4, <1>6, <2>2, Removal DEF Orderly, Timing, Running
  <2> QED BY <1>1, <1>3, <2>3 DEF Running
<1> QED BY <1>1, <1>5, <1>6, ReadyFacts, StoppedArray

\* auto_heartbeat_stop_timer keeps the timers in order.
LEMMA StopTimerOrderly ==
    ASSUME Ready, Orderly, NEW t \in {"app", "watcher"}, auto_heartbeat_stop_timer(t)
    PROVE  Orderly'
<1>1. /\ Running' /\ call'["heart"] = call["heart"] /\ Only(t)
      /\ call[t].at = "stop_timer" /\ Kept(call[t], call'[t]) /\ call'[t].at = call[t].then
      /\ UNCHANGED <<slots, heartbeat_timers, pb, beat, failed, plain, given_up>>
  BY StopTimerArray, ReadyFacts, StopTimerDoes DEF auto_heartbeat_stop_timer
<1>2. Retired'
  <2>1. CASE t = "app"
    BY <1>1, <2>1 DEF Orderly, Timing, Retired, Kept, Ending
  <2>2. CASE t = "watcher"
    BY <1>1, <2>2 DEF Orderly, Timing, Retired, Only, Threads
  <2> QED BY <2>1, <2>2
<1>3. Timing'
  BY <1>1, <1>2 DEF Orderly, Timing, Quiet, Fresh, Apart, Periodic, slots
<1>4. Watching'
  <2>1. CASE t = "app"
    <3>1. call'["watcher"] = call["watcher"]
      BY <1>1, <2>1 DEF Only, Threads
    <3> QED BY <1>1, <3>1 DEF Orderly, Watching, slots
  <2>2. CASE t = "watcher"
    <3>1. call'["watcher"].at = "parse"
      BY <1>1, <2>2, ReadyFacts DEF Shaped, WatcherFrame, Stops
    <3> QED BY <3>1 DEF Watching, Working, Unstarted, Stops, Started, Thumped
  <2> QED BY <2>1, <2>2
<1>5. Beating'
  BY <1>1 DEF Orderly, Beating, slots
<1>6. Intact'
  BY <1>1, ReadyFacts, IntactKept DEF Orderly
<1> QED BY <1>3, <1>4, <1>5, <1>6 DEF Orderly

\* A heartbeat transaction of a slot with a context changes nothing about timers.
LEMMA BeatTiming ==
    ASSUME Ready, Orderly, NEW i \in Thumpers,
           i \notin given_up => heartbeat_data[i].pb # NULL \/ beat'[i] = beat[i],
           \A j \in Thumpers : j # i => beat'[j] = beat[j],
           UNCHANGED <<slots, timers, pb, failed, plain, given_up>>,
           call'["heart"] = call["heart"] \/ Array' = Array, Unreleased
    PROVE  Timing' /\ Intact'
<1>1. Array' = Array
  BY ArrayKept DEF timers
<1>2. Quiet'
  BY ReadyFacts DEF Orderly, Timing, Quiet, slots, timers
<1>3. Timing'
  BY <1>1, <1>2
     DEF Orderly, Timing, Running, Fresh, Retired, Unreleased, Apart, Periodic, slots, timers
<1>4. Intact'
  BY ReadyFacts, IntactKept DEF Orderly
<1> QED BY <1>3, <1>4

\* stop_heartbeat keeps the timers in order.
LEMMA StopOrderly ==
    ASSUME Ready, Orderly, NEW t \in {"app", "watcher"}, stop_heartbeat(t)
    PROVE  Orderly'
<1> DEFINE i == call[t].thumper
<1>1. /\ Only(t) /\ call[t].at = "stop" /\ Kept(call[t], call'[t])
      /\ call'[t].at \in {"stop_timer", call[t].then}
      /\ UNCHANGED <<slots, timers, pb, failed, plain, given_up>>
  BY ReadyFacts, StopDoes DEF stop_heartbeat
<1>2. i \in Thumpers
  <2>1. CASE t = "app"
    BY <1>1, <2>1, ReadyFacts DEF Shaped, AppFrame
  <2>2. CASE t = "watcher"
    BY <1>1, <2>2, ReadyFacts DEF Shaped, WatcherFrame, Stops
  <2> QED BY <2>1, <2>2
<1>3. i \notin given_up => heartbeat_data[i].pb # NULL
  BY <1>1 DEF Orderly, Timing, Retired, Ending, Watching, Working, Stops
<1>4. \A j \in Thumpers : j # i => beat'[j] = beat[j]
  BY ReadyFacts DEF stop_heartbeat, Typed
<1>5. call'["heart"] = call["heart"]
  BY <1>1 DEF Only, Threads
<1>6. Unreleased
  <2>1. CASE t = "app"
    BY <1>1, <2>1 DEF Kept, Ending, Unreleased
  <2>2. CASE t = "watcher"
    BY <1>1, <2>2 DEF Only, Threads, Unreleased
  <2> QED BY <2>1, <2>2
<1>7. Timing' /\ Intact'
  BY <1>1, <1>2, <1>3, <1>4, <1>5, <1>6, BeatTiming
<1>8. Watching'
  <2>1. CASE t = "app"
    <3>1. call'["watcher"] = call["watcher"]
      BY <1>1, <2>1 DEF Only, Threads
    <3> QED BY <1>1, <3>1 DEF Orderly, Watching, slots, timers
  <2>2. CASE t = "watcher"
    <3>1. call'["watcher"].at \in {"stop_timer", "parse"}
      BY <1>1, <2>2, ReadyFacts DEF Shaped, WatcherFrame, Stops
    <3> QED
      BY <1>1, <2>2, <3>1
         DEF Orderly, Watching, Working, Unstarted, Stops, Started, Thumped, Kept, slots,
             timers
  <2> QED BY <2>1, <2>2
<1>9. Beating'
  BY <1>1, <1>5 DEF Orderly, Beating, slots
<1> QED BY <1>7, <1>8, <1>9 DEF Orderly

\* beat_ends keeps the timers in order.
LEMMA EndsOrderly ==
    ASSUME Ready, Orderly, NEW i \in Thumpers, beat_ends(i)
    PROVE  Orderly'
<1>1. /\ Only("watcher")
      /\ \/ call'["watcher"] = call["watcher"]
         \/ call'["watcher"].thumper = i /\ call'["watcher"].at = "callback"
      /\ UNCHANGED <<slots, timers, pb, failed, plain, given_up>> /\ ~ CanStart(beat[i])
  BY ReadyFacts, EndsDoes DEF beat_ends
<1>2. i \notin given_up => heartbeat_data[i].pb # NULL
  BY <1>1 DEF Orderly, Timing, Quiet, CanStart
<1>3. \A j \in Thumpers : j # i => beat'[j] = beat[j]
  BY ReadyFacts DEF beat_ends, Typed
<1>4. call'["heart"] = call["heart"] /\ call'["app"] = call["app"] /\ Unreleased
  BY <1>1 DEF Only, Threads, Unreleased
<1>5. Timing' /\ Intact'
  BY <1>1, <1>2, <1>3, <1>4, BeatTiming
<1>6. Watching'
  <2>1. CASE call'["watcher"] = call["watcher"]
    BY <1>1, <2>1 DEF Orderly, Watching, slots, timers
  <2>2. CASE call'["watcher"].thumper = i /\ call'["watcher"].at = "callback"
    BY <1>1, <1>2, <2>2
       DEF Watching, Working, Unstarted, Stops, Started, Thumped, slots, timers
  <2> QED BY <1>1, <2>1, <2>2
<1>7. Beating'
  BY <1>1, <1>4 DEF Orderly, Beating, slots
<1> QED BY <1>5, <1>6, <1>7 DEF Orderly

-----------------------------------------------------------------------------
(* Starting a timer, and the heartbeat watcher *)

\* start_heartbeat_timer keeps the timers in order.
LEMMA TimerOrderly ==
    ASSUME Ready, Orderly, start_heartbeat_timer("watcher")
    PROVE  Orderly'
<1> DEFINE i == call["watcher"].thumper
           s == timer_index_array
<1>1. /\ Only("watcher") /\ call["watcher"].at = "start_timer" /\ i \in Thumpers
      /\ timerlock = NoThread /\ call["heart"].at = "idle"
      /\ call'["heart"] = call["heart"] /\ call'["app"] = call["app"]
      /\ UNCHANGED <<slots, pb, beat, plain, given_up>>
  BY ReadyFacts, TimerDoes
     DEF start_heartbeat_timer, HeldModule, Free, NoThread, Only, Threads
<1>2. /\ i \notin given_up => heartbeat_data[i].pb # NULL
      /\ i \in plain => heartbeat_timers[i] = 0 /\ call["watcher"].period > 0
  BY <1>1 DEF Orderly, Watching, Working, Unstarted, Started
<1>3. Array = s /\ Array' = s' /\ s \in Seq(Thumpers)
  BY <1>1, ReadyFacts, ArrayKinds DEF Array
<1>4. i \in plain => ~ Occurs(s, i)
  BY <1>2, <1>3 DEF Orderly, Timing, Running
<1>5. Beating'
  BY <1>1 DEF Orderly, Beating, slots
<1>6. CASE Len(s) < MaxThumpers
  <2>1. /\ heartbeat_timers' = [heartbeat_timers EXCEPT ![i] = call["watcher"].period]
        /\ s' = Append(s, i) /\ failed' = failed /\ Goto("watcher", "done")
    BY <1>6 DEF start_heartbeat_timer
  <2>2. /\ heartbeat_timers'[i] = call["watcher"].period
        /\ \A j \in Thumpers : j # i => heartbeat_timers'[j] = heartbeat_timers[j]
    BY <1>1, <2>1, ReadyFacts DEF Typed
  <2>3. ASSUME NEW x \in plain
        PROVE  Once(s', x) /\ (Occurs(s', x) <=> heartbeat_timers'[x] > 0)
    <3>1. x \in Thumpers
      BY ReadyFacts
    <3>2. CASE x = i
      BY <1>1, <1>2, <1>3, <1>4, <2>1, <2>2, <3>2, Appending
    <3>3. CASE x # i
      <4>1. Once(s, x) /\ (Occurs(s, x) <=> heartbeat_timers[x] > 0)
        BY <1>3 DEF Orderly, Timing, Running
      <4> QED BY <1>1, <1>3, <2>1, <2>2, <3>1, <3>3, <4>1, Appending
    <3> QED BY <3>2, <3>3
  <2>4. Running'
    BY <1>1, <1>3, <2>3 DEF Running
  <2>5. Quiet'
    BY <1>1, <1>2, <2>2, ReadyFacts DEF Orderly, Timing, Quiet, slots
  <2>6. Timing'
    BY <1>1, <2>4, <2>5 DEF Orderly, Timing, Fresh, Retired, Apart, Periodic, slots
  <2>7. Watching'
    <3>1. call'["watcher"].at = "done"
      BY <2>1, ReadyFacts, GoesTo, StepNames DEF Threads
    <3> QED BY <3>1 DEF Watching, Working, Unstarted, Stops, Started, Thumped
  <2>8. Intact'
    BY <1>1, <2>1, ReadyFacts, IntactKept DEF Orderly
  <2> QED BY <1>5, <2>6, <2>7, <2>8 DEF Orderly
<1>7. CASE ~ (Len(s) < MaxThumpers)
  <2>1. UNCHANGED <<timers, call>>
    BY <1>7 DEF start_heartbeat_timer
  <2>2. plain # Thumpers
    BY <1>1, <1>3, <1>4, <1>7, Crowded DEF Orderly, Timing, Running
  <2>3. Intact'
    BY <1>1, <2>2 DEF Intact
  <2>4. Timing' /\ Watching'
    BY <1>1, <1>3, <2>1
       DEF Orderly, Timing, Running, Quiet, Fresh, Retired, Apart, Periodic, Watching, slots,
           timers
  <2> QED BY <1>5, <2>3, <2>4 DEF Orderly
<1> QED BY <1>6, <1>7

\* heartbeat_thump is called with a slot.
LEMMA ThumperKinds ==
    ASSUME Ready, NEW t \in {"watcher", "heart"}, call[t].at \in Thumped
    PROVE  call[t].thumper \in Thumpers
  BY ReadyFacts DEF Shaped, WatcherFrame, HeartFrame

\* thump_assert keeps the timers in order.
LEMMA AssertsOrderly ==
    ASSUME Ready, Orderly, NEW t \in {"watcher", "heart"}, thump_assert(t)
    PROVE  Orderly'
<1>1. /\ call[t].at = "thump" /\ call[t].pb = NULL /\ call' = call
      /\ UNCHANGED <<slots, timers, pb, beat, plain, given_up>>
  BY ReadyFacts, AssertsDoes DEF thump_assert
<1>2. Intact'
  BY <1>1 DEF Orderly, Intact, thump_assert
<1>3. Array' = Array
  BY <1>1 DEF Array, timers
<1>4. Timing' /\ Watching' /\ Beating'
  BY <1>1, <1>3
     DEF Orderly, Timing, Running, Quiet, Fresh, Retired, Apart, Periodic, Watching, Beating,
         slots, timers
<1> QED BY <1>2, <1>4 DEF Orderly

\* A step of the heartbeat watcher that leaves the timers alone
LEMMA HeartUnmoved ==
    ASSUME Ready, Orderly, Only("heart"), DataKept, failed' = failed, Array' = Array
    PROVE  Timing' /\ Watching' /\ Intact'
<1>1. call'["watcher"] = call["watcher"] /\ call'["app"] = call["app"] /\ Unreleased
  BY DEF Only, Threads, Unreleased
<1>2. Timing'
  BY <1>1, ReadyFacts, TimingKept DEF Orderly
<1>3. Watching'
  BY <1>1, WatchingUnmoved DEF Orderly
<1>4. Intact'
  BY ReadyFacts, IntactKept DEF Orderly, DataKept
<1> QED BY <1>2, <1>3, <1>4

\* thump_lock keeps the timers in order.
LEMMA ThumpLockOrderly ==
    ASSUME Ready, Orderly, NEW t \in {"watcher", "heart"}, thump_lock(t)
    PROVE  Orderly'
<1>1. /\ Only(t) /\ DataKept /\ failed' = failed
      /\ call[t].at = "thump" /\ call[t].thumper \in Thumpers
      /\ call'[t].at = "thumping" /\ Kept(call[t], call'[t])
      /\ heartbeat_data'[call[t].thumper].pb = heartbeat_data[call[t].thumper].pb
  BY ReadyFacts, ThumpLockDoes, ThumpLockData, ThumperKinds DEF Thumped, DataKept, SlotsKept
<1>2. CASE t = "watcher"
  <2>1. Watching'
    BY <1>1, <1>2
       DEF Orderly, Watching, DataKept, Working, Unstarted, Stops, Started, Thumped, Kept
  <2> QED BY <1>1, <1>2, <2>1, WatcherMoved
<1>3. CASE t = "heart"
  <2>1. Array' = Array
    BY <1>1, <1>3 DEF Array, Kept, DataKept
  <2>2. Beating'
    BY <1>1, <1>3 DEF Orderly, Beating, DataKept, Thumped, Kept
  <2> QED BY <1>1, <1>3, <2>1, <2>2, HeartUnmoved DEF Orderly
<1> QED BY <1>2, <1>3

\* heartbeat_thump keeps the timers in order.
LEMMA ThumpsOrderly ==
    ASSUME Ready, Orderly, NEW t \in {"watcher", "heart"}, heartbeat_thump(t)
    PROVE  Orderly'
<1> DEFINE i == call[t].thumper
<1>1. /\ Only(t) /\ call[t].at = "thumping" /\ i \in Thumpers
      /\ call'[t].at \in {call[t].then, "thump_cancel"} /\ Kept(call[t], call'[t])
      /\ UNCHANGED <<slots, timers, pb, failed, plain, given_up>>
  BY ReadyFacts, ThumpsDoes DEF heartbeat_thump
<1>2. i \notin given_up => heartbeat_data[i].pb # NULL
  BY <1>1 DEF Orderly, Watching, Beating, Working, Thumped
<1>3. \A j \in Thumpers : j # i => beat'[j] = beat[j]
  BY ReadyFacts DEF heartbeat_thump, Typed
<1>4. call'["app"] = call["app"] /\ Unreleased
  BY <1>1 DEF Only, Threads, Unreleased
<1>5. CASE t = "watcher"
  <2>1. /\ call'["heart"] = call["heart"]
        /\ call["watcher"].then \in {"start_period", "done"}
    BY <1>1, <1>5, ReadyFacts DEF Only, Threads, Shaped, WatcherFrame, Thumped
  <2>2. Timing' /\ Intact'
    BY <1>1, <1>2, <1>3, <1>4, <2>1, BeatTiming
  <2>3. Beating'
    BY <1>1, <2>1 DEF Orderly, Beating, slots
  <2>4. Watching'
    BY <1>1, <1>5, <2>1
       DEF Orderly, Watching, Working, Unstarted, Stops, Started, Thumped, Kept, slots,
           timers
  <2> QED BY <2>2, <2>3, <2>4 DEF Orderly
<1>6. CASE t = "heart"
  <2>1. /\ call'["watcher"] = call["watcher"] /\ call["heart"].then = "timers"
    BY <1>1, <1>6, ReadyFacts DEF Only, Threads, Shaped, HeartFrame, Thumped
  <2>2. Array' = Array
    BY <1>1, <1>6, <2>1 DEF Array, Kept, timers
  <2>3. Timing' /\ Intact'
    BY <1>1, <1>2, <1>3, <1>4, <2>2, BeatTiming
  <2>4. Beating'
    BY <1>1, <1>2, <1>6, <2>1 DEF Beating, Thumped, Kept, slots
  <2>5. Watching'
    BY <1>1, <2>1 DEF Orderly, Watching, slots, timers
  <2> QED BY <2>3, <2>4, <2>5 DEF Orderly
<1> QED BY <1>5, <1>6

\* thump_cancel keeps the timers in order.
LEMMA ThumpCancelOrderly ==
    ASSUME Ready, Orderly, NEW t \in {"watcher", "heart"}, thump_cancel(t)
    PROVE  Orderly'
<1> DEFINE i == call[t].thumper
<1>1. /\ Only(t) /\ call[t].at = "thump_cancel" /\ i \in Thumpers
      /\ call'[t].at = call[t].then /\ Kept(call[t], call'[t])
      /\ UNCHANGED <<slots, timers, pb, failed, plain, given_up>>
  BY ReadyFacts, ThumpCancelDoes DEF thump_cancel
<1>2. i \notin given_up => heartbeat_data[i].pb # NULL
  BY <1>1 DEF Orderly, Watching, Beating, Working, Thumped
<1>3. \A j \in Thumpers : j # i => beat'[j] = beat[j]
  BY ReadyFacts DEF thump_cancel, Typed
<1>4. call'["app"] = call["app"] /\ Unreleased
  BY <1>1 DEF Only, Threads, Unreleased
<1>5. CASE t = "watcher"
  <2>1. /\ call'["heart"] = call["heart"]
        /\ call["watcher"].then \in {"start_period", "done"}
    BY <1>1, <1>5, ReadyFacts DEF Only, Threads, Shaped, WatcherFrame, Thumped
  <2>2. Timing' /\ Intact'
    BY <1>1, <1>2, <1>3, <1>4, <2>1, BeatTiming
  <2>3. Beating'
    BY <1>1, <2>1 DEF Orderly, Beating, slots
  <2>4. Watching'
    BY <1>1, <1>5, <2>1
       DEF Orderly, Watching, Working, Unstarted, Stops, Started, Thumped, Kept, slots,
           timers
  <2> QED BY <2>2, <2>3, <2>4 DEF Orderly
<1>6. CASE t = "heart"
  <2>1. /\ call'["watcher"] = call["watcher"] /\ call["heart"].then = "timers"
    BY <1>1, <1>6, ReadyFacts DEF Only, Threads, Shaped, HeartFrame, Thumped
  <2>2. Array' = Array
    BY <1>1, <1>6, <2>1 DEF Array, Kept, timers
  <2>3. Timing' /\ Intact'
    BY <1>1, <1>2, <1>3, <1>4, <2>2, BeatTiming
  <2>4. Beating'
    BY <1>1, <1>6, <2>1 DEF Beating, Thumped
  <2>5. Watching'
    BY <1>1, <2>1 DEF Orderly, Watching, slots, timers
  <2> QED BY <2>3, <2>4, <2>5 DEF Orderly
<1> QED BY <1>5, <1>6

\* heart_wakes keeps the timers in order.
LEMMA WakesOrderly ==
    ASSUME Ready, Orderly, heart_wakes
    PROVE  Orderly'
<1>1. /\ Only("heart") /\ DataKept /\ failed' = failed
      /\ call["heart"].at = "idle" /\ call'["heart"].at = "timers"
      /\ call'["heart"].indexes = timer_index_array
  BY ReadyFacts, WakesDoes, WakesData
<1>2. Array' = Array
  BY <1>1 DEF Array
<1>3. Beating'
  BY <1>1 DEF Beating, Thumped
<1> QED BY <1>1, <1>2, <1>3, HeartUnmoved DEF Orderly

\* expired keeps the timers in order.
LEMMA ExpiresOrderly ==
    ASSUME Ready, Orderly, expired
    PROVE  Orderly'
<1> DEFINE i == call["heart"].thumper
<1>1. /\ Only("heart") /\ DataKept /\ failed' = failed
      /\ call["heart"].at = "expired" /\ i \in Thumpers /\ call'["heart"].at = "thump"
      /\ call'["heart"].pb = heartbeat_data[i].pb /\ call'["heart"].thumper = i
      /\ call'["heart"].indexes = call["heart"].indexes
      /\ heartbeat_data'[i].pb = heartbeat_data[i].pb
  BY ReadyFacts, ExpiresDoes, ExpiresData DEF DataKept, SlotsKept
<1>2. Array' = Array
  BY <1>1 DEF Array
<1>3. Beating'
  BY <1>1 DEF Orderly, Beating, DataKept, Thumped
<1> QED BY <1>1, <1>2, <1>3, HeartUnmoved DEF Orderly

\* heart_sleeps keeps the timers in order.
LEMMA SleepsOrderly ==
    ASSUME Ready, Orderly, heart_sleeps
    PROVE  Orderly'
<1>1. /\ Only("heart") /\ call["heart"].at = "timers" /\ call'["heart"].at = "idle"
      /\ timer_index_array' = call["heart"].indexes
      /\ UNCHANGED <<slots, heartbeat_timers, pb, beat, failed, plain, given_up>>
  BY ReadyFacts, SleepsDoes, IdleFrame DEF heart_sleeps
<1>2. Array' = Array
  BY <1>1 DEF Array
<1>3. call'["watcher"] = call["watcher"] /\ call'["app"] = call["app"]
  BY <1>1 DEF Only, Threads
<1>4. Timing' /\ Watching'
  BY <1>1, <1>2, <1>3
     DEF Orderly, Timing, Running, Quiet, Fresh, Retired, Apart, Periodic, Watching, slots
<1>5. Beating'
  BY <1>1 DEF Beating, Thumped
<1>6. Intact'
  BY <1>1, ReadyFacts, IntactKept DEF Orderly
<1> QED BY <1>4, <1>5, <1>6 DEF Orderly

\* handle_heartbeat_timers keeps the timers in order.
LEMMA HandlesOrderly ==
    ASSUME Ready, Orderly, handle_heartbeat_timers
    PROVE  Orderly'
<1> DEFINE s == call["heart"].indexes
           k == call["heart"].i
           i == s[k]
<1>1. /\ Only("heart") /\ call["heart"].at = "timers" /\ i \in Thumpers /\ k \in 1 .. Len(s)
      /\ s \in Seq(Thumpers) /\ heartbeat_timers[i] \in Nat
      /\ UNCHANGED <<slots, timer_index_array, pb, beat, failed, plain, given_up>>
  BY ReadyFacts, HandleMoves DEF handle_heartbeat_timers, Typed
<1>2. \/ /\ heartbeat_timers[i] <= 1 /\ call'["heart"].at = "expired"
              /\ call'["heart"].thumper = i
         /\ call'["heart"].indexes = TakeOut(s, k)
         /\ heartbeat_timers' = [heartbeat_timers EXCEPT ![i] = 0]
      \/ /\ heartbeat_timers[i] > 1 /\ call'["heart"].at = "timers"
         /\ call'["heart"].indexes = s
         /\ heartbeat_timers' = [heartbeat_timers EXCEPT ![i] = heartbeat_timers[i] - 1]
  BY ReadyFacts, HandleMoves
<1>3. Array = s /\ Array' = call'["heart"].indexes
  BY <1>1, <1>2 DEF Array
<1>4. Occurs(s, i)
  BY <1>1 DEF Occurs
<1>5. /\ i \in plain => heartbeat_timers[i] > 0
      /\ i \notin given_up => heartbeat_data[i].pb # NULL
  BY <1>1, <1>3, <1>4 DEF Orderly, Timing, Running, Quiet
<1>6. /\ \A j \in Thumpers : j # i => heartbeat_timers'[j] = heartbeat_timers[j]
      /\ heartbeat_timers'[i] \in Nat
  BY <1>1, <1>2, ReadyFacts DEF Typed
<1>7. ASSUME NEW x \in plain
      PROVE  Once(Array', x) /\ (Occurs(Array', x) <=> heartbeat_timers'[x] > 0)
  <2>1. /\ x \in Thumpers /\ Once(s, x) /\ (Occurs(s, x) <=> heartbeat_timers[x] > 0)
    BY <1>3, ReadyFacts DEF Orderly, Timing, Running
  <2>2. CASE heartbeat_timers' = [heartbeat_timers EXCEPT ![i] = 0]
          /\ Array' = TakeOut(s, k)
    <3>1. CASE x = i
      <4>1. heartbeat_timers'[x] = 0
        BY <1>1, <2>2, <3>1, ReadyFacts DEF Typed
      <4> QED BY <1>1, <2>1, <2>2, <3>1, <4>1, Removal
    <3>2. CASE x # i
      BY <1>1, <1>6, <2>1, <2>2, <3>2, Removal
    <3> QED BY <3>1, <3>2
  <2>3. CASE /\ heartbeat_timers[i] > 1 /\ Array' = s
             /\ heartbeat_timers' = [heartbeat_timers EXCEPT ![i] = heartbeat_timers[i] - 1]
    <3>1. CASE x = i
      <4>1. heartbeat_timers'[x] = heartbeat_timers[i] - 1
        BY <1>1, <2>3, <3>1, ReadyFacts DEF Typed
      <4> QED BY <1>1, <1>4, <2>1, <2>3, <3>1, <4>1
    <3>2. CASE x # i
      BY <1>6, <2>1, <2>3, <3>2
    <3> QED BY <3>1, <3>2
  <2> QED BY <1>2, <1>3, <2>2, <2>3
<1>8. call'["watcher"] = call["watcher"] /\ call'["app"] = call["app"]
  BY <1>1 DEF Only, Threads
<1>9. Running'
  BY <1>1, <1>7 DEF Running
<1>10. Quiet'
  BY <1>1, <1>5, <1>6, ReadyFacts DEF Orderly, Timing, Quiet, slots
<1>11. Timing'
  BY <1>1, <1>8, <1>9, <1>10 DEF Orderly, Timing, Fresh, Retired, Apart, Periodic, slots
<1>12. Milder
  BY <1>1, <1>5, <1>6, ReadyFacts DEF Milder, slots
<1>13. Watching'
  BY <1>1, <1>8, <1>12, ReadyFacts, WatchingKept DEF Orderly, slots
<1>14. Beating'
  BY <1>1, <1>2, <1>5 DEF Beating, Thumped, slots
<1>15. Intact'
  BY <1>1, ReadyFacts, IntactKept DEF Orderly
<1> QED BY <1>11, <1>13, <1>14, <1>15 DEF Orderly

-----------------------------------------------------------------------------
(* The invariant of the timers, and the theorems it gives *)

\* No timer runs when the program starts.
LEMMA OrderlyInit == Init => Orderly
<1> SUFFICES ASSUME Init PROVE Orderly
  OBVIOUS
<1>1. \A t \in Threads : call[t].at = "idle"
  BY IdleFrame DEF Init
<1>2. \A c \in Contexts : pb[c].thumperIndex = UNASSIGNED
  BY DEF Init
<1>3. Array = <<>> /\ Len(Array) = 0
  BY <1>1 DEF Init, Array, Threads
<1>4. Running
  BY <1>3 DEF Init, Running, Once, Occurs
<1>5. Quiet /\ Fresh /\ Periodic
  BY DEF Init, Quiet, Fresh, Periodic
<1>6. Retired
  BY <1>1 DEF Retired, Ending, Threads
<1>7. Apart
  BY <1>2, Members DEF Init, Apart
<1>8. Watching
  BY <1>1 DEF Watching, Working, Unstarted, Stops, Started, Thumped, Threads
<1>9. Beating
  BY <1>1 DEF Beating, Thumped, Threads
<1>10. Intact
  BY DEF Init, Intact
<1> QED BY <1>4, <1>5, <1>6, <1>7, <1>8, <1>9, <1>10 DEF Orderly, Timing

\* The steps of the application keep the timers in order,
LEMMA OrderlyApp ==
    ASSUME Ready, Orderly, App
    PROVE  Orderly'
<1>1. ASSUME NEW c \in Contexts, NEW period \in Periods,
        pubnub_enable_auto_heartbeat(c, period) PROVE Orderly'
  BY <1>1, EnableDoes, EnableData, ReadyFacts, AppData, IdleFrame DEF Ending
<1>2. ASSUME NEW c \in Contexts, NEW period \in Periods,
        pubnub_set_heartbeat_period(c, period) PROVE Orderly'
  BY <1>2, SetPeriodDoes, SetPeriodData, ReadyFacts, AppData, IdleFrame DEF Ending
<1>3. ASSUME NEW c \in Contexts, pubnub_disable_auto_heartbeat(c) PROVE Orderly'
  BY <1>3, DisableDoes, DisableData, ReadyFacts, AppData, IdleFrame DEF Ending
<1>4. ASSUME NEW c \in Contexts, NEW enable \in BOOLEAN, pubnub_smart_heartbeat(c, enable)
      PROVE  Orderly'
  BY <1>4, SmartOrderly
<1>5. ASSUME NEW c \in Contexts, pubnub_subscribe(c) PROVE Orderly'
  BY <1>5, SubscribeDoes, SubscribeData, ReadyFacts, AppData, IdleFrame DEF Ending
<1>6. ASSUME NEW c \in Contexts, pubnub_leave(c) PROVE Orderly'
  BY <1>6, LeaveDoes, LeaveData, ReadyFacts, AppData, IdleFrame DEF Ending
<1>7. ASSUME form_heartbeat_thumper PROVE Orderly'
  BY <1>7, FormOrderly
<1>8. ASSUME init_new_thumper_pb PROVE Orderly'
  BY <1>8, NewThumperOrderly
<1>9. ASSUME set_period_lock PROVE Orderly'
  BY <1>9, PeriodLockDoes, PeriodLockData, ReadyFacts, AppData, IdleFrame DEF Ending
<1>10. ASSUME setting_period PROVE Orderly'
  BY <1>10, SettingOrderly
<1>11. ASSUME release_thumper PROVE Orderly'
  BY <1>11, ReleaseOrderly
<1>12. ASSUME NEW t \in {"app", "watcher"}, stop_heartbeat(t) PROVE Orderly'
  BY <1>12, StopOrderly
<1>13. ASSUME NEW t \in {"app", "watcher"}, auto_heartbeat_stop_timer(t) PROVE Orderly'
  BY <1>13, StopTimerOrderly
<1>14. ASSUME released PROVE Orderly'
  BY <1>14, ReleasedOrderly
<1>15. ASSUME prepare_channels_and_ch_groups PROVE Orderly'
  BY <1>15, PrepareDoes, PrepareData, ReadyFacts, AppData, IdleFrame DEF Ending
<1> QED BY <1>1, <1>2, <1>3, <1>4, <1>5, <1>6, <1>7, <1>8, <1>9, <1>10, <1>11, <1>12,
      <1>13, <1>14, <1>15 DEF App

\* ... those of the watcher,
LEMMA OrderlyWatcher ==
    ASSUME Ready, Orderly, Watcher
    PROVE  Orderly'
<1>1. ASSUME NEW t \in {"app", "watcher"}, stop_heartbeat(t) PROVE Orderly'
  BY <1>1, StopOrderly
<1>2. ASSUME NEW t \in {"app", "watcher"}, auto_heartbeat_stop_timer(t) PROVE Orderly'
  BY <1>2, StopTimerOrderly
<1>3. ASSUME NEW c \in Contexts, transaction_ongoing(c) PROVE Orderly'
  BY <1>3, OngoingOrderly
<1>4. ASSUME index_read_again PROVE Orderly'
  BY <1>4, ReadAgainOrderly
<1>5. ASSUME stop_auto_heartbeat PROVE Orderly'
  BY <1>5, StopAutoOrderly
<1>6. ASSUME parse_pubnub_result PROVE Orderly'
  BY <1>6, ParseOrderly
<1>7. ASSUME watcher_done PROVE Orderly'
  BY <1>7, DoneOrderly
<1>8. ASSUME NEW i \in Thumpers, beat_ends(i) PROVE Orderly'
  BY <1>8, EndsOrderly
<1>9. ASSUME auto_heartbeat_callback PROVE Orderly'
  BY <1>9, CallbackOrderly
<1>10. ASSUME callback_announce PROVE Orderly'
  BY <1>10, CallbackOrderly
<1>11. ASSUME start_is_started("watcher") PROVE Orderly'
  BY <1>11, IsStartedOrderly
<1>12. ASSUME start_announce("watcher") PROVE Orderly'
  BY <1>12, AnnounceOrderly
<1>13. ASSUME start_period("watcher") PROVE Orderly'
  BY <1>13, PeriodOrderly
<1>14. ASSUME start_heartbeat_timer("watcher") PROVE Orderly'
  BY <1>14, TimerOrderly
<1>15. ASSUME NEW t \in {"watcher", "heart"}, thump_assert(t) PROVE Orderly'
  BY <1>15, AssertsOrderly
<1>16. ASSUME NEW t \in {"watcher", "heart"}, thump_lock(t) PROVE Orderly'
  BY <1>16, ThumpLockOrderly
<1>17. ASSUME NEW t \in {"watcher", "heart"}, heartbeat_thump(t) PROVE Orderly'
  BY <1>17, ThumpsOrderly
<1>18. ASSUME NEW t \in {"watcher", "heart"}, thump_cancel(t) PROVE Orderly'
  BY <1>18, ThumpCancelOrderly
<1> QED BY <1>1, <1>2, <1>3, <1>4, <1>5, <1>6, <1>7, <1>8, <1>9, <1>10, <1>11, <1>12,
      <1>13, <1>14, <1>15, <1>16, <1>17, <1>18 DEF Watcher

\* ... and those of the heartbeat watcher.
LEMMA OrderlyHeart ==
    ASSUME Ready, Orderly, Heart
    PROVE  Orderly'
<1>1. ASSUME NEW t \in {"watcher", "heart"}, thump_assert(t) PROVE Orderly'
  BY <1>1, AssertsOrderly
<1>2. ASSUME NEW t \in {"watcher", "heart"}, thump_lock(t) PROVE Orderly'
  BY <1>2, ThumpLockOrderly
<1>3. ASSUME NEW t \in {"watcher", "heart"}, heartbeat_thump(t) PROVE Orderly'
  BY <1>3, ThumpsOrderly
<1>4. ASSUME heart_wakes PROVE Orderly'
  BY <1>4, WakesOrderly
<1>5. ASSUME handle_heartbeat_timers PROVE Orderly'
  BY <1>5, HandlesOrderly
<1>6. ASSUME expired PROVE Orderly'
  BY <1>6, ExpiresOrderly
<1>7. ASSUME heart_sleeps PROVE Orderly'
  BY <1>7, SleepsOrderly
<1>8. ASSUME NEW t \in {"watcher", "heart"}, thump_cancel(t) PROVE Orderly'
  BY <1>8, ThumpCancelOrderly
<1> QED BY <1>1, <1>2, <1>3, <1>4, <1>5, <1>6, <1>7, <1>8 DEF Heart

\* Every step does.
LEMMA OrderlyStep == Ready /\ Orderly /\ [Next]_vars => Orderly'
<1> SUFFICES ASSUME Ready, Orderly, [Next]_vars PROVE Orderly'
  OBVIOUS
<1>1. CASE Next
  BY <1>1, OrderlyApp, OrderlyWatcher, OrderlyHeart DEF Next
<1>2. CASE UNCHANGED vars
  BY <1>2
     DEF Orderly, Timing, Running, Array, Quiet, Fresh, Retired, Apart, Periodic, Watching,
         Beating, Intact,
     vars, slots, timers
<1> QED BY <1>1, <1>2

\* The timers are in order in every behaviour.
LEMMA OrderlyAlways == Spec => [](Ready /\ Orderly)
<1>1. Sound /\ Held => Ready
  BY DEF Ready
<1> QED BY <1>1, OrderlyInit, OrderlyStep, SoundAlways, HeldAlways, PTL DEF Spec

\* Whoever takes timerlock finds, for every slot that was neither released nor used
\* by a context in smart mode, that time is left exactly when the timer is in
\* timer_index_array, where it is once: start_heartbeat_timer, which asks only
\* whether time is left, is right, whatever handle_heartbeat_timers took out and
\* put back meanwhile.
THEOREM TimersAlwaysRun == Spec => []TimersRun
<1>1. Ready /\ Orderly => TimersRun
  <2> SUFFICES ASSUME Ready, Orderly, timerlock = NoThread, NEW i \in plain
               PROVE  Active(i) = (IF heartbeat_timers[i] > 0 THEN 1 ELSE 0)
    BY DEF TimersRun
  <2>1. Array = timer_index_array
    BY ReadyFacts DEF Array, HeldModule, NoThread
  <2>2. timer_index_array \in Seq(Thumpers)
    BY ReadyFacts DEF Typed, Indexes
  <2>3. Once(timer_index_array, i)
          /\ (Occurs(timer_index_array, i) <=> heartbeat_timers[i] > 0)
    BY <2>1 DEF Orderly, Timing, Running
  <2>4. Active(i) = IF Occurs(timer_index_array, i) THEN 1 ELSE 0
    BY <2>2, <2>3, Counting DEF Active
  <2> QED BY <2>3, <2>4
<1> QED BY <1>1, OrderlyAlways, PTL

\* In every state, with smart mode turned on and off and slots released and given out
\* again: heartbeat_thump is called without a context only for a slot that was
\* released; a slot is looked up that is not there only for a context that gave its
\* slot up; and start_heartbeat_timer finds the array full only when some slot was
\* released or used in smart mode, on any number of contexts.
THEOREM AssertionsAlwaysHold == Spec => []AssertionsHold
<1>1. Ready /\ Orderly => AssertionsHold
  <2> SUFFICES ASSUME Ready, Orderly PROVE AssertionsHold
    OBVIOUS
  <2>1. ASSUME NEW t \in Threads, call[t].at = "thump", call[t].pb = NULL
        PROVE  call[t].thumper \in given_up
    <3>1. t # "app"
      BY <2>1, ReadyFacts DEF Shaped, AppFrame, AppSteps
    <3> QED BY <2>1, <3>1 DEF Orderly, Watching, Beating, Threads
  <2> QED BY <2>1 DEF Orderly, Watching, Intact, AssertionsHold
<1> QED BY <1>1, OrderlyAlways, PTL
==============================================================================
