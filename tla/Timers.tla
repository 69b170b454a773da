------------------------------- MODULE Timers -------------------------------
(***************************************************************************)
(* What the timer list of core/pubnub_timer_list.c promises its callers,   *)
(* without the list: every armed context has a number of milliseconds      *)
(* left, time takes the same amount off all of them at once, and the       *)
(* contexts that ran out are handed over one by one, the earliest first.   *)
(* TimerList is shown to implement this specification.                     *)
(***************************************************************************)
EXTENDS Integers, Sequences, FiniteSets

CONSTANTS Contexts,      \* the pubnub_t contexts
          Timeouts,      \* the timeouts a timer is started with, in ms
          Ticks          \* the elapsed times the watcher thread measures, in ms

VARIABLES remaining,     \* ms left for each context, Off when it has no timer
          expiring       \* expired contexts not yet stopped, in order

Off == -1

timerVars == <<remaining, expiring>>

Init == /\ remaining = [c \in Contexts |-> Off]
        /\ expiring = <<>>

\* The timer lock is free: no expired context is being handled.
Unlocked == expiring = <<>>

Start(c, ms) ==
    /\ Unlocked
    /\ remaining' = [remaining EXCEPT ![c] = ms]
    /\ UNCHANGED expiring

Stop(c) ==
    /\ Unlocked
    /\ remaining' = [remaining EXCEPT ![c] = Off]
    /\ UNCHANGED expiring

\* s lists the contexts of S without repetition, the least time left first.
InExpiryOrder(s, S) ==
    /\ Len(s) = Cardinality(S)
    /\ {s[i] : i \in DOMAIN s} = S
    /\ \A i, j \in DOMAIN s : i < j => remaining[s[i]] <= remaining[s[j]]

Elapse(ms) ==
    LET due == {c \in Contexts : remaining[c] # Off /\ remaining[c] <= ms}
    IN  /\ Unlocked
        /\ remaining' = [c \in Contexts |->
                            IF remaining[c] = Off \/ c \in due THEN Off
                            ELSE remaining[c] - ms]
        /\ \E s \in UNION {[1..n -> due] : n \in {Cardinality(due)}} :
              InExpiryOrder(s, due) /\ expiring' = s

\* The earliest of the expired contexts gets its timeout.
Expire == /\ expiring # <<>>
          /\ expiring' = Tail(expiring)
          /\ UNCHANGED remaining

Next == \/ \E c \in Contexts, ms \in Timeouts : Start(c, ms)
        \/ \E c \in Contexts : Stop(c)
        \/ \E ms \in Ticks : Elapse(ms)
        \/ Expire

Spec == Init /\ [][Next]_timerVars
=============================================================================
