----------------------------- MODULE ContextFifo -----------------------------
(***************************************************************************)
(* What the processing queue promises: contexts handed to it are taken by  *)
(* the watcher thread in the order they were accepted, one at a time, and  *)
(* one that lost its socket meanwhile is withdrawn.  CallbackQueue is      *)
(* shown to implement this specification.                                  *)
(***************************************************************************)
EXTENDS SequencesExt

CONSTANTS Contexts, NULL

VARIABLES pending,   \* contexts accepted and not yet taken, oldest first
          inHand     \* the context the watcher took and still handles

fifoVars == <<pending, inHand>>

Init == pending = <<>> /\ inHand = NULL

Accept(c) == /\ pending' = Append(pending, c)
             /\ UNCHANGED inHand

\* The oldest entry of c leaves.
Withdraw(c) ==
    /\ \E i \in DOMAIN pending : /\ pending[i] = c
                                 /\ \A j \in 1..(i - 1) : pending[j] # c
                                 /\ pending' = RemoveAt(pending, i)
    /\ UNCHANGED inHand

Take == /\ inHand = NULL
        /\ pending # <<>>
        /\ inHand' = Head(pending)
        /\ pending' = Tail(pending)

Finish == /\ inHand # NULL
          /\ inHand' = NULL
          /\ UNCHANGED pending

Next == \/ \E c \in Contexts : Accept(c) \/ Withdraw(c)
        \/ Take
        \/ Finish

Spec == Init /\ [][Next]_fifoVars
=============================================================================
