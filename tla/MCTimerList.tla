----------------------------- MODULE MCTimerList -----------------------------
(* Three contexts: enough for a removal or an expiry at the head, in the    *)
(* middle and at the tail of the list, and for an expired list of several.  *)
EXTENDS TimerList
=============================================================================
