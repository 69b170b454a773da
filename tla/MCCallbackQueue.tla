--------------------------- MODULE MCCallbackQueue ---------------------------
(* Four slots hold three entries: the array wraps after four operations and *)
(* the queue is full of two contexts, with duplicates or with holes.        *)
EXTENDS CallbackQueue
=============================================================================
