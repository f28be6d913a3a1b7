-------------------------- MODULE MCThreadSafeQueue --------------------------
(* Two consumers (the code has one per queue: a second one is what makes       *)
(* notify_one's choice of a thread matter), three distinct items, a depth of 2 *)
(* so that the queue is empty, part full, at its limit and one beyond it.      *)
EXTENDS ThreadSafeQueue
==============================================================================
