------------------------------ MODULE LossyFifo ------------------------------
(***************************************************************************)
(* What threadsafe_queue (NACX_Server/ThreadSafeQueue.h) promises to the   *)
(* PCIe thread that fills it and to the data thread that empties it: items *)
(* come out in the order they went in, each at most once; a push that      *)
(* finds more than Depth items is dropped without a trace; and an item     *)
(* that stays in the queue is eventually taken by somebody.                *)
(* No mutex, condition variable or sleeping thread appears here.           *)
(***************************************************************************)
EXTENDS Naturals, Sequences

CONSTANTS
  Receiver,  (* the threads that take items         *)
  Item,      (* what is queued                      *)
  Depth      (* a longer queue accepts nothing more *)

VARIABLES
  fifo,      (* the items accepted and not yet taken, oldest first *)
  taken      (* the item each receiver took last, as a sequence of length 0 or 1 *)

vars == <<fifo, taken>>

Init ==
  /\ fifo = <<>>
  /\ taken = [r \in Receiver |-> <<>>]

Send(x) ==
  /\ Len(fifo) <= Depth
  /\ fifo' = Append(fifo, x)
  /\ UNCHANGED taken

Receive(r) ==
  /\ fifo # <<>>
  /\ fifo' = Tail(fifo)
  /\ taken' = [taken EXCEPT ![r] = <<Head(fifo)>>]

Reset ==
  /\ fifo' = <<>>
  /\ UNCHANGED taken

Next ==
  \/ \E x \in Item : Send(x)
  \/ \E r \in Receiver : Receive(r)
  \/ Reset

(* The fairness is the promise that nothing is left lying in the queue. *)
Spec == Init /\ [][Next]_vars /\ WF_vars(\E r \in Receiver : Receive(r))
==============================================================================
