--------------------------- MODULE ThreadSafeQueue ---------------------------
(***************************************************************************)
(* threadsafe_queue<T, MAX_BUFFER_DEPTH> of NACX_Server/ThreadSafeQueue.h: *)
(* the bounded hand-over between a PCIe thread (DataCX, DataZC in          *)
(* dllImport.cpp push) and a data thread (DataDealCX, DataDealZC pop).     *)
(*                                                                         *)
(* Every member function holds `mut` from its first statement to its       *)
(* return and blocks nowhere while it holds it, except in data_cond.wait,  *)
(* which gives the mutex up.  A critical section is therefore one atomic   *)
(* action; the two halves of wait_and_pop around the wait are two actions  *)
(* and anything may happen between them.                                   *)
(***************************************************************************)
EXTENDS Naturals, Sequences

CONSTANTS
  Consumer,          (* threads that call wait_and_pop or try_pop *)
  Item,              (* the values queued                         *)
  MAX_BUFFER_DEPTH   (* the template parameter, 10000 in the code *)

ASSUME QueueAssumption ==
  /\ Consumer # {}
  /\ MAX_BUFFER_DEPTH \in Nat

VARIABLES
  data_queue,  (* the std::queue                                              *)
  at,          (* where each consumer is: "outside" the queue, "testing" the  *)
               (* predicate of the wait with the mutex held, or "waiting" on  *)
               (* data_cond                                                   *)
  value        (* what each consumer got last, <<>> before its first item     *)

vars == <<data_queue, at, value>>

Waiting == {c \in Consumer : at[c] = "waiting"}

Init ==
  /\ data_queue = <<>>
  /\ at = [c \in Consumer |-> "outside"]
  /\ value = [c \in Consumer |-> <<>>]

------------------------------------------------------------------------------
(* Mutated forms of the operations, used only to test the properties. *)

(* A push that forgets data_cond.notify_one(). *)
PushSilently(x) ==
  /\ Len(data_queue) <= MAX_BUFFER_DEPTH
  /\ data_queue' = Append(data_queue, x)
  /\ UNCHANGED <<at, value>>

(* A pop that does not test whether there is an item. *)
TakeUntested(c) ==
  /\ value' = [value EXCEPT ![c] =
                 <<IF data_queue = <<>> THEN <<>> ELSE Head(data_queue)>>]
  /\ data_queue' = IF data_queue = <<>> THEN <<>> ELSE Tail(data_queue)

(* A wait without the predicate: the thread sleeps on a filled queue. *)
BlockUntested(c) ==
  /\ at[c] = "testing"
  /\ at' = [at EXCEPT ![c] = "waiting"]
  /\ UNCHANGED <<data_queue, value>>

------------------------------------------------------------------------------

(* push drops the item when the queue holds MORE than MAX_BUFFER_DEPTH, so it *)
(* accepts one item beyond the limit.                                         *)
HasRoom == Len(data_queue) <= MAX_BUFFER_DEPTH

(* data_cond.notify_one: one waiting thread, if there is one, goes back to test *)
(* its predicate.                                                               *)
NotifyOne ==
  \/ /\ Waiting = {}
     /\ UNCHANGED at
  \/ \E c \in Waiting : at' = [at EXCEPT ![c] = "testing"]

Push(x) ==
  /\ HasRoom
  /\ data_queue' = Append(data_queue, x)
  /\ NotifyOne
  /\ UNCHANGED value

(* A thread calls wait_and_pop and takes the mutex. *)
CallWaitAndPop(c) ==
  /\ at[c] = "outside"
  /\ at' = [at EXCEPT ![c] = "testing"]
  /\ UNCHANGED <<data_queue, value>>

(* The predicate is false: data_cond.wait releases the mutex and sleeps. *)
Block(c) ==
  /\ at[c] = "testing"
  /\ data_queue = <<>>
  /\ at' = [at EXCEPT ![c] = "waiting"]
  /\ UNCHANGED <<data_queue, value>>

TakeFront(c) ==
  /\ data_queue # <<>>
  /\ value' = [value EXCEPT ![c] = <<Head(data_queue)>>]
  /\ data_queue' = Tail(data_queue)

(* The predicate is true: the front item is moved out and returned. *)
Pop(c) ==
  /\ at[c] = "testing"
  /\ TakeFront(c)
  /\ at' = [at EXCEPT ![c] = "outside"]

TryPop(c) ==
  /\ at[c] = "outside"
  /\ TakeFront(c)
  /\ UNCHANGED at

Clear ==
  /\ data_queue' = <<>>
  /\ UNCHANGED <<at, value>>

NotifyAll ==
  /\ at' = [c \in Consumer |-> IF c \in Waiting THEN "testing" ELSE at[c]]
  /\ UNCHANGED <<data_queue, value>>

(* The C++ standard lets a condition variable wake a thread for no reason. *)
SpuriousWakeup(c) ==
  /\ at[c] = "waiting"
  /\ at' = [at EXCEPT ![c] = "testing"]
  /\ UNCHANGED <<data_queue, value>>

Next ==
  \/ \E x \in Item : Push(x)
  \/ \E c \in Consumer :
       \/ CallWaitAndPop(c)
       \/ Block(c)
       \/ Pop(c)
       \/ TryPop(c)
       \/ SpuriousWakeup(c)
  \/ Clear
  \/ NotifyAll

(* A data thread loops around wait_and_pop for ever (`while (true)` in          *)
(* DataDealCX and DataDealZC), and a thread that holds the mutex and finds an   *)
(* item takes it.  No fairness on spurious wakeups, notify or pushes.           *)
Fairness ==
  \A c \in Consumer : WF_vars(CallWaitAndPop(c)) /\ WF_vars(Pop(c))

Spec == Init /\ [][Next]_vars /\ Fairness

------------------------------------------------------------------------------

TypeOK ==
  /\ data_queue \in Seq(Item)
  /\ at \in [Consumer -> {"outside", "testing", "waiting"}]
  /\ value \in [Consumer -> {<<>>} \cup {<<x>> : x \in Item}]

(* The depth the template parameter promises is overrun by exactly one item and *)
(* never more, whatever the order of pushes, pops and clears.                   *)
DepthBound == Len(data_queue) <= MAX_BUFFER_DEPTH + 1

(* No lost wakeup: it never happens that an item is queued and every consumer   *)
(* sleeps in data_cond.wait, although push notifies ONE thread and only if one  *)
(* sleeps at that moment.                                                       *)
NoLostWakeup == data_queue # <<>> => Waiting # Consumer

(* The queue implements the lossy FIFO: order and at-most-once for safety, and  *)
(* for liveness that a queued item is eventually taken.                         *)
Fifo == INSTANCE LossyFifo WITH
          Receiver <- Consumer, Depth <- MAX_BUFFER_DEPTH,
          fifo <- data_queue, taken <- value
FifoSpec == Fifo!Spec
==============================================================================
