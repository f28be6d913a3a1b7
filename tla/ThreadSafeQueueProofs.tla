------------------------ MODULE ThreadSafeQueueProofs ------------------------
(***************************************************************************)
(* Machine-checked facts about ThreadSafeQueue for every set of consumers, *)
(* every set of items and every MAX_BUFFER_DEPTH.  All three invariants    *)
(* are inductive together: DepthBound and NoLostWakeup need only the type  *)
(* invariant.                                                              *)
(***************************************************************************)
EXTENDS ThreadSafeQueue, SequenceTheorems, TLAPS

(* What taking the front item does to the two variables it writes. *)
LEMMA TakeFrontFacts ==
  ASSUME TypeOK, NEW c \in Consumer, TakeFront(c)
  PROVE  /\ data_queue # <<>>
         /\ data_queue' \in Seq(Item)
         /\ Len(data_queue') = Len(data_queue) - 1
         /\ value' \in [Consumer -> {<<>>} \cup {<<x>> : x \in Item}]
<1>1. data_queue \in Seq(Item) /\ data_queue # <<>>
  BY DEF TypeOK, TakeFront
<1>2. /\ Head(data_queue) \in Item
      /\ Tail(data_queue) \in Seq(Item)
      /\ Len(Tail(data_queue)) = Len(data_queue) - 1
  BY <1>1, HeadTailProperties
<1>3. value' \in [Consumer -> {<<>>} \cup {<<x>> : x \in Item}]
  BY <1>2 DEF TypeOK, TakeFront
<1> QED
  BY <1>1, <1>2, <1>3 DEF TakeFront

LEMMA TypeInit == Init => TypeOK
  BY DEF Init, TypeOK

LEMMA TypeStep == TypeOK /\ [Next]_vars => TypeOK'
<1> SUFFICES ASSUME TypeOK, [Next]_vars
             PROVE  TypeOK'
  OBVIOUS
<1>1. ASSUME NEW x \in Item, Push(x)
      PROVE  TypeOK'
  <2>1. data_queue' \in Seq(Item)
    BY <1>1, AppendProperties DEF TypeOK, Push
  <2>2. at' \in [Consumer -> {"outside", "testing", "waiting"}]
    BY <1>1 DEF TypeOK, Push, NotifyOne, Waiting
  <2> QED
    BY <1>1, <2>1, <2>2 DEF TypeOK, Push
<1>2. ASSUME NEW c \in Consumer, CallWaitAndPop(c)
      PROVE  TypeOK'
  BY <1>2 DEF TypeOK, CallWaitAndPop
<1>3. ASSUME NEW c \in Consumer, Block(c)
      PROVE  TypeOK'
  BY <1>3 DEF TypeOK, Block
<1>4. ASSUME NEW c \in Consumer, Pop(c)
      PROVE  TypeOK'
  BY <1>4, TakeFrontFacts DEF TypeOK, Pop
<1>5. ASSUME NEW c \in Consumer, TryPop(c)
      PROVE  TypeOK'
  BY <1>5, TakeFrontFacts DEF TypeOK, TryPop
<1>6. ASSUME NEW c \in Consumer, SpuriousWakeup(c)
      PROVE  TypeOK'
  BY <1>6 DEF TypeOK, SpuriousWakeup
<1>7. CASE Clear
  <2>1. <<>> \in Seq(Item)
    OBVIOUS
  <2> QED
    BY <1>7, <2>1 DEF TypeOK, Clear
<1>8. CASE NotifyAll
  BY <1>8 DEF TypeOK, NotifyAll
<1>9. CASE UNCHANGED vars
  BY <1>9 DEF TypeOK, vars
<1> QED
  BY <1>1, <1>2, <1>3, <1>4, <1>5, <1>6, <1>7, <1>8, <1>9 DEF Next

(* The queue always holds a sequence of items, every consumer is in one of its *)
(* three places and holds at most one item.                                    *)
THEOREM TypeCorrect == Spec => []TypeOK
<1> QED
  BY TypeInit, TypeStep, PTL DEF Spec

LEMMA DepthStep == TypeOK /\ DepthBound /\ [Next]_vars => DepthBound'
<1> SUFFICES ASSUME TypeOK, DepthBound, [Next]_vars
             PROVE  DepthBound'
  OBVIOUS
<1> USE QueueAssumption DEF DepthBound
<1>0. Len(data_queue) \in Nat
  BY LenProperties DEF TypeOK
<1>1. ASSUME NEW x \in Item, Push(x)
      PROVE  DepthBound'
  <2>1. Len(data_queue') = Len(data_queue) + 1
    BY <1>1, AppendProperties DEF TypeOK, Push
  <2> QED
    BY <1>0, <1>1, <2>1 DEF Push, HasRoom
<1>2. ASSUME NEW c \in Consumer, TakeFront(c)
      PROVE  DepthBound'
  BY <1>0, <1>2, TakeFrontFacts
<1>3. CASE Clear
  <2>1. Len(<<>>) = 0
    OBVIOUS
  <2> QED
    BY <1>3, <2>1 DEF Clear
<1>4. CASE UNCHANGED data_queue
  BY <1>4
<1> QED
  BY <1>1, <1>2, <1>3, <1>4
  DEF Next, vars, CallWaitAndPop, Block, Pop, TryPop, SpuriousWakeup, NotifyAll

(* push lets the queue grow to MAX_BUFFER_DEPTH + 1 items and no further. *)
THEOREM DepthBounded == Spec => []DepthBound
<1>1. Init => DepthBound
  <2>1. Len(<<>>) = 0
    OBVIOUS
  <2> QED
    BY <2>1, QueueAssumption DEF Init, DepthBound
<1> QED
  BY <1>1, TypeCorrect, DepthStep, PTL DEF Spec

LEMMA WakeupStep == TypeOK /\ NoLostWakeup /\ [Next]_vars => NoLostWakeup'
<1> SUFFICES ASSUME TypeOK, NoLostWakeup, [Next]_vars
             PROVE  NoLostWakeup'
  OBVIOUS
<1> USE DEF NoLostWakeup, Waiting
<1>1. ASSUME NEW x \in Item, Push(x)
      PROVE  NoLostWakeup'
  <2>1. CASE Waiting = {}
    BY <1>1, <2>1, QueueAssumption DEF Push, NotifyOne
  <2>2. ASSUME NEW c \in Waiting, at' = [at EXCEPT ![c] = "testing"]
        PROVE  NoLostWakeup'
    <3>1. at'[c] = "testing"
      BY <2>2 DEF TypeOK
    <3> QED
      BY <2>2, <3>1
  <2> QED
    BY <1>1, <2>1, <2>2 DEF Push, NotifyOne
<1>2. ASSUME NEW c \in Consumer, at'[c] # "waiting"
      PROVE  NoLostWakeup'
  BY <1>2
<1>3. ASSUME NEW c \in Consumer,
             CallWaitAndPop(c) \/ Pop(c) \/ TryPop(c) \/ SpuriousWakeup(c)
      PROVE  NoLostWakeup'
  <2>1. at'[c] # "waiting"
    BY <1>3 DEF TypeOK, CallWaitAndPop, Pop, TryPop, SpuriousWakeup
  <2> QED
    BY <1>2, <2>1
<1>4. ASSUME NEW c \in Consumer, Block(c)
      PROVE  NoLostWakeup'
  BY <1>4 DEF Block
<1>5. CASE Clear
  BY <1>5 DEF Clear
<1>6. CASE NotifyAll
  <2>1. PICK c \in Consumer : TRUE
    BY QueueAssumption
  <2>2. at'[c] # "waiting"
    BY <1>6 DEF NotifyAll
  <2> QED
    BY <1>2, <2>2
<1>7. CASE UNCHANGED vars
  BY <1>7 DEF vars
<1> QED
  BY <1>1, <1>3, <1>4, <1>5, <1>6, <1>7 DEF Next

(* An item in the queue and all data threads asleep is unreachable: notify_one *)
(* under the mutex is enough, whatever the number of consumers.                *)
THEOREM NoWakeupIsLost == Spec => []NoLostWakeup
<1>1. Init => NoLostWakeup
  BY DEF Init, NoLostWakeup
<1> QED
  BY <1>1, TypeCorrect, WakeupStep, PTL DEF Spec

(* Every behaviour of the queue is, seen through data_queue and value, a *)
(* behaviour of the lossy FIFO: order is kept and no item is taken twice. *)
(* (The FIFO's liveness is checked by TLC only.)                         *)
THEOREM QueueRefinesFifo == Spec => Fifo!Init /\ [][Fifo!Next]_(Fifo!vars)
<1>1. Init => Fifo!Init
  BY DEF Init, Fifo!Init
<1>2. [Next]_vars => [Fifo!Next]_(Fifo!vars)
  <2> SUFFICES ASSUME [Next]_vars
               PROVE  [Fifo!Next]_(Fifo!vars)
    OBVIOUS
  <2>1. ASSUME NEW x \in Item, Push(x)
        PROVE  Fifo!Send(x)
    BY <2>1 DEF Push, HasRoom, Fifo!Send
  <2>2. ASSUME NEW c \in Consumer, TakeFront(c)
        PROVE  Fifo!Receive(c)
    BY <2>2 DEF TakeFront, Fifo!Receive
  <2>3. CASE Clear
    BY <2>3 DEF Clear, Fifo!Next, Fifo!Reset
  <2>4. CASE UNCHANGED <<data_queue, value>>
    BY <2>4 DEF Fifo!vars
  <2> QED
    BY <2>1, <2>2, <2>3, <2>4
    DEF Next, vars, Fifo!Next, CallWaitAndPop, Block, Pop, TryPop,
        SpuriousWakeup, NotifyAll
<1> QED
  BY <1>1, <1>2, PTL DEF Spec
==============================================================================
