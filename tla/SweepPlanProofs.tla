--------------------------- MODULE SweepPlanProofs ---------------------------
(***************************************************************************)
(* The plan of a sweep covers the range that was asked for, wastes no step *)
(* and stays in the band: for every band, band width and request.          *)
(*                                                                         *)
(* The invariant says of each loop what a loop invariant says: the centre  *)
(* is on the grid, and it was moved only because the step before it did    *)
(* not reach the range; after the loop, the exit condition too.            *)
(***************************************************************************)
EXTENDS SweepPlan, TLAPS

OnGrid(x) == \E k \in 0..Steps : x = MIN_FREQ + k * BAND_WIDTH

(* What holds in and after the first loop, and after it. *)
StartReached ==
  /\ OnGrid(StartCenterFreq)
  /\ StartCenterFreq > MIN_FREQ => StartCenterFreq - HALF_BAND_WIDTH < StartFreq
StartExit ==
  StartCenterFreq < MAX_FREQ => StartCenterFreq + HALF_BAND_WIDTH >= StartFreq

(* The same for the second. *)
StopReached ==
  /\ OnGrid(StopCenterFreq)
  /\ StopCenterFreq < MAX_FREQ => StopCenterFreq + HALF_BAND_WIDTH > StopFreq
StopExit ==
  StopCenterFreq > MIN_FREQ => StopCenterFreq - HALF_BAND_WIDTH <= StopFreq

IInv ==
  /\ TypeOK
  /\ pc = "idle" => StartFreq = StopFreq
  /\ pc \in {"startLoop", "stopLoop"} => StartFreq < StopFreq
  /\ StartFreq < StopFreq =>
       /\ StartReached
       /\ StopReached
       /\ pc \in {"stopLoop", "clamp", "planned"} => StartExit
       /\ pc \in {"clamp", "planned"} => StopExit
       /\ pc = "planned" =>
            TimeNum = Quotient(StopCenterFreq - StartCenterFreq, BAND_WIDTH) + 1
  /\ ~(StartFreq < StopFreq) =>
       /\ pc = "clamp" => StartCenterFreq = StopCenterFreq
       /\ pc = "planned" => TimeNum <= 1

------------------------------------------------------------------------------
(* Arithmetic *)

LEMMA BandWidth == BAND_WIDTH \in Nat \ {0} /\ BAND_WIDTH = 2 * HALF_BAND_WIDTH
BY PlanAssumption DEF BAND_WIDTH

LEMMA MonotoneProduct ==
  ASSUME NEW j \in Int, NEW k \in Int, NEW w \in Nat, j <= k
  PROVE  j * w <= k * w
<1>1. (k - j) * w >= 0
  <2>1. k - j \in Nat
    OBVIOUS
  <2> QED
    BY <2>1
<1> QED
  BY <1>1

LEMMA ExactQuotient ==
  ASSUME NEW n \in Nat, NEW w \in Nat \ {0}
  PROVE  (n * w) \div w = n
OBVIOUS

LEMMA QuotientBounds ==
  ASSUME NEW x \in Nat, NEW w \in Nat \ {0}
  PROVE  /\ x \div w \in Nat
         /\ (x \div w) * w <= x
         /\ x < (x \div w) * w + w
OBVIOUS

(* Two points of the grid are a band width apart, or the same. *)
LEMMA GridGap ==
  ASSUME NEW j \in Int, NEW k \in Int,
         MIN_FREQ + j * BAND_WIDTH < MIN_FREQ + k * BAND_WIDTH
  PROVE  /\ j + 1 <= k
         /\ MIN_FREQ + j * BAND_WIDTH + BAND_WIDTH = MIN_FREQ + (j + 1) * BAND_WIDTH
         /\ MIN_FREQ + k * BAND_WIDTH - BAND_WIDTH = MIN_FREQ + (k - 1) * BAND_WIDTH
         /\ MIN_FREQ + j * BAND_WIDTH + BAND_WIDTH <= MIN_FREQ + k * BAND_WIDTH
<1> USE PlanAssumption, BandWidth
<1>1. j + 1 <= k
  <2> SUFFICES ASSUME k <= j PROVE FALSE
    OBVIOUS
  <2>1. k * BAND_WIDTH <= j * BAND_WIDTH
    BY MonotoneProduct
  <2> QED
    BY <2>1
<1>2. (j + 1) * BAND_WIDTH <= k * BAND_WIDTH
  BY <1>1, MonotoneProduct
<1>3. /\ (j + 1) * BAND_WIDTH = j * BAND_WIDTH + BAND_WIDTH
      /\ (k - 1) * BAND_WIDTH = k * BAND_WIDTH - BAND_WIDTH
  OBVIOUS
<1> QED
  BY <1>1, <1>2, <1>3

LEMMA GridBounds ==
  ASSUME NEW x, OnGrid(x)
  PROVE  x \in Int /\ MIN_FREQ <= x /\ x <= MAX_FREQ
<1> USE PlanAssumption, BandWidth
<1>1. PICK k \in 0..Steps : x = MIN_FREQ + k * BAND_WIDTH
  BY DEF OnGrid
<1>2. 0 * BAND_WIDTH <= k * BAND_WIDTH /\ k * BAND_WIDTH <= Steps * BAND_WIDTH
  BY MonotoneProduct
<1> QED
  BY <1>1, <1>2

(* A step up from below the end of the grid, or down from above its start,      *)
(* stays on the grid.                                                           *)
LEMMA GridStep ==
  ASSUME NEW x, OnGrid(x)
  PROVE  /\ x < MAX_FREQ => OnGrid(x + BAND_WIDTH)
         /\ x > MIN_FREQ => OnGrid(x - BAND_WIDTH)
<1> USE PlanAssumption, BandWidth
<1>1. PICK k \in 0..Steps : x = MIN_FREQ + k * BAND_WIDTH
  BY DEF OnGrid
<1>2. ASSUME x < MAX_FREQ PROVE OnGrid(x + BAND_WIDTH)
  <2>1. /\ k + 1 <= Steps
        /\ x + BAND_WIDTH = MIN_FREQ + (k + 1) * BAND_WIDTH
    BY <1>1, <1>2, GridGap
  <2> QED
    BY <2>1 DEF OnGrid
<1>3. ASSUME x > MIN_FREQ PROVE OnGrid(x - BAND_WIDTH)
  <2>1. 0 * BAND_WIDTH = 0 /\ MIN_FREQ + 0 * BAND_WIDTH < MIN_FREQ + k * BAND_WIDTH
    BY <1>1, <1>3
  <2>2. /\ 0 + 1 <= k
        /\ x - BAND_WIDTH = MIN_FREQ + (k - 1) * BAND_WIDTH
    BY <1>1, <2>1, GridGap
  <2> QED
    BY <2>2 DEF OnGrid
<1> QED
  BY <1>2, <1>3

LEMMA GridEnds == OnGrid(MIN_FREQ) /\ OnGrid(MAX_FREQ)
<1> USE PlanAssumption, BandWidth
<1>1. 0 \in 0..Steps /\ MIN_FREQ = MIN_FREQ + 0 * BAND_WIDTH
  OBVIOUS
<1>2. Steps \in 0..Steps
  OBVIOUS
<1> QED
  BY <1>1, <1>2 DEF OnGrid

(* From a first centre that is not below the last there is at most one step.    *)
LEMMA NoDistance ==
  ASSUME NEW a \in Int, NEW c \in Int, NEW n, a - c <= 0, n = Quotient(a - c, BAND_WIDTH) + 1
  PROVE  n <= 1
<1> DEFINE x == a - c
<1>1. x \in Int /\ x <= 0 /\ -x \in Nat
  OBVIOUS
<1> HIDE DEF x
<1>2. (-x) \div BAND_WIDTH \in Nat /\ (0 \div BAND_WIDTH) = 0
  BY <1>1, BandWidth, QuotientBounds
<1>3. x >= 0 => x = 0
  BY <1>1
<1>4. Quotient(x, BAND_WIDTH) \in Int /\ Quotient(x, BAND_WIDTH) <= 0
  BY <1>2, <1>3 DEF Quotient
<1> QED
  BY <1>4 DEF x

LEMMA QuotientInt == ASSUME NEW x \in Int PROVE Quotient(x, BAND_WIDTH) \in Int
<1>1. CASE x >= 0
  BY <1>1, BandWidth DEF Quotient
<1>2. CASE x < 0
  <2>1. -x \in Nat /\ (-x) \div BAND_WIDTH \in Int
    BY <1>2, BandWidth
  <2> QED
    BY <1>2, <2>1 DEF Quotient
<1> QED
  BY <1>1, <1>2

------------------------------------------------------------------------------
(* The invariant is inductive. *)

LEMMA InitIInv == Init => IInv
BY DEF Init, IInv, TypeOK

LEMMA StepIInv == IInv /\ [Next]_vars => IInv'
<1> SUFFICES ASSUME IInv, [Next]_vars PROVE IInv'
  OBVIOUS
<1> USE PlanAssumption, BandWidth
<1>1. ASSUME NEW sf \in Frequency, NEW ef \in Frequency, Command(sf, ef)
      PROVE  IInv'
  <2>1. sf \in Int /\ ef \in Int /\ MAX_FREQ \in Int
    OBVIOUS
  <2>2. TypeOK'
    BY <1>1, <2>1 DEF Command, IInv, TypeOK
  <2>3. CASE sf = ef
    BY <1>1, <2>1, <2>2, <2>3 DEF Command, IInv
  <2>4. CASE sf # ef
    <3>1. /\ pc' = "startLoop" /\ StartFreq' < StopFreq'
          /\ StartCenterFreq' = MIN_FREQ /\ StopCenterFreq' = MAX_FREQ
      BY <1>1, <2>1, <2>4 DEF Command
    <3>2. OnGrid(StartCenterFreq)' /\ OnGrid(StopCenterFreq)'
      BY <3>1, GridEnds DEF OnGrid
    <3>3. StartReached' /\ StopReached'
      BY <3>1, <3>2, <2>1 DEF StartReached, StopReached
    <3> QED
      BY <3>1, <3>3, <2>2 DEF IInv
  <2> QED
    BY <2>3, <2>4
<1>2. CASE RaiseStart
  <2>1. /\ pc = "startLoop" /\ pc' = pc
        /\ StartFreq < StopFreq /\ StartReached /\ StopReached
        /\ UNCHANGED <<StartFreq, StopFreq, StopCenterFreq, TimeNum>>
        /\ StartCenterFreq + HALF_BAND_WIDTH < StartFreq
        /\ StartCenterFreq < MAX_FREQ
        /\ StartCenterFreq' = StartCenterFreq + BAND_WIDTH
    BY <1>2 DEF RaiseStart, StartTooLow, request, IInv
  <2>2. TypeOK'
    BY <2>1 DEF IInv, TypeOK
  <2>3. OnGrid(StartCenterFreq + BAND_WIDTH)
    BY <2>1, GridStep DEF StartReached
  <2>4. StartReached'
    BY <2>1, <2>3 DEF StartReached, OnGrid, IInv, TypeOK
  <2>5. StopReached'
    BY <2>1 DEF StopReached, OnGrid
  <2> QED
    BY <2>1, <2>2, <2>4, <2>5 DEF IInv
<1>3. CASE StartFound
  <2>1. /\ pc = "startLoop" /\ pc' = "stopLoop"
        /\ StartFreq < StopFreq /\ StartReached /\ StopReached
        /\ UNCHANGED <<StartFreq, StopFreq, StartCenterFreq, StopCenterFreq, TimeNum>>
        /\ ~StartTooLow
    BY <1>3 DEF StartFound, request, IInv
  <2>2. TypeOK'
    BY <2>1 DEF IInv, TypeOK
  <2>3. StartExit'
    BY <2>1 DEF StartTooLow, StartExit, IInv, TypeOK
  <2>4. StartReached' /\ StopReached'
    BY <2>1 DEF StartReached, StopReached, OnGrid
  <2> QED
    BY <2>1, <2>2, <2>3, <2>4 DEF IInv
<1>4. CASE LowerStop
  <2>1. /\ pc = "stopLoop" /\ pc' = pc
        /\ StartFreq < StopFreq /\ StartReached /\ StopReached /\ StartExit
        /\ UNCHANGED <<StartFreq, StopFreq, StartCenterFreq, TimeNum>>
        /\ StopCenterFreq - HALF_BAND_WIDTH > StopFreq
        /\ StopCenterFreq > MIN_FREQ
        /\ StopCenterFreq' = StopCenterFreq - BAND_WIDTH
    BY <1>4 DEF LowerStop, StopTooHigh, request, IInv
  <2>2. TypeOK'
    BY <2>1 DEF IInv, TypeOK
  <2>3. OnGrid(StopCenterFreq - BAND_WIDTH)
    BY <2>1, GridStep DEF StopReached
  <2>4. StopReached'
    <3>1. StopCenterFreq' + HALF_BAND_WIDTH > StopFreq'
      BY <2>1 DEF IInv, TypeOK
    <3>2. OnGrid(StopCenterFreq)'
      BY <2>1, <2>3 DEF OnGrid
    <3> QED
      BY <3>1, <3>2 DEF StopReached
  <2>5. StartReached' /\ StartExit'
    BY <2>1 DEF StartReached, StartExit, OnGrid
  <2> QED
    BY <2>1, <2>2, <2>4, <2>5 DEF IInv
<1>5. CASE StopFound
  <2>1. /\ pc = "stopLoop" /\ pc' = "clamp"
        /\ StartFreq < StopFreq /\ StartReached /\ StopReached /\ StartExit
        /\ UNCHANGED <<StartFreq, StopFreq, StartCenterFreq, StopCenterFreq, TimeNum>>
        /\ ~StopTooHigh
    BY <1>5 DEF StopFound, request, IInv
  <2>2. TypeOK'
    BY <2>1 DEF IInv, TypeOK
  <2>3. StopExit'
    BY <2>1 DEF StopTooHigh, StopExit, IInv, TypeOK
  <2>4. StartReached' /\ StopReached' /\ StartExit'
    BY <2>1 DEF StartReached, StopReached, StartExit, OnGrid
  <2> QED
    BY <2>1, <2>2, <2>3, <2>4 DEF IInv
<1>6. CASE SetSweepCXResult
  <2>1. /\ pc = "clamp" /\ pc' = "planned"
        /\ UNCHANGED <<StartFreq, StopFreq>>
    BY <1>6 DEF SetSweepCXResult, request
  <2>2. StartCenterFreq' \in Int /\ StopCenterFreq' \in Int
    BY <1>6 DEF SetSweepCXResult, IInv, TypeOK
  <2>3. TimeNum' = Quotient(StopCenterFreq' - StartCenterFreq', BAND_WIDTH) + 1
    BY <1>6 DEF SetSweepCXResult
  <2>4. TimeNum' \in Int
    BY <2>2, <2>3, QuotientInt
  <2>5. TypeOK'
    BY <2>1, <2>2, <2>4 DEF IInv, TypeOK
  <2>6. CASE ~(StartFreq < StopFreq)
    <3>1. StartCenterFreq = StopCenterFreq /\ StartCenterFreq \in Int /\ MIN_FREQ <= MAX_FREQ
      BY <2>1, <2>6, GridEnds, GridBounds DEF IInv, TypeOK
    <3>2. StopCenterFreq' - StartCenterFreq' <= 0
      BY <1>6, <3>1, PlanAssumption, BandWidth DEF SetSweepCXResult
    <3>3. TimeNum' <= 1
      BY <2>2, <2>3, <3>2, NoDistance, Zenon
    <3> QED
      BY <2>1, <2>5, <2>6, <3>3 DEF IInv
  <2>7. CASE StartFreq < StopFreq
    <3>1. StartReached /\ StopReached /\ StartExit /\ StopExit
      BY <2>1, <2>7 DEF IInv
    <3>2. /\ MIN_FREQ <= StartCenterFreq /\ StopCenterFreq <= MAX_FREQ
      BY <3>1, GridBounds DEF StartReached, StopReached
    <3>3. UNCHANGED <<StartCenterFreq, StopCenterFreq>>
      BY <1>6, <3>2 DEF SetSweepCXResult, IInv, TypeOK
    <3>4. StartReached' /\ StopReached' /\ StartExit' /\ StopExit'
      BY <2>1, <3>1, <3>3 DEF StartReached, StopReached, StartExit, StopExit, OnGrid
    <3> QED
      BY <2>1, <2>3, <2>5, <2>7, <3>4 DEF IInv, Quotient
  <2> QED
    BY <2>6, <2>7
<1>7. CASE UNCHANGED vars
  BY <1>7 DEF vars, request, IInv, TypeOK, StartReached, StopReached, StartExit,
              StopExit, OnGrid, Quotient
<1> QED
  BY <1>1, <1>2, <1>3, <1>4, <1>5, <1>6, <1>7 DEF Next

(* The loop invariants of SetFreqCmd (TcpSession.cpp:737-738) hold in every     *)
(* state.                                                                       *)
THEOREM Invariant == Spec => []IInv
BY InitIInv, StepIInv, PTL DEF Spec

(* The variables of SetFreqCmd and TimeNum have their types.                    *)
THEOREM TypeCorrect == Spec => []TypeOK
<1>1. IInv => TypeOK
  BY DEF IInv
<1> QED
  BY Invariant, <1>1, PTL

------------------------------------------------------------------------------
(* What the invariant says of a plan *)

(* The two centres are points j and k of the grid, in this order, and the steps *)
(* are the points from j to k.  The order is where the two loops meet: were the *)
(* last centre below the first, the range would lie strictly between the two    *)
(* and be empty.                                                                *)
LEMMA PlanOnGrid ==
  ASSUME IInv, Ranged
  PROVE  \E j, k \in 0..Steps :
           /\ j <= k
           /\ StartCenterFreq = MIN_FREQ + j * BAND_WIDTH
           /\ StopCenterFreq = MIN_FREQ + k * BAND_WIDTH
           /\ TimeNum = k - j + 1
<1> USE PlanAssumption, BandWidth
<1>1. /\ StartReached /\ StopReached
      /\ TimeNum = Quotient(StopCenterFreq - StartCenterFreq, BAND_WIDTH) + 1
      /\ StartFreq < StopFreq /\ StartFreq \in Int /\ StopFreq \in Int
  BY DEF IInv, Ranged, TypeOK
<1>2. PICK j \in 0..Steps : StartCenterFreq = MIN_FREQ + j * BAND_WIDTH
  BY <1>1 DEF StartReached, OnGrid
<1>3. PICK k \in 0..Steps : StopCenterFreq = MIN_FREQ + k * BAND_WIDTH
  BY <1>1 DEF StopReached, OnGrid
<1>4. /\ StartCenterFreq \in Int /\ StopCenterFreq \in Int
      /\ StartCenterFreq <= MAX_FREQ /\ MIN_FREQ <= StopCenterFreq
  BY <1>1, GridBounds DEF StartReached, StopReached
<1>5. j <= k
  <2> SUFFICES ASSUME k < j PROVE FALSE
    OBVIOUS
  <2>1. (k + 1) * BAND_WIDTH <= j * BAND_WIDTH
    BY MonotoneProduct
  <2>2. (k + 1) * BAND_WIDTH = k * BAND_WIDTH + BAND_WIDTH
    OBVIOUS
  <2>3. StopCenterFreq + BAND_WIDTH <= StartCenterFreq
    BY <1>2, <1>3, <2>1, <2>2
  <2>4. StartCenterFreq > MIN_FREQ /\ StopCenterFreq < MAX_FREQ
    BY <1>4, <2>3
  <2>5. /\ StartCenterFreq - HALF_BAND_WIDTH < StartFreq
        /\ StopCenterFreq + HALF_BAND_WIDTH > StopFreq
    BY <1>1, <2>4 DEF StartReached, StopReached
  <2> QED
    BY <1>1, <1>4, <2>3, <2>5
<1>6. TimeNum = k - j + 1
  <2>1. k - j \in Nat /\ StopCenterFreq - StartCenterFreq = (k - j) * BAND_WIDTH
    BY <1>2, <1>3, <1>5
  <2>2. (k - j) * BAND_WIDTH >= 0
    BY <1>2, <1>3, <2>1, MonotoneProduct, <1>5
  <2>3. ((k - j) * BAND_WIDTH) \div BAND_WIDTH = k - j
    BY <2>1, ExactQuotient
  <2> QED
    BY <1>1, <2>1, <2>2, <2>3 DEF Quotient
<1> QED
  BY <1>2, <1>3, <1>5, <1>6

LEMMA InBand == IInv => StepsInBand
<1> USE PlanAssumption, BandWidth
<1> SUFFICES ASSUME IInv, Ranged
             PROVE  /\ TimeNum >= 1
                    /\ MIN_FREQ <= StartCenterFreq
                    /\ Centre(TimeNum - 1) = StopCenterFreq
                    /\ StopCenterFreq <= MAX_FREQ
  BY DEF StepsInBand
<1>1. PICK j, k \in 0..Steps :
        /\ j <= k
        /\ StartCenterFreq = MIN_FREQ + j * BAND_WIDTH
        /\ StopCenterFreq = MIN_FREQ + k * BAND_WIDTH
        /\ TimeNum = k - j + 1
  BY PlanOnGrid
<1>2. OnGrid(StartCenterFreq) /\ OnGrid(StopCenterFreq)
  BY <1>1 DEF OnGrid
<1>3. MIN_FREQ <= StartCenterFreq /\ StopCenterFreq <= MAX_FREQ
  BY <1>2, GridBounds
<1>4. TimeNum - 1 = k - j /\ (k - j) * BAND_WIDTH = k * BAND_WIDTH - j * BAND_WIDTH
  BY <1>1
<1>5. Centre(TimeNum - 1) = StopCenterFreq
  BY <1>1, <1>4 DEF Centre
<1> QED
  BY <1>1, <1>3, <1>5

(* A step is between the two centres.                                           *)
LEMMA StepBetween ==
  ASSUME IInv, Ranged, NEW i \in Step
  PROVE  /\ Centre(i) \in Int
         /\ StartCenterFreq <= Centre(i)
         /\ Centre(i) <= StopCenterFreq
<1> USE PlanAssumption, BandWidth
<1>1. /\ TimeNum \in Int /\ StartCenterFreq \in Int
      /\ Centre(TimeNum - 1) = StopCenterFreq
  BY InBand DEF StepsInBand, IInv, TypeOK
<1>2. i \in Int /\ 0 <= i /\ i <= TimeNum - 1
  BY <1>1 DEF Step
<1>3. /\ 0 * BAND_WIDTH <= i * BAND_WIDTH
      /\ i * BAND_WIDTH <= (TimeNum - 1) * BAND_WIDTH
  BY <1>1, <1>2, MonotoneProduct
<1> QED
  BY <1>1, <1>2, <1>3 DEF Centre

LEMMA NotWasted == IInv => NoStepWasted
<1> USE PlanAssumption, BandWidth
<1> SUFFICES ASSUME IInv, Ranged, Observable, NEW i \in Step
             PROVE  /\ Centre(i) + HALF_BAND_WIDTH >= StartFreq
                    /\ Centre(i) - HALF_BAND_WIDTH <= StopFreq
  BY DEF NoStepWasted
<1>1. /\ StartExit /\ StopExit
      /\ StartFreq \in Int /\ StopFreq \in Int
      /\ StartCenterFreq \in Int /\ StopCenterFreq \in Int
  BY DEF IInv, Ranged, TypeOK
<1>2. StartCenterFreq + HALF_BAND_WIDTH >= StartFreq
  BY <1>1 DEF StartExit, Observable
<1>3. StopCenterFreq - HALF_BAND_WIDTH <= StopFreq
  BY <1>1 DEF StopExit, Observable
<1> QED
  BY <1>1, <1>2, <1>3, StepBetween

(* The step that observes f is the last one whose lower edge is not above f.    *)
LEMMA Covered == IInv => RangeCovered
<1> USE PlanAssumption, BandWidth
<1> SUFFICES ASSUME IInv, Ranged,
                    NEW f \in Frequency, StartFreq <= f, f <= StopFreq,
                    MIN_FREQ - HALF_BAND_WIDTH <= f,
                    f <= MAX_FREQ + HALF_BAND_WIDTH
             PROVE  \E i \in Step : Observes(i, f)
  BY DEF RangeCovered
<1>1. /\ StartReached /\ StopReached /\ StartFreq \in Int /\ StopFreq \in Int
      /\ f \in Int /\ StartCenterFreq \in Int /\ StopCenterFreq \in Int
      /\ TimeNum \in Int
  BY DEF IInv, Ranged, TypeOK
<1>2. /\ TimeNum >= 1
      /\ MIN_FREQ <= StartCenterFreq /\ StopCenterFreq <= MAX_FREQ
      /\ Centre(TimeNum - 1) = StopCenterFreq
  BY InBand DEF StepsInBand
<1>3. StartCenterFreq - HALF_BAND_WIDTH <= f
  BY <1>1, <1>2 DEF StartReached
<1>4. f <= StopCenterFreq + HALF_BAND_WIDTH
  BY <1>1, <1>2 DEF StopReached
<1> DEFINE i == (f - StartCenterFreq + HALF_BAND_WIDTH) \div BAND_WIDTH
<1>5. /\ i \in Nat
      /\ i * BAND_WIDTH <= f - StartCenterFreq + HALF_BAND_WIDTH
      /\ f - StartCenterFreq + HALF_BAND_WIDTH < i * BAND_WIDTH + BAND_WIDTH
  <2>1. f - StartCenterFreq + HALF_BAND_WIDTH \in Nat
    BY <1>1, <1>3
  <2> QED
    BY <2>1, QuotientBounds
<1> HIDE DEF i
<1>6. CASE i <= TimeNum - 1
  <2>1. i \in Step
    BY <1>1, <1>5, <1>6 DEF Step
  <2>2. Observes(i, f)
    BY <1>1, <1>5 DEF Observes, Centre
  <2> QED
    BY <2>1, <2>2
<1>7. CASE i > TimeNum - 1
  <2>1. TimeNum - 1 \in Step
    BY <1>1, <1>2 DEF Step
  <2>2. (TimeNum - 1) * BAND_WIDTH <= i * BAND_WIDTH
    BY <1>1, <1>5, <1>7, MonotoneProduct
  <2>3. StopCenterFreq = StartCenterFreq + (TimeNum - 1) * BAND_WIDTH
    BY <1>2 DEF Centre
  <2>4. StopCenterFreq - HALF_BAND_WIDTH <= f
    BY <1>1, <1>5, <2>2, <2>3
  <2>5. Observes(TimeNum - 1, f)
    BY <1>2, <1>4, <2>4 DEF Observes
  <2> QED
    BY <2>1, <2>5
<1> QED
  BY <1>1, <1>5, <1>6, <1>7

(* Of a range, SetFreqCmd and SetSweepCXResult (TcpSession.cpp:737-738,         *)
(* StructNetData.h:372) make steps that all lie in the band, from the first     *)
(* centre to the last, at least one.                                            *)
THEOREM StepsLieInBand == Spec => []StepsInBand
BY Invariant, InBand, PTL

(* The steps of SetFreqCmd's plan (TcpSession.cpp:725-743) observe every        *)
(* frequency of the range that the board can observe.                           *)
THEOREM RangeIsCovered == Spec => []RangeCovered
BY Invariant, Covered, PTL

(* A plan of more than one step starts on the grid of centres (TcpSession.cpp:   *)
(* 737-738): a single frequency, which need not lie on it, is at most one step.  *)
THEOREM PlansLieOnGrid ==
  Spec => [](pc = "planned" /\ TimeNum > 1 => OnGrid(StartCenterFreq))
<1>1. IInv => (pc = "planned" /\ TimeNum > 1 => OnGrid(StartCenterFreq))
  BY DEF IInv, TypeOK, StartReached
<1> QED
  BY Invariant, <1>1, PTL

(* If the board can observe any of the range, each step of SetFreqCmd's plan    *)
(* (TcpSession.cpp:725-743) meets it.                                           *)
THEOREM NoStepIsWasted == Spec => []NoStepWasted
BY Invariant, NotWasted, PTL
==============================================================================
