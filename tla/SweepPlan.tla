------------------------------ MODULE SweepPlan ------------------------------
(***************************************************************************)
(* The frequency plan of a sweep: SetFreqCmd in TcpSession::SetCmdSweepData *)
(* and the numbers SetSweepCXResult (StructNetData.h) derives from it.     *)
(*                                                                         *)
(* A client names a first and a last frequency.  The board can centre a    *)
(* step on MIN_FREQ, MIN_FREQ + BAND_WIDTH, .., MAX_FREQ, and a step       *)
(* observes half a band width on either side.  One loop moves the first    *)
(* centre up from MIN_FREQ, one moves the last centre down from MAX_FREQ.  *)
(* The sweep then has TimeNum steps, from the first centre.                *)
(***************************************************************************)
EXTENDS Integers

CONSTANTS
  MIN_FREQ, MAX_FREQ,  (* of the centres, 200 and 500 MHz in the code *)
  HALF_BAND_WIDTH,     (* 10 MHz                                      *)
  Steps,               (* (MAX_FREQ - MIN_FREQ) / BAND_WIDTH, 15      *)
  Frequency            (* what a client may name                      *)

BAND_WIDTH == 2 * HALF_BAND_WIDTH

ASSUME PlanAssumption ==
  /\ HALF_BAND_WIDTH \in Nat \ {0}
  /\ Steps \in Nat
  /\ MIN_FREQ \in Nat
  /\ MAX_FREQ = MIN_FREQ + Steps * BAND_WIDTH
  /\ Frequency \subseteq Int

VARIABLES
  pc,                               (* "idle", "startLoop", "stopLoop",      *)
                                    (* "clamp", "planned"                    *)
  StartFreq, StopFreq,              (* what the client asks for              *)
  StartCenterFreq, StopCenterFreq,  (* the first and the last centre         *)
  TimeNum                           (* the number of steps                   *)

request == <<StartFreq, StopFreq>>
vars == <<pc, request, StartCenterFreq, StopCenterFreq, TimeNum>>

Init ==
  /\ pc = "idle"
  /\ StartFreq = 0 /\ StopFreq = 0
  /\ StartCenterFreq = 0 /\ StopCenterFreq = 0
  /\ TimeNum = 0

(* Act:1 is accepted when StartFreq <= StopFreq.  One frequency is a sweep of   *)
(* one step that bypasses the loops.                                            *)
Command(sf, ef) ==
  /\ pc \in {"idle", "planned"}
  /\ sf <= ef
  /\ StartFreq' = sf
  /\ StopFreq' = ef
  /\ IF sf = ef
       THEN /\ pc' = "clamp"
            /\ StartCenterFreq' = sf
            /\ StopCenterFreq' = ef
       ELSE /\ pc' = "startLoop"
            /\ StartCenterFreq' = MIN_FREQ
            /\ StopCenterFreq' = MAX_FREQ
  /\ UNCHANGED TimeNum

(* Mutated: the end of the band is not looked at; a step too far; a step short. *)
StartTooLowOpen == StartCenterFreq + HALF_BAND_WIDTH < StartFreq

StartTooLowEager ==
  StartCenterFreq - HALF_BAND_WIDTH < StartFreq /\ StartCenterFreq < MAX_FREQ

StopTooHighLate ==
  StopCenterFreq - BAND_WIDTH > StopFreq /\ StopCenterFreq > MIN_FREQ

(* The conditions of the two loops. *)
StartTooLow ==
  StartCenterFreq + HALF_BAND_WIDTH < StartFreq /\ StartCenterFreq < MAX_FREQ

StopTooHigh ==
  StopCenterFreq - HALF_BAND_WIDTH > StopFreq /\ StopCenterFreq > MIN_FREQ

RaiseStart ==
  /\ pc = "startLoop"
  /\ StartTooLow
  /\ StartCenterFreq' = StartCenterFreq + BAND_WIDTH
  /\ UNCHANGED <<pc, request, StopCenterFreq, TimeNum>>

StartFound ==
  /\ pc = "startLoop"
  /\ ~StartTooLow
  /\ pc' = "stopLoop"
  /\ UNCHANGED <<request, StartCenterFreq, StopCenterFreq, TimeNum>>

LowerStop ==
  /\ pc = "stopLoop"
  /\ StopTooHigh
  /\ StopCenterFreq' = StopCenterFreq - BAND_WIDTH
  /\ UNCHANGED <<pc, request, StartCenterFreq, TimeNum>>

StopFound ==
  /\ pc = "stopLoop"
  /\ ~StopTooHigh
  /\ pc' = "clamp"
  /\ UNCHANGED <<request, StartCenterFreq, StopCenterFreq, TimeNum>>

(* C++ division rounds towards zero. *)
Quotient(x, y) == IF x >= 0 THEN x \div y ELSE -((-x) \div y)

(* The first centre is clamped from below and the last from above; then         *)
(* SetSweepCXResult counts the steps.                                           *)
SetSweepCXResult ==
  /\ pc = "clamp"
  /\ StartCenterFreq' = IF StartCenterFreq < MIN_FREQ THEN MIN_FREQ ELSE StartCenterFreq
  /\ StopCenterFreq' = IF StopCenterFreq > MAX_FREQ THEN MAX_FREQ ELSE StopCenterFreq
  /\ TimeNum' = Quotient(StopCenterFreq' - StartCenterFreq', BAND_WIDTH) + 1
  /\ pc' = "planned"
  /\ UNCHANGED request

Next ==
  \/ \E sf, ef \in Frequency : Command(sf, ef)
  \/ RaiseStart \/ StartFound
  \/ LowerStop \/ StopFound
  \/ SetSweepCXResult

Spec == Init /\ [][Next]_vars

------------------------------------------------------------------------------

TypeOK ==
  /\ pc \in {"idle", "startLoop", "stopLoop", "clamp", "planned"}
  /\ StartFreq \in Int /\ StopFreq \in Int
  /\ StartCenterFreq \in Int /\ StopCenterFreq \in Int
  /\ TimeNum \in Int

Step == 0..(TimeNum - 1)
Centre(i) == StartCenterFreq + i * BAND_WIDTH
Observes(i, f) == Centre(i) - HALF_BAND_WIDTH <= f /\ f <= Centre(i) + HALF_BAND_WIDTH

Ranged == pc = "planned" /\ StartFreq < StopFreq

(* A sweep of a range has a step, its steps begin and end at the two centres    *)
(* the board was sent, and all of them lie in the board's band, wherever the    *)
(* range lies.                                                                  *)
StepsInBand ==
  Ranged =>
    /\ TimeNum >= 1
    /\ MIN_FREQ <= StartCenterFreq
    /\ Centre(TimeNum - 1) = StopCenterFreq
    /\ StopCenterFreq <= MAX_FREQ

(* Every frequency the client asked for that the board can observe at all is    *)
(* observed by a step.                                                          *)
RangeCovered ==
  Ranged =>
    \A f \in Frequency :
      (/\ StartFreq <= f /\ f <= StopFreq
       /\ MIN_FREQ - HALF_BAND_WIDTH <= f /\ f <= MAX_FREQ + HALF_BAND_WIDTH)
        => \E i \in Step : Observes(i, f)

(* No step is wasted: if the board can observe any of the range, every step     *)
(* meets the range.                                                             *)
Observable == StartFreq <= MAX_FREQ + HALF_BAND_WIDTH /\ StopFreq >= MIN_FREQ - HALF_BAND_WIDTH

NoStepWasted ==
  Ranged /\ Observable =>
    \A i \in Step : /\ Centre(i) + HALF_BAND_WIDTH >= StartFreq
                    /\ Centre(i) - HALF_BAND_WIDTH <= StopFreq
==============================================================================
