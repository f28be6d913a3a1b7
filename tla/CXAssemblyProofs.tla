-------------------------- MODULE CXAssemblyProofs ---------------------------
(***************************************************************************)
(* A packet is written only into memory that is there and meant for it, a  *)
(* channel frame never mixes moments, one that nothing came between has    *)
(* every channel, and a sweep frame that nothing came between is one pass  *)
(* of the plan: for every number of channels, every set of plans and       *)
(* resolutions, every depth of the queue.                                  *)
(*                                                                         *)
(* None of these is inductive alone.  That a channel packet has its        *)
(* place in a frame rests on the numbers the board gives its channels, all *)
(* the way through the queue (TypeOK, BoardOK); that the channels of a     *)
(* frame are of one moment on last_PackNum being the count of every slot   *)
(* that is filled (OneMoment).  That a channel frame is complete rests on  *)
(* the order of the packets all the way from the board (Chain) and on the  *)
(* next packet to arrive being the frame's next channel (Tracks).  That a  *)
(* sweep frame is one pass rests on the same order, on the steps of a plan *)
(* being whole band widths apart, and on what the next packet to arrive    *)
(* is to the frame (SweepTracks, Goes).                                    *)
(***************************************************************************)
EXTENDS CXAssembly, TLAPS

(* A frame is None or a record whose filled slots lie within its size and hold  *)
(* packets of its resolution.                                                   *)
FrameOK(f) ==
  f # None =>
    /\ f = [size |-> f.size, FreqResolution |-> f.FreqResolution, slot |-> f.slot,
            steady |-> f.steady, cut |-> f.cut]
    /\ f.slot = [j \in DOMAIN f.slot |-> f.slot[j]]
    /\ DOMAIN f.slot \subseteq 0..(f.size - 1)
    /\ \A j \in DOMAIN f.slot : f.slot[j].Resolution = f.FreqResolution

Count(p) == p.stamp - p.from
OneMoment(f) ==
  \A j \in DOMAIN f.slot : f.slot[j] \in Packet /\ Count(f.slot[j]) = last_PackNum

BoardOK ==
  /\ board.mode = "TEST_CHANNEL" => board.pos < ChNum
  /\ board.from <= board.stamp
DealOK == deal # "idle" => taken["cx"] # <<>>

IInv ==
  /\ TypeOK
  /\ BoardOK
  /\ DealOK
  /\ FrameOK(sweepRes)
  /\ FrameOK(chRes)
  /\ chRes # None => OneMoment(chRes)
  /\ ChannelFrameIsOneMoment

------------------------------------------------------------------------------
(* Frames *)

LEMMA NewFrameOK ==
  ASSUME NEW n, NEW r
  PROVE  /\ FrameOK(NewFrame(n, r))
         /\ DOMAIN NewFrame(n, r).slot = {}
BY DEF FrameOK, NewFrame

(* A packet put into a slot of a frame that has the slot.                       *)
LEMMA FillOK ==
  ASSUME NEW f, FrameOK(f), f # None, NEW p, NEW i \in 0..(f.size - 1),
         p.Resolution = f.FreqResolution
  PROVE  /\ FrameOK(Fill(f, i, p))
         /\ DOMAIN Fill(f, i, p).slot = DOMAIN f.slot \cup {i}
         /\ Fill(f, i, p).slot[i] = p
         /\ \A j \in DOMAIN f.slot : j # i => Fill(f, i, p).slot[j] = f.slot[j]
<1> DEFINE slot == [j \in DOMAIN f.slot \cup {i} |-> IF j = i THEN p ELSE f.slot[j]]
           cut == f.cut \/ (p.cut /\ i # 0)
<1>1. f = [size |-> f.size, FreqResolution |-> f.FreqResolution, slot |-> f.slot,
           steady |-> f.steady, cut |-> f.cut]
  BY DEF FrameOK
<1>2. Fill(f, i, p) = [f EXCEPT !.slot = slot, !.cut = cut]
  BY DEF Fill
<1> HIDE DEF cut
<1>3. Fill(f, i, p) = [size |-> f.size, FreqResolution |-> f.FreqResolution, slot |-> slot,
                       steady |-> f.steady, cut |-> cut]
  BY <1>1, <1>2
<1>4. /\ DOMAIN slot = DOMAIN f.slot \cup {i}
      /\ slot[i] = p
      /\ \A j \in DOMAIN f.slot : j # i => slot[j] = f.slot[j]
      /\ slot = [j \in DOMAIN slot |-> slot[j]]
  OBVIOUS
<1> HIDE DEF slot
<1>5. /\ DOMAIN slot \subseteq 0..(f.size - 1)
      /\ \A j \in DOMAIN slot : slot[j].Resolution = f.FreqResolution
  BY <1>4 DEF FrameOK
<1> QED
  BY <1>3, <1>4, <1>5 DEF FrameOK

(* What does not touch the slots.                                               *)
LEMMA UntouchedOK ==
  ASSUME NEW f, FrameOK(f), NEW p
  PROVE  /\ FrameOK(Unused(f, p)) /\ FrameOK(Unsteady(f))
         /\ Unused(f, p) # None => f # None /\ Unused(f, p).slot = f.slot
         /\ Unsteady(f) # None => f # None /\ Unsteady(f).slot = f.slot
BY DEF FrameOK, Unused, Unsteady

------------------------------------------------------------------------------
(* Each part of the system keeps the invariant. *)

LEMMA ResultOK ==
  \A plan \in Plan \cup {NoPlan}, r \in Resolution \cup {0} : Result(plan, r) \in SweepResult
BY DEF SweepResult

LEMMA InitIInv == Init => IInv
<1> SUFFICES ASSUME Init PROVE IInv
  OBVIOUS
<1> USE AssemblyAssumption DEF Init
<1>1. Result(NoPlan, 0) \in SweepResult
  BY ResultOK
<1>2. TypeOK
  BY <1>1 DEF TypeOK, Mode, Queue!Init
<1> QED
  BY <1>2 DEF IInv, BoardOK, DealOK, FrameOK, ChannelFrameIsOneMoment

LEMMA PlansOK ==
  ASSUME NEW plan \in Plan \cup {NoPlan}
  PROVE  /\ plan.StartFreq \in Int /\ plan.TimeNum \in Nat
         /\ plan.TimeNum > 1 => plan \in Plan
         /\ \A r \in Resolution : Result(plan, r) \in SweepResult
BY AssemblyAssumption DEF NoPlan, Result, SweepResult

(* The steps of a handler are steps.                                            *)
LEMMA HandlerOK ==
  ASSUME TypeOK, NEW c \in Command
  PROVE  Handler(c) \in Seq(Step)
<1>1. /\ board.mode \in Mode /\ board.plan \in Plan \cup {NoPlan}
      /\ board.Resolution \in Resolution /\ SweepCXResult \in SweepResult
  BY DEF TypeOK
<1>2. /\ "CX_SWEEP" \in Mode /\ "TEST_CHANNEL" \in Mode
      /\ NoPlan \in Plan \cup {NoPlan}
  BY DEF Mode
<1>3. \A m \in Mode, plan \in Plan \cup {NoPlan}, r \in Resolution : Send(m, plan, r) \in Step
  BY DEF Send, Step
<1>4. \A result \in SweepResult : SetSweep(result) \in Step
  BY DEF SetSweep, Step
<1>5. \A m \in Mode : SetMode(m) \in Step
  BY DEF SetMode, Step
<1>6. CASE c.op = "sweep"
  <2>1. c.plan \in Plan
    BY <1>6 DEF Command
  <2>2. /\ Send("CX_SWEEP", c.plan, board.Resolution) \in Step
        /\ SetSweep(Result(c.plan, board.Resolution)) \in Step
        /\ SetMode("CX_SWEEP") \in Step
    BY <1>1, <1>2, <1>3, <1>4, <1>5, <2>1, PlansOK
  <2>3. Handler(c) = <<Send("CX_SWEEP", c.plan, board.Resolution),
                       Send("CX_SWEEP", c.plan, board.Resolution),
                       SetSweep(Result(c.plan, board.Resolution)), SetMode("CX_SWEEP")>>
    BY <1>6 DEF Handler
  <2> QED
    BY <2>2, <2>3
<1>7. CASE c.op = "test"
  <2>1. Send("TEST_CHANNEL", NoPlan, board.Resolution) \in Step /\ SetMode("TEST_CHANNEL") \in Step
    BY <1>1, <1>2, <1>3, <1>5
  <2>2. Handler(c) = <<Send("TEST_CHANNEL", NoPlan, board.Resolution),
                       Send("TEST_CHANNEL", NoPlan, board.Resolution), SetMode("TEST_CHANNEL")>>
    BY <1>7 DEF Handler
  <2> QED
    BY <2>1, <2>2
<1>8. CASE c.op = "param"
  <2>1. c.res \in Resolution
    BY <1>8 DEF Command
  <2>2. [SweepCXResult EXCEPT !.FreqResolution = c.res] \in SweepResult
    <3>1. PICK plan \in Plan \cup {NoPlan}, r \in Resolution \cup {0} :
            SweepCXResult = Result(plan, r)
      BY <1>1 DEF SweepResult
    <3>2. [Result(plan, r) EXCEPT !.FreqResolution = c.res] = Result(plan, c.res)
      BY DEF Result
    <3> QED
      BY <2>1, <3>1, <3>2 DEF SweepResult
  <2>3. /\ Send(board.mode, board.plan, c.res) \in Step
        /\ SetSweep([SweepCXResult EXCEPT !.FreqResolution = c.res]) \in Step
        /\ [op |-> "SetTest", res |-> c.res] \in Step
    BY <1>1, <1>3, <1>4, <2>1, <2>2 DEF Step
  <2>4. Handler(c) = <<Send(board.mode, board.plan, c.res),
                       SetSweep([SweepCXResult EXCEPT !.FreqResolution = c.res]),
                       [op |-> "SetTest", res |-> c.res]>>
    BY <1>8 DEF Handler
  <2> QED
    BY <2>3, <2>4
<1> QED
  BY <1>6, <1>7, <1>8 DEF Command

LEMMA ReceiveIInv == IInv /\ Receive => IInv'
<1> SUFFICES ASSUME IInv, Receive PROVE IInv'
  OBVIOUS
<1>1. PICK c \in Command : steps' = Handler(c)
  BY DEF Receive
<1>2. steps' \in Seq(Step)
  BY <1>1, HandlerOK DEF IInv
<1>3. TypeOK'
  BY <1>2 DEF Receive, parserVars, frameVars, IInv, TypeOK
<1> QED
  BY <1>3 DEF Receive, parserVars, frameVars, IInv, BoardOK, DealOK, FrameOK, OneMoment,
              ChannelFrameIsOneMoment, SameStamp, Filled

LEMMA SendCXCmdIInv == IInv /\ SendCXCmd => IInv'
<1> SUFFICES ASSUME IInv, SendCXCmd PROVE IInv'
  OBVIOUS
<1>1. steps # <<>> /\ steps \in Seq(Step) /\ Head(steps).op = "send"
  BY DEF SendCXCmd, At, IInv, TypeOK
<1>2. Head(steps) \in Step /\ Tail(steps) \in Seq(Step)
  BY <1>1
<1>3. /\ Head(steps).mode \in Mode /\ Head(steps).plan \in Plan \cup {NoPlan}
      /\ Head(steps).Resolution \in Resolution
  BY <1>1, <1>2 DEF Step
<1> DEFINE stamp == IF board.pos = 0 THEN board.stamp ELSE board.stamp + 1
<1>6. PICK from \in {board.from, stamp} :
        board' = [mode |-> Head(steps).mode, plan |-> Head(steps).plan,
                  Resolution |-> Head(steps).Resolution, pos |-> 0,
                  stamp |-> stamp, from |-> from, cut |-> TRUE]
  BY DEF SendCXCmd
<1>7. stamp \in Nat /\ from \in Nat /\ from <= stamp
  BY DEF IInv, TypeOK, BoardOK
<1> HIDE DEF stamp
<1>4. TypeOK'
  BY <1>2, <1>3, <1>6, <1>7 DEF SendCXCmd, parserVars, frameVars, IInv, TypeOK
<1>5. BoardOK'
  BY AssemblyAssumption, <1>6, <1>7 DEF BoardOK
<1> QED
  BY <1>4, <1>5 DEF SendCXCmd, parserVars, frameVars, IInv, DealOK, FrameOK, OneMoment,
                   ChannelFrameIsOneMoment, SameStamp, Filled

LEMMA SetParserIInv == IInv /\ SetParser => IInv'
<1> SUFFICES ASSUME IInv, SetParser PROVE IInv'
  OBVIOUS
<1>1. Head(steps) \in Step /\ Tail(steps) \in Seq(Step)
  BY DEF SetParser, IInv, TypeOK
<1>2. /\ SweepCXResult' \in SweepResult /\ TestCXResult' \in Resolution \cup {0}
      /\ DataType' \in Mode
  BY <1>1 DEF SetParser, At, Step, IInv, TypeOK
<1>3. TypeOK'
  BY <1>1, <1>2 DEF SetParser, IInv, TypeOK
<1>4. /\ sweepRes' = Unsteady(sweepRes) /\ chRes' = Unsteady(chRes)
      /\ UNCHANGED <<board, taken, deal, last_PackNum, sent>>
  BY DEF SetParser
<1>5. FrameOK(Unsteady(sweepRes)) /\ FrameOK(Unsteady(chRes))
  BY UntouchedOK DEF IInv
<1>6. FrameOK(sweepRes)' /\ FrameOK(chRes)'
  BY <1>4, <1>5 DEF FrameOK
<1>7. chRes' # None => chRes # None /\ chRes'.slot = chRes.slot
  BY <1>4, UntouchedOK DEF IInv
<1>8. chRes' # None => OneMoment(chRes)'
  BY <1>4, <1>7 DEF IInv, OneMoment
<1> QED
  BY <1>3, <1>4, <1>6, <1>8 DEF IInv, BoardOK, DealOK, ChannelFrameIsOneMoment, SameStamp,
                               Filled

LEMMA NextPacketOK ==
  ASSUME TypeOK, BoardOK, board.mode # "CX_WB", board.stamp <= MaxStamp
  PROVE  NextPacket \in Packet
<1> USE AssemblyAssumption
<1>1. /\ board.mode \in {"CX_SWEEP", "TEST_CHANNEL"} /\ board.pos \in Nat
      /\ board.stamp \in 0..MaxStamp /\ board.cut \in BOOLEAN
      /\ board.from \in 0..MaxStamp /\ board.from <= board.stamp
      /\ board.Resolution \in Resolution /\ board.plan \in Plan \cup {NoPlan}
  BY DEF TypeOK, BoardOK, Mode
<1>2. (IF board.mode = "CX_SWEEP" THEN 0 ELSE board.pos + 1) \in 0..ChNum
  BY <1>1 DEF BoardOK
<1>3. board.plan.StartFreq + BAND_WIDTH * board.pos \in Int
  BY <1>1, PlansOK
<1> QED
  BY <1>1, <1>2, <1>3 DEF NextPacket, Packet

LEMMA TransmitIInv == IInv /\ Transmit => IInv'
<1> SUFFICES ASSUME IInv, Transmit PROVE IInv'
  OBVIOUS
<1> USE AssemblyAssumption
<1>1. /\ NextPacket \in Packet
  BY NextPacketOK DEF Transmit, IInv
<1>2. queue' \in Seq(Packet) /\ taken' = taken
  <2>1. queue \in Seq(Packet)
    BY DEF IInv, TypeOK
  <2>2. CASE Queue!Send(NextPacket)
    BY <1>1, <2>1, <2>2 DEF Queue!Send
  <2>3. CASE UNCHANGED <<queue, taken>>
    BY <2>1, <2>3
  <2> QED
    BY <2>2, <2>3 DEF Transmit
<1>3. Round \in Nat /\ (board.mode = "TEST_CHANNEL" => Round = ChNum)
  BY PlansOK DEF Round, IInv, TypeOK
<1>4. /\ board' \in [mode : Mode, plan : Plan \cup {NoPlan}, Resolution : Resolution,
                     pos : Nat, stamp : Nat, from : Nat, cut : BOOLEAN]
      /\ board'.mode = board.mode
      /\ board'.pos = IF board.pos + 1 < Round THEN board.pos + 1 ELSE 0
      /\ board'.from = board.from /\ board'.stamp >= board.stamp
  <2>1. board \in [mode : Mode, plan : Plan \cup {NoPlan}, Resolution : Resolution,
                   pos : Nat, stamp : Nat, from : Nat, cut : BOOLEAN]
    BY DEF IInv, TypeOK
  <2> DEFINE pos == IF board.pos + 1 < Round THEN board.pos + 1 ELSE 0
             stamp == IF board.pos + 1 < Round THEN board.stamp ELSE board.stamp + 1
             dropped == ~HasRoom
  <2>2. board' = [board EXCEPT !.pos = pos, !.stamp = stamp, !.cut = dropped]
    BY DEF Transmit, Advance
  <2>3. pos \in Nat /\ stamp \in Nat /\ dropped \in BOOLEAN
    BY <1>3, <2>1
  <2> HIDE DEF pos, stamp, dropped
  <2>4. /\ board' \in [mode : Mode, plan : Plan \cup {NoPlan}, Resolution : Resolution,
                       pos : Nat, stamp : Nat, from : Nat, cut : BOOLEAN]
        /\ board'.mode = board.mode /\ board'.pos = pos
        /\ board'.from = board.from /\ board'.stamp = stamp
    BY <2>1, <2>2, <2>3
  <2> QED
    BY <2>1, <2>4 DEF pos, stamp
<1>5. TypeOK'
  BY <1>2, <1>4 DEF Transmit, clientVars, parserVars, frameVars, IInv, TypeOK
<1>6. BoardOK'
  BY <1>3, <1>4 DEF BoardOK, IInv, TypeOK
<1> QED
  BY <1>2, <1>5, <1>6 DEF Transmit, clientVars, parserVars, frameVars, IInv, DealOK, FrameOK,
                          OneMoment, ChannelFrameIsOneMoment, SameStamp, Filled

LEMMA TakePacketIInv == IInv /\ TakePacket => IInv'
<1> SUFFICES ASSUME IInv, TakePacket PROVE IInv'
  OBVIOUS
<1>1. queue # <<>> /\ queue \in Seq(Packet) /\ queue' = Tail(queue)
      /\ taken \in [{"cx"} -> Seq(Packet)]
      /\ taken' = [taken EXCEPT !["cx"] = <<Head(queue)>>]
  BY DEF TakePacket, Queue!Receive, IInv, TypeOK
<1>2. Head(queue) \in Packet /\ queue' \in Seq(Packet)
  BY <1>1
<1>3. taken' \in [{"cx"} -> Seq(Packet)] /\ taken'["cx"] # <<>>
  BY <1>1, <1>2
<1>4. TypeOK'
  BY <1>2, <1>3 DEF TakePacket, clientVars, parserVars, IInv, TypeOK
<1> QED
  BY <1>3, <1>4 DEF TakePacket, clientVars, parserVars, IInv, BoardOK, DealOK, FrameOK,
                    OneMoment, ChannelFrameIsOneMoment

(* The count of moments does not come round, and in one count each has its own. *)
LEMMA CountIsExact ==
  ASSUME NEW p \in Packet
  PROVE  /\ Count(p) % Wrap = Count(p) /\ Count(p) \in Nat
         /\ \A q \in Packet : p.from = q.from /\ Count(p) = Count(q) => p.stamp = q.stamp
<1>1. \A q \in Packet : q.stamp \in 0..MaxStamp /\ q.from \in 0..MaxStamp /\ q.from <= q.stamp
  BY DEF Packet
<1>2. MaxStamp \in Nat /\ Wrap \in Nat \ {0} /\ MaxStamp < Wrap
  BY AssemblyAssumption
<1>3. Count(p) \in 0..MaxStamp
  BY <1>1, <1>2 DEF Count
<1>4. Count(p) % Wrap = Count(p)
  BY <1>2, <1>3
<1>5. \A q \in Packet : p.from = q.from /\ Count(p) = Count(q) => p.stamp = q.stamp
  BY <1>1, <1>2 DEF Count
<1> QED
  BY <1>3, <1>4, <1>5

(* A packet of the sweep's resolution.                                          *)
LEMMA ToSweepCXdataOK ==
  ASSUME FrameOK(sweepRes), NEW p, p.Resolution = SweepCXResult.FreqResolution,
         ToSweepCXdata(p)
  PROVE  /\ FrameOK(sweepRes)'
         /\ sent' = sent \/ sent'.kind = "sweep"
<1> DEFINE i == PackIndex(p)
           n == SweepCXResult.TimeNum
           r == SweepCXResult.FreqResolution
           res == IF i = 0 THEN NewFrame(n, r) ELSE sweepRes
<1>1. FrameOK(res)
  BY NewFrameOK
<1> HIDE DEF i, res
<1>2. CASE i \in 0..(n - 1) /\ Fits(res, n, r)
  <2>1. /\ sweepRes' = Fill(res, i, p)
        /\ sent' = IF Completes(i, n) THEN [kind |-> "sweep", head |-> SweepCXResult,
                                            frame |-> sweepRes'] ELSE sent
    BY <1>2 DEF ToSweepCXdata, i, res
  <2>2. res # None /\ res.size = n /\ res.FreqResolution = r
    BY <1>2 DEF Fits
  <2>3. FrameOK(Fill(res, i, p))
    BY <1>1, <1>2, <2>2, FillOK
  <2> QED
    BY <2>1, <2>3 DEF FrameOK
<1>3. CASE ~(i \in 0..(n - 1) /\ Fits(res, n, r))
  <2>1. sweepRes' = Unused(sweepRes, p) /\ sent' = sent
    BY <1>3 DEF ToSweepCXdata, i, res
  <2>2. FrameOK(Unused(sweepRes, p))
    BY UntouchedOK
  <2> QED
    BY <2>1, <2>2 DEF FrameOK
<1> QED
  BY <1>2, <1>3

(* A channel packet of the test's resolution.                                   *)
LEMMA ToChdataOK ==
  ASSUME FrameOK(chRes), chRes # None => OneMoment(chRes),
         NEW p \in Packet, p.DataType # 0, p.Resolution = TestCXResult,
         last_PackNum \in Nat, ToChdata(p)
  PROVE  /\ FrameOK(chRes)'
         /\ chRes' # None => OneMoment(chRes)'
         /\ last_PackNum' \in Nat
         /\ sent' = sent \/ (sent'.frame = chRes' /\ OneMoment(chRes)')
<1> USE AssemblyAssumption
<1> DEFINE ch == p.DataType - 1
           count == Count(p) % Wrap
           res == IF ch = 0 THEN NewFrame(ChNum, TestCXResult) ELSE chRes
<1>1. FrameOK(res) /\ (ch = 0 => DOMAIN res.slot = {})
  BY NewFrameOK
<1>2. ch \in 0..(ChNum - 1) /\ Count(p) \in Nat /\ count = Count(p)
  <2>1. p.DataType \in 0..ChNum /\ p.DataType # 0
    BY DEF Packet
  <2> QED
    BY <2>1, CountIsExact
<1>3. ch # 0 => res = chRes
  OBVIOUS
<1>4. CASE Fits(res, ChNum, TestCXResult) /\ OfMoment(ch, count)
  <2>1. /\ chRes' = Fill(res, ch, p)
        /\ last_PackNum' = count
        /\ sent' = IF Completes(ch, ChNum) THEN [kind |-> "channel", frame |-> chRes'] ELSE sent
    BY <1>4 DEF ToChdata, Count
  <2> HIDE DEF ch, count, res
  <2>2. res # None /\ res.size = ChNum /\ res.FreqResolution = TestCXResult
    BY <1>4 DEF Fits
  <2>3. /\ FrameOK(Fill(res, ch, p))
        /\ DOMAIN Fill(res, ch, p).slot = DOMAIN res.slot \cup {ch}
        /\ Fill(res, ch, p).slot[ch] = p
        /\ \A j \in DOMAIN res.slot : j # ch => Fill(res, ch, p).slot[j] = res.slot[j]
    BY <1>1, <1>2, <2>2, FillOK
  <2>4. \A j \in DOMAIN res.slot : res.slot[j] \in Packet /\ Count(res.slot[j]) = count
    <3>1. CASE ch = 0
      BY <1>1, <3>1
    <3>2. CASE ch # 0
      BY <1>3, <1>4, <2>2, <3>2 DEF OfMoment, OneMoment
    <3> QED
      BY <3>1, <3>2
  <2>5. \A j \in DOMAIN chRes'.slot : chRes'.slot[j] \in Packet /\ Count(chRes'.slot[j]) = count
    BY <1>2, <2>1, <2>3, <2>4
  <2>6. OneMoment(chRes)'
    BY <2>1, <2>5 DEF OneMoment, Count
  <2>7. FrameOK(chRes)'
    BY <2>1, <2>3 DEF FrameOK
  <2>8. last_PackNum' \in Nat
    BY <1>2, <2>1
  <2>9. sent' = sent \/ sent'.frame = chRes'
    BY <2>1
  <2> QED
    BY <2>6, <2>7, <2>8, <2>9
<1>5. CASE ~(Fits(res, ChNum, TestCXResult) /\ OfMoment(ch, count))
  <2>1. chRes' = Unused(chRes, p) /\ UNCHANGED <<last_PackNum, sent>>
    BY <1>5 DEF ToChdata, Count
  <2>2. /\ FrameOK(Unused(chRes, p))
        /\ Unused(chRes, p) # None => chRes # None /\ Unused(chRes, p).slot = chRes.slot
    BY UntouchedOK
  <2> QED
    BY <2>1, <2>2 DEF FrameOK, OneMoment
<1> QED
  BY <1>4, <1>5

LEMMA GetQueueDataFunIInv == IInv /\ GetQueueDataFun => IInv'
<1> SUFFICES ASSUME IInv, GetQueueDataFun PROVE IInv'
  OBVIOUS
<1> DEFINE p == Head(taken["cx"])
           sweep == deal = "CX_SWEEP" /\ p.DataType = 0
                      /\ p.Resolution = SweepCXResult.FreqResolution
           channel == deal = "TEST_CHANNEL" /\ p.DataType # 0 /\ p.Resolution = TestCXResult
<1>1. p \in Packet
  BY DEF GetQueueDataFun, IInv, TypeOK, DealOK
<1>2. /\ IF sweep THEN ToSweepCXdata(p) ELSE sweepRes' = Unused(sweepRes, p)
      /\ IF channel THEN ToChdata(p)
                    ELSE chRes' = Unused(chRes, p) /\ UNCHANGED last_PackNum
      /\ ~sweep /\ ~channel => UNCHANGED sent
      /\ ~(sweep /\ channel)
      /\ deal' = "idle"
      /\ taken' = [taken EXCEPT !["cx"] = <<>>]
      /\ UNCHANGED <<board, queue, clientVars, parserVars>>
  BY DEF GetQueueDataFun
<1>3. /\ sweep => p.Resolution = SweepCXResult.FreqResolution
      /\ channel => p.DataType # 0 /\ p.Resolution = TestCXResult
  OBVIOUS
<1>4. /\ FrameOK(sweepRes) /\ FrameOK(chRes) /\ (chRes # None => OneMoment(chRes))
      /\ last_PackNum \in Nat
  BY DEF IInv, TypeOK
<1>5. /\ FrameOK(Unused(sweepRes, p)) /\ FrameOK(Unused(chRes, p))
      /\ Unused(chRes, p) # None => chRes # None /\ Unused(chRes, p).slot = chRes.slot
  BY <1>4, UntouchedOK
<1> HIDE DEF p, sweep, channel
<1>6. FrameOK(sweepRes)' /\ (sweep => sent' = sent \/ sent'.kind = "sweep")
  <2>1. CASE sweep
    BY <1>2, <1>3, <1>4, <2>1, ToSweepCXdataOK
  <2>2. CASE ~sweep
    BY <1>2, <1>5, <2>2 DEF FrameOK
  <2> QED
    BY <2>1, <2>2
<1>7. /\ FrameOK(chRes)'
      /\ chRes' # None => OneMoment(chRes)'
      /\ last_PackNum' \in Nat
      /\ channel => sent' = sent \/ (sent'.frame = chRes' /\ OneMoment(chRes)')
  <2>1. CASE channel
    BY <1>1, <1>2, <1>3, <1>4, <2>1, ToChdataOK
  <2>2. CASE ~channel
    BY <1>2, <1>4, <1>5, <2>2 DEF FrameOK, OneMoment
  <2> QED
    BY <2>1, <2>2
<1>8. TypeOK'
  <2>1. taken' \in [{"cx"} -> Seq(Packet)]
    BY <1>2 DEF IInv, TypeOK
  <2> QED
    BY <1>2, <1>7, <2>1 DEF clientVars, parserVars, IInv, TypeOK
<1>9. ChannelFrameIsOneMoment'
  <2>1. CASE sent' = sent
    BY <2>1 DEF IInv, ChannelFrameIsOneMoment, SameStamp, Filled
  <2>2. CASE sweep /\ sent'.kind = "sweep"
    BY <2>2 DEF ChannelFrameIsOneMoment
  <2>3. CASE channel /\ sent'.frame = chRes' /\ OneMoment(chRes)'
    <3>1. \A i, j \in Filled(chRes') :
             chRes'.slot[i].from = chRes'.slot[j].from
                => chRes'.slot[i].stamp = chRes'.slot[j].stamp
      BY <2>3, CountIsExact DEF OneMoment, Filled, Count
    <3> QED
      BY <2>3, <3>1 DEF ChannelFrameIsOneMoment, Filled
  <2> QED
    BY <1>2, <1>6, <1>7, <2>1, <2>2, <2>3
<1> QED
  BY <1>2, <1>6, <1>7, <1>8, <1>9 DEF IInv, BoardOK, DealOK

LEMMA StepIInv == IInv /\ [Next]_vars => IInv'
<1>1. ASSUME IInv, UNCHANGED vars PROVE IInv'
  BY <1>1 DEF vars, clientVars, parserVars, frameVars, IInv, TypeOK, BoardOK, DealOK, FrameOK,
              OneMoment, ChannelFrameIsOneMoment, SameStamp, Filled
<1> QED
  BY <1>1, ReceiveIInv, SendCXCmdIInv, SetParserIInv, TransmitIInv, TakePacketIInv,
     GetQueueDataFunIInv DEF Next

------------------------------------------------------------------------------
(* Packets one after the other.  The packet before a packet that is not `cut` was  *)
(* the one before it on the board, and nothing was configured in between.          *)

(* The channel q comes after p.                                                    *)
Succ(p, q) ==
  \/ q.cut
  \/ p.DataType = 0
  \/ /\ q.DataType = (IF p.DataType < ChNum THEN p.DataType + 1 ELSE 1)
     /\ q.Resolution = p.Resolution
     /\ p.DataType < ChNum => q.stamp = p.stamp /\ q.from = p.from

(* A step p of a plan is a number of band widths from the first, ...               *)
IsStep(p) ==
  p.DataType = 0 => \E j \in Nat : p.CentreFreq = p.plan.StartFreq + BAND_WIDTH * j

(* ... and q, after it, the next of its pass or the first of another.              *)
SweepSucc(p, q) ==
  \/ q.cut
  \/ p.DataType # 0
  \/ /\ q.DataType = 0 /\ q.plan = p.plan /\ q.Resolution = p.Resolution
     /\ \/ /\ p.plan.TimeNum > 1
           /\ q.CentreFreq = p.CentreFreq + BAND_WIDTH
           /\ q.stamp = p.stamp
        \/ q.CentreFreq = p.plan.StartFreq

Link(p, q) == Succ(p, q) /\ IsStep(p) /\ SweepSucc(p, q)

(* The next packet to be taken, and the next DataDealCX deals with.                *)
Coming == IF queue # <<>> THEN Head(queue) ELSE NextPacket
Upcoming == IF deal # "idle" THEN Head(taken["cx"]) ELSE Coming

Chain ==
  /\ \A i \in 1..(Len(queue) - 1) : Link(queue[i], queue[i + 1])
  /\ queue # <<>> => Link(queue[Len(queue)], NextPacket)
  /\ deal # "idle" => Link(Head(taken["cx"]), Coming)

(* The first k channels of f are there, and channel k comes next.                  *)
Holds(f, k) ==
  /\ DOMAIN f.slot = 0..(k - 1)
  /\ f.slot[k - 1].DataType = k
  /\ Succ(f.slot[k - 1], Upcoming)

(* A frame nothing came between is dealt with in the mode it was begun in.         *)
Tracks(f) ==
  f # None /\ f.steady /\ ~f.cut =>
    /\ deal \in {"idle", DataType}
    /\ DataType = "TEST_CHANNEL" =>
         /\ f.size = ChNum /\ f.FreqResolution = TestCXResult
         /\ \E k \in 1..ChNum : Holds(f, k)

CInv == Chain /\ Tracks(chRes) /\ ChannelFrameIsComplete

LEMMA InitCInv == Init => CInv
<1> SUFFICES ASSUME Init PROVE CInv
  OBVIOUS
<1>1. queue = <<>> /\ deal = "idle" /\ chRes = None /\ sent = None
  BY DEF Init, Queue!Init
<1>2. Len(<<>>) - 1 = -1 /\ 1..(-1) = {}
  OBVIOUS
<1> QED
  BY <1>1, <1>2 DEF CInv, Chain, Tracks, ChannelFrameIsComplete

(* What comes next stays, or is marked as cut off.                                 *)
LEMMA TracksKept ==
  ASSUME Tracks(chRes), UNCHANGED <<chRes, DataType, TestCXResult>>,
         deal' \in {"idle", DataType} \/ deal' = deal,
         Upcoming' = Upcoming \/ Upcoming'.cut
  PROVE  Tracks(chRes)'
<1> SUFFICES ASSUME chRes # None, chRes.steady, ~chRes.cut
             PROVE  /\ deal' \in {"idle", DataType}
                    /\ DataType = "TEST_CHANNEL" =>
                         /\ chRes.size = ChNum /\ chRes.FreqResolution = TestCXResult
                         /\ \E k \in 1..ChNum : Holds(chRes, k)'
  BY DEF Tracks
<1>1. \A k \in 1..ChNum : Holds(chRes, k) => Holds(chRes, k)'
  BY DEF Holds, Succ
<1> QED
  BY <1>1 DEF Tracks

(* The packet the board makes is a step of its plan.                               *)
LEMMA NextIsStep == ASSUME IInv PROVE IsStep(NextPacket)
<1>1. board.pos \in Nat
  BY DEF IInv, TypeOK
<1>2. NextPacket.CentreFreq = NextPacket.plan.StartFreq + BAND_WIDTH * board.pos
  BY DEF NextPacket
<1> QED
  BY <1>1, <1>2, Zenon DEF IsStep

(* A configured board starts afresh.                                               *)
LEMMA SendCXCmdCInv ==
  IInv /\ CInv /\ SendCXCmd => CInv' /\ (Upcoming' = Upcoming \/ Upcoming'.cut)
<1> SUFFICES ASSUME IInv, CInv, SendCXCmd
             PROVE  CInv' /\ (Upcoming' = Upcoming \/ Upcoming'.cut)
  OBVIOUS
<1>1. /\ board'.cut = TRUE
      /\ UNCHANGED <<queue, taken, deal, DataType, TestCXResult, chRes, sent>>
  BY DEF SendCXCmd, parserVars, frameVars
<1>2. NextPacket'.cut
  BY <1>1 DEF NextPacket
<1>3. Coming' = Coming \/ Coming'.cut
  BY <1>1, <1>2 DEF Coming
<1>4. Chain'
  <2>1. \A i \in 1..(Len(queue) - 1) : Link(queue[i], queue[i + 1])
    BY DEF CInv, Chain
  <2>2. ASSUME NEW p, NEW q, NEW n, Link(p, q), n = q \/ n.cut PROVE Link(p, n)
    BY <2>2 DEF Link, Succ, SweepSucc
  <2>3. deal # "idle" => Link(Head(taken["cx"]), Coming')
    BY <1>3, <2>2 DEF CInv, Chain
  <2>4. queue # <<>> => Link(queue[Len(queue)], NextPacket')
    BY <1>2, <2>2 DEF CInv, Chain
  <2>5. (\A i \in 1..(Len(queue) - 1) : Link(queue[i], queue[i + 1]))'
    BY <1>1, <2>1 DEF Link, Succ, IsStep, SweepSucc
  <2>6. (deal # "idle" => Link(Head(taken["cx"]), Coming))'
    BY <1>1, <2>3 DEF Link, Succ, IsStep, SweepSucc
  <2>7. (queue # <<>> => Link(queue[Len(queue)], NextPacket))'
    BY <1>1, <2>4 DEF Link, Succ, IsStep, SweepSucc
  <2> QED
    BY <2>5, <2>6, <2>7 DEF Chain
<1>5. Upcoming' = Upcoming \/ Upcoming'.cut
  BY <1>1, <1>3 DEF Upcoming
<1>6. Tracks(chRes)'
  BY <1>1, <1>5, TracksKept DEF CInv
<1> QED
  BY <1>1, <1>4, <1>5, <1>6 DEF CInv, ChannelFrameIsComplete, Complete, Filled

LEMMA SetParserCInv == IInv /\ CInv /\ SetParser => CInv'
<1> SUFFICES ASSUME IInv, CInv, SetParser PROVE CInv'
  OBVIOUS
<1>1. chRes' = Unsteady(chRes) /\ UNCHANGED <<board, queue, taken, deal, sent>>
  BY DEF SetParser
<1>2. Chain'
  BY <1>1 DEF CInv, Chain, Link, Succ, IsStep, SweepSucc, Coming, NextPacket
<1>3. chRes' # None => ~chRes'.steady
  <2>1. chRes # None => chRes = [size |-> chRes.size, FreqResolution |-> chRes.FreqResolution,
                                 slot |-> chRes.slot, steady |-> chRes.steady, cut |-> chRes.cut]
    BY DEF IInv, FrameOK
  <2> QED
    BY <1>1, <2>1 DEF Unsteady
<1> QED
  BY <1>1, <1>2, <1>3 DEF CInv, Tracks, ChannelFrameIsComplete, Complete, Filled

(* The packet after this one, when this one is sent.                               *)
LEMMA NextSucc ==
  ASSUME IInv, Transmit, HasRoom
  PROVE  Link(NextPacket, NextPacket')
<1> USE AssemblyAssumption
<1>1. board \in [mode : Mode, plan : Plan \cup {NoPlan}, Resolution : Resolution,
                 pos : Nat, stamp : Nat, from : Nat, cut : BOOLEAN]
  BY DEF IInv, TypeOK
<1> DEFINE pos == IF board.pos + 1 < Round THEN board.pos + 1 ELSE 0
           stamp == IF board.pos + 1 < Round THEN board.stamp ELSE board.stamp + 1
           dropped == ~HasRoom
<1>2. board' = [board EXCEPT !.pos = pos, !.stamp = stamp, !.cut = dropped]
  BY DEF Transmit, Advance
<1> HIDE DEF pos, stamp, dropped
<1>3. /\ board'.mode = board.mode /\ board'.Resolution = board.Resolution
      /\ board'.pos = pos /\ board'.stamp = stamp /\ board'.from = board.from
  BY <1>1, <1>2
<1>4. board'.plan = board.plan
  BY <1>1, <1>2
<1>5. CASE board.mode = "CX_SWEEP"
  <2>1. Round = board.plan.TimeNum /\ Round \in Nat /\ board.pos \in Nat
    BY <1>1, <1>5, PlansOK DEF Round
  <2>2. /\ NextPacket.DataType = 0 /\ NextPacket'.DataType = 0
        /\ NextPacket.stamp = board.stamp /\ NextPacket'.stamp = stamp
        /\ NextPacket.Resolution = board.Resolution /\ NextPacket'.Resolution = board.Resolution
        /\ NextPacket.plan = board.plan /\ NextPacket'.plan = board.plan
    BY <1>3, <1>4, <1>5 DEF NextPacket
  <2>3. /\ NextPacket.CentreFreq = board.plan.StartFreq + BAND_WIDTH * board.pos
        /\ NextPacket'.CentreFreq = board.plan.StartFreq + BAND_WIDTH * pos
    BY <1>3, <1>4 DEF NextPacket
  <2>4. board.plan.StartFreq \in Int
    BY <1>1, PlansOK
  <2>5. CASE board.pos + 1 < Round
    <3>1. pos = board.pos + 1 /\ stamp = board.stamp /\ board.plan.TimeNum > 1
      BY <2>1, <2>5 DEF pos, stamp
    <3>2. NextPacket'.CentreFreq = NextPacket.CentreFreq + BAND_WIDTH
      BY <2>1, <2>3, <2>4, <3>1
    <3> QED
      BY <2>2, <3>1, <3>2, NextIsStep DEF Link, Succ, SweepSucc
  <2>6. CASE ~(board.pos + 1 < Round)
    <3>1. NextPacket'.CentreFreq = board.plan.StartFreq
      BY <2>3, <2>4, <2>6 DEF pos
    <3> QED
      BY <2>2, <3>1, NextIsStep DEF Link, Succ, SweepSucc
  <2> QED
    BY <2>5, <2>6
<1>6. CASE board.mode # "CX_SWEEP"
  <2>1. Round = ChNum /\ board.pos < ChNum /\ board.pos \in Nat
    BY <1>1, <1>6 DEF Round, IInv, BoardOK, Transmit, Mode
  <2>2. /\ NextPacket.DataType = board.pos + 1 /\ NextPacket'.DataType = pos + 1
        /\ NextPacket.stamp = board.stamp /\ NextPacket'.stamp = stamp
        /\ NextPacket'.from = NextPacket.from
        /\ NextPacket.Resolution = board.Resolution /\ NextPacket'.Resolution = board.Resolution
    BY <1>3, <1>6 DEF NextPacket
  <2>3. /\ board.pos + 1 < ChNum => pos = board.pos + 1 /\ stamp = board.stamp
        /\ ~(board.pos + 1 < ChNum) => pos = 0
    BY <2>1 DEF pos, stamp
  <2>4. (IF board.pos + 1 < ChNum THEN (board.pos + 1) + 1 ELSE 1) = pos + 1
    BY <2>1, <2>3
  <2>5. Succ(NextPacket, NextPacket')
    BY <2>2, <2>3, <2>4 DEF Succ
  <2> QED
    BY <2>1, <2>2, <2>5, NextIsStep DEF Link, SweepSucc
<1> QED
  BY <1>5, <1>6

LEMMA TransmitCInv == IInv /\ CInv /\ Transmit => CInv' /\ Upcoming' = Upcoming
<1> SUFFICES ASSUME IInv, CInv, Transmit PROVE CInv' /\ Upcoming' = Upcoming
  OBVIOUS
<1>1. UNCHANGED <<taken, deal, DataType, TestCXResult, chRes, sent>>
  BY DEF Transmit, Queue!Send, parserVars, frameVars
<1>2. queue \in Seq(Packet) /\ Len(queue) \in Nat /\ NextPacket \in Packet
  BY NextPacketOK DEF IInv, TypeOK, Transmit
<1>3. Coming' = Coming /\ Chain'
  <2>1. CASE HasRoom
    <3>1. queue' = Append(queue, NextPacket)
      BY <2>1 DEF Transmit, Queue!Send
    <3>2. /\ Len(queue') = Len(queue) + 1 /\ queue' # <<>>
          /\ queue'[Len(queue) + 1] = NextPacket
          /\ \A i \in 1..Len(queue) : queue'[i] = queue[i]
      BY <1>2, <3>1
    <3>3. Coming' = Coming
      <4>1. CASE queue = <<>>
        BY <3>1, <4>1 DEF Coming
      <4>2. CASE queue # <<>>
        <5>1. Head(queue') = Head(queue)
          BY <1>2, <3>1, <4>2
        <5> QED
          BY <3>2, <4>2, <5>1 DEF Coming
      <4> QED
        BY <4>1, <4>2
    <3>4. ASSUME NEW i \in 1..(Len(queue') - 1) PROVE Link(queue'[i], queue'[i + 1])
      <4>1. i \in 1..Len(queue) /\ queue'[i] = queue[i]
        BY <1>2, <3>2
      <4>2. CASE i = Len(queue)
        <5>1. queue # <<>>
          BY <1>2, <4>1
        <5> QED
          BY <3>2, <4>1, <4>2, <5>1 DEF CInv, Chain
      <4>3. CASE i # Len(queue)
        <5>1. i + 1 \in 1..Len(queue) /\ i \in 1..(Len(queue) - 1)
          BY <1>2, <4>1, <4>3
        <5> QED
          BY <3>2, <4>1, <5>1 DEF CInv, Chain
      <4> QED
        BY <4>2, <4>3
    <3>5. Link(queue'[Len(queue')], NextPacket')
      BY <2>1, <3>2, NextSucc
    <3>6. deal' # "idle" => Link(Head(taken'["cx"]), Coming')
      BY <1>1, <3>3 DEF CInv, Chain
    <3> QED
      BY <3>3, <3>4, <3>5, <3>6 DEF Chain, Link, Succ, IsStep, SweepSucc
  <2>2. CASE ~HasRoom
    <3>1. queue' = queue /\ NextPacket'.cut
      <4>1. board'.cut
        <5>1. board \in [mode : Mode, plan : Plan \cup {NoPlan}, Resolution : Resolution,
                         pos : Nat, stamp : Nat, from : Nat, cut : BOOLEAN]
          BY DEF IInv, TypeOK
        <5> QED
          BY <2>2, <5>1 DEF Transmit, Advance
      <4> QED
        BY <2>2, <4>1 DEF Transmit, Queue!Send, HasRoom, NextPacket
    <3>2. queue # <<>>
      <4>1. Len(queue) > 0
        BY <1>2, <2>2, AssemblyAssumption DEF HasRoom
      <4> QED
        BY <4>1
    <3>3. Coming' = Coming
      BY <3>1, <3>2 DEF Coming
    <3>4. Link(queue'[Len(queue')], NextPacket')
      BY <3>1, <3>2 DEF CInv, Chain, Link, Succ, SweepSucc
    <3> QED
      BY <1>1, <3>1, <3>3, <3>4 DEF CInv, Chain, Link, Succ, IsStep, SweepSucc
  <2> QED
    BY <2>1, <2>2
<1>4. Upcoming' = Upcoming
  BY <1>1, <1>3 DEF Upcoming
<1>5. Tracks(chRes)'
  BY <1>1, <1>4, TracksKept DEF CInv
<1> QED
  BY <1>1, <1>3, <1>4, <1>5 DEF CInv, ChannelFrameIsComplete, Complete, Filled

LEMMA TakePacketCInv == IInv /\ CInv /\ TakePacket => CInv' /\ Upcoming' = Upcoming
<1> SUFFICES ASSUME IInv, CInv, TakePacket PROVE CInv' /\ Upcoming' = Upcoming
  OBVIOUS
<1>1. /\ deal = "idle" /\ queue # <<>> /\ queue' = Tail(queue)
      /\ taken' = [taken EXCEPT !["cx"] = <<Head(queue)>>]
      /\ deal' = DataType /\ sent' = None
      /\ UNCHANGED <<board, DataType, TestCXResult, chRes>>
  BY DEF TakePacket, Queue!Receive, parserVars
<1>2. /\ queue \in Seq(Packet) /\ taken \in [{"cx"} -> Seq(Packet)] /\ DataType \in Mode
      /\ Len(queue) \in Nat
  BY DEF IInv, TypeOK
<1>3. Head(taken'["cx"]) = Head(queue) /\ deal' # "idle"
  BY <1>1, <1>2 DEF Mode
<1>4. Upcoming' = Upcoming
  BY <1>1, <1>3 DEF Upcoming, Coming
<1>5. NextPacket' = NextPacket
  BY <1>1 DEF NextPacket
<1>6. /\ Len(queue') = Len(queue) - 1 /\ Len(queue) > 0 /\ Head(queue) = queue[1]
      /\ queue' \in Seq(Packet)
      /\ \A i \in 1..Len(queue') : queue'[i] = queue[i + 1]
  BY <1>1, <1>2
<1>7. Link(Head(queue), Coming')
  <2>1. CASE queue' = <<>>
    <3> DEFINE n == Len(queue)
    <3>0. n \in Nat /\ n - 1 = 0
      <4>1. Len(queue') = 0
        BY <2>1
      <4> QED
        BY <1>2, <1>6, <4>1, Zenon
    <3>1. Len(queue) = 1
      <4> HIDE DEF n
      <4>1. n = 1
        BY <3>0
      <4> QED
        BY <4>1 DEF n
    <3> QED
      BY <1>1, <1>5, <1>6, <2>1, <3>1 DEF CInv, Chain, Coming
  <2>2. CASE queue' # <<>>
    <3>1. Len(queue') > 0 /\ Head(queue') = queue'[1]
      BY <1>6, <2>2
    <3>2. queue'[1] = queue[1 + 1] /\ 1 \in 1..(Len(queue) - 1)
      BY <1>2, <1>6, <3>1
    <3> QED
      BY <1>6, <2>2, <3>1, <3>2 DEF CInv, Chain, Coming
  <2> QED
    BY <2>1, <2>2
<1>8. ASSUME NEW i \in 1..(Len(queue') - 1) PROVE Link(queue'[i], queue'[i + 1])
  <2>1. /\ queue'[i] = queue[i + 1] /\ queue'[i + 1] = queue[(i + 1) + 1]
        /\ i + 1 \in 1..(Len(queue) - 1)
    BY <1>2, <1>6
  <2> QED
    BY <2>1 DEF CInv, Chain
<1>9. queue' # <<>> => Link(queue'[Len(queue')], NextPacket)
  <2> SUFFICES ASSUME queue' # <<>> PROVE Link(queue'[Len(queue')], NextPacket)
    OBVIOUS
  <2>1. Len(queue') > 0
    BY <1>6
  <2>2. queue'[Len(queue')] = queue[Len(queue)]
    BY <1>2, <1>6, <2>1
  <2> QED
    BY <1>1, <2>2 DEF CInv, Chain
<1>10. Chain'
  BY <1>3, <1>5, <1>7, <1>8, <1>9 DEF Chain, Link, Succ, IsStep, SweepSucc
<1>11. Tracks(chRes)'
  BY <1>1, <1>4, TracksKept DEF CInv
<1> QED
  BY <1>1, <1>4, <1>10, <1>11 DEF CInv, ChannelFrameIsComplete

(* A new channel frame is a frame, and of the size asked for.                   *)
LEMMA NewFrameFits ==
  ASSUME TypeOK
  PROVE  Fits(NewFrame(ChNum, TestCXResult), ChNum, TestCXResult)
<1>1. NewFrame(ChNum, TestCXResult) \in
        [size : Nat, FreqResolution : Resolution \cup {0}, slot : {<<>>},
         steady : BOOLEAN, cut : BOOLEAN]
  BY AssemblyAssumption DEF NewFrame, TypeOK
<1> QED
  BY <1>1, AssemblyAssumption DEF Fits, NewFrame

(* The fields of a frame that is written to, and of one that is not.            *)
LEMMA FillFields ==
  ASSUME NEW f, FrameOK(f), f # None, NEW p, NEW i
  PROVE  /\ Fill(f, i, p).size = f.size
         /\ Fill(f, i, p).FreqResolution = f.FreqResolution
         /\ Fill(f, i, p).steady = f.steady
         /\ ~Fill(f, i, p).cut => ~f.cut /\ (i # 0 => ~p.cut)
<1> DEFINE slot == [j \in DOMAIN f.slot \cup {i} |-> IF j = i THEN p ELSE f.slot[j]]
           cut == f.cut \/ (p.cut /\ i # 0)
<1>1. f = [size |-> f.size, FreqResolution |-> f.FreqResolution, slot |-> f.slot,
           steady |-> f.steady, cut |-> f.cut]
  BY DEF FrameOK
<1>2. Fill(f, i, p) = [f EXCEPT !.slot = slot, !.cut = cut]
  BY DEF Fill
<1>3. ~cut => ~f.cut /\ (i # 0 => ~p.cut)
  OBVIOUS
<1> HIDE DEF cut, slot
<1>4. Fill(f, i, p) = [size |-> f.size, FreqResolution |-> f.FreqResolution, slot |-> slot,
                       steady |-> f.steady, cut |-> cut]
  BY <1>1, <1>2
<1> QED
  BY <1>3, <1>4

LEMMA UnusedFields ==
  ASSUME NEW f, FrameOK(f), NEW p, Unused(f, p) # None
  PROVE  /\ f # None
         /\ Unused(f, p).size = f.size
         /\ Unused(f, p).FreqResolution = f.FreqResolution
         /\ Unused(f, p).slot = f.slot
         /\ Unused(f, p).steady = f.steady
         /\ ~Unused(f, p).cut => ~f.cut /\ ~p.cut
<1> DEFINE cut == f.cut \/ p.cut
<1>1. f # None /\ Unused(f, p) = [f EXCEPT !.cut = cut]
  BY DEF Unused
<1>2. f = [size |-> f.size, FreqResolution |-> f.FreqResolution, slot |-> f.slot,
           steady |-> f.steady, cut |-> f.cut]
  BY <1>1 DEF FrameOK
<1>3. ~cut => ~f.cut /\ ~p.cut
  OBVIOUS
<1> HIDE DEF cut
<1>4. Unused(f, p) = [size |-> f.size, FreqResolution |-> f.FreqResolution, slot |-> f.slot,
                      steady |-> f.steady, cut |-> cut]
  BY <1>1, <1>2
<1> QED
  BY <1>1, <1>3, <1>4

(* What DataDealCX has in hand goes on with a frame nothing came between.       *)
LEMMA Continues ==
  ASSUME IInv, CInv, deal # "idle", chRes # None, chRes.steady, ~chRes.cut,
         ~Head(taken["cx"]).cut, DataType = "TEST_CHANNEL"
  PROVE  /\ deal = "TEST_CHANNEL"
         /\ chRes.size = ChNum /\ chRes.FreqResolution = TestCXResult
         /\ Head(taken["cx"]).Resolution = TestCXResult
         /\ \E k \in 1..ChNum :
              /\ DOMAIN chRes.slot = 0..(k - 1)
              /\ Head(taken["cx"]).DataType = (IF k < ChNum THEN k + 1 ELSE 1)
              /\ k < ChNum => Count(Head(taken["cx"])) = last_PackNum
<1> USE AssemblyAssumption
<1>1. /\ deal \in {"idle", DataType}
      /\ chRes.size = ChNum /\ chRes.FreqResolution = TestCXResult
  BY DEF CInv, Tracks
<1>2. PICK k \in 1..ChNum : Holds(chRes, k)
  BY DEF CInv, Tracks
<1> DEFINE p == Head(taken["cx"])
           last == chRes.slot[k - 1]
<1>3. DOMAIN chRes.slot = 0..(k - 1) /\ last.DataType = k /\ Succ(last, p)
  BY <1>2 DEF Holds, Upcoming
<1>4. k - 1 \in DOMAIN chRes.slot
  BY <1>3
<1>5. last.Resolution = TestCXResult /\ Count(last) = last_PackNum
  BY <1>1, <1>4 DEF IInv, FrameOK, OneMoment
<1> HIDE DEF p, last
<1>6. ~p.cut
  BY DEF p
<1>7. /\ p.DataType = (IF k < ChNum THEN k + 1 ELSE 1)
      /\ p.Resolution = last.Resolution
      /\ k < ChNum => Count(p) = Count(last)
  BY <1>3, <1>6 DEF Succ, Count
<1> QED
  BY <1>1, <1>3, <1>5, <1>7 DEF p

(* A packet for the channel frame, of which nothing was missed.                 *)
LEMMA ToChdataTracks ==
  ASSUME IInv, CInv, deal = "TEST_CHANNEL", Head(taken["cx"]) \in Packet,
         Head(taken["cx"]).DataType # 0, Head(taken["cx"]).Resolution = TestCXResult,
         ToChdata(Head(taken["cx"])), UNCHANGED <<DataType, TestCXResult>>, deal' = "idle",
         Succ(Head(taken["cx"]), Upcoming')
  PROVE  Tracks(chRes)' /\ ChannelFrameIsComplete'
<1> USE AssemblyAssumption
<1> DEFINE p == Head(taken["cx"])
           ch == p.DataType - 1
           count == Count(p) % Wrap
           res == IF ch = 0 THEN NewFrame(ChNum, TestCXResult) ELSE chRes
<1>1. ch \in 0..(ChNum - 1) /\ p.DataType = ch + 1 /\ count = Count(p)
  <2>1. p.DataType \in 0..ChNum /\ p.DataType # 0
    BY DEF Packet
  <2>2. Count(p) % Wrap = Count(p)
    BY CountIsExact
  <2> HIDE DEF p
  <2> QED
    BY <2>1, <2>2
<1>2. CASE Fits(res, ChNum, TestCXResult) /\ OfMoment(ch, count)
  <2>1. /\ chRes' = Fill(res, ch, p)
        /\ sent' = IF Completes(ch, ChNum) THEN [kind |-> "channel", frame |-> chRes'] ELSE sent
    BY <1>2 DEF ToChdata, Count
  <2>2. FrameOK(res) /\ (ch = 0 => DOMAIN res.slot = {}) /\ (ch # 0 => res = chRes)
    BY NewFrameOK DEF IInv
  <2>3. p.Resolution = TestCXResult /\ Succ(p, Upcoming') /\ deal = "TEST_CHANNEL"
    OBVIOUS
  <2>4. ASSUME chRes # None, chRes.steady, ~chRes.cut, ~p.cut, ch # 0
        PROVE  DOMAIN chRes.slot = 0..(ch - 1)
    <3>1. DataType = "TEST_CHANNEL"
      BY <2>4 DEF CInv, Tracks
    <3>2. PICK k \in 1..ChNum : /\ DOMAIN chRes.slot = 0..(k - 1)
                                /\ p.DataType = (IF k < ChNum THEN k + 1 ELSE 1)
      BY <2>4, <3>1, Continues
    <3>3. k = ch
      BY <1>1, <2>4, <3>2
    <3> QED
      BY <3>2, <3>3
  <2> HIDE DEF p, ch, count, res
  <2>5. res # None /\ res.size = ChNum /\ res.FreqResolution = TestCXResult
    BY <1>2 DEF Fits
  <2>6. /\ DOMAIN chRes'.slot = DOMAIN res.slot \cup {ch}
        /\ chRes'.slot[ch] = p
    BY <1>1, <2>1, <2>2, <2>3, <2>5, FillOK
  <2>7. /\ chRes'.size = ChNum /\ chRes'.FreqResolution = TestCXResult
        /\ chRes'.steady = res.steady
        /\ ~chRes'.cut => ~res.cut /\ (ch # 0 => ~p.cut)
    BY <2>1, <2>2, <2>5, FillFields
  <2>8. ASSUME chRes'.steady, ~chRes'.cut PROVE DOMAIN chRes'.slot = 0..ch
    <3>1. CASE ch = 0
      BY <2>2, <2>6, <3>1
    <3>2. CASE ch # 0
      <4>1. DOMAIN chRes.slot = 0..(ch - 1)
        BY <2>2, <2>4, <2>5, <2>7, <2>8, <3>2
      <4>2. (0..(ch - 1)) \cup {ch} = 0..ch
        BY <1>1
      <4> QED
        BY <2>2, <2>6, <3>2, <4>1, <4>2
    <3> QED
      BY <3>1, <3>2
  <2>9. Tracks(chRes)'
    <3>1. ASSUME chRes'.steady, ~chRes'.cut PROVE \E k \in 1..ChNum : Holds(chRes, k)'
      <4>1. ch + 1 \in 1..ChNum /\ (ch + 1) - 1 = ch
        BY <1>1
      <4>2. DOMAIN chRes'.slot = 0..((ch + 1) - 1) /\ chRes'.slot[(ch + 1) - 1] = p
        BY <2>6, <2>8, <3>1, <4>1
      <4>3. \E k \in 1..ChNum : /\ DOMAIN chRes'.slot = 0..(k - 1)
                                /\ chRes'.slot[k - 1].DataType = k
                                /\ Succ(chRes'.slot[k - 1], Upcoming')
        BY <1>1, <2>3, <4>1, <4>2, Zenon
      <4> QED
        BY <4>3 DEF Holds, Succ
    <3> QED
      BY <2>7, <3>1 DEF Tracks
  <2>10. ChannelFrameIsComplete'
    <3>1. CASE Completes(ch, ChNum)
      <4>1. sent' = [kind |-> "channel", frame |-> chRes'] /\ ch = ChNum - 1
        BY <2>1, <3>1 DEF Completes
      <4> QED
        BY <2>7, <2>8, <4>1 DEF ChannelFrameIsComplete, Complete, Filled
    <3>2. CASE ~Completes(ch, ChNum)
      BY <2>1, <3>2 DEF CInv, ChannelFrameIsComplete, Complete, Filled
    <3> QED
      BY <3>1, <3>2
  <2> QED
    BY <2>9, <2>10
<1>3. CASE ~(Fits(res, ChNum, TestCXResult) /\ OfMoment(ch, count))
  <2>1. chRes' = Unused(chRes, p) /\ sent' = sent
    BY <1>3 DEF ToChdata, Count
  <2>2. ASSUME chRes' # None, chRes'.steady, ~chRes'.cut PROVE FALSE
    <3>1. chRes # None /\ chRes.steady /\ ~chRes.cut /\ ~p.cut
      BY <2>1, <2>2, UnusedFields DEF IInv
    <3>2. DataType = "TEST_CHANNEL"
      BY <3>1 DEF CInv, Tracks
    <3>3. chRes.size = ChNum /\ chRes.FreqResolution = TestCXResult
      BY <3>1, <3>2, Continues
    <3>4. PICK k \in 1..ChNum : /\ p.DataType = (IF k < ChNum THEN k + 1 ELSE 1)
                                /\ k < ChNum => Count(p) = last_PackNum
      BY <3>1, <3>2, Continues
    <3>5. CASE ch = 0
      <4>1. Fits(NewFrame(ChNum, TestCXResult), ChNum, TestCXResult)
        BY NewFrameFits DEF IInv
      <4> QED
        BY <1>3, <3>5, <4>1 DEF OfMoment
    <3>6. CASE ch # 0
      <4>1. Count(p) = last_PackNum
        BY <1>1, <3>4, <3>6
      <4> QED
        BY <1>1, <1>3, <3>1, <3>3, <3>6, <4>1 DEF Fits, OfMoment
    <3> QED
      BY <3>5, <3>6
  <2> QED
    BY <2>1, <2>2 DEF Tracks, CInv, ChannelFrameIsComplete, Complete, Filled
<1> QED
  BY <1>2, <1>3

LEMMA GetQueueDataFunCInv == IInv /\ CInv /\ GetQueueDataFun => CInv'
<1> SUFFICES ASSUME IInv, CInv, GetQueueDataFun PROVE CInv'
  OBVIOUS
<1> DEFINE p == Head(taken["cx"])
           sweep == deal = "CX_SWEEP" /\ p.DataType = 0
                      /\ p.Resolution = SweepCXResult.FreqResolution
           channel == deal = "TEST_CHANNEL" /\ p.DataType # 0 /\ p.Resolution = TestCXResult
<1>1. p \in Packet
  BY DEF GetQueueDataFun, IInv, TypeOK, DealOK
<1>2. /\ IF sweep THEN ToSweepCXdata(p) ELSE sweepRes' = Unused(sweepRes, p)
      /\ IF channel THEN ToChdata(p)
                    ELSE chRes' = Unused(chRes, p) /\ UNCHANGED last_PackNum
      /\ ~sweep /\ ~channel => UNCHANGED sent
      /\ deal # "idle" /\ deal' = "idle"
      /\ UNCHANGED <<board, queue, DataType, TestCXResult>>
  BY DEF GetQueueDataFun, parserVars
<1>3. Upcoming' = Coming /\ Coming' = Coming /\ NextPacket' = NextPacket
  BY <1>2 DEF Upcoming, Coming, NextPacket
<1>4. Succ(p, Upcoming')
  BY <1>2, <1>3 DEF CInv, Chain, Link
<1>5. Chain'
  BY <1>2, <1>3 DEF CInv, Chain, Link, Succ, IsStep, SweepSucc
<1>6. CASE channel
  <2>1. Tracks(chRes)' /\ ChannelFrameIsComplete'
    BY <1>1, <1>2, <1>4, <1>6, ToChdataTracks
  <2> QED
    BY <1>5, <2>1 DEF CInv
<1>7. CASE ~channel
  <2>1. chRes' = Unused(chRes, p)
    BY <1>2, <1>7
  <2>2. Tracks(chRes)'
    <3>1. ASSUME chRes' # None, chRes'.steady, ~chRes'.cut, DataType = "TEST_CHANNEL"
          PROVE  FALSE
      <4>1. chRes # None /\ chRes.steady /\ ~chRes.cut /\ ~p.cut
        BY <2>1, <3>1, UnusedFields DEF IInv
      <4>2. /\ deal = "TEST_CHANNEL" /\ p.Resolution = TestCXResult
            /\ \E k \in 1..ChNum : p.DataType = (IF k < ChNum THEN k + 1 ELSE 1)
        BY <1>2, <3>1, <4>1, Continues
      <4>3. p.DataType # 0
        BY <4>2, AssemblyAssumption
      <4> QED
        BY <1>7, <4>2, <4>3
    <3> QED
      BY <1>2, <3>1 DEF Tracks
  <2>3. ChannelFrameIsComplete'
    <3>1. CASE ~sweep
      BY <1>2, <1>7, <3>1 DEF CInv, ChannelFrameIsComplete, Complete, Filled
    <3>2. CASE sweep
      <4>1. sent' = sent \/ sent'.kind = "sweep"
        BY <1>2, <3>2, ToSweepCXdataOK DEF IInv
      <4> QED
        BY <4>1 DEF CInv, ChannelFrameIsComplete, Complete, Filled
    <3> QED
      BY <3>1, <3>2
  <2> QED
    BY <1>5, <2>2, <2>3 DEF CInv
<1> QED
  BY <1>6, <1>7

LEMMA StepCInv == IInv /\ CInv /\ [Next]_vars => CInv'
<1>1. ASSUME CInv, UNCHANGED <<board, queue, taken, deal, DataType, TestCXResult, chRes, sent>>
      PROVE  CInv'
  <2>1. NextPacket' = NextPacket /\ Coming' = Coming /\ Upcoming' = Upcoming
    BY <1>1 DEF NextPacket, Coming, Upcoming
  <2>2. Chain'
    BY <1>1, <2>1 DEF CInv, Chain, Link, Succ, IsStep, SweepSucc
  <2>3. Tracks(chRes)'
    BY <1>1, <2>1, TracksKept DEF CInv
  <2> QED
    BY <1>1, <2>2, <2>3 DEF CInv, ChannelFrameIsComplete, Complete, Filled
<1>2. ASSUME CInv, Receive PROVE CInv'
  BY <1>1, <1>2 DEF Receive, parserVars, frameVars
<1>3. ASSUME CInv, UNCHANGED vars PROVE CInv'
  BY <1>1, <1>3 DEF vars, parserVars, frameVars
<1> QED
  BY <1>2, <1>3, SendCXCmdCInv, SetParserCInv, TransmitCInv, TakePacketCInv,
     GetQueueDataFunCInv DEF Next

------------------------------------------------------------------------------
(* Steps one after the other.  A frame nothing came between holds the first k      *)
(* steps of a pass, and what comes next is the step after them, or belongs to no   *)
(* later place of the frame: the packets that follow it go past its end, or begin  *)
(* the next pass, which begins the next frame.                                     *)

(* C++ division of a difference of frequencies.                                    *)
LEMMA Rounding ==
  ASSUME NEW d \in Int, NEW b \in Nat \ {0}
  PROVE  LET i == IF d >= 0 THEN d \div b ELSE -((-d) \div b)
         IN  /\ i \in Int
             /\ i = 0 => -b < d /\ d < b
             /\ i < 0 => d <= -b
             /\ d < b => i <= 0
             /\ \A n \in Nat : (d >= n * b => i >= n) /\ (d = n * b => i = n)
<1>1. ASSUME NEW e \in Nat
      PROVE  /\ e \div b \in Nat
             /\ b * (e \div b) <= e /\ e < b * (e \div b) + b
  OBVIOUS
<1>2. ASSUME NEW m \in Nat, NEW n \in Nat, m < n
      PROVE  b * m + b <= n * b
  <2>1. n * b = b * m + b * (n - m) /\ b * (n - m) >= b * 1
    <3>1. n - m \in Nat /\ n - m >= 1
      BY <1>2
    <3> QED
      BY <3>1
  <2> QED
    BY <2>1
<1> DEFINE i == IF d >= 0 THEN d \div b ELSE -((-d) \div b)
<1>3. CASE d >= 0
  <2> DEFINE m == d \div b
  <2>1. m \in Nat /\ b * m <= d /\ d < b * m + b /\ i = m
    BY <1>1, <1>3
  <2> HIDE DEF m, i
  <2>2. m > 0 => b <= b * m
    BY <2>1, <1>2
  <2>3. ASSUME NEW n \in Nat PROVE (d >= n * b => m >= n) /\ (d = n * b => m = n)
    <3>1. m < n => d < n * b
      BY <1>2, <2>1
    <3>2. n < m => n * b + b <= b * m
      BY <1>2, <2>1
    <3> QED
      BY <2>1, <3>1, <3>2
  <2>4. m = 0 => b * m = 0
    BY <2>1
  <2>5. /\ i \in Int
        /\ i = 0 => -b < d /\ d < b
        /\ i < 0 => d <= -b
        /\ d < b => i <= 0
    BY <2>1, <2>2, <2>4, <1>3
  <2> QED
    BY <2>1, <2>3, <2>5 DEF i
<1>4. CASE d < 0
  <2> DEFINE m == (-d) \div b
  <2>1. -d \in Nat /\ ~(d >= 0)
    BY <1>4
  <2>2. m \in Nat /\ b * m <= -d /\ -d < b * m + b /\ i = -m
    BY <1>1, <2>1
  <2> HIDE DEF m, i
  <2>3. m > 0 => b <= b * m
    BY <2>2, <1>2
  <2>4. ASSUME NEW n \in Nat PROVE n * b >= 0
    BY <2>4
  <2>5. m = 0 => b * m = 0
    BY <2>2
  <2>6. /\ i \in Int
        /\ i = 0 => -b < d /\ d < b
        /\ i < 0 => d <= -b
        /\ d < b => i <= 0
    BY <2>2, <2>3, <2>5, <1>4
  <2>7. \A n \in Nat : (d >= n * b => i >= n) /\ (d = n * b => i = n)
    BY <1>4, <2>4
  <2> QED
    BY <2>6, <2>7 DEF i
<1> QED
  BY <1>3, <1>4

(* Two ranges of more than one step: a step of one less than a band width from     *)
(* the first step of the other is that first step.                                 *)
LEMMA Aligned ==
  ASSUME NEW a \in Plan, NEW c \in Plan, a.TimeNum > 1, c.TimeNum > 1, NEW j \in Nat,
         NEW f, f = c.StartFreq + BAND_WIDTH * j,
         f - a.StartFreq < BAND_WIDTH, -BAND_WIDTH < f - a.StartFreq
  PROVE  f = a.StartFreq
<1> DEFINE d == c.StartFreq - a.StartFreq
           q == d \div BAND_WIDTH
<1>1. a.StartFreq \in Int /\ c.StartFreq \in Int /\ BAND_WIDTH \in Nat \ {0}
  BY AssemblyAssumption
<1>2. d % BAND_WIDTH = 0 /\ d \in Int
  BY <1>1, GridAssumption
<1>3. f - a.StartFreq = d + BAND_WIDTH * j
  BY <1>1
<1>4. d = BAND_WIDTH * q /\ q \in Int
  <2> HIDE DEF d
  <2> QED
    BY <1>1, <1>2
<1> DEFINE k == q + j
<1>5. f - a.StartFreq = BAND_WIDTH * k /\ k \in Int
  <2> HIDE DEF d, q
  <2> QED
    BY <1>1, <1>3, <1>4
<1>6. f \in Int
  BY <1>1
<1> HIDE DEF d, q, k
<1>7. k >= 1 => BAND_WIDTH * k >= BAND_WIDTH
  BY <1>1, <1>5
<1>8. k <= -1 => BAND_WIDTH * k <= -BAND_WIDTH
  <2>1. ASSUME k <= -1 PROVE BAND_WIDTH * (-k) >= BAND_WIDTH /\ BAND_WIDTH * (-k) = -(BAND_WIDTH * k)
    BY <1>1, <1>5, <2>1
  <2> QED
    BY <1>1, <1>5, <2>1
<1>9. k = 0
  BY <1>1, <1>5, <1>7, <1>8
<1> QED
  BY <1>1, <1>5, <1>6, <1>9

(* u goes on with a frame of k steps whose first is `first`: as its next step, or  *)
(* before the second place of the frame, or after the last.                        *)
Goes(first, k, u) ==
  \/ u.cut
  \/ /\ u.DataType = 0 /\ u.plan = first.plan
     /\ u.Resolution = SweepCXResult.FreqResolution
     /\ \/ /\ k < SweepCXResult.TimeNum
           /\ first.CentreFreq = SweepCXResult.StartFreq
           /\ u.CentreFreq = SweepCXResult.StartFreq + k * BAND_WIDTH
           /\ u.stamp = first.stamp
        \/ u.CentreFreq < SweepCXResult.StartFreq + BAND_WIDTH
        \/ u.CentreFreq >= SweepCXResult.StartFreq + SweepCXResult.TimeNum * BAND_WIDTH

(* A first step that packIndex puts in place 0.                                    *)
Opens(first) ==
  /\ first \in Packet
  /\ first.plan.StartFreq <= first.CentreFreq
  /\ -BAND_WIDTH < first.CentreFreq - SweepCXResult.StartFreq
  /\ first.CentreFreq - SweepCXResult.StartFreq < BAND_WIDTH

(* The slots are k steps of one pass, each in its place.                           *)
OnePass(slot, k) ==
  /\ DOMAIN slot = 0..(k - 1)
  /\ Opens(slot[0])
  /\ k > 1 => slot[0].CentreFreq = SweepCXResult.StartFreq
  /\ \A j \in 0..(k - 1) :
       /\ slot[j].stamp = slot[0].stamp
       /\ slot[j].CentreFreq = slot[0].CentreFreq + j * BAND_WIDTH

SweepTracks(f) ==
  f # None /\ f.steady /\ ~f.cut =>
    /\ deal \in {"idle", DataType}
    /\ DataType = "CX_SWEEP" =>
         /\ f.size = SweepCXResult.TimeNum
         /\ f.FreqResolution = SweepCXResult.FreqResolution
         /\ \E k \in 1..SweepCXResult.TimeNum :
              OnePass(f.slot, k) /\ Goes(f.slot[0], k, Upcoming)

SInv == SweepTracks(sweepRes) /\ SweepFrameIsOnePass

(* The parser's plan is one a client asked for, or none.                           *)
LEMMA ParserPlan ==
  ASSUME TypeOK
  PROVE  /\ SweepCXResult.StartFreq \in Int /\ SweepCXResult.TimeNum \in Nat
         /\ SweepCXResult.FreqResolution \in Resolution \cup {0}
         /\ SweepCXResult.TimeNum > 1 =>
              \E plan \in Plan : /\ plan.TimeNum = SweepCXResult.TimeNum
                                 /\ plan.StartFreq = SweepCXResult.StartFreq
<1>1. PICK plan \in Plan \cup {NoPlan}, r \in Resolution \cup {0} :
        SweepCXResult = Result(plan, r)
  BY DEF TypeOK, SweepResult
<1>2. /\ SweepCXResult.StartFreq = plan.StartFreq /\ SweepCXResult.TimeNum = plan.TimeNum
      /\ SweepCXResult.FreqResolution = r
  BY <1>1 DEF Result
<1> QED
  BY <1>2, PlansOK

(* The packet after one that went on with the frame goes on with it too.           *)
LEMMA GoesOn ==
  ASSUME TypeOK, NEW first, Opens(first), NEW k \in 1..SweepCXResult.TimeNum,
         NEW p \in Packet, NEW q, SweepSucc(p, q), IsStep(p), ~q.cut,
         p.DataType = 0, p.Resolution = SweepCXResult.FreqResolution, p.plan = first.plan,
         \/ /\ p.CentreFreq = first.CentreFreq + (k - 1) * BAND_WIDTH
            /\ p.stamp = first.stamp
            /\ k > 1 => first.CentreFreq = SweepCXResult.StartFreq
         \/ p.CentreFreq <= SweepCXResult.StartFreq - BAND_WIDTH
         \/ p.CentreFreq >= SweepCXResult.StartFreq + SweepCXResult.TimeNum * BAND_WIDTH
  PROVE  Goes(first, k, q)
<1> DEFINE S == SweepCXResult.StartFreq
           n == SweepCXResult.TimeNum
<1>1. /\ S \in Int /\ n \in Nat /\ k \in 1..n /\ BAND_WIDTH \in Nat \ {0}
      /\ p.CentreFreq \in Int /\ first.CentreFreq \in Int
      /\ first.plan \in Plan \cup {NoPlan} /\ first.plan.StartFreq \in Int
  BY ParserPlan, PlansOK, AssemblyAssumption DEF Opens, Packet
<1>2. /\ q.DataType = 0 /\ q.plan = first.plan
      /\ q.Resolution = SweepCXResult.FreqResolution
      /\ \/ /\ p.plan.TimeNum > 1
            /\ q.CentreFreq = p.CentreFreq + BAND_WIDTH
            /\ q.stamp = p.stamp
         \/ q.CentreFreq = first.plan.StartFreq
  BY DEF SweepSucc
<1>3. SUFFICES \/ /\ k < n /\ first.CentreFreq = S
                  /\ q.CentreFreq = S + k * BAND_WIDTH /\ q.stamp = first.stamp
               \/ q.CentreFreq < S + BAND_WIDTH
               \/ q.CentreFreq >= S + n * BAND_WIDTH
  BY <1>2 DEF Goes
<1>4. CASE q.CentreFreq = first.plan.StartFreq
  BY <1>1, <1>4 DEF Opens
<1>5. CASE /\ p.plan.TimeNum > 1
           /\ q.CentreFreq = p.CentreFreq + BAND_WIDTH
           /\ q.stamp = p.stamp
  <2>1. CASE p.CentreFreq <= S - BAND_WIDTH
    BY <1>1, <1>5, <2>1
  <2>2. CASE p.CentreFreq >= S + n * BAND_WIDTH
    <3> DEFINE m == n * BAND_WIDTH
    <3>1. m \in Int
      BY <1>1
    <3> HIDE DEF S, m
    <3> QED
      BY <1>1, <1>5, <2>2, <3>1 DEF m
  <2>3. CASE /\ p.CentreFreq = first.CentreFreq + (k - 1) * BAND_WIDTH
             /\ p.stamp = first.stamp
             /\ k > 1 => first.CentreFreq = S
    <3>1. CASE k = 1 /\ n = 1
      <4>1. (k - 1) * BAND_WIDTH = 0 /\ n * BAND_WIDTH = BAND_WIDTH
        BY <1>1, <3>1
      <4> QED
        BY <1>1, <1>5, <2>3, <4>1
    <3>2. first.CentreFreq = S \/ n = 1
      <4>1. CASE k > 1
        BY <2>3, <4>1
      <4>2. CASE k = 1 /\ n > 1
        <5>1. PICK a \in Plan : a.TimeNum = n /\ a.StartFreq = S
          BY <4>2, ParserPlan
        <5>2. p.plan \in Plan
          BY <1>1, <1>5, PlansOK
        <5>3. PICK j \in Nat : p.CentreFreq = p.plan.StartFreq + BAND_WIDTH * j
          BY DEF IsStep
        <5>4. p.CentreFreq = first.CentreFreq
          <6>1. (k - 1) * BAND_WIDTH = 0
            BY <1>1, <4>2
          <6> QED
            BY <1>1, <2>3, <6>1
        <5>5. p.CentreFreq - a.StartFreq < BAND_WIDTH /\ -BAND_WIDTH < p.CentreFreq - a.StartFreq
          BY <5>1, <5>4 DEF Opens
        <5> QED
          BY <1>5, <4>2, <5>1, <5>2, <5>3, <5>4, <5>5, Aligned
      <4> QED
        BY <1>1, <4>1, <4>2
    <3>3. CASE first.CentreFreq = S
      <4>1. q.CentreFreq = S + k * BAND_WIDTH
        <5>1. (k - 1) * BAND_WIDTH + BAND_WIDTH = k * BAND_WIDTH
          BY <1>1
        <5>2. (k - 1) * BAND_WIDTH \in Int /\ k * BAND_WIDTH \in Int
          BY <1>1
        <5> HIDE DEF S
        <5> QED
          BY <1>1, <1>5, <2>3, <3>3, <5>1, <5>2
      <4>2. CASE k < n
        BY <1>5, <2>3, <3>3, <4>1, <4>2
      <4>3. CASE k = n
        BY <1>1, <4>1, <4>3
      <4> QED
        BY <1>1, <4>2, <4>3
    <3>4. (k = 1 /\ n = 1) \/ first.CentreFreq = S
      BY <1>1, <3>2
    <3> QED
      BY <3>1, <3>3, <3>4
  <2> QED
    BY <2>1, <2>2, <2>3
<1> QED
  BY <1>2, <1>4, <1>5

LEMMA InitSInv == Init => SInv
BY DEF Init, SInv, SweepTracks, SweepFrameIsOnePass

(* What comes next stays, or is marked as cut off.                                 *)
LEMMA SweepTracksKept ==
  ASSUME SInv, UNCHANGED <<sweepRes, DataType, SweepCXResult>>,
         sent' = sent \/ sent' = None,
         deal' \in {"idle", DataType} \/ deal' = deal,
         Upcoming' = Upcoming \/ Upcoming'.cut
  PROVE  SInv'
<1>1. SweepFrameIsOnePass'
  BY DEF SInv, SweepFrameIsOnePass, Complete, SameStamp, Filled
<1>2. SUFFICES ASSUME sweepRes # None, sweepRes.steady, ~sweepRes.cut
               PROVE  /\ deal' \in {"idle", DataType}
                      /\ DataType = "CX_SWEEP" =>
                           /\ sweepRes.size = SweepCXResult.TimeNum
                           /\ sweepRes.FreqResolution = SweepCXResult.FreqResolution
                           /\ \E k \in 1..SweepCXResult.TimeNum :
                                OnePass(sweepRes.slot, k)' /\ Goes(sweepRes.slot[0], k, Upcoming)'
  BY <1>1 DEF SInv, SweepTracks
<1>3. \A k : OnePass(sweepRes.slot, k) => OnePass(sweepRes.slot, k)'
  BY DEF OnePass, Opens
<1>4. \A k : Goes(sweepRes.slot[0], k, Upcoming) => Goes(sweepRes.slot[0], k, Upcoming)'
  BY DEF Goes
<1>5. /\ deal \in {"idle", DataType}
      /\ DataType = "CX_SWEEP" =>
           /\ sweepRes.size = SweepCXResult.TimeNum
           /\ sweepRes.FreqResolution = SweepCXResult.FreqResolution
           /\ \E k \in 1..SweepCXResult.TimeNum :
                OnePass(sweepRes.slot, k) /\ Goes(sweepRes.slot[0], k, Upcoming)
  BY <1>2 DEF SInv, SweepTracks
<1> QED
  BY <1>3, <1>4, <1>5

LEMMA SetParserSInv == IInv /\ SInv /\ SetParser => SInv'
<1> SUFFICES ASSUME IInv, SInv, SetParser PROVE SInv'
  OBVIOUS
<1>1. sweepRes' = Unsteady(sweepRes) /\ UNCHANGED sent
  BY DEF SetParser
<1>2. sweepRes' # None => ~sweepRes'.steady
  <2>1. sweepRes # None =>
          sweepRes = [size |-> sweepRes.size, FreqResolution |-> sweepRes.FreqResolution,
                      slot |-> sweepRes.slot, steady |-> sweepRes.steady, cut |-> sweepRes.cut]
    BY DEF IInv, FrameOK
  <2> QED
    BY <1>1, <2>1 DEF Unsteady
<1> QED
  BY <1>1, <1>2 DEF SInv, SweepTracks, SweepFrameIsOnePass, Complete, SameStamp, Filled

(* A new sweep frame is a frame, and of the size asked for.                        *)
LEMMA NewSweepFits ==
  ASSUME TypeOK
  PROVE  Fits(NewFrame(SweepCXResult.TimeNum, SweepCXResult.FreqResolution),
              SweepCXResult.TimeNum, SweepCXResult.FreqResolution)
<1> DEFINE n == SweepCXResult.TimeNum
           r == SweepCXResult.FreqResolution
<1>1. n \in Nat /\ r \in Resolution \cup {0}
  BY ParserPlan
<1> HIDE DEF n, r
<1>2. NewFrame(n, r) \in
        [size : Nat, FreqResolution : Resolution \cup {0}, slot : {<<>>},
         steady : BOOLEAN, cut : BOOLEAN]
  BY <1>1 DEF NewFrame
<1>3. Fits(NewFrame(n, r), n, r)
  BY <1>2, AssemblyAssumption DEF Fits, NewFrame
<1> QED
  BY <1>3 DEF n, r

(* The place packIndex gives a packet.                                             *)
LEMMA PackIndexOf ==
  ASSUME TypeOK, NEW p \in Packet
  PROVE  /\ PackIndex(p) \in Int
         /\ PackIndex(p) = 0 => /\ -BAND_WIDTH < p.CentreFreq - SweepCXResult.StartFreq
                                /\ p.CentreFreq - SweepCXResult.StartFreq < BAND_WIDTH
         /\ PackIndex(p) < 0 => p.CentreFreq <= SweepCXResult.StartFreq - BAND_WIDTH
         /\ p.CentreFreq < SweepCXResult.StartFreq + BAND_WIDTH => PackIndex(p) <= 0
         /\ \A n \in Nat :
              /\ p.CentreFreq >= SweepCXResult.StartFreq + n * BAND_WIDTH => PackIndex(p) >= n
              /\ p.CentreFreq = SweepCXResult.StartFreq + n * BAND_WIDTH => PackIndex(p) = n
<1> DEFINE S == SweepCXResult.StartFreq
           C == p.CentreFreq
           d == C - S
<1>1. S \in Int /\ C \in Int /\ BAND_WIDTH \in Nat \ {0}
  BY ParserPlan, AssemblyAssumption DEF Packet
<1>2. PackIndex(p) = IF d >= 0 THEN d \div BAND_WIDTH ELSE -((-d) \div BAND_WIDTH)
  BY DEF PackIndex
<1> HIDE DEF S, C
<1>3. d \in Int
  BY <1>1
<1>4. /\ PackIndex(p) \in Int
      /\ PackIndex(p) = 0 => -BAND_WIDTH < d /\ d < BAND_WIDTH
      /\ PackIndex(p) < 0 => d <= -BAND_WIDTH
      /\ d < BAND_WIDTH => PackIndex(p) <= 0
      /\ \A n \in Nat : /\ d >= n * BAND_WIDTH => PackIndex(p) >= n
                        /\ d = n * BAND_WIDTH => PackIndex(p) = n
  <2> HIDE DEF d
  <2> QED
    BY <1>1, <1>2, <1>3, Rounding
<1>5. \A n \in Nat : /\ n * BAND_WIDTH \in Int
                     /\ C >= S + n * BAND_WIDTH => d >= n * BAND_WIDTH
                     /\ C = S + n * BAND_WIDTH => d = n * BAND_WIDTH
  BY <1>1
<1>6. /\ C < S + BAND_WIDTH => d < BAND_WIDTH
      /\ d <= -BAND_WIDTH => C <= S - BAND_WIDTH
  BY <1>1
<1> HIDE DEF d
<1>7. \A n \in Nat :
        /\ C >= S + n * BAND_WIDTH => PackIndex(p) >= n
        /\ C = S + n * BAND_WIDTH => PackIndex(p) = n
  BY <1>4, <1>5
<1> QED
  BY <1>4, <1>6, <1>7 DEF S, C, d

(* What DataDealCX has in hand goes on with a frame nothing came between.          *)
LEMMA SweepContinues ==
  ASSUME IInv, SInv, deal # "idle", sweepRes # None, sweepRes.steady, ~sweepRes.cut,
         ~Head(taken["cx"]).cut, DataType = "CX_SWEEP"
  PROVE  /\ deal = "CX_SWEEP"
         /\ sweepRes.size = SweepCXResult.TimeNum
         /\ sweepRes.FreqResolution = SweepCXResult.FreqResolution
         /\ Head(taken["cx"]).DataType = 0
         /\ Head(taken["cx"]).Resolution = SweepCXResult.FreqResolution
         /\ \E k \in 1..SweepCXResult.TimeNum :
              /\ OnePass(sweepRes.slot, k)
              /\ Goes(sweepRes.slot[0], k, Head(taken["cx"]))
<1>1. /\ deal \in {"idle", DataType}
      /\ sweepRes.size = SweepCXResult.TimeNum
      /\ sweepRes.FreqResolution = SweepCXResult.FreqResolution
      /\ \E k \in 1..SweepCXResult.TimeNum :
           OnePass(sweepRes.slot, k) /\ Goes(sweepRes.slot[0], k, Upcoming)
  BY DEF SInv, SweepTracks
<1>2. Upcoming = Head(taken["cx"])
  BY DEF Upcoming
<1>3. \A k : Goes(sweepRes.slot[0], k, Upcoming) =>
               /\ Head(taken["cx"]).DataType = 0
               /\ Head(taken["cx"]).Resolution = SweepCXResult.FreqResolution
  BY <1>2 DEF Goes
<1> QED
  BY <1>1, <1>2, <1>3

(* The place of a packet that goes on with a frame of k steps is the next, or none *)
(* after the first.                                                                *)
LEMMA NextPlace ==
  ASSUME TypeOK, NEW first, NEW k \in 1..SweepCXResult.TimeNum, NEW p \in Packet,
         ~p.cut, Goes(first, k, p)
  PROVE  \/ /\ PackIndex(p) = k /\ k < SweepCXResult.TimeNum
            /\ p.CentreFreq = SweepCXResult.StartFreq + k * BAND_WIDTH
            /\ first.CentreFreq = SweepCXResult.StartFreq
            /\ p.stamp = first.stamp
         \/ PackIndex(p) <= 0
         \/ /\ PackIndex(p) >= SweepCXResult.TimeNum
            /\ p.CentreFreq >=
                 SweepCXResult.StartFreq + SweepCXResult.TimeNum * BAND_WIDTH
<1>1. SweepCXResult.TimeNum \in Nat /\ k \in Nat
  BY ParserPlan
<1> QED
  BY <1>1, PackIndexOf DEF Goes

(* One more step in its place.                                                     *)
LEMMA PassGrows ==
  ASSUME TypeOK, NEW slot, NEW k \in 1..SweepCXResult.TimeNum, OnePass(slot, k),
         NEW p, p.stamp = slot[0].stamp, slot[0].CentreFreq = SweepCXResult.StartFreq,
         p.CentreFreq = SweepCXResult.StartFreq + k * BAND_WIDTH,
         NEW longer, DOMAIN longer = DOMAIN slot \cup {k}, longer[k] = p,
         \A j \in DOMAIN slot : j # k => longer[j] = slot[j]
  PROVE  OnePass(longer, k + 1) /\ longer[0] = slot[0]
<1>1. k \in Nat /\ k >= 1
  BY ParserPlan
<1>2. DOMAIN slot = 0..(k - 1) /\ 0 \in 0..(k - 1) /\ (k + 1) - 1 = k
  BY <1>1 DEF OnePass
<1>3. DOMAIN longer = 0..k
  BY <1>1, <1>2
<1>4. longer[0] = slot[0]
  BY <1>1, <1>2
<1>5. ASSUME NEW j \in 0..k
      PROVE  longer[j].stamp = longer[0].stamp
             /\ longer[j].CentreFreq = longer[0].CentreFreq + j * BAND_WIDTH
  <2>1. CASE j = k
    BY <1>4, <2>1
  <2>2. CASE j # k
    <3>1. j \in 0..(k - 1)
      BY <1>1, <2>2
    <3> QED
      BY <1>2, <1>4, <2>2, <3>1 DEF OnePass
  <2> QED
    BY <2>1, <2>2
<1> QED
  BY <1>2, <1>3, <1>4, <1>5 DEF OnePass

(* A first step in place 0.                                                        *)
LEMMA PassBegins ==
  ASSUME TypeOK, NEW p \in Packet, IsStep(p), p.DataType = 0, PackIndex(p) = 0,
         NEW slot, DOMAIN slot = {0}, slot[0] = p
  PROVE  OnePass(slot, 1)
<1>1. /\ p.CentreFreq \in Int /\ p.plan.StartFreq \in Int /\ BAND_WIDTH \in Nat
  BY PlansOK, AssemblyAssumption DEF Packet
<1>2. p.plan.StartFreq <= p.CentreFreq
  <2>1. PICK j \in Nat : p.CentreFreq = p.plan.StartFreq + BAND_WIDTH * j
    BY DEF IsStep
  <2>2. BAND_WIDTH * j \in Nat
    BY <1>1
  <2> QED
    BY <1>1, <2>1, <2>2
<1>3. Opens(p)
  BY <1>2, PackIndexOf DEF Opens
<1>4. p.CentreFreq = p.CentreFreq + 0 * BAND_WIDTH
  BY <1>1
<1> QED
  BY <1>3, <1>4 DEF OnePass

(* A whole pass is what SweepFrameIsOnePass asks of a frame.                       *)
LEMMA WholePass ==
  ASSUME TypeOK, NEW f, NEW n, n = SweepCXResult.TimeNum, n >= 1, f.size = n,
         OnePass(f.slot, n)
  PROVE  /\ Complete(f)
         /\ SameStamp(f)
         /\ \A i \in Filled(f) :
              LET error == f.slot[i].CentreFreq - SweepCXResult.StartFreq - i * BAND_WIDTH
              IN  /\ -BAND_WIDTH < error /\ error < BAND_WIDTH
                  /\ i # 0 => error = 0
<1> DEFINE S == SweepCXResult.StartFreq
           F == f.slot[0].CentreFreq
<1>1. n \in Nat /\ S \in Int /\ F \in Int /\ BAND_WIDTH \in Nat
  BY ParserPlan, AssemblyAssumption DEF OnePass, Opens, Packet
<1>2. /\ DOMAIN f.slot = 0..(n - 1)
      /\ -BAND_WIDTH < F - S /\ F - S < BAND_WIDTH
      /\ n > 1 => F = S
      /\ \A j \in 0..(n - 1) : f.slot[j].stamp = f.slot[0].stamp
      /\ \A j \in 0..(n - 1) : f.slot[j].CentreFreq = F + j * BAND_WIDTH
  BY DEF OnePass, Opens
<1>3. Complete(f) /\ SameStamp(f)
  BY <1>2 DEF Complete, SameStamp, Filled
<1>4. ASSUME NEW i \in Filled(f)
      PROVE  /\ f.slot[i].CentreFreq - S - i * BAND_WIDTH = F - S
             /\ i # 0 => F = S
  <2>1. i \in 0..(n - 1) /\ i \in Nat /\ i * BAND_WIDTH \in Int
    BY <1>1, <1>2 DEF Filled
  <2>2. f.slot[i].CentreFreq = F + i * BAND_WIDTH
    BY <1>2, <2>1
  <2> DEFINE m == i * BAND_WIDTH
  <2> HIDE DEF S, F, m
  <2>3. (F + m) - S - m = F - S
    BY <1>1, <2>1 DEF m
  <2>4. i # 0 => n > 1
    BY <1>1, <2>1
  <2> QED
    BY <1>2, <2>2, <2>3, <2>4 DEF m
<1> HIDE DEF S, F
<1>5. F - S = 0 <=> F = S
  BY <1>1
<1> QED
  BY <1>2, <1>3, <1>4, <1>5 DEF S

(* A packet for the sweep frame, of which nothing was missed.                      *)
LEMMA ToSweepCXdataTracks ==
  ASSUME IInv, SInv, deal = "CX_SWEEP", NEW p \in Packet, p = Head(taken["cx"]),
         p.DataType = 0, p.Resolution = SweepCXResult.FreqResolution,
         ToSweepCXdata(p), UNCHANGED <<DataType, SweepCXResult>>, deal' = "idle",
         Link(p, Upcoming')
  PROVE  SInv'
<1> DEFINE i == PackIndex(p)
           n == SweepCXResult.TimeNum
           r == SweepCXResult.FreqResolution
           res == IF i = 0 THEN NewFrame(n, r) ELSE sweepRes
<1>1. PICK u : u = Upcoming'
  OBVIOUS
<1>2. TypeOK /\ IsStep(p) /\ SweepSucc(p, u) /\ n \in Nat /\ i \in Int
  BY <1>1, ParserPlan, PackIndexOf DEF IInv, Link
<1>3. FrameOK(res) /\ (i = 0 => DOMAIN res.slot = {}) /\ (i # 0 => res = sweepRes)
  BY NewFrameOK DEF IInv
<1>4. i = 0 => Fits(res, n, r)
  BY <1>2, NewSweepFits
<1>5. /\ i \in 0..(n - 1) /\ Fits(res, n, r) =>
           /\ sweepRes' = Fill(res, i, p)
           /\ sent' = IF Completes(i, n) THEN [kind |-> "sweep", head |-> SweepCXResult,
                                               frame |-> sweepRes'] ELSE sent
      /\ ~(i \in 0..(n - 1) /\ Fits(res, n, r)) => sweepRes' = Unused(sweepRes, p) /\ sent' = sent
  BY DEF ToSweepCXdata
<1>6. ASSUME sweepRes # None, sweepRes.steady, ~sweepRes.cut, ~p.cut
      PROVE  /\ DataType = "CX_SWEEP"
             /\ Fits(sweepRes, n, r)
             /\ \E k \in 1..n : OnePass(sweepRes.slot, k) /\ Goes(sweepRes.slot[0], k, p)
  <2>1. DataType = "CX_SWEEP"
    BY <1>6 DEF SInv, SweepTracks
  <2> QED
    BY <1>6, <2>1, SweepContinues DEF Fits
<1>7. \A first : \A k \in 1..n :
        Goes(first, k, p) /\ ~p.cut =>
          /\ p.plan = first.plan
          /\ \/ /\ i = k /\ k < n
                /\ p.CentreFreq = SweepCXResult.StartFreq + k * BAND_WIDTH
                /\ first.CentreFreq = SweepCXResult.StartFreq
                /\ p.stamp = first.stamp
             \/ i <= 0
             \/ i >= n /\ p.CentreFreq >= SweepCXResult.StartFreq + n * BAND_WIDTH
  <2> SUFFICES ASSUME NEW first, NEW k \in 1..n, Goes(first, k, p), ~p.cut
               PROVE  /\ p.plan = first.plan
                      /\ \/ /\ i = k /\ k < n
                            /\ p.CentreFreq = SweepCXResult.StartFreq + k * BAND_WIDTH
                            /\ first.CentreFreq = SweepCXResult.StartFreq
                            /\ p.stamp = first.stamp
                         \/ i <= 0
                         \/ i >= n /\ p.CentreFreq >= SweepCXResult.StartFreq + n * BAND_WIDTH
    OBVIOUS
  <2>1. p.plan = first.plan
    BY DEF Goes
  <2> QED
    BY <1>2, <2>1, NextPlace
<1>8. i < 0 => p.CentreFreq <= SweepCXResult.StartFreq - BAND_WIDTH
  BY <1>2, PackIndexOf
<1>9. i = 0 => \A slot : DOMAIN slot = {0} /\ slot[0] = p => OnePass(slot, 1)
  BY <1>2, PassBegins
<1> HIDE DEF i, res
<1>10. CASE i \in 0..(n - 1) /\ Fits(res, n, r)
  <2>1. /\ sweepRes' = Fill(res, i, p)
        /\ sent' = IF Completes(i, n) THEN [kind |-> "sweep", head |-> SweepCXResult,
                                            frame |-> sweepRes'] ELSE sent
    BY <1>5, <1>10
  <2>2. res # None /\ res.size = n /\ res.FreqResolution = r
    BY <1>10 DEF Fits
  <2>3. /\ DOMAIN sweepRes'.slot = DOMAIN res.slot \cup {i}
        /\ sweepRes'.slot[i] = p
        /\ \A j \in DOMAIN res.slot : j # i => sweepRes'.slot[j] = res.slot[j]
    <3>1. i \in 0..(res.size - 1) /\ p.Resolution = res.FreqResolution
      BY <1>10, <2>2
    <3> QED
      BY <1>3, <2>1, <2>2, <3>1, FillOK
  <2>4. /\ sweepRes'.size = n /\ sweepRes'.FreqResolution = r
        /\ sweepRes'.steady = res.steady
        /\ ~sweepRes'.cut => ~res.cut /\ (i # 0 => ~p.cut)
    BY <1>3, <2>1, <2>2, FillFields
  <2>5. ASSUME sweepRes'.steady, ~sweepRes'.cut
        PROVE  OnePass(sweepRes'.slot, i + 1) /\ Goes(sweepRes'.slot[0], i + 1, u)
    <3>1. CASE i = 0
      <4>1. DOMAIN sweepRes'.slot = {0} /\ sweepRes'.slot[0] = p /\ i + 1 = 1 /\ 1 \in 1..n
        BY <1>2, <1>3, <1>10, <2>3, <3>1
      <4>2. OnePass(sweepRes'.slot, 1)
        BY <1>9, <3>1, <4>1
      <4>3. Opens(p) /\ p.CentreFreq = p.CentreFreq + (1 - 1) * BAND_WIDTH
        <5>1. p.CentreFreq \in Int /\ BAND_WIDTH \in Int
          BY AssemblyAssumption DEF Packet
        <5> QED
          BY <4>1, <4>2, <5>1 DEF OnePass
      <4>4. Goes(p, 1, u)
        <5>1. CASE u.cut
          BY <5>1 DEF Goes
        <5>2. CASE ~u.cut
          BY <1>2, <4>1, <4>3, <5>2, GoesOn
        <5> QED
          BY <5>1, <5>2
      <4> QED
        BY <4>1, <4>2, <4>4
    <3>2. CASE i # 0
      <4>1. res = sweepRes /\ sweepRes # None /\ sweepRes.steady /\ ~sweepRes.cut /\ ~p.cut
        BY <1>3, <2>2, <2>4, <2>5, <3>2
      <4>2. PICK k \in 1..n : OnePass(sweepRes.slot, k) /\ Goes(sweepRes.slot[0], k, p)
        BY <1>6, <4>1
      <4>3. /\ p.plan = sweepRes.slot[0].plan
            /\ i = k /\ k < n
            /\ p.CentreFreq = SweepCXResult.StartFreq + k * BAND_WIDTH
            /\ sweepRes.slot[0].CentreFreq = SweepCXResult.StartFreq
            /\ p.stamp = sweepRes.slot[0].stamp
        BY <1>2, <1>7, <1>10, <3>2, <4>1, <4>2
      <4>4. OnePass(sweepRes'.slot, k + 1) /\ sweepRes'.slot[0] = sweepRes.slot[0]
        <5>1. /\ DOMAIN sweepRes'.slot = DOMAIN sweepRes.slot \cup {k}
              /\ sweepRes'.slot[k] = p
              /\ \A j \in DOMAIN sweepRes.slot :
                   j # k => sweepRes'.slot[j] = sweepRes.slot[j]
          BY <2>3, <4>1, <4>3
        <5> DEFINE longer == sweepRes'.slot
        <5> HIDE DEF longer
        <5>2. OnePass(longer, k + 1) /\ longer[0] = sweepRes.slot[0]
          BY <1>2, <4>2, <4>3, <5>1, PassGrows DEF longer
        <5> QED
          BY <5>2 DEF longer
      <4>5. /\ k + 1 \in 1..n
            /\ p.CentreFreq = sweepRes.slot[0].CentreFreq + ((k + 1) - 1) * BAND_WIDTH
        BY <1>2, <4>3
      <4>6. Opens(sweepRes.slot[0])
        BY <4>2 DEF OnePass
      <4>7. Goes(sweepRes.slot[0], k + 1, u)
        <5>1. CASE u.cut
          BY <5>1 DEF Goes
        <5>2. CASE ~u.cut
          BY <1>2, <4>3, <4>5, <4>6, <5>2, GoesOn
        <5> QED
          BY <5>1, <5>2
      <4> QED
        BY <4>3, <4>4, <4>7
    <3> QED
      BY <3>1, <3>2
  <2>6. SweepTracks(sweepRes)'
    <3>1. ASSUME sweepRes'.steady, ~sweepRes'.cut
          PROVE  \E k \in 1..n : OnePass(sweepRes'.slot, k) /\ Goes(sweepRes'.slot[0], k, Upcoming')
      <4>1. i + 1 \in 1..n
        BY <1>2, <1>10
      <4> QED
        BY <1>1, <2>5, <3>1, <4>1
    <3>2. ASSUME sweepRes'.steady, ~sweepRes'.cut
          PROVE  (\E k \in 1..SweepCXResult.TimeNum :
                    OnePass(sweepRes.slot, k) /\ Goes(sweepRes.slot[0], k, Upcoming))'
      BY <3>1, <3>2 DEF OnePass, Opens, Goes
    <3> QED
      BY <2>4, <3>2 DEF SweepTracks
  <2>7. SweepFrameIsOnePass'
    <3>1. CASE Completes(i, n)
      <4>1. /\ sent' = [kind |-> "sweep", head |-> SweepCXResult, frame |-> sweepRes']
            /\ i + 1 = n /\ n >= 1
        BY <1>2, <1>10, <2>1, <3>1 DEF Completes
      <4>2. ASSUME sweepRes'.steady, ~sweepRes'.cut
            PROVE  /\ Complete(sweepRes')
                   /\ SameStamp(sweepRes')
                   /\ \A j \in Filled(sweepRes') :
                        LET error == sweepRes'.slot[j].CentreFreq - SweepCXResult.StartFreq
                                       - j * BAND_WIDTH
                        IN  /\ -BAND_WIDTH < error /\ error < BAND_WIDTH
                            /\ j # 0 => error = 0
        BY <1>2, <2>4, <2>5, <4>1, <4>2, WholePass
      <4> QED
        BY <4>1, <4>2 DEF SweepFrameIsOnePass, Complete, SameStamp, Filled
    <3>2. CASE ~Completes(i, n)
      BY <2>1, <3>2 DEF SInv, SweepFrameIsOnePass, Complete, SameStamp, Filled
    <3> QED
      BY <3>1, <3>2
  <2> QED
    BY <2>6, <2>7 DEF SInv
<1>11. CASE ~(i \in 0..(n - 1) /\ Fits(res, n, r))
  <2>1. sweepRes' = Unused(sweepRes, p) /\ sent' = sent
    BY <1>5, <1>11
  <2>2. ASSUME sweepRes' # None, sweepRes'.steady, ~sweepRes'.cut
        PROVE  /\ sweepRes'.size = n /\ sweepRes'.FreqResolution = r
               /\ \E k \in 1..n : OnePass(sweepRes'.slot, k) /\ Goes(sweepRes'.slot[0], k, u)
    <3>1. /\ sweepRes # None /\ sweepRes.steady /\ ~sweepRes.cut /\ ~p.cut
          /\ sweepRes'.size = sweepRes.size /\ sweepRes'.slot = sweepRes.slot
          /\ sweepRes'.FreqResolution = sweepRes.FreqResolution
      BY <2>1, <2>2, UnusedFields DEF IInv
    <3>2. Fits(sweepRes, n, r)
      BY <1>6, <3>1
    <3>3. PICK k \in 1..n : OnePass(sweepRes.slot, k) /\ Goes(sweepRes.slot[0], k, p)
      BY <1>6, <3>1
    <3>4. i \notin 0..(n - 1)
      BY <1>3, <1>4, <1>11, <3>2
    <3>5. /\ p.plan = sweepRes.slot[0].plan
          /\ \/ i < 0
             \/ p.CentreFreq >= SweepCXResult.StartFreq + n * BAND_WIDTH
      BY <1>2, <1>7, <3>1, <3>3, <3>4
    <3>6. Opens(sweepRes.slot[0])
      BY <3>3 DEF OnePass
    <3>7. Goes(sweepRes.slot[0], k, u)
      <4>1. CASE u.cut
        BY <4>1 DEF Goes
      <4>2. CASE ~u.cut
        BY <1>2, <1>8, <3>5, <3>6, <4>2, GoesOn
      <4> QED
        BY <4>1, <4>2
    <3> QED
      BY <3>1, <3>2, <3>3, <3>7 DEF Fits
  <2>3. SweepTracks(sweepRes)'
    <3>1. ASSUME sweepRes' # None, sweepRes'.steady, ~sweepRes'.cut
          PROVE  (\E k \in 1..SweepCXResult.TimeNum :
                    OnePass(sweepRes.slot, k) /\ Goes(sweepRes.slot[0], k, Upcoming))'
      BY <1>1, <2>2, <3>1 DEF OnePass, Opens, Goes
    <3> QED
      BY <2>2, <3>1 DEF SweepTracks
  <2> QED
    BY <2>1, <2>3 DEF SInv, SweepFrameIsOnePass, Complete, SameStamp, Filled
<1> QED
  BY <1>10, <1>11

LEMMA GetQueueDataFunSInv == IInv /\ CInv /\ SInv /\ GetQueueDataFun => SInv'
<1> SUFFICES ASSUME IInv, CInv, SInv, GetQueueDataFun PROVE SInv'
  OBVIOUS
<1> DEFINE p == Head(taken["cx"])
           sweep == deal = "CX_SWEEP" /\ p.DataType = 0
                      /\ p.Resolution = SweepCXResult.FreqResolution
           channel == deal = "TEST_CHANNEL" /\ p.DataType # 0 /\ p.Resolution = TestCXResult
<1>1. p \in Packet
  BY DEF GetQueueDataFun, IInv, TypeOK, DealOK
<1>2. /\ IF sweep THEN ToSweepCXdata(p) ELSE sweepRes' = Unused(sweepRes, p)
      /\ channel => ToChdata(p)
      /\ ~sweep /\ ~channel => UNCHANGED sent
      /\ deal # "idle" /\ deal' = "idle"
      /\ UNCHANGED <<board, queue, DataType, SweepCXResult>>
  BY DEF GetQueueDataFun, parserVars
<1>3. Upcoming' = Coming
  BY <1>2 DEF Upcoming, Coming, NextPacket
<1>4. Link(p, Upcoming')
  BY <1>2, <1>3 DEF CInv, Chain
<1>5. CASE sweep
  BY <1>1, <1>2, <1>4, <1>5, ToSweepCXdataTracks
<1>6. CASE ~sweep
  <2>1. sweepRes' = Unused(sweepRes, p)
    BY <1>2, <1>6
  <2>2. SweepTracks(sweepRes)'
    <3>1. ASSUME sweepRes' # None, sweepRes'.steady, ~sweepRes'.cut, DataType = "CX_SWEEP"
          PROVE  FALSE
      <4>1. sweepRes # None /\ sweepRes.steady /\ ~sweepRes.cut /\ ~p.cut
        BY <2>1, <3>1, UnusedFields DEF IInv
      <4> QED
        BY <1>2, <1>6, <3>1, <4>1, SweepContinues
    <3> QED
      BY <1>2, <3>1 DEF SweepTracks
  <2>3. SweepFrameIsOnePass'
    <3>1. CASE ~channel
      BY <1>2, <1>6, <3>1 DEF SInv, SweepFrameIsOnePass, Complete, SameStamp, Filled
    <3>2. CASE channel
      <4>1. sent' = sent \/ sent'.kind = "channel"
        BY <1>2, <3>2 DEF ToChdata
      <4> QED
        BY <4>1 DEF SInv, SweepFrameIsOnePass, Complete, SameStamp, Filled
    <3> QED
      BY <3>1, <3>2
  <2> QED
    BY <2>2, <2>3 DEF SInv
<1> QED
  BY <1>5, <1>6

LEMMA StepSInv == IInv /\ CInv /\ SInv /\ [Next]_vars => SInv'
<1> SUFFICES ASSUME IInv, CInv, SInv, [Next]_vars PROVE SInv'
  OBVIOUS
<1>1. ASSUME UNCHANGED <<board, queue, taken, deal, DataType, SweepCXResult, sweepRes, sent>>
      PROVE  SInv'
  <2>1. Upcoming' = Upcoming
    BY <1>1 DEF NextPacket, Coming, Upcoming
  <2> QED
    BY <1>1, <2>1, SweepTracksKept
<1>2. CASE Receive \/ UNCHANGED vars
  BY <1>1, <1>2 DEF Receive, vars, parserVars, frameVars
<1>3. CASE SendCXCmd
  <2>1. Upcoming' = Upcoming \/ Upcoming'.cut
    BY <1>3, SendCXCmdCInv
  <2> QED
    BY <1>3, <2>1, SweepTracksKept DEF SendCXCmd, parserVars, frameVars
<1>4. CASE Transmit
  <2>1. Upcoming' = Upcoming
    BY <1>4, TransmitCInv
  <2> QED
    BY <1>4, <2>1, SweepTracksKept DEF Transmit, parserVars, frameVars
<1>5. CASE TakePacket
  <2>1. Upcoming' = Upcoming
    BY <1>5, TakePacketCInv
  <2> QED
    BY <1>5, <2>1, SweepTracksKept DEF TakePacket, parserVars
<1> QED
  BY <1>2, <1>3, <1>4, <1>5, SetParserSInv, GetQueueDataFunSInv DEF Next

------------------------------------------------------------------------------
(* The invariant holds in every state of the assembly of frames.                *)
THEOREM Invariant == Spec => []IInv
BY InitIInv, StepIInv, PTL DEF Spec

(* The state of the board, of the queue, of the command handlers and of         *)
(* DataDealCX has its type throughout.                                          *)
THEOREM TypeCorrect == Spec => []TypeOK
<1>1. IInv => TypeOK
  BY DEF IInv
<1> QED
  BY Invariant, <1>1, PTL

(* ToSweepCXdata and ToChdata (DataThreadCX.cpp:200, :241) write within the     *)
(* frame that was allocated, with packets of its resolution, whatever a client  *)
(* reconfigures between two packets.                                            *)
THEOREM WritesFit == Spec => []FrameFits
<1>1. IInv => FrameFits
  BY DEF IInv, FrameFits, FrameOK, Filled
<1> QED
  BY Invariant, <1>1, PTL

(* The test of l_PackNum in ToChdata (DataThreadCX.cpp:257) keeps the packets   *)
(* of different moments out of one frame, whatever the queue drops and a client *)
(* reconfigures, as long as the count does not come round.                      *)
THEOREM MomentsAreNotMixed == Spec => []ChannelFrameIsOneMoment
<1>1. IInv => ChannelFrameIsOneMoment
  BY DEF IInv
<1> QED
  BY Invariant, <1>1, PTL

(* A channel frame that ToChdata sends (DataThreadCX.cpp:275) has every         *)
(* channel, when none of the packets between its first and its last was dropped *)
(* and neither the board nor the parser was set anew in between: its last       *)
(* channel completes it, and nothing before that made it skip one.              *)
THEOREM ChannelFramesComplete == Spec => []ChannelFrameIsComplete
<1>1. CInv => ChannelFrameIsComplete
  BY DEF CInv
<1> QED
  BY Invariant, InitCInv, StepCInv, <1>1, PTL DEF Spec

(* A sweep frame that ToSweepCXdata sends (DataThreadCX.cpp:237), when none of the  *)
(* packets since its first was dropped and neither the board nor the parser was    *)
(* set anew in between, holds every step of one pass of the board, each in the     *)
(* place packIndex has for it: for every set of plans, queue depth and interleaving. *)
THEOREM SweepFramesAreOnePass == Spec => []SweepFrameIsOnePass
<1>1. SInv => SweepFrameIsOnePass
  BY DEF SInv
<1> QED
  BY Invariant, InitCInv, StepCInv, InitSInv, StepSInv, <1>1, PTL DEF Spec
==============================================================================
