------------------------------ MODULE CXAssembly ------------------------------
(***************************************************************************)
(* How DataDealCX (NACX_Server/DataThreadCX.cpp) puts frames together from *)
(* several packets: a sweep frame from one packet for each step of the     *)
(* plan (ToSweepCXdata), a channel frame from one packet for each receiver *)
(* channel of a moment (ToChdata).  The packets come through a queue that  *)
(* drops what it has no room for, and a client may change the plan, the    *)
(* resolution and the mode between any two of them, the board's side first *)
(* and the parser's side later.                                            *)
(*                                                                         *)
(* The board is external: configured anew it starts with the first step or *)
(* channel, then goes round.  A packet carries `stamp`, the pass or moment *)
(* it belongs to, `from`, the moment from which the board counts (what the *)
(* code sees is the difference modulo Wrap, l_PackNum), `plan`, the plan   *)
(* of its pass, and `cut`, whether the packet before it was dropped or     *)
(* came before the board was configured.  StructData.h:24 says of the      *)
(* total count that a new order clears it and of the local one, the one    *)
(* ToChdata looks at, nothing: configured anew the board may clear that or *)
(* not, each time.  One client sends commands; gains and calibration are   *)
(* left out.                                                               *)
(***************************************************************************)
EXTENDS Integers, Sequences

CONSTANTS
  Plan,             (* [StartFreq, TimeNum] of the sweeps clients ask for     *)
  Resolution, DefaultResolution,
  ChNum,            (* 4 in the code                                          *)
  BAND_WIDTH,
  Wrap,             (* l_PackNum counts modulo 32 in the code                 *)
  MaxStamp,         (* bound: the last pass or moment the board measures, so    *)
                    (* that the count does not come round                      *)
  MaxCommands,      (* bound: the commands the client sends                    *)
  MAX_BUFFER_DEPTH,
  None              (* no frame                                               *)

ASSUME AssemblyAssumption ==
  /\ Plan \subseteq [StartFreq : Int, TimeNum : Nat \ {0}]
  /\ DefaultResolution \in Resolution /\ 0 \notin Resolution
  /\ ChNum \in Nat \ {0} /\ BAND_WIDTH \in Nat \ {0}
  /\ Wrap \in Nat \ {0} /\ MaxStamp \in 0..(Wrap - 1) /\ MaxCommands \in Nat
  /\ MAX_BUFFER_DEPTH \in Nat
  /\ None \notin [size : Nat, FreqResolution : Resolution \cup {0}, slot : {<<>>},
                  steady : BOOLEAN, cut : BOOLEAN]

(* SetFreqCmd (TcpSession.cpp:731-738) finds the first step of a range on the  *)
(* grid MIN_FREQ, MIN_FREQ + BAND_WIDTH, ..; a single frequency, which need not *)
(* lie on it, is one step.                                                      *)
ASSUME GridAssumption ==
  \A a, b \in Plan :
    a.TimeNum > 1 /\ b.TimeNum > 1 => (a.StartFreq - b.StartFreq) % BAND_WIDTH = 0

VARIABLES
  board,          (* mode, plan, Resolution; of the next packet pos, stamp, from, *)
                  (* cut                                                      *)
  queue, taken,   (* tsqueueCXs; the packet DataDealCX has in hand                *)
  deal,           (* "idle", or the mode DataDealCX switched on                   *)
  commands,       (* how many the client sent                                     *)
  steps,          (* what its last one still has to do                            *)
  DataType,       (* g_Parameter.DataType                                         *)
  SweepCXResult,  (* StartFreq, TimeNum, FreqResolution                           *)
  TestCXResult,   (* its FreqResolution                                           *)
  sweepRes,       (* res of ToSweepCXdata                                         *)
  chRes,          (* res of ToChdata                                              *)
  last_PackNum,
  sent            (* the frame the last packet completed, with its header         *)

Queue == INSTANCE LossyFifo
           WITH Receiver <- {"cx"}, Item <- {}, Depth <- MAX_BUFFER_DEPTH, fifo <- queue

parserVars == <<DataType, SweepCXResult, TestCXResult>>
frameVars == <<sweepRes, chRes, last_PackNum, sent>>
clientVars == <<commands, steps>>
vars == <<board, queue, taken, deal, clientVars, parserVars, frameVars>>

NoPlan == [StartFreq |-> 0, TimeNum |-> 0]
Result(plan, r) ==
  [StartFreq |-> plan.StartFreq, TimeNum |-> plan.TimeNum, FreqResolution |-> r]

(* Nothing is gathered yet; the result structures are zero. *)
Init ==
  /\ board = [mode |-> "CX_WB", plan |-> NoPlan, Resolution |-> DefaultResolution,
              pos |-> 0, stamp |-> 0, from |-> 0, cut |-> TRUE]
  /\ Queue!Init
  /\ deal = "idle"
  /\ commands = 0 /\ steps = <<>>
  /\ DataType = "CX_WB"
  /\ SweepCXResult = Result(NoPlan, 0)
  /\ TestCXResult = 0
  /\ sweepRes = None /\ chRes = None
  /\ last_PackNum = 0
  /\ sent = None

------------------------------------------------------------------------------
(* The client *)

Command ==
  [op : {"sweep"}, plan : Plan] \cup [op : {"param"}, res : Resolution] \cup [op : {"test"}]

Send(mode, plan, r) == [op |-> "send", mode |-> mode, plan |-> plan, Resolution |-> r]
SetSweep(result) == [op |-> "SetSweep", result |-> result]
SetMode(mode) == [op |-> "SetMode", mode |-> mode]

(* A start sends CmdCX twice, for calibration and for acquisition; a parameter  *)
(* set once.  The parser's side follows.                                        *)
Handler(c) ==
  CASE c.op = "sweep" ->
         LET send == Send("CX_SWEEP", c.plan, board.Resolution)
         IN  <<send, send, SetSweep(Result(c.plan, board.Resolution)), SetMode("CX_SWEEP")>>
    [] c.op = "test" ->
         LET send == Send("TEST_CHANNEL", NoPlan, board.Resolution)
         IN  <<send, send, SetMode("TEST_CHANNEL")>>
    [] c.op = "param" ->
         <<Send(board.mode, board.plan, c.res),
           SetSweep([SweepCXResult EXCEPT !.FreqResolution = c.res]),
           [op |-> "SetTest", res |-> c.res]>>

Receive ==
  /\ steps = <<>>
  /\ commands < MaxCommands
  /\ commands' = commands + 1
  /\ \E c \in Command : steps' = Handler(c)
  /\ UNCHANGED <<board, queue, taken, deal, parserVars, frameVars>>

At(op) == steps # <<>> /\ Head(steps).op = op

(* A moment or pass the order cut short is over.                                *)
SendCXCmd ==
  /\ At("send")
  /\ LET stamp == IF board.pos = 0 THEN board.stamp ELSE board.stamp + 1 IN
       \E from \in {board.from, stamp} :
         board' = [mode |-> Head(steps).mode, plan |-> Head(steps).plan,
                   Resolution |-> Head(steps).Resolution, pos |-> 0,
                   stamp |-> stamp, from |-> from, cut |-> TRUE]
  /\ steps' = Tail(steps)
  /\ UNCHANGED <<commands, queue, taken, deal, parserVars, frameVars>>

(* The frames begun before a setter or a change of mode are not `steady`.       *)
Unsteady(f) == IF f = None THEN None ELSE [f EXCEPT !.steady = FALSE]

SetParser ==
  /\ steps # <<>>
  /\ \/ /\ At("SetSweep")
        /\ SweepCXResult' = Head(steps).result
        /\ UNCHANGED <<TestCXResult, DataType>>
     \/ /\ At("SetTest")
        /\ TestCXResult' = Head(steps).res
        /\ UNCHANGED <<SweepCXResult, DataType>>
     \/ /\ At("SetMode")
        /\ DataType' = Head(steps).mode
        /\ UNCHANGED <<SweepCXResult, TestCXResult>>
  /\ sweepRes' = Unsteady(sweepRes)
  /\ chRes' = Unsteady(chRes)
  /\ steps' = Tail(steps)
  /\ UNCHANGED <<commands, board, queue, taken, deal, last_PackNum, sent>>

------------------------------------------------------------------------------
(* The board and the queue *)

NextPacket ==
  [DataType |-> IF board.mode = "CX_SWEEP" THEN 0 ELSE board.pos + 1,
   Resolution |-> board.Resolution,
   CentreFreq |-> board.plan.StartFreq + BAND_WIDTH * board.pos,
   plan |-> board.plan, stamp |-> board.stamp, from |-> board.from, cut |-> board.cut]

Round == IF board.mode = "CX_SWEEP" THEN board.plan.TimeNum ELSE ChNum

Advance(dropped) ==
  board' = [board EXCEPT
              !.pos = IF @ + 1 < Round THEN @ + 1 ELSE 0,
              !.stamp = IF board.pos + 1 < Round THEN @ ELSE @ + 1,
              !.cut = dropped]

HasRoom == Len(queue) <= MAX_BUFFER_DEPTH

Transmit ==
  /\ board.mode # "CX_WB"
  /\ board.stamp <= MaxStamp
  /\ \/ Queue!Send(NextPacket)
     \/ ~HasRoom /\ UNCHANGED <<queue, taken>>
  /\ Advance(~HasRoom)
  /\ UNCHANGED <<deal, clientVars, parserVars, frameVars>>

TakePacket ==
  /\ deal = "idle"
  /\ Queue!Receive("cx")
  /\ deal' = DataType
  /\ sent' = None
  /\ UNCHANGED <<board, clientVars, parserVars, sweepRes, chRes, last_PackNum>>

------------------------------------------------------------------------------
(* DataDealCX *)

(* A new frame: what fixes its length, its slots as they are filled, and for    *)
(* the properties whether a setter, or a gap between packets, came in between.  *)
NewFrame(size, r) ==
  [size |-> size, FreqResolution |-> r, slot |-> <<>>, steady |-> TRUE, cut |-> FALSE]

(* Mutated: a frame begun before the parameters changed is written to.          *)
FitsAny(f, size, r) == f # None

Fits(f, size, r) == f # None /\ f.size = size /\ f.FreqResolution = r
Fill(f, i, p) ==
  [f EXCEPT !.slot = [j \in DOMAIN @ \cup {i} |-> IF j = i THEN p ELSE @[j]],
            !.cut = @ \/ (p.cut /\ i # 0)]

(* A packet that is not used leaves a frame as it is, but may show a gap.       *)
Unused(f, p) == IF f = None THEN None ELSE [f EXCEPT !.cut = @ \/ p.cut]

(* (int)(..) / BAND_WIDTH_HZ rounds towards zero.                               *)
PackIndex(p) ==
  LET d == p.CentreFreq - SweepCXResult.StartFreq
  IN  IF d >= 0 THEN d \div BAND_WIDTH ELSE -((-d) \div BAND_WIDTH)

(* Mutated: the packet before the last completes a frame too; the count of      *)
(* moments is not looked at.                                                    *)
CompletesEarly(i, n) == i + 2 >= n
AnyMoment(ch, count) == TRUE

Completes(i, n) == i = n - 1
OfMoment(ch, count) == ch # 0 => count = last_PackNum

ToSweepCXdata(p) ==
  LET i == PackIndex(p)
      n == SweepCXResult.TimeNum
      r == SweepCXResult.FreqResolution
      res == IF i = 0 THEN NewFrame(n, r) ELSE sweepRes
  IN  IF i \in 0..(n - 1) /\ Fits(res, n, r)
        THEN /\ sweepRes' = Fill(res, i, p)
             /\ sent' = IF Completes(i, n) THEN [kind |-> "sweep", head |-> SweepCXResult,
                                           frame |-> sweepRes'] ELSE sent
        ELSE /\ sweepRes' = Unused(sweepRes, p)
             /\ UNCHANGED sent

(* The length of a channel frame depends on the resolution only.                *)
ToChdata(p) ==
  LET ch == p.DataType - 1
      count == (p.stamp - p.from) % Wrap
      res == IF ch = 0 THEN NewFrame(ChNum, TestCXResult) ELSE chRes
  IN  IF Fits(res, ChNum, TestCXResult) /\ OfMoment(ch, count)
        THEN /\ chRes' = Fill(res, ch, p)
             /\ last_PackNum' = count
             /\ sent' = IF Completes(ch, ChNum) THEN [kind |-> "channel", frame |-> chRes'] ELSE sent
        ELSE /\ chRes' = Unused(chRes, p)
             /\ UNCHANGED <<last_PackNum, sent>>

(* The switch of GetQueueDataFun; its test and what follows hold the mutex.     *)
GetQueueDataFun ==
  LET p == Head(taken["cx"])
      sweep == deal = "CX_SWEEP" /\ p.DataType = 0
                 /\ p.Resolution = SweepCXResult.FreqResolution
      channel == deal = "TEST_CHANNEL" /\ p.DataType # 0 /\ p.Resolution = TestCXResult
  IN  /\ deal # "idle"
      /\ IF sweep THEN ToSweepCXdata(p) ELSE sweepRes' = Unused(sweepRes, p)
      /\ IF channel THEN ToChdata(p)
                    ELSE chRes' = Unused(chRes, p) /\ UNCHANGED last_PackNum
      /\ ~sweep /\ ~channel => UNCHANGED sent
      /\ deal' = "idle"
      /\ taken' = [taken EXCEPT !["cx"] = <<>>]
      /\ UNCHANGED <<board, queue, clientVars, parserVars>>

Next ==
  \/ Receive \/ SendCXCmd \/ SetParser
  \/ Transmit
  \/ TakePacket \/ GetQueueDataFun

Spec == Init /\ [][Next]_vars

------------------------------------------------------------------------------

Mode == {"CX_WB", "CX_SWEEP", "TEST_CHANNEL"}
Packet ==
  {p \in [DataType : 0..ChNum, Resolution : Resolution, CentreFreq : Int,
          plan : Plan \cup {NoPlan}, stamp : 0..MaxStamp, from : 0..MaxStamp,
          cut : BOOLEAN] :
     p.from <= p.stamp}
SweepResult ==
  {Result(plan, r) : plan \in Plan \cup {NoPlan}, r \in Resolution \cup {0}}
Step == [op : {"send"}, mode : Mode, plan : Plan \cup {NoPlan}, Resolution : Resolution]
          \cup [op : {"SetSweep"}, result : SweepResult]
          \cup [op : {"SetTest"}, res : Resolution]
          \cup [op : {"SetMode"}, mode : Mode]

TypeOK ==
  /\ board \in [mode : Mode, plan : Plan \cup {NoPlan}, Resolution : Resolution,
                pos : Nat, stamp : Nat, from : Nat, cut : BOOLEAN]
  /\ queue \in Seq(Packet)
  /\ taken \in [{"cx"} -> Seq(Packet)]
  /\ deal \in Mode \cup {"idle"}
  /\ commands \in Nat
  /\ steps \in Seq(Step)
  /\ DataType \in Mode
  /\ SweepCXResult \in SweepResult
  /\ TestCXResult \in Resolution \cup {0}
  /\ last_PackNum \in Nat

Filled(f) == DOMAIN f.slot
Complete(f) == Filled(f) = 0..(f.size - 1)
SameStamp(f) == \A i, j \in Filled(f) : f.slot[i].stamp = f.slot[j].stamp

(* Whatever is reconfigured between two packets, a packet is written within the *)
(* memory the frame was given, which is for packets of its resolution.          *)
FrameFits ==
  \A f \in {sweepRes, chRes} \ {None} :
    /\ Filled(f) \subseteq 0..(f.size - 1)
    /\ \A i \in Filled(f) : f.slot[i].Resolution = f.FreqResolution

(* A sweep frame begun and sent under one plan, all of whose packets came       *)
(* through, holds every step of one pass, each in the place of its frequency.   *)
(* (The rounding of packIndex lets a first step be less than a band width off.) *)
SweepFrameIsOnePass ==
  sent # None /\ sent.kind = "sweep" /\ sent.frame.steady /\ ~sent.frame.cut =>
    /\ Complete(sent.frame)
    /\ SameStamp(sent.frame)
    /\ \A i \in Filled(sent.frame) :
         LET error == sent.frame.slot[i].CentreFreq - sent.head.StartFreq - i * BAND_WIDTH
         IN  /\ -BAND_WIDTH < error /\ error < BAND_WIDTH
             /\ i # 0 => error = 0

(* Whatever is dropped or reconfigured, a channel frame never mixes moments the *)
(* board counted in one go: neither with packets of before nor after a command, *)
(* unless the board began its count anew in between; as long as the count does  *)
(* not come round again while the frame is made.                                *)
ChannelFrameIsOneMoment ==
  sent # None /\ sent.kind = "channel" =>
    \A i, j \in Filled(sent.frame) :
      LET p == sent.frame.slot[i]
          q == sent.frame.slot[j]
      IN  p.from = q.from => p.stamp = q.stamp

(* With none dropped and nothing reconfigured it holds every channel.           *)
ChannelFrameIsComplete ==
  sent # None /\ sent.kind = "channel" /\ sent.frame.steady /\ ~sent.frame.cut =>
    Complete(sent.frame)
==============================================================================
