--------------------------- MODULE GatheringProofs ---------------------------
(***************************************************************************)
(* The commands, the self check and the data thread, for any sessions,     *)
(* resolutions, channels and commands.                                     *)
(*                                                                         *)
(* FrameMatchesHeader needs the types alone: only a setter changes what    *)
(* the parser expects, and it waits for the mutex of its mode.             *)
(*                                                                         *)
(* SelfCheckKeepsMode follows the commands round a self check.  WindowInv: *)
(* until the check has reported, the read thread has nothing to do; from   *)
(* then on it may name modes, and either the check's last step comes first *)
(* or it brings back the mode that was found.                              *)
(*                                                                         *)
(* ReportIsFresh and ParserFollowsBoard follow the steps that the one      *)
(* thread at work has left while no command was hurried (TurnInv).         *)
(* FreshInv counts those of a self check: how many are left, and which     *)
(* fields it has assigned so far, tells what CmdCX holds, what the board   *)
(* was told, which packets are still in flight and what the masks and the  *)
(* results hold.  ParserInv says of each difference between board and      *)
(* parser that a step is left which removes it.                            *)
(***************************************************************************)
EXTENDS Gathering, SequenceTheorems, TLAPS

Inv == TypeOK /\ FrameMatchesHeader

------------------------------------------------------------------------------
(* Handlers *)

LEMMA StepsOK ==
  /\ \A sm \in 1..2, f \in Freq : Calibrate(sm, f) \in Op
  /\ Acquire \in Op
  /\ \A f \in Freq : Send([StateMachine |-> 0, freq |-> f]) \in Op
  /\ Send([CorrectMode |-> 1]) \in Op
  /\ Send(<<>>) \in Op
  /\ CheckInner \in Op
  /\ \A f \in Freq : SetCmd(f) \in Op
  /\ \A m \in Mode : SetResult(m) \in Op /\ SetFreq(m) \in Op /\ SetMode(m) \in Op
  /\ \A r \in Resolution \cup {Unset} : ParseRes(r) \in Op
  /\ \A x \in {"StartThread", "Clear", "SaveMode", "TestInner", "AwaitInner", "TestOuter",
               "AwaitOuter", "ScheckReplay", "Restore", "RestoreMode"} : Simply(x) \in Op
<1>1. \A f \in Fields : Send(f) \in Op
  BY DEF Send, Op
<1>2. \A sm \in 1..2, f \in Freq :
        [StateMachine |-> sm, CorrectMode |-> 1, freq |-> f] \in Fields
  BY DEF Fields
<1>3. \A f \in Freq : [StateMachine |-> 0, freq |-> f] \in Fields
  BY DEF Fields
<1>4. /\ [CorrectMode |-> 0] \in Fields /\ [CorrectMode |-> 1] \in Fields /\ <<>> \in Fields
  BY DEF Fields
<1>5. [StateMachine |-> 3, Resolution |-> DefaultResolution, freq |-> "centre",
       CorrectMode |-> 0] \in Fields
  BY GatheringAssumption DEF Fields, Freq
<1>6. /\ \A f \in Freq : SetCmd(f) \in Op
      /\ \A m \in Mode : SetResult(m) \in Op /\ SetFreq(m) \in Op /\ SetMode(m) \in Op
      /\ \A r \in Resolution \cup {Unset} : ParseRes(r) \in Op
  BY DEF SetCmd, SetResult, SetFreq, SetMode, ParseRes, Op
<1>7. \A x \in {"StartThread", "Clear", "SaveMode", "TestInner", "AwaitInner", "TestOuter",
                "AwaitOuter", "ScheckReplay", "Restore", "RestoreMode"} : Simply(x) \in Op
  BY DEF Simply, Op
<1> QED
  BY <1>1, <1>2, <1>3, <1>4, <1>5, <1>6, <1>7 DEF Calibrate, Acquire, CheckInner

(* What the clients may send, and the steps that come of it. *)
LEMMA Commands ==
  ASSUME NEW c \in Command
  PROVE  /\ c.kind \in {"start", "end", "param", "check"}
         /\ c.kind = "start" => c.mode \in Mode /\ c.freq \in {"centre", "other"}
         /\ c.kind = "end" => c.mode \in Mode
         /\ c.kind = "param" => c.res \in Resolution \cup {Unset} /\ c.accepted \in BOOLEAN
BY GatheringAssumption DEF AllCommands

LEMMA Handlers ==
  ASSUME NEW c \in Command
  PROVE  /\ c.kind = "start" /\ c.mode = "CX_NB" =>
              Handler(c) = <<Send([StateMachine |-> 0, freq |-> c.freq]),
                             SetCmd(c.freq), SetMode("CX_NB")>>
         /\ c.kind = "start" /\ c.mode = "CX_WB" =>
              Handler(c) = <<Calibrate(1, c.freq), Acquire, SetCmd(c.freq),
                             SetFreq("CX_WB"), SetMode("CX_WB")>>
         /\ c.kind = "start" /\ c.mode = "CX_SWEEP" =>
              Handler(c) = <<Calibrate(1, c.freq), Acquire,
                             SetCmd("garbage"), SetFreq("CX_SWEEP"), SetMode("CX_SWEEP")>>
         /\ c.kind = "start" /\ c.mode = "TEST_CHANNEL" =>
              Handler(c) = <<Calibrate(2, c.freq), Acquire,
                             SetFreq("TEST_CHANNEL"), SetMode("TEST_CHANNEL")>>
         /\ c.kind = "end" => Handler(c) = <<SetMode(c.mode)>>
         /\ c.kind = "param" /\ c.accepted =>
              Handler(c) = <<ParseRes(c.res), Send(<<>>), SetResult("CX_WB"),
                             SetResult("CX_SWEEP"), SetResult("TEST_CHANNEL")>>
         /\ c.kind = "param" /\ ~c.accepted => Handler(c) = <<ParseRes(c.res)>>
         /\ c.kind = "check" => Handler(c) = <<Simply("StartThread")>>
<1>1. c.kind = "start" => Handler(c) = Start(c.mode, c.freq)
  BY DEF Handler
<1>2. c.kind = "end" => Handler(c) = <<SetMode(c.mode)>>
  BY DEF Handler
<1>3. c.kind = "param" => Handler(c) = SetCmdCXParm(c)
  BY DEF Handler
<1>4. c.kind = "check" => Handler(c) = <<Simply("StartThread")>>
  BY DEF Handler
<1>5. /\ Start("CX_NB", c.freq) = SetCmdNBData(c.freq)
      /\ Start("CX_WB", c.freq) = SetCmdWBData(c.freq)
      /\ Start("CX_SWEEP", c.freq) = SetCmdSweepData(c.freq)
      /\ Start("TEST_CHANNEL", c.freq) = SetCmdTestData(c.freq)
  BY DEF Start
<1>6. /\ c.accepted =>
           SetCmdCXParm(c) = <<ParseRes(c.res), Send(<<>>), SetResult("CX_WB"),
                               SetResult("CX_SWEEP"), SetResult("TEST_CHANNEL")>>
      /\ ~c.accepted => SetCmdCXParm(c) = <<ParseRes(c.res)>>
  BY DEF SetCmdCXParm
<1> QED
  BY <1>1, <1>2, <1>3, <1>4, <1>5, <1>6
     DEF SetCmdNBData, SetCmdWBData, SetCmdSweepData, SetCmdTestData

(* The steps of the handlers, as a set that may be chosen small. *)
LEMMA HandlerIn ==
  ASSUME NEW c \in Command, NEW S,
         /\ \A sm \in 1..2, f \in Freq : Calibrate(sm, f) \in S
         /\ Acquire \in S
         /\ \A f \in Freq : Send([StateMachine |-> 0, freq |-> f]) \in S
         /\ Send(<<>>) \in S
         /\ \A f \in Freq : SetCmd(f) \in S
         /\ \A m \in Mode : SetResult(m) \in S /\ SetFreq(m) \in S /\ SetMode(m) \in S
         /\ \A r \in Resolution \cup {Unset} : ParseRes(r) \in S
         /\ Simply("StartThread") \in S
  PROVE  Handler(c) \in Seq(S)
<1>0. Mode = {"TEST_CHANNEL", "CX_WB", "CX_NB", "CX_SWEEP"} /\ {"centre", "other", "garbage"} = Freq
  BY DEF Mode, Freq
<1>1. CASE c.kind = "start" /\ c.mode = "CX_NB"
  <2>1. /\ Send([StateMachine |-> 0, freq |-> c.freq]) \in S
        /\ SetCmd(c.freq) \in S /\ SetMode("CX_NB") \in S
    BY <1>0, <1>1, Commands
  <2>2. Handler(c) = <<Send([StateMachine |-> 0, freq |-> c.freq]), SetCmd(c.freq),
                     SetMode("CX_NB")>>
    BY <1>1, Handlers
  <2> QED
    BY <2>1, <2>2
<1>2. CASE c.kind = "start" /\ c.mode = "CX_WB"
  <2>1. /\ Calibrate(1, c.freq) \in S /\ Acquire \in S
        /\ SetCmd(c.freq) \in S /\ SetFreq("CX_WB") \in S /\ SetMode("CX_WB") \in S
    BY <1>0, <1>2, Commands
  <2>2. Handler(c) = <<Calibrate(1, c.freq), Acquire, SetCmd(c.freq),
                     SetFreq("CX_WB"), SetMode("CX_WB")>>
    BY <1>2, Handlers
  <2> QED
    BY <2>1, <2>2
<1>3. CASE c.kind = "start" /\ c.mode = "CX_SWEEP"
  <2>1. /\ Calibrate(1, c.freq) \in S /\ Acquire \in S
        /\ SetCmd("garbage") \in S /\ SetFreq("CX_SWEEP") \in S
        /\ SetMode("CX_SWEEP") \in S
    BY <1>0, <1>3, Commands
  <2>2. Handler(c) = <<Calibrate(1, c.freq), Acquire, SetCmd("garbage"),
                     SetFreq("CX_SWEEP"), SetMode("CX_SWEEP")>>
    BY <1>3, Handlers
  <2> QED
    BY <2>1, <2>2
<1>4. CASE c.kind = "start" /\ c.mode = "TEST_CHANNEL"
  <2>1. /\ Calibrate(2, c.freq) \in S /\ Acquire \in S
        /\ SetFreq("TEST_CHANNEL") \in S /\ SetMode("TEST_CHANNEL") \in S
    BY <1>0, <1>4, Commands
  <2>2. Handler(c) = <<Calibrate(2, c.freq), Acquire, SetFreq("TEST_CHANNEL"),
                     SetMode("TEST_CHANNEL")>>
    BY <1>4, Handlers
  <2> QED
    BY <2>1, <2>2
<1>5. CASE c.kind = "end"
  <2>1. /\ SetMode(c.mode) \in S
    BY <1>0, <1>5, Commands
  <2>2. Handler(c) = <<SetMode(c.mode)>>
    BY <1>5, Handlers
  <2> QED
    BY <2>1, <2>2
<1>6. CASE c.kind = "param" /\ c.accepted
  <2>1. /\ ParseRes(c.res) \in S /\ Send(<<>>) \in S /\ SetResult("CX_WB") \in S
        /\ SetResult("CX_SWEEP") \in S /\ SetResult("TEST_CHANNEL") \in S
    BY <1>0, <1>6, Commands
  <2>2. Handler(c) = <<ParseRes(c.res), Send(<<>>), SetResult("CX_WB"), SetResult("CX_SWEEP"),
                     SetResult("TEST_CHANNEL")>>
    BY <1>6, Handlers
  <2> QED
    BY <2>1, <2>2
<1>7. CASE c.kind = "param" /\ ~c.accepted
  <2>1. /\ ParseRes(c.res) \in S
    BY <1>0, <1>7, Commands
  <2>2. Handler(c) = <<ParseRes(c.res)>>
    BY <1>7, Handlers
  <2> QED
    BY <2>1, <2>2
<1>8. CASE c.kind = "check"
  <2>1. /\ Simply("StartThread") \in S
    BY <1>0, <1>8, Commands
  <2>2. Handler(c) = <<Simply("StartThread")>>
    BY <1>8, Handlers
  <2> QED
    BY <2>1, <2>2
<1> QED
  BY <1>0, <1>1, <1>2, <1>3, <1>4, <1>5, <1>6, <1>7, <1>8, Commands

LEMMA HandlerOK ==
  ASSUME NEW c \in Command
  PROVE  Handler(c) \in Seq(Op)
BY StepsOK, HandlerIn

LEMMA SelfCheckOK == SelfCheck \in Seq(Op) /\ Len(SelfCheck) = 13
<1>1. /\ SetResult("TEST_CHANNEL") \in Op /\ SetMode("TEST_CHANNEL") \in Op
      /\ Send([CorrectMode |-> 1]) \in Op /\ CheckInner \in Op
  BY StepsOK DEF Mode
<1>2. /\ Simply("Clear") \in Op /\ Simply("SaveMode") \in Op /\ Simply("TestInner") \in Op
      /\ Simply("AwaitInner") \in Op /\ Simply("TestOuter") \in Op /\ Simply("AwaitOuter") \in Op
      /\ Simply("ScheckReplay") \in Op /\ Simply("Restore") \in Op
      /\ Simply("RestoreMode") \in Op
  BY StepsOK
<1> QED
  BY <1>1, <1>2 DEF SelfCheck

(* What a step of a handler says is of the right kind. *)
LEMMA HeadOK ==
  ASSUME TypeOK, NEW t \in Thread, steps[t] # <<>>
  PROVE  /\ Head(steps[t]) \in Op /\ Tail(steps[t]) \in Seq(Op)
         /\ At(t, "send") => Head(steps[t]).fields \in Fields
         /\ At(t, "SetCmd") => Head(steps[t]).freq \in Freq
         /\ At(t, "Parse") => Head(steps[t]).res \in Resolution \cup {Unset}
         /\ At(t, "SetResult") \/ At(t, "SetFreq") \/ At(t, "SetMode")
              => Head(steps[t]).mode \in Mode
<1>1. steps[t] \in Seq(Op)
  BY DEF TypeOK
<1>2. Head(steps[t]) \in Op /\ Tail(steps[t]) \in Seq(Op)
  BY <1>1
<1> DEFINE x == Head(steps[t])
<1>3. /\ x.op = "send" => x.fields \in Fields
      /\ x.op = "SetCmd" => x.freq \in Freq
      /\ x.op = "Parse" => x.res \in Resolution \cup {Unset}
      /\ x.op \in {"SetResult", "SetFreq", "SetMode"} => x.mode \in Mode
  <2>1. x \in Op
    BY <1>2
  <2> HIDE DEF x
  <2> QED
    BY <2>1 DEF Op
<1> QED
  BY <1>2, <1>3 DEF At

LEMMA AdvanceOK ==
  ASSUME TypeOK, NEW t \in Thread, steps[t] # <<>>, Advance(t)
  PROVE  /\ steps' \in [Thread -> Seq(Op)]
         /\ steps'[t] = Tail(steps[t])
         /\ \A u \in Thread : u # t => steps'[u] = steps[u]
<1>1. steps \in [Thread -> Seq(Op)] /\ Tail(steps[t]) \in Seq(Op)
  BY HeadOK DEF TypeOK
<1> QED
  BY <1>1 DEF Advance

LEMMA Threads ==
  /\ \A s \in Session : Reader(s) \in Thread /\ Checker(s) \in Thread
  /\ \A s, r \in Session : /\ Reader(s) # Checker(r)
                           /\ Reader(s) = Reader(r) => s = r
                           /\ Checker(s) = Checker(r) => s = r
  /\ \A s \in Session : Owner(Reader(s)) = s /\ Owner(Checker(s)) = s
  /\ \A t \in Thread : /\ Owner(t) \in Session
                       /\ t = Reader(Owner(t)) \/ t = Checker(Owner(t))
BY DEF Reader, Checker, Thread, Owner

------------------------------------------------------------------------------
(* Types and headers *)

LEMMA InitInv == Init => Inv
<1> SUFFICES ASSUME Init PROVE Inv
  OBVIOUS
<1> USE GatheringAssumption DEF Init, Mode, Freq
<1>1. \A s \in Session : CmdCX[s] \in Config
  BY DEF Config
<1>2. board \in Config /\ NoBoard \in Config
  BY DEF Config, NoBoard
<1>3. deal \in [pc : {"idle", "locking", "sending"}, packet : Packet, mode : Mode]
  <2>1. NoPacket \in Packet
    BY <1>2 DEF NoPacket, Packet
  <2> QED
    BY <2>1 DEF Idle
<1>4. steps \in [Thread -> Seq(Op)] /\ assigned \in [Thread -> SUBSET FieldName]
  OBVIOUS
<1>5. TypeOK
  BY <1>1, <1>2, <1>3, <1>4 DEF TypeOK
<1> QED
  BY <1>5 DEF Inv, FrameMatchesHeader, Idle

LEMMA HurriedOK ==
  ASSUME TypeOK, NEW s \in Session, Receive(s)
  PROVE  /\ hurried' \in 0..MaxHurried
         /\ hurried' = 0 => hurried = 0 /\ Quiet
         /\ hurried = 0 /\ Quiet => hurried' = 0
<1>1. MaxHurried \in Nat /\ MaxHurried # 0 /\ hurried \in 0..MaxHurried
  BY GatheringAssumption DEF TypeOK
<1>2. hurried' = IF hurried = MaxHurried \/ (hurried = 0 /\ Quiet) THEN hurried ELSE hurried + 1
  BY DEF Receive
<1> QED
  BY <1>1, <1>2

LEMMA ReceiveInv ==
  ASSUME Inv, NEW s \in Session, Receive(s) PROVE Inv'
<1>1. PICK c \in Command :
        /\ steps' = [steps EXCEPT ![Reader(s)] = Handler(c)]
        /\ last' = IF c.kind \in {"start", "end"} THEN c ELSE last
  BY DEF Receive
<1>2. /\ UNCHANGED <<parameterVars, testVars, CmdCX, assigned, saved, connected, round, found,
                      board, queue, deal>>
      /\ hurried' \in 0..MaxHurried
  BY HurriedOK DEF Receive, Inv
<1>3. steps' \in [Thread -> Seq(Op)]
  BY <1>1, HandlerOK, Threads DEF Inv, TypeOK
<1>4. last' \in [kind : {"start"}, mode : Mode, freq : {"centre", "other"}]
                \cup [kind : {"end"}, mode : Mode]
  <2>1. c \in AllCommands
    BY GatheringAssumption
  <2>2. c.kind \in {"start", "end"} =>
          c \in [kind : {"start"}, mode : Mode, freq : {"centre", "other"}]
                  \cup [kind : {"end"}, mode : Mode]
    BY <2>1 DEF AllCommands
  <2> QED
    BY <1>1, <2>2 DEF Inv, TypeOK
<1>5. TypeOK'
  BY <1>2, <1>3, <1>4 DEF parameterVars, testVars, Inv, TypeOK
<1> QED
  BY <1>2, <1>5 DEF parameterVars, Inv, FrameMatchesHeader, Matches

LEMMA ThrowsInv ==
  ASSUME Inv, NEW s \in Session, CommandThrows(s) PROVE Inv'
<1>1. /\ steps' = [steps EXCEPT ![Reader(s)] = <<>>]
      /\ connected' = [connected EXCEPT ![s] = FALSE]
      /\ assigned' = [assigned EXCEPT ![Reader(s)] = {}]
      /\ UNCHANGED <<parameterVars, testVars, CmdCX, saved, round, last, hurried, found, board,
                     queue, deal>>
  BY DEF CommandThrows
<1>2. steps' \in [Thread -> Seq(Op)] /\ assigned' \in [Thread -> SUBSET FieldName]
  <2>1. <<>> \in Seq(Op) /\ steps \in [Thread -> Seq(Op)] /\ assigned \in [Thread -> SUBSET FieldName]
    BY DEF Inv, TypeOK
  <2> QED
    BY <1>1, <2>1
<1>3. connected' \in [Session -> BOOLEAN]
  BY <1>1 DEF Inv, TypeOK
<1>4. TypeOK'
  BY <1>1, <1>2, <1>3 DEF parameterVars, testVars, Inv, TypeOK
<1> QED
  BY <1>1, <1>4 DEF parameterVars, Inv, FrameMatchesHeader, Matches

LEMMA OwnCmd ==
  ASSUME TypeOK, NEW t \in Thread
  PROVE  Owner(t) \in Session /\ CmdCX \in [Session -> Config] /\ CmdCX[Owner(t)] \in Config
<1>1. Owner(t) \in Session
  BY DEF Thread, Owner
<1>2. CmdCX \in [Session -> Config]
  BY DEF TypeOK
<1> QED
  BY <1>1, <1>2

(* What is assigned to a field of CmdCX is of its type. *)
LEMMA FieldsOK ==
  ASSUME NEW f \in Fields \cup {[Resolution |-> r, freq |-> x, StateMachine |-> 1] :
                                 r \in Resolution, x \in Freq}
  PROVE  /\ DOMAIN f \subseteq FieldName
         /\ "StateMachine" \in DOMAIN f => f["StateMachine"] \in 0..3
         /\ "Resolution" \in DOMAIN f => f["Resolution"] \in Resolution
         /\ "freq" \in DOMAIN f => f["freq"] \in Freq
         /\ "CorrectMode" \in DOMAIN f => f["CorrectMode"] \in 0..1
<1> USE DEF FieldName
<1>1. CASE f \in [StateMachine : 0..3, CorrectMode : 0..1, freq : Freq]
  BY <1>1
<1>2. CASE f \in [StateMachine : 0..3, freq : Freq]
  BY <1>2
<1>3. CASE f \in [StateMachine : 0..3, Resolution : Resolution, freq : Freq, CorrectMode : 0..1]
  BY <1>3
<1>4. CASE f \in [CorrectMode : 0..1]
  BY <1>4
<1>5. CASE f = <<>>
  <2>1. \A x : x \notin 1..0
    OBVIOUS
  <2>2. DOMAIN f = 1..0
    BY <1>5
  <2> QED
    BY <2>1, <2>2
<1>6. CASE \E r \in Resolution, x \in Freq : f = [Resolution |-> r, freq |-> x, StateMachine |-> 1]
  BY <1>6
<1> QED
  BY <1>1, <1>2, <1>3, <1>4, <1>5, <1>6 DEF Fields

LEMMA ConfigExcept ==
  ASSUME NEW cmd \in Config
  PROVE  /\ \A v \in 0..3 : [cmd EXCEPT !["StateMachine"] = v] \in Config
         /\ \A v \in Resolution \cup {Unset} : [cmd EXCEPT !["Resolution"] = v] \in Config
         /\ \A v \in Freq : [cmd EXCEPT !["freq"] = v] \in Config
         /\ \A v \in 0..1 : [cmd EXCEPT !["CorrectMode"] = v] \in Config
         /\ \A v \in Nat : [cmd EXCEPT !.round = v] \in Config
BY DEF Config

LEMMA ToAssignOK ==
  ASSUME TypeOK, NEW t \in Thread, ToSend(t)
  PROVE  /\ DOMAIN ToAssign(t) \subseteq FieldName
         /\ "StateMachine" \in DOMAIN ToAssign(t) => ToAssign(t)["StateMachine"] \in 0..3
         /\ "Resolution" \in DOMAIN ToAssign(t) => ToAssign(t)["Resolution"] \in Resolution
         /\ "freq" \in DOMAIN ToAssign(t) => ToAssign(t)["freq"] \in Freq
         /\ "CorrectMode" \in DOMAIN ToAssign(t) => ToAssign(t)["CorrectMode"] \in 0..1
<1>1. CASE At(t, "Restore")
  <2>1. ToAssign(t) = Restored
    BY <1>1 DEF ToAssign
  <2>2. Restored \in {[Resolution |-> r, freq |-> x, StateMachine |-> 1] :
                        r \in Resolution, x \in Freq}
    BY DEF Restored, TypeOK
  <2> QED
    BY <2>1, <2>2, FieldsOK
<1>2. CASE ~At(t, "Restore")
  <2>1. ToAssign(t) = Head(steps[t]).fields /\ At(t, "send") /\ steps[t] # <<>>
    BY <1>2 DEF ToAssign, ToSend, At
  <2>2. Head(steps[t]).fields \in Fields
    BY <2>1, HeadOK
  <2> QED
    BY <2>1, <2>2, FieldsOK
<1> QED
  BY <1>1, <1>2

(* One field of the session's CmdCX changes. *)
LEMMA OneField ==
  ASSUME TypeOK, NEW t \in Thread, AssignField(t)
  PROVE  /\ ToSend(t)
         /\ CmdCX' \in [Session -> Config] /\ assigned' \in [Thread -> SUBSET FieldName]
         /\ \A s \in Session : s # Owner(t) => CmdCX'[s] = CmdCX[s]
         /\ \A u \in Thread : u # t => assigned'[u] = assigned[u]
         /\ \E k \in DOMAIN ToAssign(t) :
              /\ assigned'[t] = assigned[t] \cup {k}
              /\ CmdCX'[Owner(t)][k] = ToAssign(t)[k]
              /\ \A j \in FieldName : j # k => CmdCX'[Owner(t)][j] = CmdCX[Owner(t)][j]
<1> DEFINE s == Owner(t)
<1>1. PICK k \in DOMAIN ToAssign(t) :
        /\ CmdCX' = [CmdCX EXCEPT ![s] = [@ EXCEPT ![k] = ToAssign(t)[k]]]
        /\ assigned' = [assigned EXCEPT ![t] = @ \cup {k}]
  BY DEF AssignField
<1>2. /\ ToSend(t) /\ s \in Session /\ CmdCX \in [Session -> Config] /\ CmdCX[s] \in Config
      /\ assigned \in [Thread -> SUBSET FieldName]
  BY OwnCmd DEF AssignField, TypeOK
<1> DEFINE v == ToAssign(t)[k]  cmd == [CmdCX[s] EXCEPT ![k] = v]
<1>3. k \in FieldName
  BY <1>2, ToAssignOK
<1>4. cmd \in Config
  BY <1>2, <1>3, ToAssignOK, ConfigExcept DEF FieldName
<1>5. FieldName \subseteq DOMAIN CmdCX[s]
  BY <1>2 DEF Config, FieldName
<1>6. cmd[k] = v /\ \A j \in FieldName : j # k => cmd[j] = CmdCX[s][j]
  BY <1>3, <1>5
<1>7. CmdCX' = [CmdCX EXCEPT ![s] = cmd]
  BY <1>1
<1> HIDE DEF cmd, v
<1>8. CmdCX'[s] = cmd /\ CmdCX' \in [Session -> Config]
  BY <1>2, <1>4, <1>7
<1> QED
  BY <1>1, <1>2, <1>3, <1>6, <1>7, <1>8 DEF v

LEMMA AssignFieldInv ==
  ASSUME Inv, NEW t \in Thread, AssignField(t) PROVE Inv'
<1>1. UNCHANGED <<parameterVars, testVars, saved, connected, round, last, hurried, found, steps,
                  board, queue, deal>>
  BY DEF AssignField
<1>2. CmdCX' \in [Session -> Config] /\ assigned' \in [Thread -> SUBSET FieldName]
  BY OneField DEF Inv
<1>3. TypeOK'
  BY <1>1, <1>2 DEF parameterVars, testVars, Inv, TypeOK
<1> QED
  BY <1>1, <1>3 DEF parameterVars, Inv, FrameMatchesHeader, Matches

(* The board gets the CmdCX of the session. *)
LEMMA Sent ==
  ASSUME TypeOK, NEW t \in Thread, SendCXCmd(t)
  PROVE  /\ ToSend(t) /\ DOMAIN ToAssign(t) \subseteq assigned[t]
         /\ steps[t] # <<>> /\ Advance(t)
         /\ board' \in Config
         /\ \A k \in FieldName : board'[k] = CmdCX[Owner(t)][k]
         /\ board'.round = IF t = Checker(Owner(t)) /\ At(t, "send") THEN round ELSE 0
         /\ assigned' \in [Thread -> SUBSET FieldName] /\ assigned'[t] = {}
         /\ \A u \in Thread : u # t => assigned'[u] = assigned[u]
<1> DEFINE n == IF t = Checker(Owner(t)) /\ At(t, "send") THEN round ELSE 0
           cmd == CmdCX[Owner(t)]
<1>1. /\ ToSend(t) /\ DOMAIN ToAssign(t) \subseteq assigned[t] /\ steps[t] # <<>> /\ Advance(t)
      /\ board' = [cmd EXCEPT !.round = n] /\ assigned' = [assigned EXCEPT ![t] = {}]
  BY DEF SendCXCmd, ToSend, At
<1>2. cmd \in Config /\ n \in Nat /\ assigned \in [Thread -> SUBSET FieldName]
  BY OwnCmd DEF TypeOK
<1>3. assigned' \in [Thread -> SUBSET FieldName] /\ assigned'[t] = {}
        /\ \A u \in Thread : u # t => assigned'[u] = assigned[u]
  BY <1>1, <1>2
<1> HIDE DEF n, cmd
<1>4. board' \in Config
  BY <1>1, <1>2, ConfigExcept
<1>5. board'.round = n /\ \A k \in FieldName : board'[k] = cmd[k]
  BY <1>1, <1>2 DEF Config, FieldName
<1> QED
  BY <1>1, <1>3, <1>4, <1>5 DEF n, cmd

LEMMA SendInv ==
  ASSUME Inv, NEW t \in Thread, SendCXCmd(t) PROVE Inv'
<1>1. UNCHANGED <<parameterVars, testVars, CmdCX, saved, connected, round, last, hurried, found,
                  queue, deal>>
  BY DEF SendCXCmd
<1>2. /\ steps[t] # <<>> /\ Advance(t) /\ board' \in Config
      /\ assigned' \in [Thread -> SUBSET FieldName]
  BY Sent DEF Inv
<1>3. steps' \in [Thread -> Seq(Op)]
  BY <1>2, AdvanceOK DEF Inv
<1>4. TypeOK'
  BY <1>1, <1>2, <1>3 DEF parameterVars, testVars, Inv, TypeOK
<1> QED
  BY <1>1, <1>4 DEF parameterVars, Inv, FrameMatchesHeader, Matches

LEMMA ParseInv ==
  ASSUME Inv, NEW t \in Thread, Parse(t) PROVE Inv'
<1>1. /\ At(t, "Parse") /\ steps[t] # <<>> /\ Advance(t)
      /\ UNCHANGED <<CenterFreq, DataType, FreqResolution, testVars, assigned, saved, connected,
                     round, last, hurried, found, board, queue, deal>>
  BY DEF Parse, At
<1>2. steps' \in [Thread -> Seq(Op)]
  BY <1>1, AdvanceOK DEF Inv
<1>3. CmdResolution' \in Resolution /\ CmdCX' \in [Session -> Config]
  <2> DEFINE r == Head(steps[t]).res
  <2>1. CmdCX \in [Session -> Config] /\ CmdResolution \in Resolution /\ Owner(t) \in Session
          /\ CmdCX[Owner(t)] \in Config
    BY OwnCmd DEF Inv, TypeOK
  <2>2. CASE r = Unset
    BY <2>1, <2>2 DEF Parse
  <2>3. CASE r # Unset
    <3>1. r \in Resolution
      BY <1>1, <2>3, HeadOK DEF Inv
    <3>2. /\ CmdResolution' = r
          /\ CmdCX' = [CmdCX EXCEPT ![Owner(t)] = [CmdCX[Owner(t)] EXCEPT !.Resolution = r]]
      BY <2>3 DEF Parse
    <3> HIDE DEF r
    <3>3. [CmdCX[Owner(t)] EXCEPT !.Resolution = r] \in Config
      BY <2>1, <3>1 DEF Config
    <3> QED
      BY <2>1, <3>1, <3>2, <3>3
  <2> QED
    BY <2>2, <2>3
<1>4. TypeOK'
  BY <1>1, <1>2, <1>3 DEF testVars, Inv, TypeOK
<1> QED
  BY <1>1, <1>4 DEF Inv, FrameMatchesHeader, Matches

(* A setter changes what the parser of its mode expects, and so waits for the mutex. *)
LEMMA SetterInv ==
  ASSUME Inv, NEW t \in Thread, SetXXCXResult(t) \/ SetXXCXFreq(t) PROVE Inv'
<1> DEFINE m == Head(steps[t]).mode
<1>1. /\ At(t, "SetResult") \/ At(t, "SetFreq")
      /\ steps[t] # <<>> /\ Advance(t) /\ MutexFree(m)
      /\ UNCHANGED <<CmdResolution, CenterFreq, DataType, testVars, sessionVars, board, queue,
                     deal>>
  BY DEF SetXXCXResult, SetXXCXFreq, At
<1>2. steps' \in [Thread -> Seq(Op)] /\ m \in Mode
  BY <1>1, AdvanceOK, HeadOK DEF Inv
<1>3. \E r \in Resolution \cup {Unset} : FreqResolution' = [FreqResolution EXCEPT ![m] = r]
  <2>1. FreqResolution \in [Mode -> Resolution \cup {Unset}] /\ CmdResolution \in Resolution
    BY DEF Inv, TypeOK
  <2>2. CASE SetXXCXResult(t)
    <3>1. CmdCX[Owner(t)].Resolution \in Resolution \cup {Unset}
      BY OwnCmd DEF Inv, Config
    <3> QED
      BY <2>2, <3>1 DEF SetXXCXResult
  <2>3. CASE SetXXCXFreq(t)
    <3>1. CASE m = "CX_SWEEP"
      BY <2>1, <2>3, <3>1 DEF SetXXCXFreq
    <3>2. CASE m # "CX_SWEEP"
      <4>1. FreqResolution' = [FreqResolution EXCEPT ![m] = FreqResolution[m]]
        BY <1>2, <2>1, <2>3, <3>2 DEF SetXXCXFreq
      <4> QED
        BY <1>2, <2>1, <4>1
    <3> QED
      BY <3>1, <3>2
  <2> QED
    BY <2>2, <2>3
<1> HIDE DEF m
<1>4. /\ FreqResolution' \in [Mode -> Resolution \cup {Unset}]
      /\ \A n \in Mode : n # m => FreqResolution'[n] = FreqResolution[n]
  BY <1>2, <1>3 DEF Inv, TypeOK
<1>5. TypeOK'
  BY <1>1, <1>2, <1>4 DEF testVars, sessionVars, Inv, TypeOK
<1>6. FrameMatchesHeader'
  <2>1. deal.mode \in Mode
    BY DEF Inv, TypeOK
  <2> QED
    BY <1>1, <1>4, <2>1 DEF Inv, FrameMatchesHeader, Matches, MutexFree
<1> QED
  BY <1>5, <1>6 DEF Inv

LEMMA AssignInv ==
  ASSUME Inv, NEW t \in Thread, SetCmdFreq(t) \/ SetDataType(t) PROVE Inv'
<1>1. /\ steps[t] # <<>> /\ Advance(t)
      /\ UNCHANGED <<CmdResolution, FreqResolution, testVars, sessionVars, board, queue, deal>>
      /\ \/ At(t, "SetCmd") /\ CenterFreq' = Head(steps[t]).freq /\ DataType' = DataType
         \/ At(t, "SetMode") /\ DataType' = Head(steps[t]).mode /\ CenterFreq' = CenterFreq
  BY DEF SetCmdFreq, SetDataType, At
<1>2. steps' \in [Thread -> Seq(Op)]
  BY <1>1, AdvanceOK DEF Inv
<1>3. CenterFreq' \in Freq /\ DataType' \in Mode
  BY <1>1, HeadOK DEF Inv, TypeOK
<1>4. TypeOK'
  BY <1>1, <1>2, <1>3 DEF testVars, sessionVars, Inv, TypeOK
<1> QED
  BY <1>1, <1>4 DEF Inv, FrameMatchesHeader, Matches

LEMMA StartThreadInv ==
  ASSUME Inv, NEW s \in Session, StartThread(s) PROVE Inv'
<1>1. /\ steps[Reader(s)] # <<>> /\ round' = round + 1 /\ found' = DataType
      /\ steps' = [steps EXCEPT ![Reader(s)] = Tail(@), ![Checker(s)] = SelfCheck]
      /\ UNCHANGED <<parameterVars, testVars, CmdCX, assigned, saved, connected, last, hurried,
                     board, queue, deal>>
  BY DEF StartThread, At
<1>2. steps' \in [Thread -> Seq(Op)]
  <2>1. Tail(steps[Reader(s)]) \in Seq(Op) /\ SelfCheck \in Seq(Op)
    BY <1>1, HeadOK, Threads, SelfCheckOK DEF Inv
  <2> QED
    BY <1>1, <2>1, Threads DEF Inv, TypeOK
<1>3. round' \in Nat
  BY <1>1 DEF Inv, TypeOK
<1>4. TypeOK'
  BY <1>1, <1>2, <1>3 DEF parameterVars, testVars, Inv, TypeOK
<1> QED
  BY <1>1, <1>4 DEF parameterVars, Inv, FrameMatchesHeader, Matches

(* The steps of a self check. *)
LEMMA ClearInv ==
  ASSUME Inv, NEW s \in Session, Clear(s) PROVE Inv'
<1>1. /\ steps[Checker(s)] # <<>> /\ Advance(Checker(s)) /\ Checker(s) \in Thread
      /\ UNCHANGED <<parameterVars, isTestingInner, isTestingOuter, sessionVars, board, queue,
                     deal>>
  BY Threads DEF Clear, At
<1>2. steps' \in [Thread -> Seq(Op)]
  BY <1>1, AdvanceOK DEF Inv
<1>3. SelfTestInner' \in [Channel -> Nat] /\ SelfTestOuter' \in [Channel -> Nat]
  BY DEF Clear
<1>4. TypeOK'
  BY <1>1, <1>2, <1>3 DEF parameterVars, sessionVars, Inv, TypeOK
<1> QED
  BY <1>1, <1>4 DEF parameterVars, Inv, FrameMatchesHeader, Matches

LEMMA CheckInv ==
  ASSUME Inv, NEW s \in Session,
         SaveMode(s) \/ TestInner(s) \/ TestOuter(s) \/ ScheckReplay(s) \/ RestoreMode(s)
  PROVE  Inv'
<1>1. /\ steps[Checker(s)] # <<>> /\ Advance(Checker(s)) /\ Checker(s) \in Thread
      /\ UNCHANGED <<CmdResolution, CenterFreq, FreqResolution, SelfTestInner, SelfTestOuter,
                     CmdCX, assigned, connected, round, last, hurried, found, board, queue,
                     deal>>
  BY Threads DEF SaveMode, TestInner, TestOuter, ScheckReplay, RestoreMode, At, parameterVars,
     testVars, sessionVars
<1>2. steps' \in [Thread -> Seq(Op)]
  BY <1>1, AdvanceOK DEF Inv
<1>3. saved' \in [Session -> Mode] /\ DataType' \in Mode
  <2>1. saved \in [Session -> Mode] /\ DataType \in Mode /\ "CX_WB" \in Mode
    BY DEF Inv, TypeOK, Mode
  <2>2. CASE SaveMode(s)
    BY <2>1, <2>2 DEF SaveMode, parameterVars
  <2>3. CASE RestoreMode(s)
    BY <2>1, <2>3 DEF RestoreMode
  <2>4. CASE TestInner(s) \/ TestOuter(s) \/ ScheckReplay(s)
    BY <2>1, <2>4 DEF TestInner, TestOuter, ScheckReplay, parameterVars, sessionVars
  <2> QED
    BY <2>2, <2>3, <2>4
<1>4. isTestingInner' \in SUBSET Channel /\ isTestingOuter' \in SUBSET Channel
  BY DEF SaveMode, TestInner, TestOuter, ScheckReplay, RestoreMode, testVars, Inv, TypeOK
<1>5. TypeOK'
  BY <1>1, <1>2, <1>3, <1>4 DEF Inv, TypeOK
<1> QED
  BY <1>1, <1>5 DEF Inv, FrameMatchesHeader, Matches

(* The board and the data thread. *)
LEMMA PacketOK ==
  ASSUME TypeOK, NEW ch \in Channel \cup {NoChannel}, NEW w \in {0, 1}
  PROVE  /\ PacketOf(ch, w) \in Packet /\ PacketOf(ch, w).work = w
         /\ w = 0 => PacketOf(ch, w).config = board
<1>1. board \in Config /\ board.Resolution \in Resolution \cup {Unset}
  BY DEF TypeOK, Config
<1>2. [NoBoard EXCEPT !.Resolution = board.Resolution] \in Config
  BY <1>1 DEF NoBoard, Config, Freq
<1> QED
  BY <1>1, <1>2 DEF PacketOf, Packet

LEMMA EmitInv ==
  ASSUME Inv, NEW ch \in Channel \cup {NoChannel}, Emit(ch) PROVE Inv'
<1>1. PICK w \in {0, 1} : queue' = Append(queue, PacketOf(ch, w))
  BY DEF Emit
<1>2. /\ Len(queue) < MaxQueue /\ MaxQueue \in Nat
      /\ UNCHANGED <<parameterVars, testVars, sessionVars, steps, board, deal>>
  BY GatheringAssumption DEF Emit
<1>3. PacketOf(ch, w) \in Packet
  BY PacketOK DEF Inv
<1>4. queue' \in Seq(Packet) /\ Len(queue') <= MaxQueue
  <2>1. queue \in Seq(Packet)
    BY DEF Inv, TypeOK
  <2> QED
    BY <1>1, <1>2, <1>3, <2>1
<1>5. TypeOK'
  BY <1>2, <1>4 DEF parameterVars, testVars, sessionVars, Inv, TypeOK
<1> QED
  BY <1>2, <1>5 DEF parameterVars, Inv, FrameMatchesHeader, Matches

LEMMA TakeInv ==
  ASSUME Inv, Take PROVE Inv'
<1>1. /\ queue # <<>> /\ queue' = Tail(queue)
      /\ deal' = [pc |-> "locking", packet |-> Head(queue), mode |-> DataType]
      /\ UNCHANGED <<parameterVars, testVars, sessionVars, steps, board>>
  BY DEF Take
<1>2. /\ queue \in Seq(Packet) /\ Len(queue) <= MaxQueue /\ MaxQueue \in Nat /\ DataType \in Mode
  BY GatheringAssumption DEF Inv, TypeOK
<1>3. Head(queue) \in Packet /\ queue' \in Seq(Packet) /\ Len(queue') <= MaxQueue
  BY <1>1, <1>2
<1>4. deal' \in [pc : {"idle", "locking", "sending"}, packet : Packet, mode : Mode]
  BY <1>1, <1>2, <1>3
<1>5. TypeOK'
  BY <1>1, <1>3, <1>4 DEF parameterVars, testVars, sessionVars, Inv, TypeOK
<1> QED
  BY <1>1, <1>5 DEF Inv, FrameMatchesHeader

LEMMA IdleOK == Idle \in [pc : {"idle", "locking", "sending"}, packet : Packet, mode : Mode]
<1>1. NoBoard \in Config
  BY GatheringAssumption DEF Config, NoBoard, Freq
<1>2. NoPacket \in Packet
  BY <1>1 DEF NoPacket, Packet
<1> QED
  BY <1>2 DEF Idle, Mode

LEMMA DiscardInv ==
  ASSUME Inv, Discard \/ SendMsgReturns PROVE Inv'
<1>1. /\ deal' = Idle /\ UNCHANGED <<parameterVars, testVars, sessionVars, steps, board, queue>>
  BY DEF Discard, SendMsgReturns
<1>2. TypeOK'
  BY <1>1, IdleOK DEF parameterVars, testVars, sessionVars, Inv, TypeOK
<1> QED
  BY <1>1, <1>2 DEF Idle, Inv, FrameMatchesHeader

(* A channel is entered only with a packet of that channel. *)
LEMMA ToSelfCheckOK ==
  ASSUME TypeOK, NEW p \in Packet, Matches(p, deal.mode), ToSelfCheck(p)
  PROVE  /\ isTestingInner' \in SUBSET Channel /\ isTestingOuter' \in SUBSET Channel
         /\ SelfTestInner' \in [Channel -> Nat] /\ SelfTestOuter' \in [Channel -> Nat]
<1>1. p.config.round \in Nat
  BY DEF Packet, Config
<1>2. deal.mode = "TEST_CHANNEL" => p.channel \in Channel
  BY DEF Matches
<1>3. CASE isTestingInner # Channel /\ Measures(p, 0)
  BY <1>1, <1>2, <1>3 DEF ToSelfCheck, Measures, TypeOK
<1>4. CASE ~(isTestingInner # Channel /\ Measures(p, 0)) /\ isTestingOuter # Channel /\ Measures(p, 1)
  BY <1>1, <1>2, <1>4 DEF ToSelfCheck, Measures, TypeOK
<1>5. CASE /\ ~(isTestingInner # Channel /\ Measures(p, 0))
           /\ ~(isTestingOuter # Channel /\ Measures(p, 1))
  BY <1>5 DEF ToSelfCheck, testVars, TypeOK
<1> QED
  BY <1>3, <1>4, <1>5

LEMMA BuildInv ==
  ASSUME Inv, BuildFrame PROVE Inv'
<1>1. /\ Matches(deal.packet, deal.mode) /\ ToSelfCheck(deal.packet)
      /\ deal' = [deal EXCEPT !.pc = "sending"]
      /\ UNCHANGED <<parameterVars, sessionVars, steps, board, queue>>
  BY DEF BuildFrame
<1>2. deal \in [pc : {"idle", "locking", "sending"}, packet : Packet, mode : Mode]
  BY DEF Inv, TypeOK
<1>3. /\ deal' \in [pc : {"idle", "locking", "sending"}, packet : Packet, mode : Mode]
      /\ deal'.packet = deal.packet /\ deal'.mode = deal.mode
  BY <1>1, <1>2
<1>4. /\ isTestingInner' \in SUBSET Channel /\ isTestingOuter' \in SUBSET Channel
      /\ SelfTestInner' \in [Channel -> Nat] /\ SelfTestOuter' \in [Channel -> Nat]
  <2>1. deal.packet \in Packet
    BY <1>2
  <2> QED
    BY <1>1, <2>1, ToSelfCheckOK DEF Inv
<1>5. TypeOK'
  BY <1>1, <1>3, <1>4 DEF parameterVars, sessionVars, Inv, TypeOK
<1> QED
  BY <1>1, <1>3, <1>5 DEF parameterVars, Inv, FrameMatchesHeader, Matches

LEMMA InvStep == Inv /\ [Next]_vars => Inv'
<1> SUFFICES ASSUME Inv, [Next]_vars PROVE Inv'
  OBVIOUS
<1>1. CASE UNCHANGED vars
  BY <1>1 DEF vars, parameterVars, testVars, sessionVars, Inv, TypeOK, FrameMatchesHeader, Matches
<1>2. ASSUME NEW t \in Thread, Step(t) PROVE Inv'
  BY <1>2, AssignFieldInv, SendInv, ParseInv, SetterInv, AssignInv DEF Step
<1>3. ASSUME NEW s \in Session, CheckerStep(s) PROVE Inv'
  BY <1>2, <1>3, Threads, ClearInv, CheckInv DEF CheckerStep
<1>4. ASSUME NEW s \in Session, ReaderStep(s) PROVE Inv'
  BY <1>2, <1>4, Threads, StartThreadInv DEF ReaderStep
<1>5. ASSUME Next PROVE Inv'
  BY <1>3, <1>4, <1>5, ReceiveInv, ThrowsInv, EmitInv, TakeInv, DiscardInv, BuildInv DEF Next
<1> QED
  BY <1>1, <1>5

(* The commands, the parameters, the queue and the data thread keep their types: a   *)
(* channel that is measured exists, and a resolution that is sent was one asked for. *)
THEOREM TypeCorrect == Spec => []TypeOK
<1>1. Inv => TypeOK
  BY DEF Inv
<1> QED
  BY <1>1, InitInv, InvStep, PTL DEF Spec

(* While DataDealCX builds and sends a frame, the result structure it reads keeps the *)
(* resolution of the packet it works on, whatever any number of sessions and self     *)
(* checks set (StructNetData.h:314 to 428, DataThreadCX.cpp:305).                      *)
THEOREM HeadersMatch == Spec => []FrameMatchesHeader
<1>1. Inv => FrameMatchesHeader
  BY DEF Inv
<1> QED
  BY <1>1, InitInv, InvStep, PTL DEF Spec

------------------------------------------------------------------------------
(* The threads, as long as no command comes before its time *)

OneAtATime == \A t, u \in Thread : steps[t] # <<>> /\ steps[u] # <<>> => t = u

(* A handler names a mode in its last step, and the one that starts a check has one step. *)
ReaderPlan(q) ==
  \A i \in 1..Len(q) : /\ q[i].op = "StartThread" => Len(q) = 1
                       /\ q[i].op = "SetMode" => i = Len(q) /\ q[i].mode = last.mode

(* A self check goes through its steps. *)
CheckerPlan(q) ==
  Len(q) <= 13 /\ \A i \in 1..Len(q) : q[i] = SelfCheck[13 - Len(q) + i]

TurnInv ==
  /\ OneAtATime
  /\ \A s \in Session : ReaderPlan(steps[Reader(s)]) /\ CheckerPlan(steps[Checker(s)])

LEMMA Ops ==
  /\ \A sm, f : Calibrate(sm, f).op = "send"
  /\ Acquire.op = "send" /\ Acquire = Send([CorrectMode |-> 0])
  /\ \A f : Send(f).op = "send" /\ Send(f).fields = f
  /\ CheckInner.op = "send"
  /\ \A f : SetCmd(f).op = "SetCmd"
  /\ \A m : /\ SetResult(m).op = "SetResult" /\ SetFreq(m).op = "SetFreq"
            /\ SetMode(m).op = "SetMode"
            /\ SetResult(m).mode = m /\ SetFreq(m).mode = m /\ SetMode(m).mode = m
  /\ \A r : ParseRes(r).op = "Parse" /\ ParseRes(r).res = r
  /\ \A x : Simply(x).op = x
BY DEF Calibrate, Acquire, Send, CheckInner, SetCmd, SetResult, SetFreq, SetMode, ParseRes, Simply

LEMMA CheckOps ==
  /\ SelfCheck[1].op = "Clear" /\ SelfCheck[2] = CheckInner
  /\ SelfCheck[3] = SetResult("TEST_CHANNEL") /\ SelfCheck[4].op = "SaveMode"
  /\ SelfCheck[5] = SetMode("TEST_CHANNEL") /\ SelfCheck[6].op = "TestInner"
  /\ SelfCheck[7].op = "AwaitInner" /\ SelfCheck[8] = Send([CorrectMode |-> 1])
  /\ SelfCheck[9].op = "TestOuter" /\ SelfCheck[10].op = "AwaitOuter"
  /\ SelfCheck[11].op = "ScheckReplay" /\ SelfCheck[12].op = "Restore"
  /\ SelfCheck[13].op = "RestoreMode"
BY Ops DEF SelfCheck

LEMMA Tails ==
  ASSUME NEW q \in Seq(Op), q # <<>>
  PROVE  /\ Len(q) \in Nat /\ Len(q) >= 1 /\ Head(q) = q[1] /\ Len(Tail(q)) = Len(q) - 1
         /\ \A i \in 1..Len(Tail(q)) : Tail(q)[i] = q[i + 1] /\ i + 1 \in 1..Len(q)
         /\ Tail(q) # <<>> => Len(q) > 1 /\ Tail(q)[Len(Tail(q))] = q[Len(q)]
         /\ Tail(q) = <<>> => Len(q) = 1
<1>1. Len(q) \in Nat /\ Len(q) >= 1 /\ Head(q) = q[1] /\ Len(Tail(q)) = Len(q) - 1
  BY EmptySeq, HeadTailProperties
<1>2. \A i \in 1..Len(Tail(q)) : Tail(q)[i] = q[i + 1] /\ i + 1 \in 1..Len(q)
  BY <1>1, HeadTailProperties
<1>3. Tail(q) \in Seq(Op) /\ (Tail(q) = <<>> <=> Len(Tail(q)) = 0)
  BY EmptySeq, HeadTailProperties
<1>4. Tail(q) # <<>> => Len(q) > 1 /\ Tail(q)[Len(Tail(q))] = q[Len(q)]
  <2>1. Tail(q) # <<>> => Len(q) > 1 /\ Len(Tail(q)) \in 1..Len(Tail(q))
    BY <1>1, <1>3
  <2>2. Tail(q) # <<>> => Tail(q)[Len(Tail(q))] = q[Len(Tail(q)) + 1]
    BY <1>2, <2>1
  <2>3. Len(Tail(q)) + 1 = Len(q)
    BY <1>1
  <2> QED
    BY <2>1, <2>2, <2>3
<1> QED
  BY <1>1, <1>2, <1>3, <1>4

(* Only one thread at a time has steps left, and it goes through them. *)
LEMMA Busy ==
  ASSUME TypeOK, OneAtATime, NEW t \in Thread, steps[t] # <<>>, Advance(t)
  PROVE  /\ OneAtATime'
         /\ steps'[t] = Tail(steps[t]) /\ steps[t] \in Seq(Op)
         /\ \A u \in Thread : u # t => steps[u] = <<>> /\ steps'[u] = <<>>
         /\ Quiet' <=> steps'[t] = <<>>
<1>1. steps[t] \in Seq(Op)
  BY DEF TypeOK
<1>2. steps'[t] = Tail(steps[t]) /\ \A u \in Thread : u # t => steps'[u] = steps[u]
  BY AdvanceOK
<1>3. \A u \in Thread : u # t => steps[u] = <<>>
  BY DEF OneAtATime
<1> QED
  BY <1>1, <1>2, <1>3 DEF OneAtATime, Quiet

LEMMA Plans ==
  ASSUME NEW q \in Seq(Op), q # <<>>
  PROVE  /\ ReaderPlan(q) => ReaderPlan(Tail(q))
         /\ CheckerPlan(q) => CheckerPlan(Tail(q)) /\ Head(q) = SelfCheck[14 - Len(q)]
<1>1. ReaderPlan(q) => ReaderPlan(Tail(q))
  BY Tails DEF ReaderPlan
<1>2. ASSUME CheckerPlan(q) PROVE CheckerPlan(Tail(q)) /\ Head(q) = SelfCheck[14 - Len(q)]
  <2>1. Len(Tail(q)) <= 13
    BY <1>2, Tails DEF CheckerPlan
  <2>2. ASSUME NEW i \in 1..Len(Tail(q)) PROVE Tail(q)[i] = SelfCheck[13 - Len(Tail(q)) + i]
    <3>1. Tail(q)[i] = q[i + 1] /\ i + 1 \in 1..Len(q) /\ Len(Tail(q)) = Len(q) - 1
      BY Tails
    <3>2. q[i + 1] = SelfCheck[13 - Len(q) + (i + 1)]
      BY <1>2, <3>1 DEF CheckerPlan
    <3>3. 13 - Len(q) + (i + 1) = 13 - Len(Tail(q)) + i
      BY <3>1, Tails
    <3> QED
      BY <3>1, <3>2, <3>3
  <2>3. Head(q) = SelfCheck[13 - Len(q) + 1] /\ 13 - Len(q) + 1 = 14 - Len(q)
    BY <1>2, Tails DEF CheckerPlan
  <2> QED
    BY <2>1, <2>2, <2>3 DEF CheckerPlan
<1> QED
  BY <1>1, <1>2

LEMMA Interval == \A n \in Nat : n >= 1 /\ n <= 13 => n \in 1..13
OBVIOUS

(* The steps of a self check, told one by one.                                            *)
LEMMA Thirteen ==
  ASSUME NEW n \in 1..13
  PROVE  \/ (n = 1 /\ 14 - n = 13) \/ (n = 2 /\ 14 - n = 12) \/ (n = 3 /\ 14 - n = 11)
         \/ (n = 4 /\ 14 - n = 10) \/ (n = 5 /\ 14 - n = 9) \/ (n = 6 /\ 14 - n = 8)
         \/ (n = 7 /\ 14 - n = 7) \/ (n = 8 /\ 14 - n = 6) \/ (n = 9 /\ 14 - n = 5)
         \/ (n = 10 /\ 14 - n = 4) \/ (n = 11 /\ 14 - n = 3) \/ (n = 12 /\ 14 - n = 2)
         \/ (n = 13 /\ 14 - n = 1)
OBVIOUS

LEMMA OneIn == \A n \in Nat : n >= 1 => 1 \in 1..n
OBVIOUS

(* Which step of a self check is how far from its end. *)
LEMMA CheckerHead ==
  ASSUME NEW q \in Seq(Op), q # <<>>, CheckerPlan(q)
  PROVE  \/ Len(q) = 13 /\ Len(Tail(q)) = 12 /\ Head(q).op = "Clear"
         \/ Len(q) = 12 /\ Len(Tail(q)) = 11 /\ Head(q).op = "send" /\ Head(q) = CheckInner
         \/ Len(q) = 11 /\ Len(Tail(q)) = 10 /\ Head(q).op = "SetResult"
         \/ Len(q) = 10 /\ Len(Tail(q)) = 9 /\ Head(q).op = "SaveMode"
         \/ Len(q) = 9 /\ Len(Tail(q)) = 8 /\ Head(q).op = "SetMode"
         \/ Len(q) = 8 /\ Len(Tail(q)) = 7 /\ Head(q).op = "TestInner"
         \/ Len(q) = 7 /\ Len(Tail(q)) = 6 /\ Head(q).op = "AwaitInner"
         \/ /\ Len(q) = 6 /\ Len(Tail(q)) = 5
            /\ Head(q).op = "send" /\ Head(q) = Send([CorrectMode |-> 1])
         \/ Len(q) = 5 /\ Len(Tail(q)) = 4 /\ Head(q).op = "TestOuter"
         \/ Len(q) = 4 /\ Len(Tail(q)) = 3 /\ Head(q).op = "AwaitOuter"
         \/ Len(q) = 3 /\ Len(Tail(q)) = 2 /\ Head(q).op = "ScheckReplay"
         \/ Len(q) = 2 /\ Len(Tail(q)) = 1 /\ Head(q).op = "Restore"
         \/ Len(q) = 1 /\ Len(Tail(q)) = 0 /\ Head(q).op = "RestoreMode" /\ Tail(q) = <<>>
<1> DEFINE n == Len(q)  m == Len(Tail(q))
<1>1. Head(q) = SelfCheck[14 - n] /\ n \in 1..13 /\ m = n - 1
  <2>1. Head(q) = SelfCheck[14 - Len(q)]
    BY Plans
  <2>2. Len(q) \in Nat /\ Len(q) >= 1 /\ Len(q) <= 13 /\ Len(Tail(q)) = Len(q) - 1
    BY Tails DEF CheckerPlan
  <2>3. Len(q) \in 1..13
    BY <2>2, Interval, Zenon
  <2> QED
    BY <2>1, <2>2, <2>3, Zenon
<1>2. m = 0 => Tail(q) = <<>>
  BY EmptySeq, HeadTailProperties
<1> HIDE DEF n, m
<1>3. /\ SelfCheck[2] = CheckInner /\ SelfCheck[2].op = "send" /\ SelfCheck[3].op = "SetResult"
      /\ SelfCheck[5].op = "SetMode" /\ SelfCheck[8].op = "send"
  BY CheckOps, Ops
<1> DEFINE x == Head(q)
<1> HIDE DEF x
<1>4. x = SelfCheck[14 - n]
  BY <1>1 DEF x
<1>5. \/ n = 13 /\ m = 12 /\ x.op = "Clear"
      \/ n = 12 /\ m = 11 /\ x.op = "send" /\ x = CheckInner
      \/ n = 11 /\ m = 10 /\ x.op = "SetResult"
      \/ n = 10 /\ m = 9 /\ x.op = "SaveMode"
      \/ n = 9 /\ m = 8 /\ x.op = "SetMode"
      \/ n = 8 /\ m = 7 /\ x.op = "TestInner"
      \/ n = 7 /\ m = 6 /\ x.op = "AwaitInner"
      \/ n = 6 /\ m = 5 /\ x.op = "send" /\ x = Send([CorrectMode |-> 1])
      \/ n = 5 /\ m = 4 /\ x.op = "TestOuter"
      \/ n = 4 /\ m = 3 /\ x.op = "AwaitOuter"
      \/ n = 3 /\ m = 2 /\ x.op = "ScheckReplay"
      \/ n = 2 /\ m = 1 /\ x.op = "Restore"
      \/ n = 1 /\ m = 0 /\ x.op = "RestoreMode"
  BY <1>1, <1>3, <1>4, CheckOps, Thirteen
<1> QED
  BY <1>2, <1>5 DEF n, m, x

LEMMA ThreadOf ==
  ASSUME NEW t \in Thread
  PROVE  Owner(t) \in Session /\ (t = Reader(Owner(t)) \/ t = Checker(Owner(t)))
BY DEF Reader, Checker, Thread, Owner

LEMMA TwoThreads ==
  ASSUME NEW s \in Session
  PROVE  /\ Reader(s) \in Thread /\ Checker(s) \in Thread /\ Reader(s) # Checker(s)
         /\ Owner(Reader(s)) = s /\ Owner(Checker(s)) = s
BY DEF Reader, Checker, Thread, Owner

LEMMA DistinctSessions ==
  ASSUME NEW s \in Session, NEW r \in Session, r # s
  PROVE  /\ Reader(r) # Reader(s) /\ Checker(r) # Checker(s)
         /\ Reader(r) # Checker(s) /\ Checker(r) # Reader(s)
BY DEF Reader, Checker

(* The plan of a thread without steps, or with one. *)
LEMMA NoSteps ==
  /\ ReaderPlan(<<>>) /\ CheckerPlan(<<>>) /\ ReaderPlan(<<>>)' /\ Len(<<>>) = 0
  /\ \A q \in Seq(Op) : q # <<>> /\ Len(q) = 1 => Tail(q) = <<>>
<1>1. ASSUME NEW q \in Seq(Op), q # <<>>, Len(q) = 1 PROVE Tail(q) = <<>>
  <2>1. Len(Tail(q)) = 0
    BY <1>1, Tails
  <2>2. Tail(q) \in Seq(Op)
    BY <1>1, HeadTailProperties
  <2> QED
    BY <2>1, <2>2, EmptySeq
<1>2. Len(<<>>) = 0
  OBVIOUS
<1>3. ReaderPlan(<<>>) /\ CheckerPlan(<<>>) /\ ReaderPlan(<<>>)'
  BY <1>2 DEF ReaderPlan, CheckerPlan
<1> QED
  BY <1>1, <1>2, <1>3

LEMMA TurnInit == Init => TurnInv
<1> SUFFICES ASSUME Init PROVE TurnInv
  OBVIOUS
<1>1. \A t \in Thread : steps[t] = <<>>
  BY DEF Init
<1> QED
  BY <1>1, NoSteps, Threads DEF TurnInv, OneAtATime

(* A thread that goes on takes nobody's turn. *)
LEMMA TurnAdvance ==
  ASSUME TypeOK, TurnInv, NEW t \in Thread, steps[t] # <<>>, Advance(t), last' = last
  PROVE  TurnInv'
<1>1. /\ OneAtATime' /\ steps'[t] = Tail(steps[t]) /\ steps[t] \in Seq(Op)
      /\ \A u \in Thread : u # t => steps'[u] = steps[u]
  BY Busy, AdvanceOK DEF TurnInv
<1>2. \A q : ReaderPlan(q) => ReaderPlan(q)'
  BY DEF ReaderPlan
<1>3. ASSUME NEW s \in Session PROVE ReaderPlan(steps[Reader(s)])'
  <2>1. ReaderPlan(steps[Reader(s)]) /\ Reader(s) \in Thread
    BY TwoThreads DEF TurnInv
  <2>2. ReaderPlan(steps'[Reader(s)])
    BY <1>1, <2>1, Plans
  <2> QED
    BY <2>2 DEF ReaderPlan
<1>4. ASSUME NEW s \in Session PROVE CheckerPlan(steps[Checker(s)])'
  <2>1. CheckerPlan(steps[Checker(s)]) /\ Checker(s) \in Thread
    BY TwoThreads DEF TurnInv
  <2>2. CheckerPlan(steps'[Checker(s)])
    BY <1>1, <2>1, Plans
  <2> QED
    BY <2>2 DEF CheckerPlan
<1> QED
  BY <1>1, <1>3, <1>4 DEF TurnInv

(* The modes a handler names. *)
NamesLast(h, c) ==
  /\ Len(h) >= 1
  /\ \A i \in 1..Len(h) :
       /\ h[i].op = "StartThread" => Len(h) = 1 /\ c.kind = "check"
       /\ h[i].op = "SetMode" => i = Len(h) /\ c.kind \in {"start", "end"} /\ h[i].mode = c.mode
  /\ c.kind \in {"start", "end"} => h[Len(h)].op = "SetMode"

LEMMA HandlerPlan ==
  ASSUME NEW c \in Command PROVE NamesLast(Handler(c), c)
<1>0. Mode = {"TEST_CHANNEL", "CX_WB", "CX_NB", "CX_SWEEP"}
  BY DEF Mode
<1>1. CASE c.kind = "start" /\ c.mode = "CX_NB"
  <2> DEFINE h == <<Send([StateMachine |-> 0, freq |-> c.freq]), SetCmd(c.freq),
                     SetMode("CX_NB")>>
  <2>1. Handler(c) = h
    BY <1>1, Handlers
  <2>2. Len(h) = 3 /\ h[1].op = "send" /\ h[2].op = "SetCmd"
          /\ h[3].op = "SetMode" /\ h[3].mode = c.mode
    BY <1>1, Ops
  <2> HIDE DEF h
  <2> QED
    BY <1>1, <2>1, <2>2 DEF NamesLast
<1>2. CASE c.kind = "start" /\ c.mode = "CX_WB"
  <2> DEFINE h == <<Calibrate(1, c.freq), Acquire, SetCmd(c.freq),
                     SetFreq("CX_WB"), SetMode("CX_WB")>>
  <2>1. Handler(c) = h
    BY <1>2, Handlers
  <2>2. Len(h) = 5 /\ h[1].op = "send" /\ h[2].op = "send"
          /\ h[3].op = "SetCmd" /\ h[4].op = "SetFreq" /\ h[5].op = "SetMode"
          /\ h[5].mode = c.mode
    BY <1>2, Ops
  <2> HIDE DEF h
  <2> QED
    BY <1>2, <2>1, <2>2 DEF NamesLast
<1>3. CASE c.kind = "start" /\ c.mode = "CX_SWEEP"
  <2> DEFINE h == <<Calibrate(1, c.freq), Acquire, SetCmd("garbage"),
                     SetFreq("CX_SWEEP"), SetMode("CX_SWEEP")>>
  <2>1. Handler(c) = h
    BY <1>3, Handlers
  <2>2. Len(h) = 5 /\ h[1].op = "send" /\ h[2].op = "send"
          /\ h[3].op = "SetCmd" /\ h[4].op = "SetFreq" /\ h[5].op = "SetMode"
          /\ h[5].mode = c.mode
    BY <1>3, Ops
  <2> HIDE DEF h
  <2> QED
    BY <1>3, <2>1, <2>2 DEF NamesLast
<1>4. CASE c.kind = "start" /\ c.mode = "TEST_CHANNEL"
  <2> DEFINE h == <<Calibrate(2, c.freq), Acquire, SetFreq("TEST_CHANNEL"),
                     SetMode("TEST_CHANNEL")>>
  <2>1. Handler(c) = h
    BY <1>4, Handlers
  <2>2. Len(h) = 4 /\ h[1].op = "send" /\ h[2].op = "send"
          /\ h[3].op = "SetFreq" /\ h[4].op = "SetMode" /\ h[4].mode = c.mode
    BY <1>4, Ops
  <2> HIDE DEF h
  <2> QED
    BY <1>4, <2>1, <2>2 DEF NamesLast
<1>5. CASE c.kind = "end"
  <2> DEFINE h == <<SetMode(c.mode)>>
  <2>1. Handler(c) = h
    BY <1>5, Handlers
  <2>2. Len(h) = 1 /\ h[1].op = "SetMode" /\ h[1].mode = c.mode
    BY <1>5, Ops
  <2> HIDE DEF h
  <2> QED
    BY <1>5, <2>1, <2>2 DEF NamesLast
<1>6. CASE c.kind = "param" /\ c.accepted
  <2> DEFINE h == <<ParseRes(c.res), Send(<<>>), SetResult("CX_WB"), SetResult("CX_SWEEP"),
                     SetResult("TEST_CHANNEL")>>
  <2>1. Handler(c) = h
    BY <1>6, Handlers
  <2>2. Len(h) = 5 /\ h[1].op = "Parse" /\ h[2].op = "send"
          /\ h[3].op = "SetResult" /\ h[4].op = "SetResult" /\ h[5].op = "SetResult"
    BY <1>6, Ops
  <2> HIDE DEF h
  <2> QED
    BY <1>6, <2>1, <2>2 DEF NamesLast
<1>7. CASE c.kind = "param" /\ ~c.accepted
  <2> DEFINE h == <<ParseRes(c.res)>>
  <2>1. Handler(c) = h
    BY <1>7, Handlers
  <2>2. Len(h) = 1 /\ h[1].op = "Parse"
    BY <1>7, Ops
  <2> HIDE DEF h
  <2> QED
    BY <1>7, <2>1, <2>2 DEF NamesLast
<1>8. CASE c.kind = "check"
  <2> DEFINE h == <<Simply("StartThread")>>
  <2>1. Handler(c) = h
    BY <1>8, Handlers
  <2>2. Len(h) = 1 /\ h[1].op = "StartThread"
    BY <1>8, Ops
  <2> HIDE DEF h
  <2> QED
    BY <1>8, <2>1, <2>2 DEF NamesLast
<1> QED
  BY <1>0, <1>1, <1>2, <1>3, <1>4, <1>5, <1>6, <1>7, <1>8, Commands

LEMMA HandlerBegins ==
  ASSUME NEW c \in Command PROVE Handler(c) # <<>>
<1>1. Len(Handler(c)) >= 1
  BY HandlerPlan DEF NamesLast
<1> QED
  BY <1>1, EmptySeq

LEMMA TurnReceive ==
  ASSUME TypeOK, TurnInv, Quiet, NEW s \in Session, Receive(s)
  PROVE  TurnInv'
<1>1. PICK c \in Command :
        /\ steps' = [steps EXCEPT ![Reader(s)] = Handler(c)]
        /\ last' = IF c.kind \in {"start", "end"} THEN c ELSE last
  BY DEF Receive
<1>2. steps \in [Thread -> Seq(Op)] /\ Reader(s) \in Thread
  BY TwoThreads DEF TypeOK
<1>3. steps'[Reader(s)] = Handler(c) /\ \A u \in Thread : u # Reader(s) => steps'[u] = <<>>
  BY <1>1, <1>2 DEF Quiet
<1>4. NamesLast(Handler(c), c)
  BY HandlerPlan
<1>5. ReaderPlan(Handler(c))'
  BY <1>1, <1>4 DEF NamesLast, ReaderPlan
<1>6. ASSUME NEW r \in Session PROVE ReaderPlan(steps[Reader(r)])' /\ CheckerPlan(steps[Checker(r)])'
  <2>1. steps'[Checker(r)] = <<>> /\ (steps'[Reader(r)] = <<>> \/ steps'[Reader(r)] = Handler(c))
    BY <1>3, TwoThreads, DistinctSessions
  <2> QED
    BY <1>5, <2>1 DEF ReaderPlan, CheckerPlan
<1>7. OneAtATime'
  BY <1>2, <1>3 DEF OneAtATime
<1> QED
  BY <1>6, <1>7 DEF TurnInv

(* The read thread hands over to the thread of the self check. *)
LEMMA HandedOver ==
  ASSUME TypeOK, NEW s \in Session, ReaderPlan(steps[Reader(s)]), StartThread(s)
  PROVE  /\ Len(steps[Reader(s)]) = 1 /\ steps[Reader(s)][1].op = "StartThread"
         /\ steps'[Reader(s)] = <<>> /\ steps'[Checker(s)] = SelfCheck
         /\ \A u \in Thread : u \notin {Reader(s), Checker(s)} => steps'[u] = steps[u]
<1> DEFINE q == steps[Reader(s)]
<1>1. /\ q # <<>> /\ Head(q).op = "StartThread"
      /\ steps' = [steps EXCEPT ![Reader(s)] = Tail(q), ![Checker(s)] = SelfCheck]
  BY DEF StartThread, At
<1>2. steps \in [Thread -> Seq(Op)] /\ Reader(s) \in Thread /\ Checker(s) \in Thread
        /\ Reader(s) # Checker(s) /\ q \in Seq(Op)
  BY TwoThreads DEF TypeOK
<1>3. Len(q) = 1 /\ Head(q) = q[1]
  <2>1. Head(q) = q[1] /\ Len(q) \in Nat /\ Len(q) >= 1
    BY <1>1, <1>2, Tails
  <2>2. 1 \in 1..Len(q)
    BY <2>1, OneIn, Zenon
  <2> QED
    BY <1>1, <2>1, <2>2 DEF ReaderPlan
<1>4. Tail(q) = <<>>
  BY <1>1, <1>2, <1>3, NoSteps
<1> QED
  BY <1>1, <1>2, <1>3, <1>4

LEMMA WholeCheck == CheckerPlan(SelfCheck) /\ SelfCheck # <<>>
<1>1. SelfCheck \in Seq(Op) /\ Len(SelfCheck) = 13
  BY SelfCheckOK
<1>2. SelfCheck # <<>>
  <2>1. Len(<<>>) = 0
    OBVIOUS
  <2>2. 13 # 0
    OBVIOUS
  <2> QED
    BY <1>1, <2>1, <2>2, Zenon
<1>3. \A i \in 1..13 : 13 - 13 + i = i
  OBVIOUS
<1>4. \A i \in 1..13 : SelfCheck[i] = SelfCheck[13 - 13 + i]
  BY <1>3
<1>5. CheckerPlan(SelfCheck)
  BY <1>1, <1>4 DEF CheckerPlan
<1> QED
  BY <1>2, <1>5

LEMMA TurnStart ==
  ASSUME TypeOK, TurnInv, NEW s \in Session, StartThread(s)
  PROVE  TurnInv'
<1>1. Reader(s) \in Thread /\ Checker(s) \in Thread /\ steps[Reader(s)] # <<>>
  BY TwoThreads DEF StartThread, At
<1>2. \A u \in Thread : u # Reader(s) => steps[u] = <<>>
  BY <1>1 DEF TurnInv, OneAtATime
<1>3. steps'[Checker(s)] = SelfCheck /\ \A u \in Thread : u # Checker(s) => steps'[u] = <<>>
  BY <1>1, <1>2, HandedOver DEF TurnInv
<1>4. ASSUME NEW r \in Session PROVE ReaderPlan(steps[Reader(r)])' /\ CheckerPlan(steps[Checker(r)])'
  <2>1. /\ steps'[Reader(r)] = <<>>
        /\ steps'[Checker(r)] = <<>> \/ steps'[Checker(r)] = SelfCheck
    BY <1>3, TwoThreads, DistinctSessions
  <2>2. CheckerPlan(<<>>) /\ ReaderPlan(<<>>)' /\ CheckerPlan(SelfCheck)
    BY NoSteps, WholeCheck
  <2>3. CheckerPlan(steps'[Checker(r)])
    BY <2>1, <2>2
  <2> QED
    BY <2>1, <2>2, <2>3 DEF ReaderPlan, CheckerPlan
<1>5. OneAtATime'
  BY <1>3 DEF OneAtATime
<1> QED
  BY <1>4, <1>5 DEF TurnInv

LEMMA TurnStep ==
  ASSUME ~Faults, TypeOK, hurried = 0 => TurnInv, [Next]_vars, hurried' = 0
  PROVE  TurnInv' /\ TurnInv /\ hurried = 0
<1>1. hurried = 0
  <2>1. ASSUME NEW s \in Session, Receive(s) PROVE hurried = 0
    BY <2>1, HurriedOK
  <2>2. ASSUME hurried' = hurried PROVE hurried = 0
    BY <2>2
  <2>3. ASSUME NEW s \in Session, ReaderStep(s) \/ CheckerStep(s) \/ CommandThrows(s)
        PROVE  hurried' = hurried
    BY <2>3 DEF ReaderStep, CheckerStep, CommandThrows, Step, AssignField, SendCXCmd, Parse,
       SetCmdFreq, SetXXCXResult, SetXXCXFreq, SetDataType, StartThread, Clear, SaveMode, TestInner,
       TestOuter, ScheckReplay, RestoreMode, sessionVars
  <2>4. ASSUME \/ \E ch \in Channel \cup {NoChannel} : Emit(ch)
               \/ Take \/ Discard \/ BuildFrame \/ SendMsgReturns \/ UNCHANGED vars
        PROVE  hurried' = hurried
    BY <2>4 DEF Emit, Take, Discard, BuildFrame, SendMsgReturns, vars, sessionVars
  <2> QED
    BY <2>1, <2>2, <2>3, <2>4 DEF Next
<1>2. TurnInv
  BY <1>1
<1>3. ASSUME UNCHANGED <<steps, last>> PROVE TurnInv'
  BY <1>2, <1>3 DEF TurnInv, OneAtATime, ReaderPlan, CheckerPlan
<1>4. ASSUME NEW t \in Thread, Step(t) PROVE TurnInv'
  <2>1. CASE AssignField(t)
    BY <1>3, <2>1 DEF AssignField
  <2>2. CASE ~AssignField(t)
    <3>1. steps[t] # <<>> /\ Advance(t) /\ last' = last
      BY <1>4, <2>2 DEF Step, SendCXCmd, Parse, SetCmdFreq, SetXXCXResult, SetXXCXFreq, SetDataType,
                        ToSend, At, sessionVars
    <3> QED
      BY <1>2, <3>1, TurnAdvance
  <2> QED
    BY <2>1, <2>2
<1>5. ASSUME NEW s \in Session, CheckerStep(s) PROVE TurnInv'
  <2>1. CASE Step(Checker(s))
    BY <1>4, <2>1, TwoThreads
  <2>2. CASE ~Step(Checker(s))
    <3>1. steps[Checker(s)] # <<>> /\ Advance(Checker(s)) /\ last' = last
      BY <1>5, <2>2 DEF CheckerStep, Clear, SaveMode, TestInner, TestOuter, ScheckReplay,
                        RestoreMode, At, sessionVars
    <3> QED
      BY <1>2, <3>1, TwoThreads, TurnAdvance
  <2> QED
    BY <2>1, <2>2
<1>6. ASSUME NEW s \in Session, ReaderStep(s) PROVE TurnInv'
  BY <1>2, <1>4, <1>6, TwoThreads, TurnStart DEF ReaderStep
<1>7. ASSUME NEW s \in Session, Receive(s) PROVE TurnInv'
  BY <1>2, <1>7, HurriedOK, TurnReceive
<1>8. ASSUME \/ \E ch \in Channel \cup {NoChannel} : Emit(ch)
             \/ Take \/ Discard \/ BuildFrame \/ SendMsgReturns \/ UNCHANGED vars
      PROVE  TurnInv'
  BY <1>3, <1>8 DEF Emit, Take, Discard, BuildFrame, SendMsgReturns, vars, sessionVars
<1>9. ASSUME NEW s \in Session PROVE ~CommandThrows(s)
  BY DEF CommandThrows
<1> QED
  BY <1>1, <1>2, <1>5, <1>6, <1>7, <1>8, <1>9 DEF Next

------------------------------------------------------------------------------
(* The mode of the data thread, for one client *)

(* The mode is the one named last, or the one the self check found. *)
Named == DataType = last.mode \/ (hurried # 0 /\ DataType = found)
Naming(q) == q # <<>> /\ q[Len(q)].op = "SetMode"

(* The read thread has q left to do and the self check k.  While the check has not        *)
(* reported there is no command; at its 10th step from the end it saves the mode, at the   *)
(* last it puts it back, and what commands name in between does not count.                *)
Window(s, q, k) ==
  /\ ReaderPlan(q) /\ CheckerPlan(k)
  /\ Len(k) >= 3 => q = <<>>
  /\ \A i \in 1..Len(q) : q[i].op = "StartThread" => k = <<>>
  /\ Len(k) >= 10 => DataType = found
  /\ Len(k) \in 1..9 => saved[s] = found
  /\ k # <<>> /\ hurried = 0 => found = last.mode
  /\ k = <<>> => Named \/ Naming(q)

WindowInv(s) == Window(s, steps[Reader(s)], steps[Checker(s)])

LEMMA WindowSame ==
  ASSUME NEW s, NEW q, NEW k, Window(s, q, k), UNCHANGED <<DataType, saved, last, hurried, found>>
  PROVE  Window(s, q, k)'
BY DEF Window, ReaderPlan, CheckerPlan, Named, Naming

LEMMA WindowNext ==
  ASSUME NEW s, NEW q, NEW k, steps'[Reader(s)] = q, steps'[Checker(s)] = k, Window(s, q, k)'
  PROVE  WindowInv(s)'
BY DEF WindowInv, Window, ReaderPlan, CheckerPlan, Named, Naming

LEMMA WindowInit == ASSUME NEW s \in Session PROVE Init => WindowInv(s)
<1> SUFFICES ASSUME Init PROVE WindowInv(s)
  OBVIOUS
<1>1. steps[Reader(s)] = <<>> /\ steps[Checker(s)] = <<>>
  BY TwoThreads DEF Init
<1>2. Named
  BY DEF Init, Named
<1> QED
  BY <1>1, <1>2, NoSteps DEF WindowInv, Window

(* A client that was not yet told of the report sends nothing. *)
LEMMA Told ==
  ASSUME TypeOK, NEW s \in Session, CheckerPlan(steps[Checker(s)]), Reported(s)
  PROVE  Len(steps[Checker(s)]) < 3
<1> DEFINE k == steps[Checker(s)]
<1>1. k \in Seq(Op) /\ Len(k) \in Nat /\ DOMAIN k = 1..Len(k)
  BY TwoThreads DEF TypeOK
<1> SUFFICES ASSUME Len(k) >= 3 PROVE FALSE
  BY <1>1
<1>2. /\ Len(k) - 2 \in 1..Len(k) /\ 13 - Len(k) + (Len(k) - 2) = 11
  BY <1>1
<1>3. k[Len(k) - 2] = SelfCheck[11]
  BY <1>2 DEF CheckerPlan
<1>4. SelfCheck[11].op = "ScheckReplay"
  BY CheckOps
<1> QED
  BY <1>1, <1>2, <1>3, <1>4 DEF Reported

LEMMA WindowReceive ==
  ASSUME Polite, TypeOK, NEW s \in Session, WindowInv(s), Receive(s), Session = {s}
  PROVE  WindowInv(s)'
<1>0. PICK k : k = steps[Checker(s)]
  OBVIOUS
<1>1. PICK c \in Command :
        /\ c.kind = "check" => k = <<>>
        /\ steps' = [steps EXCEPT ![Reader(s)] = Handler(c)]
        /\ last' = IF c.kind \in {"start", "end"} THEN c ELSE last
  BY <1>0 DEF Receive
<1>2. UNCHANGED <<DataType, saved, found>> /\ steps[Reader(s)] = <<>> /\ Reported(s)
  BY DEF Receive, parameterVars
<1>3. steps'[Reader(s)] = Handler(c) /\ steps'[Checker(s)] = k
  BY <1>0, <1>1, TwoThreads DEF TypeOK
<1>4. Window(s, <<>>, k) /\ Len(k) < 3 /\ k \in Seq(Op)
  <2>1. Window(s, <<>>, k) /\ k \in Seq(Op)
    BY <1>0, <1>2, TwoThreads DEF WindowInv, TypeOK
  <2>2. Len(k) < 3
    BY <1>0, <1>2, <2>1, Told DEF Window
  <2> QED
    BY <2>1, <2>2
<1>5. NamesLast(Handler(c), c) /\ Handler(c) # <<>>
  BY HandlerPlan, HandlerBegins
<1> DEFINE h == Handler(c)
<1> HIDE DEF h
<1>6. ReaderPlan(h)'
  BY <1>1, <1>5 DEF NamesLast, ReaderPlan, h
<1>8. k # <<>> => hurried' # 0
  <2>1. k # <<>> => ~Quiet
    BY <1>0, TwoThreads DEF Quiet
  <2> QED
    BY <2>1, HurriedOK
<1>9. \A i \in 1..Len(h) : h[i].op = "StartThread" => k = <<>>
  BY <1>1, <1>5 DEF NamesLast, h
<1>10. k = <<>> => Named' \/ Naming(h)
  <2>1. CASE c.kind \in {"start", "end"}
    BY <1>5, <2>1 DEF NamesLast, Naming, h
  <2>2. CASE c.kind \notin {"start", "end"}
    <3>1. last' = last /\ (hurried' = 0 => hurried = 0)
      BY <1>1, <2>2, HurriedOK
    <3>2. k = <<>> => Named
      BY <1>4 DEF Window, Naming
    <3> QED
      BY <1>2, <3>1, <3>2 DEF Named
  <2> QED
    BY <2>1, <2>2
<1>11. /\ Len(k) >= 3 => h = <<>>
       /\ Len(k) >= 10 => DataType' = found'
       /\ Len(k) \in 1..9 => saved'[s] = found'
  <2>1. Len(k) \in Nat
    BY <1>4
  <2> QED
    BY <1>2, <1>4, <2>1 DEF Window
<1>12. CheckerPlan(k)
  BY <1>4 DEF Window
<1>13. Window(s, h, k)'
  <2>1. k # <<>> /\ hurried' = 0 => found' = last'.mode
    BY <1>8
  <2> QED
    BY <1>6, <1>9, <1>10, <1>11, <1>12, <2>1 DEF Window, Naming, CheckerPlan
<1> QED
  BY <1>3, <1>13, WindowNext DEF h

(* A step of the read thread. *)
LEMMA WindowReader ==
  ASSUME TypeOK, NEW s \in Session, WindowInv(s), Step(Reader(s))
  PROVE  WindowInv(s)'
<1> DEFINE t == Reader(s)
<1>a. PICK q, k : q = steps[t] /\ k = steps[Checker(s)]
  OBVIOUS
<1>0. /\ t \in Thread /\ Checker(s) \in Thread /\ Checker(s) # t /\ q \in Seq(Op) /\ k \in Seq(Op)
      /\ Window(s, q, k)
  BY <1>a, TwoThreads DEF TypeOK, WindowInv
<1>1. CASE AssignField(t)
  <2>1. UNCHANGED <<DataType, saved, last, hurried, found, steps>>
    BY <1>1 DEF AssignField, parameterVars
  <2> QED
    BY <1>a, <1>0, <2>1, WindowSame, WindowNext
<1>2. CASE ~AssignField(t)
  <2>1. /\ q # <<>> /\ Advance(t) /\ UNCHANGED <<saved, last, hurried, found>>
        /\ \/ Head(q).op # "SetMode" /\ DataType' = DataType
           \/ Head(q).op = "SetMode" /\ DataType' = Head(q).mode
    BY <1>a, <1>2 DEF Step, SendCXCmd, Parse, SetCmdFreq, SetXXCXResult, SetXXCXFreq, SetDataType,
                ToSend, At, sessionVars, parameterVars
  <2>2. steps'[t] = Tail(q) /\ steps'[Checker(s)] = k
    BY <1>a, <1>0, <2>1, AdvanceOK
  <2>3. /\ Len(q) \in Nat /\ Len(q) >= 1 /\ Head(q) = q[1]
        /\ \A i \in 1..Len(Tail(q)) : Tail(q)[i] = q[i + 1] /\ i + 1 \in 1..Len(q)
        /\ Tail(q) # <<>> => Len(q) > 1 /\ Tail(q)[Len(Tail(q))] = q[Len(q)]
        /\ Tail(q) = <<>> => Len(q) = 1
        /\ Len(q) = 1 => Tail(q) = <<>>
    BY <1>0, <2>1, Tails, NoSteps
  <2>4. 1 \in 1..Len(q)
    BY <2>3, OneIn, Zenon
  <2>5. ReaderPlan(Tail(q)) /\ CheckerPlan(k)
    BY <1>0, <2>1, Plans DEF Window
  <2>6. Len(k) < 3 /\ Len(k) \in Nat
    BY <1>0, <2>1 DEF Window
  <2>7. \A i \in 1..Len(Tail(q)) : Tail(q)[i].op = "StartThread" => k = <<>>
    BY <1>0, <2>3 DEF Window
  <2>8. k = <<>> => Named' \/ Naming(Tail(q))
    <3>1. CASE Head(q).op = "SetMode"
      <4>1. DataType' = last'.mode
        BY <1>0, <2>1, <2>3, <2>4, <3>1 DEF Window, ReaderPlan
      <4> QED
        BY <4>1 DEF Named
    <3>2. CASE Head(q).op # "SetMode"
      BY <1>0, <2>1, <2>3, <3>2 DEF Window, Named, Naming
    <3> QED
      BY <3>1, <3>2
  <2>9. Window(s, Tail(q), k)'
    <3>1. ReaderPlan(Tail(q))' /\ CheckerPlan(k)
      BY <2>1, <2>5 DEF ReaderPlan
    <3>2. /\ Len(k) \in 1..9 => saved'[s] = found'
          /\ k # <<>> /\ hurried' = 0 => found' = last'.mode
      BY <1>0, <2>1 DEF Window
    <3> QED
      BY <2>6, <2>7, <2>8, <3>1, <3>2 DEF Window, Naming, CheckerPlan
  <2> QED
    BY <2>2, <2>9, WindowNext
<1> QED
  BY <1>1, <1>2

LEMMA WindowStart ==
  ASSUME TypeOK, NEW s \in Session, WindowInv(s), StartThread(s)
  PROVE  WindowInv(s)'
<1> DEFINE q == steps[Reader(s)]
<1>1. /\ found' = DataType /\ UNCHANGED <<DataType, last, hurried>>
  BY DEF StartThread, parameterVars
<1>2. /\ Len(q) = 1 /\ q[1].op = "StartThread"
      /\ steps'[Reader(s)] = <<>> /\ steps'[Checker(s)] = SelfCheck
  BY HandedOver DEF WindowInv, Window
<1>3. steps[Checker(s)] = <<>> /\ Named
  <2>1. 1 \in 1..1 /\ q[Len(q)].op # "SetMode"
    BY <1>2
  <2> QED
    BY <1>2, <2>1 DEF WindowInv, Window, Naming
<1>4. hurried' = 0 => found' = last'.mode
  BY <1>1, <1>3 DEF Named
<1>5. Len(SelfCheck) = 13 /\ CheckerPlan(SelfCheck) /\ SelfCheck # <<>>
  BY SelfCheckOK, WholeCheck
<1>6. Len(<<>>) = 0 /\ \A i : i \notin 1..0
  OBVIOUS
<1> QED
  BY <1>1, <1>2, <1>4, <1>5, <1>6 DEF WindowInv, Window, ReaderPlan, CheckerPlan

(* A step of the self check. *)
LEMMA WindowChecker ==
  ASSUME TypeOK, NEW s \in Session, WindowInv(s), CheckerStep(s)
  PROVE  WindowInv(s)'
<1> DEFINE t == Checker(s)
<1>a. PICK q, k : q = steps[Reader(s)] /\ k = steps[t]
  OBVIOUS
<1> DEFINE n == Len(k)  m == Len(Tail(k))  x == Head(k)
<1>0. /\ t \in Thread /\ Reader(s) \in Thread /\ Reader(s) # t /\ q \in Seq(Op) /\ k \in Seq(Op)
      /\ Window(s, q, k)
  BY <1>a, TwoThreads DEF TypeOK, WindowInv
<1>1. CASE AssignField(t)
  <2>1. UNCHANGED <<DataType, saved, last, hurried, found, steps>>
    BY <1>1 DEF AssignField, parameterVars
  <2> QED
    BY <1>a, <1>0, <2>1, WindowSame, WindowNext
<1>2. CASE ~AssignField(t)
  <2>1. k # <<>> /\ Advance(t) /\ UNCHANGED <<last, hurried, found>>
    BY <1>a, <1>2 DEF CheckerStep, Step, SendCXCmd, Parse, SetCmdFreq, SetXXCXResult, SetXXCXFreq,
                SetDataType, Clear, SaveMode, TestInner, TestOuter, ScheckReplay, RestoreMode, ToSend,
                At, sessionVars
  <2>2. /\ x.op = "SaveMode" => saved' = [saved EXCEPT ![s] = DataType] /\ DataType' = DataType
        /\ x.op = "SetMode" => saved' = saved
        /\ x.op = "RestoreMode" => DataType' = saved[s]
        /\ x.op \notin {"SaveMode", "SetMode", "RestoreMode"} =>
             saved' = saved /\ DataType' = DataType
    BY <1>a, <1>2 DEF CheckerStep, Step, SendCXCmd, Parse, SetCmdFreq, SetXXCXResult, SetXXCXFreq,
                SetDataType, Clear, SaveMode, TestInner, TestOuter, ScheckReplay, RestoreMode, ToSend,
                At, sessionVars, parameterVars
  <2>3. steps'[t] = Tail(k) /\ steps'[Reader(s)] = q
    BY <1>a, <1>0, <2>1, AdvanceOK
  <2>4. CheckerPlan(Tail(k)) /\ n \in 1..13 /\ m = n - 1 /\ (Tail(k) = <<>> <=> m = 0)
    <3>1. CheckerPlan(k)
      BY <1>0 DEF Window
    <3>2. CheckerPlan(Tail(k)) /\ n \in Nat /\ n >= 1 /\ n <= 13 /\ m = n - 1
      BY <1>0, <2>1, <3>1, Plans, Tails DEF CheckerPlan
    <3>3. Tail(k) = <<>> <=> m = 0
      BY <1>0, <2>1, EmptySeq, HeadTailProperties
    <3>4. n \in 1..13
      BY <3>2, Interval, Zenon
    <3> QED
      BY <3>2, <3>3, <3>4, Zenon
  <2>5. \/ n = 10 /\ m = 9 /\ x.op = "SaveMode"
        \/ n = 9 /\ m = 8 /\ x.op = "SetMode"
        \/ n = 1 /\ m = 0 /\ x.op = "RestoreMode"
        \/ n \notin {1, 9, 10} /\ x.op \notin {"SaveMode", "SetMode", "RestoreMode"}
    <3>1. CheckerPlan(k)
      BY <1>0 DEF Window
    <3>2. \/ n = 13 /\ m = 12 /\ x.op = "Clear"
          \/ n = 12 /\ m = 11 /\ x.op = "send"
          \/ n = 11 /\ m = 10 /\ x.op = "SetResult"
          \/ n = 10 /\ m = 9 /\ x.op = "SaveMode"
          \/ n = 9 /\ m = 8 /\ x.op = "SetMode"
          \/ n = 8 /\ m = 7 /\ x.op = "TestInner"
          \/ n = 7 /\ m = 6 /\ x.op = "AwaitInner"
          \/ n = 6 /\ m = 5 /\ x.op = "send"
          \/ n = 5 /\ m = 4 /\ x.op = "TestOuter"
          \/ n = 4 /\ m = 3 /\ x.op = "AwaitOuter"
          \/ n = 3 /\ m = 2 /\ x.op = "ScheckReplay"
          \/ n = 2 /\ m = 1 /\ x.op = "Restore"
          \/ n = 1 /\ m = 0 /\ x.op = "RestoreMode"
      BY <1>0, <2>1, <3>1, CheckerHead
    <3> HIDE DEF n, m, x
    <3> QED
      BY <3>2
  <2>6. s \in DOMAIN saved
    BY DEF TypeOK
  <2>7. /\ ReaderPlan(q)
        /\ n >= 3 => q = <<>>
        /\ \A i \in 1..Len(q) : q[i].op # "StartThread"
        /\ n >= 10 => DataType = found
        /\ n \in 1..9 => saved[s] = found
        /\ hurried = 0 => found = last.mode
    BY <1>0, <2>1 DEF Window
  <2> HIDE DEF n, m, x
  <2>8. /\ m >= 3 => q = <<>>
        /\ m >= 10 => DataType' = found'
        /\ m \in 1..9 => saved'[s] = found'
        /\ m = 0 => Named'
    BY <2>1, <2>2, <2>4, <2>5, <2>6, <2>7 DEF Named
  <2>9. ReaderPlan(q)'
    BY <2>1, <2>7 DEF ReaderPlan
  <2>10. Window(s, q, Tail(k))'
    <3>1. /\ Len(Tail(k)) >= 3 => q = <<>>
          /\ Len(Tail(k)) >= 10 => DataType' = found'
          /\ Len(Tail(k)) \in 1..9 => saved'[s] = found'
      BY <2>8 DEF m
    <3>2. Tail(k) = <<>> => Named'
      BY <2>4, <2>8
    <3>3. \A i \in 1..Len(q) : q[i].op = "StartThread" => Tail(k) = <<>>
      BY <2>7
    <3>4. Tail(k) # <<>> /\ hurried' = 0 => found' = last'.mode
      BY <2>1, <2>7
    <3> QED
      BY <2>4, <2>9, <3>1, <3>2, <3>3, <3>4 DEF Window, CheckerPlan
  <2> QED
    BY <2>3, <2>10, WindowNext
<1> QED
  BY <1>1, <1>2

LEMMA WindowStep ==
  ASSUME NEW s, Session = {s}, Polite, ~Faults, TypeOK, WindowInv(s), [Next]_vars
  PROVE  WindowInv(s)'
<1>1. ASSUME UNCHANGED <<steps, DataType, saved, last, hurried, found>> PROVE WindowInv(s)'
  BY <1>1 DEF WindowInv, Window, ReaderPlan, CheckerPlan, Naming, Named
<1>2. s \in Session /\ \A r \in Session : r = s
  OBVIOUS
<1>3. ASSUME \/ \E ch \in Channel \cup {NoChannel} : Emit(ch)
             \/ Take \/ Discard \/ BuildFrame \/ SendMsgReturns \/ UNCHANGED vars
      PROVE  WindowInv(s)'
  BY <1>1, <1>3 DEF Emit, Take, Discard, BuildFrame, SendMsgReturns, vars, sessionVars, parameterVars
<1>4. ~CommandThrows(s)
  BY DEF CommandThrows
<1>5. Receive(s) \/ ReaderStep(s) \/ CheckerStep(s) => WindowInv(s)'
  BY <1>2, WindowReceive, WindowReader, WindowStart, WindowChecker DEF ReaderStep
<1> QED
  BY <1>2, <1>3, <1>4, <1>5 DEF Next

(* One client that waits for the report of a self check, and no longer, gets the mode it   *)
(* named last, but for one it names before the check is over: then it may get the one the  *)
(* check found, and never the mode of the check itself.  Nothing is assumed of what the    *)
(* client sends, nor of how its commands and the end of the check interleave.              *)
THEOREM ModeRestored ==
  ASSUME NEW s, Session = {s}, Polite, ~Faults
  PROVE  Spec => []SelfCheckKeepsMode
<1>1. s \in Session
  OBVIOUS
<1>2. WindowInv(s) => SelfCheckKeepsMode
  <2> SUFFICES ASSUME WindowInv(s), Quiet PROVE Named
    BY DEF SelfCheckKeepsMode, Named
  <2>1. steps[Reader(s)] = <<>> /\ steps[Checker(s)] = <<>>
    BY <1>1, TwoThreads DEF Quiet
  <2> QED
    BY <2>1 DEF WindowInv, Window, Naming
<1>3. TypeOK /\ WindowInv(s) /\ [Next]_vars => WindowInv(s)'
  BY WindowStep
<1>4. Init => WindowInv(s)
  BY <1>1, WindowInit
<1> QED
  BY <1>2, <1>3, <1>4, TypeCorrect, PTL DEF Spec

------------------------------------------------------------------------------
(* The packets of a self check *)

(* The packets that may count for a self check, in the inner and the outer correction, *)
(* and those the board sent for self check r.                                             *)
InnerPackets == {p \in Packet : p.work = 0 /\ p.config.CorrectMode = 0}
OuterPackets == {p \in Packet : p.work = 0 /\ p.config.CorrectMode = 1}
PacketsOf(r) == {p \in Packet : p.config.round = r}
NotInner == Packet \ InnerPackets
InnerOf(r) == NotInner \cup PacketsOf(r)

(* What waits in the queue, or in the hands of the data thread, is in P; once something of *)
(* P is reached, what comes after it is of P too.                                         *)
AllIn(d, q, P) ==
  /\ d.pc = "locking" => d.packet \in P
  /\ \A i \in 1..Len(q) : q[i] \in P
StayIn(d, q, P) ==
  /\ d.pc = "locking" /\ d.packet \in P => \A i \in 1..Len(q) : q[i] \in P
  /\ \A i, j \in 1..Len(q) : i < j /\ q[i] \in P => q[j] \in P

LEMMA Appended ==
  ASSUME NEW d, NEW q \in Seq(Packet), NEW p \in Packet, NEW P, p \in P
  PROVE  /\ AllIn(d, q, P) => AllIn(d, Append(q, p), P)
         /\ StayIn(d, q, P) => StayIn(d, Append(q, p), P)
<1> DEFINE n == Len(q)  a == Append(q, p)
<1>1. n \in Nat /\ Len(a) = n + 1 /\ a[n + 1] = p /\ \A i \in 1..n : a[i] = q[i]
  OBVIOUS
<1>2. \A k \in Nat : \A i : i \in 1..(k + 1) => i \in 1..k \/ i = k + 1
  OBVIOUS
<1>3. \A i \in 1..Len(a) : (i \in 1..n /\ a[i] = q[i]) \/ (i = n + 1 /\ a[i] = p)
  BY <1>1, <1>2, Zenon
<1>4. \A k \in Nat : \A j \in 1..k : ~(k + 1 < j)
  OBVIOUS
<1>5. \A i, j \in 1..Len(a) : i < j => i \in 1..n \/ a[j] = p
  BY <1>1, <1>3, <1>4, Zenon
<1> HIDE DEF n, a
<1>6. AllIn(d, q, P) => AllIn(d, a, P)
  BY <1>3 DEF AllIn, n
<1>7. StayIn(d, q, P) => StayIn(d, a, P)
  <2> SUFFICES ASSUME StayIn(d, q, P) PROVE StayIn(d, a, P)
    OBVIOUS
  <2>1. d.pc = "locking" /\ d.packet \in P => \A i \in 1..Len(a) : a[i] \in P
    BY <1>3, Zenon DEF StayIn, n
  <2>2. ASSUME NEW i \in 1..Len(a), NEW j \in 1..Len(a), i < j, a[i] \in P PROVE a[j] \in P
    <3>1. CASE a[j] = p
      BY <3>1
    <3>2. CASE i \in 1..n /\ j \in 1..n
      <4>1. a[i] = q[i] /\ a[j] = q[j]
        BY <1>1, <3>2 DEF n, a
      <4> QED
        BY <2>2, <3>2, <4>1, Zenon DEF StayIn, n
    <3> QED
      BY <1>3, <1>5, <2>2, <3>1, <3>2, Zenon
  <2> QED
    BY <2>1, <2>2, Zenon DEF StayIn
<1> QED
  BY <1>6, <1>7 DEF a

LEMMA TakenOff ==
  ASSUME NEW d, NEW e, NEW q \in Seq(Packet), q # <<>>, e.packet = Head(q), NEW P
  PROVE  /\ AllIn(d, q, P) => AllIn(e, Tail(q), P)
         /\ StayIn(d, q, P) => StayIn(e, Tail(q), P)
<1> DEFINE r == Tail(q)
<1>1. /\ Head(q) = q[1] /\ Len(q) \in Nat /\ Len(q) >= 1 /\ Len(r) = Len(q) - 1
      /\ \A i \in 1..Len(r) : r[i] = q[i + 1]
  BY EmptySeq, HeadTailProperties
<1>2. \A n, m : n \in Nat /\ n >= 1 /\ m = n - 1 =>
        /\ 1 \in 1..n
        /\ \A i \in 1..m : i + 1 \in 1..n /\ 1 < i + 1
        /\ \A i, j \in 1..m : i < j => i + 1 < j + 1
  OBVIOUS
<1>3. /\ 1 \in 1..Len(q)
      /\ \A i \in 1..Len(r) : r[i] = q[i + 1] /\ i + 1 \in 1..Len(q) /\ 1 < i + 1
      /\ \A i, j \in 1..Len(r) : i < j => i + 1 < j + 1
  BY <1>1, <1>2, Zenon
<1> HIDE DEF r
<1>4. AllIn(d, q, P) => AllIn(e, r, P)
  <2> SUFFICES ASSUME AllIn(d, q, P) PROVE AllIn(e, r, P)
    OBVIOUS
  <2>1. e.packet \in P
    BY <1>1, <1>3, Zenon DEF AllIn
  <2>2. \A i \in 1..Len(r) : r[i] \in P
    BY <1>3, Zenon DEF AllIn
  <2> QED
    BY <2>1, <2>2, Zenon DEF AllIn
<1>5. StayIn(d, q, P) => StayIn(e, r, P)
  <2> SUFFICES ASSUME StayIn(d, q, P) PROVE StayIn(e, r, P)
    OBVIOUS
  <2>1. e.packet \in P => \A i \in 1..Len(r) : r[i] \in P
    BY <1>1, <1>3, Zenon DEF StayIn
  <2>2. \A i, j \in 1..Len(r) : i < j /\ r[i] \in P => r[j] \in P
    BY <1>3, Zenon DEF StayIn
  <2> QED
    BY <2>1, <2>2, Zenon DEF StayIn
<1> QED
  BY <1>4, <1>5 DEF r

(* The data thread is done with its packet. *)
LEMMA LetGo ==
  ASSUME NEW d, NEW e, NEW q, NEW P, e.pc # "locking"
  PROVE  /\ AllIn(d, q, P) => AllIn(e, q, P)
         /\ StayIn(d, q, P) => StayIn(e, q, P)
         /\ StayIn(d, q, P) /\ d.pc = "locking" /\ d.packet \in P => AllIn(e, q, P)
BY DEF AllIn, StayIn

LEMMA Among ==
  ASSUME NEW d, NEW q, NEW P, NEW R
  PROVE  /\ P \subseteq R /\ AllIn(d, q, P) => AllIn(d, q, R)
         /\ P \cap R = {} /\ AllIn(d, q, P) => StayIn(d, q, R)
         /\ \A S : P \cap R \subseteq S /\ AllIn(d, q, P) /\ AllIn(d, q, R) => AllIn(d, q, S)
BY DEF AllIn, StayIn

(* How the sets lie to each other. *)
LEMMA PacketSets ==
  ASSUME NEW r
  PROVE  /\ InnerPackets \cap NotInner = {} /\ InnerPackets \cap OuterPackets = {}
         /\ OuterPackets \subseteq NotInner /\ NotInner \subseteq InnerOf(r)
         /\ InnerPackets \cap InnerOf(r) \subseteq PacketsOf(r)
         /\ NotInner \cap InnerPackets = {}
BY DEF InnerPackets, OuterPackets, NotInner, InnerOf, PacketsOf

(* The board, the packets and the results when a self check has n steps left (0: there is  *)
(* none).  CheckInner is the 12th step from the end, and Restore the second.              *)
BoardAsks(n) ==
  /\ n \in 2..11 <=> board.StateMachine = 3
  /\ n \in 2..11 => board.round = round
  /\ n \in 6..11 => board.CorrectMode = 0
  /\ n \in 2..5 => board.CorrectMode = 1
PacketsAre(n, d, q, r) ==
  /\ n \notin 2..11 => AllIn(d, q, NotInner)
  /\ n \in 7..11 => AllIn(d, q, InnerOf(r)) /\ StayIn(d, q, InnerPackets)
  /\ n = 6 => AllIn(d, q, InnerPackets)
  /\ n \in 4..6 => AllIn(d, q, PacketsOf(r))
  /\ n \in 4..5 => StayIn(d, q, OuterPackets)
  /\ n \in 2..3 => AllIn(d, q, OuterPackets)
ResultsAre(n) ==
  /\ n # 7 => isTestingInner = Channel
  /\ n # 4 => isTestingOuter = Channel
  /\ n = 7 => /\ \A ch \in isTestingInner : SelfTestInner[ch] = round
              /\ isTestingInner # {} => AllIn(deal, queue, InnerPackets)
  /\ n = 4 => /\ \A ch \in isTestingOuter : SelfTestOuter[ch] = round
              /\ isTestingOuter # {} => AllIn(deal, queue, OuterPackets)
  /\ n \in 3..6 => \A ch \in Channel : SelfTestInner[ch] = round
  /\ n = 3 => \A ch \in Channel : SelfTestOuter[ch] = round
Phase(n) == BoardAsks(n) /\ PacketsAre(n, deal, queue, round) /\ ResultsAre(n)

(* The board goes on sending in a phase what belongs to it. *)
LEMMA PhaseEmit ==
  ASSUME TypeOK, NEW n \in 0..13, Phase(n), NEW ch \in Channel \cup {NoChannel}, Emit(ch)
  PROVE  Phase(n)'
<1>1. PICK w \in {0, 1} :
        /\ queue' = Append(queue, PacketOf(ch, w))
        /\ board.StateMachine = 3 => w = 0
        /\ w = 0 => board.StateMachine = 3 \/ board.CorrectMode = 1
  BY DEF Emit
<1>2. UNCHANGED <<board, deal, round, isTestingInner, isTestingOuter, SelfTestInner, SelfTestOuter>>
  BY DEF Emit, testVars, sessionVars
<1> DEFINE p == PacketOf(ch, w)
<1>3. /\ p \in Packet /\ p.work = w /\ (w = 0 => p.config = board) /\ queue \in Seq(Packet)
  BY PacketOK DEF TypeOK
<1> HIDE DEF p
<1>4. /\ n \notin 2..11 => p \in NotInner
      /\ n \in 6..11 => p \in InnerPackets
      /\ n \in 2..11 => p \in PacketsOf(round) /\ p \in InnerOf(round)
      /\ n \in 2..5 => p \in OuterPackets
  BY <1>1, <1>3 DEF Phase, BoardAsks, NotInner, InnerPackets, OuterPackets, PacketsOf, InnerOf
<1>5. \A P : p \in P => /\ AllIn(deal, queue, P) => AllIn(deal, Append(queue, p), P)
                        /\ StayIn(deal, queue, P) => StayIn(deal, Append(queue, p), P)
  BY <1>3, Appended
<1>6. PacketsAre(n, deal, Append(queue, p), round)
  BY <1>4, <1>5 DEF Phase, PacketsAre
<1>7. queue' = Append(queue, p) /\ PacketsAre(n, deal, queue, round)'
  BY <1>1, <1>2, <1>6 DEF p, PacketsAre
<1>8. ResultsAre(n)'
  BY <1>2, <1>4, <1>5, <1>7 DEF Phase, ResultsAre
<1>9. BoardAsks(n)'
  BY <1>2 DEF Phase, BoardAsks
<1> QED
  BY <1>7, <1>8, <1>9 DEF Phase

LEMMA PhaseTake ==
  ASSUME TypeOK, NEW n \in 0..13, Phase(n), Take
  PROVE  Phase(n)'
<1>1. /\ queue # <<>> /\ queue' = Tail(queue) /\ deal'.packet = Head(queue)
      /\ UNCHANGED <<board, round, isTestingInner, isTestingOuter, SelfTestInner, SelfTestOuter>>
  BY DEF Take, testVars, sessionVars
<1>2. \A P : /\ AllIn(deal, queue, P) => AllIn(deal', queue', P)
             /\ StayIn(deal, queue, P) => StayIn(deal', queue', P)
  <2>1. queue \in Seq(Packet)
    BY DEF TypeOK
  <2> QED
    BY <1>1, <2>1, TakenOff
<1>3. PacketsAre(n, deal', queue', round)
  BY <1>2 DEF Phase, PacketsAre
<1>4. PacketsAre(n, deal, queue, round)'
  BY <1>1, <1>3
<1>5. ResultsAre(n)'
  BY <1>1, <1>2 DEF Phase, ResultsAre
<1>6. BoardAsks(n)'
  BY <1>1 DEF Phase, BoardAsks
<1> QED
  BY <1>4, <1>5, <1>6 DEF Phase

LEMMA PhaseDrop ==
  ASSUME TypeOK, NEW n \in 0..13, Phase(n), Discard \/ SendMsgReturns
  PROVE  Phase(n)'
<1>1. /\ deal'.pc = "idle" /\ queue' = queue
      /\ UNCHANGED <<board, round, isTestingInner, isTestingOuter, SelfTestInner, SelfTestOuter>>
  BY DEF Discard, SendMsgReturns, Idle, testVars, sessionVars
<1>2. \A P : /\ AllIn(deal, queue, P) => AllIn(deal', queue', P)
             /\ StayIn(deal, queue, P) => StayIn(deal', queue', P)
  BY <1>1, LetGo
<1>3. PacketsAre(n, deal', queue', round)
  BY <1>2 DEF Phase, PacketsAre
<1>4. PacketsAre(n, deal, queue, round)'
  BY <1>1, <1>3
<1>5. ResultsAre(n)'
  BY <1>1, <1>2 DEF Phase, ResultsAre
<1>6. BoardAsks(n)'
  BY <1>1 DEF Phase, BoardAsks
<1> QED
  BY <1>4, <1>5, <1>6 DEF Phase

(* A packet is entered for the self check at work only while it waits, and only one that   *)
(* the board sent for it.                                                                 *)
LEMMA PhaseBuild ==
  ASSUME TypeOK, NEW n \in 0..13, Phase(n), BuildFrame
  PROVE  Phase(n)'
<1> DEFINE p == deal.packet
<1>1. /\ deal.pc = "locking" /\ Matches(p, deal.mode) /\ ToSelfCheck(p) /\ p \in Packet
      /\ deal' = [deal EXCEPT !.pc = "sending"] /\ queue' = queue
      /\ UNCHANGED <<board, round>>
  BY DEF BuildFrame, sessionVars, TypeOK
<1>2. deal'.pc = "sending"
  BY <1>1 DEF TypeOK
<1>3. \A P : /\ AllIn(deal, queue, P) => AllIn(deal', queue', P) /\ p \in P
             /\ StayIn(deal, queue, P) => StayIn(deal', queue', P)
             /\ StayIn(deal, queue, P) /\ p \in P => AllIn(deal', queue', P)
  BY <1>1, <1>2, LetGo DEF AllIn
<1>4. PacketsAre(n, deal', queue', round)
  BY <1>3 DEF Phase, PacketsAre
<1>5. PacketsAre(n, deal, queue, round)'
  BY <1>1, <1>4
<1>6. BoardAsks(n)'
  BY <1>1 DEF Phase, BoardAsks
<1>7. ResultsAre(n)'
  <2>0. /\ SelfTestInner \in [Channel -> Nat] /\ SelfTestOuter \in [Channel -> Nat]
        /\ isTestingInner \subseteq Channel /\ isTestingOuter \subseteq Channel
        /\ ResultsAre(n) /\ PacketsAre(n, deal, queue, round)
    BY DEF TypeOK, Phase
  <2>1. CASE isTestingInner # Channel /\ Measures(p, 0)
    <3>1. n = 7 /\ p \in InnerPackets /\ p \in InnerOf(round) /\ p.channel \in Channel
      BY <1>1, <1>3, <2>0, <2>1 DEF ResultsAre, PacketsAre, Measures, InnerPackets, Matches
    <3>2. p.config.round = round
      BY <3>1, PacketSets DEF PacketsOf
    <3>3. /\ SelfTestInner' = [SelfTestInner EXCEPT ![p.channel] = p.config.round]
          /\ isTestingInner' = isTestingInner \cup {p.channel}
          /\ UNCHANGED <<isTestingOuter, SelfTestOuter>>
      BY <1>1, <2>1 DEF ToSelfCheck
    <3>4. AllIn(deal', queue', InnerPackets)
      BY <1>3, <2>0, <3>1 DEF PacketsAre
    <3>5. \A ch \in isTestingInner' : SelfTestInner'[ch] = round'
      BY <1>1, <2>0, <3>1, <3>2, <3>3 DEF ResultsAre
    <3> HIDE DEF p
    <3> QED
      BY <2>0, <3>1, <3>3, <3>4, <3>5 DEF ResultsAre
  <2>2. CASE /\ ~(isTestingInner # Channel /\ Measures(p, 0))
             /\ isTestingOuter # Channel /\ Measures(p, 1)
    <3>1. n = 4 /\ p \in OuterPackets /\ p \in PacketsOf(round) /\ p.channel \in Channel
      BY <1>1, <1>3, <2>0, <2>2 DEF ResultsAre, PacketsAre, Measures, OuterPackets, Matches
    <3>2. p.config.round = round
      BY <3>1 DEF PacketsOf
    <3>3. /\ SelfTestOuter' = [SelfTestOuter EXCEPT ![p.channel] = p.config.round]
          /\ isTestingOuter' = isTestingOuter \cup {p.channel}
          /\ UNCHANGED <<isTestingInner, SelfTestInner>>
      BY <1>1, <2>2 DEF ToSelfCheck
    <3>4. AllIn(deal', queue', OuterPackets)
      BY <1>3, <2>0, <3>1 DEF PacketsAre
    <3>5. \A ch \in isTestingOuter' : SelfTestOuter'[ch] = round'
      BY <1>1, <2>0, <3>1, <3>2, <3>3 DEF ResultsAre
    <3> HIDE DEF p
    <3> QED
      BY <1>1, <2>0, <3>1, <3>3, <3>4, <3>5 DEF ResultsAre
  <2>3. CASE /\ ~(isTestingInner # Channel /\ Measures(p, 0))
             /\ ~(isTestingOuter # Channel /\ Measures(p, 1))
    <3>1. UNCHANGED <<isTestingInner, isTestingOuter, SelfTestInner, SelfTestOuter>>
      BY <1>1, <2>3 DEF ToSelfCheck, testVars
    <3> QED
      BY <1>1, <1>3, <2>0, <3>1 DEF ResultsAre
  <2> QED
    BY <2>1, <2>2, <2>3
<1> QED
  BY <1>5, <1>6, <1>7 DEF Phase

(* Most steps of a self check change neither what the board sends nor what is awaited.     *)
LEMMA SamePhase ==
  ASSUME NEW n \in 0..13, NEW m \in 0..13,
         \/ n = 11 /\ m = 10
         \/ n = 10 /\ m = 9
         \/ n = 9 /\ m = 8
         \/ n = 3 /\ m = 2
         \/ n = 1 /\ m = 0
  PROVE  /\ m \in 2..11 <=> n \in 2..11
         /\ m \in 3..11 => n \in 3..11
         /\ m \notin 2..12 => n \notin 2..12
         /\ n \notin {2, 6, 12} /\ m \notin {6, 12}
         /\ m \in 6..11 => n \in 6..11
         /\ m \in 2..5 => n \in 2..5
         /\ m \in 7..11 => n \in 7..11
         /\ m \in 2..3 => n \in 2..3
         /\ m \notin 4..6 /\ m \notin 4..5 /\ m \notin 3..6
         /\ m # 3 /\ m # 4 /\ m # 6 /\ m # 7 /\ n # 7 /\ n # 4
OBVIOUS

(* What a session's CmdCX holds when its self check has n steps left, and has assigned the *)
(* fields it is about to send in part.                                                    *)
OwnCX(s, n) ==
  /\ n \in 3..11 => CmdCX[s].StateMachine = 3
  /\ n \notin 2..12 => CmdCX[s].StateMachine # 3
  /\ n \notin {2, 6, 12} => assigned[Checker(s)] = {}
  /\ n = 12 => /\ "StateMachine" \in assigned[Checker(s)] => CmdCX[s].StateMachine = 3
               /\ "CorrectMode" \in assigned[Checker(s)] => CmdCX[s].CorrectMode = 0
  /\ n = 6 /\ "CorrectMode" \in assigned[Checker(s)] => CmdCX[s].CorrectMode = 1
  /\ n = 2 /\ "StateMachine" \in assigned[Checker(s)] => CmdCX[s].StateMachine = 1

(* The fields that each of the three writes of a self check assigns. *)
LEMMA CheckAssigns ==
  ASSUME NEW t, ToSend(t)
  PROVE  /\ Head(steps[t]) = CheckInner =>
              /\ {"StateMachine", "CorrectMode", "Resolution"} \subseteq DOMAIN ToAssign(t)
              /\ ToAssign(t)["StateMachine"] = 3 /\ ToAssign(t)["CorrectMode"] = 0
              /\ ToAssign(t)["Resolution"] = DefaultResolution
         /\ Head(steps[t]) = Send([CorrectMode |-> 1]) =>
              DOMAIN ToAssign(t) = {"CorrectMode"} /\ ToAssign(t)["CorrectMode"] = 1
         /\ Head(steps[t]).op = "Restore" =>
              /\ {"StateMachine", "Resolution"} \subseteq DOMAIN ToAssign(t)
              /\ ToAssign(t)["StateMachine"] = 1 /\ ToAssign(t)["Resolution"] = CmdResolution
<1>1. CASE Head(steps[t]) = CheckInner
  <2>1. /\ ToAssign(t) = [StateMachine |-> 3, Resolution |-> DefaultResolution,
                          freq |-> "centre", CorrectMode |-> 0]
        /\ Head(steps[t]).op = "send"
    BY <1>1, Ops DEF ToAssign, At, CheckInner, Send
  <2>2. Head(steps[t]) # Send([CorrectMode |-> 1])
    <3>1. Send([CorrectMode |-> 1]).fields = [CorrectMode |-> 1]
      BY Ops
    <3>2. Head(steps[t]).fields = [StateMachine |-> 3, Resolution |-> DefaultResolution,
                                   freq |-> "centre", CorrectMode |-> 0]
      BY <1>1 DEF CheckInner, Send
    <3> DEFINE f == [CorrectMode |-> 1]
               g == [StateMachine |-> 3, Resolution |-> DefaultResolution,
                     freq |-> "centre", CorrectMode |-> 0]
    <3>3. f.CorrectMode # g.CorrectMode
      OBVIOUS
    <3> HIDE DEF f, g
    <3>4. Send([CorrectMode |-> 1]).fields = f /\ Head(steps[t]).fields = g
      BY <3>1, <3>2 DEF f, g
    <3> QED
      BY <3>3, <3>4
  <2> QED
    BY <2>1, <2>2
<1>2. CASE Head(steps[t]) = Send([CorrectMode |-> 1])
  <2>1. ToAssign(t) = [CorrectMode |-> 1] /\ Head(steps[t]).op = "send"
    BY <1>2, Ops DEF ToAssign, At
  <2> QED
    BY <1>1, <2>1
<1>3. CASE Head(steps[t]).op = "Restore"
  <2>1. ToAssign(t) = Restored
    BY <1>3 DEF ToAssign, ToSend, At
  <2>2. Head(steps[t]) # CheckInner /\ Head(steps[t]) # Send([CorrectMode |-> 1])
    BY <1>3, Ops
  <2> QED
    BY <2>1, <2>2 DEF Restored
<1> QED
  BY <1>1, <1>2, <1>3

(* A self check assigns a field: the board knows nothing of it. *)
LEMMA PhaseAssign ==
  ASSUME TypeOK, NEW s \in Session, CheckerPlan(steps[Checker(s)]), AssignField(Checker(s)),
         NEW n \in 0..13, n = Len(steps[Checker(s)]), Phase(n), OwnCX(s, n)
  PROVE  Phase(n)' /\ OwnCX(s, n)'
<1> DEFINE t == Checker(s)  q == steps[t]  x == Head(q)
<1>1. /\ t \in Thread /\ Owner(t) = s /\ q \in Seq(Op) /\ q # <<>>
      /\ x.op \in {"send", "Restore"} /\ ToSend(t)
  BY TwoThreads DEF TypeOK, AssignField, ToSend, At
<1>2. \/ n = 12 /\ x = CheckInner
      \/ n = 6 /\ x = Send([CorrectMode |-> 1])
      \/ n = 2 /\ x.op = "Restore"
  BY <1>1, CheckerHead
<1>3. UNCHANGED <<round, board, queue, deal, isTestingInner, isTestingOuter, SelfTestInner,
                  SelfTestOuter>>
  BY DEF AssignField, testVars
<1>4. Phase(n)'
  BY <1>3 DEF Phase, BoardAsks, PacketsAre, ResultsAre
<1> DEFINE f == ToAssign(t)
<1>5. PICK k \in DOMAIN f :
        /\ assigned'[t] = assigned[t] \cup {k}
        /\ CmdCX'[s][k] = f[k]
        /\ \A j \in FieldName : j # k => CmdCX'[s][j] = CmdCX[s][j]
  BY <1>1, OneField
<1>6. "StateMachine" \in FieldName /\ "CorrectMode" \in FieldName
  BY DEF FieldName
<1> HIDE DEF f
<1>7. CASE n = 12 /\ x = CheckInner
  <2>1. f["StateMachine"] = 3 /\ f["CorrectMode"] = 0
    BY <1>1, <1>7, CheckAssigns DEF f
  <2>2. /\ "StateMachine" \in assigned'[t] => CmdCX'[s].StateMachine = 3
        /\ "CorrectMode" \in assigned'[t] => CmdCX'[s].CorrectMode = 0
    BY <1>5, <1>6, <1>7, <2>1 DEF OwnCX
  <2> QED
    BY <1>4, <1>7, <2>2 DEF OwnCX
<1>8. CASE n = 6 /\ x = Send([CorrectMode |-> 1])
  <2>1. k = "CorrectMode" /\ f["CorrectMode"] = 1
    BY <1>1, <1>5, <1>8, CheckAssigns DEF f
  <2>2. CmdCX'[s].StateMachine = 3 /\ CmdCX'[s].CorrectMode = 1
    BY <1>5, <1>6, <1>8, <2>1 DEF OwnCX
  <2> QED
    BY <1>4, <1>8, <2>2 DEF OwnCX
<1>9. CASE n = 2 /\ x.op = "Restore"
  <2>1. f["StateMachine"] = 1
    BY <1>1, <1>9, CheckAssigns DEF f
  <2>2. "StateMachine" \in assigned'[t] => CmdCX'[s].StateMachine = 1
    BY <1>5, <1>6, <1>9, <2>1 DEF OwnCX
  <2> QED
    BY <1>4, <1>9, <2>2 DEF OwnCX
<1> QED
  BY <1>2, <1>7, <1>8, <1>9

(* The steps of a self check from one phase to the next; a list of channels that were seen *)
(* is full only when every one of them was.                                               *)
LEMMA PhaseCheck ==
  ASSUME Channel # {}, TypeOK, NEW s \in Session, steps[Checker(s)] # <<>>,
         CheckerPlan(steps[Checker(s)]), CheckerStep(s), ~AssignField(Checker(s)),
         NEW n \in 0..13, n = Len(steps[Checker(s)]), Phase(n), OwnCX(s, n)
  PROVE  \E m \in 0..13 : m = Len(Tail(steps[Checker(s)])) /\ Phase(m)' /\ OwnCX(s, m)'
<1> DEFINE t == Checker(s)  q == steps[t]  x == Head(q)
<1>1. q \in Seq(Op) /\ t \in Thread /\ Owner(t) = s
  BY TwoThreads DEF TypeOK
<1> DEFINE k == Len(Tail(q))
<1>2. \/ n = 13 /\ k = 12 /\ x.op = "Clear"
      \/ n = 12 /\ k = 11 /\ x.op = "send" /\ x = CheckInner
      \/ n = 11 /\ k = 10 /\ x.op = "SetResult"
      \/ n = 10 /\ k = 9 /\ x.op = "SaveMode"
      \/ n = 9 /\ k = 8 /\ x.op = "SetMode"
      \/ n = 8 /\ k = 7 /\ x.op = "TestInner"
      \/ n = 7 /\ k = 6 /\ x.op = "AwaitInner"
      \/ n = 6 /\ k = 5 /\ x.op = "send" /\ x = Send([CorrectMode |-> 1])
      \/ n = 5 /\ k = 4 /\ x.op = "TestOuter"
      \/ n = 4 /\ k = 3 /\ x.op = "AwaitOuter"
      \/ n = 3 /\ k = 2 /\ x.op = "ScheckReplay"
      \/ n = 2 /\ k = 1 /\ x.op = "Restore"
      \/ n = 1 /\ k = 0 /\ x.op = "RestoreMode"
  BY <1>1, CheckerHead
<1>4. /\ x.op = "Clear" => Clear(s)
      /\ x.op \in {"send", "Restore"} => SendCXCmd(t)
      /\ x.op \in {"SetResult", "SaveMode", "SetMode", "ScheckReplay", "RestoreMode"} =>
           UNCHANGED <<CmdCX, assigned, testVars, round, board, queue, deal>>
      /\ x.op \in {"TestInner", "AwaitInner"} => TestInner(s)
      /\ x.op \in {"TestOuter", "AwaitOuter"} => TestOuter(s)
  BY DEF CheckerStep, Step, SendCXCmd, ToSend, Parse, SetCmdFreq, SetXXCXResult, SetXXCXFreq,
         SetDataType, Clear, SaveMode, TestInner, TestOuter, ScheckReplay, RestoreMode, At,
         parameterVars, sessionVars
<1> HIDE DEF k, x
<1>5. ASSUME NEW m \in 0..13, k = m, Phase(m)', OwnCX(s, m)'
      PROVE  \E h \in 0..13 : h = Len(Tail(steps[Checker(s)])) /\ Phase(h)' /\ OwnCX(s, h)'
  BY <1>5 DEF k
<1>6. /\ \A P, R : P \subseteq R /\ AllIn(deal, queue, P) => AllIn(deal, queue, R)
      /\ \A P, R : P \cap R = {} /\ AllIn(deal, queue, P) => StayIn(deal, queue, R)
      /\ \A P, R, S : P \cap R \subseteq S /\ AllIn(deal, queue, P) /\ AllIn(deal, queue, R)
                        => AllIn(deal, queue, S)
  BY Among
<1>a. /\ BoardAsks(n) /\ PacketsAre(n, deal, queue, round) /\ ResultsAre(n)
  BY DEF Phase
<1>7. CASE x.op = "Clear"
  <2>1. UNCHANGED <<CmdCX, assigned, round, isTestingInner, isTestingOuter, board, queue, deal>>
    BY <1>4, <1>7 DEF Clear, sessionVars
  <2>2. n = 13 /\ k = 12
    BY <1>2, <1>7
  <2>3. OwnCX(s, 12)'
    BY <2>1, <2>2 DEF OwnCX
  <2>4. BoardAsks(12)' /\ ResultsAre(12)'
    BY <1>a, <2>1, <2>2 DEF BoardAsks, ResultsAre
  <2>5. PacketsAre(12, deal, queue, round)'
    BY <1>a, <2>1, <2>2 DEF PacketsAre
  <2> QED
    BY <1>5, <2>2, <2>3, <2>4, <2>5 DEF Phase
<1>b. ASSUME x.op \in {"send", "Restore"}
      PROVE  /\ ToSend(t) /\ DOMAIN ToAssign(t) \subseteq assigned[t]
             /\ board'.StateMachine = CmdCX[s].StateMachine
             /\ board'.CorrectMode = CmdCX[s].CorrectMode
             /\ x.op = "send" => board'.round = round
             /\ assigned'[t] = {}
             /\ UNCHANGED <<CmdCX, isTestingInner, isTestingOuter, SelfTestInner, SelfTestOuter, round,
                            queue, deal>>
  <2>1. SendCXCmd(t)
    BY <1>4, <1>b
  <2>2. At(t, "send") <=> x.op = "send"
    BY DEF At, x
  <2>3. UNCHANGED <<CmdCX, isTestingInner, isTestingOuter, SelfTestInner, SelfTestOuter, round,
                    queue, deal>>
    BY <2>1 DEF SendCXCmd, testVars
  <2> QED
    BY <1>1, <2>1, <2>2, <2>3, Sent DEF FieldName
<1>8. CASE x.op = "send"
  <2>1. /\ ToSend(t) /\ DOMAIN ToAssign(t) \subseteq assigned[t]
        /\ board'.StateMachine = CmdCX[s].StateMachine /\ board'.CorrectMode = CmdCX[s].CorrectMode
        /\ board'.round = round /\ assigned'[t] = {}
        /\ UNCHANGED <<CmdCX, isTestingInner, isTestingOuter, SelfTestInner, SelfTestOuter, round,
                       queue, deal>>
    BY <1>8, <1>b
  <2>2. CASE n = 12 /\ k = 11 /\ x = CheckInner
    <3>1. "StateMachine" \in assigned[t] /\ "CorrectMode" \in assigned[t]
      BY <2>1, <2>2, CheckAssigns DEF x
    <3>2. CmdCX[s].StateMachine = 3 /\ CmdCX[s].CorrectMode = 0
      BY <2>2, <3>1 DEF OwnCX
    <3>4. OwnCX(s, 11)'
      BY <2>1, <3>2 DEF OwnCX
    <3>5. BoardAsks(11)'
      BY <2>1, <3>2 DEF BoardAsks
    <3>6. ResultsAre(11)'
      BY <1>a, <2>1, <2>2 DEF ResultsAre
    <3>7. PacketsAre(11, deal, queue, round)
      <4>1. AllIn(deal, queue, NotInner)
        BY <1>a, <2>2 DEF PacketsAre
      <4> QED
        BY <1>6, <4>1, PacketSets DEF PacketsAre
    <3>8. PacketsAre(11, deal, queue, round)'
      BY <2>1, <3>7
    <3> QED
      BY <1>5, <2>2, <3>4, <3>5, <3>6, <3>8 DEF Phase
  <2>3. CASE n = 6 /\ k = 5 /\ x = Send([CorrectMode |-> 1])
    <3>1. "CorrectMode" \in assigned[t]
      BY <2>1, <2>3, CheckAssigns DEF x
    <3>2. CmdCX[s].StateMachine = 3 /\ CmdCX[s].CorrectMode = 1
      BY <2>3, <3>1 DEF OwnCX
    <3>4. OwnCX(s, 5)'
      BY <2>1, <3>2 DEF OwnCX
    <3>5. BoardAsks(5)'
      BY <2>1, <3>2 DEF BoardAsks
    <3>6. ResultsAre(5)'
      BY <1>a, <2>1, <2>3 DEF ResultsAre
    <3>7. PacketsAre(5, deal, queue, round)
      <4>1. AllIn(deal, queue, InnerPackets) /\ AllIn(deal, queue, PacketsOf(round))
        BY <1>a, <2>3 DEF PacketsAre
      <4> QED
        BY <1>6, <4>1, PacketSets DEF PacketsAre
    <3>8. PacketsAre(5, deal, queue, round)'
      BY <2>1, <3>7
    <3> QED
      BY <1>5, <2>3, <3>4, <3>5, <3>6, <3>8 DEF Phase
  <2> QED
    BY <1>2, <1>8, <2>2, <2>3
<1>9. CASE x.op \in {"SetResult", "SaveMode", "SetMode", "ScheckReplay", "RestoreMode"}
  <2>1. UNCHANGED <<CmdCX, assigned, isTestingInner, isTestingOuter, SelfTestInner, SelfTestOuter,
                    round, board, queue, deal>>
    BY <1>4, <1>9 DEF testVars
  <2>2. PICK m \in 0..13 : m = k
    BY <1>2, <1>9
  <2>3. \/ n = 11 /\ m = 10
        \/ n = 10 /\ m = 9
        \/ n = 9 /\ m = 8
        \/ n = 3 /\ m = 2
        \/ n = 1 /\ m = 0
    BY <1>2, <1>9, <2>2
  <2>4. /\ m \in 2..11 <=> n \in 2..11
        /\ m \in 3..11 => n \in 3..11
        /\ m \notin 2..12 => n \notin 2..12
        /\ n \notin {2, 6, 12} /\ m \notin {6, 12}
        /\ m \in 6..11 => n \in 6..11
        /\ m \in 2..5 => n \in 2..5
        /\ m \in 7..11 => n \in 7..11
        /\ m \in 2..3 => n \in 2..3
        /\ m \notin 4..6 /\ m \notin 4..5 /\ m \notin 3..6
        /\ m # 3 /\ m # 4 /\ m # 6 /\ m # 7 /\ n # 7 /\ n # 4
    BY <2>3, SamePhase, Zenon
  <2>5. OwnCX(s, m)'
    BY <2>1, <2>4, Zenon DEF OwnCX
  <2>6. BoardAsks(m)'
    BY <1>a, <2>1, <2>4, Zenon DEF BoardAsks
  <2>7. ResultsAre(m)'
    BY <1>a, <2>1, <2>4, Zenon DEF ResultsAre
  <2>8. PacketsAre(m, deal, queue, round)'
    BY <1>a, <2>1, <2>4, Zenon DEF PacketsAre
  <2> QED
    BY <1>5, <2>2, <2>5, <2>6, <2>7, <2>8 DEF Phase
<1>10. CASE x.op = "TestInner"
  <2>1. /\ isTestingInner' = {}
        /\ UNCHANGED <<isTestingOuter, SelfTestInner, SelfTestOuter, CmdCX, assigned, round, board,
                       queue, deal>>
    BY <1>4, <1>10 DEF TestInner, sessionVars, At, x
  <2>2. n = 8 /\ k = 7
    BY <1>2, <1>10
  <2>3. OwnCX(s, 7)'
    BY <2>1, <2>2 DEF OwnCX
  <2>4. BoardAsks(7)' /\ ResultsAre(7)'
    BY <1>a, <2>1, <2>2 DEF BoardAsks, ResultsAre
  <2>5. PacketsAre(7, deal, queue, round)'
    BY <1>a, <2>1, <2>2 DEF PacketsAre
  <2> QED
    BY <1>5, <2>2, <2>3, <2>4, <2>5 DEF Phase
<1>11. CASE x.op = "AwaitInner"
  <2>1. /\ isTestingInner = Channel
        /\ UNCHANGED <<isTestingInner, isTestingOuter, SelfTestInner, SelfTestOuter, CmdCX, assigned,
                       round, board, queue, deal>>
    BY <1>4, <1>11 DEF TestInner, sessionVars, At, x
  <2>2. n = 7 /\ k = 6
    BY <1>2, <1>11
  <2>3. OwnCX(s, 6)'
    BY <2>1, <2>2 DEF OwnCX
  <2>4. BoardAsks(6)' /\ ResultsAre(6)'
    BY <1>a, <2>1, <2>2 DEF BoardAsks, ResultsAre
  <2>5. PacketsAre(6, deal, queue, round)
    <3>1. AllIn(deal, queue, InnerPackets) /\ AllIn(deal, queue, InnerOf(round))
      BY <1>a, <2>1, <2>2 DEF PacketsAre, ResultsAre
    <3>2. AllIn(deal, queue, PacketsOf(round))
      BY <1>6, <3>1, PacketSets
    <3> QED
      BY <3>1, <3>2 DEF PacketsAre
  <2>6. PacketsAre(6, deal, queue, round)'
    BY <2>1, <2>5
  <2> QED
    BY <1>5, <2>2, <2>3, <2>4, <2>6 DEF Phase
<1>12. CASE x.op = "TestOuter"
  <2>1. /\ isTestingOuter' = {}
        /\ UNCHANGED <<isTestingInner, SelfTestInner, SelfTestOuter, CmdCX, assigned, round, board,
                       queue, deal>>
    BY <1>4, <1>12 DEF TestOuter, sessionVars, At, x
  <2>2. n = 5 /\ k = 4
    BY <1>2, <1>12
  <2>3. OwnCX(s, 4)'
    BY <2>1, <2>2 DEF OwnCX
  <2>4. BoardAsks(4)' /\ ResultsAre(4)'
    BY <1>a, <2>1, <2>2 DEF BoardAsks, ResultsAre
  <2>5. PacketsAre(4, deal, queue, round)'
    BY <1>a, <2>1, <2>2 DEF PacketsAre
  <2> QED
    BY <1>5, <2>2, <2>3, <2>4, <2>5 DEF Phase
<1>13. CASE x.op = "AwaitOuter"
  <2>1. /\ isTestingOuter = Channel
        /\ UNCHANGED <<isTestingInner, isTestingOuter, SelfTestInner, SelfTestOuter, CmdCX, assigned,
                       round, board, queue, deal>>
    BY <1>4, <1>13 DEF TestOuter, sessionVars, At, x
  <2>2. n = 4 /\ k = 3
    BY <1>2, <1>13
  <2>3. OwnCX(s, 3)'
    BY <2>1, <2>2 DEF OwnCX
  <2>4. BoardAsks(3)' /\ ResultsAre(3)'
    BY <1>a, <2>1, <2>2 DEF BoardAsks, ResultsAre
  <2>5. PacketsAre(3, deal, queue, round)
    BY <1>a, <2>1, <2>2 DEF PacketsAre, ResultsAre
  <2>6. PacketsAre(3, deal, queue, round)'
    BY <2>1, <2>5
  <2> QED
    BY <1>5, <2>2, <2>3, <2>4, <2>6 DEF Phase
<1>14. CASE x.op = "Restore"
  <2>1. /\ ToSend(t) /\ DOMAIN ToAssign(t) \subseteq assigned[t]
        /\ board'.StateMachine = CmdCX[s].StateMachine /\ assigned'[t] = {}
        /\ UNCHANGED <<CmdCX, isTestingInner, isTestingOuter, SelfTestInner, SelfTestOuter, round,
                       queue, deal>>
    BY <1>14, <1>b
  <2>2. n = 2 /\ k = 1
    BY <1>2, <1>14
  <2>3. CmdCX[s].StateMachine = 1
    <3>1. "StateMachine" \in assigned[t]
      BY <1>14, <2>1, CheckAssigns DEF x
    <3> QED
      BY <2>2, <3>1 DEF OwnCX
  <2>4. OwnCX(s, 1)' /\ BoardAsks(1)'
    BY <2>1, <2>3 DEF OwnCX, BoardAsks
  <2>5. ResultsAre(1)'
    BY <1>a, <2>1, <2>2 DEF ResultsAre
  <2>6. PacketsAre(1, deal, queue, round)
    <3>1. AllIn(deal, queue, OuterPackets)
      BY <1>a, <2>2 DEF PacketsAre
    <3> QED
      BY <1>6, <3>1, PacketSets DEF PacketsAre
  <2>7. PacketsAre(1, deal, queue, round)'
    BY <2>1, <2>6
  <2> QED
    BY <1>5, <2>2, <2>4, <2>5, <2>7 DEF Phase
<1> QED
  BY <1>2, <1>7, <1>8, <1>9, <1>10, <1>11, <1>12, <1>13, <1>14

(* The steps of the read threads: none of them puts the board in a self check.            *)
GatherOp ==
  {x \in Op : /\ x.op # "Restore"
              /\ x.op = "send" /\ "StateMachine" \in DOMAIN x.fields => x.fields.StateMachine # 3}

LEMMA HandlerGathers ==
  ASSUME NEW c \in Command
  PROVE  Handler(c) \in Seq(GatherOp)
<1> USE DEF GatherOp
<1>1. \A sm \in 1..2, f \in Freq : Calibrate(sm, f) \in GatherOp
  <2>1. ASSUME NEW sm \in 1..2, NEW f \in Freq PROVE Calibrate(sm, f) \in GatherOp
    <3>1. Calibrate(sm, f).fields.StateMachine # 3
      BY DEF Calibrate, Send
    <3>2. Calibrate(sm, f).op # "Restore"
      BY Ops
    <3> QED
      BY <3>1, <3>2, StepsOK
  <2> QED
    BY <2>1
<1>a. Acquire \in GatherOp
  <2>1. DOMAIN Acquire.fields = {"CorrectMode"}
    BY DEF Acquire, Send
  <2>2. Acquire.op # "Restore"
    BY Ops
  <2> QED
    BY <2>1, <2>2, StepsOK
<1>2. \A f \in Freq : Send([StateMachine |-> 0, freq |-> f]) \in GatherOp
  <2>1. \A f \in Freq : Send([StateMachine |-> 0, freq |-> f]) \in Op
    <3>1. 0 \in 0..3
      OBVIOUS
    <3> QED
      BY <3>1, StepsOK, Zenon
  <2>2. ASSUME NEW f \in Freq
        PROVE  Send([StateMachine |-> 0, freq |-> f]) \in GatherOp
    <3> DEFINE g == [StateMachine |-> 0, freq |-> f]
    <3>1. g.StateMachine # 3
      OBVIOUS
    <3>2. Send(g) \in Op
      BY <2>1
    <3> HIDE DEF g
    <3>3. Send(g).fields = g /\ Send(g).op # "Restore"
      BY Ops
    <3>4. Send(g) \in GatherOp
      BY <3>1, <3>2, <3>3
    <3> QED
      BY <3>4 DEF g
  <2> QED
    BY <2>2
<1>3. Send(<<>>) \in GatherOp
  <2>1. \A x : x \notin 1..0
    OBVIOUS
  <2>2. Send(<<>>).fields = <<>> /\ DOMAIN <<>> = 1..0 /\ Send(<<>>).op # "Restore"
    BY DEF Send
  <2> QED
    BY <2>1, <2>2, StepsOK
<1>4. \A f \in Freq : SetCmd(f) \in GatherOp
  BY StepsOK, Ops
<1>5. \A m \in Mode : SetResult(m) \in GatherOp /\ SetFreq(m) \in GatherOp /\ SetMode(m) \in GatherOp
  BY StepsOK, Ops
<1>6. \A r \in Resolution \cup {Unset} : ParseRes(r) \in GatherOp
  BY StepsOK, Ops
<1>7. Simply("StartThread") \in GatherOp
  BY StepsOK, Ops
<1> HIDE DEF GatherOp
<1> QED
  BY <1>1, <1>a, <1>2, <1>3, <1>4, <1>5, <1>6, <1>7, HandlerIn

FreshInv ==
  /\ \E n \in 0..13 :
       /\ Phase(n)
       /\ n = 0 => \A s \in Session : steps[Checker(s)] = <<>>
       /\ n # 0 => \E s \in Session : Len(steps[Checker(s)]) = n
  /\ \A s \in Session : /\ steps[Reader(s)] \in Seq(GatherOp)
                        /\ \E n \in 0..13 : n = Len(steps[Checker(s)]) /\ OwnCX(s, n)

LEMMA FreshInit == Init => FreshInv
<1> SUFFICES ASSUME Init PROVE FreshInv
  OBVIOUS
<1>1. \A s \in Session : steps[Reader(s)] = <<>> /\ steps[Checker(s)] = <<>>
  BY TwoThreads DEF Init
<1>2. BoardAsks(0)
  BY DEF Init, BoardAsks, NoBoard
<1>3. PacketsAre(0, deal, queue, round)
  <2>1. \A x : x \notin 1..0
    OBVIOUS
  <2>2. queue = <<>> /\ Len(<<>>) = 0 /\ deal.pc = "idle"
    BY DEF Init, Idle
  <2>3. AllIn(deal, queue, NotInner)
    BY <2>1, <2>2 DEF AllIn
  <2> QED
    BY <2>3 DEF PacketsAre
<1>4. ResultsAre(0)
  BY DEF Init, ResultsAre
<1>5. \A s \in Session : OwnCX(s, 0)
  BY TwoThreads DEF Init, OwnCX
<1>6. <<>> \in Seq(GatherOp) /\ Len(<<>>) = 0
  OBVIOUS
<1>7. \A s \in Session : \E n \in 0..13 : n = Len(steps[Checker(s)]) /\ OwnCX(s, n)
  BY <1>1, <1>5, <1>6
<1>8. Phase(0) /\ 0 \in 0..13
  BY <1>2, <1>3, <1>4 DEF Phase
<1> QED
  BY <1>1, <1>6, <1>7, <1>8, Zenon DEF FreshInv

(* The board and the data thread go on while the threads stand. *)
LEMMA FreshStands ==
  ASSUME FreshInv, UNCHANGED <<steps, CmdCX, assigned, round>>, \A n \in 0..13 : Phase(n) => Phase(n)'
  PROVE  FreshInv'
<1>1. \A s \in Session : \A n \in 0..13 : OwnCX(s, n) => OwnCX(s, n)'
  BY DEF OwnCX
<1> QED
  BY <1>1 DEF FreshInv

LEMMA FreshReceive ==
  ASSUME TypeOK, FreshInv, NEW s \in Session, Receive(s)
  PROVE  FreshInv'
<1>1. PICK c \in Command : steps' = [steps EXCEPT ![Reader(s)] = Handler(c)]
  BY DEF Receive
<1>2. UNCHANGED <<CmdCX, assigned, round, board, queue, deal, isTestingInner, isTestingOuter,
                  SelfTestInner, SelfTestOuter>>
  BY DEF Receive, testVars
<1>3. steps'[Reader(s)] = Handler(c) /\ \A u \in Thread : u # Reader(s) => steps'[u] = steps[u]
  BY <1>1, TwoThreads DEF TypeOK
<1>4. \A r \in Session : /\ steps'[Checker(r)] = steps[Checker(r)]
                         /\ steps'[Reader(r)] \in {steps[Reader(r)], Handler(c)}
  BY <1>3, TwoThreads, DistinctSessions
<1>5. \A n \in 0..13 : Phase(n) => Phase(n)'
  BY <1>2 DEF Phase, BoardAsks, PacketsAre, ResultsAre
<1>6. \A r \in Session : \A n \in 0..13 : OwnCX(r, n) => OwnCX(r, n)'
  BY <1>2 DEF OwnCX
<1> QED
  BY <1>4, <1>5, <1>6, HandlerGathers DEF FreshInv

(* A read thread at work: no self check is. *)
LEMMA NoCheck ==
  ASSUME TypeOK, TurnInv, FreshInv, NEW s \in Session, steps[Reader(s)] # <<>>
  PROVE  /\ Phase(0)
         /\ \A r \in Session : /\ steps[Checker(r)] = <<>> /\ OwnCX(r, 0)
                               /\ r # s => steps[Reader(r)] = <<>>
<1>1. \A r \in Session : /\ steps[Checker(r)] = <<>>
                         /\ r # s => steps[Reader(r)] = <<>>
  BY TwoThreads, DistinctSessions DEF TurnInv, OneAtATime
<1>2. Len(<<>>) = 0
  OBVIOUS
<1> QED
  BY <1>1, <1>2 DEF FreshInv

LEMMA FreshReader ==
  ASSUME TypeOK, TurnInv, FreshInv, NEW s \in Session, Step(Reader(s))
  PROVE  FreshInv'
<1> DEFINE t == Reader(s)  q == steps[t]  x == Head(q)
<1>1. q # <<>> /\ t \in Thread /\ Owner(t) = s
  BY TwoThreads DEF Step, AssignField, SendCXCmd, ToSend, Parse, SetCmdFreq, SetXXCXResult,
                    SetXXCXFreq, SetDataType, At
<1>2. /\ Phase(0)
      /\ \A r \in Session : /\ steps[Checker(r)] = <<>> /\ OwnCX(r, 0)
                            /\ r # s => steps[Reader(r)] = <<>>
  BY <1>1, NoCheck
<1>3. q \in Seq(GatherOp)
  BY DEF FreshInv
<1>4. x \in GatherOp /\ Tail(q) \in Seq(GatherOp) /\ <<>> \in Seq(GatherOp)
  BY <1>1, <1>3, EmptySeq, HeadTailProperties
<1>5. /\ \A u \in Thread : u # t => steps'[u] = steps[u] /\ assigned'[u] = assigned[u]
      /\ steps'[t] \in {q, Tail(q)}
  <2>1. CASE AssignField(t)
    <3>1. steps' = steps
      BY <2>1 DEF AssignField
    <3> QED
      BY <1>1, <2>1, <3>1, OneField
  <2>2. CASE ~AssignField(t)
    <3>1. Advance(t) /\ (assigned' = assigned \/ SendCXCmd(t))
      BY <2>2 DEF Step, SendCXCmd, Parse, SetCmdFreq, SetXXCXResult, SetXXCXFreq, SetDataType,
                  sessionVars
    <3> QED
      BY <1>1, <3>1, AdvanceOK, Sent
  <2> QED
    BY <2>1, <2>2
<1>6. \A r \in Session : /\ steps'[Checker(r)] = <<>> /\ steps'[Reader(r)] \in Seq(GatherOp)
                         /\ assigned'[Checker(r)] = {}
  <2>1. \A r \in Session : assigned[Checker(r)] = {}
    BY <1>2 DEF OwnCX
  <2> QED
    BY <1>2, <1>3, <1>4, <1>5, <2>1, TwoThreads, DistinctSessions
<1>7. UNCHANGED <<round, queue, deal, isTestingInner, isTestingOuter, SelfTestInner, SelfTestOuter>>
  BY DEF Step, AssignField, SendCXCmd, Parse, SetCmdFreq, SetXXCXResult, SetXXCXFreq, SetDataType,
         testVars, sessionVars
<1>8. CmdCX \in [Session -> Config] /\ CmdCX[s] \in Config
  BY DEF TypeOK
<1>10. /\ board'.StateMachine # 3
       /\ \A r \in Session : CmdCX'[r].StateMachine # 3
  <2>1. /\ board.StateMachine # 3
        /\ \A r \in Session : CmdCX[r].StateMachine # 3
    BY <1>2 DEF Phase, BoardAsks, OwnCX
  <2>2. CASE AssignField(t)
    <3>1. ToSend(t)
      BY <2>2 DEF AssignField
    <3>2. ToAssign(t) = x.fields /\ x.op = "send"
      <4>1. x.op \in {"send", "Restore"}
        BY <3>1 DEF ToSend, At
      <4>2. x.op # "Restore"
        BY <1>4 DEF GatherOp
      <4> QED
        BY <4>1, <4>2 DEF ToAssign, At
    <3>3. "StateMachine" \in DOMAIN ToAssign(t) => ToAssign(t)["StateMachine"] # 3
      BY <1>4, <3>2 DEF GatherOp
    <3>4. PICK k \in DOMAIN ToAssign(t) :
            /\ CmdCX'[s][k] = ToAssign(t)[k]
            /\ \A j \in FieldName : j # k => CmdCX'[s][j] = CmdCX[s][j]
      BY <1>1, <2>2, OneField
    <3>5. \A r \in Session : r # s => CmdCX'[r] = CmdCX[r]
      BY <1>1, <2>2, OneField
    <3>6. CmdCX'[s].StateMachine # 3
      BY <2>1, <3>3, <3>4 DEF FieldName
    <3>7. board' = board
      BY <2>2 DEF AssignField
    <3> QED
      BY <2>1, <3>5, <3>6, <3>7
  <2>3. CASE SendCXCmd(t)
    <3>1. CmdCX' = CmdCX /\ board'.StateMachine = CmdCX[s].StateMachine
      BY <1>1, <2>3, Sent DEF SendCXCmd, FieldName
    <3> QED
      BY <2>1, <3>1
  <2>4. CASE Parse(t)
    <3> DEFINE cmd == [CmdCX[s] EXCEPT !.Resolution = x.res]
    <3>1. UNCHANGED CmdCX \/ CmdCX' = [CmdCX EXCEPT ![s] = cmd]
      BY <1>1, <2>4 DEF Parse
    <3>2. board' = board
      BY <2>4 DEF Parse
    <3>3. cmd.StateMachine = CmdCX[s].StateMachine
      BY <1>8 DEF Config
    <3> HIDE DEF cmd
    <3> QED
      BY <1>8, <2>1, <3>1, <3>2, <3>3
  <2>5. CASE ~AssignField(t) /\ ~SendCXCmd(t) /\ ~Parse(t)
    <3>1. UNCHANGED <<CmdCX, board>>
      BY <2>5 DEF Step, SetCmdFreq, SetXXCXResult, SetXXCXFreq, SetDataType, sessionVars
    <3> QED
      BY <2>1, <3>1
  <2> QED
    BY <2>2, <2>3, <2>4, <2>5
<1>11. \A r \in Session : OwnCX(r, 0)'
  BY <1>6, <1>10 DEF OwnCX
<1>12. Phase(0)'
  <2>1. BoardAsks(0)'
    BY <1>10 DEF BoardAsks
  <2>2. PacketsAre(0, deal, queue, round)' /\ ResultsAre(0)'
    BY <1>2, <1>7 DEF Phase, PacketsAre, ResultsAre
  <2> QED
    BY <2>1, <2>2 DEF Phase
<1>13. Len(<<>>) = 0
  OBVIOUS
<1> QED
  BY <1>6, <1>11, <1>12, <1>13 DEF FreshInv

LEMMA FreshStart ==
  ASSUME TypeOK, TurnInv, FreshInv, NEW s \in Session, StartThread(s)
  PROVE  FreshInv'
<1> DEFINE q == steps[Reader(s)]
<1>1. /\ q # <<>>
      /\ steps' = [steps EXCEPT ![Reader(s)] = Tail(q), ![Checker(s)] = SelfCheck]
      /\ UNCHANGED <<CmdCX, assigned, board, queue, deal, isTestingInner, isTestingOuter>>
  BY DEF StartThread, At, testVars
<1>2. /\ Phase(0)
      /\ \A r \in Session : /\ steps[Checker(r)] = <<>> /\ OwnCX(r, 0)
                            /\ r # s => steps[Reader(r)] = <<>>
  BY <1>1, NoCheck
<1>3. steps \in [Thread -> Seq(Op)] /\ Reader(s) \in Thread /\ Checker(s) \in Thread
        /\ Reader(s) # Checker(s)
  BY TwoThreads DEF TypeOK
<1>4. Tail(q) \in Seq(GatherOp) /\ <<>> \in Seq(GatherOp)
  <2>1. q \in Seq(GatherOp)
    BY DEF FreshInv
  <2> QED
    BY <1>1, <2>1, EmptySeq, HeadTailProperties
<1>5. /\ steps'[Checker(s)] = SelfCheck /\ steps'[Reader(s)] = Tail(q)
      /\ \A r \in Session : r # s => steps'[Checker(r)] = <<>> /\ steps'[Reader(r)] = <<>>
  BY <1>1, <1>2, <1>3, TwoThreads, DistinctSessions
<1>6. Phase(13)'
  <2>1. BoardAsks(13)' /\ ResultsAre(13)'
    BY <1>1, <1>2 DEF Phase, BoardAsks, ResultsAre
  <2>2. PacketsAre(13, deal, queue, round)'
    BY <1>1, <1>2 DEF Phase, PacketsAre
  <2> QED
    BY <2>1, <2>2 DEF Phase
<1>7. \A r \in Session : OwnCX(r, 0)' /\ OwnCX(r, 13)'
  BY <1>1, <1>2 DEF OwnCX
<1>8. Len(SelfCheck) = 13 /\ Len(<<>>) = 0
  BY SelfCheckOK
<1>9. \A r \in Session : /\ steps'[Reader(r)] \in Seq(GatherOp)
                         /\ \E n \in 0..13 : n = Len(steps'[Checker(r)]) /\ OwnCX(r, n)'
  <2>1. 0 \in 0..13 /\ 13 \in 0..13
    OBVIOUS
  <2> QED
    BY <1>4, <1>5, <1>7, <1>8, <2>1, Zenon
<1> QED
  BY <1>5, <1>6, <1>8, <1>9 DEF FreshInv

LEMMA FreshCheck ==
  ASSUME Channel # {}, TypeOK, TurnInv, FreshInv, NEW s \in Session, CheckerStep(s)
  PROVE  FreshInv'
<1> DEFINE t == Checker(s)  q == steps[t]
<1>1. /\ q # <<>> /\ q \in Seq(Op) /\ t \in Thread /\ Owner(t) = s
      /\ IF AssignField(t) THEN steps' = steps ELSE Advance(t)
      /\ assigned' = assigned \/ AssignField(t) \/ SendCXCmd(t)
  BY TwoThreads
     DEF CheckerStep, Step, AssignField, SendCXCmd, ToSend, Parse, SetCmdFreq, SetXXCXResult,
         SetXXCXFreq, SetDataType, Clear, SaveMode, TestInner, TestOuter, ScheckReplay, RestoreMode,
         At, sessionVars, TypeOK
<1>2. /\ steps'[t] = IF AssignField(t) THEN q ELSE Tail(q)
      /\ \A u \in Thread : u # t => /\ steps[u] = <<>> /\ steps'[u] = <<>>
                                    /\ assigned'[u] = assigned[u]
  <2>1. \A u \in Thread : u # t => steps[u] = <<>>
    BY <1>1 DEF TurnInv, OneAtATime
  <2>2. \A u \in Thread : u # t => assigned'[u] = assigned[u]
    BY <1>1, OneField, Sent
  <2>3. ~AssignField(t) => /\ steps'[t] = Tail(q)
                           /\ \A u \in Thread : u # t => steps'[u] = steps[u]
    BY <1>1, AdvanceOK
  <2> QED
    BY <1>1, <2>1, <2>2, <2>3
<1>3. \A r \in Session : /\ steps'[Reader(r)] = <<>>
                         /\ r # s => steps[Checker(r)] = <<>> /\ steps'[Checker(r)] = <<>>
  BY <1>2, TwoThreads, DistinctSessions
<1>4. CheckerPlan(q)
  BY DEF TurnInv
<1>5. PICK n \in 0..13 : n = Len(q) /\ Phase(n) /\ OwnCX(s, n)
  <2>1. Len(q) # 0 /\ Len(<<>>) = 0
    BY <1>1, <1>2, EmptySeq
  <2> QED
    BY <1>1, <1>3, <2>1 DEF FreshInv
<1>6. PICK m \in 0..13 : m = Len(steps'[t]) /\ Phase(m)' /\ OwnCX(s, m)'
  <2>1. CASE AssignField(t)
    BY <1>2, <1>4, <1>5, <2>1, PhaseAssign
  <2>2. CASE ~AssignField(t)
    BY <1>1, <1>2, <1>4, <1>5, <2>2, PhaseCheck
  <2> QED
    BY <2>1, <2>2
<1>7. \A r \in Session : r # s => OwnCX(r, 0)'
  <2>1. \A r \in Session : r # s => OwnCX(r, 0)
    <3>1. Len(<<>>) = 0
      OBVIOUS
    <3> QED
      BY <1>3, <3>1 DEF FreshInv
  <2>2. \A r \in Session : r # s => CmdCX'[r] = CmdCX[r]
    <3>1. AssignField(t) => \A r \in Session : r # s => CmdCX'[r] = CmdCX[r]
      BY <1>1, OneField
    <3>2. ~AssignField(t) => \A r \in Session : r # s => CmdCX'[r] = CmdCX[r]
      BY <1>1
         DEF CheckerStep, Step, SendCXCmd, Parse, SetCmdFreq, SetXXCXResult, SetXXCXFreq, SetDataType,
             Clear, SaveMode, TestInner, TestOuter, ScheckReplay, RestoreMode, sessionVars, TypeOK
    <3> QED
      BY <3>1, <3>2
  <2>3. \A r \in Session : r # s => assigned'[Checker(r)] = assigned[Checker(r)]
    BY <1>2, TwoThreads, DistinctSessions
  <2> QED
    BY <2>1, <2>2, <2>3 DEF OwnCX
<1>8. <<>> \in Seq(GatherOp) /\ Len(<<>>) = 0
  OBVIOUS
<1>9. \A r \in Session : /\ steps'[Reader(r)] \in Seq(GatherOp)
                         /\ \E h \in 0..13 : h = Len(steps'[Checker(r)]) /\ OwnCX(r, h)'
  <2>1. 0 \in 0..13
    OBVIOUS
  <2> QED
    BY <1>2, <1>3, <1>6, <1>7, <1>8, <2>1, Zenon
<1>10. /\ m = 0 => \A r \in Session : steps'[Checker(r)] = <<>>
       /\ m # 0 => \E r \in Session : Len(steps'[Checker(r)]) = m
  <2>1. m = 0 => steps'[t] = <<>>
    BY <1>1, <1>2, <1>6, EmptySeq, HeadTailProperties
  <2> QED
    BY <1>2, <1>3, <1>6, <2>1
<1> QED
  BY <1>6, <1>9, <1>10 DEF FreshInv

LEMMA FreshStep ==
  ASSUME ~Faults, Channel # {}, TypeOK, TurnInv, FreshInv, [Next]_vars
  PROVE  FreshInv'
<1>1. ASSUME NEW s \in Session, Receive(s) \/ ReaderStep(s) \/ CheckerStep(s) PROVE FreshInv'
  BY <1>1, FreshReceive, FreshReader, FreshStart, FreshCheck DEF ReaderStep
<1>2. ASSUME NEW ch \in Channel \cup {NoChannel}, Emit(ch) PROVE FreshInv'
  <2>1. \A n \in 0..13 : Phase(n) => Phase(n)'
    BY <1>2, PhaseEmit
  <2>2. UNCHANGED <<steps, CmdCX, assigned, round>>
    BY <1>2 DEF Emit, sessionVars
  <2> QED
    BY <2>1, <2>2, FreshStands
<1>3. ASSUME Take \/ Discard \/ BuildFrame \/ SendMsgReturns PROVE FreshInv'
  <2>1. \A n \in 0..13 : Phase(n) => Phase(n)'
    BY <1>3, PhaseTake, PhaseDrop, PhaseBuild
  <2>2. UNCHANGED <<steps, CmdCX, assigned, round>>
    BY <1>3 DEF Take, Discard, BuildFrame, SendMsgReturns, sessionVars
  <2> QED
    BY <2>1, <2>2, FreshStands
<1>4. CASE UNCHANGED vars
  <2>1. UNCHANGED <<steps, CmdCX, assigned, round, board, queue, deal, isTestingInner,
                    isTestingOuter, SelfTestInner, SelfTestOuter>>
    BY <1>4 DEF vars, testVars, sessionVars
  <2>2. \A n \in 0..13 : Phase(n) => Phase(n)'
    BY <2>1 DEF Phase, BoardAsks, PacketsAre, ResultsAre
  <2> QED
    BY <2>1, <2>2, FreshStands
<1>5. ASSUME NEW s \in Session PROVE ~CommandThrows(s)
  BY DEF CommandThrows
<1> QED
  BY <1>1, <1>2, <1>3, <1>4, <1>5 DEF Next

LEMMA FreshReport ==
  ASSUME TypeOK, TurnInv, FreshInv PROVE ReportIsFresh
<1> SUFFICES ASSUME NEW s \in Session, At(Checker(s), "ScheckReplay")
             PROVE  \A ch \in Channel : SelfTestInner[ch] = round /\ SelfTestOuter[ch] = round
  BY DEF ReportIsFresh
<1> DEFINE q == steps[Checker(s)]
<1>1. q # <<>> /\ Head(q).op = "ScheckReplay" /\ Checker(s) \in Thread
  BY TwoThreads DEF At
<1>2. q \in Seq(Op) /\ CheckerPlan(q)
  BY <1>1 DEF TypeOK, TurnInv
<1>3. Len(q) = 3
  BY <1>1, <1>2, CheckerHead
<1>4. \A r \in Session : r # s => steps[Checker(r)] = <<>>
  BY <1>1, TwoThreads, DistinctSessions DEF TurnInv, OneAtATime
<1>5. Phase(3)
  <2>1. Len(<<>>) = 0
    OBVIOUS
  <2> QED
    BY <1>1, <1>3, <1>4, <2>1 DEF FreshInv
<1> QED
  BY <1>5 DEF Phase, ResultsAre

(* As long as every command came when the one before it, and every self check, was over,    *)
(* reports are fresh, for any number of sessions, channels and self checks: when a self     *)
(* check reports, each channel has been measured in the inner and in the outer correction,  *)
(* and in the configuration this self check sent.  Between the CmdCX of the session, of     *)
(* which the fields are assigned one by one, the board, the packets on their way and the    *)
(* two lists of channels, each phase keeps what is left of the one before it out of the     *)
(* results of its own.                                                                     *)
THEOREM ReportsAreFresh == ASSUME ~Faults PROVE Spec => [](hurried = 0 => ReportIsFresh)
<1>1. CASE Channel = {}
  <2>1. ReportIsFresh
    BY <1>1 DEF ReportIsFresh
  <2> QED
    BY <2>1, PTL
<1>2. CASE Channel # {}
  <2> DEFINE I == hurried = 0 => TurnInv /\ FreshInv
  <2>1. TypeOK /\ I => (hurried = 0 => ReportIsFresh)
    BY FreshReport
  <2>2. TypeOK /\ I /\ [Next]_vars => I'
    BY <1>2, TurnStep, FreshStep
  <2>3. Init => I
    BY TurnInit, FreshInit
  <2> HIDE DEF I
  <2> QED
    BY <2>1, <2>2, <2>3, TypeCorrect, PTL DEF Spec
<1> QED
  BY <1>1, <1>2

------------------------------------------------------------------------------
(* The resolution of the board and of the parsers, for one client *)

PendingSend(q) == \E i \in 1..Len(q) : q[i].op = "send"
PendingResult(q, m) == \E i \in 1..Len(q) : q[i] = SetResult(m)

(* A resolution is taken over at the beginning of a handler that then sends it and sets   *)
(* the results; no other handler says anything of a resolution.                           *)
ReaderRes(q) ==
  \A i \in 1..Len(q) :
    /\ q[i].op = "Parse" =>
         /\ i = 1 /\ Len(q) = 5 /\ q[2].op = "send"
         /\ q[3] = SetResult("CX_WB") /\ q[4] = SetResult("CX_SWEEP")
    /\ q[i].op = "send" => "Resolution" \notin DOMAIN q[i].fields
    /\ q[i].op # "Restore"

(* A self check with n steps left has its own resolution, not the client's. *)
Checking(n) == n >= 2

Synced(s) == CmdCX[s].Resolution = CmdResolution
WBSet == FreqResolution["CX_WB"] = CmdResolution
SweepSet == FreqResolution["CX_SWEEP"] \in {CmdResolution, Unset}
BoardSet == board.Resolution \in {CmdResolution, Unset}

(* A self check that has n steps left may have assigned a part of what it sends. *)
Halfway(s, n) ==
  /\ n \notin {2, 6, 12} => assigned[Checker(s)] = {}
  /\ n = 2 /\ "Resolution" \in assigned[Checker(s)] => Synced(s)

Following(s, q, n) ==
  /\ ReaderRes(q) /\ Halfway(s, n)
  /\ Synced(s) \/ Checking(n)
  /\ WBSet \/ PendingResult(q, "CX_WB")
  /\ SweepSet \/ PendingResult(q, "CX_SWEEP")
  /\ BoardSet \/ PendingSend(q) \/ Checking(n)

ParserInv(s) == Following(s, steps[Reader(s)], Len(steps[Checker(s)]))

LEMMA Fields0 ==
  /\ \A sm, f : "Resolution" \notin DOMAIN Calibrate(sm, f).fields
  /\ "Resolution" \notin DOMAIN Acquire.fields
  /\ \A sm, f : "Resolution" \notin DOMAIN Send([StateMachine |-> sm, freq |-> f]).fields
  /\ "Resolution" \notin DOMAIN Send(<<>>).fields
<1>1. \A sm, f : "Resolution" \notin DOMAIN Calibrate(sm, f).fields
  BY DEF Calibrate, Send
<1>2. "Resolution" \notin DOMAIN Acquire.fields
  BY DEF Acquire, Send
<1>3. \A sm, f : "Resolution" \notin DOMAIN Send([StateMachine |-> sm, freq |-> f]).fields
  BY DEF Send
<1>4. "Resolution" \notin DOMAIN Send(<<>>).fields
  <2>1. \A x : x \notin 1..0
    OBVIOUS
  <2>2. Send(<<>>).fields = <<>>
    BY DEF Send
  <2> QED
    BY <2>1, <2>2
<1> QED
  BY <1>1, <1>2, <1>3, <1>4

LEMMA Pendings ==
  ASSUME NEW q \in Seq(Op), q # <<>>, ReaderRes(q)
  PROVE  /\ ReaderRes(Tail(q))
         /\ Head(q).op = "Parse" => /\ PendingSend(Tail(q))
                                    /\ PendingResult(Tail(q), "CX_WB")
                                    /\ PendingResult(Tail(q), "CX_SWEEP")
         /\ Head(q).op = "send" => "Resolution" \notin DOMAIN Head(q).fields
         /\ Head(q).op # "Restore"
         /\ PendingSend(q) /\ Head(q).op # "send" => PendingSend(Tail(q))
         /\ \A m : PendingResult(q, m) /\ Head(q) # SetResult(m) => PendingResult(Tail(q), m)
<1>1. /\ Len(q) \in Nat /\ Head(q) = q[1] /\ Len(Tail(q)) = Len(q) - 1 /\ 1 \in 1..Len(q)
      /\ \A i \in 1..Len(Tail(q)) : Tail(q)[i] = q[i + 1] /\ i + 1 \in 1..Len(q)
  BY Tails, OneIn, Zenon
<1>2. \A n, m, i : n \in Nat /\ m = n - 1 /\ i \in 1..n /\ i # 1 =>
                     i - 1 \in 1..m /\ (i - 1) + 1 = i
  OBVIOUS
<1>3. \A i \in 1..Len(q) : i # 1 => i - 1 \in 1..Len(Tail(q)) /\ (i - 1) + 1 = i
  BY <1>1, <1>2, Zenon
<1>4. \A i \in 1..Len(q) : i # 1 => i - 1 \in 1..Len(Tail(q)) /\ Tail(q)[i - 1] = q[i]
  BY <1>1, <1>3, Zenon
<1>5. \A n : \A i \in 1..n : i + 1 # 1
  OBVIOUS
<1>6. ReaderRes(Tail(q))
  <2>1. ASSUME NEW i \in 1..Len(Tail(q))
        PROVE  /\ Tail(q)[i].op # "Parse"
               /\ Tail(q)[i].op = "send" => "Resolution" \notin DOMAIN Tail(q)[i].fields
               /\ Tail(q)[i].op # "Restore"
    <3>1. Tail(q)[i] = q[i + 1] /\ i + 1 \in 1..Len(q) /\ i + 1 # 1
      BY <1>1, <1>5, Zenon
    <3> QED
      BY <3>1, Zenon DEF ReaderRes
  <2> QED
    BY <2>1 DEF ReaderRes
<1>7. Head(q).op = "Parse" => /\ PendingSend(Tail(q))
                              /\ PendingResult(Tail(q), "CX_WB")
                              /\ PendingResult(Tail(q), "CX_SWEEP")
  <2> SUFFICES ASSUME Head(q).op = "Parse"
               PROVE  /\ PendingSend(Tail(q))
                      /\ PendingResult(Tail(q), "CX_WB")
                      /\ PendingResult(Tail(q), "CX_SWEEP")
    OBVIOUS
  <2>1. /\ Len(q) = 5 /\ q[2].op = "send" /\ q[3] = SetResult("CX_WB")
        /\ q[4] = SetResult("CX_SWEEP")
    BY <1>1, Zenon DEF ReaderRes
  <2>2. 2 \in 1..5 /\ 3 \in 1..5 /\ 4 \in 1..5 /\ 2 # 1 /\ 3 # 1 /\ 4 # 1
    OBVIOUS
  <2>3. /\ 2 - 1 \in 1..Len(Tail(q)) /\ Tail(q)[2 - 1] = q[2]
        /\ 3 - 1 \in 1..Len(Tail(q)) /\ Tail(q)[3 - 1] = q[3]
        /\ 4 - 1 \in 1..Len(Tail(q)) /\ Tail(q)[4 - 1] = q[4]
    BY <1>4, <2>1, <2>2, Zenon
  <2> QED
    BY <2>1, <2>3, Zenon DEF PendingSend, PendingResult
<1>8. /\ Head(q).op = "send" => "Resolution" \notin DOMAIN Head(q).fields
      /\ Head(q).op # "Restore"
  BY <1>1, Zenon DEF ReaderRes
<1>9. PendingSend(q) /\ Head(q).op # "send" => PendingSend(Tail(q))
  BY <1>1, <1>4, Zenon DEF PendingSend
<1>10. \A m : PendingResult(q, m) /\ Head(q) # SetResult(m) => PendingResult(Tail(q), m)
  BY <1>1, <1>4, Zenon DEF PendingResult
<1> QED
  BY <1>6, <1>7, <1>8, <1>9, <1>10, Zenon

(* What a step of a self check may do to a resolution, and when. *)
LEMMA CheckerRes ==
  ASSUME NEW q \in Seq(Op), q # <<>>, CheckerPlan(q)
  PROVE  /\ Head(q).op # "Restore" => (Checking(Len(Tail(q))) <=> Checking(Len(q)))
         /\ Head(q).op \in {"send", "SetResult", "Clear"} => Checking(Len(q))
         /\ Head(q).op = "Restore" <=> Len(q) = 2
         /\ Head(q).op = "send" <=> Len(q) \in {6, 12}
         /\ Head(q).op = "SetResult" => Head(q).mode = "TEST_CHANNEL"
         /\ Head(q).op \notin {"Parse", "SetFreq", "StartThread"}
<1> DEFINE n == Len(q)  m == Len(Tail(q))
<1>1. Head(q) = SelfCheck[14 - n] /\ n \in 1..13
  <2>1. Head(q) = SelfCheck[14 - Len(q)]
    BY Plans
  <2>2. Len(q) \in Nat /\ Len(q) >= 1 /\ Len(q) <= 13
    BY Tails DEF CheckerPlan
  <2>3. Len(q) \in 1..13
    BY <2>2, Interval, Zenon
  <2> QED
    BY <2>1, <2>3, Zenon
<1>2. m = n - 1
  BY Tails
<1> HIDE DEF n, m
<1>3. /\ SelfCheck[2].op = "send" /\ SelfCheck[3].op = "SetResult"
      /\ SelfCheck[3].mode = "TEST_CHANNEL"
      /\ SelfCheck[5].op = "SetMode" /\ SelfCheck[8].op = "send"
  BY CheckOps, Ops
<1>4. /\ Head(q).op = "Restore" <=> n = 2
      /\ Head(q).op = "send" <=> n \in {6, 12}
      /\ Head(q).op \in {"send", "SetResult", "Clear"} => n \notin {1, 2}
      /\ Head(q).op = "SetResult" => Head(q).mode = "TEST_CHANNEL"
      /\ Head(q).op \notin {"Parse", "SetFreq", "StartThread"}
  BY <1>1, <1>3, CheckOps, Thirteen
<1>5. /\ n # 2 => (Checking(m) <=> Checking(n))
      /\ n \notin {1, 2} => Checking(n)
  BY <1>1, <1>2 DEF Checking
<1> QED
  BY <1>4, <1>5, Zenon DEF n, m

LEMMA HandlerRes ==
  ASSUME NEW c \in Command, c.kind = "param" => c.accepted
  PROVE  ReaderRes(Handler(c))
<1>0. Mode = {"TEST_CHANNEL", "CX_WB", "CX_NB", "CX_SWEEP"}
  BY DEF Mode
<1>1. CASE c.kind = "start" /\ c.mode = "CX_NB"
  <2> DEFINE h == <<Send([StateMachine |-> 0, freq |-> c.freq]), SetCmd(c.freq),
                     SetMode("CX_NB")>>
  <2>1. Handler(c) = h
    BY <1>1, Handlers
  <2>2. /\ Len(h) = 3
        /\ h[1].op = "send"
        /\ "Resolution" \notin DOMAIN h[1].fields
        /\ h[2].op = "SetCmd"
        /\ h[3].op = "SetMode"
    BY Ops, Fields0
  <2> HIDE DEF h
  <2> QED
    BY <2>1, <2>2 DEF ReaderRes
<1>2. CASE c.kind = "start" /\ c.mode = "CX_WB"
  <2> DEFINE h == <<Calibrate(1, c.freq), Acquire, SetCmd(c.freq),
                     SetFreq("CX_WB"), SetMode("CX_WB")>>
  <2>1. Handler(c) = h
    BY <1>2, Handlers
  <2>2. /\ Len(h) = 5
        /\ h[1].op = "send"
        /\ "Resolution" \notin DOMAIN h[1].fields
        /\ h[2].op = "send"
        /\ "Resolution" \notin DOMAIN h[2].fields
        /\ h[3].op = "SetCmd"
        /\ h[4].op = "SetFreq"
        /\ h[5].op = "SetMode"
    BY Ops, Fields0
  <2> HIDE DEF h
  <2> QED
    BY <2>1, <2>2 DEF ReaderRes
<1>3. CASE c.kind = "start" /\ c.mode = "CX_SWEEP"
  <2> DEFINE h == <<Calibrate(1, c.freq), Acquire, SetCmd("garbage"),
                     SetFreq("CX_SWEEP"), SetMode("CX_SWEEP")>>
  <2>1. Handler(c) = h
    BY <1>3, Handlers
  <2>2. /\ Len(h) = 5
        /\ h[1].op = "send"
        /\ "Resolution" \notin DOMAIN h[1].fields
        /\ h[2].op = "send"
        /\ "Resolution" \notin DOMAIN h[2].fields
        /\ h[3].op = "SetCmd"
        /\ h[4].op = "SetFreq"
        /\ h[5].op = "SetMode"
    BY Ops, Fields0
  <2> HIDE DEF h
  <2> QED
    BY <2>1, <2>2 DEF ReaderRes
<1>4. CASE c.kind = "start" /\ c.mode = "TEST_CHANNEL"
  <2> DEFINE h == <<Calibrate(2, c.freq), Acquire, SetFreq("TEST_CHANNEL"),
                     SetMode("TEST_CHANNEL")>>
  <2>1. Handler(c) = h
    BY <1>4, Handlers
  <2>2. /\ Len(h) = 4
        /\ h[1].op = "send"
        /\ "Resolution" \notin DOMAIN h[1].fields
        /\ h[2].op = "send"
        /\ "Resolution" \notin DOMAIN h[2].fields
        /\ h[3].op = "SetFreq"
        /\ h[4].op = "SetMode"
    BY Ops, Fields0
  <2> HIDE DEF h
  <2> QED
    BY <2>1, <2>2 DEF ReaderRes
<1>5. CASE c.kind = "end"
  <2> DEFINE h == <<SetMode(c.mode)>>
  <2>1. Handler(c) = h
    BY <1>5, Handlers
  <2>2. /\ Len(h) = 1
        /\ h[1].op = "SetMode"
    BY Ops
  <2> HIDE DEF h
  <2> QED
    BY <2>1, <2>2 DEF ReaderRes
<1>6. CASE c.kind = "param" /\ c.accepted
  <2> DEFINE h == <<ParseRes(c.res), Send(<<>>), SetResult("CX_WB"), SetResult("CX_SWEEP"),
                     SetResult("TEST_CHANNEL")>>
  <2>1. Handler(c) = h
    BY <1>6, Handlers
  <2>2. /\ Len(h) = 5
        /\ h[1].op = "Parse"
        /\ h[2].op = "send"
        /\ "Resolution" \notin DOMAIN h[2].fields
        /\ h[3] = SetResult("CX_WB")
        /\ h[3].op = "SetResult"
        /\ h[4] = SetResult("CX_SWEEP")
        /\ h[4].op = "SetResult"
        /\ h[5].op = "SetResult"
    BY Ops, Fields0
  <2> HIDE DEF h
  <2> QED
    BY <2>1, <2>2 DEF ReaderRes
<1>7. CASE c.kind = "check"
  <2> DEFINE h == <<Simply("StartThread")>>
  <2>1. Handler(c) = h
    BY <1>7, Handlers
  <2>2. /\ Len(h) = 1
        /\ h[1].op = "StartThread"
    BY Ops
  <2> HIDE DEF h
  <2> QED
    BY <2>1, <2>2 DEF ReaderRes
<1> QED
  BY <1>0, <1>1, <1>2, <1>3, <1>4, <1>5, <1>6, <1>7, Commands

(* The client's thread at work: no self check is. *)
LEMMA AtWork ==
  ASSUME TypeOK, TurnInv, NEW s \in Session, ParserInv(s),
         steps[Reader(s)] # <<>>, Advance(Reader(s))
  PROVE  LET q == steps[Reader(s)]
         IN  /\ steps'[Reader(s)] = Tail(q) /\ steps'[Checker(s)] = <<>>
             /\ assigned[Checker(s)] = {} /\ Synced(s) /\ q \in Seq(Op) /\ ReaderRes(q)
             /\ Following(s, q, 0) /\ ReaderRes(Tail(q))
<1> DEFINE q == steps[Reader(s)]
<1>1. /\ steps'[Reader(s)] = Tail(q) /\ q \in Seq(Op)
      /\ steps[Checker(s)] = <<>> /\ steps'[Checker(s)] = <<>>
  <2>1. Reader(s) \in Thread /\ Checker(s) \in Thread /\ Checker(s) # Reader(s)
    BY TwoThreads
  <2> QED
    BY <2>1, Busy DEF TurnInv
<1>2. Following(s, q, 0)
  BY <1>1, NoSteps DEF ParserInv
<1>3. Synced(s) /\ ReaderRes(q) /\ assigned[Checker(s)] = {}
  BY <1>2 DEF Following, Checking, Halfway
<1>4. ReaderRes(Tail(q))
  BY <1>1, <1>3, Pendings
<1> QED
  BY <1>1, <1>2, <1>3, <1>4

LEMMA FollowingNext ==
  ASSUME NEW s, NEW q, NEW n, steps'[Reader(s)] = q, Len(steps'[Checker(s)]) = n,
         ReaderRes(q), Halfway(s, n)', Synced(s)' \/ Checking(n),
         WBSet' \/ PendingResult(q, "CX_WB"), SweepSet' \/ PendingResult(q, "CX_SWEEP"),
         BoardSet' \/ PendingSend(q) \/ Checking(n)
  PROVE  ParserInv(s)'
BY DEF ParserInv, Following, ReaderRes, Halfway, Synced, PendingResult, PendingSend, Checking

(* A step that concerns no resolution. *)
LEMMA FollowingSame ==
  ASSUME NEW s, ParserInv(s), UNCHANGED <<steps, CmdResolution, FreqResolution>>,
         CmdCX'[s].Resolution = CmdCX[s].Resolution, board'.Resolution = board.Resolution,
         assigned'[Checker(s)] = assigned[Checker(s)]
  PROVE  ParserInv(s)'
BY DEF ParserInv, Following, Halfway, Synced, WBSet, SweepSet, BoardSet

(* The steps of the client's thread. *)
LEMMA ReaderAssigns ==
  ASSUME TypeOK, TurnInv, NEW s \in Session, ParserInv(s), AssignField(Reader(s))
  PROVE  ParserInv(s)'
<1> DEFINE t == Reader(s)  q == steps[t]
<1>1. /\ t \in Thread /\ Checker(s) \in Thread /\ Checker(s) # t /\ Owner(t) = s /\ q \in Seq(Op)
      /\ q # <<>> /\ ToSend(t) /\ UNCHANGED <<steps, CmdResolution, FreqResolution, board>>
  BY TwoThreads DEF AssignField, ToSend, At, TypeOK, parameterVars
<1>2. ReaderRes(q)
  BY DEF ParserInv, Following
<1>3. Head(q).op # "Restore" /\ (Head(q).op = "send" => "Resolution" \notin DOMAIN Head(q).fields)
  BY <1>1, <1>2, Pendings
<1>4. "Resolution" \notin DOMAIN ToAssign(t)
  BY <1>1, <1>3 DEF ToSend, ToAssign, At
<1>5. /\ CmdCX'[s].Resolution = CmdCX[s].Resolution
      /\ assigned'[Checker(s)] = assigned[Checker(s)]
  <2>1. "Resolution" \in FieldName
    BY DEF FieldName
  <2> QED
    BY <1>1, <1>4, <2>1, OneField
<1> QED
  BY <1>1, <1>5, FollowingSame

LEMMA ReaderFollows ==
  ASSUME TypeOK, TurnInv, NEW s \in Session, ParserInv(s), Step(Reader(s)), ~AssignField(Reader(s))
  PROVE  ParserInv(s)'
<1> DEFINE t == Reader(s)  q == steps[t]  x == Head(q)
<1>1. q # <<>> /\ Advance(t) /\ t \in Thread /\ Owner(t) = s
  BY TwoThreads
     DEF Step, SendCXCmd, ToSend, Parse, SetCmdFreq, SetXXCXResult, SetXXCXFreq, SetDataType, At
<1>2. /\ steps'[t] = Tail(q) /\ steps'[Checker(s)] = <<>> /\ Synced(s)
      /\ assigned[Checker(s)] = {}
      /\ q \in Seq(Op) /\ ReaderRes(q) /\ Following(s, q, 0) /\ ReaderRes(Tail(q))
  BY <1>1, AtWork
<1>3. Len(steps'[Checker(s)]) = 0
  BY <1>2, NoSteps
<1>d. Halfway(s, 0)'
  <2>1. assigned' = assigned \/ SendCXCmd(t)
    BY DEF Step, Parse, SetCmdFreq, SetXXCXResult, SetXXCXFreq, SetDataType, sessionVars
  <2>2. assigned'[Checker(s)] = {}
    BY <1>1, <1>2, <2>1, Sent, TwoThreads
  <2> QED
    BY <2>2 DEF Halfway
<1>c. ASSUME Synced(s)', WBSet' \/ PendingResult(Tail(q), "CX_WB"),
             SweepSet' \/ PendingResult(Tail(q), "CX_SWEEP"),
             BoardSet' \/ PendingSend(Tail(q))
      PROVE  ParserInv(s)'
  BY <1>2, <1>3, <1>c, <1>d, FollowingNext
<1>4. /\ WBSet \/ PendingResult(q, "CX_WB")
      /\ SweepSet \/ PendingResult(q, "CX_SWEEP")
      /\ BoardSet \/ PendingSend(q)
  BY <1>2 DEF Following, Checking
<1>5. /\ x.op = "Parse" => /\ PendingSend(Tail(q))
                           /\ PendingResult(Tail(q), "CX_WB")
                           /\ PendingResult(Tail(q), "CX_SWEEP")
      /\ x.op # "Restore"
      /\ PendingSend(q) /\ x.op # "send" => PendingSend(Tail(q))
      /\ \A m : PendingResult(q, m) /\ x # SetResult(m) => PendingResult(Tail(q), m)
  BY <1>1, <1>2, Pendings
<1>6. \A m : x = SetResult(m) => x.op = "SetResult" /\ x.mode = m
  BY Ops
<1>7. CmdCX \in [Session -> Config] /\ CmdCX[s] \in Config
  BY DEF TypeOK
<1>8. FreqResolution \in [Mode -> Resolution \cup {Unset}]
  BY DEF TypeOK
<1>a. x.op = "SetResult" \/ x.op = "SetFreq" => x.mode \in Mode
  BY <1>1, HeadOK DEF At
<1> HIDE DEF x, q, t
<1>9. CASE x.op = "send"
  <2>0. SendCXCmd(t)
    BY <1>9 DEF Step, Parse, SetCmdFreq, SetXXCXResult, SetXXCXFreq, SetDataType, At, t, q, x
  <2>1. UNCHANGED <<CmdCX, CmdResolution, FreqResolution>>
    BY <2>0 DEF SendCXCmd, parameterVars
  <2>2. board'.Resolution = CmdCX[s].Resolution
    BY <1>1, <2>0, Sent DEF FieldName
  <2>3. Synced(s)' /\ BoardSet'
    BY <1>2, <2>1, <2>2 DEF Synced, BoardSet
  <2>4. (WBSet' <=> WBSet) /\ (SweepSet' <=> SweepSet)
    BY <2>1 DEF WBSet, SweepSet
  <2>5. /\ PendingResult(q, "CX_WB") => PendingResult(Tail(q), "CX_WB")
        /\ PendingResult(q, "CX_SWEEP") => PendingResult(Tail(q), "CX_SWEEP")
    BY <1>5, <1>6, <1>9
  <2> QED
    BY <1>4, <1>c, <2>3, <2>4, <2>5
<1>10. CASE x.op = "Parse"
  <2>1. Synced(s)'
    <3>1. \/ UNCHANGED <<CmdResolution, CmdCX>>
          \/ /\ CmdResolution' = x.res
             /\ CmdCX' = [CmdCX EXCEPT ![s] = [CmdCX[s] EXCEPT !.Resolution = x.res]]
      BY <1>1, <1>10 DEF Step, SendCXCmd, ToSend, Parse, SetCmdFreq, SetXXCXResult, SetXXCXFreq,
                         SetDataType, At, t, q, x
    <3> DEFINE cmd == [CmdCX[s] EXCEPT !.Resolution = x.res]
    <3>2. cmd.Resolution = x.res
      BY <1>7 DEF Config
    <3>3. CASE UNCHANGED <<CmdResolution, CmdCX>>
      BY <1>2, <3>3 DEF Synced
    <3>4. CASE CmdResolution' = x.res /\ CmdCX' = [CmdCX EXCEPT ![s] = cmd]
      <4> HIDE DEF cmd
      <4>1. CmdCX'[s] = cmd
        BY <1>7, <3>4
      <4> QED
        BY <3>2, <3>4, <4>1 DEF Synced
    <3> QED
      BY <3>1, <3>3, <3>4
  <2> QED
    BY <1>5, <1>10, <1>c, <2>1
<1>11. CASE x.op \notin {"send", "Parse"}
  <2>1. UNCHANGED <<CmdResolution, CmdCX, board>>
    BY <1>1, <1>5, <1>11 DEF Step, SendCXCmd, ToSend, Parse, SetCmdFreq, SetXXCXResult, SetXXCXFreq, SetDataType,
                  At, sessionVars, t, q, x
  <2>2. Synced(s)' /\ (BoardSet' <=> BoardSet)
    BY <1>2, <2>1 DEF Synced, BoardSet
  <2>3. BoardSet' \/ PendingSend(Tail(q))
    BY <1>4, <1>5, <1>11, <2>2
  <2>4. ASSUME NEW m \in Mode
        PROVE  /\ \/ FreqResolution'[m] = FreqResolution[m]
                  \/ FreqResolution'[m] = CmdResolution
               /\ x = SetResult(m) => FreqResolution'[m] = CmdResolution
    <3>1. CASE x.op = "SetResult"
      <4>1. FreqResolution' = [FreqResolution EXCEPT ![x.mode] = CmdCX[s].Resolution]
        BY <1>1, <3>1 DEF Step, SendCXCmd, ToSend, Parse, SetCmdFreq, SetXXCXResult, SetXXCXFreq,
                          SetDataType, At, t, q, x
      <4>2. CmdCX[s].Resolution = CmdResolution
        BY <1>2 DEF Synced
      <4> QED
        BY <1>6, <1>8, <1>a, <3>1, <4>1, <4>2
    <3>2. CASE x.op = "SetFreq"
      <4>1. \/ FreqResolution' = [FreqResolution EXCEPT ![x.mode] = CmdResolution]
            \/ FreqResolution' = FreqResolution
        BY <1>1, <3>2 DEF Step, SendCXCmd, ToSend, Parse, SetCmdFreq, SetXXCXResult, SetXXCXFreq,
                          SetDataType, At, t, q, x
      <4> QED
        BY <1>6, <1>8, <1>a, <3>2, <4>1
    <3>3. CASE x.op \notin {"SetResult", "SetFreq"}
      <4>1. FreqResolution' = FreqResolution
        BY <1>1, <1>5, <1>11, <3>3 DEF Step, SendCXCmd, ToSend, parameterVars, Parse, SetCmdFreq, SetXXCXResult, SetXXCXFreq,
                                 SetDataType, At, t, q, x
      <4> QED
        BY <1>6, <3>3, <4>1
    <3> QED
      BY <3>1, <3>2, <3>3
  <2>5. "CX_WB" \in Mode /\ "CX_SWEEP" \in Mode
    BY DEF Mode
  <2>6. WBSet' \/ PendingResult(Tail(q), "CX_WB")
    BY <1>4, <1>5, <2>1, <2>4, <2>5 DEF WBSet
  <2>7. SweepSet' \/ PendingResult(Tail(q), "CX_SWEEP")
    BY <1>4, <1>5, <2>1, <2>4, <2>5 DEF SweepSet
  <2> QED
    BY <1>c, <2>2, <2>3, <2>6, <2>7
<1> QED
  BY <1>9, <1>10, <1>11

LEMMA NonePending ==
  ASSUME NEW q, q = <<>>
  PROVE  ReaderRes(q) /\ ~PendingSend(q) /\ (\A m : ~PendingResult(q, m))
BY DEF ReaderRes, PendingSend, PendingResult

(* A self check at work: the client's thread is not. *)
LEMMA AtCheck ==
  ASSUME TypeOK, TurnInv, NEW s \in Session, ParserInv(s),
         steps[Checker(s)] # <<>>, Advance(Checker(s))
  PROVE  LET k == steps[Checker(s)]
         IN  /\ steps'[Checker(s)] = Tail(k) /\ steps'[Reader(s)] = <<>>
             /\ k \in Seq(Op) /\ Halfway(s, Len(k)) /\ CheckerPlan(k) /\ WBSet /\ SweepSet
             /\ Synced(s) \/ Checking(Len(k))
             /\ BoardSet \/ Checking(Len(k))
<1> DEFINE k == steps[Checker(s)]
<1>1. /\ steps'[Checker(s)] = Tail(k) /\ k \in Seq(Op)
      /\ steps[Reader(s)] = <<>> /\ steps'[Reader(s)] = <<>>
  <2>1. Reader(s) \in Thread /\ Checker(s) \in Thread /\ Checker(s) # Reader(s)
    BY TwoThreads
  <2> QED
    BY <2>1, Busy DEF TurnInv
<1>2. CheckerPlan(k)
  BY DEF TurnInv
<1>3. /\ ~PendingSend(steps[Reader(s)])
      /\ \A m : ~PendingResult(steps[Reader(s)], m)
  BY <1>1, NonePending
<1> QED
  BY <1>1, <1>2, <1>3 DEF ParserInv, Following

(* The self check assigns a field. *)
LEMMA CheckerAssigns ==
  ASSUME TypeOK, TurnInv, NEW s \in Session, ParserInv(s), AssignField(Checker(s))
  PROVE  ParserInv(s)'
<1> DEFINE t == Checker(s)  k == steps[t]
<1>a. PICK n : n = Len(k)
  OBVIOUS
<1>1. /\ t \in Thread /\ Owner(t) = s /\ k \in Seq(Op) /\ k # <<>> /\ ToSend(t)
      /\ Head(k).op \in {"send", "Restore"} /\ CheckerPlan(k)
      /\ UNCHANGED <<steps, CmdResolution, FreqResolution, board>>
  BY TwoThreads DEF AssignField, ToSend, At, TypeOK, TurnInv, parameterVars
<1>2. n \in {2, 6, 12} /\ (n = 2 => Head(k).op = "Restore")
  BY <1>a, <1>1, CheckerRes
<1>3. PICK j \in DOMAIN ToAssign(t) :
        /\ assigned'[t] = assigned[t] \cup {j}
        /\ CmdCX'[s][j] = ToAssign(t)[j]
        /\ \A i \in FieldName : i # j => CmdCX'[s][i] = CmdCX[s][i]
  BY <1>1, OneField
<1>4. n = 2 => ToAssign(t)["Resolution"] = CmdResolution
  BY <1>1, <1>2, CheckAssigns
<1>5. Following(s, steps[Reader(s)], n)
  BY <1>a DEF ParserInv
<1>6. Halfway(s, n)'
  <2>1. ASSUME n = 2, "Resolution" \in assigned'[t] PROVE Synced(s)'
    <3>1. CASE j = "Resolution"
      BY <1>1, <1>3, <1>4, <2>1, <3>1 DEF Synced
    <3>2. CASE j # "Resolution"
      <4>1. "Resolution" \in assigned[t] /\ "Resolution" \in FieldName
        BY <1>3, <2>1, <3>2 DEF FieldName
      <4>2. Synced(s)
        BY <1>5, <2>1, <4>1 DEF Following, Halfway
      <4> QED
        BY <1>1, <1>3, <3>2, <4>1, <4>2 DEF Synced
    <3> QED
      BY <3>1, <3>2
  <2> QED
    BY <1>2, <2>1 DEF Halfway
<1>7. Checking(n)
  BY <1>2 DEF Checking
<1>8. PICK q : q = steps[Reader(s)]
  OBVIOUS
<1>9. /\ ReaderRes(q)
      /\ WBSet' \/ PendingResult(q, "CX_WB")
      /\ SweepSet' \/ PendingResult(q, "CX_SWEEP")
  BY <1>1, <1>5, <1>8 DEF Following, WBSet, SweepSet
<1>10. steps'[Reader(s)] = q /\ Len(steps'[Checker(s)]) = n
  BY <1>a, <1>1, <1>8
<1> QED
  BY <1>6, <1>7, <1>9, <1>10, FollowingNext

(* The steps of the self check. *)
LEMMA CheckerFollows ==
  ASSUME TypeOK, TurnInv, NEW s \in Session, ParserInv(s), CheckerStep(s), ~AssignField(Checker(s))
  PROVE  ParserInv(s)'
<1> DEFINE t == Checker(s)  k == steps[t]  x == Head(k)
<1>1. /\ k # <<>> /\ Advance(t) /\ t \in Thread /\ Owner(t) = s
      /\ assigned' = assigned \/ SendCXCmd(t)
      /\ x.op \in {"send", "Restore"} <=> SendCXCmd(t)
  BY TwoThreads
     DEF CheckerStep, Step, SendCXCmd, ToSend, Parse, SetCmdFreq, SetXXCXResult, SetXXCXFreq,
         SetDataType, Clear, SaveMode, TestInner, TestOuter, ScheckReplay, RestoreMode, At, sessionVars
<1>2. /\ steps'[t] = Tail(k) /\ steps'[Reader(s)] = <<>>
      /\ k \in Seq(Op) /\ Halfway(s, Len(k)) /\ CheckerPlan(k) /\ WBSet /\ SweepSet
      /\ Synced(s) \/ Checking(Len(k))
      /\ BoardSet \/ Checking(Len(k))
  BY <1>1, AtCheck
<1>3. /\ x.op # "Restore" => (Checking(Len(Tail(k))) <=> Checking(Len(k)))
      /\ x.op \in {"send", "SetResult", "Clear"} => Checking(Len(k))
      /\ x.op = "Restore" <=> Len(k) = 2
      /\ x.op = "send" <=> Len(k) \in {6, 12}
      /\ x.op = "SetResult" => x.mode = "TEST_CHANNEL"
      /\ x.op \notin {"Parse", "SetFreq", "StartThread"}
  BY <1>1, <1>2, CheckerRes
<1>4. ASSUME Synced(s)' \/ Checking(Len(Tail(k))), BoardSet' \/ Checking(Len(Tail(k))),
             WBSet', SweepSet'
      PROVE  ParserInv(s)'
  <2>1. assigned'[t] = {}
    <3>1. CASE SendCXCmd(t)
      BY <1>1, <3>1, Sent
    <3>2. CASE ~SendCXCmd(t)
      BY <1>1, <1>2, <1>3, <3>2 DEF Halfway
    <3> QED
      BY <3>1, <3>2
  <2>2. PICK m : m = Len(Tail(k))
    OBVIOUS
  <2>3. Halfway(s, m)'
    BY <2>1 DEF Halfway
  <2>4. Len(steps'[Checker(s)]) = m
    BY <1>2, <2>2
  <2>5. ReaderRes(<<>>)
    BY NonePending
  <2> QED
    BY <1>2, <1>4, <2>2, <2>3, <2>4, <2>5, FollowingNext
<1>6. FreqResolution \in [Mode -> Resolution \cup {Unset}]
  BY DEF TypeOK
<1>7. CASE x.op \in {"send", "Restore"}
  <2>1. SendCXCmd(t)
    BY <1>1, <1>7
  <2>2. UNCHANGED <<CmdCX, CmdResolution, FreqResolution>>
    BY <2>1 DEF SendCXCmd, parameterVars
  <2>3. WBSet' /\ SweepSet'
    BY <1>2, <2>2 DEF WBSet, SweepSet
  <2>4. CASE x.op = "send"
    BY <1>3, <1>4, <2>3, <2>4
  <2>5. CASE x.op = "Restore"
    <3>1. ToSend(t) /\ DOMAIN ToAssign(t) \subseteq assigned[t]
            /\ board'.Resolution = CmdCX[s].Resolution
      BY <1>1, <2>1, Sent DEF FieldName
    <3>2. "Resolution" \in assigned[t]
      BY <2>5, <3>1, CheckAssigns
    <3>3. Synced(s)
      BY <1>2, <1>3, <2>5, <3>2 DEF Halfway
    <3>4. Synced(s)' /\ BoardSet'
      BY <2>2, <3>1, <3>3 DEF Synced, BoardSet
    <3> QED
      BY <1>4, <2>3, <3>4
  <2> QED
    BY <1>7, <2>4, <2>5
<1>8. CASE x.op = "SetResult"
  <2>1. /\ CmdResolution' = CmdResolution
        /\ FreqResolution' = [FreqResolution EXCEPT ![x.mode] = CmdCX[Owner(t)].Resolution]
    BY <1>8 DEF CheckerStep, Step, SendCXCmd, ToSend, Parse, SetCmdFreq, SetXXCXResult, SetXXCXFreq,
        SetDataType, Clear, SaveMode, TestInner, TestOuter, ScheckReplay, RestoreMode, At
  <2>2. /\ FreqResolution'["CX_WB"] = FreqResolution["CX_WB"]
        /\ FreqResolution'["CX_SWEEP"] = FreqResolution["CX_SWEEP"]
    BY <1>3, <1>6, <1>8, <2>1 DEF Mode
  <2>3. WBSet' /\ SweepSet'
    BY <1>2, <2>1, <2>2 DEF WBSet, SweepSet
  <2> QED
    BY <1>3, <1>4, <1>8, <2>3
<1>10. CASE x.op \notin {"send", "SetResult", "Restore"}
  <2>1. UNCHANGED <<CmdResolution, FreqResolution, CmdCX, board>>
    BY <1>1, <1>3, <1>10
     DEF CheckerStep, Step, Parse, SetCmdFreq, SetXXCXResult, SetXXCXFreq, SetDataType,
         Clear, SaveMode, TestInner, TestOuter, ScheckReplay, RestoreMode, At,
         parameterVars, sessionVars
  <2>2. /\ WBSet' /\ SweepSet'
        /\ Synced(s)' <=> Synced(s)
        /\ BoardSet' <=> BoardSet
    BY <1>2, <2>1 DEF WBSet, SweepSet, Synced, BoardSet
  <2> QED
    BY <1>2, <1>3, <1>4, <1>10, <2>2
<1> QED
  BY <1>7, <1>8, <1>10

LEMMA ParserInit == ASSUME NEW s \in Session PROVE Init => ParserInv(s)
<1> SUFFICES ASSUME Init PROVE ParserInv(s)
  OBVIOUS
<1>1. steps[Reader(s)] = <<>> /\ steps[Checker(s)] = <<>>
  BY TwoThreads DEF Init
<1>2. Synced(s)
  BY DEF Init, Synced
<1>3. WBSet /\ SweepSet
  BY DEF Init, WBSet, SweepSet, Mode
<1>4. BoardSet
  BY DEF Init, BoardSet, NoBoard
<1>5. \A n : Halfway(s, n)
  BY TwoThreads DEF Init, Halfway
<1> QED
  BY <1>1, <1>2, <1>3, <1>4, <1>5, NonePending DEF ParserInv, Following

LEMMA ParserReceive ==
  ASSUME Quiet, \A c \in Command : c.kind = "param" => c.accepted,
         TypeOK, NEW s \in Session, ParserInv(s), Receive(s)
  PROVE  ParserInv(s)'
<1>1. PICK c \in Command : steps' = [steps EXCEPT ![Reader(s)] = Handler(c)]
  BY DEF Receive
<1>2. /\ steps[Reader(s)] = <<>> /\ steps[Checker(s)] = <<>>
      /\ UNCHANGED <<CmdResolution, FreqResolution, CmdCX, assigned, board>>
  BY TwoThreads DEF Receive, Quiet, parameterVars
<1>3. steps'[Reader(s)] = Handler(c) /\ steps'[Checker(s)] = <<>>
  BY <1>1, <1>2, TwoThreads DEF TypeOK
<1>4. ReaderRes(Handler(c))
  BY HandlerRes
<1>5. Synced(s) /\ WBSet /\ SweepSet /\ BoardSet /\ Halfway(s, 0)
  <2>1. Len(steps[Checker(s)]) = 0 /\ ~Checking(0)
    BY <1>2, NoSteps DEF Checking
  <2> QED
    BY <1>2, <2>1, NonePending DEF ParserInv, Following
<1>6. Synced(s)' /\ WBSet' /\ SweepSet' /\ BoardSet' /\ Halfway(s, 0)'
  BY <1>2, <1>5 DEF Synced, WBSet, SweepSet, BoardSet, Halfway
<1>7. Len(steps'[Checker(s)]) = 0
  BY <1>3, NoSteps
<1> QED
  BY <1>3, <1>4, <1>6, <1>7, FollowingNext

LEMMA ParserStart ==
  ASSUME TypeOK, TurnInv, NEW s \in Session, ParserInv(s), StartThread(s)
  PROVE  ParserInv(s)'
<1> DEFINE q == steps[Reader(s)]
<1>1. UNCHANGED <<CmdResolution, FreqResolution, CmdCX, assigned, board>>
  BY DEF StartThread, parameterVars
<1>2. /\ Len(q) = 1 /\ q[1].op = "StartThread"
      /\ steps'[Reader(s)] = <<>> /\ steps'[Checker(s)] = SelfCheck
  BY HandedOver DEF TurnInv
<1>3. steps[Checker(s)] = <<>>
  BY TwoThreads DEF StartThread, At, TurnInv, OneAtATime
<1>4. WBSet /\ SweepSet /\ assigned[Checker(s)] = {}
  <2>1. \A i \in 1..1 : i = 1
    OBVIOUS
  <2>2. \A m : ~PendingResult(q, m)
    BY <1>2, <2>1, Ops DEF PendingResult
  <2>3. Len(steps[Checker(s)]) = 0
    BY <1>3, NoSteps
  <2> QED
    BY <2>2, <2>3 DEF ParserInv, Following, Halfway
<1>5. WBSet' /\ SweepSet' /\ Halfway(s, 13)'
  BY <1>1, <1>4 DEF WBSet, SweepSet, Halfway
<1>6. Len(steps'[Checker(s)]) = 13 /\ Checking(13)
  BY <1>2, SelfCheckOK DEF Checking
<1> QED
  BY <1>2, <1>5, <1>6, NonePending, FollowingNext

LEMMA ParserStep ==
  ASSUME NEW s, Session = {s}, ~Faults,
         \A c \in Command : c.kind = "param" => c.accepted,
         TypeOK, TurnInv, ParserInv(s), [Next]_vars, hurried' = 0
  PROVE  ParserInv(s)'
<1>1. ASSUME UNCHANGED <<steps, CmdResolution, FreqResolution, CmdCX, assigned, board>>
      PROVE  ParserInv(s)'
  BY <1>1, FollowingSame
<1>2. s \in Session /\ \A r \in Session : r = s
  OBVIOUS
<1>3. CASE Receive(s)
  BY <1>2, <1>3, HurriedOK, ParserReceive
<1>4. CASE ReaderStep(s)
  BY <1>2, <1>4, ReaderAssigns, ReaderFollows, ParserStart DEF ReaderStep
<1>5. CASE CheckerStep(s)
  BY <1>2, <1>5, CheckerAssigns, CheckerFollows
<1>6. ASSUME NEW ch, Emit(ch) PROVE ParserInv(s)'
  BY <1>1, <1>6 DEF Emit, parameterVars, sessionVars
<1>7. ASSUME Take \/ Discard \/ BuildFrame \/ SendMsgReturns PROVE ParserInv(s)'
  BY <1>1, <1>7 DEF Take, Discard, BuildFrame, SendMsgReturns, parameterVars, sessionVars
<1>8. CASE UNCHANGED vars
  BY <1>1, <1>8 DEF vars, parameterVars, sessionVars
<1>9. ~CommandThrows(s)
  BY DEF CommandThrows
<1> QED
  BY <1>2, <1>3, <1>4, <1>5, <1>6, <1>7, <1>8, <1>9 DEF Next

(* One client whose parameters are in range, and whose commands come when the one before,  *)
(* and the self check, is over, never makes the parsers and the board disagree for longer   *)
(* than a command takes, whatever it starts, checks or sets: a self check puts back the     *)
(* resolution the parameters have, whichever field it assigns first.                       *)
THEOREM ParserFollows ==
  ASSUME NEW s, Session = {s}, ~Faults,
         \A c \in Command : c.kind = "param" => c.accepted
  PROVE  Spec => []ParserFollowsBoard
<1> DEFINE I == hurried = 0 => TurnInv /\ ParserInv(s)
<1>1. s \in Session
  OBVIOUS
<1>2. ASSUME ParserInv(s) PROVE ParserFollowsBoard
  <2> SUFFICES ASSUME Quiet, board.Resolution # Unset
               PROVE  /\ FreqResolution["CX_WB"] = board.Resolution
                      /\ FreqResolution["CX_SWEEP"] \in {board.Resolution, Unset}
    BY DEF ParserFollowsBoard
  <2>1. steps[Reader(s)] = <<>> /\ Len(steps[Checker(s)]) = 0 /\ ~Checking(0)
    BY <1>1, TwoThreads, NoSteps DEF Quiet, Checking
  <2>2. WBSet /\ SweepSet /\ BoardSet
    BY <1>2, <2>1, NonePending DEF ParserInv, Following
  <2> QED
    BY <2>2 DEF WBSet, SweepSet, BoardSet
<1>3. I => ParserFollowsBoard
  BY <1>2 DEF ParserFollowsBoard
<1>4. TypeOK /\ I /\ [Next]_vars => I'
  BY TurnStep, ParserStep
<1>5. Init => I
  BY <1>1, TurnInit, ParserInit
<1> HIDE DEF I
<1> QED
  BY <1>3, <1>4, <1>5, TypeCorrect, PTL DEF Spec
==============================================================================
