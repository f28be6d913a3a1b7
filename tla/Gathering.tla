------------------------------ MODULE Gathering ------------------------------
(***************************************************************************)
(* The commands of the clients (TcpSession::RecvCommandFun and the SetCmd  *)
(* functions, SelfCheck), the global g_Parameter they change, the board    *)
(* they configure, and the data thread that turns the board's packets into *)
(* frames (DataDealCX).                                                    *)
(*                                                                         *)
(* Each session has a read thread, which runs one handler after the other, *)
(* and a self check runs in a thread of its own that shares the session's  *)
(* CmdCX.  A handler is the sequence of its steps on shared state: an      *)
(* assignment to a field of CmdCX, a write of CmdCX to the board, a        *)
(* critical section of a g_Parameter setter, an assignment to DataType.    *)
(* The steps of different threads interleave.  A setter                    *)
(* blocks nowhere in its critical section, so it is one step; DataDealCX   *)
(* keeps the mutex of the current mode while it builds and sends a frame.  *)
(*                                                                         *)
(* Of a command's data only the resolution and whether it asks for the     *)
(* self check's frequency are kept; gains, smoothing and replies are not   *)
(* (TcpSessions has the replies).  The board is external: it sends packets *)
(* of its current configuration, direction data in StateMachine 0 and 1,   *)
(* channel data in 2 and 3.                                                *)
(***************************************************************************)
EXTENDS Naturals, Sequences, FiniteSets

CONSTANTS
  Session,
  Resolution,         (* the resolutions a client may ask for            *)
  DefaultResolution,  (* 13, also the one of the self check              *)
  Channel,            (* 0 .. CX_CH_NUM - 1                              *)
  Command,            (* the commands the clients send, see AllCommands  *)
  Polite,             (* a client waits until every command before its   *)
                      (* own was handled and every self check reported   *)
  Faults,             (* a command may be abandoned by an exception      *)
  MaxQueue,           (* bound on the packets on their way               *)
  MaxRound,           (* bound on the number of self checks              *)
  MaxHurried          (* bound on the commands after a hurried one       *)

Mode == {"TEST_CHANNEL", "CX_WB", "CX_NB", "CX_SWEEP"}
Freq == {"centre", "other", "garbage"}
Unset == 0            (* FreqResolution of a zero-initialised result     *)

(* "start" gathers in a mode; "end" stands for Act:2 and for a refused Act; a   *)
(* parameter set names a resolution or none, and may be refused for another of *)
(* its parameters after the resolution has been taken over.                     *)
AllCommands ==
  [kind : {"start"}, mode : Mode, freq : {"centre", "other"}]
    \cup [kind : {"end"}, mode : Mode]
    \cup [kind : {"param"}, res : Resolution \cup {Unset}, accepted : BOOLEAN]
    \cup {[kind |-> "check"]}

ASSUME GatheringAssumption ==
  /\ DefaultResolution \in Resolution
  /\ Unset \notin Resolution
  /\ Command \subseteq AllCommands
  /\ Polite \in BOOLEAN /\ Faults \in BOOLEAN
  /\ MaxQueue \in Nat
  /\ MaxHurried \in Nat \ {0}

VARIABLES
  CmdCX,           (* of each session: what its next SendCXCmd sends            *)
  assigned,        (* of each thread: the fields of CmdCX it has assigned for   *)
                   (* the SendCXCmd it comes to                                 *)
  CmdResolution,   (* g_Parameter.Resolution                                    *)
  CenterFreq,      (* g_Parameter.StartCenterFreq as a self check reads it:     *)
                   (* "garbage" where kHz were stored for Hz                    *)
  DataType,        (* g_Parameter.DataType                                      *)
  FreqResolution,  (* of each mode's result structure                           *)
  isTestingInner, isTestingOuter,  (* the channels seen                         *)
  SelfTestInner, SelfTestOuter,    (* for each channel, the self check whose    *)
                   (* configuration its result was measured in (0: none)        *)
  steps,           (* what each thread still has to do                          *)
  saved,           (* DataType as the self check of each session found it       *)
  connected,       (* the read thread of the session runs                       *)
  round,           (* self checks begun so far                                  *)
  last,            (* the last start or end command                             *)
  hurried,         (* history: the commands since one came before a self check, *)
                   (* or another command, was over; counted up to MaxHurried    *)
  found,           (* history: DataType when the last self check was started    *)
  board,           (* the configuration the board got last                      *)
  queue,           (* packets on their way to the data thread                   *)
  deal             (* DataDealCX: "idle", "locking" or "sending", the packet    *)
                   (* and the mode it switched on                               *)

parameterVars == <<CmdResolution, CenterFreq, DataType, FreqResolution>>
testVars == <<isTestingInner, isTestingOuter, SelfTestInner, SelfTestOuter>>
sessionVars == <<CmdCX, assigned, saved, connected, round, last, hurried, found>>
vars == <<parameterVars, testVars, sessionVars, steps, board, queue, deal>>

Reader(s) == <<"read", s>>
Checker(s) == <<"check", s>>
Thread == {"read", "check"} \X Session

NoBoard == [StateMachine |-> 0, Resolution |-> Unset, freq |-> "other",
            CorrectMode |-> 0, round |-> 0]
NoChannel == "direction"
NoPacket == [channel |-> NoChannel, work |-> 1, config |-> NoBoard]
Idle == [pc |-> "idle", packet |-> NoPacket, mode |-> "CX_WB"]

Init ==
  /\ CmdCX = [s \in Session |->
                [StateMachine |-> 0, Resolution |-> DefaultResolution,
                 freq |-> "centre", CorrectMode |-> 1, round |-> 0]]
  /\ CmdResolution = DefaultResolution
  /\ CenterFreq = "centre"
  /\ DataType = "CX_WB"
  /\ FreqResolution = [m \in Mode |-> IF m = "CX_WB" THEN DefaultResolution ELSE Unset]
  /\ isTestingInner = Channel
  /\ isTestingOuter = Channel
  /\ SelfTestInner = [ch \in Channel |-> 0]
  /\ SelfTestOuter = [ch \in Channel |-> 0]
  /\ assigned = [t \in Thread |-> {}]
  /\ steps = [t \in Thread |-> <<>>]
  /\ saved = [s \in Session |-> "CX_WB"]
  /\ connected = [s \in Session |-> TRUE]
  /\ round = 0
  /\ last = [kind |-> "end", mode |-> "CX_WB"]
  /\ hurried = 0
  /\ found = "CX_WB"
  /\ board = NoBoard
  /\ queue = <<>>
  /\ deal = Idle

------------------------------------------------------------------------------
(* The handlers as sequences of steps *)

(* SendCXCmd after assigning these fields of CmdCX. *)
Send(fields) == [op |-> "send", fields |-> fields]
Calibrate(mode, f) == Send([StateMachine |-> mode, CorrectMode |-> 1, freq |-> f])
Acquire == Send([CorrectMode |-> 0])
SetCmd(f) == [op |-> "SetCmd", freq |-> f]
SetResult(m) == [op |-> "SetResult", mode |-> m]    (* SetXXCXResult(Task, Resolution) *)
SetFreq(m) == [op |-> "SetFreq", mode |-> m]        (* SetXXCXResult(Task, CenterFreq) *)
SetMode(m) == [op |-> "SetMode", mode |-> m]
Simply(op) == [op |-> op]

SetCmdNBData(f) ==
  <<Send([StateMachine |-> 0, freq |-> f]), SetCmd(f), SetMode("CX_NB")>>

(* Between the two writes the handler sleeps. *)
SetCmdWBData(f) ==
  <<Calibrate(1, f), Acquire, SetCmd(f), SetFreq("CX_WB"), SetMode("CX_WB")>>

(* SetCmd gets the kHz of CmdCX here. *)
SetCmdSweepData(f) ==
  <<Calibrate(1, f), Acquire, SetCmd("garbage"), SetFreq("CX_SWEEP"), SetMode("CX_SWEEP")>>

SetCmdTestData(f) ==
  <<Calibrate(2, f), Acquire, SetFreq("TEST_CHANNEL"), SetMode("TEST_CHANNEL")>>

(* The parameters are taken over one by one while they are parsed; only an      *)
(* accepted command reaches the board and the result structures.               *)
ParseRes(r) == [op |-> "Parse", res |-> r]
SetCmdCXParm(c) ==
  IF c.accepted
    THEN <<ParseRes(c.res), Send(<<>>), SetResult("CX_WB"), SetResult("CX_SWEEP"),
           SetResult("TEST_CHANNEL")>>
    ELSE <<ParseRes(c.res)>>

Start(m, f) ==
  CASE m = "CX_NB" -> SetCmdNBData(f)
    [] m = "CX_WB" -> SetCmdWBData(f)
    [] m = "CX_SWEEP" -> SetCmdSweepData(f)
    [] m = "TEST_CHANNEL" -> SetCmdTestData(f)

(* DataType is assigned after an end or a refused start too. *)
Handler(c) ==
  CASE c.kind = "start" -> Start(c.mode, c.freq)
    [] c.kind = "end" -> <<SetMode(c.mode)>>
    [] c.kind = "param" -> SetCmdCXParm(c)
    [] c.kind = "check" -> <<Simply("StartThread")>>

CheckInner ==
  Send([StateMachine |-> 3, Resolution |-> DefaultResolution, freq |-> "centre",
        CorrectMode |-> 0])

(* Mutated: DataType is saved after it was changed. *)
SelfCheckSavesLate ==
  <<Simply("Clear"), CheckInner, SetResult("TEST_CHANNEL"), SetMode("TEST_CHANNEL"),
    Simply("SaveMode"), Simply("TestInner"), Simply("AwaitInner"),
    Send([CorrectMode |-> 1]), Simply("TestOuter"), Simply("AwaitOuter"),
    Simply("ScheckReplay"), Simply("Restore"), Simply("RestoreMode")>>

(* Mutated: the board is not switched over to the outer correction. *)
SelfCheckInnerOnly ==
  <<Simply("Clear"), CheckInner, SetResult("TEST_CHANNEL"), Simply("SaveMode"),
    SetMode("TEST_CHANNEL"), Simply("TestInner"), Simply("AwaitInner"),
    Simply("TestOuter"), Simply("AwaitOuter"), Simply("ScheckReplay"),
    Simply("Restore"), Simply("RestoreMode")>>

(* Mutated: the outer results are not waited for. *)
SelfCheckHasty ==
  <<Simply("Clear"), CheckInner, SetResult("TEST_CHANNEL"), Simply("SaveMode"),
    SetMode("TEST_CHANNEL"), Simply("TestInner"), Simply("AwaitInner"),
    Send([CorrectMode |-> 1]), Simply("TestOuter"), Simply("ScheckReplay"),
    Simply("Restore"), Simply("RestoreMode")>>

(* The thread of SelfCheck. *)
SelfCheck ==
  <<Simply("Clear"), CheckInner, SetResult("TEST_CHANNEL"), Simply("SaveMode"),
    SetMode("TEST_CHANNEL"), Simply("TestInner"), Simply("AwaitInner"),
    Send([CorrectMode |-> 1]), Simply("TestOuter"), Simply("AwaitOuter"),
    Simply("ScheckReplay"), Simply("Restore"), Simply("RestoreMode")>>

Quiet == \A t \in Thread : steps[t] = <<>>

(* What a client can know of a self check: the report has come, or is still to come. *)
Reported(s) == \A i \in DOMAIN steps[Checker(s)] : steps[Checker(s)][i].op # "ScheckReplay"

(* That a self check waits for the end of the one before it is a bound. *)
Receive(s) ==
  /\ connected[s]
  /\ steps[Reader(s)] = <<>>
  /\ Polite => \A r \in Session : steps[Reader(r)] = <<>> /\ Reported(r)
  /\ \E c \in Command :
       /\ c.kind = "check" => round < MaxRound /\ steps[Checker(s)] = <<>>
       /\ steps' = [steps EXCEPT ![Reader(s)] = Handler(c)]
       /\ last' = IF c.kind \in {"start", "end"} THEN c ELSE last
  /\ Polite => hurried < MaxHurried
  /\ hurried' = IF hurried = MaxHurried \/ (hurried = 0 /\ Quiet) THEN hurried ELSE hurried + 1
  /\ UNCHANGED <<parameterVars, testVars, CmdCX, assigned, saved, connected, round, found,
                 board, queue, deal>>

(* An argument does not parse, or the board refuses a write: read() catches it, *)
(* and the session ends.                                                        *)
CommandThrows(s) ==
  /\ Faults
  /\ steps[Reader(s)] # <<>>
  /\ Head(steps[Reader(s)]).op \in {"send", "Parse"}
  /\ steps' = [steps EXCEPT ![Reader(s)] = <<>>]
  /\ assigned' = [assigned EXCEPT ![Reader(s)] = {}]
  /\ connected' = [connected EXCEPT ![s] = FALSE]
  /\ UNCHANGED <<parameterVars, testVars, CmdCX, saved, round, last, hurried, found, board,
                 queue, deal>>

------------------------------------------------------------------------------
(* The steps *)

Owner(t) == t[2]
At(t, op) == steps[t] # <<>> /\ Head(steps[t]).op = op
Advance(t) == steps' = [steps EXCEPT ![t] = Tail(@)]

(* DataDealCX holds the mutex of the mode it is sending in. *)
MutexFree(m) == ~(deal.pc = "sending" /\ deal.mode = m)

(* Mutated: the resolution of the self check stays. *)
RestoredAllButResolution == [freq |-> CenterFreq, StateMachine |-> 1]

(* What the end of a self check assigns: CorrectMode is not restored, and StateMachine *)
(* becomes 1 whatever it was.                                                           *)
Restored ==
  [Resolution |-> CmdResolution, freq |-> CenterFreq, StateMachine |-> 1]

ToSend(t) == At(t, "send") \/ At(t, "Restore")
ToAssign(t) == IF At(t, "Restore") THEN Restored ELSE Head(steps[t]).fields

(* One field; no mutex orders the fields, nor keeps the other thread of the session out. *)
AssignField(t) ==
  /\ ToSend(t)
  /\ \E k \in DOMAIN ToAssign(t) \ assigned[t] :
       /\ CmdCX' = [CmdCX EXCEPT ![Owner(t)] = [@ EXCEPT ![k] = ToAssign(t)[k]]]
       /\ assigned' = [assigned EXCEPT ![t] = @ \cup {k}]
  /\ UNCHANGED <<parameterVars, testVars, saved, connected, round, last, hurried, found, steps,
                 board, queue, deal>>

(* The session's CmdCX as it is now; the board's `round` is a history, the self check that *)
(* asked for the configuration (0: none).                                                  *)
SendCXCmd(t) ==
  /\ ToSend(t)
  /\ DOMAIN ToAssign(t) \subseteq assigned[t]
  /\ board' = [CmdCX[Owner(t)] EXCEPT
                 !.round = IF t = Checker(Owner(t)) /\ At(t, "send") THEN round ELSE 0]
  /\ assigned' = [assigned EXCEPT ![t] = {}]
  /\ Advance(t)
  /\ UNCHANGED <<parameterVars, testVars, CmdCX, saved, connected, round, last, hurried, found,
                 queue, deal>>

(* Mutated: a resolution that does not exist is taken over. *)
ParseUnchecked(t) ==
  /\ At(t, "Parse")
  /\ CmdResolution' = Head(steps[t]).res
  /\ CmdCX' = [CmdCX EXCEPT ![Owner(t)] = [@ EXCEPT !.Resolution = Head(steps[t]).res]]
  /\ Advance(t)
  /\ UNCHANGED <<CenterFreq, DataType, FreqResolution, testVars, assigned, saved, connected,
                 round, last, hurried, found, board, queue, deal>>

Parse(t) ==
  /\ At(t, "Parse")
  /\ LET r == Head(steps[t]).res
     IN  IF r = Unset
           THEN UNCHANGED <<CmdResolution, CmdCX>>
           ELSE /\ CmdResolution' = r
                /\ CmdCX' = [CmdCX EXCEPT ![Owner(t)] = [@ EXCEPT !.Resolution = r]]
  /\ Advance(t)
  /\ UNCHANGED <<CenterFreq, DataType, FreqResolution, testVars, assigned, saved, connected,
                 round, last, hurried, found, board, queue, deal>>

SetCmdFreq(t) ==
  /\ At(t, "SetCmd")
  /\ CenterFreq' = Head(steps[t]).freq
  /\ Advance(t)
  /\ UNCHANGED <<CmdResolution, DataType, FreqResolution, testVars, sessionVars,
                 board, queue, deal>>

(* Mutated: the setter takes no mutex. *)
SetXXCXResultUnlocked(t) ==
  /\ At(t, "SetResult")
  /\ LET m == Head(steps[t]).mode
     IN  FreqResolution' = [FreqResolution EXCEPT ![m] = CmdCX[Owner(t)].Resolution]
  /\ Advance(t)
  /\ UNCHANGED <<CmdResolution, CenterFreq, DataType, testVars, sessionVars, board,
                 queue, deal>>

SetXXCXResult(t) ==
  /\ At(t, "SetResult")
  /\ LET m == Head(steps[t]).mode
     IN  /\ MutexFree(m)
         /\ FreqResolution' = [FreqResolution EXCEPT ![m] = CmdCX[Owner(t)].Resolution]
  /\ Advance(t)
  /\ UNCHANGED <<CmdResolution, CenterFreq, DataType, testVars, sessionVars, board,
                 queue, deal>>

(* The setters with a frequency; the one of the sweep also takes the resolution *)
(* from g_Parameter.                                                            *)
SetXXCXFreq(t) ==
  /\ At(t, "SetFreq")
  /\ LET m == Head(steps[t]).mode
     IN  /\ MutexFree(m)
         /\ FreqResolution' = IF m = "CX_SWEEP"
                                THEN [FreqResolution EXCEPT ![m] = CmdResolution]
                                ELSE FreqResolution
  /\ Advance(t)
  /\ UNCHANGED <<CmdResolution, CenterFreq, DataType, testVars, sessionVars, board,
                 queue, deal>>

SetDataType(t) ==
  /\ At(t, "SetMode")
  /\ DataType' = Head(steps[t]).mode
  /\ Advance(t)
  /\ UNCHANGED <<CmdResolution, CenterFreq, FreqResolution, testVars, sessionVars,
                 board, queue, deal>>

StartThread(s) ==
  /\ At(Reader(s), "StartThread")
  /\ steps' = [steps EXCEPT ![Reader(s)] = Tail(@), ![Checker(s)] = SelfCheck]
  /\ round' = round + 1
  /\ found' = DataType
  /\ UNCHANGED <<parameterVars, testVars, CmdCX, assigned, saved, connected, last, hurried,
                 board, queue, deal>>

------------------------------------------------------------------------------
(* The self check *)

Clear(s) ==
  /\ At(Checker(s), "Clear")
  /\ SelfTestInner' = [ch \in Channel |-> 0]
  /\ SelfTestOuter' = [ch \in Channel |-> 0]
  /\ Advance(Checker(s))
  /\ UNCHANGED <<parameterVars, isTestingInner, isTestingOuter, sessionVars, board, queue, deal>>

SaveMode(s) ==
  /\ At(Checker(s), "SaveMode")
  /\ saved' = [saved EXCEPT ![s] = DataType]
  /\ Advance(Checker(s))
  /\ UNCHANGED <<parameterVars, testVars, CmdCX, assigned, connected, round, last, hurried,
                 found, board, queue, deal>>

(* The busy waits; `while (isTesting... != CALC_MASK())` rereads the variable. *)
TestInner(s) ==
  /\ \/ /\ At(Checker(s), "TestInner")
        /\ isTestingInner' = {}
     \/ /\ At(Checker(s), "AwaitInner")
        /\ isTestingInner = Channel
        /\ UNCHANGED isTestingInner
  /\ Advance(Checker(s))
  /\ UNCHANGED <<parameterVars, isTestingOuter, SelfTestInner, SelfTestOuter,
                 sessionVars, board, queue, deal>>

TestOuter(s) ==
  /\ \/ /\ At(Checker(s), "TestOuter")
        /\ isTestingOuter' = {}
     \/ /\ At(Checker(s), "AwaitOuter")
        /\ isTestingOuter = Channel
        /\ UNCHANGED isTestingOuter
  /\ Advance(Checker(s))
  /\ UNCHANGED <<parameterVars, isTestingInner, SelfTestInner, SelfTestOuter,
                 sessionVars, board, queue, deal>>

ScheckReplay(s) ==
  /\ At(Checker(s), "ScheckReplay")
  /\ Advance(Checker(s))
  /\ UNCHANGED <<parameterVars, testVars, sessionVars, board, queue, deal>>

RestoreMode(s) ==
  /\ At(Checker(s), "RestoreMode")
  /\ DataType' = saved[s]
  /\ saved' = [saved EXCEPT ![s] = "CX_WB"]
  /\ Advance(Checker(s))
  /\ UNCHANGED <<CmdResolution, CenterFreq, FreqResolution, testVars, CmdCX, assigned,
                 connected, round, last, hurried, found, board, queue, deal>>

------------------------------------------------------------------------------
(* The board, and DataDealCX *)

(* Of a packet that measures nothing, DataDealCX reads the resolution alone. *)
PacketOf(ch, w) ==
  [channel |-> ch, work |-> w,
   config |-> IF w = 0 THEN board ELSE [NoBoard EXCEPT !.Resolution = board.Resolution]]

(* A packet of the current configuration.  WorkMode is 0 in a self check, and   *)
(* may be 0 while a test calibrates.                                            *)
Emit(ch) ==
  /\ board.Resolution # Unset
  /\ Len(queue) < MaxQueue
  /\ (ch \in Channel) <=> board.StateMachine \in {2, 3}
  /\ \E w \in IF board.StateMachine = 3 THEN {0}
             ELSE IF board.StateMachine = 2 /\ board.CorrectMode = 1 THEN {0, 1}
             ELSE {1} :
       queue' = Append(queue, PacketOf(ch, w))
  /\ UNCHANGED <<parameterVars, testVars, sessionVars, steps, board, deal>>

(* wait_and_pop, and the switch on DataType, which no mutex protects. *)
Take ==
  /\ deal.pc = "idle"
  /\ queue # <<>>
  /\ deal' = [pc |-> "locking", packet |-> Head(queue), mode |-> DataType]
  /\ queue' = Tail(queue)
  /\ UNCHANGED <<parameterVars, testVars, sessionVars, steps, board>>

Matches(p, m) ==
  /\ (p.channel \in Channel) <=> m = "TEST_CHANNEL"
  /\ FreqResolution[m] = p.config.Resolution

Discard ==
  /\ deal.pc = "locking"
  /\ ~Matches(deal.packet, deal.mode)
  /\ deal' = Idle
  /\ UNCHANGED <<parameterVars, testVars, sessionVars, steps, board, queue>>

Measures(p, correct) ==
  /\ deal.mode = "TEST_CHANNEL"
  /\ p.work = 0
  /\ p.config.CorrectMode = correct
  /\ p.config.freq = "centre"

ToSelfCheck(p) ==
  IF isTestingInner # Channel /\ Measures(p, 0) THEN
    /\ SelfTestInner' = [SelfTestInner EXCEPT ![p.channel] = p.config.round]
    /\ isTestingInner' = isTestingInner \cup {p.channel}
    /\ UNCHANGED <<isTestingOuter, SelfTestOuter>>
  ELSE IF isTestingOuter # Channel /\ Measures(p, 1) THEN
    /\ SelfTestOuter' = [SelfTestOuter EXCEPT ![p.channel] = p.config.round]
    /\ isTestingOuter' = isTestingOuter \cup {p.channel}
    /\ UNCHANGED <<isTestingInner, SelfTestInner>>
  ELSE UNCHANGED testVars

(* The packet passes the tests made under the mutex of its mode; the frame is  *)
(* built from the result structure and sent before the mutex is given back.     *)
BuildFrame ==
  /\ deal.pc = "locking"
  /\ Matches(deal.packet, deal.mode)
  /\ ToSelfCheck(deal.packet)
  /\ deal' = [deal EXCEPT !.pc = "sending"]
  /\ UNCHANGED <<parameterVars, sessionVars, steps, board, queue>>

(* Mutated: the mutex of the mode is not given back. *)
SendMsgKeepsMutex ==
  /\ deal.pc = "sending"
  /\ UNCHANGED vars

SendMsgReturns ==
  /\ deal.pc = "sending"
  /\ deal' = Idle
  /\ UNCHANGED <<parameterVars, testVars, sessionVars, steps, board, queue>>

------------------------------------------------------------------------------

Step(t) ==
  \/ AssignField(t) \/ SendCXCmd(t) \/ Parse(t) \/ SetCmdFreq(t) \/ SetXXCXResult(t)
  \/ SetXXCXFreq(t) \/ SetDataType(t)

CheckerStep(s) ==
  \/ Step(Checker(s)) \/ Clear(s) \/ SaveMode(s) \/ TestInner(s) \/ TestOuter(s)
  \/ ScheckReplay(s) \/ RestoreMode(s)

ReaderStep(s) == Step(Reader(s)) \/ StartThread(s)

Next ==
  \/ \E s \in Session : Receive(s) \/ CommandThrows(s) \/ ReaderStep(s) \/ CheckerStep(s)
  \/ \E ch \in Channel \cup {NoChannel} : Emit(ch)
  \/ Take \/ Discard \/ BuildFrame \/ SendMsgReturns

Spec == Init /\ [][Next]_vars

(* Every thread goes on; a setter gets its mutex in the end (SF); a configured  *)
(* board keeps sending every kind of packet it has (SF: the queue may be full   *)
(* now and then); SendMsg returns, because the clients read or are dropped.     *)
Fairness ==
  /\ \A s \in Session : SF_vars(ReaderStep(s)) /\ SF_vars(CheckerStep(s))
  /\ \A ch \in Channel \cup {NoChannel} : SF_vars(Emit(ch))
  /\ WF_vars(Take) /\ WF_vars(Discard \/ BuildFrame) /\ WF_vars(SendMsgReturns)

FairSpec == Spec /\ Fairness

------------------------------------------------------------------------------

Config == [StateMachine : 0..3, Resolution : Resolution \cup {Unset}, freq : Freq,
           CorrectMode : 0..1, round : Nat]
Packet == [channel : Channel \cup {NoChannel}, work : 0..1, config : Config]

(* What SendCXCmd may be told to set, and the steps of the handlers. *)
Fields ==
  [StateMachine : 0..3, CorrectMode : 0..1, freq : Freq]
    \cup [StateMachine : 0..3, freq : Freq]
    \cup [StateMachine : 0..3, Resolution : Resolution, freq : Freq, CorrectMode : 0..1]
    \cup [CorrectMode : 0..1] \cup {<<>>}
FieldName == {"StateMachine", "Resolution", "freq", "CorrectMode"}
Op ==
  [op : {"send"}, fields : Fields]
    \cup [op : {"SetCmd"}, freq : Freq]
    \cup [op : {"SetResult", "SetFreq", "SetMode"}, mode : Mode]
    \cup [op : {"Parse"}, res : Resolution \cup {Unset}]
    \cup [op : {"StartThread", "Clear", "SaveMode", "TestInner", "AwaitInner", "TestOuter",
                "AwaitOuter", "ScheckReplay", "Restore", "RestoreMode"}]

TypeOK ==
  /\ CmdCX \in [Session -> Config]
  /\ assigned \in [Thread -> SUBSET FieldName]
  /\ CmdResolution \in Resolution
  /\ CenterFreq \in Freq
  /\ DataType \in Mode
  /\ FreqResolution \in [Mode -> Resolution \cup {Unset}]
  /\ isTestingInner \in SUBSET Channel
  /\ isTestingOuter \in SUBSET Channel
  /\ SelfTestInner \in [Channel -> Nat]
  /\ SelfTestOuter \in [Channel -> Nat]
  /\ steps \in [Thread -> Seq(Op)]
  /\ saved \in [Session -> Mode]
  /\ connected \in [Session -> BOOLEAN]
  /\ round \in Nat
  /\ last \in [kind : {"start"}, mode : Mode, freq : {"centre", "other"}]
               \cup [kind : {"end"}, mode : Mode]
  /\ hurried \in 0..MaxHurried
  /\ found \in Mode
  /\ board \in Config
  /\ queue \in Seq(Packet) /\ Len(queue) <= MaxQueue
  /\ deal \in [pc : {"idle", "locking", "sending"}, packet : Packet, mode : Mode]

(* While a frame is built and sent, the result structure that gives its sizes   *)
(* and becomes its header has the resolution of the packet it is made from,     *)
(* whatever the clients set meanwhile: DataDealCX reads the structure several   *)
(* times and copies as many points as it says.                                  *)
FrameMatchesHeader ==
  deal.pc = "sending" => Matches(deal.packet, deal.mode)

(* A self check reports only what the board measured for it: every channel in   *)
(* both of its configurations, and nothing an earlier one or a test left in the *)
(* queue.                                                                       *)
ReportIsFresh ==
  \A s \in Session : At(Checker(s), "ScheckReplay") =>
    \A ch \in Channel : SelfTestInner[ch] = round /\ SelfTestOuter[ch] = round

(* As long as every command came when the one before it, and the self check, was *)
(* over: when none is under way, the wide-band parser expects the resolution the  *)
(* board was given, and so does the sweep parser once it was set.                 *)
ParserFollowsBoard ==
  (Quiet /\ hurried = 0 /\ board.Resolution # Unset) =>
    /\ FreqResolution["CX_WB"] = board.Resolution
    /\ FreqResolution["CX_SWEEP"] \in {board.Resolution, Unset}

(* When no command and no self check is under way, the data thread works in the   *)
(* mode named last: the self check's own mode never stays.  Only a mode named     *)
(* between its report and its end can be lost, and only to the mode that the self *)
(* check found: SelfCheck assigns DataType after it has reported.                 *)
SelfCheckKeepsMode ==
  Quiet => DataType = last.mode \/ (hurried # 0 /\ DataType = found)

(* A command is carried out, although its setters wait for a data thread that   *)
(* may be sending all the time.                                                 *)
CommandEnds ==
  \A s \in Session : (steps[Reader(s)] # <<>>) ~> (steps[Reader(s)] = <<>>)

(* A self check ends: both masks fill. *)
SelfCheckEnds ==
  \A s \in Session : (steps[Checker(s)] # <<>>) ~> (steps[Checker(s)] = <<>>)

(* After `Start Gather, State: Gathering` frames of that mode are sent, until   *)
(* another command comes; after a command that came before a self check was     *)
(* over, the board may have been told otherwise.                                *)
Gathers(m) == Quiet /\ hurried = 0 /\ DataType = m /\ last.kind = "start" /\ last.mode = m
Sends(m) == deal.pc = "sending" /\ deal.mode = m
WBGatheringDelivers == Gathers("CX_WB") ~> (Sends("CX_WB") \/ ~Gathers("CX_WB"))
==============================================================================
