-------------------------- MODULE TcpSessionsProofs --------------------------
(***************************************************************************)
(* No session is used after it is destroyed, and the frames on a client's  *)
(* connection stay whole: for any number of sessions and broadcasters, any *)
(* frame length and any set of commands.                                   *)
(*                                                                         *)
(* Both follow from who holds what.  LocksAgree ties every write() under   *)
(* way to the WriteLock it holds; BroadcastersHold ties what a broadcaster *)
(* reads through a raw pointer to SessionSetMutex; OwnersHold ties every   *)
(* thread of a session to its shared_ptr, and so to the session's life.    *)
(*                                                                         *)
(* The same invariant orders the locks: no threads wait in a circle.       *)
(***************************************************************************)
EXTENDS TcpSessions, TLAPS

(* A session's WriteLock is held by w exactly while w is in that session's write(). *)
LocksAgree ==
  /\ \A w \in Writer, s \in Session : target[w] = s <=> WriteLock[s] = w
  /\ \A w \in Writer : target[w] # None => left[w] > 0

(* A broadcaster visits sessions of the set only, and only with the mutex. *)
BroadcastersHold ==
  \A b \in Broadcaster :
    /\ todo[b] \subseteq SessionSet
    /\ todo[b] # {} => SessionSetMutex = b
    /\ target[b] # None => SessionSetMutex = b /\ target[b] \in SessionSet

(* The threads of a session own references, and these keep it alive. *)
OwnersHold ==
  /\ \A s \in Session :
       /\ life[s] = "live" <=> refs[s] # {}
       /\ reader[s] # "exited" <=> "read" \in refs[s]
       /\ "io" \in refs[s] <=> io \in {"adding", "returning"} /\ ioSession = s
       /\ target[s] # None => /\ target[s] = s
                              /\ reader[s] = "handling"
                              /\ replies[s] > 0
  /\ io # "accepting" => ioSession \in Session

(* What is registered is not destroyed; what is not made yet is untouched. *)
SetIsAlive ==
  /\ \A s \in SessionSet : Alive(s)
  /\ \A s \in Session : life[s] = "none" => WriteLock[s] = None /\ peer[s] = "gone"

(* FramesWhole, and a broken connection ends at a boundary too. *)
StreamsWhole ==
  /\ FramesWhole
  /\ \A s \in Session : peer[s] = "gone" => wire[s] = Boundary

IInv ==
  /\ TypeOK
  /\ LocksAgree
  /\ BroadcastersHold
  /\ OwnersHold
  /\ SetIsAlive
  /\ StreamsWhole

------------------------------------------------------------------------------

(* Whoever begins a write: the lock is its own, the stream is at a boundary. *)
LEMMA BeginWriteKeeps ==
  ASSUME IInv, NEW w \in Writer, NEW s \in Session, BeginWrite(w, s), UNCHANGED peer
  PROVE  LocksAgree' /\ StreamsWhole'
<1> USE SessionsAssumption DEF IInv, BeginWrite
<1>0. None \notin Session
  BY DEF Writer
<1>1. LocksAgree'
  BY <1>0 DEF TypeOK, LocksAgree
<1>2. ASSUME NEW r \in Session, peer[r] # "gone"
      PROVE  wire'[r] = IF WriteLock'[r] = None THEN Boundary
                                               ELSE Progress(WriteLock[r])'
  <2>1. CASE r = s
    <3>1. WriteLock'[s] = w /\ left'[w] = FrameLen /\ w # None
      BY DEF TypeOK
    <3>2. wire'[s] = Boundary
      BY <1>2, <2>1 DEF StreamsWhole, FramesWhole
    <3> QED
      BY <2>1, <3>1, <3>2 DEF Progress, Boundary
  <2>2. CASE r # s /\ WriteLock[r] = None
    BY <1>2, <2>2 DEF TypeOK, StreamsWhole, FramesWhole
  <2>3. CASE r # s /\ WriteLock[r] # None
    <3>1. WriteLock[r] \in Writer
      BY <2>3 DEF TypeOK
    <3>2. target[WriteLock[r]] = r
      BY <3>1 DEF LocksAgree
    <3>3. /\ WriteLock[r] # w
          /\ WriteLock'[r] = WriteLock[r]
      BY <1>0, <2>3, <3>2 DEF TypeOK
    <3>4. left'[WriteLock[r]] = left[WriteLock[r]]
      BY <3>1, <3>3 DEF TypeOK
    <3>5. wire[r] = Progress(WriteLock[r])
      BY <1>2, <2>3 DEF StreamsWhole, FramesWhole
    <3> QED
      BY <2>3, <3>3, <3>4, <3>5 DEF Progress, Boundary
  <2> QED
    BY <2>1, <2>2, <2>3
<1>3. FramesWhole'
  BY <1>2 DEF FramesWhole
<1> QED
  BY <1>1, <1>3 DEF StreamsWhole, Boundary

(* A part of a frame leaves the stream where the write stands. *)
LEMMA WritePartKeeps ==
  ASSUME IInv, NEW w \in Writer, WritePart(w)
  PROVE  StreamsWhole'
<1> USE SessionsAssumption DEF IInv
<1> DEFINE s == target[w]
<1>1. /\ s \in Session
      /\ WriteLock[s] = w
      /\ WriteLock' = WriteLock /\ peer' = peer
  BY DEF WritePart, TypeOK, LocksAgree, writeVars
<1>2. PICK k \in 1..(left[w] - 1) :
        /\ left' = [left EXCEPT ![w] = @ - k]
        /\ wire' = [wire EXCEPT ![s] = [by |-> w, got |-> FrameLen - left[w] + k]]
  BY DEF WritePart
<1>3. /\ left[w] \in 0..FrameLen
      /\ left'[w] = left[w] - k
  BY <1>2 DEF TypeOK
<1>4. /\ left'[w] # FrameLen
      /\ FrameLen - left'[w] = FrameLen - left[w] + k
  BY <1>3
<1>5. wire'[s] = Progress(w)'
  BY <1>1, <1>2, <1>4 DEF TypeOK, Progress
<1>6. ASSUME NEW r \in Session, r # s
      PROVE  /\ wire'[r] = wire[r]
             /\ WriteLock[r] # None => Progress(WriteLock[r])' = Progress(WriteLock[r])
  BY <1>1, <1>2, <1>6 DEF TypeOK, LocksAgree, Progress, Boundary
<1>7. peer[s] = "reading"
  BY DEF WritePart
<1> HIDE DEF s
<1> QED
  BY <1>1, <1>5, <1>6, <1>7 DEF StreamsWhole, FramesWhole, TypeOK, Boundary

USE SessionsAssumption DEF Writer, Checker

LEMMA InitIInv == Init => IInv
<1> SUFFICES ASSUME Init PROVE IInv
  OBVIOUS
<1> USE DEF Init
<1>1. TypeOK
  BY DEF TypeOK, Boundary, CommandEffect
<1>2. LocksAgree
  BY DEF LocksAgree
<1>3. BroadcastersHold
  BY DEF BroadcastersHold
<1>4. OwnersHold
  BY DEF OwnersHold
<1>5. SetIsAlive
  BY DEF SetIsAlive
<1>6. StreamsWhole
  BY DEF StreamsWhole, FramesWhole, Boundary
<1> QED
  BY <1>1, <1>2, <1>3, <1>4, <1>5, <1>6 DEF IInv

LEMMA StepIInv == IInv /\ [Next]_vars => IInv'
<1> SUFFICES ASSUME IInv, [Next]_vars PROVE IInv'
  OBVIOUS
<1> USE DEF IInv, TypeOK, LocksAgree, BroadcastersHold, OwnersHold, SetIsAlive,
            StreamsWhole, FramesWhole, Boundary, Progress, Alive,
            sessionVars, readerVars, writeVars, ioVars
<1>1. CASE AddToSet
  BY <1>1 DEF AddToSet
<1>2. CASE HandlerReturns
  BY <1>2 DEF HandlerReturns, Release
<1>3. ASSUME NEW s \in Session, Accept(s) PROVE IInv'
  BY <1>3 DEF Accept
<1>4. ASSUME NEW s \in Session, RemoveFromSet(s) PROVE IInv'
  BY <1>4 DEF RemoveFromSet, Destroy
<1>5. ASSUME NEW s \in Session, PrintThreadExits(s) PROVE IInv'
  BY <1>5 DEF PrintThreadExits, Release
<1>6. ASSUME NEW s \in Session, ReadThread(s) PROVE IInv'
  <2> USE DEF readUnchanged
  <2>1. CASE EnterRead(s)
    BY <2>1 DEF EnterRead
  <2>2. CASE ReadThreadExits(s)
    BY <2>2 DEF ReadThreadExits, Release
  <2>3. CASE ReadFails(s)
    BY <2>3 DEF ReadFails
  <2>4. CASE ReadCommand(s)
    BY <2>4 DEF ReadCommand, CommandEffect, AllCommands
  <2>5. CASE CommandThrows(s)
    BY <2>5 DEF CommandThrows, CommandEffect
  <2>6. CASE CommandDone(s)
    <3>1. TypeOK'
      <4>1. SendState' \in [Session -> BOOLEAN]
        <5>1. (effect[s] = "start") \in BOOLEAN
          OBVIOUS
        <5> DEFINE v == IF effect[s] \in {"start", "stop"} THEN effect[s] = "start"
                                                            ELSE SendState[s]
        <5>2. v \in BOOLEAN
          <6>1. SendState[s] \in BOOLEAN
            OBVIOUS
          <6> QED
            BY <5>1, <6>1, Zenon
        <5>3. SendState' = [SendState EXCEPT ![s] = v]
          BY <2>6 DEF CommandDone
        <5> HIDE DEF v
        <5> QED
          BY <5>2, <5>3
      <4>2. checking' \in [Session -> BOOLEAN]
        <5> DEFINE c == checking[s] \/ effect[s] = "check"
        <5>1. c \in BOOLEAN
          OBVIOUS
        <5>2. checking' = [checking EXCEPT ![s] = c]
          BY <2>6 DEF CommandDone
        <5> HIDE DEF c
        <5> QED
          BY <5>1, <5>2
      <4> QED
        BY <2>6, <4>1, <4>2 DEF CommandDone, CommandEffect
    <3>2. LocksAgree'
      BY <2>6 DEF CommandDone, CommandEffect
    <3>3. BroadcastersHold'
      BY <2>6 DEF CommandDone, CommandEffect
    <3>4. OwnersHold'
      BY <2>6 DEF CommandDone, CommandEffect
    <3>5. SetIsAlive'
      BY <2>6 DEF CommandDone, CommandEffect
    <3>6. StreamsWhole'
      BY <2>6 DEF CommandDone, CommandEffect
    <3> QED
      BY <3>1, <3>2, <3>3, <3>4, <3>5, <3>6 DEF IInv
  <2>7. CASE BeginReply(s)
    BY <2>7 DEF BeginReply, BeginWrite
  <2> QED
    BY <1>6, <2>1, <2>2, <2>3, <2>4, <2>5, <2>6, <2>7 DEF ReadThread
<1>7. ASSUME NEW s \in Session, BeginReport(s) PROVE IInv'
  <2>1. Checker(s) \in Writer
    OBVIOUS
  <2>2. LocksAgree' /\ StreamsWhole'
    <3> HIDE DEF Checker, Writer, IInv
    <3> QED
      BY ONLY IInv, <1>7, <2>1, BeginWriteKeeps DEF BeginReport
  <2>3. TypeOK'
    BY <1>7 DEF BeginReport, BeginWrite
  <2>4. BroadcastersHold' /\ OwnersHold' /\ SetIsAlive'
    BY <1>7 DEF BeginReport, BeginWrite
  <2> QED
    BY <2>2, <2>3, <2>4 DEF IInv
<1>8. ASSUME NEW s \in Session, LoseReport(s) PROVE IInv'
  BY <1>8 DEF LoseReport
<1>9. ASSUME NEW s \in Session, Stall(s) \/ Resume(s) \/ Leave(s) PROVE IInv'
  <2> USE DEF peerUnchanged
  <2>1. CASE Stall(s)
    BY <2>1 DEF Stall
  <2>2. CASE Resume(s)
    BY <2>2 DEF Resume
  <2>3. CASE Leave(s)
    BY <2>3 DEF Leave
  <2> QED
    BY <1>9, <2>1, <2>2, <2>3
<1>10. ASSUME NEW b \in Broadcaster, BeginBroadcast(b) PROVE IInv'
  <2>1. TypeOK'
    BY <1>10 DEF BeginBroadcast
  <2>2. LocksAgree'
    BY <1>10 DEF BeginBroadcast
  <2>3. BroadcastersHold'
    BY <1>10 DEF BeginBroadcast
  <2>4. OwnersHold'
    BY <1>10 DEF BeginBroadcast
  <2>5. SetIsAlive'
    BY <1>10 DEF BeginBroadcast
  <2>6. StreamsWhole'
    BY <1>10 DEF BeginBroadcast
  <2> QED
    BY <2>1, <2>2, <2>3, <2>4, <2>5, <2>6 DEF IInv
<1>11. ASSUME NEW b \in Broadcaster, NEW s \in Session, VisitSession(b, s) PROVE IInv'
  BY <1>11 DEF VisitSession, BeginWrite
<1>12. ASSUME NEW b \in Broadcaster, EndBroadcast(b) PROVE IInv'
  BY <1>12 DEF EndBroadcast
<1>13. ASSUME NEW w \in Writer, WritePart(w) PROVE IInv'
  <2>1. TypeOK' /\ LocksAgree'
    BY <1>13 DEF WritePart
  <2>2. BroadcastersHold' /\ OwnersHold' /\ SetIsAlive'
    BY <1>13 DEF WritePart
  <2>3. StreamsWhole'
    BY <1>13, WritePartKeeps
  <2> QED
    BY <2>1, <2>2, <2>3 DEF IInv
<1>14. ASSUME NEW w \in Writer, WriteRest(w) PROVE IInv'
  <2>1. TypeOK'
    BY <1>14 DEF WriteRest, EndWrite, Returns
  <2>2. LocksAgree'
    BY <1>14 DEF WriteRest, EndWrite, Returns
  <2>3. BroadcastersHold'
    BY <1>14 DEF WriteRest, EndWrite, Returns
  <2>4. OwnersHold'
    BY <1>14 DEF WriteRest, EndWrite, Returns
  <2>5. SetIsAlive'
    BY <1>14 DEF WriteRest, EndWrite, Returns
  <2>6. StreamsWhole'
    BY <1>14 DEF WriteRest, EndWrite, Returns
  <2> QED
    BY <2>1, <2>2, <2>3, <2>4, <2>5, <2>6 DEF IInv
<1>15. ASSUME NEW w \in Writer, WriteFails(w) PROVE IInv'
  <2>1. TypeOK'
    BY <1>15 DEF WriteFails, EndWrite, Returns
  <2>2. LocksAgree'
    BY <1>15 DEF WriteFails, EndWrite, Returns
  <2>3. BroadcastersHold'
    BY <1>15 DEF WriteFails, EndWrite, Returns
  <2>4. OwnersHold'
    BY <1>15 DEF WriteFails, EndWrite, Returns
  <2>5. SetIsAlive'
    BY <1>15 DEF WriteFails, EndWrite, Returns
  <2>6. StreamsWhole'
    BY <1>15 DEF WriteFails, EndWrite, Returns
  <2> QED
    BY <2>1, <2>2, <2>3, <2>4, <2>5, <2>6 DEF IInv
<1>16. CASE UNCHANGED vars
  BY <1>16 DEF vars
<1> QED
  BY <1>1, <1>2, <1>3, <1>4, <1>5, <1>6, <1>7, <1>8, <1>9, <1>10, <1>11, <1>12,
     <1>13, <1>14, <1>15, <1>16 DEF Next

(* One broadcaster's visit: the set stands still under its mutex, and a session it has  *)
(* been to is served, being served, or gone for good.                                   *)
Reached(b) ==
  SessionSetMutex = b =>
    \A s \in SessionSet \ todo[b] : s \in served[b] \/ target[b] = s \/ peer[s] = "gone"

LEMMA ReachedStep ==
  ASSUME IInv, NEW b \in Broadcaster, Reached(b), [Next]_vars
  PROVE  Reached(b)'
<1> SUFFICES ASSUME SessionSetMutex' = b, NEW s \in SessionSet', s \notin todo'[b]
             PROVE  s \in served'[b] \/ target'[b] = s \/ peer'[s] = "gone"
  BY DEF Reached
<1>0. /\ b # None /\ b \in Writer /\ b \notin Session
      /\ target \in [Writer -> Session \cup {None}]
      /\ served \in [Broadcaster -> SUBSET Session] /\ todo \in [Broadcaster -> SUBSET Session]
      /\ peer \in [Session -> {"reading", "stalled", "gone"}] /\ SessionSet \subseteq Session
  BY SessionsAssumption DEF Writer, IInv, TypeOK
<1> USE DEF sessionVars, readerVars, writeVars, ioVars, readUnchanged, peerUnchanged
<1>1. ASSUME SessionSetMutex = b, s \in SessionSet, s \notin todo[b],
             served'[b] = served[b], target'[b] = target[b],
             peer[s] = "gone" => peer'[s] = "gone"
      PROVE  s \in served'[b] \/ target'[b] = s \/ peer'[s] = "gone"
  BY <1>1 DEF Reached
<1>2. CASE AddToSet
  BY <1>0, <1>2 DEF AddToSet
<1>3. CASE HandlerReturns
  BY <1>1, <1>3 DEF HandlerReturns, Release
<1>4. ASSUME NEW r \in Session, Accept(r) PROVE s \in served'[b] \/ target'[b] = s \/ peer'[s] = "gone"
  <2>1. s \in SessionSet /\ life[r] = "none"
    BY <1>4 DEF Accept
  <2>2. r # s
    BY <2>1 DEF IInv, SetIsAlive, Alive
  <2> QED
    BY <1>0, <1>1, <1>4, <2>1, <2>2 DEF Accept
<1>5. ASSUME NEW r \in Session, RemoveFromSet(r) PROVE FALSE
  BY <1>0, <1>5 DEF RemoveFromSet, Destroy
<1>6. ASSUME NEW r \in Session, PrintThreadExits(r)
      PROVE  s \in served'[b] \/ target'[b] = s \/ peer'[s] = "gone"
  BY <1>1, <1>6 DEF PrintThreadExits, Release
<1>7. ASSUME NEW r \in Session, ReadThread(r)
      PROVE  s \in served'[b] \/ target'[b] = s \/ peer'[s] = "gone"
  <2>1. CASE BeginReply(r)
    <3>1. target' = [target EXCEPT ![r] = r] /\ r # b
      BY <1>0, <2>1 DEF BeginReply, BeginWrite
    <3> QED
      BY <1>0, <1>1, <2>1, <3>1 DEF BeginReply, BeginWrite
  <2>2. CASE ~BeginReply(r)
    BY <1>1, <1>7, <2>2 DEF ReadThread, EnterRead, ReadThreadExits, ReadFails, ReadCommand,
        CommandThrows, CommandDone
  <2> QED
    BY <2>1, <2>2
<1>8. ASSUME NEW r \in Session, BeginReport(r)
      PROVE  s \in served'[b] \/ target'[b] = s \/ peer'[s] = "gone"
  <2>1. target' = [target EXCEPT ![Checker(r)] = r] /\ b # Checker(r)
    BY <1>8, SessionsAssumption DEF BeginReport, BeginWrite
  <2> QED
    BY <1>0, <1>1, <1>8, <2>1 DEF BeginReport, BeginWrite
<1>9. ASSUME NEW r \in Session, LoseReport(r)
      PROVE  s \in served'[b] \/ target'[b] = s \/ peer'[s] = "gone"
  BY <1>1, <1>9 DEF LoseReport
<1>10. ASSUME NEW r \in Session, Stall(r) \/ Resume(r) \/ Leave(r)
       PROVE  s \in served'[b] \/ target'[b] = s \/ peer'[s] = "gone"
  <2>1. peer[s] = "gone" => peer'[s] = "gone"
    BY <1>0, <1>10 DEF Stall, Resume, Leave
  <2> QED
    BY <1>1, <1>10, <2>1 DEF Stall, Resume, Leave
<1>11. ASSUME NEW a \in Broadcaster, BeginBroadcast(a) PROVE FALSE
  <2>1. a = b /\ todo'[b] = SessionSet /\ SessionSet' = SessionSet
    BY <1>0, <1>11 DEF BeginBroadcast
  <2> QED
    BY <2>1
<1>12. ASSUME NEW a \in Broadcaster, NEW r \in Session, VisitSession(a, r)
       PROVE  s \in served'[b] \/ target'[b] = s \/ peer'[s] = "gone"
  <2>1. /\ a = b /\ todo' = [todo EXCEPT ![b] = @ \ {r}] /\ target[b] = None
        /\ target' = [target EXCEPT ![b] = r]
        /\ UNCHANGED <<SessionSet, SessionSetMutex, served, peer>>
    BY <1>0, <1>12 DEF VisitSession, BeginWrite
  <2>2. CASE r = s
    BY <1>0, <2>1, <2>2
  <2>3. CASE r # s
    <3>1. s \notin todo[b] /\ s \in SessionSet /\ SessionSetMutex = b
      BY <1>0, <2>1, <2>3
    <3>2. s # None
      BY <1>0, <3>1, SessionsAssumption DEF Writer
    <3>3. s \in served[b] \/ peer[s] = "gone"
      BY <2>1, <3>1, <3>2 DEF Reached
    <3> QED
      BY <2>1, <3>3
  <2> QED
    BY <2>2, <2>3
<1>13. ASSUME NEW a \in Broadcaster, EndBroadcast(a) PROVE FALSE
  BY <1>0, <1>13 DEF EndBroadcast
<1>14. ASSUME NEW w \in Writer, WritePart(w)
       PROVE  s \in served'[b] \/ target'[b] = s \/ peer'[s] = "gone"
  BY <1>1, <1>14 DEF WritePart
<1>15. ASSUME NEW w \in Writer, WriteRest(w)
       PROVE  s \in served'[b] \/ target'[b] = s \/ peer'[s] = "gone"
  <2>1. /\ UNCHANGED <<SessionSet, SessionSetMutex, todo, peer>>
        /\ target' = [target EXCEPT ![w] = None]
        /\ served' = IF w \in Broadcaster THEN [served EXCEPT ![w] = @ \cup {target[w]}]
                                           ELSE served
    BY <1>15 DEF WriteRest, EndWrite
  <2>2. s \in served[b] \/ target[b] = s \/ peer[s] = "gone"
    BY <2>1 DEF Reached
  <2>3. CASE w = b
    BY <1>0, <2>1, <2>2, <2>3
  <2>4. CASE w # b
    BY <1>0, <2>1, <2>2, <2>4
  <2> QED
    BY <2>3, <2>4
<1>16. ASSUME NEW w \in Writer, WriteFails(w)
       PROVE  s \in served'[b] \/ target'[b] = s \/ peer'[s] = "gone"
  <2>1. /\ UNCHANGED <<SessionSet, SessionSetMutex, todo, peer, served>>
        /\ target' = [target EXCEPT ![w] = None] /\ peer[target[w]] = "gone"
    BY <1>16 DEF WriteFails, EndWrite
  <2>2. s \in served[b] \/ target[b] = s \/ peer[s] = "gone"
    BY <2>1 DEF Reached
  <2>3. CASE w = b
    BY <1>0, <2>1, <2>2, <2>3
  <2>4. CASE w # b
    BY <1>0, <2>1, <2>2, <2>4
  <2> QED
    BY <2>3, <2>4
<1>17. CASE UNCHANGED vars
  BY <1>1, <1>17 DEF vars
<1> QED
  BY <1>2, <1>3, <1>4, <1>5, <1>6, <1>7, <1>8, <1>9, <1>10, <1>11, <1>12, <1>13, <1>14, <1>15,
     <1>16, <1>17 DEF Next

------------------------------------------------------------------------------

(* The invariant holds in every state of accept handler, sessions and broadcasts. *)
THEOREM Invariant == Spec => []IInv
  BY InitIInv, StepIInv, PTL DEF Spec

(* Every variable keeps its type, for all sessions, broadcasters and commands. *)
THEOREM TypeCorrect == Spec => []TypeOK
<1>1. IInv => TypeOK
  BY DEF IInv
<1> QED
  BY <1>1, Invariant, PTL

(* No broadcaster, read thread or accept handler reaches a destroyed session    *)
(* (TcpSocket::SendMsg against ~TcpSession).                                    *)
THEOREM NoSessionUsedAfterDestroy == Spec => []NoUseAfterDestroy
<1>1. IInv => NoUseAfterDestroy
  BY DEF IInv, TypeOK, NoUseAfterDestroy, SetIsAlive, BroadcastersHold, OwnersHold, Alive
<1> QED
  BY <1>1, Invariant, PTL

(* The frames that broadcasters, replies and self checks write to a connection  *)
(* (TcpSession::write) are never mixed, however write_some splits them.         *)
THEOREM FramesStayWhole == Spec => []FramesWhole
<1>1. IInv => FramesWhole
  BY DEF IInv, StreamsWhole
<1> QED
  BY <1>1, Invariant, PTL

(* When a broadcast is about to return, no session it went past is left without the     *)
(* whole frame but those whose client is gone, for any number of sessions and writers   *)
(* (TcpSocket::SendMsg, TcpSession::write).                                             *)
THEOREM BroadcastReaches == Spec => []BroadcastReachesAll
<1> DEFINE All == \A b \in Broadcaster : Reached(b)
<1>1. Init => All
  BY SessionsAssumption DEF Init, Reached, Writer
<1>2. IInv /\ All /\ [Next]_vars => All'
  BY ReachedStep
<1>3. All => BroadcastReachesAll
  BY DEF Reached, BroadcastReachesAll
<1> QED
  BY <1>1, <1>2, <1>3, Invariant, PTL DEF Spec

------------------------------------------------------------------------------
(* Who waits for whom *)

(* Thread w is kept from its next step by a lock that v holds: a broadcaster at the     *)
(* mutex of the set or, holding it, at a session's lock; a read thread before a reply,  *)
(* or in the destructor; a self check before its report.  The io thread and the print   *)
(* threads keep no lock over a step, so that nobody waits for them.                     *)
WaitsFor(w, v) ==
  \/ w \in Broadcaster /\ SessionSetMutex = v /\ v # w
  \/ /\ w \in Broadcaster /\ SessionSetMutex = w /\ target[w] = None
     /\ \E s \in todo[w] : WriteLock[s] = v
  \/ /\ w \in Session /\ reader[w] = "handling" /\ replies[w] > 0 /\ target[w] = None
     /\ WriteLock[w] = v
  \/ w \in Session /\ life[w] = "dying" /\ SessionSetMutex = v
  \/ \E s \in Session : /\ w = Checker(s) /\ checking[s] /\ Alive(s) /\ target[w] = None
                         /\ WriteLock[s] = v

(* A chain of waiting threads has two links at most, and the last of them is in a       *)
(* write(), where it waits for nothing but its client.                                  *)
WaitsEndAtClient ==
  \A w, v \in Writer : WaitsFor(w, v) =>
    \A u \in Writer :
      /\ WaitsFor(v, u) => target[u] # None
      /\ target[v] # None => ~WaitsFor(v, u)

(* Whoever is in a write() waits for no lock. *)
LEMMA WriterWaitsForNobody ==
  ASSUME IInv, NEW v \in Writer, target[v] # None, NEW u \in Writer
  PROVE  ~WaitsFor(v, u)
<1> USE SessionsAssumption DEF IInv
<1>1. CASE v \in Broadcaster
  <2>1. SessionSetMutex = v /\ v \notin Session /\ \A s \in Session : v # Checker(s)
    BY <1>1 DEF BroadcastersHold
  <2> QED
    BY <2>1 DEF WaitsFor
<1>2. CASE v \in Session
  <2>1. reader[v] = "handling" /\ life[v] = "live"
    BY <1>2 DEF OwnersHold
  <2>2. v \notin Broadcaster /\ \A s \in Session : v # Checker(s)
    BY <1>2
  <2> QED
    BY <2>1, <2>2 DEF WaitsFor
<1>3. CASE v \notin Broadcaster \cup Session
  BY <1>3 DEF WaitsFor
<1> QED
  BY <1>1, <1>2, <1>3

(* The locks of TcpSocket and TcpSession are taken in one order, the mutex of   *)
(* the set before a session's, and the destructor waits with none: no threads   *)
(* wait in a circle, and who holds one up is at the end a client that does not  *)
(* read (TcpSocket.cpp SendMsg, TcpSession.cpp write, ~TcpSession).             *)
THEOREM NoWaitInCircle == Spec => []WaitsEndAtClient
<1>1. ASSUME IInv PROVE WaitsEndAtClient
  <2> SUFFICES ASSUME NEW w \in Writer, NEW v \in Writer, WaitsFor(w, v), NEW u \in Writer
               PROVE  /\ WaitsFor(v, u) => target[u] # None
                      /\ target[v] # None => ~WaitsFor(v, u)
    BY DEF WaitsEndAtClient
  <2>1. \A s \in Session : WriteLock[s] = v => target[v] # None
    BY <1>1, SessionsAssumption DEF IInv, LocksAgree, Writer
  <2>2. target[v] # None \/ SessionSetMutex = v
    <3>1. \A b \in Broadcaster : todo[b] \subseteq Session
      BY <1>1 DEF IInv, TypeOK
    <3> QED
      BY <2>1, <3>1 DEF WaitsFor
  <2>3. ASSUME SessionSetMutex = v, WaitsFor(v, u) PROVE target[u] # None
    <3>1. v \in Broadcaster /\ v \notin Session /\ \A s \in Session : v # Checker(s)
      BY <1>1, <2>3, SessionsAssumption DEF IInv, TypeOK
    <3>2. PICK s \in todo[v] : WriteLock[s] = u
      BY <2>3, <3>1 DEF WaitsFor
    <3>3. s \in Session
      BY <1>1, <3>1, <3>2 DEF IInv, TypeOK
    <3> QED
      BY <1>1, <3>2, <3>3, SessionsAssumption DEF IInv, LocksAgree, Writer
  <2> QED
    BY <1>1, <2>2, <2>3, WriterWaitsForNobody
<1> QED
  BY <1>1, Invariant, PTL
==============================================================================
