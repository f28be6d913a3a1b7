----------------------------- MODULE TcpSessions -----------------------------
(***************************************************************************)
(* TcpSocket and TcpSession (NACX_Server/TcpSocket.cpp, TcpSession.cpp):   *)
(* how a client connection is accepted, registered, served, and destroyed  *)
(* while the two data threads broadcast to every registered session.       *)
(*                                                                         *)
(* Threads.  The io thread runs the accept handler.  Each session has a    *)
(* read thread (it also answers the commands) and a print thread, and each *)
(* of them, like the accept handler, owns a shared_ptr to the session: the *)
(* one that drops the last reference runs the destructor.  The data        *)
(* threads ("Broadcaster") hold no reference: they find the session        *)
(* through a raw pointer in SessionSet, under SessionSetMutex.             *)
(*                                                                         *)
(* Steps.  Taking a mutex, one socket call and one reply are steps; a      *)
(* critical section that neither blocks nor takes a second lock is one     *)
(* step.  A frame is FrameLen units long and write_some may accept any     *)
(* number of them.  Commands are reduced to what they make the read thread *)
(* do here: how many replies it writes, whether it sets SendState, and     *)
(* whether it starts a self check, whose detached thread keeps a raw       *)
(* pointer to the session and writes one report through it.  What that     *)
(* thread does once the session is destroyed is undefined: here it only    *)
(* ends, so nothing below speaks of it.                                    *)
(***************************************************************************)
EXTENDS Naturals, FiniteSets

CONSTANTS
  Session,      (* the TcpSession objects; an address is not reused    *)
  Broadcaster,  (* the threads that call TcpSocket::SendMsg            *)
  FrameLen,     (* units in a frame                                    *)
  Command,      (* what the commands come to, see CommandEffect        *)
  None          (* no thread, no session                               *)

(* The read thread of session s is named s, its self-check thread Checker(s);   *)
(* one session has at most one self check under way (a bound of the model).     *)
Checker(s) == <<"SelfCheck", s>>
Writer == Broadcaster \cup Session \cup {Checker(s) : s \in Session}

(* A command is [replies, effect].  A message with a wrong head and the two     *)
(* narrow-band receiver commands write nothing; a refused command and a reset   *)
(* one ControlReplay; an inquiry and a parameter set a WorkParmReplay too.      *)
(* Starting and stopping a gathering change SendState after their               *)
(* ControlReplay, `WorkCtrl:1` clears it before; a self check starts its thread *)
(* after its own.                                                               *)
CommandEffect == {"none", "start", "stop", "stopFirst", "check"}
AllCommands == {[replies |-> n, effect |-> "none"] : n \in 0..2}
                 \cup {[replies |-> 1, effect |-> e] : e \in CommandEffect}

ASSUME SessionsAssumption ==
  /\ FrameLen \in Nat \ {0}
  /\ Command \subseteq AllCommands
  /\ None \notin Writer
  /\ Broadcaster \cap Session = {}
  /\ \A s \in Session : Checker(s) \notin Broadcaster \cup Session

VARIABLES
  life,             (* of each session: "none", "live", "dying" (the destructor  *)
                    (* runs but has not erased it yet), "destroyed"              *)
  refs,             (* the holders of a shared_ptr to it                         *)
  isRunning,        (* TcpSession::isRunning                                     *)
  SendState,        (* TcpSession::SendState                                     *)
  peer,             (* the client: "reading", "stalled" (its receive window and  *)
                    (* the send buffer are full) or "gone"                       *)
  SessionSet,       (* TcpSocket::SessionSet                                     *)
  SessionSetMutex,  (* its holder                                                *)
  io,               (* the io thread: "accepting", "adding", "returning",        *)
                    (* "deleting" (it runs the destructor)                       *)
  ioSession,        (* the session its handler made last                         *)
  reader,           (* the read thread: "loop", "blocked" in read_some,          *)
                    (* "handling" a command, "exited"                            *)
  replies,          (* replies the current command still has to write            *)
  effect,           (* what it does besides                                      *)
  checking,         (* its self check runs                                       *)
  todo,             (* the sessions a broadcaster has not visited yet            *)
  target,           (* the session a writer is writing to, under its WriteLock   *)
  WriteLock,        (* TcpSession::WriteLock: its holder                         *)
  left,             (* units the writer has still to write                       *)
  wire,             (* the unfinished frame at the end of the client's byte      *)
                    (* stream: whose it is and how much of it arrived            *)
  served            (* the sessions that took the current broadcast in full      *)

sessionVars == <<life, refs, SessionSet>>
readerVars == <<reader, replies, effect, checking, SendState>>
writeVars == <<target, WriteLock, left, wire, served>>
ioVars == <<io, ioSession>>
vars == <<sessionVars, isRunning, peer, SessionSetMutex, ioVars, readerVars,
          todo, writeVars>>

Boundary == [by |-> None, got |-> 0]

Init ==
  /\ life = [s \in Session |-> "none"]
  /\ refs = [s \in Session |-> {}]
  /\ isRunning = [s \in Session |-> TRUE]
  /\ SendState = [s \in Session |-> TRUE]
  /\ peer = [s \in Session |-> "gone"]
  /\ SessionSet = {}
  /\ SessionSetMutex = None
  /\ io = "accepting"
  /\ ioSession = None
  /\ reader = [s \in Session |-> "exited"]
  /\ replies = [s \in Session |-> 0]
  /\ effect = [s \in Session |-> "none"]
  /\ checking = [s \in Session |-> FALSE]
  /\ todo = [b \in Broadcaster |-> {}]
  /\ target = [w \in Writer |-> None]
  /\ WriteLock = [s \in Session |-> None]
  /\ left = [w \in Writer |-> 0]
  /\ wire = [s \in Session |-> Boundary]
  /\ served = [b \in Broadcaster |-> {}]

------------------------------------------------------------------------------
(* The lifetime of a session *)

Alive(s) == life[s] \in {"live", "dying"}

(* A shared_ptr goes away; with the last one the destructor starts. *)
Release(s, holder) ==
  /\ refs' = [refs EXCEPT ![s] = @ \ {holder}]
  /\ life' = IF refs[s] = {holder} THEN [life EXCEPT ![s] = "dying"] ELSE life

(* The handler of async_accept: make_shared<TcpSession>, then AddToSet, which   *)
(* starts both threads (StartWork) before it registers the session.  On a       *)
(* failed accept the code goes on in the same way with a socket that is not     *)
(* connected.                                                                   *)
Accept(s) ==
  /\ io = "accepting"
  /\ life[s] = "none"
  /\ life' = [life EXCEPT ![s] = "live"]
  /\ refs' = [refs EXCEPT ![s] = {"io", "read", "print"}]
  /\ reader' = [reader EXCEPT ![s] = "loop"]
  /\ \E p \in {"reading", "gone"} : peer' = [peer EXCEPT ![s] = p]
  /\ io' = "adding"
  /\ ioSession' = s
  /\ UNCHANGED <<SessionSet, isRunning, SessionSetMutex, replies, effect,
                 checking, SendState, todo, writeVars>>

AddToSet ==
  /\ io = "adding"
  /\ SessionSetMutex = None
  /\ SessionSet' = SessionSet \cup {ioSession}
  /\ io' = "returning"
  /\ UNCHANGED <<life, refs, isRunning, peer, SessionSetMutex, ioSession,
                 readerVars, todo, writeVars>>

(* The handler has called async_accept again; its local `session` goes away. *)
HandlerReturns ==
  /\ io = "returning"
  /\ Release(ioSession, "io")
  /\ io' = IF refs[ioSession] = {"io"} THEN "deleting" ELSE "accepting"
  /\ ioSession' = IF refs[ioSession] = {"io"} THEN ioSession ELSE None
  /\ UNCHANGED <<SessionSet, isRunning, peer, SessionSetMutex, readerVars, todo,
                 writeVars>>

(* ~TcpSession erases the session from the set and then its members go; the     *)
(* socket is closed.  The io thread, if it is the one to run this, is free.     *)
Destroy(s) ==
  /\ SessionSet' = SessionSet \ {s}
  /\ life' = [life EXCEPT ![s] = "destroyed"]
  /\ peer' = [peer EXCEPT ![s] = "gone"]
  /\ wire' = [wire EXCEPT ![s] = Boundary]
  /\ SendState' = [SendState EXCEPT ![s] = TRUE]
  /\ IF ioSession = s
       THEN io' = "accepting" /\ ioSession' = None
       ELSE UNCHANGED ioVars
  /\ UNCHANGED <<refs, isRunning, SessionSetMutex, reader, replies, effect,
                 checking, todo, target, WriteLock, left, served>>

(* Mutated: the destructor does not take SessionSetMutex. *)
RemoveFromSetUnlocked(s) ==
  /\ life[s] = "dying"
  /\ Destroy(s)

RemoveFromSet(s) ==
  /\ life[s] = "dying"
  /\ SessionSetMutex = None
  /\ Destroy(s)

(* The print thread looks at isRunning once a second. *)
PrintThreadExits(s) ==
  /\ "print" \in refs[s]
  /\ ~isRunning[s]
  /\ Release(s, "print")
  /\ UNCHANGED <<SessionSet, isRunning, peer, SessionSetMutex, ioVars,
                 readerVars, todo, writeVars>>

------------------------------------------------------------------------------
(* The read thread *)

readUnchanged ==
  UNCHANGED <<SessionSet, peer, SessionSetMutex, ioVars, todo, writeVars>>

EnterRead(s) ==
  /\ reader[s] = "loop"
  /\ isRunning[s]
  /\ reader' = [reader EXCEPT ![s] = "blocked"]
  /\ UNCHANGED <<life, refs, isRunning, replies, effect, checking, SendState>>
  /\ readUnchanged

ReadThreadExits(s) ==
  /\ reader[s] = "loop"
  /\ ~isRunning[s]
  /\ reader' = [reader EXCEPT ![s] = "exited"]
  /\ Release(s, "read")
  /\ UNCHANGED <<isRunning, replies, effect, checking, SendState>>
  /\ readUnchanged

(* Mutated: the failure does not reach isRunning. *)
ReadFailsQuietly(s) ==
  /\ reader[s] = "blocked"
  /\ peer[s] = "gone"
  /\ reader' = [reader EXCEPT ![s] = "loop"]
  /\ UNCHANGED <<life, refs, isRunning, replies, effect, checking, SendState>>
  /\ readUnchanged

(* read_some returns an error: end of file or a reset. *)
ReadFails(s) ==
  /\ reader[s] = "blocked"
  /\ peer[s] = "gone"
  /\ isRunning' = [isRunning EXCEPT ![s] = FALSE]
  /\ reader' = [reader EXCEPT ![s] = "loop"]
  /\ UNCHANGED <<life, refs, replies, effect, checking, SendState>>
  /\ readUnchanged

ReadCommand(s) ==
  /\ reader[s] = "blocked"
  /\ peer[s] # "gone"
  /\ \E c \in Command :
       /\ c.effect = "check" => ~checking[s]
       /\ replies' = [replies EXCEPT ![s] = c.replies]
       /\ effect' = [effect EXCEPT ![s] = c.effect]
       /\ SendState' = IF c.effect = "stopFirst"
                         THEN [SendState EXCEPT ![s] = FALSE] ELSE SendState
  /\ reader' = [reader EXCEPT ![s] = "handling"]
  /\ UNCHANGED <<life, refs, isRunning, checking>>
  /\ readUnchanged

(* The handler throws: a number that does not parse, or a failed device write. *)
CommandThrows(s) ==
  /\ reader[s] = "handling"
  /\ target[s] = None
  /\ isRunning' = [isRunning EXCEPT ![s] = FALSE]
  /\ reader' = [reader EXCEPT ![s] = "loop"]
  /\ replies' = [replies EXCEPT ![s] = 0]
  /\ effect' = [effect EXCEPT ![s] = "none"]
  /\ UNCHANGED <<life, refs, checking, SendState>>
  /\ readUnchanged

CommandDone(s) ==
  /\ reader[s] = "handling"
  /\ replies[s] = 0
  /\ target[s] = None
  /\ reader' = [reader EXCEPT ![s] = "loop"]
  /\ SendState' = [SendState EXCEPT ![s] =
                     IF effect[s] \in {"start", "stop"} THEN effect[s] = "start" ELSE @]
  /\ checking' = [checking EXCEPT ![s] = @ \/ effect[s] = "check"]
  /\ effect' = [effect EXCEPT ![s] = "none"]
  /\ UNCHANGED <<life, refs, isRunning, replies>>
  /\ readUnchanged

------------------------------------------------------------------------------
(* TcpSession::write, by a read thread or by a broadcaster *)

(* Mutated: the lock_guard of write() is missing. *)
BeginWriteUnlocked(w, s) ==
  /\ target[w] = None
  /\ target' = [target EXCEPT ![w] = s]
  /\ WriteLock' = [WriteLock EXCEPT ![s] = w]
  /\ left' = [left EXCEPT ![w] = FrameLen]
  /\ UNCHANGED <<wire, served>>

BeginWrite(w, s) ==
  /\ target[w] = None
  /\ WriteLock[s] = None
  /\ target' = [target EXCEPT ![w] = s]
  /\ WriteLock' = [WriteLock EXCEPT ![s] = w]
  /\ left' = [left EXCEPT ![w] = FrameLen]
  /\ UNCHANGED <<wire, served>>

(* What the caller of write() does next: a read thread has a reply less to      *)
(* write, a self check has sent its report and ends.                            *)
Returns(w) ==
  /\ replies' = IF w \in Session THEN [replies EXCEPT ![w] = @ - 1] ELSE replies
  /\ checking' = [s \in Session |-> checking[s] /\ w # Checker(s)]

(* write() returns and its lock_guard releases WriteLock. *)
EndWrite(w) ==
  /\ target' = [target EXCEPT ![w] = None]
  /\ left' = [left EXCEPT ![w] = 0]
  /\ WriteLock' = [WriteLock EXCEPT ![target[w]] = None]
  /\ Returns(w)

BeginReply(s) ==
  /\ reader[s] = "handling"
  /\ replies[s] > 0
  /\ BeginWrite(s, s)
  /\ UNCHANGED <<sessionVars, isRunning, peer, SessionSetMutex, ioVars,
                 readerVars, todo>>

(* The self check sends its report, through its raw pointer. *)
BeginReport(s) ==
  /\ checking[s]
  /\ Alive(s)
  /\ BeginWrite(Checker(s), s)
  /\ UNCHANGED <<sessionVars, isRunning, peer, SessionSetMutex, ioVars,
                 readerVars, todo>>

(* The session is destroyed before it: undefined behaviour, see above. *)
LoseReport(s) ==
  /\ checking[s]
  /\ ~Alive(s)
  /\ target[Checker(s)] = None
  /\ checking' = [checking EXCEPT ![s] = FALSE]
  /\ UNCHANGED <<sessionVars, isRunning, peer, SessionSetMutex, ioVars, reader,
                 replies, effect, SendState, todo, writeVars>>

(* Mutated: write_some is offered a unit more than is left. *)
WritePartBeyond(w) ==
  /\ target[w] # None
  /\ peer[target[w]] = "reading"
  /\ \E k \in 1..(left[w] + 1) :
       /\ left' = [left EXCEPT ![w] = @ - k]
       /\ wire' = [wire EXCEPT ![target[w]] =
                     [by |-> w, got |-> FrameLen - left[w] + k]]
  /\ UNCHANGED <<sessionVars, isRunning, peer, SessionSetMutex, ioVars,
                 readerVars, todo, target, WriteLock, served>>

(* write_some accepts k units: `left -= bytes_transferred`. *)
WritePart(w) ==
  /\ target[w] # None
  /\ peer[target[w]] = "reading"
  /\ \E k \in 1..(left[w] - 1) :
       /\ left' = [left EXCEPT ![w] = @ - k]
       /\ wire' = [wire EXCEPT ![target[w]] =
                     [by |-> w, got |-> FrameLen - left[w] + k]]
  /\ UNCHANGED <<sessionVars, isRunning, peer, SessionSetMutex, ioVars,
                 readerVars, todo, target, WriteLock, served>>

(* write_some accepts all that is left, and the frame is complete. *)
WriteRest(w) ==
  /\ target[w] # None
  /\ peer[target[w]] = "reading"
  /\ wire' = [wire EXCEPT ![target[w]] = Boundary]
  /\ served' = IF w \in Broadcaster
                 THEN [served EXCEPT ![w] = @ \cup {target[w]}]
                 ELSE served
  /\ EndWrite(w)
  /\ UNCHANGED <<sessionVars, isRunning, peer, SessionSetMutex, ioVars,
                 reader, effect, SendState, todo>>

(* Mutated: a failed write leaves the loop over the sessions. *)
WriteFailsForAll(w) ==
  /\ target[w] # None
  /\ peer[target[w]] = "gone"
  /\ isRunning' = [isRunning EXCEPT ![target[w]] = FALSE]
  /\ EndWrite(w)
  /\ todo' = IF w \in Broadcaster THEN [todo EXCEPT ![w] = {}] ELSE todo
  /\ UNCHANGED <<sessionVars, peer, SessionSetMutex, ioVars, reader, effect,
                 SendState, wire, served>>

(* Mutated: write() goes on after an error instead of returning. *)
WriteFailsForEver(w) ==
  /\ target[w] # None
  /\ peer[target[w]] = "gone"
  /\ isRunning' = [isRunning EXCEPT ![target[w]] = FALSE]
  /\ UNCHANGED <<sessionVars, peer, SessionSetMutex, ioVars, readerVars, todo,
                 writeVars>>

(* write_some fails: the session is told to stop and write() returns. *)
WriteFails(w) ==
  /\ target[w] # None
  /\ peer[target[w]] = "gone"
  /\ isRunning' = [isRunning EXCEPT ![target[w]] = FALSE]
  /\ EndWrite(w)
  /\ UNCHANGED <<sessionVars, peer, SessionSetMutex, ioVars, reader, effect,
                 SendState, todo, wire, served>>

------------------------------------------------------------------------------
(* TcpSocket::SendMsg *)

BeginBroadcast(b) ==
  /\ SessionSetMutex = None
  /\ SessionSetMutex' = b
  /\ todo' = [todo EXCEPT ![b] = SessionSet]
  /\ UNCHANGED <<sessionVars, isRunning, peer, ioVars, readerVars, writeVars>>

VisitSession(b, s) ==
  /\ SessionSetMutex = b
  /\ s \in todo[b]
  /\ todo' = [todo EXCEPT ![b] = @ \ {s}]
  /\ BeginWrite(b, s)
  /\ UNCHANGED <<sessionVars, isRunning, peer, SessionSetMutex, ioVars, readerVars>>

EndBroadcast(b) ==
  /\ SessionSetMutex = b
  /\ target[b] = None
  /\ todo[b] = {}
  /\ SessionSetMutex' = None
  /\ served' = [served EXCEPT ![b] = {}]
  /\ UNCHANGED <<sessionVars, isRunning, peer, ioVars, readerVars, todo, target,
                 WriteLock, left, wire>>

------------------------------------------------------------------------------
(* The clients *)

peerUnchanged ==
  UNCHANGED <<sessionVars, isRunning, SessionSetMutex, ioVars, readerVars, todo,
              target, WriteLock, left, served>>

Stall(s) ==
  /\ peer[s] = "reading"
  /\ peer' = [peer EXCEPT ![s] = "stalled"]
  /\ UNCHANGED wire
  /\ peerUnchanged

Resume(s) ==
  /\ peer[s] = "stalled"
  /\ peer' = [peer EXCEPT ![s] = "reading"]
  /\ UNCHANGED wire
  /\ peerUnchanged

Leave(s) ==
  /\ peer[s] # "gone"
  /\ peer' = [peer EXCEPT ![s] = "gone"]
  /\ wire' = [wire EXCEPT ![s] = Boundary]
  /\ peerUnchanged

------------------------------------------------------------------------------

ReadThread(s) ==
  \/ EnterRead(s)
  \/ ReadThreadExits(s)
  \/ ReadFails(s)
  \/ ReadCommand(s)
  \/ CommandThrows(s)
  \/ CommandDone(s)
  \/ BeginReply(s)

Next ==
  \/ AddToSet
  \/ HandlerReturns
  \/ \E s \in Session :
       \/ Accept(s)
       \/ RemoveFromSet(s)
       \/ PrintThreadExits(s)
       \/ ReadThread(s)
       \/ BeginReport(s) \/ LoseReport(s)
       \/ Stall(s) \/ Resume(s) \/ Leave(s)
  \/ \E b \in Broadcaster :
       \/ BeginBroadcast(b)
       \/ \E s \in Session : VisitSession(b, s)
       \/ EndBroadcast(b)
  \/ \E w \in Writer : WritePart(w) \/ WriteRest(w) \/ WriteFails(w)

Spec == Init /\ [][Next]_vars

(* Every thread that can run does (WF).  SF is asked for where a thread waits   *)
(* for a mutex that is given back again and again, and where a write_some is    *)
(* blocked on a socket that becomes writable again and again; threads that      *)
(* wait for one mutex only finitely often, or never two at a time, share one    *)
(* condition, which asks less than one for each.  A client that stalls reads    *)
(* again or its connection breaks.  Nothing makes a client send, stall or       *)
(* leave, a data thread broadcast, or a handler throw.                          *)
Fairness ==
  /\ WF_vars(HandlerReturns)
  /\ SF_vars(AddToSet \/ \E s \in Session : RemoveFromSet(s))
  /\ \A s \in Session :
       /\ WF_vars(PrintThreadExits(s))
       /\ WF_vars(EnterRead(s) \/ ReadThreadExits(s) \/ ReadFails(s) \/ CommandDone(s))
       /\ SF_vars(BeginReply(s))
       /\ SF_vars(\E w \in Writer : target[w] = s /\ (WriteRest(w) \/ WriteFails(w)))
       /\ WF_vars(Resume(s) \/ Leave(s))
  /\ \A b \in Broadcaster :
       /\ SF_vars(\E s \in Session : VisitSession(b, s))
       /\ WF_vars(EndBroadcast(b))

FairSpec == Spec /\ Fairness

------------------------------------------------------------------------------

TypeOK ==
  /\ life \in [Session -> {"none", "live", "dying", "destroyed"}]
  /\ refs \in [Session -> SUBSET {"io", "read", "print"}]
  /\ isRunning \in [Session -> BOOLEAN]
  /\ SendState \in [Session -> BOOLEAN]
  /\ peer \in [Session -> {"reading", "stalled", "gone"}]
  /\ SessionSet \in SUBSET Session
  /\ SessionSetMutex \in Broadcaster \cup {None}
  /\ io \in {"accepting", "adding", "returning", "deleting"}
  /\ ioSession \in Session \cup {None}
  /\ reader \in [Session -> {"loop", "blocked", "handling", "exited"}]
  /\ replies \in [Session -> 0..2]
  /\ effect \in [Session -> CommandEffect]
  /\ checking \in [Session -> BOOLEAN]
  /\ todo \in [Broadcaster -> SUBSET Session]
  /\ target \in [Writer -> Session \cup {None}]
  /\ WriteLock \in [Session -> Writer \cup {None}]
  /\ left \in [Writer -> 0..FrameLen]
  /\ wire \in [Session -> [by : Writer \cup {None}, got : 0..FrameLen]]
  /\ served \in [Broadcaster -> SUBSET Session]

(* No thread reaches a destroyed session: neither through the raw pointers in   *)
(* SessionSet, nor in a write or a command it has begun, nor in the accept      *)
(* handler, although no broadcaster owns a reference and the destructor may     *)
(* already be waiting for SessionSetMutex.  It says nothing of the self check,  *)
(* whose raw `this` nothing protects (LoseReport is that case).                 *)
NoUseAfterDestroy ==
  /\ \A s \in SessionSet : Alive(s)
  /\ \A w \in Broadcaster \cup Session : target[w] # None => Alive(target[w])
  /\ \A s \in Session : reader[s] # "exited" => life[s] = "live"
  /\ io \in {"adding", "returning"} => life[ioSession] = "live"

(* The client's byte stream never mixes two frames: while the connection lasts, *)
(* it ends at a frame boundary, or inside the frame of the one thread that      *)
(* holds WriteLock and exactly where that thread's write() stands.              *)
Progress(w) ==
  IF left[w] = FrameLen THEN Boundary ELSE [by |-> w, got |-> FrameLen - left[w]]
FramesWhole ==
  \A s \in Session : peer[s] # "gone" =>
    wire[s] = IF WriteLock[s] = None THEN Boundary ELSE Progress(WriteLock[s])

(* When SendMsg is about to return, every registered session has received the  *)
(* whole frame or its connection is broken: one failing client takes nothing    *)
(* away from the others.                                                        *)
BroadcastReachesAll ==
  \A b \in Broadcaster :
    SessionSetMutex = b =>
      \A s \in SessionSet \ todo[b] :
        s \in served[b] \/ target[b] = s \/ peer[s] = "gone"

(* A session whose client is gone is destroyed in the end, so the set does not  *)
(* fill with dead connections.                                                  *)
GoneSessionIsDestroyed ==
  \A s \in Session :
    (life[s] # "none" /\ peer[s] = "gone") ~> (life[s] = "destroyed")

(* The accept handler always comes back to accepting, however many frames are   *)
(* broadcast and clients come and go meanwhile: also when it waits for          *)
(* SessionSetMutex while a broadcast is held up by the client of another        *)
(* session, that stalls or leaves in the middle of its frame.                   *)
AcceptResumes == (io # "accepting") ~> (io = "accepting")

(* A broadcast, once begun, ends: a client that is slow or fails delays the     *)
(* data thread but does not hold SessionSetMutex for ever.                      *)
BroadcastEnds ==
  \A b \in Broadcaster : (SessionSetMutex = b) ~> (SessionSetMutex # b)
==============================================================================
