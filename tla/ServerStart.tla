----------------------------- MODULE ServerStart -----------------------------
(* The start of the server: main lets one process of the name go on, builds  *)
(* TinyInstance (configuration, listening socket, serial port, the two data  *)
(* threads), opens the PCIe device, uploads the calibration sample and       *)
(* serves.  Several processes may be started, with different rights, and any *)
(* of them may be killed at any step and started again: what is modelled is  *)
(* what they meet in, the process list, config.ini, the port, the device and *)
(* the board behind it.  The directory of config.ini can be written.         *)
EXTENDS Integers, FiniteSets

CONSTANTS
    Process,
    SAMPLES,        \* packets of a whole calibration sample
    MaxStarts,      \* bound: processes started
    MaxKills,       \* bound: processes killed
    MaxCommands     \* bound: client commands written to the board

ASSUME StartAssumption ==
    /\ IsFiniteSet(Process)
    /\ SAMPLES \in Nat \ {0}
    /\ MaxStarts \in Nat /\ MaxKills \in Nat /\ MaxCommands \in Nat

VARIABLES
    pc, ended,                       \* where a process stands, how its last life ended
    listed, count,                   \* snapshot entries not yet tried, those it could open
    port, device,                    \* processes bound, with pdev set
    sent, commands, starts, kills,   \* sample packets and commands written; bounds
    elevated,                        \* which processes have an administrator's rights
    present, sampleFile,             \* what there is: a device, the sample's file
    there, config,                   \* config.ini: is it there, the keys that can be read
    opened,      \* history: the processes counted that still are the same
    alone        \* history: nobody is there whom this process could not see, or it them

life == <<pc, ended>>
check == <<listed, count, opened>>
held == <<port, device>>
written == <<sent, commands>>
bounds == <<starts, kills>>
file == <<there, config>>
world == <<elevated, present, sampleFile, file>>
vars == <<life, check, held, written, bounds, world, alone>>

\* The keys of config.ini, in the order they are written.
Keys == {"LocalIP", "DataPort", "BaseDirection"}

\* The steps of a start, in order; that of a key is its writing.
Checking == {"snapshot", "counting"}
Passed == {"config", "create"} \cup Keys
            \cup {"address", "socket", "direction", "device", "sample", "serving"}

Endings == {"none", "killed", "already running", "bad config", "port in use",
            "device failed", "null device"}

Alive == {p \in Process : pc[p] # "off"}

\* OpenProcess(PROCESS_TERMINATE) is refused where the other has more rights.
MayOpen(p, q) == p = q \/ elevated[p] \/ ~elevated[q]

Init ==
    /\ pc = [p \in Process |-> "off"]
    /\ ended = [p \in Process |-> "none"]
    /\ listed = [p \in Process |-> {}]
    /\ opened = [p \in Process |-> {}]
    /\ count = [p \in Process |-> 0]
    /\ port = {} /\ device = {}
    /\ sent = [p \in Process |-> 0]
    /\ commands = 0 /\ starts = 0 /\ kills = 0
    /\ elevated \in [Process -> BOOLEAN]
    /\ present \in BOOLEAN /\ sampleFile \in BOOLEAN
    /\ there \in BOOLEAN /\ config \in SUBSET Keys /\ (~there => config = {})
    /\ alone = [p \in Process |-> FALSE]

----------------------------------------------------------------------------
(* The life of a process.                                                    *)

\* A process is started; nothing of its last life is left.
Start(p) ==
    /\ pc[p] = "off"
    /\ starts < MaxStarts
    /\ starts' = starts + 1
    /\ pc' = [pc EXCEPT ![p] = "snapshot"]
    /\ ended' = IF Alive = {} THEN [q \in Process |-> "none"]
                ELSE [ended EXCEPT ![p] = "none"]
    /\ count' = [count EXCEPT ![p] = 0]
    /\ sent' = [sent EXCEPT ![p] = 0]
    /\ alone' = [q \in Process |->
                    IF q = p THEN Alive = {}
                    ELSE alone[q] /\ pc[q] # "snapshot" /\ MayOpen(p, q)]
    /\ UNCHANGED <<listed, opened, held, commands, kills, world>>

\* The end of a process: what it held is released, and an entry of a snapshot
\* that was it names no process any more.
End(p, how) ==
    /\ pc' = [pc EXCEPT ![p] = "off"]
    /\ ended' = [ended EXCEPT ![p] = how]
    /\ listed' = [q \in Process |-> IF q = p THEN {} ELSE listed[q] \ {p}]
    /\ opened' = [q \in Process |-> IF q = p THEN {} ELSE opened[q] \ {p}]
    /\ port' = port \ {p}
    /\ device' = device \ {p}
    /\ UNCHANGED <<count, sent, starts, world, alone>>

Kill(p) ==
    /\ pc[p] # "off"
    /\ kills < MaxKills
    /\ kills' = kills + 1
    /\ End(p, "killed")
    /\ UNCHANGED commands

\* A process gives up, or an exception nobody catches ends it.
Fail(p, how) == End(p, how) /\ UNCHANGED <<commands, kills>>

\* A process goes from one step of the start to the next.
Goes(p, from, to) ==
    /\ pc[p] = from /\ pc' = [pc EXCEPT ![p] = to]
    /\ UNCHANGED <<ended, bounds, world, alone>>

----------------------------------------------------------------------------
(* TinyFileLock::running                                                     *)

Snapshot(p) ==
    /\ Goes(p, "snapshot", "counting")
    /\ listed' = [listed EXCEPT ![p] = Alive]
    /\ UNCHANGED <<count, opened, held, written>>

\* A likely slip: the loop does not go on to the next entry.
TryTheSame(p) ==
    /\ pc[p] = "counting"
    /\ \E q \in listed[p] : count' = [count EXCEPT ![p] = @ + 1]
    /\ UNCHANGED <<life, listed, opened, held, written, bounds, world, alone>>

\* Process32First, Process32Next: an entry is counted if it can be opened.
TryOpen(p) ==
    /\ pc[p] = "counting"
    /\ \E q \in listed[p] :
          /\ listed' = [listed EXCEPT ![p] = @ \ {q}]
          /\ IF MayOpen(p, q)
             THEN /\ count' = [count EXCEPT ![p] = @ + 1]
                  /\ opened' = [opened EXCEPT ![p] = @ \cup {q}]
             ELSE UNCHANGED <<count, opened>>
    /\ UNCHANGED <<life, held, written, bounds, world, alone>>

\* A likely slip: the process counts itself once too often.
TwoAllowed(p) == count[p] <= 2

\* The process itself is counted too.
NotRunning(p) == count[p] <= 1

Passes(p) ==
    /\ listed[p] = {} /\ NotRunning(p)
    /\ Goes(p, "counting", "config")
    /\ UNCHANGED <<check, held, written>>

GivesUp(p) ==
    /\ pc[p] = "counting" /\ listed[p] = {} /\ ~NotRunning(p)
    /\ Fail(p, "already running")

----------------------------------------------------------------------------
(* TinyInstance                                                              *)

\* TinyConfig looks for the file.
FindConfig(p) ==
    /\ Goes(p, "config", IF there THEN "address" ELSE "create")
    /\ UNCHANGED <<check, held, written>>

\* An ofstream is opened on it, which empties a file that came up meanwhile.
CreateConfig(p) ==
    /\ pc[p] = "create" /\ pc' = [pc EXCEPT ![p] = "LocalIP"]
    /\ there' = TRUE /\ config' = {}
    /\ UNCHANGED <<ended, check, held, written, bounds, elevated, present, sampleFile, alone>>

\* A likely slip: the key that came last to the getters is not written.
AfterKeyForgetful(k) == IF k = "LocalIP" THEN "DataPort" ELSE "address"

\* The default values follow key by key, each line flushed.  Whoever is killed
\* here leaves the rest out for good: a file that is there is never completed.
AfterKey(k) ==
    CASE k = "LocalIP"  -> "DataPort"
      [] k = "DataPort" -> "BaseDirection"
      [] OTHER          -> "address"

WriteKey(p) ==
    /\ pc[p] \in Keys
    /\ pc' = [pc EXCEPT ![p] = AfterKey(@)]
    /\ config' = config \cup {pc[p]}
    /\ UNCHANGED <<ended, check, held, written, bounds, elevated, present, sampleFile,
                   there, alone>>

\* A getter throws when its key cannot be read: Get_LocalIP and Get_DataPort
\* before the socket is made, Get_Direction before the first data thread is.
Reads(p, from, keys, to) ==
    \/ keys \subseteq config /\ Goes(p, from, to) /\ UNCHANGED <<check, held, written>>
    \/ ~(keys \subseteq config) /\ pc[p] = from /\ Fail(p, "bad config")

ReadConfig(p) ==
    \/ Reads(p, "address", {"LocalIP", "DataPort"}, "socket")
    \/ Reads(p, "direction", {"BaseDirection"}, "device")

\* The acceptor binds, with reuse of the address: that another process listens
\* there may or may not make it throw.  The serial port, whose failure is only
\* reported, follows; the data threads and the callbacks after the direction.
Listen(p) ==
    \/ /\ Goes(p, "socket", "direction")
       /\ port' = port \cup {p}
       /\ UNCHANGED <<check, device, written>>
    \/ pc[p] = "socket" /\ port # {} /\ Fail(p, "port in use")

\* The files of the device are opened with a share mode of zero.
SharedUse == TRUE
DeviceIsFree == device = {}

\* A device that is missing is reported by a result nobody looks at; one that
\* cannot be opened throws, and the process ends, as its threads run.
OpenDevice(p) ==
    \/ /\ Goes(p, "device", "sample")
       /\ present => DeviceIsFree
       /\ device' = IF present THEN device \cup {p} ELSE device
       /\ UNCHANGED <<check, port, written>>
    \/ pc[p] = "device" /\ present /\ ~DeviceIsFree /\ Fail(p, "device failed")

\* SendSample writes the next packet of the sample; without a device there is
\* no object to write with.
WriteSample(p) ==
    /\ pc[p] = "sample" /\ sampleFile /\ sent[p] < SAMPLES
    /\ \/ /\ p \in device
          /\ sent' = [sent EXCEPT ![p] = @ + 1]
          /\ UNCHANGED <<life, check, held, commands, bounds, world, alone>>
       \/ p \notin device /\ Fail(p, "null device")

\* The upload is over when it is complete, when there is no file, and when a
\* write fails; the server serves in each case.
Run(p) ==
    /\ sent[p] = SAMPLES \/ ~sampleFile \/ p \in device
    /\ Goes(p, "sample", "serving")
    /\ UNCHANGED <<check, held, written>>

----------------------------------------------------------------------------
(* The running server, as far as it meets other starts.                       *)

\* The read thread of a session writes its client's command to the board;
\* without a device that ends the process.
Command(p) ==
    /\ pc[p] = "serving" /\ commands < MaxCommands
    /\ commands' = commands + 1
    /\ \/ p \in device /\ UNCHANGED <<life, check, held, sent, starts, world, alone>>
       \/ p \notin device /\ End(p, "null device")
    /\ UNCHANGED kills

----------------------------------------------------------------------------
Step(p) ==
    \/ Snapshot(p) \/ TryOpen(p) \/ Passes(p) \/ GivesUp(p)
    \/ FindConfig(p) \/ CreateConfig(p) \/ WriteKey(p) \/ ReadConfig(p)
    \/ Listen(p) \/ OpenDevice(p)
    \/ WriteSample(p) \/ Run(p)

Next == \E p \in Process : Start(p) \/ Kill(p) \/ Step(p) \/ Command(p)

\* The main thread of a process runs.
Fairness == \A p \in Process : WF_vars(Step(p))

Spec == Init /\ [][Next]_vars /\ Fairness
----------------------------------------------------------------------------
\* Types; a process never counts more than there are.
TypeOK ==
    /\ pc \in [Process -> {"off"} \cup Checking \cup Passed]
    /\ ended \in [Process -> Endings]
    /\ listed \in [Process -> SUBSET Process] /\ opened \in [Process -> SUBSET Process]
    /\ count \in [Process -> 0..Cardinality(Process)]
    /\ port \subseteq Process /\ device \subseteq Process
    /\ sent \in [Process -> 0..SAMPLES]
    /\ commands \in 0..MaxCommands /\ starts \in 0..MaxStarts /\ kills \in 0..MaxKills
    /\ elevated \in [Process -> BOOLEAN] /\ alone \in [Process -> BOOLEAN]
    /\ present \in BOOLEAN /\ sampleFile \in BOOLEAN
    /\ there \in BOOLEAN /\ config \in SUBSET Keys

\* However the snapshots and the counting of several starters interleave, and
\* whoever is killed and started again in between, two processes that may open
\* each other never both get past the check.
OnlyOnePasses ==
    \A p, q \in Process :
        p # q /\ pc[p] \in Passed /\ pc[q] \in Passed
            => ~(MayOpen(p, q) /\ MayOpen(q, p))

\* Whatever rights the processes have: while one of them uploads the sample
\* over the open device, neither another's sample nor a client's command
\* reaches the board.
Uploads(p) == pc[p] = "sample" /\ p \in device
Writes(p) == sent'[p] > sent[p] \/ (pc[p] = "serving" /\ p \in device /\ commands' > commands)

UploadUndisturbed ==
    [][\A p, q \in Process : p # q /\ Uploads(p) => ~Writes(q)]_vars

\* A process that is started when no other is there comes to serve, whoever is
\* started after it has looked and is able to see it; unless somebody is
\* killed meanwhile, there is a sample and no device to write it to, or it
\* finds a config.ini with a key missing: that of a process killed while it
\* wrote the file is one, for ever.
AloneServes ==
    \A p \in Process :
        pc[p] = "snapshot" /\ alone[p] /\ (present \/ ~sampleFile) /\ (there => config = Keys)
            ~> \/ pc[p] = "serving"
               \/ ~alone[p]
               \/ \E q \in Process : ended[q] = "killed"
==============================================================================
