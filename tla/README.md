# A TLA+ model of NACX_Server

NACX_Server is the server process of a radio direction finder. A PCIe board
streams packets to it; it turns them into frames and sends these to the TCP
clients that are connected; the clients send text commands that configure the
board. This directory holds TLA+ modules that model the server's concurrent
parts, TLC configurations that check them on small instances, and TLAPS proofs
of the properties that matter most for every value of the constants.

Source paths below are relative to `src/NACX_Server` unless they name
`src/XDMA_PCIE`.

## 1. The system

### Components, their state and their operations

| Component | State | Operations | Threads |
|---|---|---|---|
| Packet queue (`ThreadSafeQueue.h`, `dllImport.cpp`) | `data_queue`, its mutex, a condition variable | `push`, `wait_and_pop`, `try_pop`, `clear`, `notify` | a PCIe thread pushes, a data thread pops; one queue for CX packets, one for ZC packets |
| Client sessions (`TcpSocket.cpp`, `TcpSession.cpp`) | `SessionSet` (raw pointers) and its mutex; of each session the socket, `WriteLock`, `isRunning`, `SendState`, its reference count | accept, register, read, write, broadcast (`SendMsg`), destroy | the io thread, a read and a print thread per session, the two data threads, self-check threads |
| Commands (`TcpSession.cpp` from line 177) | the session's `CmdCX`, the global `g_Parameter` (`StructNetData.h`), the board's configuration | parameter set, start and stop of four kinds of gathering, self check, inquiry, reset | read threads, self-check threads |
| CX data thread (`DataThreadCX.cpp`) | the frame being assembled | dispatch on `g_Parameter.DataType`; wide-band, narrow-band, sweep, channel frames; self-check measurements | one |
| ZC data thread (`DataThreadZC.cpp`) | sixteen frames being assembled | four packets make a frame | one |
| PCIe reader (`src/XDMA_PCIE`) | position in the block | read blocks, call back | two |
| Serial port (`SerialPortSession.cpp`) | parser state, `offset`, `needRead`, buffer | one asynchronous read after another | io thread of its own |
| Process start (`main.cpp`, `TinyInstance.cpp`, `TinyFileLock.cpp`, `TinyConfig.cpp`) | none that lasts | count processes, read the configuration, start everything | main |

### How they interact

    board --read--> PCIe thread --push--> queue --wait_and_pop--> data thread
      ^                                                              |
      |                                                   reads g_Parameter,
      |                                                   SendMsg to every session
      |                                                              v
      +---WriteStreamCmd--- read thread / self check <--read--- client socket
                              |                                      ^
                              +--- writes g_Parameter, replies ------+

* Queue: a push that finds the queue full is dropped silently.
* `SessionSet` is the only way a data thread finds a session. It holds raw
  pointers; what keeps a session alive is the `shared_ptr` of its own two
  threads and, for a moment, of the accept handler.
* A session's socket is written by its read thread (replies), by a self check
  (the report) and by both data threads (frames), each under `WriteLock`.
* `g_Parameter` is written by read threads and self checks and read by the data
  threads: the result structures under one mutex per mode, `DataType` and the
  self-check masks under none.

### What is hard

* The destructor of a session may run in any of three threads while a data
  thread walks the set of raw pointers.
* `write_some` may take a part of a frame; several threads write one socket.
* A client that stops reading stops `SendMsg`, which holds `SessionSetMutex`.
* The self check changes the session's command structure, the global mode and
  the board in steps, while a data thread may hold packets of an earlier
  configuration and other commands arrive. It sends its report before it puts
  back what it changed.
* A session's `CmdCX` is assigned field by field and sent by two threads without
  a lock.
* The resolution exists five times: in a session's `CmdCX`, in
  `g_Parameter.Resolution`, in each result structure, in the board, and in each
  packet on its way.
* Frames that are put together from several packets (sweep, channel, wave) meet
  dropped packets.
* The narrow-band stream is cut into packets by counting bytes; a read that
  fails puts the count out of step, and two bytes are all that tells.
* A process may be killed while it writes the file every later start depends on.

`PROJECT.json` lists every hazard at its line.

### What makes each part correct

* Queue: bounded, in order, at most once, no lost wake-up, and what stays in it
  is taken.
* Sessions: no thread uses a destroyed session; a client's byte stream consists
  of whole frames; a broadcast reaches every healthy client; dead sessions go
  away; accepting goes on; a broadcast ends.
* Commands and CX thread: a frame is built for the resolution its header names;
  parser and board agree after every command; a self check ends, reports what it
  measured, and puts the mode back, losing none but a mode named between its
  report and its end; a started gathering yields frames.
* Sweep plan: the steps lie in the band, cover what was asked for, and none is
  superfluous.
* Frames of several packets: nothing is written beyond a frame; a sweep frame
  none of whose packets was lost holds every step of one pass; a channel frame
  never mixes two moments the board counted from the same start.
* Narrow-band receiver: after a receiver command that names a frequency and a
  channel command in full, the header of the channel and the board describe the
  same frequency and bandwidth, and a frame's header the packets measured since.
* Wave data: until a read fails inside a block, every block is a whole packet;
  the frames of a channel are what was taken for its packets, in order, none
  missing, repeated or in another channel's frame.
* Serial port: it stays within its buffer, takes exactly the intact frames of
  the line however reads split it, once its service runs, and prints only a
  frame's own bytes.
* Start: one process gets past the check; nobody disturbs the upload; a process
  that is alone comes to serve, also after a crash of the last one, unless that
  left it a `config.ini` with a key missing.

## 2. The modules

| Module | What it is |
|---|---|
| `LossyFifo` | the abstract queue: order, at most once, drops beyond the limit, nothing left lying |
| `ThreadSafeQueue` | `threadsafe_queue` with its condition variable; refines `LossyFifo` |
| `ThreadSafeQueueProofs` | proofs |
| `TcpSessions` | accept, sessions, broadcast, destruction |
| `TcpSessionsProofs` | proofs |
| `Gathering` | commands, `g_Parameter`, self check, board, CX data thread |
| `GatheringProofs` | proofs |
| `SweepPlan` | the steps of a sweep: `SetFreqCmd` and `SetSweepCXResult` |
| `SweepPlanProofs` | proofs |
| `CXAssembly` | sweep and channel frames put together from several packets; composed with `LossyFifo` |
| `CXAssemblyProofs` | proofs |
| `NBReceiver` | the narrow-band receiver commands, the wave headers, the board |
| `WaveReceiver` | PCIe reader, callback, queue and wave data thread; extends `NBReceiver`, so both run in one behaviour; composed with `LossyFifo` |
| `WaveReceiverProofs` | proofs, of `NBReceiver` too |
| `SerialFrame` | the serial port's reads and frames |
| `SerialFrameProofs` | proofs |
| `ServerStart` | several processes from the check to serving |
| `ServerStartProofs` | proofs |
| `MCThreadSafeQueue`, `MCTcpSessions`, `MCGathering`, `MCSweepPlan`, `MCCXAssembly`, `MCWaveReceiver`, `MCSerialFrame`, `MCServerStart` | what the runs instantiate |

In the component modules, definitions marked "Mutated" or "likely slip" are not
part of the model: each is a wrong form of the operation that follows it, and
putting it in that operation's place makes the property named in `PROJECT.json`
fail. They show that the property depends on the code.

### ThreadSafeQueue

Every member function locks `mut` in its first statement. A critical section
that does not block is one action: `Push`, `TryPop`, `Clear`, `NotifyAll`.
`wait_and_pop` is cut at the wait: `CallWaitAndPop` takes the mutex, `Block`
finds the predicate false and sleeps, a notification or `SpuriousWakeup` brings
the thread back to the test, `Pop` takes the item. `at[c]` says where consumer
`c` is, `value[c]` what it got last. `HasRoom` is the code's `size() >
MAX_BUFFER_DEPTH` test, which lets one item more than the constant in.

### TcpSessions

| Code | Model |
|---|---|
| the handler of `async_accept` | `Accept`, `AddToSet`, `HandlerReturns`; `io` is its program counter |
| `shared_ptr` copies | `refs[s]`: `"io"`, `"read"`, `"print"`; `Release` drops one |
| `~TcpSession` | `life[s] = "dying"`, then `RemoveFromSet(s)` once `SessionSetMutex` is free |
| `StartWork`, `read` | `EnterRead`, `ReadCommand`, `ReadFails`, `CommandThrows`, `CommandDone`, `ReadThreadExits`, `PrintThreadExits` |
| `write` | `BeginWrite` (takes `WriteLock`), `WritePart`, `WriteRest`, `WriteFails` |
| `SendMsg` | `BeginBroadcast`, `VisitSession`, `EndBroadcast` |
| the self-check thread, as far as sessions go | `checking`, `BeginReport`, `LoseReport` |
| clients (external) | `Stall`, `Resume`, `Leave` |

A frame is `FrameLen` units and `write_some` takes any number of them. `wire[s]`
is what an observer of the client's byte stream sees: whose unfinished frame it
ends with and how far that got. `served` records which sessions took the current
broadcast in full. Both are history: no action reads them.

A command is reduced to the number of its replies and to one effect: none,
starting or stopping (`SendState`), or a self check.

A failed accept goes on like a successful one in the code, with a socket that is
not connected; `Accept` covers it with a client that is `"gone"` from the start.

**Left out on purpose.** The self-check thread holds a raw `this`. When the
session is destroyed first, its next access is undefined behaviour; the model
ends that thread there (`LoseReport`) and the lifetime property does not speak
of it. `isRunning` is a plain `bool` shared by three threads; it is modelled as
a variable whose changes are seen.

### Gathering

A handler is the sequence of its steps on shared state: sending `CmdCX` to the
board, one setter of `g_Parameter`, one assignment of `DataType`. `steps[t]` is
what thread `t` has still to do, so the steps of read threads, self checks and
the data thread interleave in every way. `SetCmdNBData` and its siblings are
those sequences, in the order of the code; `SelfCheck` is the sequence of the
detached thread.

A `send` step names fields of `CmdCX`. Each is assigned by a step of its own
(`AssignField`, `assigned[t]`), in any order, and then `SendCXCmd` gives the
board the `CmdCX` of the session as it is at that moment. So a self check that
puts back what it changed and the read thread of the same session may each
overwrite the other's fields, and send them. The fields of `Restore` are read
from `g_Parameter` when they are assigned. A write to the board is one step.

`FreqResolution[m]` is the field of that name in the result structure of mode
`m`. A resolution is the number 10 to 13 of the protocol rather than the kHz
value it stands for; `Unset` is the 0 of a structure nobody set. `CenterFreq`
keeps only whether the frequency a self check restores is its own, another one,
or `"garbage"`, because a sweep stores kHz where Hz are expected.

The data thread takes a packet and the mode (`Take`), tests the packet under the
mode's mutex (`Matches`, then `Discard` or `BuildFrame`) and holds the mutex
until the frame is sent (`SendMsgReturns`). A setter of that mode waits
meanwhile (`MutexFree`).

The board is external. It sends packets of the configuration it got last:
direction data in state 0 and 1, channel data in 2 and 3; `WorkMode` is 0 in a
self check, and may be 0 while a test calibrates. `config.round` is history that
tells which self check asked for a packet; only `SelfTestInner` and
`SelfTestOuter` carry it on.

`Polite` restricts the clients to what they can observe: one request at a time,
and none before every self check has sent its report. A self check goes on after
its report (`TcpSession.cpp:406-415`), so a polite client's next command may
meet that part. `hurried` is history and counts the commands from the first on
that came before the one before it, or a self check, was over;
`ParserFollowsBoard` and `WBGatheringDelivers` speak of behaviours in which it
is 0, and `SelfCheckKeepsMode` says what may be lost in the others. `found` is
history too: the mode when the last self check was started. `Faults` lets a
command be abandoned by an exception.

Left out: gains, smoothing, amplitude limits, the text of replies; the two
receiver commands (see `NBReceiver`); what a sweep or a channel frame is put
together from (see `CXAssembly`). An exception in the self-check thread ends the
process and is not modelled. Two self checks of one session at a time are not
modelled.

### SweepPlan

The first `for` of `SetFreqCmd` is `RaiseStart` until `StartFound`, the second
`LowerStop` until `StopFound`; `SetSweepCXResult` is the pair of clamps and the
count of steps of the setter of that name. The band, the band width and the
frequencies a client may name are constants. Nothing else runs in between that
touches these variables, so this is a sequential program and its properties are
about the finished plan. The truncation to kHz on the way to the board is left
out, and so is `CXResultPoint`, a multiple of `TimeNum`.

### CXAssembly

| Code | Model |
|---|---|
| `DataCX`, `push`, `wait_and_pop` | `Transmit`, `TakePacket` over `Queue`, an instance of `LossyFifo`, which `ThreadSafeQueue` implements |
| the switch of `GetQueueDataFun`, its tests, the mutex | `deal` (the mode read before the mutex is taken), `GetQueueDataFun` |
| `ToSweepCXdata`, its static `res` | `ToSweepCXdata`, `sweepRes` |
| `ToChdata`, its statics `res` and `last_PackNum` | `ToChdata`, `chRes`, `last_PackNum` |
| sweep, test and parameter commands of one client | `Receive`, then `SendCXCmd` and `SetParser` step by step (`steps`) |
| the board (external) | `NextPacket`, `Round`, `Advance` |

A frame records what fixes its length instead of the length. The code compares
lengths (`res->length != DataLen`); the length of a sweep frame tells any two
pairs of a step count up to 16 and a resolution apart, that of a channel frame
any two resolutions, so `Fits` compares those. `slot` holds the packet each step
or channel was filled from.

The board starts from its first step or channel when it is configured and then
goes round; a pass of a sweep and a moment of a test have a `stamp`. A packet's
`l_PackNum` is the remainder of its distance from the moment the board counts
`from`. `StructData.h:24` says that an order clears the total count; of the
local one (line 25) it does not say so, so a new configuration may or may not
move `from`, and two moments can have the same number. `cut` on a packet says
that the one before it was dropped or belongs to an earlier configuration; a
frame collects that, and whether parameters changed under it (`steady`). A
packet also carries the `plan` its board was configured with. All these are
history for the properties and the proofs; of `stamp` and `from` the code reads
only the remainder.

`GridAssumption` says of the plans a client can ask for that those of more than
one step start a whole number of band widths apart. The code plans no others
(`TcpSession.cpp:731-738`); `PlansLieOnGrid` of `SweepPlanProofs` is the theorem
that says so of `SweepPlan`. Without it a step of an old plan could be rounded
to a place of the new one.

An element of the queue is one packet; in the code it is an array of packets,
which `DataDealCX` takes one after the other. Its `Head` test is left out.

The part of a frame a dropped packet should have filled is not modelled as
content: it is a missing `slot`. That such frames are sent is in the hazard
list; no property claims they are whole.

### NBReceiver

A command is cut where it touches what is shared: `SetCmdNBReceiver` stores the
centre and `SendRF` writes to the board; `SetCmdNBChannel` takes the bank,
`SetFreq` and `SetBandWidth` each fill a field of `CmdZC` and of the header
`NBWaveZCResult`, and `SendNB` writes. `CommandThrows` ends the session between
any two of them. `CmdChannel`, `CmdDDS`, `CmdCIC` and `RfData` are the two
halves of the union. A receiver command that names a frequency (`SetRF`) leaves
`RfType`, 1, as the channel and the other two `Undefined`, as does an offset
that does not fit the oscillator word; a channel command that stores a field
leaves `RfData` undefined (`Overlay`). A receiver command without a frequency
(`Absent`) stores nothing and is sent all the same, so the board gets what the
session's last command has left there while `NbCenterFreqRF` stays.

The parameters of a command come in the order bank, frequency, bandwidth; the
code takes them in the order the client names them, and one named before the
bank goes to the channel of the last command. Which commands do, and what such a
command does to a header, is not modelled.

`overlapped`, `tuned` and `settled` are history: they tell which channels were
commanded in full, by commands that met no other and reached the board.

### WaveReceiver

| Code | Model |
|---|---|
| `read_from_engine`, bytes of the stream | `Read`, one unit of a packet at a time; several are a longer read |
| its exception, caught outside the block | `ReadFails` |
| a full block, `CallBack`, `DataZC`, `push` | `CallBack` over `Queue`, an instance of `LossyFifo` |
| `wait_and_pop`, the test of `Head` | `DataDealZC`, `HasHead` |
| `ToWaveData`, its statics | `ToWaveData`, `PackIndexAll`, `resAll` |
| `NBZCDataReplay` | `frame`, the frame broadcast last |
| the board (external) | `NextPacket`: a packet of any channel, or of a number no channel has, with the settings of its first unit |

A packet is `PACK_LEN` units. The first holds the head and the channel, and
every other may look like a head: the code tells the two apart by two bytes of
what may be samples. A block that begins with such a unit passes for a packet of
whatever channel its bytes name (`Pieces`). `broken`, `dropped`, `since`, `got`
and `sent` are history for the properties; `since` is how many packets each
channel had begun when it settled last. The driver is the Windows one, whose
failed reads throw. `ThreadProcDataCX` is the same text on the other stream.

### SerialFrame

`state`, `needRead`, `offset` and `buffer` are the code's. `StartAsyncRead` is
the code's function without its last line, one operator per state; `Complete(k)`
is the handler of a read that brought `k` bytes, `CompleteWithError` of one that
failed. An empty read, which the code starts after a length of zero and after
every checksum, completes with `k = 0`. Whatever the line brings is a sequence
chosen at the start (`Streams`). `DataProcess` tests `buffer[4]`, which is the
length: 0x12 is the eighteen bytes of nine values.

No code of this commit calls `RunService`; the port is a member of
`TinyInstance` and opened at its construction. The model is of the class:
`RunService` may be called once, and nothing says that it is. `EveryFrameTaken`
begins where it was.

`FramesOf` says without reads and states which frames a stream holds for a
reader that hunts as this one does. A byte that breaks a header is swallowed
even if it could begin the next one; that is part of the definition, not hidden.

### ServerStart

Several processes with what they meet in: the process list, the port, the
device, the board. `pc` follows a process through `main` and the constructor of
`TinyInstance`; every step of the check, one entry of the snapshot at a time
included, interleaves with the other processes. `Kill` may come between any two
steps of the model; `End` releases what the process held. `elevated` decides
whom `OpenProcess` may open. `present` and `sampleFile` are what the machine
has.

`there` and `config` are the file `config.ini` and the keys that can be read
from it. The constructor of `TinyConfig` looks for it (`FindConfig`), opens an
`ofstream` on it if it is not there (`CreateConfig`) and writes the default of
one key after the other (`WriteKey`), each line flushed by its `endl`. A process
that is killed in between leaves a file without the keys that were to follow,
and no later start completes it. `LocalIP` and `DataPort` are read before the
socket is made, `BaseDirection` after the serial port (`ReadConfig`); a missing
key throws. At the start of a behaviour the file may be missing, or there with
any of its keys. The values of the keys, and a directory that cannot be written,
are left out.

A device that is there can be opened if no process has it open, because the
files are opened with a share mode of zero; that the driver honours this is
assumed. `opened` and `alone` are history. The callbacks are registered before
the device is opened, by the same thread, so the readers never find them
missing. `Run` never returns, so `join`, the destructors and `CloseDevice` are
not reached and not modelled.

## 3. The runs

| Run | Instance | Shows |
|---|---|---|
| `queue` | 2 consumers, 3 items, depth 2 | `NoLostWakeup`, refinement of `LossyFifo` with its depth and its liveness |
| `sessions` | 2 sessions, 2 broadcasters, frames of 3 units, commands with two replies, self checks; symmetry | `NoUseAfterDestroy`, `FramesWhole`, `BroadcastReachesAll` |
| `sessions_live` | 2 sessions, 1 broadcaster, frames of 1 unit, a command with a reply, fairness | `GoneSessionIsDestroyed`, `AcceptResumes`, `BroadcastEnds` |
| `gathering_any` | impolite client, exceptions | `FrameMatchesHeader` |
| `gathering_careful` | a client that waits for answers and reports, sweep and test gatherings, parameters, 2 self checks, 2 channels, up to a hurried command | `ParserFollowsBoard`, `SelfCheckKeepsMode`, `ReportIsFresh` |
| `gathering_live` | polite client, wide-band and narrow-band gatherings, fairness | `CommandEnds`, `SelfCheckEnds`, `WBGatheringDelivers` |
| `gathering_reconnect` | two clients one after the other | the finding: `WBGatheringDelivers` fails |
| `sweep_plan` | the code's band in units of 5 MHz, 29 frequencies in and beside it | `StepsInBand`, `RangeCovered`, `NoStepWasted` |
| `cx_frames` | 3 commands, plans of three and of one step, 2 resolutions, 3 channels, queue depth 1 | `FrameFits`, `SweepFrameIsOnePass`, `ChannelFrameIsOneMoment`, `ChannelFrameIsComplete` |
| `wave` | 2 clients, 2 channels, packets of 2 units, frames of 2 packets, up to 3 commands and 3 packets, 4 together, 1 failed read, queue depth 1 | `WholeUntilBroken`, `FramesAreTheStream`, `InOrder`, `SettledChannelAgrees`, `HeaderDescribesPackets` |
| `serial` | up to three pieces, each intact, damaged, of a forbidden length or noise; data of at most 5 bytes, buffer of 11 | `ReadsStayInBuffer`, `FramesWereSent`, `FieldsAreOwn`, `EveryFrameTaken` |
| `start` | 2 processes, 4 starts, 2 kills, a `config.ini` with any of its keys or none, a sample of 2 packets, 1 command | `OnlyOnePasses`, `UploadUndisturbed`, `AloneServes` |

### Bounds

* Queue depth 2 gives the empty, the partly filled, the full and the overrun
  queue; the code's 10000 differs only in the number of states between. Two
  consumers make the choice of `notify_one` matter; the code has one per queue.
* Two sessions let one fail while the other is served, one be accepted while the
  other is destroyed. Two broadcasters are what the code has. A frame of 2 units
  is the shortest that can be torn; with 3 (`sessions`) a part may follow a
  part. Addresses are not reused: `Session` is a set of objects.
* `sessions_live` has two sessions so that a broadcast can be blocked on one
  client while the accept handler waits to add the other, or a destructor to
  remove it. A second broadcaster would add one more thread that waits for the
  same mutex, and a second unit one more step of a write; `sessions` has both.
  The commands are one with a reply: those that start, stop and check change
  nothing that a broadcast or a destruction waits for.
* One self check at a time per session (`checking`), at most `MaxRound` in all;
  two tell a stale result from a fresh one. `MaxHurried` stops a polite client
  after as many commands from the first hurried one on; 1 lets a command meet the
  end of a self check, or of the one before it, at any step. What more of them do
  to the mode is proved (`ModeRestored`).
* Two resolutions tell a match from a mismatch. One packet queued
  (`MaxQueue = 1`) and one in the data thread's hands: with two, a stale packet
  is behind another.
* The sweep's band is the code's own, 16 centres. In units of 5 MHz a frequency
  may be a centre, an edge between two steps, or between an edge and a centre;
  the clusters of `Asked` lie at both ends of the band, inside and outside, and
  in its middle.
* `cx_frames`: depth 1 holds two packets, with one more in the data thread's
  hands, so packets of three configurations can be on their way at once. Three
  commands are a change, a change back and one between. Three steps or channels
  have a first, a middle and a last; the code's four channels and sixteen steps
  differ in the number of middle ones. A plan of three steps, one of two
  that begins at its second, and a single frequency between two centres meet in
  places that are the same, shifted, or none.
  `MaxStamp < Wrap` keeps the count of moments from coming round within a
  behaviour; the code's count comes round after 32.
* `wave`: a block of 2 units is the shortest a failed read can cut; depth 1
  holds two blocks and drops the next. Three packets fill a frame of one channel
  and begin another, or leave two begun; a packet of no channel may be among
  them. Three commands of two clients settle a channel and let a third come
  before, between, after or overlapping: another tuning, one without a
  frequency, one that fails, another channel. `MaxEvents` bounds commands and
  packets together, so that a frame of two packets meets two commands, or three
  commands one packet. What longer behaviours do is proved.
* `serial`: the pieces hold frames of no data, of a report (3 bytes there), of
  the longest data and of one byte more, a wrong checksum, and headers that
  break off at each of their bytes. The code's 80 and 90 leave four bytes spare;
  here the buffer is exactly as long as the longest frame, the tightest case.
* `start`: with two kills and four starts a process can be killed and started
  again while the other is at any step, and the other too: twice in the writing
  of `config.ini`, or once there and once past it.
* `CHECK_DEADLOCK FALSE` in five runs. In `gathering_any` the session may have
  ended by an exception with nothing configured, and the model has no new one;
  in `cx_frames`, `wave` and `start` the bounds stop clients, board and
  processes; in `serial` the line falls silent, or the port could not be opened.
  Everywhere else a deadlock would be an error, and there is none.

### Fairness, and why the code justifies it

* Weak fairness on a thread's own steps: the operating system schedules every
  thread.
* Strong fairness on taking a mutex (`AddToSet` and the destructors'
  `RemoveFromSet` together, as waiters for one mutex; `VisitSession` of each
  broadcaster, `BeginReply` of each session, the setters), and on the end of a
  write to each socket (`WriteRest` or `WriteFails`): the first assumes that
  `std::mutex` does not starve a waiter for ever. The standard does not promise
  it; the platforms' implementations come close, and without it a data thread
  that broadcasts without pause may keep the accept handler out. The second
  assumes of a client that stalls and reads again and again that it takes the
  rest of a frame in the end, or that its connection breaks.
* `WF(Resume \/ Leave)`: a client that stalls reads again or its connection
  breaks. This is an assumption about clients and TCP; no timeout in the code
  enforces it. Without it a stalled client holds `SessionSetMutex`, both data
  threads and the accept handler for ever.
* The busy waits of the self check re-read their variable, and the board, once
  configured, keeps sending every kind of packet it has.
* `SerialFrame`: once `RunService` was called, a read completes as long as bytes
  arrive (`WF` on `Complete`). That it is called is not assumed, and the code
  does not do it. A line that only fails is outside `EveryFrameTaken`; failed
  reads before and between are inside.
* `ServerStart`: the main thread of a living process runs. Nothing is assumed
  about starts, kills, commands and reads.
* Nothing is assumed about clients sending, stalling or leaving, about a data
  thread broadcasting, about exceptions or spurious wake-ups.

## 4. What is proved

For every value of the constants, under the ASSUMEs named in the modules.

* `ThreadSafeQueueProofs`: `TypeCorrect`, `DepthBounded`, `NoWakeupIsLost`,
  `QueueRefinesFifo` (the safety part of the refinement). The invariants are
  inductive with the type invariant alone. `NoLostWakeup` holds because the one
  step that fills an empty queue also moves a waiting consumer to the test, and
  a consumer goes to sleep only when the queue is empty. `QueueRefinesFifo`
  needs no invariant: each action is a FIFO action or shows nothing. The depth
  bound assumes `MAX_BUFFER_DEPTH \in Nat`, the wake-up property a non-empty set
  of consumers.
* `TcpSessionsProofs`: `TypeCorrect`, `NoSessionUsedAfterDestroy`,
  `FramesStayWhole`, all from one inductive invariant `IInv`. The two safety
  properties are not inductive alone: that a broadcaster writes to a live
  session rests on `BroadcastersHold` (it holds `SessionSetMutex` and its target
  is still in the set, so the destructor waits), that a read thread does rests
  on `OwnersHold` (it owns a reference, and a session with a reference is live),
  and that frames stay whole on `LocksAgree` (a write under way and the
  `WriteLock` name each other). `Release` is the step that needs `OwnersHold`,
  `RemoveFromSet` the one that needs `BroadcastersHold`. `BroadcastReaches` adds
  that a broadcaster has served, or lost the client of, every session of the set
  it has gone past (`Reached`); the set stands still meanwhile, because the
  broadcaster holds its mutex.
  `NoWaitInCircle` says who waits for whom (`WaitsFor`): a chain of waiting
  threads has two links at most, and the last of them is in a `write()`, where
  it waits for its client. A thread in a `write()` waits for no lock, because a
  broadcaster there already has `SessionSetMutex` and a session whose read
  thread is there is not being destroyed. It is what remains of `BroadcastEnds`
  when no fairness is assumed.

* `GatheringProofs`: `TypeCorrect`, `HeadersMatch`, `ModeRestored`,
  `ReportsAreFresh`, `ParserFollows`. The types and the mutex of the packet's
  mode are enough for `HeadersMatch`: `Matches` was true when the frame was
  begun, and a setter of that mode waits until it is sent. It needs neither
  polite clients nor the absence of exceptions. `ModeRestored`
  (`SelfCheckKeepsMode`) is for one session whose client waits for what it can
  see, and without exceptions. Its invariant `WindowInv` follows the commands
  round a self check: before the report the read thread has nothing to do, and
  the check is on its way to save, set and put back the mode; from the report
  on, commands may come, so the mode named last is in `DataType`, or is still to
  be assigned by the read thread, or will be overwritten, or was, by the check
  with the mode it found, and then a command was hurried. A self check with ten
  steps left or more has not saved the mode, with fewer it has. The other two
  are about behaviours in which no command was hurried. There `TurnInv` says
  that at most one thread is at work (`OneAtATime`), on a rest of a handler or
  of `SelfCheck`. `ParserFollows` is for one session whose parameters are
  accepted, without exceptions. `ParserInv` says that where the board or a
  result structure differs from the resolution last asked for, the steps left
  contain the send or the setter that makes it equal, or a self check is under
  way; and, while the fields of a send are assigned one by one, which of them
  have been (`Halfway`). That both restrictions are needed is shown by the run
  `gathering_reconnect` for a second session, and by the hazard of the refused
  parameter (`TcpSession.cpp:453`) for the other. `ReportsAreFresh` is
  `ReportIsFresh` without exceptions, for any number of sessions. `FreshInv`
  numbers the thirteen steps of a self check by how many are left and gives each
  a `Phase`: what `CmdCX` holds, with the fields assigned so far, what the board
  was told (`BoardAsks`), which packets may still be queued or in the data
  thread's hands (`PacketsAre`), and what the masks and the results hold
  (`ResultsAre`). The two busy waits are where it bites. When a mask is emptied,
  every packet in flight that can fill it is of this self check's round, so a
  full mask says that every channel's result is. That a packet of the inner kind
  was dealt with says in addition, the queue being first in first out, that
  nothing sent before it is left, which is what the phases of the outer kind
  begin with.

* `SweepPlanProofs`: `TypeCorrect`, `StepsLieInBand`, `RangeIsCovered`,
  `NoStepIsWasted`, `PlansLieOnGrid`, for every band that is a whole number of
  band widths. `IInv` holds the loop invariants: each centre is on the grid, and
  it was moved only because the step before did not reach the range; after a
  loop, its exit condition. That the two loops do not pass each other
  (`PlanOnGrid`) follows from `StartFreq < StopFreq`; the step that covers a
  frequency is the quotient of its distance from the lower edge of the first, or
  the last step. A plan of more than one step starts on the grid because a
  single frequency, the one start that is not moved to it, is planned with one
  step at most.

* `CXAssemblyProofs`: `TypeCorrect`, `WritesFit`, `MomentsAreNotMixed`,
  `ChannelFramesComplete`, `SweepFramesAreOnePass`. The invariant `IInv` says of
  each frame that every filled slot is in range and holds a packet of the
  frame's resolution (`FrameOK`), and of the channel frame that the stamp of all
  its packets is `last_PackNum`.
  Setters leave frames alone and so keep it although they change the sizes;
  `Fits` is what keeps the next packet from using the new sizes on the old
  frame. `MaxStamp < Wrap` makes equal remainders equal moments.
  For `ChannelFramesComplete` a second invariant, `CInv`, follows the packets
  from the board to the data thread: each is marked `cut` or is the successor of
  the one before (`Chain`), and a channel frame nothing came between has its
  first k channels while the k+1st is the next packet to be dealt with
  (`Tracks`). Then no packet of it can be refused, and the last channel finds
  all the others there.
  For `SweepFramesAreOnePass` a third invariant, `SInv`, follows the steps of a
  sweep along the same chain (`SweepSucc`): a sweep frame nothing came between,
  whose parameters stood, is filled with the first k steps of one pass, and the
  next packet the data thread sees is step k of that pass (`SweepTracks`). The
  arithmetic is in `Aligned` and `PackIndexOf`: by `GridAssumption` the rounded
  distance of a step to the start of the parser's plan is the exact one, so a
  packet of another plan, or of another place, fails the tests of
  `ToSweepCXdata` instead of filling a place that is not its own.

* `WaveReceiverProofs`: `WaveInvariant`, `WaveTypeCorrect`, `HeadersAgree`,
  `BlocksAreWhole`, `FramesExact`, `FreshInvariant`, `FrameHeaders`,
  `PacketsInOrder`. For `HeadersAgree` the invariant follows a command from its
  first field to its send: what `CmdZC` holds and what the header of its channel
  holds describe each other as long as nothing overlapped it, and the centre is
  the receiver's frequency once one was named and sent alone. A command without
  a frequency leaves nothing settled, so that no channel counts as described
  while the board has what the union held. The rest is arithmetic: the kHz the
  centre lost is all that header and board differ by. The wave data changes none
  of these variables. For the blocks the invariant says that a block is a run of
  consecutive units of the stream that ends with the unit read last, and that
  until a read fails inside one, every block begins with the first unit of a
  packet, whatever other units look like. `FreshInvariant` is what
  `FrameHeaders` needs of the packets on their way: those a settled channel has
  measured since it settled have the settings the board has now, wherever they
  are between the line and the frame. `FramesExact` is inductive with the types.
  For `PacketsInOrder` (`OrderInv`) the packets taken, in hand, queued and being
  read are in the order of measurement, what is further along being older; and
  as long as nothing is lost, every packet of a channel that was begun and not
  taken is among those.

* `SerialFrameProofs`: `SerialInvariant`, `SerialTypeCorrect`, `ReadsBounded`,
  `FramesAuthentic`, `FieldsAuthentic`, for every set of streams, every buffer
  that holds the longest frame, and every split of the reads. The invariant
  `IInv` says that the front of the buffer, up to `offset`, is the piece of the
  input that was read last, that it begins with as much of the header as the
  state has seen, and how far `offset + needRead` may be in each state.

* `ServerStartProofs`: `StartInvariant`, `StartTypeCorrect`, `CheckExcludes`,
  `UploadsExclude`, for any finite set of processes.
  `OnlyOnePasses` rests on what each of two processes has counted or will: the
  later of the two snapshots holds the other process, which is still to be tried
  or was opened, and `count` is the number of those opened at least.

Every invariant and every safety property that a passing run checks is the
conclusion of one of these theorems. Only model-checked are the temporal
properties: `FifoSpec` with its fairness (its safety part is
`QueueRefinesFifo`), `GoneSessionIsDestroyed`, `AcceptResumes`, `BroadcastEnds`,
`CommandEnds`, `SelfCheckEnds`, `WBGatheringDelivers`, `EveryFrameTaken` and
`AloneServes`. Fairness and ENABLED, and with them all liveness, are beyond the
prover.

## 5. Findings

* The board gets a new session's default resolution while the parser keeps the
  one an earlier client set, so a wide-band gathering after a reconnect yields
  nothing until a parameter set (`gathering_reconnect`).

Observed while modelling, without a run of their own:

* `SendState` is written and never read, so a client that stops a gathering
  keeps getting frames although the server reports `State: Stopped`
  (`TcpSession.cpp:238`).
* Nothing ever sets `NarrowCXResult`, so every packet of a narrow-band gathering
  is discarded (`DataThreadCX.cpp:335`, `StructNetData.h:350`).
* A single frequency outside the band is clamped at one end only, so its sweep
  is planned with no step (`TcpSession.cpp:740`).
* Two servers started together may both count two and both give up
  (`TinyFileLock.cpp:33`).
* A server that is killed while it writes the default `config.ini`
  (`TinyConfig.cpp:20-27`) leaves a file that every later start finds, does not
  complete, and throws on.
* A client that names a mode as soon as it has the report of its self check may
  lose it: the check assigns `DataType` after it has reported
  (`TcpSession.cpp:403` and `:415`). The board, too, may be left in the check's
  or the gathering's state, or with fields of both.
* A receiver command without `Freq` sends the board what an earlier command left
  in the union, as its frequency, while `NbCenterFreqRF` stays, and with it the
  offsets and headers of every channel command that follows
  (`TcpSession.cpp:860`).
* If the board clears its local count when it is configured, a channel frame
  whose first channel was dropped may be filled up with packets of the moment
  that has the same number (`DataThreadCX.cpp:255`).
* The configuration's `DataPort` is read and not used: the acceptor binds 5021
  (`TcpSocket.cpp:38`).

## 6. Not modelled, and why

* The layouts of frames, `timeConvert`, amplitude, direction and the scaling of
  a report are formatting: no property is about them.
* Of the driver bindings, registers, paths and the Unix variant: device input
  and output. The Unix binding reports a failed read as -1, which
  `ThreadProcDataZC` would take for a huge size; the project builds the Windows
  one.
* The statistics thread prints counters two other threads add to, without a
  lock: nothing else reads them.
* The text, order and number of the parameters of a command, gains and limits.
* The data race on plain variables (`isRunning`, `DataType`, the self-check
  masks): each is modelled as a variable whose changes are seen.

## 7. Plan

Done: every component that has control of its own, and a theorem for every
safety property that is checked. Still to do, in order of importance:

1. Who waits for whom in `Gathering`, where the mutexes of the modes meet the
   busy waits of the self check, as `NoWaitInCircle` says of `TcpSessions`.
2. What a liveness proof would rest on: that the number of steps left to a
   command or a self check falls with each (`Gathering`).
3. The plan of `SweepPlan` as the plan `CXAssembly` is sent, in one behaviour.
   `PlansLieOnGrid` and `GridAssumption` now meet on paper.

Where a new run asks the same question of another instance of a module, it is
merged with the run that is there, so that the list stays one of questions.
