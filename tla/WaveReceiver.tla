----------------------------- MODULE WaveReceiver -----------------------------
(***************************************************************************)
(* The way of a narrow-band sample from the board to the clients: the      *)
(* reader thread ThreadProcDataZC (XDMA_PCIE/stream_public.hpp), the       *)
(* callback DataZC and its queue (dllImport.cpp), and the data thread      *)
(* DataDealZC (NACX_Server/DataThreadZC.cpp), beside the receiver commands *)
(* of NBReceiver.                                                          *)
(*                                                                         *)
(* The board's byte stream has no framing but the packets' constant size:  *)
(* the reader cuts it into blocks of PACK_LEN by counting, and the only    *)
(* test of a block is the two bytes at its front.  A packet is PACK_LEN    *)
(* units here and a read takes any number of them; the first unit holds    *)
(* the head and the channel, and any other may happen to hold the two      *)
(* bytes of a head.  ThreadProcDataCX is the same on another channel.      *)
(*                                                                         *)
(* Driver and board are external: packets of any channel, a number outside *)
(* 0..15 included, each measured with the settings the board has when its  *)
(* first unit is read.                                                     *)
(***************************************************************************)
EXTENDS NBReceiver, Sequences, Functions

CONSTANTS
  PACK_LEN,          (* units in a packet                              *)
  PACKS,             (* packets in a wave frame, 4 in the code         *)
  MAX_BUFFER_DEPTH,  (* of the queue tsqueueZCs                        *)
  MaxPackets,        (* bound on the packets of all channels           *)
  MaxFailures,       (* bound on the failed reads                      *)
  MaxEvents          (* bound on commands and packets together         *)

ASSUME WaveAssumption ==
  /\ PACK_LEN \in Nat \ {0}
  /\ PACKS \in Nat \ {0}
  /\ MAX_BUFFER_DEPTH \in Nat
  /\ MaxPackets \in Nat
  /\ MaxFailures \in Nat
  /\ MaxEvents \in Nat

NoChannel == 16              (* stands for every ChannelNo outside 0..15 *)
Source == Channel \cup {NoChannel}

(* A packet with its number among those of its channel (the PackNum of the board *)
(* counts all channels; the server looks at neither) and the settings it was     *)
(* measured with.                                                                *)
Packet ==
  [ChannelNo : Source, number : Nat, rf : Int, dds : Int, cic : Int]

(* A part of a packet; head says that it begins with the bytes 0xA1FA. *)
Unit == [packet : Packet, part : 1..PACK_LEN, head : BOOLEAN]

(* What a block holds that passes for a packet and is pieces of two: its channel *)
(* and its samples are payload.                                                  *)
Pieces(ch) ==
  [ChannelNo |-> ch, number |-> 0, rf |-> Undefined, dds |-> Undefined, cic |-> Undefined]
NoPacket == <<>>

VARIABLES
  onWire,        (* the unit read last, <<>> before the first              *)
  measured,      (* the packets each channel has begun                     *)
  block,         (* what the reader has of the current block               *)
  failures,      (* reads that failed                                      *)
  tsqueueZCs,    (* the queue                                              *)
  recvData,      (* the block DataDealZC popped last                       *)
  PackIndexAll,  (* per channel the packets its frame has                  *)
  resAll,        (* per channel the frame: PACKS places, NoPacket if empty *)
  frame,         (* the frame broadcast last, <<>> before the first        *)
  broken,        (* history: a read failed inside a block                  *)
  dropped,       (* history: the queue dropped a block                     *)
  since,         (* history: the packets each channel had begun when it    *)
                 (* settled last                                           *)
  got,           (* history: per channel the packets ToWaveData took       *)
  sent           (* history: per channel the packets of its frames         *)

readVars == <<onWire, measured, block, failures>>
dealVars == <<PackIndexAll, resAll, frame, got, sent>>
waveVars == <<readVars, tsqueueZCs, recvData, dealVars, broken, dropped>>
vars == <<nbVars, waveVars, since>>

(* What threadsafe_queue promises (ThreadSafeQueue is shown to implement it). *)
Queue == INSTANCE LossyFifo WITH
           Receiver <- {"DataDealZC"}, Item <- Seq(Unit), Depth <- MAX_BUFFER_DEPTH,
           fifo <- tsqueueZCs, taken <- recvData

EmptyFrame == [i \in 1..PACKS |-> NoPacket]

Init ==
  /\ NBInit
  /\ Queue!Init
  /\ onWire = <<>>
  /\ measured = [ch \in Source |-> 0]
  /\ block = <<>>
  /\ failures = 0
  /\ PackIndexAll = [ch \in Channel |-> 0]
  /\ resAll = [ch \in Channel |-> EmptyFrame]
  /\ frame = <<>>
  /\ broken = FALSE
  /\ dropped = FALSE
  /\ since = [ch \in Channel |-> 0]
  /\ got = [ch \in Channel |-> <<>>]
  /\ sent = [ch \in Channel |-> <<>>]

------------------------------------------------------------------------------
(* The reader thread *)

MidPacket == onWire # <<>> /\ onWire[1].part < PACK_LEN

NextPacket(ch) ==
  [ChannelNo |-> ch, number |-> measured[ch] + 1, rf |-> boardRF,
   dds |-> IF ch \in Channel THEN boardDDS[ch] ELSE Undefined,
   cic |-> IF ch \in Channel THEN boardCIC[ch] ELSE Undefined]

(* read_from_engine delivers one more unit of the stream.  Only of a unit that   *)
(* comes first in a block does it matter whether it looks like a head.           *)
Read ==
  /\ Len(block) < PACK_LEN
  /\ \/ /\ MidPacket
        /\ \E head \in BOOLEAN :
             /\ head => block = <<>>
             /\ onWire' = <<[packet |-> onWire[1].packet, part |-> onWire[1].part + 1,
                             head |-> head]>>
        /\ UNCHANGED measured
     \/ /\ ~MidPacket
        /\ SumFunction(measured) < MaxPackets
        /\ \E ch \in Source :
             /\ onWire' = <<[packet |-> NextPacket(ch), part |-> 1, head |-> TRUE]>>
             /\ measured' = [measured EXCEPT ![ch] = @ + 1]
  /\ block' = Append(block, onWire'[1])
  /\ UNCHANGED <<failures, tsqueueZCs, recvData, dealVars, broken, dropped>>

(* read_from_engine throws: the block goes with all it holds, and the next one   *)
(* starts at whatever the stream continues with.                                 *)
ReadFails ==
  /\ Len(block) < PACK_LEN
  /\ failures < MaxFailures
  /\ failures' = failures + 1
  /\ block' = <<>>
  /\ broken' = (broken \/ block # <<>>)
  /\ UNCHANGED <<onWire, measured, tsqueueZCs, recvData, dealVars, dropped>>

(* Mutated forms, used only to test the properties. *)
KeepBlock == UNCHANGED block
AnyRead == block # <<>>

IsFull == Len(block) = PACK_LEN
NewBlock == block' = <<>>

(* The callback DataZC pushes a full block; a queue that is full drops it. *)
CallBack ==
  /\ IsFull
  /\ \/ Queue!Send(block) /\ UNCHANGED dropped
     \/ /\ Len(tsqueueZCs) > MAX_BUFFER_DEPTH
        /\ dropped' = TRUE
        /\ UNCHANGED <<tsqueueZCs, recvData>>
  /\ NewBlock
  /\ UNCHANGED <<onWire, measured, failures, dealVars, broken>>

------------------------------------------------------------------------------
(* The data thread *)

(* Mutated forms, used only to test the properties. *)
NotReset(ch) == PackIndexAll' = [PackIndexAll EXCEPT ![ch] = @ + 1]
SharedIndex(ch) ==
  PackIndexAll' = [c \in Channel |-> (PackIndexAll[ch] + 1) % PACKS]
HeaderOfFirst(ch, res) ==
  IF res[1].cic > 0
    THEN [Frequency |-> (res[1].rf \div kHz + res[1].dds) * kHz,
          BandWidth |-> InputRate \div res[1].cic]
    ELSE [Frequency |-> 0, BandWidth |-> 0]

HasHead(b) == b[1].head

CountPacket(ch) ==
  PackIndexAll' = [PackIndexAll EXCEPT ![ch] = IF @ + 1 = PACKS THEN 0 ELSE @ + 1]

(* The header as it is now: the data thread copies it without NBWaveMutex. *)
HeaderOf(ch, res) == [Frequency |-> Frequency[ch], BandWidth |-> BandWidth[ch]]

NBZCDataReplay(ch, res) ==
  /\ frame' = <<[ChannelNo |-> ch, header |-> HeaderOf(ch, res), packets |-> res]>>
  /\ sent' = [sent EXCEPT ![ch] = @ \o res]

(* A packet of no channel is left alone.  The first packet of a frame allocates  *)
(* its buffer, the PACKS-th one sends it.                                        *)
ToWaveData(p) ==
  IF p.ChannelNo \notin Channel THEN UNCHANGED dealVars
  ELSE LET ch == p.ChannelNo
           n == PackIndexAll[ch]
           res == [(IF n = 0 THEN EmptyFrame ELSE resAll[ch]) EXCEPT ![n + 1] = p]
       IN /\ resAll' = [resAll EXCEPT ![ch] = res]
          /\ CountPacket(ch)
          /\ got' = [got EXCEPT ![ch] = Append(@, p)]
          /\ IF n + 1 = PACKS THEN NBZCDataReplay(ch, res)
             ELSE UNCHANGED <<frame, sent>>

(* wait_and_pop and the handling of the block. *)
DataDealZC ==
  /\ Queue!Receive("DataDealZC")
  /\ LET b == Head(tsqueueZCs) IN
     \/ ~HasHead(b) /\ UNCHANGED dealVars
     \/ HasHead(b) /\ b[1].part = 1 /\ ToWaveData(b[1].packet)
     \/ HasHead(b) /\ b[1].part > 1 /\ \E ch \in Source : ToWaveData(Pieces(ch))
  /\ UNCHANGED <<readVars, broken, dropped>>

WaveNext == Read \/ ReadFails \/ CallBack \/ DataDealZC

(* Bookkeeping of since. *)
Settle ==
  since' = [ch \in Channel |-> IF ch \in settled' \ settled THEN measured[ch] ELSE since[ch]]

Next ==
  /\ \/ NBNext /\ Settle /\ UNCHANGED waveVars
     \/ WaveNext /\ UNCHANGED <<nbVars, since>>
  /\ commands' + SumFunction(measured') <= MaxEvents

Spec == Init /\ [][Next]_vars

------------------------------------------------------------------------------

StreamTypeOK ==
  /\ onWire \in Seq(Unit) /\ Len(onWire) <= 1
  /\ measured \in [Source -> Nat]
  /\ block \in Seq(Unit) /\ Len(block) <= PACK_LEN
  /\ failures \in 0..MaxFailures
  /\ tsqueueZCs \in Seq(Seq(Unit)) /\ Len(tsqueueZCs) <= MAX_BUFFER_DEPTH + 1
  /\ \A i \in 1..Len(tsqueueZCs) : Len(tsqueueZCs[i]) = PACK_LEN
  /\ broken \in BOOLEAN /\ dropped \in BOOLEAN
FrameTypeOK ==
  /\ PackIndexAll \in [Channel -> 0..(PACKS - 1)]
  /\ resAll \in [Channel -> [1..PACKS -> Packet \cup {NoPacket}]]
  /\ got \in [Channel -> Seq(Packet)]
  /\ sent \in [Channel -> Seq(Packet \cup {NoPacket})]
TypeOK ==
  NBTypeOK /\ StreamTypeOK /\ FrameTypeOK /\ since \in [Channel -> Nat]

(* Blocks are cut by counting alone, and the head at their front proves little:  *)
(* after a read that failed inside a block it may be payload.  But until then    *)
(* every block is one packet, however the reads split it, however many reads     *)
(* failed between blocks and whatever the queue dropped.                         *)
Whole(b) ==
  Len(b) = PACK_LEN /\ \A i \in 1..PACK_LEN : b[i].packet = b[1].packet /\ b[i].part = i
WholeUntilBroken ==
  ~broken => \A i \in 1..Len(tsqueueZCs) :
               HasHead(tsqueueZCs[i]) /\ Whole(tsqueueZCs[i])

(* The frames of a channel, with the one begun, are the packets taken from it:   *)
(* none is missing, repeated or out of place, whatever the channels' packets     *)
(* interleave like.                                                              *)
FramesAreTheStream ==
  \A ch \in Channel :
    got[ch] = sent[ch] \o SubSeq(resAll[ch], 1, PackIndexAll[ch])

(* From the board to the frames the packets of a channel keep their order and    *)
(* none comes twice, whatever failed, was dropped or was taken for a packet in   *)
(* between; and none is missing unless a read failed inside a block or the queue *)
(* was full.                                                                     *)
IsPacket(p) == p.number > 0
lost == broken \/ dropped
InOrder ==
  \A ch \in Channel : \A i \in 1..Len(got[ch]) :
    /\ \A k \in 1..(i - 1) :
         IsPacket(got[ch][k]) /\ IsPacket(got[ch][i]) => got[ch][k].number < got[ch][i].number
    /\ ~lost => got[ch][i].number = i

(* The header of a frame is what it is when the last of its packets is taken,    *)
(* long after they were measured.  Of a channel that is settled then it          *)
(* describes every packet of the frame that the board has measured since.        *)
HeaderDescribesPackets ==
  [][frame' # frame =>
       LET f == frame'[1] IN
       f.ChannelNo \in settled =>
         \A i \in 1..PACKS :
           LET p == f.packets[i] IN
           p.number > since[f.ChannelNo]
             => Describes(f.header.Frequency, f.header.BandWidth, p.rf, p.dds, p.cic)]_vars
==============================================================================
