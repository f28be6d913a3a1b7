-------------------------- MODULE WaveReceiverProofs --------------------------
(***************************************************************************)
(* The receiver commands of NBReceiver and the way of a sample from the    *)
(* board's byte stream to the wave frames, for any clients, channels and   *)
(* commands, size of packet and frame, and depth of the queue.             *)
(*                                                                         *)
(* Commands.  SettledChannelAgrees is not inductive: a channel settles at  *)
(* the end of a command, and what was stored on the way has to be still    *)
(* true then.  NBInv says what a command that nobody overlaps has stored   *)
(* at each of its points, and that the channel it works on is not settled  *)
(* meanwhile.                                                              *)
(*                                                                         *)
(* Stream.  WholeUntilBroken needs to be known of the block that is still  *)
(* being read: OnePacket says that a block that begins where a packet does *)
(* has so far read that packet and is exactly as far in it as the stream   *)
(* is, and Aligned that every block begins so until a read fails inside    *)
(* one.  A block that begins elsewhere and passes the test of its head is  *)
(* taken for a packet of any channel: such Pieces have the number 0 and    *)
(* are outside of what is said of packets.  FramesAreTheStream is proved   *)
(* place by place (Places): concatenation and subsequence come in only at  *)
(* the end.  The header of a frame rests on NBInv and on Fresh: what the   *)
(* board has measured of a channel since it settled was measured with the  *)
(* settings it still has, wherever the packet has got to.                  *)
(***************************************************************************)
EXTENDS WaveReceiver, SequenceTheorems, TLAPS

Alone(c) == c \in Busy /\ c \notin overlapped

(* A command that nobody overlaps is the only one. *)
AloneIsAlone == \A c \in Client : Alone(c) => Busy = {c}

(* What the commands under way have stored. *)
Receiving ==
  \A c \in Client : at[c] = "SendRF" =>
    /\ ~tuned
    /\ settled = {}
    /\ c \notin overlapped /\ cmd[c].Freq # Absent => NbCenterFreqRF = RfData[c] \div kHz
Unsettled ==
  \A c \in Client : at[c] \in {"DDCBW", "Send"} => CmdChannel[c] \notin settled
BankStored ==
  \A c \in Client : at[c] \in {"Freq", "DDCBW", "Send"} /\ cmd[c].BankNum \in Channel
    => CmdChannel[c] = cmd[c].BankNum
FreqStored ==
  \A c \in Client :
    /\ Alone(c)
    /\ at[c] \in {"DDCBW", "Send"}
    /\ cmd[c].BankNum \in Channel
    /\ cmd[c].Freq # Absent
    /\ CmdDDS[c] # Undefined
    => /\ CmdDDS[c] = cmd[c].Freq - NbCenterFreqRF
       /\ Frequency[cmd[c].BankNum] = cmd[c].Freq * kHz
WidthStored ==
  \A c \in Client :
    /\ Alone(c)
    /\ at[c] = "Send"
    /\ cmd[c].BankNum \in Channel
    /\ cmd[c].DDCBW \in Bandwidths
    => CmdCIC[c] * BandWidth[cmd[c].BankNum] = InputRate

Tuned == tuned => NbCenterFreqRF = boardRF \div kHz

NBInv ==
  /\ NBTypeOK
  /\ AloneIsAlone
  /\ Receiving
  /\ Unsettled
  /\ BankStored
  /\ FreqStored
  /\ WidthStored
  /\ Tuned
  /\ SettledChannelAgrees

------------------------------------------------------------------------------

(* Every bandwidth of the table has a decimation that divides the sample rate   *)
(* down to it: the switch of SetCmdNBChannel has no wrong row.                  *)
LEMMA TableIsRight ==
  \A bw \in Bandwidths :
    bw \in Int /\ DecimationOf(bw) \in Int /\ DecimationOf(bw) * bw = InputRate
<1> SUFFICES ASSUME NEW row \in DecimationTable
             PROVE  /\ row[1] \in Int
                    /\ DecimationOf(row[1]) \in Int
                    /\ DecimationOf(row[1]) * row[1] = InputRate
  BY DEF Bandwidths
<1>1. \A r \in DecimationTable : r[1] \in Int /\ r[2] \in Int /\ r[2] * r[1] = InputRate
  BY SMT DEF DecimationTable, InputRate
<1> DEFINE r == CHOOSE r \in DecimationTable : r[1] = row[1]
<1>2. r \in DecimationTable /\ r[1] = row[1]
  OBVIOUS
<1>3. DecimationOf(row[1]) = r[2]
  BY DEF DecimationOf
<1> QED
  BY <1>1, <1>2, <1>3

(* The initial state satisfies the invariant. *)
LEMMA NBInitInv == NBInit => NBInv
<1> SUFFICES ASSUME NBInit PROVE NBInv
  OBVIOUS
<1>1. NBTypeOK
  <2>1. NoCommand \in ChannelCommand
    BY DEF NoCommand, ChannelCommand
  <2>2. commands \in 0..MaxCommands
    BY NBAssumption DEF NBInit
  <2>3. Undefined \in Int
    BY DEF Undefined
  <2>4. /\ at \in [Client -> {"idle", "Freq", "DDCBW", "Send", "SendRF", "gone"}]
        /\ cmd \in [Client -> ChannelCommand]
        /\ overlapped \subseteq Client /\ tuned \in BOOLEAN /\ settled \subseteq Channel
    BY <2>1 DEF NBInit
  <2>5. /\ CmdChannel \in [Client -> Int]
        /\ CmdDDS \in [Client -> Int]
        /\ CmdCIC \in [Client -> Int]
        /\ boardDDS \in [Channel -> Int]
        /\ boardCIC \in [Channel -> Int]
    BY <2>3 DEF NBInit
  <2>6. /\ RfData \in [Client -> Int]
        /\ Frequency \in [Channel -> Int]
        /\ BandWidth \in [Channel -> Int]
        /\ NbCenterFreqRF \in Nat /\ boardRF \in Int
    BY <2>3 DEF NBInit
  <2> QED
    BY <2>2, <2>4, <2>5, <2>6 DEF NBTypeOK
<1>2. Busy = {}
  BY DEF NBInit, Busy
<1>3. \A c \in Client : at[c] = "idle" /\ ~Alone(c)
  BY <1>2 DEF NBInit, Alone
<1>4. settled = {} /\ ~tuned
  BY DEF NBInit
<1> QED
  BY <1>1, <1>3, <1>4 DEF NBInv, AloneIsAlone, Receiving, Unsettled, BankStored,
     FreqStored, WidthStored, Tuned, SettledChannelAgrees

(* The offset of a frequency is a number. *)
LEMMA OffsetType ==
  ASSUME NEW freq \in Int, NbCenterFreqRF \in Nat
  PROVE  /\ OffsetOf(freq) \in Int
         /\ OffsetOf(freq) # Undefined => OffsetOf(freq) = freq - NbCenterFreqRF
<1>1. freq - NbCenterFreqRF \in Int
  OBVIOUS
<1>2. Undefined \in Int
  BY DEF Undefined
<1> QED
  BY <1>1, <1>2 DEF OffsetOf

(* Starting a command counts it. *)
LEMMA BeginType ==
  ASSUME NBTypeOK, NEW c \in Client, Begin(c)
  PROVE  commands' \in 0..MaxCommands /\ overlapped' \subseteq Client
<1>1. commands' \in 0..MaxCommands
  BY NBAssumption DEF NBTypeOK, Begin
<1>2. overlapped' \subseteq Client
  BY DEF NBTypeOK, Begin, Busy
<1> QED
  BY <1>1, <1>2

(* Types are kept. *)
LEMMA NBTypeStep ==
  ASSUME NBTypeOK, [NBNext]_nbVars PROVE NBTypeOK'
<1> USE NBAssumption DEF NBTypeOK, CmdZC, NBWaveZCResult, board
<1> Undefined \in Int
  BY DEF Undefined
<1>0. \A c \in Client : cmd[c].Freq \in Int /\ cmd[c].DDCBW \in Int
  BY DEF ChannelCommand, Absent
<1>1. CASE UNCHANGED nbVars
  BY <1>1 DEF nbVars
<1>2. ASSUME NEW c \in Client, SetCmdNBReceiver(c) PROVE NBTypeOK'
  <2>1. PICK freq \in ReceiverFreq :
          /\ cmd' = [cmd EXCEPT ![c] = [NoCommand EXCEPT !.Freq = freq]]
          /\ SetRF(c, freq) \/ UNCHANGED <<CmdZC, NbCenterFreqRF>>
    BY <1>2 DEF SetCmdNBReceiver
  <2>2. commands' \in 0..MaxCommands /\ overlapped' \subseteq Client
    BY <1>2, BeginType DEF SetCmdNBReceiver
  <2>3. /\ at' \in [Client -> {"idle", "Freq", "DDCBW", "Send", "SendRF", "gone"}]
        /\ cmd' \in [Client -> ChannelCommand]
    <3>1. [NoCommand EXCEPT !.Freq = freq] \in ChannelCommand
      BY DEF NoCommand, ChannelCommand
    <3> QED
      BY <1>2, <2>1, <3>1 DEF SetCmdNBReceiver
  <2>4. /\ RfData' \in [Client -> Int] /\ NbCenterFreqRF' \in Nat
        /\ CmdChannel' \in [Client -> Int]
        /\ CmdDDS' \in [Client -> Int]
        /\ CmdCIC' \in [Client -> Int]
    <3>1. CASE UNCHANGED <<CmdZC, NbCenterFreqRF>>
      BY <3>1
    <3>2. CASE SetRF(c, freq)
      <4>1. freq \in Nat
        BY <3>2 DEF SetRF
      <4>2. NbCenterFreqRF' \in Nat
        BY SMT, <3>2, <4>1 DEF SetRF, StoreCentre, kHz
      <4> QED
        BY <3>2, <4>1, <4>2 DEF SetRF
    <3> QED
      BY <2>1, <3>1, <3>2
  <2> QED
    BY <1>2, <2>2, <2>3, <2>4 DEF SetCmdNBReceiver
<1>3. ASSUME NEW c \in Client, SendRF(c) PROVE NBTypeOK'
  BY <1>3 DEF SendRF
<1>4. ASSUME NEW c \in Client, SetCmdNBChannel(c) PROVE NBTypeOK'
  <2>1. PICK command \in Command :
          \/ UNCHANGED <<at, cmd, CmdChannel, RfData>>
          \/ /\ at' = [at EXCEPT ![c] = "Freq"]
             /\ cmd' = [cmd EXCEPT ![c] = command]
             /\ \E ch \in Bank(c, command) : CmdChannel' = [CmdChannel EXCEPT ![c] = ch]
             /\ UNCHANGED RfData \/ Overlay(c)
    BY <1>4 DEF SetCmdNBChannel
  <2>2. command \in ChannelCommand
    OBVIOUS
  <2>3. \A ch \in Bank(c, command) : ch \in Int
    <3>1. (\A ch \in Channel : ch \in Int) /\ BadBank \in Int /\ CmdChannel[c] \in Int
      BY DEF BadBank
    <3> QED
      BY <3>1 DEF Bank
  <2>4. RfData' \in [Client -> Int]
    BY <2>1 DEF Overlay
  <2>5. commands' \in 0..MaxCommands /\ overlapped' \subseteq Client
    BY <1>4, BeginType DEF SetCmdNBChannel
  <2>6. /\ at' \in [Client -> {"idle", "Freq", "DDCBW", "Send", "SendRF", "gone"}]
        /\ cmd' \in [Client -> ChannelCommand]
        /\ CmdChannel' \in [Client -> Int]
    BY <2>1, <2>2, <2>3
  <2> QED
    BY <1>4, <2>4, <2>5, <2>6 DEF SetCmdNBChannel
<1>5. ASSUME NEW c \in Client, SetFreq(c) PROVE NBTypeOK'
  <2>1. OffsetOf(cmd[c].Freq) \in Int
    BY <1>0, OffsetType
  <2>2. cmd[c].Freq * kHz \in Int
    BY SMT, <1>0 DEF kHz
  <2>3. CmdDDS' \in [Client -> Int] /\ Frequency' \in [Channel -> Int]
    BY <1>5, <2>1, <2>2 DEF SetFreq
  <2>4. RfData' \in [Client -> Int]
    BY <1>5 DEF SetFreq, Overlay
  <2>5. /\ at' \in [Client -> {"idle", "Freq", "DDCBW", "Send", "SendRF", "gone"}]
        /\ settled' \subseteq Channel
    BY <1>5 DEF SetFreq
  <2> QED
    BY <1>5, <2>3, <2>4, <2>5 DEF SetFreq
<1>6. ASSUME NEW c \in Client, SetBandWidth(c) PROVE NBTypeOK'
  BY <1>6, <1>0, TableIsRight DEF SetBandWidth, Overlay
<1>7. ASSUME NEW c \in Client, SendNB(c) PROVE NBTypeOK'
  BY <1>7 DEF SendNB, InFull
<1>8. ASSUME NEW c \in Client, CommandThrows(c) PROVE NBTypeOK'
  BY <1>8 DEF CommandThrows
<1> QED
  BY <1>1, <1>2, <1>3, <1>4, <1>5, <1>6, <1>7, <1>8 DEF NBNext

------------------------------------------------------------------------------

(* A command that begins is alone only if no other runs, and leaves nobody else *)
(* alone.                                                                       *)
LEMMA BeginAlone ==
  ASSUME NBTypeOK, NEW c \in Client, Begin(c),
         at' = at \/ (\E p : at' = [at EXCEPT ![c] = p])
  PROVE  \A x \in Client : Alone(x)' => x = c /\ Busy' = {c}
<1> SUFFICES ASSUME NEW x \in Client, x \in Busy', x \notin overlapped'
             PROVE  x = c /\ Busy' = {c}
  BY DEF Alone
<1>1. \A y \in Client : y # c => (y \in Busy' <=> y \in Busy)
  BY DEF NBTypeOK, Busy
<1>2. c \notin Busy
  BY DEF Begin, Busy
<1>3. Busy = {}
  <2> SUFFICES ASSUME Busy # {} PROVE FALSE
    OBVIOUS
  <2>1. overlapped' = overlapped \cup Busy \cup {c}
    BY DEF Begin
  <2>2. x # c /\ x \notin Busy
    BY <2>1
  <2> QED
    BY <1>1, <2>2
<1>4. Busy' \subseteq Client
  BY DEF Busy
<1> QED
  BY <1>1, <1>3, <1>4

(* Of the steps within commands, only those of the one alone go on alone. *)
LEMMA GoesOnAlone ==
  ASSUME NBTypeOK, AloneIsAlone, NEW c \in Client, c \in Busy,
         NEW p, at' = [at EXCEPT ![c] = p], UNCHANGED overlapped
  PROVE  /\ \A x \in Client : Alone(x) => x = c
         /\ \A x \in Client : Alone(x)' => x = c /\ Alone(c) /\ p \notin {"idle", "gone"}
         /\ AloneIsAlone'
<1>1. \A y \in Client : y # c => (y \in Busy' <=> y \in Busy)
  BY DEF NBTypeOK, Busy
<1>2. \A x \in Client : Alone(x) => x = c
  BY DEF AloneIsAlone
<1>3. \A x \in Client : Alone(x)' => x = c /\ Alone(c)
  BY <1>1, <1>2 DEF Alone
<1>4. c \in Busy' => p \notin {"idle", "gone"}
  BY DEF NBTypeOK, Busy
<1>5. Busy \subseteq Client /\ Busy' \subseteq Client
  BY DEF Busy
<1>6. AloneIsAlone'
  <2> SUFFICES ASSUME NEW x \in Client, Alone(x)' PROVE Busy' = {x}
    BY DEF AloneIsAlone
  <2>1. x = c /\ Busy = {c} /\ c \in Busy'
    BY <1>3 DEF AloneIsAlone, Alone
  <2> QED
    BY <1>1, <1>5, <2>1
<1> QED
  BY <1>2, <1>3, <1>4, <1>6 DEF Alone

(* The receiver's frequency, rounded down, and the offset from it: what is lost *)
(* is less than a kHz.                                                          *)
LEMMA OffsetDescribes ==
  ASSUME NEW rf \in Int, NEW freq \in Int
  PROVE  rf + (freq - rf \div kHz) * kHz - freq * kHz \in 0..(kHz - 1)
BY SMT DEF kHz

(* A receiver command starts: nothing is settled any more. *)
LEMMA ReceiverStep ==
  ASSUME NBInv, NEW c \in Client, SetCmdNBReceiver(c), NBTypeOK'
  PROVE  NBInv'
<1> USE DEF NBInv, NBTypeOK
<1>1. PICK freq \in ReceiverFreq :
        /\ cmd' = [cmd EXCEPT ![c] = [NoCommand EXCEPT !.Freq = freq]]
        /\ SetRF(c, freq) \/ (freq = Absent /\ UNCHANGED <<CmdZC, NbCenterFreqRF>>)
  BY DEF SetCmdNBReceiver
<1>2. at' = [at EXCEPT ![c] = "SendRF"] /\ at'[c] = "SendRF"
  BY DEF SetCmdNBReceiver
<1>3. \A x \in Client : Alone(x)' => x = c /\ Busy' = {c}
  BY <1>2, BeginAlone DEF SetCmdNBReceiver
<1>4. AloneIsAlone'
  BY <1>3 DEF AloneIsAlone
<1>5. Receiving'
  <2> SUFFICES ASSUME NEW x \in Client, at'[x] = "SendRF", x \notin overlapped',
                      cmd'[x].Freq # Absent
               PROVE  NbCenterFreqRF' = RfData'[x] \div kHz
    BY DEF Receiving, SetCmdNBReceiver
  <2>1. x = c
    BY <1>3 DEF Alone, Busy
  <2>2. cmd'[c].Freq = freq
    BY <1>1 DEF NoCommand
  <2> QED
    BY <1>1, <2>1, <2>2 DEF SetRF, StoreCentre
<1>6. Unsettled' /\ Tuned' /\ SettledChannelAgrees'
  BY DEF SetCmdNBReceiver, Unsettled, Tuned, SettledChannelAgrees
<1>7. BankStored'
  BY <1>1, <1>2 DEF SetRF, CmdZC, BankStored
<1>8. FreqStored' /\ WidthStored'
  BY <1>2, <1>3 DEF FreqStored, WidthStored
<1> QED
  BY <1>4, <1>5, <1>6, <1>7, <1>8

(* It is sent: the board's receiver is where the server believes it to be, *)
(* unless commands overlapped.                                             *)
LEMMA SendRFStep ==
  ASSUME NBInv, NEW c \in Client, SendRF(c), NBTypeOK'
  PROVE  NBInv'
<1> USE DEF NBInv, NBTypeOK, CmdZC, NBWaveZCResult
<1>1. c \in Busy /\ at' = [at EXCEPT ![c] = "idle"] /\ UNCHANGED overlapped
  BY DEF SendRF, Busy
<1>2. /\ \A x \in Client : Alone(x) => x = c
      /\ \A x \in Client : ~Alone(x)'
      /\ AloneIsAlone'
  BY <1>1, GoesOnAlone
<1>3. Receiving'
  <2> SUFFICES ASSUME NEW x \in Client, at'[x] = "SendRF"
               PROVE  ~tuned' /\ settled' = {} /\ x \in overlapped'
    BY DEF Receiving
  <2>1. x # c /\ at[x] = "SendRF" /\ x \in Busy
    BY <1>1 DEF Busy
  <2>2. x \in overlapped
    BY <1>2, <2>1 DEF Alone
  <2>3. c \in overlapped
    BY <1>1, <2>1 DEF AloneIsAlone, Alone
  <2> QED
    BY <2>1, <2>2, <2>3 DEF SendRF, Receiving
<1>4. Unsettled' /\ SettledChannelAgrees' /\ BankStored'
  BY DEF SendRF, Receiving, Unsettled, SettledChannelAgrees, BankStored
<1>5. Tuned'
  BY DEF SendRF, Receiving, Tuned
<1>6. FreqStored' /\ WidthStored'
  BY <1>2 DEF FreqStored, WidthStored
<1> QED
  BY <1>2, <1>3, <1>4, <1>5, <1>6

(* A channel command starts, or ends at once over its bank number. *)
LEMMA ChannelStep ==
  ASSUME NBInv, NEW c \in Client, SetCmdNBChannel(c), NBTypeOK'
  PROVE  NBInv'
<1> USE DEF NBInv, NBTypeOK, NBWaveZCResult, board
<1>1. PICK command \in Command :
        \/ UNCHANGED <<at, cmd, CmdChannel, RfData>>
        \/ /\ at' = [at EXCEPT ![c] = "Freq"]
           /\ cmd' = [cmd EXCEPT ![c] = command]
           /\ \E ch \in Bank(c, command) : CmdChannel' = [CmdChannel EXCEPT ![c] = ch]
           /\ UNCHANGED RfData \/ Overlay(c)
  BY DEF SetCmdNBChannel
<1>2. \A x \in Client : Alone(x)' => x = c /\ Busy' = {c}
  BY <1>1, BeginAlone DEF SetCmdNBChannel
<1>3. at[c] = "idle" /\ at'[c] \in {"idle", "Freq"}
  BY <1>1 DEF SetCmdNBChannel, Begin
<1>4. \A x \in Client : x # c => at'[x] = at[x] /\ cmd'[x] = cmd[x]
                                /\ CmdChannel'[x] = CmdChannel[x] /\ RfData'[x] = RfData[x]
  BY <1>1 DEF Overlay
<1>5. AloneIsAlone'
  BY <1>2 DEF AloneIsAlone
<1>6. Receiving'
  <2> SUFFICES ASSUME NEW x \in Client, at'[x] = "SendRF"
               PROVE  ~tuned' /\ settled' = {} /\ x \in overlapped'
    BY DEF Receiving
  <2>1. x # c /\ at[x] = "SendRF"
    BY <1>3, <1>4
  <2>2. x \in overlapped'
    BY <1>2, <2>1 DEF Alone, Busy
  <2> QED
    BY <2>1, <2>2 DEF SetCmdNBChannel, Receiving
<1>7. Unsettled'
  BY <1>3, <1>4 DEF SetCmdNBChannel, Unsettled
<1>8. BankStored'
  <2> SUFFICES ASSUME NEW x \in Client, at'[x] \in {"Freq", "DDCBW", "Send"},
                      cmd'[x].BankNum \in Channel
               PROVE  CmdChannel'[x] = cmd'[x].BankNum
    BY DEF BankStored
  <2>1. CASE x # c
    BY <1>4, <2>1 DEF BankStored
  <2>2. CASE x = c
    <3>1. cmd'[c] = command /\ CmdChannel'[c] \in Bank(c, command)
      BY <1>1, <1>3, <2>2
    <3> QED
      BY <2>2, <3>1 DEF Bank
  <2> QED
    BY <2>1, <2>2
<1>9. FreqStored' /\ WidthStored'
  BY <1>2, <1>3 DEF FreqStored, WidthStored
<1>10. Tuned' /\ SettledChannelAgrees'
  BY DEF SetCmdNBChannel, Tuned, SettledChannelAgrees
<1> QED
  BY <1>5, <1>6, <1>7, <1>8, <1>9, <1>10

(* The frequency is stored in the header and as an offset; the channel is not *)
(* settled from here on.                                                      *)
LEMMA FreqStep ==
  ASSUME NBInv, NEW c \in Client, SetFreq(c), NBTypeOK'
  PROVE  NBInv'
<1> USE DEF NBInv, NBTypeOK, board
<1>1. c \in Busy /\ at' = [at EXCEPT ![c] = "DDCBW"] /\ UNCHANGED overlapped
  BY DEF SetFreq, Busy
<1>2. /\ \A x \in Client : Alone(x)' => x = c /\ Alone(c)
      /\ AloneIsAlone'
  BY <1>1, GoesOnAlone
<1>3. Receiving'
  <2>1. \A x \in Client : at'[x] = "SendRF" => at[x] = "SendRF"
    BY <1>1
  <2>2. \A x \in Client : at'[x] = "SendRF" => RfData'[x] = RfData[x]
    BY <1>1 DEF SetFreq, Overlay
  <2> QED
    BY <2>1, <2>2 DEF SetFreq, Receiving
<1>4. Unsettled' /\ BankStored'
  BY DEF SetFreq, Unsettled, BankStored
<1>5. FreqStored'
  <2> SUFFICES ASSUME Alone(c),
                      cmd[c].BankNum \in Channel,
                      cmd[c].Freq # Absent,
                      CmdDDS'[c] # Undefined
               PROVE  /\ CmdDDS'[c] = cmd[c].Freq - NbCenterFreqRF
                      /\ Frequency'[cmd[c].BankNum] = cmd[c].Freq * kHz
    BY <1>2 DEF FreqStored, SetFreq
  <2>1. cmd[c].Freq \in Int
    BY DEF ChannelCommand, Absent
  <2>2. CmdDDS'[c] = OffsetOf(cmd[c].Freq)
    BY DEF SetFreq
  <2>3. CmdChannel[c] = cmd[c].BankNum
    BY DEF BankStored, SetFreq
  <2>4. Frequency'[cmd[c].BankNum] = cmd[c].Freq * kHz
    BY <2>3 DEF SetFreq
  <2> QED
    BY <2>1, <2>2, <2>4, OffsetType
<1>6. WidthStored'
  BY <1>1, <1>2 DEF WidthStored
<1>7. Tuned'
  BY DEF SetFreq, Tuned
<1>8. SettledChannelAgrees'
  <2> SUFFICES ASSUME NEW ch \in settled'
               PROVE  /\ ch \in settled /\ Frequency'[ch] = Frequency[ch]
                      /\ BandWidth' = BandWidth /\ UNCHANGED board
    BY DEF SettledChannelAgrees
  <2> QED
    BY DEF SetFreq
<1> QED
  BY <1>2, <1>3, <1>4, <1>5, <1>6, <1>7, <1>8

(* The bandwidth is stored in the header and as a decimation. *)
LEMMA WidthStep ==
  ASSUME NBInv, NEW c \in Client, SetBandWidth(c), NBTypeOK'
  PROVE  NBInv'
<1> USE DEF NBInv, NBTypeOK, board
<1>1. c \in Busy /\ at' = [at EXCEPT ![c] = "Send"] /\ UNCHANGED overlapped
  BY DEF SetBandWidth, Busy
<1>2. /\ \A x \in Client : Alone(x)' => x = c /\ Alone(c)
      /\ AloneIsAlone'
  BY <1>1, GoesOnAlone
<1>3. Receiving'
  <2>1. \A x \in Client : at'[x] = "SendRF" => at[x] = "SendRF"
    BY <1>1
  <2>2. \A x \in Client : at'[x] = "SendRF" => RfData'[x] = RfData[x]
    BY <1>1 DEF SetBandWidth, Overlay
  <2> QED
    BY <2>1, <2>2 DEF SetBandWidth, Receiving
<1>4. Unsettled' /\ BankStored'
  BY DEF SetBandWidth, Unsettled, BankStored
<1>5. FreqStored'
  BY <1>2 DEF SetBandWidth, FreqStored
<1>6. WidthStored'
  <2> SUFFICES ASSUME Alone(c),
                      cmd[c].BankNum \in Channel,
                      cmd[c].DDCBW \in Bandwidths
               PROVE  CmdCIC'[c] * BandWidth'[cmd[c].BankNum] = InputRate
    BY <1>2 DEF WidthStored, SetBandWidth
  <2>1. CmdCIC'[c] = DecimationOf(cmd[c].DDCBW)
    BY DEF SetBandWidth
  <2>2. BandWidth'[cmd[c].BankNum] = cmd[c].DDCBW
    BY DEF SetBandWidth, BankStored
  <2> QED
    BY <2>1, <2>2, TableIsRight
<1>7. Tuned'
  BY DEF SetBandWidth, Tuned
<1>8. SettledChannelAgrees'
  <2> SUFFICES ASSUME NEW ch \in settled'
               PROVE  /\ ch \in settled /\ BandWidth'[ch] = BandWidth[ch]
                      /\ Frequency' = Frequency /\ UNCHANGED board
    BY DEF SettledChannelAgrees
  <2> QED
    BY DEF SetBandWidth, Unsettled
<1> QED
  BY <1>2, <1>3, <1>4, <1>5, <1>6, <1>7, <1>8

(* The command reaches the board: this is where a channel settles. *)
LEMMA SendNBStep ==
  ASSUME NBInv, NEW c \in Client, SendNB(c), NBTypeOK'
  PROVE  NBInv'
<1> USE DEF NBInv, NBTypeOK, CmdZC, NBWaveZCResult
<1>1. c \in Busy /\ at' = [at EXCEPT ![c] = "idle"] /\ UNCHANGED overlapped
  BY DEF SendNB, Busy
<1>2. /\ \A x \in Client : Alone(x) => x = c
      /\ \A x \in Client : ~Alone(x)'
      /\ AloneIsAlone'
  BY <1>1, GoesOnAlone
<1>3. Receiving'
  <2> SUFFICES ASSUME NEW x \in Client, at[x] = "SendRF", at'[x] = "SendRF"
               PROVE  ~tuned' /\ settled' = {} /\ x \in overlapped'
    BY <1>1 DEF Receiving
  <2>1. x \in overlapped
    BY <1>1, <1>2 DEF Alone, Busy
  <2> QED
    BY <1>1, <2>1 DEF SendNB, Receiving
<1>4. Unsettled'
  <2> SUFFICES ASSUME NEW x \in Client, at[x] \in {"DDCBW", "Send"}, x # c,
                      c \notin overlapped
               PROVE  FALSE
    BY <1>1 DEF Unsettled, SendNB
  <2> QED
    BY <1>1 DEF AloneIsAlone, Alone, Busy
<1>5. BankStored'
  BY <1>1 DEF SendNB, BankStored
<1>6. FreqStored' /\ WidthStored'
  BY <1>2 DEF FreqStored, WidthStored
<1>7. Tuned'
  BY DEF SendNB, Tuned
<1>8. SettledChannelAgrees'
  <2> SUFFICES ASSUME NEW ch \in settled'
               PROVE  Describes(Frequency[ch], BandWidth[ch], boardRF, boardDDS'[ch],
                                boardCIC'[ch])
    BY DEF SettledChannelAgrees, SendNB
  <2>1. CASE ch \in settled
    <3>1. CmdChannel[c] # ch
      BY <2>1 DEF Unsettled, SendNB
    <3> QED
      BY <2>1, <3>1 DEF SendNB, SettledChannelAgrees
  <2>2. CASE ch \notin settled
    <3>1. /\ InFull(cmd[c]) /\ CmdDDS[c] # Undefined /\ tuned /\ Alone(c)
          /\ ch = cmd[c].BankNum /\ at[c] = "Send"
      BY <1>1, <2>2 DEF SendNB, Alone
    <3>2. ch = CmdChannel[c] /\ ch \in Channel
      BY <3>1 DEF BankStored, InFull
    <3>3. boardDDS'[ch] = CmdDDS[c] /\ boardCIC'[ch] = CmdCIC[c]
      BY <3>2 DEF SendNB
    <3>4. boardCIC'[ch] * BandWidth[ch] = InputRate
      BY <3>1, <3>3 DEF WidthStored, InFull
    <3>5. /\ boardDDS'[ch] = cmd[c].Freq - boardRF \div kHz
          /\ Frequency[ch] = cmd[c].Freq * kHz
      BY <3>1, <3>3 DEF FreqStored, InFull, Tuned
    <3>6. cmd[c].Freq \in Int
      BY DEF ChannelCommand, Absent
    <3> QED
      BY <3>4, <3>5, <3>6, OffsetDescribes DEF Describes
  <2> QED
    BY <2>1, <2>2
<1> QED
  BY <1>2, <1>3, <1>4, <1>5, <1>6, <1>7, <1>8

(* An exception ends a command wherever it is. *)
LEMMA ThrowStep ==
  ASSUME NBInv, NEW c \in Client, CommandThrows(c), NBTypeOK'
  PROVE  NBInv'
<1> USE DEF NBInv, NBTypeOK, CmdZC, NBWaveZCResult, board
<1>1. c \in Busy /\ at' = [at EXCEPT ![c] = "gone"] /\ UNCHANGED overlapped
  BY DEF CommandThrows
<1>2. /\ \A x \in Client : ~Alone(x)'
      /\ AloneIsAlone'
  BY <1>1, GoesOnAlone
<1>3. Receiving'
  <2>1. \A x \in Client : at'[x] = "SendRF" => at[x] = "SendRF"
    BY <1>1
  <2> QED
    BY <2>1 DEF CommandThrows, Receiving
<1>4. Unsettled' /\ BankStored'
  BY DEF CommandThrows, Unsettled, BankStored
<1>5. FreqStored' /\ WidthStored'
  BY <1>2 DEF FreqStored, WidthStored
<1>6. Tuned' /\ SettledChannelAgrees'
  BY DEF CommandThrows, Tuned, SettledChannelAgrees
<1> QED
  BY <1>2, <1>3, <1>4, <1>5, <1>6

(* The invariant is kept by every step. *)
LEMMA NBInvStep ==
  ASSUME NBInv, [NBNext]_nbVars PROVE NBInv'
<1>1. NBTypeOK'
  BY NBTypeStep DEF NBInv
<1>2. CASE UNCHANGED nbVars
  BY <1>2 DEF nbVars, CmdZC, NBWaveZCResult, board, NBInv, NBTypeOK, AloneIsAlone, Alone,
     Busy, Receiving, Unsettled, BankStored, FreqStored, WidthStored, Tuned,
     SettledChannelAgrees
<1>3. CASE NBNext
  BY <1>1, <1>3, ReceiverStep, SendRFStep, ChannelStep, FreqStep, WidthStep, SendNBStep,
     ThrowStep DEF NBNext
<1> QED
  BY <1>2, <1>3

------------------------------------------------------------------------------
(* The stream and the frames *)

(* A block that begins where a packet does, and that packet. *)
Starts(b) == b[1].part = 1
Packs(b) == b[1].packet
Reading == block # <<>> /\ Starts(block)
Queued(i) == i \in 1..Len(tsqueueZCs) /\ Starts(tsqueueZCs[i])

OnePacket ==
  block # <<>> =>
    /\ onWire = <<block[Len(block)]>>
    /\ Starts(block) => /\ HasHead(block)
                        /\ \A i \in 1..Len(block) :
                             block[i].packet = block[1].packet /\ block[i].part = i
Aligned ==
  ~broken => IF block = <<>> THEN ~MidPacket ELSE Starts(block)

StartMeansWhole ==
  \A i \in 1..Len(tsqueueZCs) :
    Starts(tsqueueZCs[i]) => HasHead(tsqueueZCs[i]) /\ Whole(tsqueueZCs[i])
StartUntilBroken ==
  ~broken => \A i \in 1..Len(tsqueueZCs) : Starts(tsqueueZCs[i])

Places ==
  \A ch \in Channel :
    /\ Len(got[ch]) = Len(sent[ch]) + PackIndexAll[ch]
    /\ \A i \in 1..Len(sent[ch]) : got[ch][i] = sent[ch][i]
    /\ \A j \in 1..PackIndexAll[ch] : got[ch][Len(sent[ch]) + j] = resAll[ch][j]

StreamInv ==
  /\ StreamTypeOK
  /\ OnePacket
  /\ Aligned
  /\ StartMeansWhole
  /\ StartUntilBroken
FrameInv ==
  /\ FrameTypeOK
  /\ Places
WaveInv == NBInv /\ StreamInv /\ FrameInv

------------------------------------------------------------------------------

(* The initial state satisfies the invariant. *)
LEMMA WaveInitInv == Init => WaveInv
<1> SUFFICES ASSUME Init PROVE WaveInv
  OBVIOUS
<1> USE WaveAssumption
<1>1. NBInv
  BY NBInitInv DEF Init
<1>2. StreamInv
  <2>1. tsqueueZCs = <<>> /\ onWire = <<>> /\ block = <<>>
    BY DEF Init, Queue!Init
  <2>2. StreamTypeOK
    <3>1. measured \in [Source -> Nat] /\ broken \in BOOLEAN /\ dropped \in BOOLEAN
      BY DEF Init
    <3>2. /\ <<>> \in Seq(Unit) /\ <<>> \in Seq(Seq(Unit)) /\ Len(<<>>) = 0
      OBVIOUS
    <3>3. failures = 0
      BY DEF Init
    <3> QED
      BY <2>1, <3>1, <3>2, <3>3 DEF StreamTypeOK
  <2> QED
    BY <2>1, <2>2 DEF Init, StreamInv, OnePacket, Aligned, MidPacket, StartMeansWhole,
       StartUntilBroken
<1>3. FrameInv
  <2>1. FrameTypeOK
    BY DEF Init, FrameTypeOK, EmptyFrame
  <2> QED
    BY <2>1 DEF Init, FrameInv, Places
<1> QED
  BY <1>1, <1>2, <1>3 DEF WaveInv

(* What the next read delivers is a unit: the first of a new packet or the one *)
(* after the last.                                                             *)
LEMMA NextUnit ==
  ASSUME NBTypeOK, StreamTypeOK, Read
  PROVE  /\ measured' \in [Source -> Nat]
         /\ \E u \in Unit :
              /\ onWire' = <<u>> /\ block' = Append(block, u)
              /\ IF MidPacket
                   THEN /\ onWire # <<>>
                        /\ u.packet = onWire[1].packet
                        /\ u.part = onWire[1].part + 1
                   ELSE u.part = 1 /\ u.head
<1> USE WaveAssumption DEF StreamTypeOK
<1>1. CASE MidPacket
  <2>1. onWire[1] \in Unit /\ onWire[1].part < PACK_LEN
    BY <1>1 DEF MidPacket
  <2>2. PICK head \in BOOLEAN :
          /\ onWire' = <<[packet |-> onWire[1].packet, part |-> onWire[1].part + 1,
                          head |-> head]>>
          /\ UNCHANGED measured
    BY <1>1 DEF Read
  <2> DEFINE v == [packet |-> onWire[1].packet, part |-> onWire[1].part + 1, head |-> head]
  <2>3. /\ v \in Unit /\ v.packet = onWire[1].packet /\ v.part = onWire[1].part + 1
    BY <2>1 DEF Unit
  <2>4. onWire' = <<v>> /\ block' = Append(block, v)
    BY <2>2 DEF Read
  <2> HIDE DEF v
  <2> QED
    BY <1>1, <2>2, <2>3, <2>4 DEF MidPacket
<1>2. CASE ~MidPacket
  <2>1. PICK ch \in Source :
          /\ onWire' = <<[packet |-> NextPacket(ch), part |-> 1, head |-> TRUE]>>
          /\ measured' = [measured EXCEPT ![ch] = @ + 1]
    BY <1>2 DEF Read
  <2>2. NextPacket(ch) \in Packet
    <3>1. Undefined \in Int
      BY DEF Undefined
    <3> QED
      BY <3>1 DEF NextPacket, Packet, NBTypeOK
  <2> DEFINE v == [packet |-> NextPacket(ch), part |-> 1, head |-> TRUE]
  <2>3. v \in Unit /\ v.part = 1 /\ v.head
    BY <2>2 DEF Unit
  <2>4. onWire' = <<v>> /\ block' = Append(block, v)
    BY <2>1 DEF Read
  <2> HIDE DEF v
  <2> QED
    BY <1>2, <2>1, <2>3, <2>4
<1> QED
  BY <1>1, <1>2

LEMMA ReadStep ==
  ASSUME NBTypeOK, StreamInv, Read PROVE StreamInv'
<1> USE WaveAssumption DEF StreamInv
<1>1. PICK u \in Unit :
        /\ onWire' = <<u>> /\ block' = Append(block, u)
        /\ IF MidPacket
             THEN /\ onWire # <<>> /\ u.packet = onWire[1].packet
                  /\ u.part = onWire[1].part + 1
             ELSE u.part = 1 /\ u.head
  BY NextUnit
<1>2. /\ Len(block) < PACK_LEN /\ measured' \in [Source -> Nat]
      /\ UNCHANGED <<failures, tsqueueZCs, broken, dropped>>
  BY NextUnit DEF Read
<1>3. /\ block \in Seq(Unit) /\ block' \in Seq(Unit)
      /\ Len(block') = Len(block) + 1
      /\ block'[Len(block')] = u
      /\ \A i \in 1..Len(block) : block'[i] = block[i]
  BY <1>1, <1>2 DEF StreamTypeOK
<1>4. StreamTypeOK'
  <2>1. onWire' \in Seq(Unit) /\ Len(onWire') = 1
    BY <1>1
  <2>2. Len(block') <= PACK_LEN
    BY <1>2, <1>3 DEF StreamTypeOK
  <2> QED
    BY <1>1, <1>2, <1>3, <2>1, <2>2 DEF StreamTypeOK
<1>5. OnePacket' /\ Aligned'
  <2>1. CASE block = <<>>
    <3>0. Len(block) = 0
      BY <2>1
    <3>1. Len(block') = 1 /\ block'[1] = u /\ block' # <<>>
      BY <1>3, <3>0
    <3>2. u.part = 1 => u.head
      <4>1. CASE MidPacket
        <5>1. onWire[1].part \in 1..PACK_LEN
          <6>1. onWire[1] \in Unit
            BY <1>1, <4>1 DEF StreamTypeOK
          <6> QED
            BY <6>1 DEF Unit
        <5> QED
          BY <1>1, <4>1, <5>1
      <4> QED
        BY <1>1, <4>1
    <3> QED
      BY <1>1, <1>2, <2>1, <3>1, <3>2 DEF OnePacket, Aligned, Starts, HasHead
  <2>2. CASE block # <<>>
    <3>1. /\ Len(block) \in 1..(PACK_LEN - 1) /\ block'[1] = block[1] /\ block' # <<>>
      BY <1>2, <1>3, <2>2
    <3>2. onWire[1] = block[Len(block)] /\ onWire # <<>>
      BY <2>2 DEF OnePacket
    <3>3. ASSUME Starts(block)
          PROVE  u.packet = block[1].packet /\ u.part = Len(block) + 1
      <4>1. onWire[1].packet = block[1].packet /\ onWire[1].part = Len(block)
        BY <2>2, <3>1, <3>2, <3>3 DEF OnePacket
      <4>2. MidPacket
        BY <3>1, <3>2, <4>1 DEF MidPacket
      <4> QED
        BY <1>1, <4>1, <4>2
    <3>4. (Starts(block') <=> Starts(block)) /\ (HasHead(block') <=> HasHead(block))
      BY <3>1 DEF Starts, HasHead
    <3>5. OnePacket'
      <4> SUFFICES ASSUME Starts(block), NEW i \in 1..Len(block')
                   PROVE  block'[i].packet = block'[1].packet /\ block'[i].part = i
        BY <1>1, <1>3, <2>2, <3>1, <3>4 DEF OnePacket
      <4>1. CASE i \in 1..Len(block)
        BY <1>3, <2>2, <3>1, <4>1 DEF OnePacket
      <4>2. CASE i = Len(block) + 1
        BY <1>3, <3>1, <3>3, <4>2
      <4> QED
        BY <1>3, <4>1, <4>2
    <3>6. Aligned'
      BY <1>2, <2>2, <3>1, <3>4 DEF Aligned
    <3> QED
      BY <3>5, <3>6
  <2> QED
    BY <2>1, <2>2
<1>6. StartMeansWhole' /\ StartUntilBroken'
  BY <1>2 DEF StartMeansWhole, StartUntilBroken
<1> QED
  BY <1>4, <1>5, <1>6

(* A read that fails inside a block breaks the alignment; at a block's start it *)
(* does not.                                                                    *)
LEMMA FailStep ==
  ASSUME StreamInv, ReadFails PROVE StreamInv'
<1> USE WaveAssumption DEF StreamInv
<1>1. /\ block' = <<>> /\ UNCHANGED <<onWire, measured, tsqueueZCs>>
      /\ failures' = failures + 1 /\ failures < MaxFailures
      /\ broken' = (broken \/ block # <<>>) /\ UNCHANGED dropped
  BY DEF ReadFails
<1>2. StreamTypeOK'
  <2>1. block' \in Seq(Unit) /\ Len(block') <= PACK_LEN /\ broken' \in BOOLEAN
    BY <1>1 DEF StreamTypeOK
  <2>2. failures' \in 0..MaxFailures
    BY <1>1 DEF StreamTypeOK
  <2> QED
    BY <1>1, <2>1, <2>2 DEF StreamTypeOK
<1>3. OnePacket' /\ Aligned'
  BY <1>1 DEF OnePacket, Aligned, MidPacket
<1>4. StartMeansWhole' /\ StartUntilBroken'
  BY <1>1 DEF StartMeansWhole, StartUntilBroken
<1> QED
  BY <1>2, <1>3, <1>4

(* A full block that begins where a packet does is that packet. *)
LEMMA FullIsWhole ==
  ASSUME StreamInv, IsFull, Starts(block) PROVE HasHead(block) /\ Whole(block)
<1>1. Len(block) = PACK_LEN /\ block # <<>>
  BY WaveAssumption DEF StreamInv, StreamTypeOK, IsFull
<1> QED
  BY <1>1 DEF StreamInv, OnePacket, Whole

LEMMA CallBackStep ==
  ASSUME StreamInv, CallBack PROVE StreamInv'
<1> USE WaveAssumption DEF StreamInv
<1>1. /\ block' = <<>> /\ UNCHANGED <<onWire, measured, failures, broken>> /\ IsFull
      /\ \/ tsqueueZCs' = Append(tsqueueZCs, block) /\ Len(tsqueueZCs) <= MAX_BUFFER_DEPTH
         \/ tsqueueZCs' = tsqueueZCs
      /\ dropped' \in BOOLEAN
  BY DEF CallBack, NewBlock, Queue!Send, StreamTypeOK
<1>2. block \in Seq(Unit) /\ Len(block) = PACK_LEN /\ block # <<>>
  BY <1>1 DEF StreamTypeOK, IsFull
<1>3. StreamTypeOK'
  <2>1. block' \in Seq(Unit) /\ Len(block') <= PACK_LEN
    BY <1>1
  <2>2. /\ tsqueueZCs' \in Seq(Seq(Unit)) /\ Len(tsqueueZCs') <= MAX_BUFFER_DEPTH + 1
        /\ \A i \in 1..Len(tsqueueZCs') : Len(tsqueueZCs'[i]) = PACK_LEN
    <3>1. CASE tsqueueZCs' = tsqueueZCs
      BY <3>1 DEF StreamTypeOK
    <3>2. CASE tsqueueZCs' = Append(tsqueueZCs, block) /\ Len(tsqueueZCs) <= MAX_BUFFER_DEPTH
      <4>1. /\ tsqueueZCs' \in Seq(Seq(Unit)) /\ Len(tsqueueZCs') = Len(tsqueueZCs) + 1
            /\ tsqueueZCs'[Len(tsqueueZCs')] = block
            /\ \A i \in 1..Len(tsqueueZCs) : tsqueueZCs'[i] = tsqueueZCs[i]
        BY <1>2, <3>2 DEF StreamTypeOK
      <4>2. Len(tsqueueZCs') <= MAX_BUFFER_DEPTH + 1
        BY <3>2, <4>1 DEF StreamTypeOK
      <4>3. ASSUME NEW i \in 1..Len(tsqueueZCs') PROVE Len(tsqueueZCs'[i]) = PACK_LEN
        <5>1. CASE i \in 1..Len(tsqueueZCs)
          BY <4>1, <5>1 DEF StreamTypeOK
        <5>2. CASE i = Len(tsqueueZCs')
          BY <1>2, <4>1, <5>2
        <5>3. Len(tsqueueZCs) \in Nat
          BY DEF StreamTypeOK
        <5> QED
          BY <4>1, <5>1, <5>2, <5>3
      <4> QED
        BY <4>1, <4>2, <4>3
    <3> QED
      BY <1>1, <3>1, <3>2
  <2> QED
    BY <1>1, <2>1, <2>2 DEF StreamTypeOK
<1>4. OnePacket'
  BY <1>1 DEF OnePacket
<1>5. Aligned'
  <2> SUFFICES ASSUME ~broken, MidPacket PROVE FALSE
    BY <1>1 DEF Aligned, MidPacket, StreamTypeOK
  <2>1. Starts(block)
    BY <1>2 DEF Aligned
  <2>2. onWire = <<block[PACK_LEN]>> /\ block[PACK_LEN].part = PACK_LEN
    BY <1>2, <2>1 DEF OnePacket
  <2> QED
    BY <2>2 DEF MidPacket
<1>6. StartMeansWhole'
  <2>1. Starts(block) => HasHead(block) /\ Whole(block)
    BY <1>1, FullIsWhole
  <2>2. CASE tsqueueZCs' = tsqueueZCs
    BY <2>2 DEF StartMeansWhole
  <2>3. CASE tsqueueZCs' = Append(tsqueueZCs, block)
    BY <1>2, <2>1, <2>3 DEF StartMeansWhole, StreamTypeOK
  <2> QED
    BY <1>1, <2>2, <2>3
<1>7. StartUntilBroken'
  <2> SUFFICES ASSUME ~broken PROVE \A i \in 1..Len(tsqueueZCs') : Starts(tsqueueZCs'[i])
    BY <1>1 DEF StartUntilBroken
  <2>1. Starts(block)
    BY <1>2 DEF Aligned
  <2> QED
    BY <1>1, <1>2, <2>1 DEF StartUntilBroken, StreamTypeOK
<1> QED
  BY <1>3, <1>4, <1>5, <1>6, <1>7

(* The data thread takes the oldest block; the others stay what they are. *)
LEMMA TakeStep ==
  ASSUME StreamInv, DataDealZC PROVE StreamInv'
<1> USE DEF StreamInv
<1>1. /\ tsqueueZCs # <<>> /\ tsqueueZCs' = Tail(tsqueueZCs)
      /\ UNCHANGED <<onWire, measured, block, failures, broken, dropped>>
  BY DEF DataDealZC, Queue!Receive, readVars
<1>2. /\ tsqueueZCs' \in Seq(Seq(Unit)) /\ Len(tsqueueZCs') = Len(tsqueueZCs) - 1
      /\ \A i \in 1..Len(tsqueueZCs') :
           i + 1 \in 1..Len(tsqueueZCs) /\ tsqueueZCs'[i] = tsqueueZCs[i + 1]
  BY <1>1 DEF StreamTypeOK
<1>3. StreamTypeOK'
  <2>1. Len(tsqueueZCs') <= MAX_BUFFER_DEPTH + 1
    BY <1>2, WaveAssumption DEF StreamTypeOK
  <2>2. \A i \in 1..Len(tsqueueZCs') : Len(tsqueueZCs'[i]) = PACK_LEN
    BY <1>2 DEF StreamTypeOK
  <2> QED
    BY <1>1, <1>2, <2>1, <2>2 DEF StreamTypeOK
<1>4. OnePacket' /\ Aligned'
  BY <1>1 DEF OnePacket, Aligned, MidPacket
<1>5. StartMeansWhole' /\ StartUntilBroken'
  BY <1>1, <1>2 DEF StartMeansWhole, StartUntilBroken
<1> QED
  BY <1>3, <1>4, <1>5

------------------------------------------------------------------------------

(* One more packet p in place n + 1 of a channel's frame res: the frame goes out *)
(* with it or waits for more.                                                    *)
LEMMA PlaceStep ==
  ASSUME FrameInv, NEW ch \in Channel, NEW p \in Packet, NEW n \in 0..(PACKS - 1),
         n = PackIndexAll[ch],
         NEW res \in [1..PACKS -> Packet \cup {NoPacket}],
         res[n + 1] = p,
         \A j \in 1..n : res[j] = resAll[ch][j],
         resAll' = [resAll EXCEPT ![ch] = res],
         PackIndexAll' = [PackIndexAll EXCEPT ![ch] = IF n + 1 = PACKS THEN 0 ELSE n + 1],
         got' = [got EXCEPT ![ch] = Append(got[ch], p)],
         sent' = IF n + 1 = PACKS THEN [sent EXCEPT ![ch] = sent[ch] \o res] ELSE sent
  PROVE  FrameInv'
<1> DEFINE g == got[ch]
           s == sent[ch]
           h == Append(g, p)
           t == s \o res
<1>1. /\ g \in Seq(Packet) /\ s \in Seq(Packet \cup {NoPacket})
      /\ got \in [Channel -> Seq(Packet)]
      /\ sent \in [Channel -> Seq(Packet \cup {NoPacket})]
      /\ PackIndexAll \in [Channel -> 0..(PACKS - 1)]
      /\ resAll \in [Channel -> [1..PACKS -> Packet \cup {NoPacket}]]
      /\ n \in Nat /\ n + 1 \in Nat /\ Len(s) \in Nat
  <2>1. FrameTypeOK
    BY DEF FrameInv
  <2>2. /\ got \in [Channel -> Seq(Packet)]
        /\ sent \in [Channel -> Seq(Packet \cup {NoPacket})]
        /\ PackIndexAll \in [Channel -> 0..(PACKS - 1)]
        /\ resAll \in [Channel -> [1..PACKS -> Packet \cup {NoPacket}]]
    BY <2>1, Zenon DEF FrameTypeOK
  <2>3. g \in Seq(Packet) /\ s \in Seq(Packet \cup {NoPacket})
    BY <2>2, Zenon
  <2>4. n \in Nat /\ n + 1 \in Nat
    BY ONLY WaveAssumption, n \in 0..(PACKS - 1)
  <2> HIDE DEF s, g
  <2>5. Len(s) \in Nat
    BY <2>3, LenProperties, Zenon
  <2> QED
    BY <2>2, <2>3, <2>4, <2>5, Zenon
<1>2. /\ h \in Seq(Packet)
      /\ Len(h) = Len(s) + n + 1
      /\ \A i \in 1..Len(s) : h[i] = s[i]
      /\ \A j \in 1..(n + 1) : h[Len(s) + j] = res[j]
  <2>1. /\ Len(g) = Len(s) + n
        /\ \A i \in 1..Len(s) : g[i] = s[i]
        /\ \A j \in 1..n : g[Len(s) + j] = res[j]
    BY DEF FrameInv, Places
  <2>2. h = Append(g, p)
    OBVIOUS
  <2> HIDE DEF g, s, h
  <2>3. /\ h \in Seq(Packet) /\ Len(h) = Len(g) + 1
        /\ \A i \in 1..Len(g) : h[i] = g[i]
        /\ h[Len(g) + 1] = p
    BY <1>1, <2>2, AppendProperties
  <2>4. Len(h) = Len(s) + n + 1 /\ \A i \in 1..Len(s) : h[i] = s[i]
    BY <1>1, <2>1, <2>3
  <2>5. ASSUME NEW j \in 1..(n + 1) PROVE h[Len(s) + j] = res[j]
    <3>1. CASE j = n + 1
      <4>1. Len(s) + j = Len(g) + 1
        BY <1>1, <2>1, <3>1
      <4> QED
        BY <2>3, <3>1, <4>1
    <3>2. CASE j # n + 1
      <4>0. Len(s) \in Nat /\ n \in Nat /\ Len(g) = Len(s) + n
        BY <1>1, <2>1
      <4>1. j \in 1..n /\ Len(s) + j \in 1..Len(g)
        BY ONLY <4>0, <3>2, j \in 1..(n + 1)
      <4> QED
        BY <2>1, <2>3, <4>1
    <3> QED
      BY <3>1, <3>2
  <2> QED
    BY <2>3, <2>4, <2>5
<1>3. n + 1 = PACKS =>
        /\ t \in Seq(Packet \cup {NoPacket}) /\ Len(t) = Len(h)
        /\ \A i \in 1..Len(t) : h[i] = t[i]
  <2> SUFFICES ASSUME n + 1 = PACKS
               PROVE  /\ t \in Seq(Packet \cup {NoPacket}) /\ Len(t) = Len(h)
                      /\ \A i \in 1..Len(t) : h[i] = t[i]
    OBVIOUS
  <2>1. t = s \o res
    OBVIOUS
  <2> HIDE DEF g, s, h, t
  <2>2. Len(h) = Len(s) + PACKS
    BY <1>1, <1>2
  <2>3. \A j \in 1..PACKS : h[Len(s) + j] = res[j]
    BY <1>2
  <2>4. res \in Seq(Packet \cup {NoPacket}) /\ Len(res) = PACKS
    BY WaveAssumption
  <2>5. /\ t \in Seq(Packet \cup {NoPacket}) /\ Len(t) = Len(s) + PACKS
        /\ \A i \in 1..(Len(s) + PACKS) :
             t[i] = IF i <= Len(s) THEN s[i] ELSE res[i - Len(s)]
    <3> DEFINE S == Packet \cup {NoPacket}
    <3>1. s \in Seq(S) /\ res \in Seq(S)
      BY <1>1, <2>4
    <3>2. t \in Seq(S)
      BY <2>1, <3>1
    <3> HIDE DEF S
    <3>3. /\ Len(s \o res) = Len(s) + Len(res)
          /\ \A i \in 1..(Len(s) + Len(res)) :
               (s \o res)[i] = IF i <= Len(s) THEN s[i] ELSE res[i - Len(s)]
      BY ONLY <3>1, ConcatProperties, Zenon
    <3>4. /\ Len(t) = Len(s) + PACKS
          /\ \A i \in 1..(Len(s) + PACKS) :
               t[i] = IF i <= Len(s) THEN s[i] ELSE res[i - Len(s)]
      BY ONLY <3>3, <2>1, <2>4, Zenon
    <3> QED
      BY <3>2, <3>4 DEF S
  <2>6. ASSUME NEW i \in 1..(Len(s) + PACKS) PROVE h[i] = t[i]
    <3>1. CASE i <= Len(s)
      <4>0. Len(s) \in Nat /\ PACKS \in Nat
        BY <1>1, WaveAssumption
      <4>1. Len(s) \in Nat /\ i \in 1..Len(s)
        BY ONLY <4>0, <3>1, i \in 1..(Len(s) + PACKS)
      <4>2. h[i] = s[i]
        BY <1>2, <4>1
      <4> QED
        BY <2>5, <3>1, <4>2
    <3>2. CASE ~(i <= Len(s))
      <4>0. Len(s) \in Nat /\ PACKS \in Nat
        BY <1>1, WaveAssumption
      <4>1. i - Len(s) \in 1..PACKS /\ Len(s) + (i - Len(s)) = i
        BY ONLY <4>0, <3>2, i \in 1..(Len(s) + PACKS)
      <4>2. h[Len(s) + (i - Len(s))] = res[i - Len(s)]
        BY <2>3, <4>1
      <4> QED
        BY <2>5, <3>2, <4>1, <4>2
    <3> QED
      BY <3>1, <3>2
  <2> QED
    BY <2>2, <2>5, <2>6
<1>4. /\ got' = [got EXCEPT ![ch] = h] /\ got'[ch] = h /\ resAll'[ch] = res
      /\ IF n + 1 = PACKS
           THEN sent' = [sent EXCEPT ![ch] = t] /\ sent'[ch] = t /\ PackIndexAll'[ch] = 0
           ELSE sent' = sent /\ sent'[ch] = s /\ PackIndexAll'[ch] = n + 1
  BY <1>1
<1> HIDE DEF g, s, h, t
<1>5. FrameTypeOK'
  <2>1. PackIndexAll' \in [Channel -> 0..(PACKS - 1)]
    <3>1. (IF n + 1 = PACKS THEN 0 ELSE n + 1) \in 0..(PACKS - 1)
      BY <1>1, WaveAssumption
    <3> QED
      BY <1>1, <3>1
  <2>2. got' \in [Channel -> Seq(Packet)] /\ sent' \in [Channel -> Seq(Packet \cup {NoPacket})]
    BY <1>1, <1>2, <1>3, <1>4
  <2> QED
    BY <1>1, <2>1, <2>2 DEF FrameTypeOK
<1>6. Places'
  <2> SUFFICES ASSUME NEW c \in Channel
               PROVE  /\ Len(got'[c]) = Len(sent'[c]) + PackIndexAll'[c]
                      /\ \A i \in 1..Len(sent'[c]) : got'[c][i] = sent'[c][i]
                      /\ \A j \in 1..PackIndexAll'[c] :
                           got'[c][Len(sent'[c]) + j] = resAll'[c][j]
    BY DEF Places
  <2>1. CASE c # ch
    <3>1. /\ got'[c] = got[c] /\ sent'[c] = sent[c] /\ resAll'[c] = resAll[c]
          /\ PackIndexAll'[c] = PackIndexAll[c]
      BY <1>1, <1>4, <2>1
    <3>2. /\ Len(got[c]) = Len(sent[c]) + PackIndexAll[c]
          /\ \A i \in 1..Len(sent[c]) : got[c][i] = sent[c][i]
          /\ \A j \in 1..PackIndexAll[c] : got[c][Len(sent[c]) + j] = resAll[c][j]
      BY DEF FrameInv, Places
    <3> QED
      BY <3>1, <3>2, Zenon
  <2>2. CASE c = ch /\ n + 1 = PACKS
    <3>1. Len(h) = Len(h) + 0
      BY <1>2
    <3>2. got'[c] = h /\ sent'[c] = t /\ PackIndexAll'[c] = 0
      BY <1>4, <2>2
    <3>3. Len(t) = Len(h) /\ \A i \in 1..Len(t) : h[i] = t[i]
      BY <1>3, <2>2
    <3>4. \A j \in 1..0 : FALSE
      OBVIOUS
    <3> QED
      BY <3>1, <3>2, <3>3, <3>4, Zenon
  <2>3. CASE c = ch /\ n + 1 # PACKS
    <3>1. /\ got'[c] = h /\ sent'[c] = s /\ PackIndexAll'[c] = n + 1 /\ resAll'[c] = res
      BY <1>4, <2>3
    <3>2. Len(h) = Len(s) + (n + 1)
      BY <1>1, <1>2
    <3> QED
      BY <1>2, <3>1, <3>2, Zenon
  <2> QED
    BY <2>1, <2>2, <2>3
<1> QED
  BY <1>5, <1>6 DEF FrameInv

LEMMA PacketStep ==
  ASSUME FrameInv, NEW p \in Packet, ToWaveData(p) PROVE FrameInv'
<1> USE WaveAssumption DEF FrameInv, FrameTypeOK
<1>1. CASE p.ChannelNo \notin Channel
  BY <1>1 DEF ToWaveData, dealVars, Places
<1>2. CASE p.ChannelNo \in Channel
  <2> DEFINE ch == p.ChannelNo
             n == PackIndexAll[ch]
             res == [(IF n = 0 THEN EmptyFrame ELSE resAll[ch]) EXCEPT ![n + 1] = p]
  <2>1. /\ n \in 0..(PACKS - 1)
        /\ res \in [1..PACKS -> Packet \cup {NoPacket}]
        /\ res[n + 1] = p
        /\ \A j \in 1..n : res[j] = resAll[ch][j]
    BY <1>2 DEF EmptyFrame
  <2>2. /\ resAll' = [resAll EXCEPT ![ch] = res]
        /\ PackIndexAll' = [PackIndexAll EXCEPT ![ch] = IF n + 1 = PACKS THEN 0 ELSE n + 1]
        /\ got' = [got EXCEPT ![ch] = Append(got[ch], p)]
        /\ sent' = IF n + 1 = PACKS THEN [sent EXCEPT ![ch] = sent[ch] \o res] ELSE sent
    BY <1>2 DEF ToWaveData, CountPacket, NBZCDataReplay
  <2>3. ch \in Channel
    BY <1>2
  <2> HIDE DEF ch, n, res
  <2>4. n = PackIndexAll[ch]
    BY DEF n
  <2> QED
    BY <2>1, <2>2, <2>3, <2>4, PlaceStep
<1> QED
  BY <1>1, <1>2

(* What the data thread makes of a block: nothing, its packet or pieces. *)
LEMMA Dealt ==
  ASSUME StreamInv, DataDealZC
  PROVE  \/ UNCHANGED dealVars /\ ~Queued(1)
         \/ /\ Queued(1) /\ Packs(tsqueueZCs[1]) \in Packet
            /\ ToWaveData(Packs(tsqueueZCs[1]))
         \/ /\ ~Queued(1)
            /\ \E ch \in Source : Pieces(ch) \in Packet /\ ToWaveData(Pieces(ch))
<1>0. StreamTypeOK
  BY DEF StreamInv
<1>1. /\ tsqueueZCs \in Seq(Seq(Unit)) /\ tsqueueZCs # <<>> /\ 1 \in 1..Len(tsqueueZCs)
      /\ Head(tsqueueZCs) = tsqueueZCs[1]
  BY <1>0 DEF StreamTypeOK, DataDealZC, Queue!Receive
<1>2. tsqueueZCs[1] \in Seq(Unit) /\ Len(tsqueueZCs[1]) = PACK_LEN
  BY <1>0, <1>1 DEF StreamTypeOK
<1>3. tsqueueZCs[1][1] \in Unit
  BY <1>2, WaveAssumption
<1>4. Packs(tsqueueZCs[1]) \in Packet /\ tsqueueZCs[1][1].part \in Nat \ {0}
  BY <1>3 DEF Unit, Packs
<1>5. \A ch \in Source : Pieces(ch) \in Packet
  BY DEF Pieces, Packet, Undefined
<1>6. Queued(1) <=> tsqueueZCs[1][1].part = 1
  BY <1>1 DEF Queued, Starts
<1>7. Queued(1) => HasHead(tsqueueZCs[1])
  BY DEF Queued, StreamInv, StartMeansWhole
<1> QED
  BY <1>1, <1>4, <1>5, <1>6, <1>7 DEF DataDealZC, Packs

LEMMA DealStep ==
  ASSUME StreamInv, FrameInv, DataDealZC PROVE FrameInv'
<1>1. CASE UNCHANGED dealVars
  BY <1>1 DEF dealVars, FrameInv, FrameTypeOK, Places
<1>2. ASSUME NEW p \in Packet, ToWaveData(p) PROVE FrameInv'
  BY <1>2, PacketStep
<1> QED
  BY <1>1, <1>2, Dealt

(* The invariant is kept by every step. *)
LEMMA WaveInvStep ==
  ASSUME WaveInv, [Next]_vars PROVE WaveInv'
<1> USE DEF WaveInv
<1>1. [NBNext]_nbVars /\ ([WaveNext]_waveVars)
  BY DEF Next, vars
<1>2. NBInv'
  BY <1>1, NBInvStep
<1>3. NBTypeOK
  BY DEF NBInv
<1>4. StreamInv'
  <2>1. CASE UNCHANGED waveVars
    BY <2>1 DEF waveVars, readVars, StreamInv, StreamTypeOK, OnePacket, Aligned, MidPacket,
       StartMeansWhole, StartUntilBroken
  <2>2. CASE WaveNext
    BY <1>3, <2>2, ReadStep, FailStep, CallBackStep, TakeStep DEF WaveNext
  <2> QED
    BY <1>1, <2>1, <2>2
<1>5. FrameInv'
  <2>1. CASE UNCHANGED dealVars
    BY <2>1 DEF dealVars, FrameInv, FrameTypeOK, Places
  <2>2. CASE DataDealZC
    BY <2>2, DealStep
  <2> QED
    BY <1>1, <2>1, <2>2 DEF WaveNext, Read, ReadFails, CallBack, waveVars
<1> QED
  BY <1>2, <1>4, <1>5

------------------------------------------------------------------------------
(* Order *)

(* The packets of a channel further along the way were measured earlier: those  *)
(* taken, those in the queue, the one being read; and none that is still on its *)
(* way was begun after what the board has begun.                                *)
Earlier(p, q) == p.ChannelNo = q.ChannelNo => p.number < q.number
Begun(p) == p.ChannelNo \in Source /\ p.number \in Nat \ {0} /\ p.number <= measured[p.ChannelNo]

AllBegun ==
  /\ \A i : Queued(i) => Begun(Packs(tsqueueZCs[i]))
  /\ Reading => Begun(Packs(block))
  /\ \A ch \in Channel : \A k \in 1..Len(got[ch]) :
       IsPacket(got[ch][k]) => Begun(got[ch][k])
QueueOrdered ==
  /\ \A i, j : Queued(i) /\ Queued(j) /\ i < j
                 => Earlier(Packs(tsqueueZCs[i]), Packs(tsqueueZCs[j]))
  /\ \A i : Queued(i) /\ Reading => Earlier(Packs(tsqueueZCs[i]), Packs(block))
GotOrdered ==
  \A ch \in Channel : \A k \in 1..Len(got[ch]) :
    /\ got[ch][k].ChannelNo = ch
    /\ \A i : Queued(i) => Earlier(got[ch][k], Packs(tsqueueZCs[i]))
    /\ Reading => Earlier(got[ch][k], Packs(block))

(* Without a loss, what was begun and is not taken is in the queue or being read. *)
Numbered(p, ch, n) == p.ChannelNo = ch /\ p.number = n
NoneMissing ==
  ~lost => \A ch \in Channel : \A n \in Nat :
             Len(got[ch]) < n /\ n <= measured[ch]
               => \/ \E i : Queued(i) /\ Numbered(Packs(tsqueueZCs[i]), ch, n)
                  \/ Reading /\ Numbered(Packs(block), ch, n)

OrderInv == AllBegun /\ QueueOrdered /\ GotOrdered /\ NoneMissing /\ InOrder

LEMMA OrderInitInv == Init => OrderInv
<1> SUFFICES ASSUME Init PROVE OrderInv
  OBVIOUS
<1>1. /\ tsqueueZCs = <<>> /\ block = <<>> /\ measured = [ch \in Source |-> 0]
      /\ got = [ch \in Channel |-> <<>>]
  BY DEF Init, Queue!Init
<1>2. /\ ~Reading /\ (\A i : ~Queued(i)) /\ (\A ch \in Channel : Len(got[ch]) = 0)
      /\ (\A ch \in Channel : measured[ch] = 0)
  BY <1>1 DEF Reading, Queued, Source
<1> QED
  BY <1>2 DEF OrderInv, AllBegun, QueueOrdered, GotOrdered, NoneMissing, InOrder

(* The first unit of a packet begins a block or lands inside one; any other unit *)
(* begins no packet.                                                             *)
LEMMA HeadAfterRead ==
  ASSUME NBTypeOK, StreamInv, Read
  PROVE  /\ UNCHANGED <<tsqueueZCs, got, broken, dropped>>
         /\ \/ /\ measured' = measured
               /\ Reading' <=> Reading
               /\ Reading => Packs(block') = Packs(block)
            \/ \E ch \in Source :
                 /\ measured' = [measured EXCEPT ![ch] = measured[ch] + 1]
                 /\ ~MidPacket
                 /\ IF block = <<>>
                      THEN /\ Reading' /\ Numbered(Packs(block'), ch, measured[ch] + 1)
                           /\ Packs(block') = NextPacket(ch)
                      ELSE (Reading' <=> Reading) /\ Packs(block') = Packs(block)
<1> USE WaveAssumption DEF StreamInv
<1>0. UNCHANGED <<tsqueueZCs, got, broken, dropped>>
  BY DEF Read, dealVars
<1>1. PICK u \in Unit :
        /\ onWire' = <<u>> /\ block' = Append(block, u)
        /\ IF MidPacket
             THEN /\ onWire # <<>> /\ u.packet = onWire[1].packet
                  /\ u.part = onWire[1].part + 1
             ELSE u.part = 1 /\ u.head
  BY NextUnit
<1>2. block' # <<>> /\ block \in Seq(Unit) /\ block'[1] = (IF block = <<>> THEN u ELSE block[1])
  BY <1>1 DEF StreamTypeOK
<1>3. block # <<>> => (Reading' <=> Reading) /\ Packs(block') = Packs(block)
  BY <1>2 DEF Reading, Starts, Packs
<1>4. CASE MidPacket
  <2>1. measured' = measured
    BY <1>4 DEF Read
  <2>2. u.part # 1
    <3>1. onWire[1] \in Unit
      BY <1>1, <1>4 DEF StreamTypeOK
    <3>2. onWire[1].part \in Nat \ {0}
      BY <3>1 DEF Unit
    <3> QED
      BY <1>1, <1>4, <3>2
  <2>3. block = <<>> => ~Reading' /\ ~Reading
    BY <1>2, <2>2 DEF Reading, Starts
  <2> QED
    BY <1>0, <1>3, <2>1, <2>3
<1>5. CASE ~MidPacket
  <2>1. PICK ch \in Source :
          /\ onWire' = <<[packet |-> NextPacket(ch), part |-> 1, head |-> TRUE]>>
          /\ measured' = [measured EXCEPT ![ch] = @ + 1]
    BY <1>5 DEF Read
  <2>2. u.packet = NextPacket(ch) /\ u.part = 1
    BY <1>1, <2>1
  <2>3. Numbered(NextPacket(ch), ch, measured[ch] + 1)
    BY DEF NextPacket, Numbered
  <2>4. block = <<>> => /\ Reading' /\ Numbered(Packs(block'), ch, measured[ch] + 1)
                        /\ Packs(block') = NextPacket(ch)
    BY <1>2, <2>2, <2>3 DEF Reading, Starts, Packs
  <2> QED
    BY <1>0, <1>3, <1>5, <2>1, <2>4
<1> QED
  BY <1>4, <1>5

LEMMA ReadOrder ==
  ASSUME NBTypeOK, StreamInv, FrameInv, OrderInv, Read PROVE OrderInv'
<1>1. UNCHANGED <<tsqueueZCs, got, lost>> /\ measured \in [Source -> Nat]
  BY HeadAfterRead DEF StreamInv, StreamTypeOK, lost
<1>2. \A i : Queued(i)' <=> Queued(i)
  BY <1>1 DEF Queued
<1>3. CASE /\ measured' = measured
           /\ Reading' <=> Reading
           /\ Reading => Packs(block') = Packs(block)
  BY <1>1, <1>2, <1>3 DEF OrderInv, AllBegun, Begun, QueueOrdered, GotOrdered, NoneMissing, InOrder,
     Packs
<1>4. ASSUME NEW ch \in Source,
             measured' = [measured EXCEPT ![ch] = measured[ch] + 1],
             ~MidPacket,
             IF block = <<>>
               THEN Reading' /\ Numbered(Packs(block'), ch, measured[ch] + 1)
               ELSE (Reading' <=> Reading) /\ Packs(block') = Packs(block)
      PROVE  OrderInv'
  <2>1. /\ \A c \in Source : c # ch => measured'[c] = measured[c]
        /\ measured'[ch] = measured[ch] + 1 /\ measured[ch] \in Nat
    BY <1>1, <1>4
  <2>2. \A p : Begun(p) => Begun(p)'
    <3> SUFFICES ASSUME NEW p, Begun(p) PROVE p.number <= measured'[p.ChannelNo]
      BY DEF Begun
    <3> QED
      BY <1>1, <2>1 DEF Begun
  <2>3. \A p, q : Begun(p) /\ Numbered(q, ch, measured[ch] + 1) => Earlier(p, q)
    BY <1>1 DEF Begun, Numbered, Earlier
  <2>4. \A q : Numbered(q, ch, measured[ch] + 1) => Begun(q)'
    BY <2>1, <1>1 DEF Begun, Numbered
  <2>5. CASE block = <<>>
    <3>1. Reading' /\ Numbered(Packs(block'), ch, measured[ch] + 1) /\ ~Reading
      BY <1>4, <2>5 DEF Reading
    <3>2. AllBegun'
      BY <1>1, <1>2, <2>2, <2>4, <3>1 DEF OrderInv, AllBegun, Packs
    <3>3. QueueOrdered'
      BY <1>1, <1>2, <2>3, <3>1 DEF OrderInv, AllBegun, QueueOrdered, Packs
    <3>5. GotOrdered'
      <4> SUFFICES ASSUME NEW c \in Channel, NEW k \in 1..Len(got[c])
                   PROVE  Earlier(got[c][k], Packs(block'))
        BY <1>1, <1>2 DEF OrderInv, GotOrdered, Packs, Earlier
      <4>1. CASE IsPacket(got[c][k])
        BY <2>3, <3>1, <4>1 DEF OrderInv, AllBegun
      <4>2. CASE ~IsPacket(got[c][k])
        <5>1. got[c][k] \in Packet
          BY DEF FrameInv, FrameTypeOK
        <5>2. got[c][k].number = 0
          BY <4>2, <5>1 DEF IsPacket, Packet
        <5> QED
          BY <2>1, <3>1, <5>2 DEF Earlier, Numbered
      <4> QED
        BY <4>1, <4>2
    <3>4. NoneMissing'
      <4> SUFFICES ASSUME ~lost', NEW c \in Channel, NEW n \in Nat,
                          Len(got'[c]) < n, n <= measured'[c]
                   PROVE  \/ \E i : Queued(i)' /\ Numbered(Packs(tsqueueZCs'[i]), c, n)
                          \/ Reading' /\ Numbered(Packs(block'), c, n)
        BY DEF NoneMissing, Numbered, Packs
      <4>1. CASE n <= measured[c]
        BY <1>1, <1>2, <3>1, <4>1 DEF OrderInv, NoneMissing
      <4>2. CASE ~(n <= measured[c])
        <5>1. c = ch /\ n = measured[ch] + 1
          BY <1>1, <2>1, <4>2 DEF Source
        <5> QED
          BY <3>1, <5>1
      <4> QED
        BY <4>1, <4>2
    <3> QED
      BY <1>1, <3>2, <3>3, <3>4, <3>5 DEF OrderInv, InOrder
  <2>6. CASE block # <<>>
    <3>1. (Reading' <=> Reading) /\ Packs(block') = Packs(block)
      BY <1>4, <2>6
    <3>2. lost
      <4> SUFFICES ASSUME ~lost PROVE FALSE
        OBVIOUS
      <4>1. /\ Starts(block) /\ onWire = <<block[Len(block)]>> /\ block \in Seq(Unit)
            /\ block[Len(block)].part = Len(block)
        <5>1. Len(block) \in 1..Len(block) /\ block \in Seq(Unit)
          BY <2>6 DEF StreamInv, StreamTypeOK
        <5> QED
          BY <2>6, <5>1 DEF StreamInv, Aligned, OnePacket, lost
      <4>2. Len(block) < PACK_LEN
        BY DEF Read
      <4> QED
        BY <1>4, <4>1, <4>2 DEF MidPacket
    <3>3. AllBegun'
      BY <1>1, <1>2, <2>2, <3>1 DEF OrderInv, AllBegun, Packs
    <3>4. QueueOrdered' /\ GotOrdered'
      BY <1>1, <1>2, <3>1 DEF OrderInv, QueueOrdered, GotOrdered, Packs
    <3>5. NoneMissing'
      BY <1>1, <3>2 DEF NoneMissing
    <3> QED
      BY <1>1, <3>3, <3>4, <3>5 DEF OrderInv, InOrder
  <2> QED
    BY <2>5, <2>6
<1> QED
  BY <1>3, <1>4, HeadAfterRead

LEMMA FailOrder ==
  ASSUME OrderInv, ReadFails PROVE OrderInv'
<1>1. /\ block' = <<>> /\ UNCHANGED <<measured, tsqueueZCs, got>>
      /\ ~lost' => ~lost /\ block = <<>>
  BY DEF ReadFails, dealVars, lost
<1>2. ~Reading' /\ (\A i : Queued(i)' <=> Queued(i)) /\ (~lost' => ~Reading)
  BY <1>1 DEF Reading, Queued
<1> QED
  BY <1>1, <1>2 DEF OrderInv, AllBegun, Begun, QueueOrdered, GotOrdered, NoneMissing, InOrder, Packs

LEMMA CallBackOrder ==
  ASSUME StreamInv, FrameInv, OrderInv, CallBack PROVE OrderInv'
<1> USE WaveAssumption
<1>1. /\ block' = <<>> /\ UNCHANGED <<measured, got>> /\ block # <<>>
      /\ tsqueueZCs \in Seq(Seq(Unit)) /\ block \in Seq(Unit)
  BY DEF CallBack, NewBlock, IsFull, dealVars, StreamInv, StreamTypeOK
<1>2. ~Reading' /\ (Reading <=> Starts(block))
  BY <1>1 DEF Reading
<1>3. CASE tsqueueZCs' = Append(tsqueueZCs, block) /\ lost' = lost
  <2> DEFINE N == Len(tsqueueZCs) + 1
  <2>1. /\ Len(tsqueueZCs) \in Nat /\ Len(tsqueueZCs') = N
        /\ tsqueueZCs'[N] = block /\ \A i \in 1..Len(tsqueueZCs) : tsqueueZCs'[i] = tsqueueZCs[i]
    BY <1>1, <1>3
  <2>2. /\ \A i : Queued(i)' <=> Queued(i) \/ (i = N /\ Reading)
        /\ \A i : Queued(i) => tsqueueZCs'[i] = tsqueueZCs[i] /\ i < N /\ i \in Nat
    BY <1>2, <2>1 DEF Queued
  <2> HIDE DEF N
  <2>3. AllBegun'
    BY <1>1, <1>2, <2>1, <2>2 DEF OrderInv, AllBegun, Begun, Packs
  <2>4. QueueOrdered'
    BY <1>2, <2>1, <2>2 DEF OrderInv, QueueOrdered, Packs
  <2>5. GotOrdered'
    BY <1>1, <1>2, <2>1, <2>2 DEF OrderInv, GotOrdered, Packs
  <2>6. NoneMissing'
    BY <1>1, <1>2, <1>3, <2>1, <2>2 DEF OrderInv, NoneMissing, Packs
  <2> QED
    BY <1>1, <1>3, <2>3, <2>4, <2>5, <2>6 DEF OrderInv, InOrder
<1>4. CASE tsqueueZCs' = tsqueueZCs /\ lost'
  <2>1. \A i : Queued(i)' <=> Queued(i)
    BY <1>4 DEF Queued
  <2> QED
    BY <1>1, <1>2, <1>4, <2>1 DEF OrderInv, AllBegun, Begun, QueueOrdered, GotOrdered, NoneMissing,
       InOrder, Packs
<1> QED
  BY <1>3, <1>4 DEF CallBack, Queue!Send, lost

LEMMA DealOrder ==
  ASSUME StreamInv, FrameInv, OrderInv, DataDealZC PROVE OrderInv'
<1> DEFINE p == Packs(tsqueueZCs[1])
           ch == p.ChannelNo
           Counts == Queued(1) /\ ch \in Channel
<1>1. /\ tsqueueZCs \in Seq(Seq(Unit)) /\ tsqueueZCs # <<>>
      /\ tsqueueZCs' = Tail(tsqueueZCs) /\ Head(tsqueueZCs) = tsqueueZCs[1]
      /\ UNCHANGED <<measured, block, lost>>
  BY DEF DataDealZC, Queue!Receive, readVars, StreamInv, StreamTypeOK, lost
<1>2. /\ Len(tsqueueZCs) \in Nat \ {0} /\ Len(tsqueueZCs') = Len(tsqueueZCs) - 1
      /\ \A i \in 1..Len(tsqueueZCs') : tsqueueZCs'[i] = tsqueueZCs[i + 1]
  BY <1>1
<1>3. /\ \A i : Queued(i)' => i \in Nat /\ Queued(i + 1) /\ tsqueueZCs'[i] = tsqueueZCs[i + 1]
      /\ \A i : Queued(i) /\ i # 1 => i \in Nat /\ Queued(i - 1)' /\ tsqueueZCs'[i - 1] = tsqueueZCs[i]
  <2>1. ASSUME NEW i, Queued(i)'
        PROVE  i \in Nat /\ Queued(i + 1) /\ tsqueueZCs'[i] = tsqueueZCs[i + 1]
    BY <1>2, <2>1 DEF Queued
  <2>2. ASSUME NEW i, Queued(i), i # 1
        PROVE  i \in Nat /\ Queued(i - 1)' /\ tsqueueZCs'[i - 1] = tsqueueZCs[i]
    <3>1. i \in Nat /\ i - 1 \in 1..Len(tsqueueZCs') /\ (i - 1) + 1 = i
      BY <1>2, <2>2 DEF Queued
    <3> QED
      BY <1>2, <2>2, <3>1 DEF Queued
  <2> QED
    BY <2>1, <2>2
<1>4. (Reading' <=> Reading) /\ Packs(block') = Packs(block) /\ (\A q : Begun(q)' <=> Begun(q))
  BY <1>1 DEF Reading, Packs, Begun
<1>5. \/ ~Counts /\ got' = got
      \/ Counts /\ got' = [got EXCEPT ![ch] = Append(got[ch], p)]
      \/ /\ ~Queued(1)
         /\ \E c \in Channel : got' = [got EXCEPT ![c] = Append(got[c], Pieces(c))]
  BY Dealt DEF ToWaveData, dealVars, Pieces
<1>6. QueueOrdered'
  <2>1. ASSUME NEW i, NEW j, Queued(i)', Queued(j)', i < j
        PROVE  Earlier(Packs(tsqueueZCs'[i]), Packs(tsqueueZCs'[j]))
    <3>1. /\ Queued(i + 1) /\ Queued(j + 1) /\ i \in Nat /\ j \in Nat
          /\ tsqueueZCs'[i] = tsqueueZCs[i + 1] /\ tsqueueZCs'[j] = tsqueueZCs[j + 1]
      BY <1>3, <2>1
    <3>2. i + 1 < j + 1
      BY <2>1, <3>1
    <3> QED
      BY <3>1, <3>2 DEF OrderInv, QueueOrdered
  <2>2. ASSUME NEW i, Queued(i)', Reading'
        PROVE  Earlier(Packs(tsqueueZCs'[i]), Packs(block'))
    BY <1>3, <1>4, <2>2 DEF OrderInv, QueueOrdered
  <2> QED
    BY <2>1, <2>2 DEF QueueOrdered, Packs, Earlier
<1>7. \A i : Queued(i)' => Begun(Packs(tsqueueZCs'[i]))
  BY <1>3 DEF OrderInv, AllBegun
<1> HIDE DEF Counts, ch, p
<1>8. CASE ~Counts /\ got' = got
  <2>1. AllBegun' /\ GotOrdered'
    <3>1. got' = got
      BY <1>5, <1>8
    <3>2. AllBegun'
      BY <1>1, <1>4, <1>7, <3>1 DEF OrderInv, AllBegun, Begun, Packs
    <3>3. GotOrdered'
      <4> SUFFICES ASSUME NEW c \in Channel, NEW k \in 1..Len(got'[c])
                   PROVE  /\ got'[c][k].ChannelNo = c
                          /\ \A i : Queued(i)' => Earlier(got'[c][k], Packs(tsqueueZCs'[i]))
                          /\ Reading' => Earlier(got'[c][k], Packs(block'))
        BY DEF GotOrdered, Earlier, Packs
      <4> QED
        BY <1>3, <1>4, <3>1 DEF OrderInv, GotOrdered
    <3> QED
      BY <3>2, <3>3
  <2>2. NoneMissing'
    <3> SUFFICES ASSUME ~lost', NEW c \in Channel, NEW n \in Nat,
                        Len(got'[c]) < n, n <= measured'[c]
                 PROVE  \/ \E i : Queued(i)' /\ Numbered(Packs(tsqueueZCs'[i]), c, n)
                        \/ Reading' /\ Numbered(Packs(block'), c, n)
      BY DEF NoneMissing, Numbered, Packs
    <3>1. \/ \E i : Queued(i) /\ Numbered(Packs(tsqueueZCs[i]), c, n)
          \/ Reading /\ Numbered(Packs(block), c, n)
      BY <1>1, <1>5, <1>8 DEF OrderInv, NoneMissing
    <3>2. ~(Queued(1) /\ Numbered(Packs(tsqueueZCs[1]), c, n))
      BY <1>8 DEF Counts, ch, p, Numbered
    <3> QED
      BY <1>3, <1>4, <3>1, <3>2
  <2> QED
    BY <1>5, <1>6, <1>8, <1>1, <2>1, <2>2 DEF OrderInv, InOrder
<1>9. CASE Counts /\ got' = [got EXCEPT ![ch] = Append(got[ch], p)]
  <2> DEFINE g == got[ch]
             h == Append(g, p)
  <2>1. /\ ch \in Channel /\ Queued(1) /\ p = Packs(tsqueueZCs[1]) /\ p.ChannelNo = ch
        /\ Begun(p)
    BY <1>9 DEF Counts, ch, p, OrderInv, AllBegun
  <2>2. got \in [Channel -> Seq(Packet)] /\ g \in Seq(Packet) /\ Len(g) \in Nat
    BY <2>1 DEF FrameInv, FrameTypeOK
  <2>3. /\ got'[ch] = h /\ \A c \in Channel : c # ch => got'[c] = got[c]
    BY <1>5, <1>9, <2>1, <2>2
  <2>4. p \in Packet
    <3>1. tsqueueZCs[1] \in Seq(Unit) /\ Len(tsqueueZCs[1]) = PACK_LEN
      BY <1>1, <1>2 DEF StreamInv, StreamTypeOK
    <3>2. tsqueueZCs[1][1] \in Unit
      BY <3>1, WaveAssumption
    <3> QED
      BY <2>1, <3>2 DEF Packs, Unit
  <2> HIDE DEF g, h
  <2>5. /\ Len(h) = Len(g) + 1 /\ h[Len(g) + 1] = p
        /\ \A k \in 1..Len(g) : h[k] = g[k]
    BY <2>2, <2>4, AppendProperties DEF h
  <2>6. \A k \in 1..Len(h) : k \in 1..Len(g) \/ k = Len(g) + 1
    BY <2>2, <2>5
  <2>7. /\ p.number \in Nat \ {0} /\ p.number <= measured[ch] /\ ch \in Source
    BY <2>1 DEF Begun
  <2>8. \A k \in 1..Len(g) : g[k].ChannelNo = ch /\ g[k].number < p.number
    BY <2>1, <2>7 DEF OrderInv, GotOrdered, Earlier, g
  <2>9. \A i : Queued(i)' => Earlier(p, Packs(tsqueueZCs'[i]))
    <3> SUFFICES ASSUME NEW i, Queued(i)' PROVE Earlier(p, Packs(tsqueueZCs'[i]))
      OBVIOUS
    <3>1. Queued(i + 1) /\ tsqueueZCs'[i] = tsqueueZCs[i + 1] /\ i \in Nat /\ 1 < i + 1
      BY <1>2, <1>3 DEF Queued
    <3> QED
      BY <2>1, <3>1 DEF OrderInv, QueueOrdered
  <2>10. Reading => Earlier(p, Packs(block))
    BY <2>1 DEF OrderInv, QueueOrdered
  <2>11. ~lost => p.number = Len(g) + 1
    <3> SUFFICES ASSUME ~lost PROVE p.number = Len(g) + 1
      OBVIOUS
    <3>1. Len(g) < p.number
      <4>1. CASE Len(g) = 0
        BY <2>7, <4>1
      <4>2. CASE Len(g) # 0
        <5>1. Len(g) \in 1..Len(g)
          BY <2>2, <4>2
        <5>2. g[Len(g)].number = Len(g)
          BY <2>1, <5>1 DEF OrderInv, InOrder, g
        <5> QED
          BY <2>8, <5>1, <5>2
      <4> QED
        BY <4>1, <4>2
    <3>2. Len(g) + 1 \in Nat /\ Len(g) < Len(g) + 1 /\ Len(g) + 1 <= p.number
      BY <2>2, <2>7, <3>1
    <3>3. measured[ch] \in Nat
      BY <2>7 DEF StreamInv, StreamTypeOK
    <3>4. Len(g) + 1 <= measured[ch]
      BY <2>7, <3>2, <3>3
    <3>5. \/ \E i : Queued(i) /\ Numbered(Packs(tsqueueZCs[i]), ch, Len(g) + 1)
          \/ Reading /\ Numbered(Packs(block), ch, Len(g) + 1)
      BY <2>1, <3>2, <3>4 DEF OrderInv, NoneMissing, g
    <3>6. CASE Reading /\ Numbered(Packs(block), ch, Len(g) + 1)
      BY <2>1, <2>7, <2>10, <3>2, <3>6 DEF Earlier, Numbered
    <3>7. ASSUME NEW i, Queued(i), Numbered(Packs(tsqueueZCs[i]), ch, Len(g) + 1)
          PROVE  p.number = Len(g) + 1
      <4>1. CASE i = 1
        BY <2>1, <3>7, <4>1 DEF Numbered
      <4>2. CASE i # 1
        <5>1. 1 < i
          BY <3>7, <4>2, <1>2 DEF Queued
        <5>2. Earlier(p, Packs(tsqueueZCs[i]))
          BY <2>1, <3>7, <5>1 DEF OrderInv, QueueOrdered
        <5> QED
          BY <2>1, <2>7, <3>2, <3>7, <5>2 DEF Earlier, Numbered
      <4> QED
        BY <4>1, <4>2
    <3> QED
      BY <3>5, <3>6, <3>7
  <2>12. AllBegun'
    <3> SUFFICES ASSUME NEW c \in Channel, NEW k \in 1..Len(got'[c]), got'[c][k].number > 0
                 PROVE  Begun(got'[c][k])
      BY <1>1, <1>4, <1>7 DEF OrderInv, AllBegun, Begun, Packs, IsPacket
    <3>1. CASE c # ch
      BY <1>4, <2>3, <3>1 DEF OrderInv, AllBegun, IsPacket
    <3>2. CASE c = ch
      <4>1. CASE k \in 1..Len(g)
        BY <1>4, <2>1, <2>3, <2>5, <3>2, <4>1 DEF OrderInv, AllBegun, IsPacket, g
      <4>2. CASE k = Len(g) + 1
        BY <1>4, <2>1, <2>3, <2>5, <3>2, <4>2
      <4> QED
        BY <2>3, <2>6, <3>2, <4>1, <4>2
    <3> QED
      BY <3>1, <3>2
  <2>13. GotOrdered'
    <3> SUFFICES ASSUME NEW c \in Channel, NEW k \in 1..Len(got'[c])
                 PROVE  /\ got'[c][k].ChannelNo = c
                        /\ \A i : Queued(i)' => Earlier(got'[c][k], Packs(tsqueueZCs'[i]))
                        /\ Reading' => Earlier(got'[c][k], Packs(block'))
      BY DEF GotOrdered, Earlier, Packs
    <3>1. CASE c # ch
      BY <1>3, <1>4, <2>3, <3>1 DEF OrderInv, GotOrdered
    <3>2. CASE c = ch
      <4>1. CASE k \in 1..Len(g)
        BY <1>3, <1>4, <2>1, <2>3, <2>5, <3>2, <4>1 DEF OrderInv, GotOrdered, g
      <4>2. CASE k = Len(g) + 1
        BY <1>4, <2>1, <2>3, <2>5, <2>9, <2>10, <3>2, <4>2
      <4> QED
        BY <2>3, <2>6, <3>2, <4>1, <4>2
    <3> QED
      BY <3>1, <3>2
  <2>14. NoneMissing'
    <3> SUFFICES ASSUME ~lost', NEW c \in Channel, NEW n \in Nat,
                        Len(got'[c]) < n, n <= measured'[c]
                 PROVE  \/ \E i : Queued(i)' /\ Numbered(Packs(tsqueueZCs'[i]), c, n)
                        \/ Reading' /\ Numbered(Packs(block'), c, n)
      BY DEF NoneMissing, Numbered, Packs
    <3>1. Len(got[c]) < n /\ (c = ch => n # p.number)
      <4>1. CASE c # ch
        BY <2>3, <4>1
      <4>2. CASE c = ch
        BY <1>1, <2>2, <2>3, <2>5, <2>11, <4>2 DEF g
      <4> QED
        BY <4>1, <4>2
    <3>2. \/ \E i : Queued(i) /\ Numbered(Packs(tsqueueZCs[i]), c, n)
          \/ Reading /\ Numbered(Packs(block), c, n)
      BY <1>1, <3>1 DEF OrderInv, NoneMissing
    <3>3. ~Numbered(Packs(tsqueueZCs[1]), c, n)
      BY <2>1, <3>1 DEF Numbered
    <3> QED
      BY <1>3, <1>4, <3>2, <3>3
  <2>15. InOrder'
    <3> SUFFICES ASSUME NEW c \in Channel, NEW k \in 1..Len(got'[c])
                 PROVE  /\ \A m \in 1..(k - 1) : IsPacket(got'[c][m]) /\ IsPacket(got'[c][k])
                             => got'[c][m].number < got'[c][k].number
                        /\ ~lost' => got'[c][k].number = k
      BY DEF InOrder, IsPacket
    <3>1. CASE c # ch
      BY <1>1, <2>3, <3>1 DEF OrderInv, InOrder
    <3>2. CASE c = ch
      <4>1. CASE k \in 1..Len(g)
        <5>1. \A m \in 1..(k - 1) : m \in 1..Len(g)
          BY <2>2, <4>1
        <5> QED
          BY <1>1, <2>1, <2>3, <2>5, <3>2, <4>1, <5>1 DEF OrderInv, InOrder, g
      <4>2. CASE k = Len(g) + 1
        <5>1. \A m \in 1..(k - 1) : m \in 1..Len(g)
          BY <2>2, <4>2
        <5> QED
          BY <1>1, <2>3, <2>5, <2>8, <2>11, <3>2, <4>2, <5>1
      <4> QED
        BY <2>3, <2>6, <3>2, <4>1, <4>2
    <3> QED
      BY <3>1, <3>2
  <2> QED
    BY <1>6, <2>12, <2>13, <2>14, <2>15 DEF OrderInv
<1>10. ASSUME NEW c \in Channel, ~Queued(1),
              got' = [got EXCEPT ![c] = Append(got[c], Pieces(c))]
       PROVE  OrderInv'
  <2>1. lost'
    <3>1. ~Starts(tsqueueZCs[1]) /\ 1 \in 1..Len(tsqueueZCs)
      BY <1>2, <1>10 DEF Queued
    <3> QED
      BY <1>1, <3>1 DEF StreamInv, StartUntilBroken, lost
  <2> DEFINE g == got[c]
             h == Append(g, Pieces(c))
  <2>2. got \in [Channel -> Seq(Packet)] /\ g \in Seq(Packet) /\ Len(g) \in Nat
    BY DEF FrameInv, FrameTypeOK
  <2>3. /\ got'[c] = h /\ \A x \in Channel : x # c => got'[x] = got[x]
    BY <1>10, <2>2
  <2>4. Pieces(c) \in Packet /\ Pieces(c).ChannelNo = c /\ Pieces(c).number = 0
    BY DEF Pieces, Packet, Undefined, Source
  <2> HIDE DEF g, h
  <2>5. /\ Len(h) = Len(g) + 1 /\ h[Len(g) + 1] = Pieces(c)
        /\ \A k \in 1..Len(g) : h[k] = g[k]
        /\ \A k \in 1..Len(h) : k \in 1..Len(g) \/ k = Len(g) + 1
    BY <2>2, <2>4, AppendProperties DEF h
  <2>6. \A x \in Channel : \A k \in 1..Len(got'[x]) :
          \/ k \in 1..Len(got[x]) /\ got'[x][k] = got[x][k]
          \/ x = c /\ got'[x][k] = Pieces(c)
    BY <2>3, <2>5 DEF g
  <2>7. AllBegun'
    <3> SUFFICES ASSUME NEW x \in Channel, NEW k \in 1..Len(got'[x]), got'[x][k].number > 0
                 PROVE  Begun(got'[x][k])
      BY <1>1, <1>4, <1>7 DEF OrderInv, AllBegun, Begun, Packs, IsPacket
    <3> QED
      BY <2>4, <2>6 DEF OrderInv, AllBegun, IsPacket
  <2>8. GotOrdered'
    <3> SUFFICES ASSUME NEW x \in Channel, NEW k \in 1..Len(got'[x])
                 PROVE  /\ got'[x][k].ChannelNo = x
                        /\ \A i : Queued(i)' => Earlier(got'[x][k], Packs(tsqueueZCs'[i]))
                        /\ Reading' => Earlier(got'[x][k], Packs(block'))
      BY DEF GotOrdered, Earlier, Packs
    <3>1. CASE k \in 1..Len(got[x]) /\ got'[x][k] = got[x][k]
      BY <1>3, <1>4, <3>1 DEF OrderInv, GotOrdered
    <3>2. CASE x = c /\ got'[x][k] = Pieces(c)
      <4>1. \A q : Begun(q) => Earlier(Pieces(c), q)
        BY <2>4 DEF Begun, Earlier
      <4>2. Reading' => Begun(Packs(block'))
        BY <1>4 DEF OrderInv, AllBegun
      <4> QED
        BY <1>7, <2>4, <3>2, <4>1, <4>2
    <3> QED
      BY <2>6, <3>1, <3>2
  <2>9. NoneMissing'
    BY <2>1 DEF NoneMissing
  <2>10. InOrder'
    <3> SUFFICES ASSUME NEW x \in Channel, NEW k \in 1..Len(got'[x]), NEW m \in 1..(k - 1),
                        got'[x][m].number > 0, got'[x][k].number > 0
                 PROVE  got'[x][m].number < got'[x][k].number
      BY <2>1 DEF InOrder, IsPacket
    <3>1. k \in 1..Len(got[x]) /\ got'[x][k] = got[x][k]
      BY <2>4, <2>6
    <3>2. m \in 1..Len(got'[x])
      <4>1. Len(got'[x]) \in Nat
        BY <2>2, <2>3, <2>5 DEF g
      <4> QED
        BY <4>1
    <3>3. got'[x][m] = got[x][m]
      BY <2>4, <2>6, <3>2
    <3> QED
      BY <3>1, <3>3 DEF OrderInv, InOrder, IsPacket
  <2> QED
    BY <1>6, <2>7, <2>8, <2>9, <2>10 DEF OrderInv
<1> QED
  BY <1>5, <1>8, <1>9, <1>10

LEMMA OrderInvStep ==
  ASSUME WaveInv, OrderInv, [Next]_vars PROVE OrderInv'
<1>1. NBTypeOK /\ StreamInv /\ FrameInv
  BY DEF WaveInv, NBInv
<1>2. CASE UNCHANGED waveVars
  BY <1>2 DEF waveVars, readVars, dealVars, OrderInv, AllBegun, Begun, QueueOrdered, GotOrdered,
     NoneMissing, InOrder, Reading, Queued, Packs, lost
<1>3. CASE WaveNext
  BY <1>1, <1>3, ReadOrder, FailOrder, CallBackOrder, DealOrder DEF WaveNext
<1> QED
  BY <1>2, <1>3 DEF Next, vars

------------------------------------------------------------------------------
(* What was measured since a channel settled *)

MeasuredNow(p, ch) == p.rf = boardRF /\ p.dds = boardDDS[ch] /\ p.cic = boardCIC[ch]
Fresh(p) ==
  p.ChannelNo \in settled /\ p.number > since[p.ChannelNo] => MeasuredNow(p, p.ChannelNo)
AllFresh ==
  /\ since \in [Channel -> Nat]
  /\ \A i : Queued(i) => Fresh(Packs(tsqueueZCs[i]))
  /\ Reading => Fresh(Packs(block))
  /\ \A ch \in Channel : \A k \in 1..Len(got[ch]) : Fresh(got[ch][k])

(* A channel stays settled only through steps that leave the board's settings of *)
(* it alone.                                                                     *)
LEMMA SettledBoard ==
  ASSUME NBInv, [NBNext]_nbVars, NEW ch \in settled, ch \in settled'
  PROVE  boardRF' = boardRF /\ boardDDS'[ch] = boardDDS[ch] /\ boardCIC'[ch] = boardCIC[ch]
<1> USE DEF board
<1>0. NBTypeOK
  BY DEF NBInv
<1>1. CASE UNCHANGED nbVars
  BY <1>1 DEF nbVars
<1>2. ASSUME NEW c \in Client, SendRF(c) PROVE FALSE
  BY <1>2 DEF SendRF, NBInv, Receiving
<1>3. ASSUME NEW c \in Client, SendNB(c)
      PROVE  boardRF' = boardRF /\ boardDDS'[ch] = boardDDS[ch] /\ boardCIC'[ch] = boardCIC[ch]
  <2>1. CmdChannel[c] # ch
    BY <1>3 DEF SendNB, NBInv, Unsettled
  <2> QED
    BY <1>0, <1>3, <2>1 DEF SendNB, NBTypeOK
<1> QED
  BY <1>1, <1>2, <1>3 DEF NBNext, SetCmdNBReceiver, SetCmdNBChannel, SetFreq, SetBandWidth,
     CommandThrows

(* A command leaves fresh what was, and makes of what is under way nothing that  *)
(* was measured since.                                                           *)
LEMMA CommandFresh ==
  ASSUME WaveInv, OrderInv, AllFresh, [NBNext]_nbVars, Settle, UNCHANGED waveVars
  PROVE  AllFresh'
<1>1. UNCHANGED <<block, tsqueueZCs, got, measured>>
  BY DEF waveVars, readVars, dealVars
<1>2. /\ NBInv /\ settled \subseteq Channel /\ settled' \subseteq Channel
      /\ measured \in [Source -> Nat] /\ got \in [Channel -> Seq(Packet)]
  BY NBTypeStep DEF WaveInv, NBInv, NBTypeOK, StreamInv, StreamTypeOK, FrameInv, FrameTypeOK
<1>3. since' \in [Channel -> Nat] /\ since \in [Channel -> Nat]
  BY <1>2 DEF Settle, AllFresh, Source
<1>4. ASSUME NEW p, Fresh(p), p.number \in Nat, p.number > 0 => Begun(p)
      PROVE  Fresh(p)'
  <2> SUFFICES ASSUME p.ChannelNo \in settled', p.number > since'[p.ChannelNo]
               PROVE  MeasuredNow(p, p.ChannelNo)'
    BY DEF Fresh, MeasuredNow
  <2>1. CASE p.ChannelNo \in settled
    <3>1. since'[p.ChannelNo] = since[p.ChannelNo]
      BY <1>2, <2>1 DEF Settle
    <3> QED
      BY <1>2, <1>4, <2>1, <3>1, SettledBoard DEF Fresh, MeasuredNow
  <2>2. CASE p.ChannelNo \notin settled
    <3>1. since'[p.ChannelNo] = measured[p.ChannelNo] /\ since'[p.ChannelNo] \in Nat
      BY <1>2, <1>3, <2>2 DEF Settle
    <3>2. p.number > 0
      BY <1>4, <3>1
    <3> QED
      BY <1>4, <3>1, <3>2 DEF Begun
  <2> QED
    BY <2>1, <2>2
<1>5. \A p : Fresh(p) /\ Begun(p) => Fresh(p)'
  BY <1>4 DEF Begun
<1>6. ASSUME NEW ch \in Channel, NEW k \in 1..Len(got[ch]) PROVE Fresh(got[ch][k])'
  <2>1. got[ch][k] \in Packet
    BY <1>2
  <2>2. got[ch][k].number \in Nat
    BY <2>1 DEF Packet
  <2>3. Fresh(got[ch][k]) /\ (got[ch][k].number > 0 => Begun(got[ch][k]))
    BY DEF AllFresh, OrderInv, AllBegun, IsPacket
  <2>4. PICK p : p = got[ch][k]
    OBVIOUS
  <2>5. Fresh(p)'
    BY <1>4, <2>2, <2>3, <2>4
  <2>6. p = got'[ch][k]
    BY <1>1, <2>4
  <2> QED
    BY <1>1, <2>4, <2>5 DEF Fresh, MeasuredNow
<1>7. /\ \A i : Queued(i)' => Fresh(Packs(tsqueueZCs[i]))'
      /\ Reading' => Fresh(Packs(block))'
  BY <1>1, <1>5 DEF AllFresh, OrderInv, AllBegun, Queued, Reading, Packs, Fresh, MeasuredNow
<1> QED
  BY <1>1, <1>3, <1>6, <1>7 DEF AllFresh

(* What the board measures is fresh, and goes its way unchanged. *)
LEMMA WaveFresh ==
  ASSUME WaveInv, OrderInv, AllFresh, WaveNext, UNCHANGED <<nbVars, since>>
  PROVE  AllFresh'
<1>0. NBTypeOK /\ StreamInv /\ StreamTypeOK /\ FrameInv
  BY DEF WaveInv, NBInv, StreamInv
<1>1. UNCHANGED <<settled, boardRF, boardDDS, boardCIC>> /\ since' = since
  BY DEF nbVars, board
<1>2. \A p : Fresh(p)' <=> Fresh(p)
  BY <1>1 DEF Fresh, MeasuredNow
<1>3. CASE Read
  <2>1. \A ch \in Source : Fresh(NextPacket(ch))
    BY <1>0 DEF Fresh, MeasuredNow, NextPacket, NBTypeOK
  <2>2. UNCHANGED <<tsqueueZCs, got>>
    BY <1>3 DEF Read, dealVars
  <2>3. Reading' => Fresh(Packs(block'))
    BY <1>0, <1>3, <2>1, HeadAfterRead DEF AllFresh
  <2> QED
    BY <1>1, <1>2, <2>2, <2>3 DEF AllFresh, Queued, Packs
<1>4. CASE ReadFails
  <2>1. UNCHANGED <<tsqueueZCs, got>> /\ block' = <<>>
    BY <1>4 DEF ReadFails, dealVars
  <2> QED
    BY <1>1, <1>2, <2>1 DEF AllFresh, Queued, Reading, Packs
<1>5. CASE CallBack
  <2>1. /\ UNCHANGED got /\ block' = <<>> /\ block # <<>>
        /\ tsqueueZCs' = tsqueueZCs \/ tsqueueZCs' = Append(tsqueueZCs, block)
    BY <1>0, <1>5, WaveAssumption DEF CallBack, NewBlock, IsFull, dealVars, Queue!Send, StreamTypeOK
  <2>2. ASSUME NEW i, Queued(i)' PROVE Fresh(Packs(tsqueueZCs'[i]))
    <3>1. CASE tsqueueZCs' = tsqueueZCs
      BY <2>2, <3>1 DEF AllFresh, Queued
    <3>2. CASE tsqueueZCs' = Append(tsqueueZCs, block)
      <4>1. \/ i \in 1..Len(tsqueueZCs) /\ tsqueueZCs'[i] = tsqueueZCs[i]
            \/ tsqueueZCs'[i] = block
        BY <1>0, <2>2, <3>2 DEF Queued, StreamTypeOK
      <4> QED
        BY <2>1, <2>2, <4>1 DEF AllFresh, Queued, Reading
    <3> QED
      BY <2>1, <3>1, <3>2
  <2> QED
    BY <1>1, <1>2, <2>1, <2>2 DEF AllFresh, Reading, Packs
<1>6. CASE DataDealZC
  <2>1. /\ tsqueueZCs \in Seq(Seq(Unit)) /\ tsqueueZCs # <<>>
        /\ tsqueueZCs' = Tail(tsqueueZCs) /\ UNCHANGED block
    BY <1>0, <1>6 DEF DataDealZC, Queue!Receive, readVars, StreamTypeOK
  <2>2. ASSUME NEW i, Queued(i)' PROVE Fresh(Packs(tsqueueZCs'[i]))
    <3>1. Queued(i + 1) /\ tsqueueZCs'[i] = tsqueueZCs[i + 1]
      BY <2>1, <2>2 DEF Queued
    <3> QED
      BY <3>1 DEF AllFresh
  <2>3. \/ got' = got
        \/ \E ch \in Channel : \E p \in Packet :
             got' = [got EXCEPT ![ch] = Append(got[ch], p)] /\ Fresh(p)
    <3>1. \A p : ToWaveData(p) =>
            \/ got' = got
            \/ p.ChannelNo \in Channel
               /\ got' = [got EXCEPT ![p.ChannelNo] = Append(got[p.ChannelNo], p)]
      BY DEF ToWaveData, dealVars
    <3>2. Queued(1) => Fresh(Packs(tsqueueZCs[1]))
      BY DEF AllFresh
    <3>3. \A ch \in Channel : since[ch] \in Nat
      BY DEF AllFresh
    <3>4. \A ch \in Source : Fresh(Pieces(ch))
      BY <1>0, <3>3 DEF Fresh, Pieces, NBTypeOK
    <3> QED
      BY <1>0, <1>6, <3>1, <3>2, <3>4, Dealt DEF dealVars
  <2>4. ASSUME NEW ch \in Channel, NEW k \in 1..Len(got'[ch]) PROVE Fresh(got'[ch][k])
    <3>1. CASE got' = got
      BY <2>4, <3>1 DEF AllFresh
    <3>2. ASSUME NEW c \in Channel, NEW p \in Packet, Fresh(p),
                 got' = [got EXCEPT ![c] = Append(got[c], p)]
          PROVE  Fresh(got'[ch][k])
      <4>1. got \in [Channel -> Seq(Packet)]
        BY <1>0 DEF FrameInv, FrameTypeOK
      <4>2. \/ k \in 1..Len(got[ch]) /\ got'[ch][k] = got[ch][k]
            \/ got'[ch][k] = p
        BY <2>4, <3>2, <4>1
      <4> QED
        BY <3>2, <4>2 DEF AllFresh
    <3> QED
      BY <2>3, <3>1, <3>2
  <2>5. Reading' => Fresh(Packs(block'))
    BY <2>1 DEF AllFresh, Reading
  <2> QED
    BY <1>1, <1>2, <2>2, <2>4, <2>5 DEF AllFresh, Packs
<1> QED
  BY <1>3, <1>4, <1>5, <1>6 DEF WaveNext

LEMMA FreshStep ==
  ASSUME WaveInv, OrderInv, AllFresh, [Next]_vars PROVE AllFresh'
<1>1. CASE UNCHANGED vars
  BY <1>1 DEF vars, nbVars, board, waveVars, readVars, dealVars, AllFresh, Queued, Reading,
     Packs, Fresh, MeasuredNow
<1>2. CASE Next
  BY <1>2, CommandFresh, WaveFresh DEF Next
<1> QED
  BY <1>1, <1>2

(* The invariant holds in every state of reader, data thread and commands.      *)
THEOREM WaveInvariant == Spec => []WaveInv
BY WaveInitInv, WaveInvStep, PTL DEF Spec

(* Counting keeps the blocks aligned until a read fails inside one             *)
(* (ThreadProcDataZC): each of them passes the test of DataDealZC and is one   *)
(* packet, even where payload looks like a head.                               *)
THEOREM BlocksAreWhole == Spec => []WholeUntilBroken
<1>1. WaveInv => WholeUntilBroken
  BY DEF WaveInv, StreamInv, StartMeansWhole, StartUntilBroken, WholeUntilBroken
<1> QED
  BY <1>1, WaveInvariant, PTL

(* The frames of a channel are the packets taken from it, cut into PACKS. *)
THEOREM FramesExact == Spec => []FramesAreTheStream
<1>1. WaveInv => FramesAreTheStream
  <2> SUFFICES ASSUME WaveInv, NEW ch \in Channel
               PROVE  got[ch] = sent[ch] \o SubSeq(resAll[ch], 1, PackIndexAll[ch])
    BY DEF FramesAreTheStream
  <2> DEFINE S == Packet \cup {NoPacket}
             g == got[ch]
             s == sent[ch]
             n == PackIndexAll[ch]
             res == resAll[ch]
             sub == SubSeq(res, 1, n)
  <2>1. /\ g \in Seq(Packet) /\ s \in Seq(S) /\ res \in [1..PACKS -> S] /\ n \in 0..(PACKS - 1)
    BY DEF WaveInv, FrameInv, FrameTypeOK
  <2>2. /\ Len(g) = Len(s) + n
        /\ \A i \in 1..Len(s) : g[i] = s[i]
        /\ \A j \in 1..n : g[Len(s) + j] = res[j]
    BY DEF WaveInv, FrameInv, Places
  <2>3. g \in Seq(S)
    BY <2>1
  <2>4. n \in Nat /\ (\A j \in 1..n : res[j] \in S)
    BY <2>1, WaveAssumption
  <2> HIDE DEF S, g, s, n, res
  <2>5. /\ sub \in Seq(S) /\ Len(sub) = n
        /\ \A j \in 1..n : sub[j] = res[j]
    <3>1. /\ sub \in Seq(S) /\ Len(sub) = (IF 1 <= n THEN n - 1 + 1 ELSE 0)
          /\ \A j \in 1..(n - 1 + 1) : sub[j] = res[1 + j - 1]
      BY <2>4, SubSeqProperties, 1 \in Int, n \in Int
    <3>2. n - 1 + 1 = n /\ (\A j \in 1..n : 1 + j - 1 = j)
      BY <2>4
    <3> QED
      BY <2>4, <3>1, <3>2
  <2> HIDE DEF sub
  <2>6. /\ s \o sub \in Seq(S) /\ Len(s \o sub) = Len(s) + Len(sub)
        /\ \A i \in 1..(Len(s) + Len(sub)) :
             (s \o sub)[i] = IF i <= Len(s) THEN s[i] ELSE sub[i - Len(s)]
    BY ONLY <2>1, <2>5, ConcatProperties, Zenon
  <2>7. PICK t \in Seq(S) : t = s \o sub
    BY <2>6
  <2>8. /\ Len(t) = Len(s) + n
        /\ \A i \in 1..(Len(s) + n) : t[i] = IF i <= Len(s) THEN s[i] ELSE sub[i - Len(s)]
    BY ONLY <2>5, <2>6, <2>7, Zenon
  <2>9. ASSUME NEW i \in 1..Len(g) PROVE g[i] = t[i]
    <3>0. Len(s) \in Nat /\ i \in 1..(Len(s) + n)
      BY <2>1, <2>2
    <3>1. CASE i <= Len(s)
      <4>1. i \in 1..Len(s)
        BY <3>0, <3>1
      <4> QED
        BY <2>2, <2>8, <3>0, <3>1, <4>1
    <3>2. CASE ~(i <= Len(s))
      <4>1. i - Len(s) \in 1..n /\ Len(s) + (i - Len(s)) = i
        BY ONLY <2>4, <3>0, <3>2
      <4>2. g[Len(s) + (i - Len(s))] = res[i - Len(s)]
        BY ONLY <2>2, <4>1, Zenon
      <4>3. sub[i - Len(s)] = res[i - Len(s)]
        BY <2>5, <4>1
      <4> QED
        BY <2>8, <3>0, <3>2, <4>1, <4>2, <4>3
    <3> QED
      BY <3>1, <3>2
  <2>10. g = t
    BY <2>2, <2>3, <2>8, <2>9, SeqEqual
  <2> QED
    BY <2>7, <2>10 DEF g, s, n, res, sub
<1> QED
  BY <1>1, WaveInvariant, PTL

(* The header of a settled channel and the board describe the same frequency and *)
(* bandwidth, whichever clients command which channels and whenever samples come. *)
THEOREM HeadersAgree == Spec => []SettledChannelAgrees
<1>1. WaveInv => SettledChannelAgrees
  BY DEF WaveInv, NBInv
<1> QED
  BY <1>1, WaveInvariant, PTL

(* From the board to the frames a channel's packets keep their order and come once, *)
(* and none is missing until a read fails or the queue is full.                     *)
THEOREM PacketsInOrder == Spec => []InOrder
<1>1. Init => WaveInv /\ OrderInv
  BY WaveInitInv, OrderInitInv
<1>2. WaveInv /\ OrderInv /\ [Next]_vars => WaveInv' /\ OrderInv'
  BY WaveInvStep, OrderInvStep
<1>3. OrderInv => InOrder
  BY DEF OrderInv
<1> QED
  BY <1>1, <1>2, <1>3, PTL DEF Spec

(* What was measured of a settled channel is fresh, wherever it is. *)
THEOREM FreshInvariant == Spec => [](WaveInv /\ OrderInv /\ AllFresh)
<1>1. Init => WaveInv /\ OrderInv
  BY WaveInitInv, OrderInitInv
<1>2. Init => AllFresh
  <2> SUFFICES ASSUME Init PROVE AllFresh
    OBVIOUS
  <2>1. /\ since \in [Channel -> Nat] /\ settled = {}
    BY DEF Init, NBInit
  <2> QED
    BY <2>1 DEF AllFresh, Fresh
<1>3. WaveInv /\ OrderInv /\ AllFresh /\ [Next]_vars => WaveInv' /\ OrderInv' /\ AllFresh'
  BY WaveInvStep, OrderInvStep, FreshStep
<1> QED
  BY <1>1, <1>2, <1>3, PTL DEF Spec

(* Every variable keeps its type: the index of a frame stays below PACKS, so no *)
(* packet is written behind the end of a frame's buffer.                        *)
THEOREM WaveTypeCorrect == Spec => []TypeOK
<1>1. WaveInv /\ AllFresh => TypeOK
  BY DEF WaveInv, NBInv, StreamInv, FrameInv, AllFresh, TypeOK
<1> QED
  BY <1>1, FreshInvariant, PTL

(* The header that goes out with a frame of a settled channel (NBZCDataReplay)   *)
(* describes each of its packets that the board has measured since the channel   *)
(* settled, however long they were on their way.                                 *)
THEOREM FrameHeaders == Spec => HeaderDescribesPackets
<1> DEFINE Described ==
      LET f == frame'[1] IN
      f.ChannelNo \in settled =>
        \A i \in 1..PACKS :
          LET p == f.packets[i] IN
          p.number > since[f.ChannelNo]
            => Describes(f.header.Frequency, f.header.BandWidth, p.rf, p.dds, p.cic)
<1> HIDE DEF Described
<1>1. ASSUME WaveInv, OrderInv, AllFresh, [Next]_vars
      PROVE  [frame' # frame => Described]_vars
  <2> SUFFICES ASSUME Next, frame' # frame PROVE Described
    <3>1. CASE UNCHANGED vars
      BY <3>1
    <3>2. CASE Next
      BY <3>2
    <3> QED
      BY <1>1, <3>1, <3>2
  <2>1. DataDealZC
    BY DEF Next, WaveNext, waveVars, dealVars, Read, ReadFails, CallBack
  <2>2. StreamInv /\ FrameTypeOK /\ Places /\ NBTypeOK
    BY <1>1 DEF WaveInv, FrameInv, NBInv
  <2>3. PICK p \in Packet :
          ToWaveData(p) /\ (p.number = 0 \/ (p = Packs(tsqueueZCs[1]) /\ Queued(1)))
    BY <2>1, <2>2, Dealt DEF dealVars, Pieces
  <2> DEFINE ch == p.ChannelNo
             n == PackIndexAll[ch]
             res == [(IF n = 0 THEN EmptyFrame ELSE resAll[ch]) EXCEPT ![n + 1] = p]
  <2>4. /\ ch \in Channel /\ n + 1 = PACKS
        /\ frame' = <<[ChannelNo |-> ch, header |-> HeaderOf(ch, res), packets |-> res]>>
    BY <2>3 DEF ToWaveData, NBZCDataReplay, dealVars
  <2>5. /\ n \in Nat /\ res[n + 1] = p /\ \A j \in 1..n : res[j] = resAll[ch][j]
    BY <2>2, <2>4, WaveAssumption DEF FrameTypeOK, EmptyFrame
  <2>6. since[ch] \in Nat
    BY <1>1, <2>4 DEF AllFresh
  <2> SUFFICES ASSUME ch \in settled, NEW i \in 1..PACKS, res[i].number > since[ch]
               PROVE  Describes(Frequency[ch], BandWidth[ch], res[i].rf, res[i].dds, res[i].cic)
    BY <2>4 DEF Described, HeaderOf
  <2> HIDE DEF res
  <2>7. MeasuredNow(res[i], ch)
    <3>1. CASE i = n + 1
      <4>1. p = Packs(tsqueueZCs[1]) /\ Queued(1)
        BY <2>3, <2>5, <2>6, <3>1
      <4> QED
        BY <1>1, <2>5, <3>1, <4>1 DEF AllFresh, Fresh
    <3>2. CASE i # n + 1
      <4>1. i \in 1..n
        BY <2>4, <2>5, <3>2
      <4>2. /\ Len(got[ch]) = Len(sent[ch]) + n /\ res[i] = got[ch][Len(sent[ch]) + i]
            /\ Len(sent[ch]) \in Nat
        <5>1. sent[ch] \in Seq(Packet \cup {NoPacket})
          BY <2>2, <2>4 DEF FrameTypeOK
        <5>2. Len(sent[ch]) \in Nat
          BY <5>1
        <5> QED
          BY <2>2, <2>4, <2>5, <4>1, <5>2 DEF Places
      <4>3. Len(sent[ch]) + i \in 1..Len(got[ch])
        BY <2>5, <4>1, <4>2
      <4>4. Fresh(res[i]) /\ res[i].ChannelNo = ch
        BY <1>1, <2>4, <4>2, <4>3 DEF AllFresh, OrderInv, GotOrdered
      <4> QED
        BY <4>4 DEF Fresh
    <3> QED
      BY <3>1, <3>2
  <2>8. Describes(Frequency[ch], BandWidth[ch], boardRF, boardDDS[ch], boardCIC[ch])
    BY <1>1 DEF WaveInv, NBInv, SettledChannelAgrees
  <2> QED
    BY <2>7, <2>8 DEF MeasuredNow
<1> QED
  BY <1>1, FreshInvariant, PTL DEF Spec, HeaderDescribesPackets, Described
==============================================================================
