------------------------------ MODULE NBReceiver ------------------------------
(***************************************************************************)
(* The narrow-band receiver commands (TcpSession::SetCmdNBReceiver and     *)
(* SetCmdNBChannel, NACX_Server/TcpSession.cpp) and what they keep in step:*)
(* the board, and the header NBWaveZCResult of each channel that the wave  *)
(* data thread puts before the channel's samples.                          *)
(*                                                                         *)
(* Nothing is sent back to a client and the board reports none of its      *)
(* settings: that a header describes the samples behind it rests on the    *)
(* command alone, which fills the header first and writes to the board     *)
(* afterwards.  Each client's read thread runs its own commands; CmdZC is  *)
(* the session's, NbCenterFreqRF, the headers and the board are shared.    *)
(*                                                                         *)
(* The two halves of CmdZC are a union: a receiver command that names no   *)
(* frequency sends what the session's commands before it have left there.  *)
(*                                                                         *)
(* Frequencies of the receiver are in Hz, those of a channel in kHz.  The  *)
(* fields of a channel command are handled in the order bank, frequency,   *)
(* bandwidth.  A write to the board is one step.                           *)
(***************************************************************************)
EXTENDS Integers, FiniteSets

CONSTANTS
  Client,        (* the sessions that send these commands                 *)
  Channel,       (* the channels in use, numbered 0 to 15                 *)
  ReceiverFreq,  (* the frequencies receiver commands name, Hz, or Absent *)
  Command,       (* the channel commands they send                        *)
  MaxCommands    (* bound on the commands of all clients                  *)

kHz == 1000
SampleRate == 250000         (* of the board's converter, kHz                  *)
InputRate == 19200000        (* decimation times bandwidth, Hz                      *)
Absent == -1                 (* a parameter the command does not have          *)
Undefined == -2              (* a value the code does not determine: never     *)
                             (* set, left over from the other half of the      *)
                             (* union, or the result of an overflow            *)

(* A bank number outside 0..15 ends the command at once; one stands for all. *)
BadBank == 16

(* Frequency in kHz, bandwidth in Hz. *)
ChannelCommand ==
  [BankNum : Channel \cup {BadBank, Absent}, Freq : Nat \cup {Absent},
   DDCBW : Nat \cup {Absent}]

ASSUME NBAssumption ==
  /\ Channel \subseteq 0..15
  /\ ReceiverFreq \subseteq Nat \cup {Absent}
  /\ Command \subseteq ChannelCommand
  /\ MaxCommands \in Nat

NoCommand == [BankNum |-> Absent, Freq |-> Absent, DDCBW |-> Absent]

VARIABLES
  at,              (* each read thread: "idle", at "Freq", "DDCBW" or "Send" of *)
                   (* a channel command, at "SendRF" of a receiver command, or  *)
                   (* "gone" after an exception                                 *)
  cmd,             (* the command it handles; of a receiver command the Freq    *)
  CmdChannel, CmdDDS, CmdCIC,
                   (* TcpSession::CmdZC, the half CmdNB of the union: channel,  *)
                   (* oscillator in kHz above the centre, decimation            *)
  RfData,          (* and its other half CmdRF, the frequency                   *)
  NbCenterFreqRF,  (* g_Parameter.NbCenterFreqRF, kHz                           *)
  Frequency, BandWidth,
                   (* g_Parameter.NBWaveZCResult: the header of each channel    *)
  boardRF,         (* the board: the receiver's frequency, Hz                   *)
  boardDDS, boardCIC,
                   (* and of each channel the oscillator and the decimation     *)
  commands,        (* commands so far                                           *)
  overlapped,      (* history: the clients whose command ran while another's did*)
  tuned,           (* history: the last receiver command named a frequency, was *)
                   (* alone in its time and reached the board                   *)
  settled          (* history: the channels commanded in full since, by a       *)
                   (* command alone in its time                                 *)

CmdZC == <<CmdChannel, CmdDDS, CmdCIC, RfData>>
NBWaveZCResult == <<Frequency, BandWidth>>
board == <<boardRF, boardDDS, boardCIC>>
nbVars == <<at, cmd, CmdZC, NbCenterFreqRF, NBWaveZCResult, board, commands,
            overlapped, tuned, settled>>

NBInit ==
  /\ at = [c \in Client |-> "idle"]
  /\ cmd = [c \in Client |-> NoCommand]
  /\ CmdChannel = [c \in Client |-> Undefined]
  /\ CmdDDS = [c \in Client |-> Undefined]
  /\ CmdCIC = [c \in Client |-> Undefined]
  /\ RfData = [c \in Client |-> Undefined]
  /\ NbCenterFreqRF = 0
  /\ Frequency = [ch \in Channel |-> 0]
  /\ BandWidth = [ch \in Channel |-> 0]
  /\ boardRF = 0
  /\ boardDDS = [ch \in Channel |-> Undefined]
  /\ boardCIC = [ch \in Channel |-> Undefined]
  /\ commands = 0
  /\ overlapped = {}
  /\ tuned = FALSE
  /\ settled = {}

------------------------------------------------------------------------------

(* Mutated: a tuning leaves the centre as it was. *)
ReceiverWithoutCentre(freq) == UNCHANGED NbCenterFreqRF

Busy == {c \in Client : at[c] \notin {"idle", "gone"}}

(* A client that starts while others are busy overlaps all of them. *)
Begin(c) ==
  /\ at[c] = "idle"
  /\ commands < MaxCommands
  /\ commands' = commands + 1
  /\ overlapped' = IF Busy = {} THEN overlapped \ {c} ELSE overlapped \cup Busy \cup {c}

(* Freq - NbCenterFreqRF is unsigned: below the centre it wraps, and the double  *)
(* made of it, like that of an offset of a sample rate or more, does not fit the *)
(* 32 bits of DDS.                                                               *)
OffsetOf(freq) ==
  IF freq - NbCenterFreqRF \in 0..(SampleRate - 1) THEN freq - NbCenterFreqRF ELSE Undefined

DecimationTable ==
  {<<2400, 8000>>, <<4800, 4000>>, <<9600, 2000>>, <<19200, 1000>>, <<38400, 500>>,
   <<76800, 250>>, <<96000, 200>>}
Bandwidths == {row[1] : row \in DecimationTable}
DecimationOf(bw) == (CHOOSE row \in DecimationTable : row[1] = bw)[2]

StoreCentre(freq) == NbCenterFreqRF' = freq \div kHz

(* Freq, if the command has it.  RfType and RfData lie over the channel, the     *)
(* decimation and half of the oscillator word of CmdNB.                          *)
SetRF(c, freq) ==
  /\ freq # Absent
  /\ RfData' = [RfData EXCEPT ![c] = freq]
  /\ StoreCentre(freq)
  /\ CmdChannel' = [CmdChannel EXCEPT ![c] = 1]
  /\ CmdDDS' = [CmdDDS EXCEPT ![c] = Undefined]
  /\ CmdCIC' = [CmdCIC EXCEPT ![c] = Undefined]

(* SetCmdNBReceiver up to its send. *)
SetCmdNBReceiver(c) ==
  /\ Begin(c)
  /\ \E freq \in ReceiverFreq :
       /\ cmd' = [cmd EXCEPT ![c] = [NoCommand EXCEPT !.Freq = freq]]
       /\ \/ SetRF(c, freq)
          \/ freq = Absent /\ UNCHANGED <<CmdZC, NbCenterFreqRF>>
  /\ at' = [at EXCEPT ![c] = "SendRF"]
  /\ tuned' = FALSE
  /\ settled' = {}
  /\ UNCHANGED <<NBWaveZCResult, board>>

(* The send comes whether or not there was a Freq. *)
SendRF(c) ==
  /\ at[c] = "SendRF"
  /\ boardRF' = RfData[c]
  /\ tuned' = (cmd[c].Freq # Absent /\ c \notin overlapped)
  /\ at' = [at EXCEPT ![c] = "idle"]
  /\ UNCHANGED <<cmd, CmdZC, NbCenterFreqRF, NBWaveZCResult, boardDDS, boardCIC,
                 commands, overlapped, settled>>

(* What a channel command stores lies over RfType and RfData. *)
Overlay(c) == RfData' = [RfData EXCEPT ![c] = Undefined]

(* The channel a command works on: its own, or that of the commands before it,   *)
(* or what the memory of a session held that has stored none yet.                *)
Bank(c, command) ==
  IF command.BankNum \in Channel THEN {command.BankNum}
  ELSE IF CmdChannel[c] # Undefined THEN {CmdChannel[c]}
  ELSE Channel \cup {BadBank}

(* SetCmdNBChannel: the parameter BankNum. *)
SetCmdNBChannel(c) ==
  /\ Begin(c)
  /\ \E command \in Command :
       \/ /\ command.BankNum = BadBank
          /\ UNCHANGED <<at, cmd, CmdChannel, RfData>>
       \/ /\ command.BankNum # BadBank
          /\ at' = [at EXCEPT ![c] = "Freq"]
          /\ cmd' = [cmd EXCEPT ![c] = command]
          /\ \E ch \in Bank(c, command) : CmdChannel' = [CmdChannel EXCEPT ![c] = ch]
          /\ IF command.BankNum = Absent THEN UNCHANGED RfData ELSE Overlay(c)
  /\ UNCHANGED <<CmdDDS, CmdCIC, NbCenterFreqRF, NBWaveZCResult, board, tuned, settled>>

(* The setters of the header leave it alone for a channel that does not exist. *)
SetFreq(c) ==
  /\ at[c] = "Freq"
  /\ \/ /\ cmd[c].Freq = Absent
        /\ UNCHANGED <<CmdDDS, RfData, Frequency>>
     \/ /\ cmd[c].Freq # Absent
        /\ CmdDDS' = [CmdDDS EXCEPT ![c] = OffsetOf(cmd[c].Freq)]
        /\ Overlay(c)
        /\ Frequency' = [Frequency EXCEPT ![CmdChannel[c]] = cmd[c].Freq * kHz]
  /\ at' = [at EXCEPT ![c] = "DDCBW"]
  /\ settled' = settled \ {CmdChannel[c]}
  /\ UNCHANGED <<cmd, CmdChannel, CmdCIC, NbCenterFreqRF, BandWidth, board, commands,
                 overlapped, tuned>>

(* A bandwidth that is not in the table changes nothing; the command is sent all *)
(* the same.                                                                     *)
SetBandWidth(c) ==
  /\ at[c] = "DDCBW"
  /\ \/ /\ cmd[c].DDCBW \notin Bandwidths
        /\ UNCHANGED <<CmdCIC, RfData, BandWidth>>
     \/ /\ cmd[c].DDCBW \in Bandwidths
        /\ CmdCIC' = [CmdCIC EXCEPT ![c] = DecimationOf(cmd[c].DDCBW)]
        /\ Overlay(c)
        /\ BandWidth' = [BandWidth EXCEPT ![CmdChannel[c]] = cmd[c].DDCBW]
  /\ at' = [at EXCEPT ![c] = "Send"]
  /\ UNCHANGED <<cmd, CmdChannel, CmdDDS, NbCenterFreqRF, Frequency, board, commands,
                 overlapped, tuned, settled>>

InFull(command) ==
  /\ command.BankNum \in Channel
  /\ command.Freq # Absent
  /\ command.DDCBW \in Bandwidths

(* SendZCCmd.  A channel the board does not have is its own affair. *)
SendNB(c) ==
  /\ at[c] = "Send"
  /\ boardDDS' = [boardDDS EXCEPT ![CmdChannel[c]] = CmdDDS[c]]
  /\ boardCIC' = [boardCIC EXCEPT ![CmdChannel[c]] = CmdCIC[c]]
  /\ settled' = IF InFull(cmd[c]) /\ CmdDDS[c] # Undefined /\ tuned /\ c \notin overlapped
                THEN settled \cup {cmd[c].BankNum} ELSE settled
  /\ at' = [at EXCEPT ![c] = "idle"]
  /\ UNCHANGED <<cmd, CmdZC, NbCenterFreqRF, NBWaveZCResult, boardRF, commands,
                 overlapped, tuned>>

(* A number that does not parse and a write that fails throw; read() catches the *)
(* exception and ends the session.                                               *)
CommandThrows(c) ==
  /\ c \in Busy
  /\ at' = [at EXCEPT ![c] = "gone"]
  /\ UNCHANGED <<cmd, CmdZC, NbCenterFreqRF, NBWaveZCResult, board, commands,
                 overlapped, tuned, settled>>

NBNext ==
  \E c \in Client :
    \/ SetCmdNBReceiver(c)
    \/ SendRF(c)
    \/ SetCmdNBChannel(c)
    \/ SetFreq(c)
    \/ SetBandWidth(c)
    \/ SendNB(c)
    \/ CommandThrows(c)

------------------------------------------------------------------------------

NBTypeOK ==
  /\ at \in [Client -> {"idle", "Freq", "DDCBW", "Send", "SendRF", "gone"}]
  /\ cmd \in [Client -> ChannelCommand]
  /\ CmdChannel \in [Client -> Int]
  /\ CmdDDS \in [Client -> Int]
  /\ CmdCIC \in [Client -> Int]
  /\ RfData \in [Client -> Int]
  /\ NbCenterFreqRF \in Nat
  /\ Frequency \in [Channel -> Int]
  /\ BandWidth \in [Channel -> Int]
  /\ boardRF \in Int
  /\ boardDDS \in [Channel -> Int]
  /\ boardCIC \in [Channel -> Int]
  /\ commands \in 0..MaxCommands
  /\ overlapped \subseteq Client
  /\ tuned \in BOOLEAN
  /\ settled \subseteq Channel

(* A header tells the frequency a tuning really is at, but for the fraction of a *)
(* kHz that NbCenterFreqRF has lost, and the bandwidth its decimation leaves.    *)
Describes(frequency, bandwidth, rf, dds, cic) ==
  /\ rf + dds * kHz - frequency \in 0..(kHz - 1)
  /\ cic * bandwidth = InputRate

(* A channel that was commanded in full since the receiver was tuned last, each  *)
(* by a command that no other overlapped and that reached the board, is          *)
(* described by its header, whatever other commands failed, overlapped or named  *)
(* other channels before and since: what the board was sent and what was stored  *)
(* before the send belong together.                                              *)
SettledChannelAgrees ==
  \A ch \in settled : Describes(Frequency[ch], BandWidth[ch], boardRF, boardDDS[ch], boardCIC[ch])
==============================================================================
