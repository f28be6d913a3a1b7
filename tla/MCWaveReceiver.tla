---------------------------- MODULE MCWaveReceiver ----------------------------
(* WaveReceiver for TLC: what the clients send. *)
EXTENDS WaveReceiver, TLC

CONSTANTS c1, c2
Symmetry == Permutations(Client)

(* Not a whole number of kHz: the centre is rounded down.  And none at all. *)
Centres == {100000500, Absent}

(* A full command, another below the centre; a bandwidth that is not in the      *)
(* table and comes alone; and a bank that is none.                               *)
Full(ch, freq, bw) == [BankNum |-> ch, Freq |-> freq, DDCBW |-> bw]
Commands ==
  {Full(0, 100025, 2400), Full(0, 99000, 96000),
   Full(Absent, Absent, 5000), Full(BadBank, 100025, 2400)}
==============================================================================
