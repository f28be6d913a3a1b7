---------------------------- MODULE MCGathering ----------------------------
(* Gathering for TLC: the commands the runs draw from. *)
EXTENDS Gathering

Starts(modes, freqs) == [kind : {"start"}, mode : modes, freq : freqs]
Ends(modes) == [kind : {"end"}, mode : modes]
Params(accepted) == [kind : {"param"}, res : Resolution \cup {Unset}, accepted : accepted]
Check == {[kind |-> "check"]}

Anything == Ends({"CX_WB"}) \cup Check
              \cup [kind : {"param"}, res : Resolution \cup {Unset}, accepted : BOOLEAN]
Careful == Starts({"CX_SWEEP"}, {"other"}) \cup Starts({"TEST_CHANNEL"}, {"centre"})
             \cup [kind : {"param"}, res : {12}, accepted : {TRUE}] \cup Check
Wideband == Starts({"CX_WB", "CX_NB"}, {"other"}) \cup Params({TRUE}) \cup Check
Reconnecting == Starts({"CX_WB"}, {"other"}) \cup Params({TRUE})
=============================================================================
