---------------------------- MODULE MCTcpSessions ----------------------------
(* TcpSessions for TLC: the command sets the runs draw from. *)
EXTENDS TcpSessions, TLC

Checking == {[replies |-> 2, effect |-> "none"], [replies |-> 1, effect |-> "check"]}
Replying == {[replies |-> 1, effect |-> "none"]}

(* Sessions, and broadcasters, are alike: sound for invariants only. *)
Alike == Permutations(Session) \cup Permutations(Broadcaster)
==============================================================================
