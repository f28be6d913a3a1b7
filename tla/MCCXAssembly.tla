---------------------------- MODULE MCCXAssembly -----------------------------
(* CXAssembly for TLC.  A step is two units wide, so that a single frequency   *)
(* need not be the centre of a step of the ranges.                             *)
EXTENDS CXAssembly

Asked == {[StartFreq |-> 0, TimeNum |-> 3], [StartFreq |-> 2, TimeNum |-> 2],
          [StartFreq |-> 3, TimeNum |-> 1]}
==============================================================================
