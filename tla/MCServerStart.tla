--------------------------- MODULE MCServerStart ---------------------------
(* ServerStart for TLC.  The processes are numbers, the rights free.         *)
EXTENDS ServerStart

Processes == 1..2
=============================================================================
