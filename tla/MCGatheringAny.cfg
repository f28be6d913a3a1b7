SPECIFICATION Spec
CONSTANTS
  Session = {s1}
  Resolution = {12, 13}
  DefaultResolution = 13
  Channel = {ch1}
  Command <- Anything
  Polite = FALSE
  Faults = TRUE
  MaxQueue = 1
  MaxRound = 1
  MaxHurried = 1
CHECK_DEADLOCK FALSE
INVARIANTS
  TypeOK
  FrameMatchesHeader
