SPECIFICATION Spec
CONSTANTS
  Session = {s1}
  Resolution = {12, 13}
  DefaultResolution = 13
  Channel = {ch1, ch2}
  Command <- Careful
  Polite = TRUE
  Faults = FALSE
  MaxQueue = 1
  MaxRound = 2
  MaxHurried = 1
INVARIANTS
  ParserFollowsBoard
  SelfCheckKeepsMode
  ReportIsFresh
