SPECIFICATION FairSpec
CONSTANTS
  Session = {s1}
  Resolution = {12, 13}
  DefaultResolution = 13
  Channel = {ch1}
  Command <- Wideband
  Polite = TRUE
  Faults = FALSE
  MaxQueue = 1
  MaxRound = 1
  MaxHurried = 1
PROPERTIES
  CommandEnds
  SelfCheckEnds
  WBGatheringDelivers
