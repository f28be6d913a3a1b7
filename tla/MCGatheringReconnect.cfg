SPECIFICATION FairSpec
CONSTANTS
  Session = {s1, s2}
  Resolution = {12, 13}
  DefaultResolution = 13
  Channel = {ch1}
  Command <- Reconnecting
  Polite = TRUE
  Faults = FALSE
  MaxQueue = 1
  MaxRound = 0
  MaxHurried = 1
PROPERTIES
  WBGatheringDelivers
