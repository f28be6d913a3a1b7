SPECIFICATION Spec
CONSTANTS
  Process <- Processes
  SAMPLES = 2
  MaxStarts = 4
  MaxKills = 2
  MaxCommands = 1
INVARIANTS
  TypeOK
  OnlyOnePasses
PROPERTIES
  UploadUndisturbed
  AloneServes
CHECK_DEADLOCK FALSE
