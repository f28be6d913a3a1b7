SPECIFICATION Spec
CONSTANTS
  c1 = c1
  c2 = c2
  Client = {c1, c2}
  Channel = {0, 1}
  ReceiverFreq <- Centres
  Command <- Commands
  MaxCommands = 3
  PACK_LEN = 2
  PACKS = 2
  MAX_BUFFER_DEPTH = 1
  MaxPackets = 3
  MaxFailures = 1
  MaxEvents = 4
SYMMETRY Symmetry
INVARIANTS
  TypeOK
  WholeUntilBroken
  FramesAreTheStream
  InOrder
  SettledChannelAgrees
PROPERTIES
  HeaderDescribesPackets
CHECK_DEADLOCK FALSE
