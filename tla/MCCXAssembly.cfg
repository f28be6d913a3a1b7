SPECIFICATION Spec
CONSTANTS
  Plan <- Asked
  Resolution = {12, 13}
  DefaultResolution = 13
  ChNum = 3
  BAND_WIDTH = 2
  Wrap = 3
  MaxStamp = 2
  MaxCommands = 3
  MAX_BUFFER_DEPTH = 1
  None = None
INVARIANTS
  FrameFits
  SweepFrameIsOnePass
  ChannelFrameIsOneMoment
  ChannelFrameIsComplete
CHECK_DEADLOCK FALSE
