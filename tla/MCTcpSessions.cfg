SPECIFICATION Spec
CONSTANTS
  Session = {s1, s2}
  Broadcaster = {cx, zc}
  FrameLen = 3
  Command <- Checking
  None = None
SYMMETRY Alike
INVARIANTS
  TypeOK
  NoUseAfterDestroy
  FramesWhole
  BroadcastReachesAll
