SPECIFICATION FairSpec
CONSTANTS
  Session = {s1, s2}
  Broadcaster = {cx}
  FrameLen = 1
  Command <- Replying
  None = None
PROPERTIES
  GoneSessionIsDestroyed
  AcceptResumes
  BroadcastEnds
