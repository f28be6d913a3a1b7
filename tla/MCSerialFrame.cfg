SPECIFICATION Spec
CONSTANTS
  Streams <- Sent
  BUFFER_LEN = 11
  MAX_DATA = 5
  Orientation = 3
  FieldBytes = 3
INVARIANTS
  TypeOK
  ReadsStayInBuffer
  FramesWereSent
  FieldsAreOwn
PROPERTY EveryFrameTaken
CHECK_DEADLOCK FALSE
