SPECIFICATION Spec
CONSTANTS
  Consumer = {c1, c2}
  Item = {x1, x2, x3}
  MAX_BUFFER_DEPTH = 2
INVARIANTS
  TypeOK
  NoLostWakeup
PROPERTY FifoSpec
