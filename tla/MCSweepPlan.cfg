SPECIFICATION Spec
CONSTANTS
  MIN_FREQ = 40
  MAX_FREQ = 100
  HALF_BAND_WIDTH = 2
  Steps = 15
  Frequency <- Asked
INVARIANTS
  StepsInBand
  RangeCovered
  NoStepWasted
