SPECIFICATION FwhtSpec
CONSTANTS
  N = 512
  LowEnd = 64
  HighStart = 256
  Inputs <- SquareWaves
CHECK_DEADLOCK FALSE
INVARIANT RapidIsHigh
