SPECIFICATION ReferenceSpec
CONSTANTS
  N = 8
  LowEnd = 2
  HighStart = 4
  Inputs <- SmallColumns
CHECK_DEADLOCK FALSE
INVARIANTS
  WalshCoefficients
  Parseval
PROPERTIES
  ImplementsFwht
