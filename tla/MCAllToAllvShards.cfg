CONSTANTS
  P = 3
  NB = 2
  BlockSize = 2
  Calls = 1
  Absent = Absent
  ZeroToken = ZeroToken
SPECIFICATION ShardSpec
INVARIANTS SequenceKept OffsetsDelimit
CHECK_DEADLOCK FALSE
