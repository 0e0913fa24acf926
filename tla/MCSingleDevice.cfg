SPECIFICATION PipelineSpec
CONSTANTS
  NB = 5
  Heads = {h1, h2}
  ZeroBlock = ZeroBlock
  ZeroOutput = ZeroOutput
  Absent = Absent
  Raised = Raised
  Undefined = Undefined
  CustomCapacity = 4
  N = 4
  LowEnd = 2
  HighStart = 2
  NoTau = NoTau
  Blocks <- Names
  Keys <- KeysOf
  QuerySets <- Asked
  CacheBlocks <- SomeBlocks
  CallQueries <- SomeQueries
  Taus = {NoTau, 2}
  ZetaMaxima = {1}
CHECK_DEADLOCK FALSE
INVARIANTS
  RoundTrip
  CompactMatchesSparse
  NoRetainedBlockLost
  ExactPaths
  RelevantIsWeighed
  AutoTauKeepsHalf
  StatsCountWeighed
  KeptHeadsAgree
