SPECIFICATION PipelineSpec
CONSTANTS
  NB = 4
  Heads = {h1, h2}
  ZeroBlock = ZeroBlock
  ZeroOutput = ZeroOutput
  Absent = Absent
  Raised = Raised
  Undefined = Undefined
  CustomCapacity = 4096
  N = 4
  LowEnd = 2
  HighStart = 2
  NoTau = NoTau
  Blocks <- Names
  Keys <- KeysOf
  QuerySets <- Asked
  CacheBlocks <- SomeBlocks
  CallQueries <- SomeQueries
  Taus = {NoTau}
  ZetaMaxima = {1}
CHECK_DEADLOCK FALSE
INVARIANT BucketHoldsOnlyActive
