\* two default warps, three workers, two ops
SPECIFICATION FairSpec
CONSTANTS
  d1 = d1
  d2 = d2
  w1 = w1
  w2 = w2
  w3 = w3
  o1 = o1
  o2 = o2
  Default = {d1, d2}
  Workers = {w1, w2, w3}
  Ops = {o1, o2}
  NoPartition = NoPartition
  NumPartitions = 3
  Bytes = 5
  NoRegs = NoRegs
  StartRegs = 168
  Partition <- MCPartition
  HeaderRegs <- MCHeader
  ActRegs <- MCRegs
  Paths <- MCPaths
INVARIANTS IInv RegionsMatch RegsAsGenerated ExitIsSignalled
PROPERTIES ImplementsForkJoin QuietReads Completes
