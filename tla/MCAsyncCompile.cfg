\* two blocks, the first ignores errors; the program may stop calling
SPECIFICATION FairSpec
CONSTANTS
  k1 = k1
  k2 = k2
  d1 = d1
  d2 = d2
  NoDevice = NoDevice
  Kernels <- MCKernels
  Devices <- MCDevices
  Blocks = 2
  IgnoreErrors <- MCIgnoreErrors
  MayFail <- MCMayFail
  Workers = 1
INVARIANTS CompiledOnce FinalizedOnce ClosedIsFinal
PROPERTIES CallsReturn
CHECK_DEADLOCK FALSE
