\* the same program, asked whether a mode outlives its block
SPECIFICATION Spec
CONSTANTS
  k1 = k1
  k2 = k2
  d1 = d1
  d2 = d2
  NoDevice = NoDevice
  Kernels <- MCKernels
  Devices <- MCDevices
  Blocks = 2
  IgnoreErrors <- MCIgnoreErrors
  MayFail <- MCMayFail
  Workers = 1
INVARIANT ModeIsOpen
CHECK_DEADLOCK FALSE
