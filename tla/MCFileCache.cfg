SPECIFICATION Spec
CONSTANTS
  p1 = p1
  p2 = p2
  p3 = p3
  source = source
  ttir = ttir
  binaryFile = binaryFile
  Meta = Meta
  Partial = Partial
  NoFile = NoFile
  Procs <- MCProcs
  Outputs <- MCOutputs
  BinaryOnly <- MCBinaryOnly
  Kept <- MCKept
  AlwaysCompile <- MCAlwaysCompile
INVARIANTS TypeOK GroupComplete  MixedOnlyByOverlap
