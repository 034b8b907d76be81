\* Scratch memory that the launcher cannot clear; a block may then poll for ever
SPECIFICATION KernelSpec
CONSTANTS
  b0 = b0
  b1 = b1
  b2 = b2
  b3 = b3
  Blocks = {b0, b1, b2, b3}
  Block0 = b0
  Half = 4
  Calls = 4
  CTAs = {0, 1, 2, 3}
  Clusters = {0, 1}
  NoMesh = NoMesh
  Buffers = {"zero_", "fill_", "data_ptr"}
  ClusterNames = {"cluster_x", "cluster_y", "block_cluster"}
  BlockNames = {"block_x", "block_cluster"}
  Kernels <- ScratchKernels
PROPERTIES ImplementsBarrier
CHECK_DEADLOCK FALSE
