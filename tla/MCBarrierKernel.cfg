\* Blocks: as many as half the counter's range admits, so every carry is tight
SPECIFICATION KernelSpec
CONSTANTS
  b0 = b0
  b1 = b1
  b2 = b2
  b3 = b3
  Blocks = {b0, b1, b2, b3}
  Block0 = b0
  Half = 4
  Calls = 4
  CTAs = {0, 1, 2, 3}
  Clusters = {0, 1}
  NoMesh = NoMesh
  Buffers = {"zero_", "fill_"}
  ClusterNames = {"cluster_x", "cluster_y", "block_cluster"}
  BlockNames = {"block_x", "block_cluster"}
  Kernels <- MCKernels
INVARIANTS BarrierSpansMesh LaunchFitsBarriers ShardIdSelectsMembers Rendezvous LeaderStays
PROPERTIES ImplementsBarrier KernelCompletes
