--------------------------- MODULE BarrierKernel ---------------------------
(***************************************************************************)
(* A kernel with distributed barriers, from the front end to its CTAs.     *)
(* Each call of shard_id, remote and distributed_barrier infers launch     *)
(* options from its mesh (one options object serves the whole kernel), and *)
(* a barrier adds an op for the grid, the cluster or a slice of it, or the *)
(* compile fails.  The launch then runs the ops: of the grid as in         *)
(* GridBarrier, of one of the launched clusters as in ClusterBarrier.      *)
(***************************************************************************)
EXTENDS DeviceMesh, GridBarrier

CONSTANTS
  CTAs,      \* ranks in the cluster
  Kernels,   \* what is compiled: code and the caller's options
  Clusters,  \* the clusters of the launch, in the order of the grid's x
  NoMesh,    \* distributed_barrier() has no mesh
  Buffers    \* what the allocator's scratch objects offer beside data_ptr

\* A statement of code: op is "scope" (shard_id, or remote with a scope) or
\* "barrier"; by says which CTAs execute a barrier: all, those whose rank is in
\* the mesh, or those whose shard_id says that they are.
Statements == UNION {Range(k.code) : k \in Kernels}
ASSUME KernelsAssumption ==
  /\ \A k \in Kernels : k.code \in Seq(Statements)
  /\ \A s \in Statements :
       /\ s.op \in {"scope", "barrier"} /\ s.by \in {"all", "rank", "shard"}
       /\ s.mesh # NoMesh => IsMesh(s.mesh)
ASSUME BuffersAssumption == Buffers \subseteq {"zero_", "fill_", "data_ptr"}
\* Ranks count from 0, and so do the clusters of a launch.
ASSUME ClusterAssumption ==
  /\ IsFiniteSet(CTAs) /\ CTAs = 0 .. Cardinality(CTAs) - 1 /\ Cardinality(CTAs) < 2 * Half
  /\ Clusters \subseteq Nat

VARIABLES
  code,          \* the kernel's statements
  at,            \* how many the front end has handled
  num_ctas, cluster_dims, cooperative,  \* options
  ops,           \* the barrier ops so far, each with its statement
  stage,         \* "compile", "raised", "cluster" or "grid"
  cluster,       \* the cluster whose CTAs are followed
  \* ClusterBarrier
  program, pos, place, arrivals, count, phase, before

options == <<num_ctas, cluster_dims, cooperative>>
compiled == <<code, at, options, ops>>
onGrid == <<counter, pc, old, passed>>
onCluster == <<program, pos, place, arrivals, count, phase, before>>
all == <<compiled, stage, cluster, onGrid, onCluster>>

InCluster == INSTANCE ClusterBarrier WITH
  Programs <- {}, Width <- 2 * Half, pc <- place, counter <- count, old <- before

Single == <<1, 1, 1>>
Statement == code[at + 1]
Mesh == Statement.mesh

\* Scratch memory is uninitialized, shared memory too (the same garbage
\* everywhere, to bound this).
KernelInit ==
  /\ \E k \in Kernels :
       code = k.code /\ num_ctas = k.num_ctas /\ cluster_dims = k.cluster_dims
  /\ cooperative = FALSE
  /\ at = 0 /\ ops = <<>> /\ stage = "compile" /\ cluster = 0
  /\ pc = [b \in Blocks |-> "code"] /\ old = [b \in Blocks |-> 0]
  /\ passed = [b \in Blocks |-> 0]
  /\ program = [c \in CTAs |-> <<>>] /\ pos = [c \in CTAs |-> 0]
  /\ place = [c \in CTAs |-> "code"] /\ arrivals = [c \in CTAs |-> 0]
  /\ \E x \in {1, 2 * Half - 1} :
       counter = x /\ count = [c \in CTAs |-> x] /\ phase = [c \in CTAs |-> x]
  /\ before = [c \in CTAs |-> 0]

-----------------------------------------------------------------------------
\* Mutant: the last mesh wins.
AlwaysFits(m) == num_ctas <= 1
\* _apply_mesh_cluster_launch raises otherwise.
ClusterFits(m) ==
  num_ctas <= 1 /\ cluster_dims \in {Single, ClusterDims(m)}

\* _apply_mesh_grid_launch raises otherwise.
GridFits == num_ctas <= 1 /\ cluster_dims = Single

Emit(kind) == ops' = Append(ops, [kind |-> kind, statement |-> Statement])
LaunchClusterOf(m) == cluster_dims' = ClusterDims(m) /\ UNCHANGED <<num_ctas, cooperative>>
Compiling == stage = "compile" /\ at < Len(code)
Handled == at' = at + 1 /\ UNCHANGED <<code, stage, cluster, onGrid, onCluster>>

Scope ==
  /\ Compiling /\ Statement.op = "scope" /\ ClusterFits(Mesh)
  /\ LaunchClusterOf(Mesh) /\ Handled /\ UNCHANGED ops

IsBarrier == Compiling /\ Statement.op = "barrier"
OfSlice == Mesh # NoMesh /\ IsClusterSubmesh(Mesh)
OfGrid == Mesh # NoMesh /\ UsesGrid(Mesh)

SliceBarrier ==
  /\ IsBarrier /\ OfSlice /\ Inferable(Mesh) /\ ClusterFits(Mesh)
  /\ LaunchClusterOf(Mesh) /\ Emit("submesh") /\ Handled

\* Mutant: an ordinary launch.
PlainGridBarrier ==
  /\ IsBarrier /\ ~OfSlice /\ OfGrid /\ GridFits
  /\ UNCHANGED options
  /\ Emit("grid") /\ Handled
GridBarrierCall ==
  /\ IsBarrier /\ ~OfSlice /\ OfGrid /\ GridFits
  /\ cooperative' = TRUE /\ UNCHANGED <<num_ctas, cluster_dims>>
  /\ Emit("grid") /\ Handled

ClusterBarrierCall ==
  /\ IsBarrier /\ ~OfSlice /\ ~OfGrid
  /\ IF Mesh = NoMesh THEN UNCHANGED options ELSE ClusterFits(Mesh) /\ LaunchClusterOf(Mesh)
  /\ Emit("cluster") /\ Handled

Refused ==
  IF IsBarrier /\ OfGrid THEN ~GridFits
  ELSE Mesh # NoMesh /\ (~ClusterFits(Mesh) \/ (IsBarrier /\ OfSlice /\ ~Inferable(Mesh)))
Raise ==
  /\ Compiling /\ Refused
  /\ stage' = "raised"
  /\ UNCHANGED <<compiled, cluster, onGrid, onCluster>>

-----------------------------------------------------------------------------
\* A cluster's CTAs differ in %ctaid.x as far as the cluster reaches along x;
\* their ranks count on along y and z.
Pid(k, c) == k * cluster_dims[1] + (c % cluster_dims[1])

Executes(s, k, c) ==
  LET axes == ClusterAxes(s.mesh) IN
  \/ s.by = "all"
  \/ s.by = "rank" /\ c \in Mask(s.mesh)
  \/ s.by = "shard" /\
       [i \in DOMAIN axes |-> ShardId(s.mesh, axes[i], Pid(k, c))] \in SomeMembers(s.mesh)

\* Who synchronizes in an op of a cluster
Group(o) == IF o.kind = "submesh" THEN Mask(o.statement.mesh) ELSE CTAs

Compiled == stage = "compile" /\ at = Len(code)
Kinds == {ops[i].kind : i \in DOMAIN ops}

LaunchCluster ==
  /\ Compiled /\ "grid" \notin Kinds
  /\ Prod(cluster_dims) = Cardinality(CTAs)
  /\ cluster' \in Clusters
  /\ program' = [c \in CTAs |->
       LET own == SelectSeq(ops, LAMBDA o : Executes(o.statement, cluster', c)) IN
       [i \in DOMAIN own |-> Group(own[i])]]
  /\ stage' = "cluster"
  /\ UNCHANGED <<compiled, onGrid, pos, place, arrivals, count, phase, before>>

\* The launcher clears the scratch memory of a cooperative launch if its object
\* has a method for that; an object of which only data_ptr is asked keeps what
\* it held.
Clearable == {"zero_", "fill_"}
Clears == Buffers \subseteq Clearable
LaunchGrid ==
  /\ Compiled /\ Kinds = {"grid"} /\ Len(ops) = Calls
  /\ \E scratch \in Buffers :
       counter' = IF cooperative /\ scratch \in Clearable THEN 0 ELSE counter
  /\ stage' = "grid"
  /\ UNCHANGED <<compiled, cluster, pc, old, passed, onCluster>>

GridStep(b) ==
  /\ stage = "grid" /\ (Arrive(b) \/ Poll(b))
  /\ UNCHANGED <<compiled, stage, cluster, onCluster>>
ClusterStep(c) ==
  /\ stage = "cluster" /\ InCluster!Step(c)
  /\ UNCHANGED <<compiled, stage, cluster, onGrid>>

Over ==
  \/ stage = "raised"
  \/ stage = "grid" /\ Finished
  \/ stage = "cluster" /\ InCluster!Finished
KernelTerminated == Over /\ UNCHANGED all

Compile ==
  \/ Scope \/ SliceBarrier \/ GridBarrierCall \/ ClusterBarrierCall \/ Raise
  \/ LaunchCluster \/ LaunchGrid
KernelNext ==
  \/ Compile \/ (\E b \in Blocks : GridStep(b)) \/ (\E c \in CTAs : ClusterStep(c))
  \/ KernelTerminated

\* A cooperative launch keeps every block resident, a cluster its CTAs.
KernelSpec ==
  /\ KernelInit /\ [][KernelNext]_all /\ WF_all(Compile)
  /\ \A b \in Blocks : WF_all(GridStep(b))
  /\ \A c \in CTAs : WF_all(ClusterStep(c))

-----------------------------------------------------------------------------
\* A barrier over a mesh with cluster axes is for exactly the CTAs of the mesh:
\* wherever on its other axes a cluster may be, the group is the ranks that the
\* mesh has there.
BarrierSpansMesh ==
  \A i \in DOMAIN ops :
    LET m == ops[i].statement.mesh
        rank(id) == Linear(ClusterShape(m), Coords(m.launch_shape, id, ClusterAxes(m))) IN
    ops[i].kind # "grid" /\ m # NoMesh /\ ClusterAxes(m) # <<>> =>
      \A id \in Range(m.ids) :
        Group(ops[i]) =
          {rank(j) : j \in {n \in Range(m.ids) :
             Coords(m.launch_shape, n, OuterAxes(m)) = Coords(m.launch_shape, id, OuterAxes(m))}}

\* Whatever follows in the kernel, it is launched with the cluster that each of
\* its barriers has been inferred for.
LaunchFitsBarriers ==
  \A i \in DOMAIN ops :
    LET m == ops[i].statement.mesh IN
    ops[i].kind # "grid" /\ m # NoMesh => ClusterDims(m) \in {Single, cluster_dims}

\* The CTAs that take the branch of a slice, going by shard_id ("Returns current
\* program's coordinate on a mesh axis", tle.md:955), are the members of the
\* slice's barrier, in each cluster of the launch.
ShardIdSelectsMembers ==
  stage = "cluster" =>
    \A i \in DOMAIN ops : ops[i].statement.by = "shard" =>
      Group(ops[i]) = {c \in CTAs : Executes(ops[i].statement, cluster, c)}

\* What the cluster's barriers take for granted: its CTAs execute equally many,
\* each of them for all CTAs the whole cluster's or for all CTAs a slice's, and
\* the members of a slice execute that slice's.
Aligned ==
  /\ \A c \in CTAs : program[c] \in Seq(SUBSET CTAs)
  /\ \A c, d \in CTAs :
       /\ Len(program[c]) = Len(program[d])
       /\ \A i \in 1 .. Len(program[c]) :
            /\ program[c][i] = CTAs <=> program[d][i] = CTAs
            /\ {c, d} \subseteq program[c][i] => program[d][i] = program[c][i]

\* Every barrier of the whole cluster is over a mesh that has the launched one: a
\* mesh with a cluster of a single CTA counts as none (cluster_dims == (1, 1, 1)),
\* so that a later mesh may give the kernel a larger cluster.
OfLaunchedCluster ==
  \A i \in DOMAIN ops :
    LET m == ops[i].statement.mesh IN
    /\ ops[i].kind = "cluster" /\ m # NoMesh /\ ClusterAxes(m) # <<>>
    /\ ClusterDims(m) = Single
    => cluster_dims = Single

\* The cluster lies on the innermost axis of each mesh whose slices are selected
\* by shard_id.
Innermost ==
  \A i \in DOMAIN ops :
    LET m == ops[i].statement.mesh IN
    ops[i].statement.by = "shard" =>
      /\ m # NoMesh /\ ClusterAxes(m) = <<Len(m.launch_shape)>>
      /\ (ClusterDims(m) = Single => cluster_dims = Single)

\* Nobody leaves the n-th barrier of a slice before all its members have
\* reached it.
Rendezvous == InCluster!Rendezvous

\* While a CTA accesses its leader's shared memory, the leader has not exited.
LeaderStays == InCluster!LeaderStays

\* A kernel that compiles gets through its barriers, those of the grid if the
\* launcher can clear their counter.
KernelCompletes == <>Over
=============================================================================
