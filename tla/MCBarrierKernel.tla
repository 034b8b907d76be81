-------------------------- MODULE MCBarrierKernel --------------------------
(* Instances of BarrierKernel for TLC: meshes with clusters of four CTAs. *)
EXTENDS BarrierKernel

CONSTANTS b0, b1, b2, b3

Line == NewMesh(<<4>>, <<"cluster_x">>)
Square == NewMesh(<<2, 2>>, <<"cluster_x", "cluster_y">>)
Devices == NewMesh(<<2, 4>>, <<"device", "cluster_x">>)
Inside == NewMesh(<<4, 2>>, <<"cluster_x", "block_x">>)
Level == NewMesh(<<2, 4>>, <<"device", "block_cluster">>)
Grid == NewMesh(<<4>>, <<"block_x">>)
Nodes == NewMesh(<<4>>, <<"node">>)

Index(i) == [keep |-> FALSE, at |-> <<i>>]
Slice(i, n, step) == [keep |-> TRUE, at |-> [k \in 1 .. n |-> i + (k - 1) * step]]
Whole(n) == Slice(0, n, 1)
\* Every index and every slice with a step of 1 or 2
Keys(n) ==
  {Index(i) : i \in 0 .. n - 1} \cup
  {Slice(i, k, step) : <<i, k, step>> \in
     {t \in (0 .. n - 1) \X (1 .. n) \X {1, 2} : t[1] + (t[2] - 1) * t[3] < n}}
Slices(m) ==
  IF Len(m.shape) = 1 THEN {GetItem(m, <<k>>) : k \in Keys(m.shape[1])}
  ELSE {GetItem(m, <<k, l>>) : k \in Keys(m.shape[1]), l \in Keys(m.shape[2])}

Meshes ==
  UNION {Slices(m) : m \in {Line, Square, Devices, Inside, Nodes}}
    \cup Slices(Reshape(Devices, <<4, 2>>, <<>>))
    \cup Slices(Reshape(Devices, <<8>>, <<"flat">>))

Barrier1(m, by) == [op |-> "barrier", mesh |-> m, by |-> by]
ScopeOf(m) == [op |-> "scope", mesh |-> m, by |-> "all"]
Kernel(stmts) == [code |-> stmts, num_ctas |-> 1, cluster_dims |-> <<1, 1, 1>>]

Row(i) == GetItem(Square, <<Index(i), Whole(2)>>)
Col(i) == GetItem(Square, <<Whole(2), Index(i)>>)
Part(m, i, n) == GetItem(m, <<Slice(i, n, 1)>>)
Of(m, i, n) == GetItem(m, <<Whole(2), Slice(i, n, 1)>>)
Every == Barrier1(NoMesh, "all")

\* One barrier over each mesh, executed by all; and kernels in which the CTAs
\* that execute barriers execute as many: one row; both rows, each in its own
\* branch (_submesh_row_group_barrier_kernel); rows, then columns; slices of
\* several sizes, twice with one leader, executed by the CTAs outside as well.
Singles == {Kernel(<<Barrier1(m, "all")>>) : m \in {n \in Meshes : ~UsesGrid(n)}}
RankKernels == {
  Kernel(<<Barrier1(Row(0), "rank")>>),
  Kernel(<<Barrier1(Row(0), "rank"), Barrier1(Row(1), "rank")>>),
  Kernel(<<Barrier1(Row(0), "rank"), Barrier1(Row(1), "rank"), Barrier1(Col(0), "rank"),
           Barrier1(Col(1), "rank"), Barrier1(Row(0), "rank"), Barrier1(Row(1), "rank"), Every>>),
  Kernel(<<Barrier1(Part(Line, 0, 3), "all"),
           Barrier1(GetItem(Line, <<Slice(0, 2, 3)>>), "all"),
           Barrier1(Part(Line, 1, 3), "all"), Barrier1(Line, "all")>>)}
\* Branches on shard_id, with the cluster on the innermost axis and along x
ShardKernels ==
  {Kernel(<<ScopeOf(m), Barrier1(Of(m, 0, 2), "shard"), Barrier1(Of(m, 2, 2), "shard"), Every>>) :
     m \in {Devices, Level}} \cup
  {Kernel(<<ScopeOf(Line), Barrier1(Part(Line, 0, 1), "shard"), Barrier1(Part(Line, 1, 1), "shard"),
            Barrier1(Part(Line, 2, 2), "shard"), Barrier1(Line, "shard")>>)}
GridCode == <<Barrier1(Grid, "all"), Barrier1(GetItem(Grid, <<Index(1)>>), "all"),
              Barrier1(Part(Grid, 0, 2), "all"), Barrier1(GetItem(Inside, <<Index(0), Whole(2)>>), "all")>>
\* Meshes and options that do not go together
Conflicts == {
  Kernel(<<Barrier1(Square, "all"), Barrier1(Line, "all")>>),
  Kernel(<<ScopeOf(Line), Barrier1(Row(1), "all"), Barrier1(Line, "all")>>),
  Kernel(<<ScopeOf(Grid), Barrier1(Grid, "all")>>),
  [Kernel(<<Barrier1(Line, "all")>>) EXCEPT !.cluster_dims = <<2, 2, 1>>],
  [Kernel(<<Barrier1(Row(0), "all")>>) EXCEPT !.cluster_dims = <<2, 2, 1>>],
  [Kernel(<<Barrier1(Row(0), "all")>>) EXCEPT !.num_ctas = 2]}
MCKernels == Singles \cup RankKernels \cup ShardKernels \cup Conflicts \cup {Kernel(GridCode)}

\* A branch on shard_id of a cluster with two axes
SquareKernels ==
  {Kernel(<<ScopeOf(Square), Barrier1(Row(0), "shard"), Barrier1(Row(1), "shard"), Every>>)}

\* The barriers of a grid, in whatever scratch memory there is
ScratchKernels == {Kernel(GridCode)}
=============================================================================
