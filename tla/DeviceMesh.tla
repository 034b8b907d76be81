----------------------------- MODULE DeviceMesh -----------------------------
(***************************************************************************)
(* tle.device_mesh and what the front end infers from it: the cluster a    *)
(* kernel is launched with, the CTAs of a cluster that a slice selects,    *)
(* and a CTA's coordinate (experimental/tle/language/distributed.py).      *)
(* A mesh keeps the shape and names it was launched with and, for each of  *)
(* its positions in row-major order, the id of the position in the launch  *)
(* mesh.  Axes are numbered from 1, everything else from 0.                *)
(***************************************************************************)
EXTENDS Integers, Sequences, FiniteSets, SequencesExt

CONSTANTS
  ClusterNames,  \* the axis names that contain "cluster"
  BlockNames     \* those that contain "block"

Prod(s) ==
  LET prod[i \in 0 .. Len(s)] == IF i = 0 THEN 1 ELSE prod[i - 1] * s[i] IN prod[Len(s)]
Stride(shape, i) == Prod(SubSeq(shape, i + 1, Len(shape)))
Coord(shape, id, i) == (id \div Stride(shape, i)) % shape[i]
Coords(shape, id, axes) == [k \in DOMAIN axes |-> Coord(shape, id, axes[k])]
Linear(shape, at) ==
  LET index[i \in 0 .. Len(shape)] ==
        IF i = 0 THEN 0 ELSE index[i - 1] * shape[i] + at[i] IN
  index[Len(shape)]
Pick(s, axes) == [k \in DOMAIN axes |-> s[axes[k]]]
AxesIn(names, S) ==
  LET axes[i \in 0 .. Len(names)] ==
        IF i = 0 THEN <<>>
        ELSE IF names[i] \in S THEN Append(axes[i - 1], i) ELSE axes[i - 1] IN
  axes[Len(names)]

\* What the proofs need of a mesh: it was launched with a positive number of
\* places on each axis, and an empty slice is refused.
IsMesh(m) ==
  /\ m.launch_shape \in Seq(Nat \ {0}) /\ Len(m.launch_names) = Len(m.launch_shape)
  /\ m.ids \in Seq(Nat) /\ m.ids # <<>>

NewMesh(shape, names) ==
  [shape |-> shape, names |-> names, ids |-> [p \in 1 .. Prod(shape) |-> p - 1],
   launch_shape |-> shape, launch_names |-> names]

\* mesh[key], with an entry for every axis: the indices it selects, and whether
\* it is a slice, which keeps the axis, or a single index, which drops it.
GetItem(m, key) ==
  LET lens == [i \in DOMAIN key |-> Len(key[i].at)]
      at(p) == [i \in DOMAIN key |-> key[i].at[Coord(lens, p, i) + 1]]
      kept == AxesIn([i \in DOMAIN key |-> key[i].keep], {TRUE}) IN
  [m EXCEPT !.shape = Pick(lens, kept), !.names = Pick(m.names, kept),
            !.ids = [p \in 1 .. Prod(lens) |-> m.ids[Linear(m.shape, at(p - 1)) + 1]]]

\* The names survive a reshape that keeps their number.
Reshape(m, shape, flat) ==
  [m EXCEPT !.shape = shape, !.names = IF Len(shape) = Len(m.names) THEN m.names ELSE flat]

-----------------------------------------------------------------------------
ClusterAxes(m) == AxesIn(m.launch_names, ClusterNames)
OuterAxes(m) == AxesIn(m.launch_names, Range(m.launch_names) \ ClusterNames)
ClusterShape(m) == Pick(m.launch_shape, ClusterAxes(m))

\* _mesh_to_cluster_dims
ClusterDims(m) ==
  LET blocks == Pick(m.launch_shape, AxesIn(m.launch_names, BlockNames))
      s == IF ClusterAxes(m) # <<>> THEN ClusterShape(m)
           ELSE IF blocks # <<>> THEN blocks ELSE m.launch_shape IN
  IF Len(s) > 3 THEN <<Prod(s), 1, 1>> ELSE [i \in 1 .. 3 |-> IF i <= Len(s) THEN s[i] ELSE 1]

\* Block axes only; a mesh without axes goes by the names of its launch mesh.
UsesGrid(m) ==
  LET names == Range(IF m.names = <<>> THEN m.launch_names ELSE m.names) IN
  names \cap ClusterNames = {} /\ names \cap BlockNames # {}

\* The places in the cluster that the mesh has at a place of the outer axes.
OuterCoords(m) == {Coords(m.launch_shape, id, OuterAxes(m)) : id \in Range(m.ids)}
Members(m, outer) ==
  {Coords(m.launch_shape, id, ClusterAxes(m)) :
     id \in {i \in Range(m.ids) : Coords(m.launch_shape, i, OuterAxes(m)) = outer}}

IsClusterSubmesh(m) ==
  /\ ~UsesGrid(m) /\ ClusterAxes(m) # <<>>
  /\ \E outer \in OuterCoords(m) : Cardinality(Members(m, outer)) < Prod(ClusterShape(m))

SomeMembers(m) == Members(m, CHOOSE outer \in OuterCoords(m) : TRUE)
Mask(m) == {Linear(ClusterShape(m), at) : at \in SomeMembers(m)}

\* Mutant: the member sets are not compared.
FitsSomewhere(m) ==
  LET own == AxesIn(m.names, ClusterNames) IN
  /\ Range(m.names) \subseteq Range(m.launch_names) /\ own # <<>>
  /\ Prod(Pick(m.shape, own)) = Cardinality(Mask(m))
\* What _infer_submesh_barrier_group accepts: axes of the launch mesh, one of
\* the cluster among them, and one mask that serves everywhere.
Inferable(m) ==
  LET own == AxesIn(m.names, ClusterNames) IN
  /\ Range(m.names) \subseteq Range(m.launch_names) /\ own # <<>>
  /\ \A outer \in OuterCoords(m) : Members(m, outer) = SomeMembers(m)
  /\ Prod(Pick(m.shape, own)) = Cardinality(Mask(m))

\* Mutant: the stride takes in the axis itself.
ShardIdTooFar(m, axis, pid) ==
  ((pid % Prod(m.launch_shape)) \div Prod(SubSeq(m.launch_shape, axis, Len(m.launch_shape))))
    % m.launch_shape[axis]
\* tle.shard_id, in the block with this %ctaid.x
ShardId(m, axis, pid) == Coord(m.launch_shape, pid % Prod(m.launch_shape), axis)
=============================================================================
