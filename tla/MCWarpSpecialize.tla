-------------------------- MODULE MCWarpSpecialize --------------------------
(* An instance of WarpSpecialize for TLC: an op that leaves two warps idle *)
(* and moves no registers, and one with a partition of two warps that      *)
(* moves them; alone, in a row and in turn.                                *)
EXTENDS WarpSpecialize, TLC

CONSTANTS d1, d2, w1, w2, w3, o1, o2

MCPartition ==
  (o1 :> (w1 :> 0 @@ w2 :> NoPartition @@ w3 :> NoPartition))
    @@ (o2 :> (w1 :> 2 @@ w2 :> 1 @@ w3 :> 1))

\* The header's registers use up the pool; o2's are for the workers of
\* partition 1 to wait for.
MCHeader == d1 :> 216 @@ d2 :> 216 @@ w1 :> 136 @@ w2 :> 136 @@ w3 :> 136
MCRegs == (o1 :> NoRegs) @@ (o2 :> (d1 :> 24 @@ d2 :> 24 @@ w1 :> 24 @@ w2 :> 232 @@ w3 :> 232))
MCPaths == {<<>>, <<o1, o2, o1>>, <<o2, o2>>}
=============================================================================
