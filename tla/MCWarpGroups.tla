---------------------------- MODULE MCWarpGroups ----------------------------
(* Instances of WarpGroups for TLC: every module of one or two ops whose *)
(* partitions have the listed sizes and requests.                        *)
EXTENDS WarpGroups

CONSTANTS Sizes, Requests

Shapes(n) ==
  {FreshOp(s, r) : s \in TupleOf(Sizes, n), r \in TupleOf(Requests, n) \cup {<<>>}}

\* One op of up to two partitions, and a second op of one.
MCModules ==
  {<<op>> : op \in Shapes(1) \cup Shapes(2)}
    \cup {<<a, b>> : a \in Shapes(2), b \in Shapes(1)}
=============================================================================
