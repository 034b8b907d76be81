-------------------------- MODULE MCClusterBarrier --------------------------
(* An instance of ClusterBarrier for TLC: in a cluster of four CTAs, only the *)
(* members of a slice call its barrier, then all meet.                        *)
EXTENDS ClusterBarrier

Cluster == 0 .. 3
OutsidePrograms ==
  {[c \in Cluster |-> IF c < 2 THEN <<{0, 1}, Cluster>> ELSE <<Cluster>>]}
=============================================================================
