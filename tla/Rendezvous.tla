----------------------------- MODULE Rendezvous -----------------------------
(***************************************************************************)
(* What tle.distributed_barrier promises: nobody leaves the n-th barrier   *)
(* before everybody has reached it.                                        *)
(***************************************************************************)
EXTENDS Naturals

CONSTANT Members
VARIABLES
  reached,  \* barriers each member has reached
  left      \* barriers it has left

vars == <<reached, left>>

Init == reached = [m \in Members |-> 0] /\ left = [m \in Members |-> 0]

Reach(m) ==
  /\ left[m] = reached[m]
  /\ reached' = [reached EXCEPT ![m] = @ + 1]
  /\ UNCHANGED left

Leave(m) ==
  /\ left[m] < reached[m]
  /\ \A n \in Members : reached[n] >= reached[m]
  /\ left' = [left EXCEPT ![m] = @ + 1]
  /\ UNCHANGED reached

Next == \E m \in Members : Reach(m) \/ Leave(m)
Spec == Init /\ [][Next]_vars
=============================================================================
