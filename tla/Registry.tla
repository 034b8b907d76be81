------------------------------ MODULE Registry ------------------------------
(***************************************************************************)
(* What the package cache promises its processes: each version is given    *)
(* its bytes once and for all, and whoever has learned the bytes of a      *)
(* version has learned those.                                              *)
(***************************************************************************)
CONSTANTS Procs, Versions, Digests, None

VARIABLES
  value,   \* the bytes of each version
  learned  \* the bytes of each version as each process knows them

Unknown == [v \in Versions |-> None]

Init == value = Unknown /\ learned = [p \in Procs |-> Unknown]

Register(v, d) ==
  /\ value[v] = None
  /\ value' = [value EXCEPT ![v] = d]
  /\ UNCHANGED learned

Learn(p, v) ==
  /\ value[v] # None
  /\ learned' = [learned EXCEPT ![p][v] = value[v]]
  /\ UNCHANGED value

Forget(p) == learned' = [learned EXCEPT ![p] = Unknown] /\ UNCHANGED value

Next ==
  \/ \E v \in Versions, d \in Digests : Register(v, d)
  \/ \E p \in Procs : Forget(p) \/ \E v \in Versions : Learn(p, v)

Spec == Init /\ [][Next]_<<value, learned>>
=============================================================================
