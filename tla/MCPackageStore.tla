--------------------------- MODULE MCPackageStore ---------------------------
(* Manifests that disagree on a version, and one that lists a package for  *)
(* the wrong version.  One process as configured by default, one that      *)
(* wants the latest version, and one that is offline, has a package of     *)
(* its own and is pinned to another version.                               *)
EXTENDS PackageStore

CONSTANTS p1, p2, p3, a1, a2, b2, c2

MCVersionOf == [d \in Digests |-> IF d = a1 THEN 1 ELSE 2]
Manifest(d1, d2) == [v \in Versions |-> IF v = 1 THEN d1 ELSE d2]
MCIndexes == {Manifest(a1, None), Manifest(a1, a2), Manifest(None, b2), Manifest(b2, None)}
MCPin == [p \in Procs |-> IF p = p3 THEN 1 ELSE None]
MCUser == [p \in Procs |-> Manifest(None, IF p = p3 THEN c2 ELSE None)]
=============================================================================
