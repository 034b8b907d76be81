----------------------------- MODULE MCArefRing -----------------------------
(* An instance of ArefRing for TLC: two partitions fill a stage, two tiles *)
(* loaded and registers stored by p1, an accumulating MMA by p2; a         *)
(* consumer of two asynchronous kinds and one that reads through the       *)
(* generic proxy.                                                          *)
EXTENDS ArefRing, TLC

CONSTANTS p1, p2, c1, c2, l1, l2

MCKinds == (p1 :> {"TMALoad", "NONE"}) @@ (p2 :> {"TC5MMA"})
           @@ (c1 :> {"WGMMA", "TC5MMA"}) @@ (c2 :> {"NONE"})
MCLoads == (p1 :> {l1, l2}) @@ (p2 :> {})
=============================================================================
