-------------------------- MODULE MCManifestCache --------------------------
(* One process as configured by default, one that always refreshes, one    *)
(* that is offline.                                                        *)
EXTENDS ManifestCache

CONSTANTS p1, p2, p3
=============================================================================
