---------------------------- MODULE MCScanCache ----------------------------
(* Instances of ScanCache: two hashed files and an asset, two processes.   *)
EXTENDS ScanCache, TLC

CONSTANTS x, y, png, c1, c2, p, q

\* The processes are alike.
Alike == Permutations(Run)
=============================================================================
