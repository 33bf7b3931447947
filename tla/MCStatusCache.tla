--------------------------- MODULE MCStatusCache ---------------------------
(***************************************************************************)
(* Instances of StatusCache.  Two requests may build one after the other   *)
(* and wait for each other; the page reads the listing beside them.        *)
(***************************************************************************)
EXTENDS StatusCache, TLC

CONSTANTS r1, r2

RequestSymmetry == Permutations(Requests)

=============================================================================
