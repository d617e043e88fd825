--------------------------- MODULE MCRuntimeBlocks ---------------------------
(***************************************************************************)
(* RuntimeBlocks for TLC.  Words of three cells; arena 0 has three whole   *)
(* groups and a tail of two, arena 1 a tail of two blocks twice as large,  *)
(* arena 2 a map that is not aligned, and arena 3 no room for a block.     *)
(* Three nodes of one block, one of two and one of three leave in arena 0  *)
(* the patterns of holes the search stumbles over.  The latter two also    *)
(* try arena 1 first or last, where they meet a sixth node and each other, *)
(* and the last is routed to the arenas that refuse.                       *)
(***************************************************************************)
EXTENDS RuntimeBlocks, TLC

CONSTANTS s1, s2, s3, d, t, e

Singles == {s1, s2, s3}

SmallBacking ==
  0 :> [address |-> 0, bytes |-> 36, block |-> 1, alignment |-> 2] @@
  1 :> [address |-> 36, bytes |-> 13, block |-> 4, alignment |-> 2] @@
  2 :> [address |-> 49, bytes |-> 5, block |-> 2, alignment |-> 2] @@
  3 :> [address |-> 54, bytes |-> 3, block |-> 2, alignment |-> 2]

Ask(bytes, mode, fallback, forced) ==
  [bytes |-> bytes, mode |-> mode, fallback |-> fallback, forced |-> forced]

SmallDemand ==
  [n \in Singles |-> {Ask(2, 0, TRUE, FALSE)}] @@
  d :> {Ask(4, 0, FALSE, FALSE), Ask(4, -2, TRUE, FALSE)} @@
  e :> {Ask(2, -2, FALSE, FALSE)} @@
  t :> {Ask(6, -1, TRUE, FALSE), Ask(6, -2, TRUE, FALSE),
        Ask(6, 1, TRUE, TRUE), Ask(6, 3, TRUE, FALSE)}

Symmetry == Permutations(Singles)
=============================================================================
