------------------------- MODULE MCTemporaryBacking -------------------------
(***************************************************************************)
(* TemporaryBacking for TLC: three leases on an unaligned arena.  The word *)
(* is scaled down so that the arena either stays clear of it by a unit of  *)
(* alignment (as the arenas of the program do) or reaches up to it.        *)
(***************************************************************************)
EXTENDS TemporaryBacking, TLC

Symmetry == Permutations(Lease)
=============================================================================
