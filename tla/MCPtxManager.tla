---------------------------- MODULE MCPtxManager ----------------------------
(***************************************************************************)
(* PtxManager for TLC: three keys, two entries, a pool of three records.   *)
(* The bundles are a texture with a palette of its own, a bundle whose     *)
(* second texture is longer than the first, and one that uses a bank.      *)
(***************************************************************************)
EXTENDS PtxManager, TLC

Tex(levels, palette) == [levels |-> levels, palette |-> palette]

SmallBundles ==
  {<<Tex(1, "own")>>,
   <<Tex(1, "none"), Tex(2, "own")>>,
   <<Tex(2, "bank13")>>}

Symmetry == Permutations(Keys)
=============================================================================
