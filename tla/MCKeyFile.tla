------------------------------ MODULE MCKeyFile ------------------------------
(***************************************************************************)
(* Model checking KeyFile: one pfx and one yks path that convert into each *)
(* other, two fresh key pairs, two calls of any kind and a power cut.       *)
(***************************************************************************)
EXTENDS KeyFile, TLC

CONSTANTS pfx, yks

MCSwapExtension == (pfx :> yks) @@ (yks :> pfx)
Symmetry == Permutations(Calls)

=============================================================================
