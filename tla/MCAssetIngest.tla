--------------------------- MODULE MCAssetIngest ---------------------------
(* Instances of AssetIngest for TLC.                                       *)
EXTENDS AssetIngest, TLC

Symmetry == Permutations(Calls)

=============================================================================
