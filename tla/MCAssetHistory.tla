--------------------------- MODULE MCAssetHistory ---------------------------
(* Instances of AssetHistory for TLC. *)
EXTENDS AssetHistory, TLC

\* Callers are interchangeable.
Symmetry == Permutations(Request)
=============================================================================
