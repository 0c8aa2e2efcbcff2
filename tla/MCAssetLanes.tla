--------------------------- MODULE MCAssetLanes -----------------------------
(***************************************************************************)
(* Symmetry for model checking AssetLanes: workflow runs are told apart by *)
(* nothing but their number.  Pull requests merge in any order, so they    *)
(* are interchangeable too.                                                *)
(***************************************************************************)
EXTENDS AssetLanes, TLC

Symmetry == Permutations(Runs) \union Permutations(PullRequests)
=============================================================================
