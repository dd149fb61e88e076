--------------------------- MODULE MCConflictSets ---------------------------
(***************************************************************************)
(* ConflictSets for TLC: all ways in which up to three transactions of a   *)
(* template and three of a block can spend four outpoints, and all orders  *)
(* in which the outpoints can be visited.  One transaction of each side    *)
(* cannot be built; the symmetry leaves it in its place.                   *)
(***************************************************************************)
EXTENDS ConflictSets, TLC

Symmetry == Permutations(Outpoints)
                \cup Permutations(TemplateTxs \ Unbuildable)
                \cup Permutations(BlockTxs \ Unbuildable)
=============================================================================
