----------------------------- MODULE MCObserver -----------------------------
(***************************************************************************)
(* Instances of Observer for TLC: a block tree with a fork,                *)
(*                                                                         *)
(*    g --- a1 --- a2 --- a3                                               *)
(*     \--- b1 --- b2 --- b3                                               *)
(*                                                                         *)
(* and a handful of transactions: t1 pays to a sanctioned address and t2   *)
(* spends that output; t3, t4 and t6 spend the same outpoint; t5 has no    *)
(* relation to the others.                                                 *)
(***************************************************************************)
EXTENDS Observer

MCParent == [b \in Blocks |-> CASE b = "a1" -> "g"  [] b = "b1" -> "g"
                                [] b = "a2" -> "a1" [] b = "b2" -> "b1"
                                [] b = "a3" -> "a2" [] b = "b3" -> "b2"
                                [] OTHER -> "g"]
MCHeight == [b \in Blocks |-> CASE b \in {"a1", "b1"} -> 1
                                [] b \in {"a2", "b2"} -> 2
                                [] b \in {"a3", "b3"} -> 3
                                [] OTHER -> 0]
NoReorgs == {}
Fork     == { <<"g", "b1">>, <<"g", "b1", "b2">>, <<"g", "b1", "b2", "b3">>,
              <<"g", "a1", "a2">>, <<"g", "a1", "a2", "a3">> }

MCInputs == [tx \in Txs |-> CASE tx = "t2" -> {"o1"}
                              [] tx \in {"t3", "t4", "t6"} -> {"o2"}
                              [] OTHER -> {}]
MCSanctionedOutputs == [tx \in Txs |-> IF tx = "t1" THEN {"o1"} ELSE {}]

MCBlockTxs == [b \in Blocks |-> CASE b \in {"a1", "b1"} -> {"t1", "t3"}
                                  [] b = "b2" -> {"t2", "t5"}
                                  [] OTHER -> {}]
MCTemplateTxs == [b \in Blocks |-> CASE b = "g" -> { {"t1", "t4"}, {"t6"} }
                                     [] b \in {"a1", "b1"} -> { {"t2"} }
                                     [] OTHER -> { {} }]

\* Templates that leave nothing to choose.
OneTemplateEach == [b \in Blocks |-> { {"t5"} }]
=============================================================================
