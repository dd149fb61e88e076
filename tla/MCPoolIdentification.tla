------------------------ MODULE MCPoolIdentification ------------------------
(***************************************************************************)
(* p1 is unknown to the built-in list and known from the first published   *)
(* version on; the second version gives p2 another pool than the first; p3 *)
(* is never identified and comes first in the list of unknown blocks.      *)
(***************************************************************************)
EXTENDS PoolIdentification

MCPoolOf ==
    [v \in Versions |->
        [b \in Blocks |-> CASE v = 0 \/ b = "p3"  -> Unknown
                           [] v >= 2 /\ b = "p2" -> "B"
                           [] OTHER              -> "A"]]

MCBlockTime == [b \in Blocks |-> IF b = "p3" THEN 2 ELSE 1]
=============================================================================
