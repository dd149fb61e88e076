---------------------------- MODULE MCWebReader -----------------------------
(***************************************************************************)
(* Three blocks that miss the sanctioned transaction t1.  Two of them have *)
(* t2, which is sanctioned too and in conflict with t1, instead; b1 misses *)
(* both.  b3, the highest, has the oldest time; its template has t1 near   *)
(* the end.  A reorg replaced b1 by b2.                                    *)
(***************************************************************************)
EXTENDS WebReader

MCComparisons ==
    [b \in Blocks |->
        { IF b = "b1" THEN [extra |-> {}, missing |-> {"t1", "t2"},
                            sanctioned |-> {"t1", "t2"}, conflicts |-> {}]
                      ELSE [extra |-> {"t2"}, missing |-> {"t1"},
                            sanctioned |-> {"t1"}, conflicts |-> {"t1", "t2"}] }]

MCBlockTime == [b \in Blocks |-> CASE b = "b1" -> 2 [] b = "b2" -> 3 [] OTHER -> 1]
MCHeight    == [b \in Blocks |-> IF b = "b3" THEN 2 ELSE 1]
MCFirstName == [b \in Blocks |-> IF b = "b1" THEN Unknown ELSE "A"]
MCGap       == [b \in Blocks |-> IF b = "b2" THEN 2 ELSE 1]
MCExcluded  == (Blocks \cap {"b3"}) \X {"t1"}
=============================================================================
