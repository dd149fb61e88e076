----------------------------- MODULE MCTagMerge -----------------------------
(***************************************************************************)
(* TagMerge for TLC: two transactions, two of whose tags depend on the     *)
(* context and two do not; rows of an older version lack one of these.     *)
(***************************************************************************)
EXTENDS TagMerge

MCIntrinsic == [tx \in Txs |-> IF tx = "t1" THEN {"SegWit", "Taproot"}
                                            ELSE {"SegWit"}]
=============================================================================
