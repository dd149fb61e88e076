------------------------- MODULE MCSanctionedUtxos -------------------------
(***************************************************************************)
(* SanctionedUtxos for TLC: an output of address a1 that the first block   *)
(* creates and the second spends; lists with and without a1.               *)
(***************************************************************************)
EXTENDS SanctionedUtxos

MCAddressOf == [o \in Outputs |-> "a1"]
MCCreates   == [b \in Heights |-> IF b = 1 THEN Outputs ELSE {}]
MCSpends    == [b \in Heights |-> IF b = 2 THEN Outputs ELSE {}]

List(a, d)  == [addresses |-> a, duplicate |-> d]
OneList     == {List({"a1", "a2"}, FALSE)}
MCLists     == OneList \cup {List({"a2"}, FALSE), List({"a1", "a2"}, TRUE)}
AllSteps    == {"replace", "addresses", "utxos", "infos", "new_utxos"} \cup ScanSteps
=============================================================================
