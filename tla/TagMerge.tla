------------------------------ MODULE TagMerge ------------------------------
(***************************************************************************)
(* The column tags of table transaction and the two threads that write it: *)
(* insert_transactions of daemon/src/db.rs, called by process for every    *)
(* block, and the thread that retag_transactions of daemon/src/main.rs     *)
(* starts once.  Both read tags, add to them and write them back, each     *)
(* statement in a database transaction of its own.                         *)
(*                                                                         *)
(* Tags are sets; the arrays in the database hold no tag twice.  Some tags *)
(* follow from the transaction alone (Intrinsic), the others depend on the *)
(* block it is compared with and on the sanctioned addresses and UTXOs     *)
(* known at that time (Contextual).                                        *)
(***************************************************************************)
EXTENDS Naturals

CONSTANTS
    Txs,
    Tags,
    Contextual,      \* Conflicting, ToSanctioned, FromSanctioned
    Intrinsic,       \* the other tags that a transaction gets
    RetagContext,    \* contextual tags the retag thread can give (ToSanctioned)
    OldTags,         \* tags that rows of older versions may have
    MaxBatches       \* bound on calls of insert_transactions

ASSUME TagsAssumption ==
    /\ Contextual \subseteq Tags
    /\ Intrinsic \in [Txs -> SUBSET (Tags \ Contextual)]
    /\ RetagContext \subseteq Contextual
    /\ OldTags \subseteq SUBSET Tags
    /\ MaxBatches \in Nat

VARIABLES
    rows,        \* table transaction: the txids that have a row
    tags,        \* their tags
    pc,          \* the statement insert_transactions is about to make
    txns,        \* its argument: the txids ...
    built,       \* ... and their tags
    todo,        \* txids that were already present and not yet merged
    reading,     \* the txid whose tags are loaded
    db_tx_tags,  \* the tags that were loaded
    Retag,       \* retag_transactions is set in the configuration
    retag_pc,    \* the state of the retag thread
    snapshot,    \* transactions_in_db that are left to retag ...
    old_tags,    \* ... and the tags they had when they were loaded
    retagged,    \* the txids the thread has finished with
    batches      \* calls of insert_transactions so far

insertvars == <<pc, txns, built, todo, reading, db_tx_tags, batches>>
retagvars  == <<Retag, retag_pc, snapshot, old_tags, retagged>>
vars       == <<rows, tags, insertvars, retagvars>>

NoTags == [tx \in Txs |-> {}]

\* The database may hold rows that an older version wrote.
Init ==
    /\ rows \in SUBSET Txs
    /\ tags \in [Txs -> OldTags \cup {{}}]
    /\ \A tx \in Txs \ rows : tags[tx] = {}
    /\ pc = "idle" /\ txns = {} /\ built = NoTags /\ todo = {}
    /\ reading \in Txs /\ db_tx_tags = {}
    /\ Retag \in BOOLEAN
    /\ retag_pc = IF Retag THEN "load" ELSE "ended"
    /\ snapshot = {} /\ old_tags = NoTags /\ retagged = {}
    /\ batches = 0

-----------------------------------------------------------------------------
(* insert_transactions                                                     *)

\* process has built the transactions: get_transaction_tags gives each its
\* intrinsic tags and some contextual ones, add_to_transactions has merged the
\* tags of a transaction that was built more than once.
BuildTransactions ==
    /\ pc = "idle"
    /\ batches < MaxBatches
    /\ batches' = batches + 1
    /\ \E T \in (SUBSET Txs) \ {{}} : \E context \in [T -> SUBSET Contextual] :
          /\ txns' = T
          /\ built' = [tx \in Txs |-> IF tx \in T THEN Intrinsic[tx] \cup context[tx]
                                                  ELSE {}]
    /\ pc' = "insert"
    /\ UNCHANGED <<rows, tags, todo, reading, db_tx_tags, retagvars>>

\* Mutant of InsertNew: every row that was there is merged.
InsertNewMergesAll ==
    /\ pc = "insert"
    /\ rows' = rows \cup txns
    /\ tags' = [tx \in Txs |-> IF tx \in txns \ rows THEN built[tx] ELSE tags[tx]]
    /\ todo' = rows
    /\ pc' = "merge"
    /\ UNCHANGED <<txns, built, reading, db_tx_tags, batches, retagvars>>

\* INSERT ... ON CONFLICT DO NOTHING RETURNING txid
InsertNew ==
    /\ pc = "insert"
    /\ rows' = rows \cup txns
    /\ tags' = [tx \in Txs |-> IF tx \in txns \ rows THEN built[tx] ELSE tags[tx]]
    /\ todo' = txns \cap rows
    /\ pc' = "merge"
    /\ UNCHANGED <<txns, built, reading, db_tx_tags, batches, retagvars>>

\* Of one transaction that was there, in any order: txns come from a HashMap.
LoadTags ==
    /\ pc = "merge"
    /\ \E tx \in todo : reading' = tx /\ db_tx_tags' = tags[tx]
    /\ pc' = "update"
    /\ UNCHANGED <<rows, tags, txns, built, todo, batches, retagvars>>

\* Mutant of MergedTags: the tags that are new take the place of all tags.
NewTagsOnly(loaded, new) == new \ loaded

\* both_tags
MergedTags(loaded, new) == loaded \cup new

\* The next transaction's turn.
Merged ==
    /\ todo' = todo \ {reading}
    /\ db_tx_tags' = {}
    /\ pc' = "merge"

\* The UPDATE is made if the arrays differ; arrays with the same tags may still
\* differ, since only merged ones are sorted.
UpdateTags ==
    /\ pc = "update"
    /\ tags' = [tags EXCEPT ![reading] = MergedTags(db_tx_tags, built[reading])]
    /\ Merged
    /\ UNCHANGED <<rows, txns, built, reading, batches, retagvars>>

\* Mutant of SameTags: a row that has tags is left alone.
AnyTags ==
    /\ pc = "update"
    /\ db_tx_tags # {}
    /\ Merged
    /\ UNCHANGED <<rows, tags, txns, built, reading, batches, retagvars>>

SameTags ==
    /\ pc = "update"
    /\ db_tx_tags = built[reading]
    /\ Merged
    /\ UNCHANGED <<rows, tags, txns, built, reading, batches, retagvars>>

Return ==
    /\ pc' = "idle" /\ txns' = {} /\ built' = NoTags /\ todo' = {}
    /\ db_tx_tags' = {}
    /\ UNCHANGED <<reading, batches>>

Inserted ==
    /\ pc = "merge"
    /\ todo = {}
    /\ Return
    /\ UNCHANGED <<rows, tags, retagvars>>

\* A statement fails: insert_transactions returns what has been done so far.
InsertTransactionsFails ==
    /\ pc # "idle"
    /\ pc = "merge" => todo # {}
    /\ Return
    /\ UNCHANGED <<rows, tags, retagvars>>

-----------------------------------------------------------------------------
(* The retag thread                                                        *)

LoadTransactions ==
    /\ retag_pc = "load"
    /\ snapshot' = rows /\ old_tags' = tags
    /\ retag_pc' = "retag"
    /\ UNCHANGED <<rows, tags, insertvars, Retag, retagged>>

\* Mutant of RetagTransaction: only rows without tags are updated.
RetagUntagged ==
    /\ retag_pc = "retag"
    /\ \E tx \in snapshot : \E context \in SUBSET RetagContext :
          /\ snapshot' = snapshot \ {tx}
          /\ retagged' = retagged \cup {tx}
          /\ tags' = [tags EXCEPT ![tx] = IF old_tags[tx] = {}
                                          THEN Intrinsic[tx] \cup context ELSE @]
    /\ UNCHANGED <<rows, Retag, retag_pc, old_tags, insertvars>>

\* The tags that getrawtransaction's answer gives, and the old ones; there is
\* an UPDATE if they differ from the old ones.
RetagTransaction ==
    /\ retag_pc = "retag"
    /\ \E tx \in snapshot : \E context \in SUBSET RetagContext :
          LET new_tags == Intrinsic[tx] \cup context \cup old_tags[tx]
          IN  /\ snapshot' = snapshot \ {tx}
              /\ retagged' = retagged \cup {tx}
              /\ tags' = [tags EXCEPT ![tx] = IF new_tags # old_tags[tx]
                                              THEN new_tags ELSE @]
    /\ UNCHANGED <<rows, Retag, retag_pc, old_tags, insertvars>>

\* getrawtransaction, the parsing of its answer or the UPDATE fails.
RetagSkips ==
    /\ retag_pc = "retag"
    /\ \E tx \in snapshot : snapshot' = snapshot \ {tx}
    /\ UNCHANGED <<rows, tags, Retag, retag_pc, old_tags, retagged, insertvars>>

\* The thread has gone through all transactions, or could not load them.
RetagEnds ==
    /\ retag_pc # "ended"
    /\ retag_pc = "retag" => snapshot = {}
    /\ retag_pc' = "ended" /\ old_tags' = NoTags
    /\ UNCHANGED <<rows, tags, Retag, snapshot, retagged, insertvars>>

\* The daemon is killed and started again.
Restart ==
    /\ Return
    /\ retag_pc' = IF Retag THEN "load" ELSE "ended"
    /\ snapshot' = {} /\ old_tags' = NoTags /\ retagged' = {}
    /\ UNCHANGED <<rows, tags, Retag>>

-----------------------------------------------------------------------------
InsertTransactions ==
    \/ BuildTransactions \/ InsertNew \/ LoadTags \/ UpdateTags \/ SameTags
    \/ Inserted \/ InsertTransactionsFails

RetagTransactions ==
    LoadTransactions \/ RetagTransaction \/ RetagSkips \/ RetagEnds

Next == InsertTransactions \/ RetagTransactions \/ Restart

Spec == Init /\ [][Next]_vars

-----------------------------------------------------------------------------
(* Properties                                                              *)

\* The types of the state.
TypeOK ==
    /\ rows \subseteq Txs
    /\ tags \in [Txs -> SUBSET Tags]
    /\ pc \in {"idle", "insert", "merge", "update"}
    /\ txns \subseteq Txs
    /\ built \in [Txs -> SUBSET Tags]
    /\ todo \subseteq txns
    /\ reading \in Txs
    /\ db_tx_tags \subseteq Tags
    /\ Retag \in BOOLEAN
    /\ retag_pc \in {"load", "retag", "ended"}
    /\ snapshot \subseteq Txs
    /\ old_tags \in [Txs -> SUBSET Tags]
    /\ retagged \subseteq Txs
    /\ batches \in 0..MaxBatches

\* However the two threads interleave and fail, a row never loses a tag that
\* follows from the transaction alone: whoever writes it has computed it.
IntrinsicKept ==
    [][ \A tx \in Txs : tags[tx] \cap Intrinsic[tx] \subseteq tags'[tx] ]_vars

\* What the retag thread is for: a transaction it has been through has all its
\* intrinsic tags, whatever insert_transactions writes in between from tags it
\* had loaded before.
RetagCovers == \A tx \in retagged : Intrinsic[tx] \subseteq tags[tx]

\* db.rs:49-50: the tags of the new and the already-present transactions are
\* merged, so that no row loses a tag.
TagsGrow == [][ \A tx \in Txs : tags[tx] \subseteq tags'[tx] ]_vars

\* The same of a daemon that does not retag: from the tags that were loaded for
\* it to the UPDATE that merges them, nobody else writes a row.
TagsGrowAlone == [][ ~Retag => \A tx \in Txs : tags[tx] \subseteq tags'[tx] ]_vars

\* Without retagging, the transactions insert_transactions is done with have the
\* tags it was given for them, those that it inserted and those that were there.
MergedTagsThere ==
    ~Retag /\ pc \in {"merge", "update"} =>
        \A tx \in txns \ todo : built[tx] \subseteq tags[tx]
=============================================================================
