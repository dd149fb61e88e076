--------------------------- MODULE TagMergeProofs ---------------------------
(***************************************************************************)
(* Proofs about TagMerge, for any transactions, tags, old rows and number  *)
(* of blocks: what the two threads can and cannot take from each other.    *)
(***************************************************************************)
EXTENDS TagMerge, TLAPS

\* Whatever is about to be written for a transaction has its intrinsic tags.
BuiltIntrinsic == \A tx \in txns : Intrinsic[tx] \subseteq built[tx]

\* What the retag thread has loaded was there and is, as far as it is intrinsic.
SnapshotThere ==
    \A tx \in snapshot : old_tags[tx] \cap Intrinsic[tx] \subseteq tags[tx]

TagInv ==
    /\ TypeOK
    /\ pc \in {"idle", "insert"} => todo = {}
    /\ pc = "update" => reading \in todo
    /\ BuiltIntrinsic
    /\ SnapshotThere
    /\ RetagCovers

-----------------------------------------------------------------------------
\* A step of either thread leaves the intrinsic tags of a row where they are.
LEMMA IntrinsicStep ==
    ASSUME TagInv, [Next]_vars
    PROVE  \A tx \in Txs : tags[tx] \cap Intrinsic[tx] \subseteq tags'[tx]
<1> USE DEF TagInv, TypeOK, insertvars, retagvars
<1>1. CASE InsertNew
  <2>1. \A tx \in Txs : tags'[tx] = IF tx \in txns \ rows THEN built[tx] ELSE tags[tx]
    BY <1>1 DEF InsertNew
  <2> QED BY <2>1 DEF BuiltIntrinsic
<1>2. CASE UpdateTags
  <2>1. Intrinsic[reading] \subseteq built[reading]
    BY <1>2 DEF UpdateTags, BuiltIntrinsic
  <2>2. /\ tags'[reading] = db_tx_tags \cup built[reading]
        /\ \A tx \in Txs \ {reading} : tags'[tx] = tags[tx]
    BY <1>2 DEF UpdateTags, MergedTags
  <2> QED BY <2>1, <2>2
<1>3. CASE RetagTransaction
  BY <1>3 DEF RetagTransaction
<1>4. CASE UNCHANGED tags
  BY <1>4
<1> QED BY <1>1, <1>2, <1>3, <1>4
        DEF Next, InsertTransactions, RetagTransactions, BuildTransactions,
            LoadTags, SameTags, Inserted, InsertTransactionsFails,
            LoadTransactions, RetagSkips, RetagEnds, Restart, vars

-----------------------------------------------------------------------------
\* The initial states have their types.
LEMMA InitInv == Init => TagInv
BY TagsAssumption
   DEF Init, TagInv, TypeOK, NoTags, BuiltIntrinsic, SnapshotThere, RetagCovers

\* insert_transactions preserves the invariant.
LEMMA InsertInv == TagInv /\ InsertTransactions => TagInv'
<1> SUFFICES ASSUME TagInv, InsertTransactions PROVE TagInv'
  OBVIOUS
<1> USE DEF TagInv, TypeOK, insertvars, retagvars
<1>1. \A tx \in Txs : tags[tx] \cap Intrinsic[tx] \subseteq tags'[tx]
  BY IntrinsicStep DEF Next
<1>2. UNCHANGED retagvars
  BY DEF InsertTransactions, BuildTransactions, InsertNew, LoadTags, UpdateTags,
         SameTags, Inserted, InsertTransactionsFails
<1>3. SnapshotThere' /\ RetagCovers'
  BY <1>1, <1>2 DEF SnapshotThere, RetagCovers
<1>4. CASE BuildTransactions
  <2>0. PICK T \in (SUBSET Txs) \ {{}} : \E context \in [T -> SUBSET Contextual] :
           /\ txns' = T
           /\ built' = [tx \in Txs |-> IF tx \in T THEN Intrinsic[tx] \cup context[tx]
                                                   ELSE {}]
    BY <1>4 DEF BuildTransactions
  <2>1. PICK context \in [T -> SUBSET Contextual] :
           /\ txns' = T
           /\ built' = [tx \in Txs |-> IF tx \in T THEN Intrinsic[tx] \cup context[tx]
                                                   ELSE {}]
    BY <2>0
  <2>2. built' \in [Txs -> SUBSET Tags]
    BY <2>1, TagsAssumption
  <2>3. BuiltIntrinsic'
    BY <2>1 DEF BuiltIntrinsic
  <2>4. todo' \subseteq txns'
    BY <1>4 DEF BuildTransactions
  <2> QED BY <1>2, <1>3, <1>4, <2>1, <2>2, <2>3, <2>4, TagsAssumption DEF BuildTransactions
<1>5. CASE InsertNew
  BY <1>2, <1>3, <1>5 DEF InsertNew, BuiltIntrinsic
<1>6. CASE LoadTags
  BY <1>2, <1>3, <1>6 DEF LoadTags, BuiltIntrinsic
<1>7. CASE UpdateTags
  BY <1>2, <1>3, <1>7 DEF UpdateTags, Merged, MergedTags, BuiltIntrinsic
<1>8. CASE SameTags
  BY <1>2, <1>3, <1>8 DEF SameTags, Merged, BuiltIntrinsic
<1>9. CASE Inserted \/ InsertTransactionsFails
  BY <1>2, <1>3, <1>9
     DEF Inserted, InsertTransactionsFails, Return, NoTags, BuiltIntrinsic
<1> QED BY <1>4, <1>5, <1>6, <1>7, <1>8, <1>9 DEF InsertTransactions

\* So does the retag thread, and a restart.
LEMMA RetagInv == TagInv /\ (RetagTransactions \/ Restart) => TagInv'
<1> SUFFICES ASSUME TagInv, RetagTransactions \/ Restart PROVE TagInv'
  OBVIOUS
<1> USE DEF TagInv, TypeOK, insertvars, retagvars
<1>1. \A tx \in Txs : tags[tx] \cap Intrinsic[tx] \subseteq tags'[tx]
  BY IntrinsicStep DEF Next
<1>2. CASE LoadTransactions
  BY <1>2 DEF LoadTransactions, BuiltIntrinsic, SnapshotThere, RetagCovers
<1>3. CASE RetagTransaction
  <2>1. PICK tx \in snapshot, context \in SUBSET RetagContext :
           /\ snapshot' = snapshot \ {tx}
           /\ retagged' = retagged \cup {tx}
           /\ tags' = [tags EXCEPT ![tx] =
                 IF Intrinsic[tx] \cup context \cup old_tags[tx] # old_tags[tx]
                 THEN Intrinsic[tx] \cup context \cup old_tags[tx] ELSE @]
    BY <1>3 DEF RetagTransaction
  <2>2. Intrinsic[tx] \subseteq tags'[tx]
    BY <2>1 DEF SnapshotThere
  <2>3. tags' \in [Txs -> SUBSET Tags]
    BY <2>1, TagsAssumption
  <2>4. SnapshotThere' /\ RetagCovers'
    BY <1>1, <1>3, <2>1, <2>2 DEF RetagTransaction, SnapshotThere, RetagCovers
  <2> QED BY <1>3, <2>1, <2>3, <2>4 DEF RetagTransaction, BuiltIntrinsic
<1>4. CASE RetagSkips
  BY <1>4 DEF RetagSkips, BuiltIntrinsic, SnapshotThere, RetagCovers
<1>5. CASE RetagEnds
  BY <1>5 DEF RetagEnds, NoTags, BuiltIntrinsic, SnapshotThere, RetagCovers
<1>6. CASE Restart
  BY <1>6 DEF Restart, Return, NoTags, BuiltIntrinsic, SnapshotThere, RetagCovers
<1> QED BY <1>2, <1>3, <1>4, <1>5, <1>6 DEF RetagTransactions

\* The invariant of the two threads.
THEOREM TagInvariance == Spec => []TagInv
<1>1. TagInv /\ UNCHANGED vars => TagInv'
  BY DEF TagInv, TypeOK, vars, insertvars, retagvars, BuiltIntrinsic,
         SnapshotThere, RetagCovers
<1>2. TagInv /\ [Next]_vars => TagInv'
  BY <1>1, InsertInv, RetagInv DEF Next
<1> QED BY <1>2, InitInv, PTL DEF Spec

\* The types of the two threads' state and of the table.
THEOREM TagTypes == Spec => []TypeOK
<1>1. TagInv => TypeOK
  BY DEF TagInv
<1> QED BY <1>1, TagInvariance, PTL

\* However insert_transactions and the retag thread interleave, no row loses a
\* tag that follows from the transaction alone.
THEOREM IntrinsicSafe == Spec => IntrinsicKept
<1>1. TagInv /\ [Next]_vars
          => [\A tx \in Txs : tags[tx] \cap Intrinsic[tx] \subseteq tags'[tx]]_vars
  BY IntrinsicStep
<1> QED BY <1>1, TagInvariance, PTL DEF Spec, IntrinsicKept

\* A transaction the retag thread has been through has all its intrinsic tags,
\* whatever insert_transactions does at the same time.
THEOREM RetagWorks == Spec => []RetagCovers
<1>1. TagInv => RetagCovers
  BY DEF TagInv
<1> QED BY <1>1, TagInvariance, PTL

-----------------------------------------------------------------------------
(* Without the retag thread the tags that were loaded are still the row's  *)
(* tags when they are written back, so a merge only adds.                  *)

Alone ==
    /\ retag_pc = "ended"
    /\ pc = "update" => db_tx_tags = tags[reading]
    /\ pc \in {"merge", "update"} => txns \subseteq rows
    /\ \A tx \in Txs \ rows : tags[tx] = {}
    /\ MergedTagsThere

AloneInv == TagInv /\ (~Retag => Alone)

\* A step without the retag thread takes no tag from any row.
LEMMA AloneGrows ==
    ASSUME AloneInv, ~Retag, [Next]_vars
    PROVE  \A tx \in Txs : tags[tx] \subseteq tags'[tx]
<1> USE DEF AloneInv, Alone, TagInv, TypeOK, insertvars, retagvars
<1>1. CASE InsertNew
  BY <1>1 DEF InsertNew
<1>2. CASE UpdateTags
  BY <1>2 DEF UpdateTags, MergedTags
<1>3. CASE UNCHANGED tags
  BY <1>3
<1> QED BY <1>1, <1>2, <1>3
        DEF Next, InsertTransactions, RetagTransactions, BuildTransactions,
            LoadTags, SameTags, Inserted, InsertTransactionsFails,
            LoadTransactions, RetagTransaction, RetagSkips, RetagEnds, Restart, vars

\* The invariant without the retag thread.
THEOREM AloneInvariance == Spec => []AloneInv
<1>1. Init => AloneInv
  <2> SUFFICES ASSUME Init PROVE AloneInv
    OBVIOUS
  <2>1. TagInv
    BY InitInv
  <2> QED BY <2>1 DEF Init, AloneInv, Alone, MergedTagsThere
<1>2. AloneInv /\ TagInv' /\ [Next]_vars => AloneInv'
  <2>0. [Next]_vars => UNCHANGED Retag
    BY DEF Next, InsertTransactions, RetagTransactions, BuildTransactions, InsertNew,
           LoadTags, UpdateTags, SameTags, Inserted, InsertTransactionsFails,
           LoadTransactions, RetagTransaction, RetagSkips, RetagEnds, Restart,
           vars, retagvars
  <2> SUFFICES ASSUME AloneInv, TagInv', [Next]_vars, ~Retag, ~Retag' PROVE Alone'
    BY <2>0 DEF AloneInv
  <2> USE DEF AloneInv, Alone, MergedTagsThere, insertvars, retagvars
  <2>1. CASE BuildTransactions
    BY <2>1 DEF BuildTransactions
  <2>2. CASE InsertNew
    BY <2>2 DEF InsertNew, TagInv, TypeOK
  <2>3. CASE LoadTags
    BY <2>3 DEF LoadTags
  <2>4. CASE UpdateTags
    BY <2>4 DEF UpdateTags, Merged, MergedTags, TagInv, TypeOK
  <2>5. CASE SameTags
    BY <2>5 DEF SameTags, Merged
  <2>6. CASE Inserted \/ InsertTransactionsFails
    BY <2>6 DEF Inserted, InsertTransactionsFails, Return
  <2>7. CASE Restart
    BY <2>7 DEF Restart, Return
  <2>8. CASE RetagTransactions
    BY <2>8 DEF RetagTransactions, LoadTransactions, RetagTransaction, RetagSkips,
                RetagEnds
  <2>9. CASE UNCHANGED vars
    BY <2>9 DEF vars
  <2> QED BY <2>1, <2>2, <2>3, <2>4, <2>5, <2>6, <2>7, <2>8, <2>9
          DEF Next, InsertTransactions
<1> QED BY <1>1, <1>2, TagInvariance, PTL DEF Spec

\* Without the retag thread the merge of insert_transactions only ever adds
\* tags, across failures and restarts.
THEOREM MergeGrows == Spec => TagsGrowAlone
<1>1. AloneInv /\ [Next]_vars
          => [~Retag => \A tx \in Txs : tags[tx] \subseteq tags'[tx]]_vars
  BY AloneGrows
<1> QED BY <1>1, AloneInvariance, PTL DEF Spec, TagsGrowAlone

\* ... and what insert_transactions is done with has the tags it was given.
THEOREM MergeComplete == Spec => []MergedTagsThere
<1>1. AloneInv => MergedTagsThere
  BY DEF AloneInv, Alone, MergedTagsThere
<1> QED BY <1>1, AloneInvariance, PTL
=============================================================================
