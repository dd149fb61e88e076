---------------------------- MODULE RecordProofs ----------------------------
(***************************************************************************)
(* Observer implements Record: for every block tree, every set of          *)
(* transactions, every capacity of the queue and any number of failures    *)
(* and restarts, what main_loop and process do to the tables is what       *)
(* Record promises to their readers.  With it, what the tables hold of a   *)
(* block, finished or not.                                                 *)
(***************************************************************************)
EXTENDS ObserverProofs

-----------------------------------------------------------------------------
(* The templates at hand are templates of the node                         *)

NodeTemplate(t) ==
    /\ t.height # 0
    /\ \E p \in Blocks : t.txs \in TemplateTxs[p]

TemplateInv ==
    /\ TypeOK
    /\ \A i \in DOMAIN last_templates : NodeTemplate(last_templates[i])
    /\ pc # "get_block_template" => NodeTemplate(current)
    /\ pc \in DbSteps => NodeTemplate(selected)

\* A template the node gives for its tip is one of its templates.
LEMMA TipTemplates ==
    ASSUME TypeOK, NEW txs \in TemplateTxs[Tip]
    PROVE  NodeTemplate(TemplateOnTip(txs))
BY TemplateTypes DEF NodeTemplate, TemplateOnTip

\* main_loop keeps templates of the node.
LEMMA MainLoopTemplates == TemplateInv /\ TypeOK' /\ MainLoop => TemplateInv'
<1> SUFFICES ASSUME TemplateInv, TypeOK', MainLoop PROVE TemplateInv'
  OBVIOUS
<1> USE DEF loopvars, procvars
<1>1. TypeOK
  BY DEF TemplateInv
<1>2. CASE FirstTemplate \/ SameTip
  <2>1. pc = "get_block_template" /\ pc' = pc
    BY <1>2 DEF FirstTemplate, SameTip
  <2>2. PICK txs \in TemplateTxs[Tip] :
           \/ last_templates' = <<TemplateOnTip(txs)>>
           \/ /\ last_templates # <<>>
              /\ last_templates' = PushBounded(last_templates, TemplateOnTip(txs))
    BY <1>2 DEF FirstTemplate, SameTip
  <2>3. NodeTemplate(TemplateOnTip(txs)) /\ TemplateOnTip(txs) \in Template
    BY <1>1, TipTemplates, TemplateTypes
  <2>4. \A i \in DOMAIN last_templates' :
            \/ last_templates'[i] = TemplateOnTip(txs)
            \/ \E j \in DOMAIN last_templates : last_templates'[i] = last_templates[j]
    BY <1>1, <2>2, <2>3, PushElements DEF TypeOK
  <2>5. pc' \notin DbSteps
    BY <2>1 DEF DbSteps, LookupSteps, InsertSteps
  <2> QED BY <2>1, <2>3, <2>4, <2>5 DEF TemplateInv
<1>3. CASE TipChanged
  <2>1. NodeTemplate(current') /\ pc' = "get_block" /\ last_templates' = last_templates
    BY <1>1, <1>3, TipTemplates DEF TipChanged
  <2>2. pc' \notin DbSteps
    BY <2>1 DEF DbSteps, LookupSteps, InsertSteps
  <2> QED BY <2>1, <2>2 DEF TemplateInv
<1>4. CASE \/ GetBlock \/ GetBlockSkipped \/ GetBlockHash \/ GetMissedBlock
           \/ GetBlockTxidFee
  <2>1. /\ UNCHANGED <<last_templates, current>>
        /\ pc # "get_block_template" /\ pc' \notin DbSteps
    BY <1>4 DEF GetBlock, GetBlockSkipped, GetBlockHash, GetMissedBlock,
                GetBlockTxidFee, DbSteps, LookupSteps, InsertSteps
  <2> QED BY <2>1 DEF TemplateInv
<1> QED BY <1>2, <1>3, <1>4 DEF MainLoop

\* The round ends: the queue is kept or emptied, and may get the current template.
LEMMA RoundEndTemplates ==
    ASSUME TemplateInv, TypeOK', pc' = "get_block_template",
           \/ last_templates' = last_templates
           \/ last_templates' = <<>>
           \/ /\ pc # "get_block_template"
              /\ \/ last_templates' = <<current>>
                 \/ last_templates' = Append(last_templates, current)
    PROVE  TemplateInv'
<1>1. \A i \in DOMAIN last_templates' :
          \/ pc # "get_block_template" /\ last_templates'[i] = current
          \/ \E j \in DOMAIN last_templates : last_templates'[i] = last_templates[j]
  <2>1. last_templates \in Seq(Template) /\ current \in Template
    BY DEF TemplateInv, TypeOK
  <2>2. CASE last_templates' = Append(last_templates, current) /\ pc # "get_block_template"
    BY <2>1, <2>2, AppendElements
  <2> QED BY <2>1, <2>2
<1>2. pc' \notin DbSteps
  BY DEF DbSteps, LookupSteps, InsertSteps
<1> QED BY <1>1, <1>2 DEF TemplateInv

\* process and its failures keep templates of the node.
LEMMA ProcessTemplates ==
    TemplateInv /\ TypeOK' /\ (Process \/ Failure) => TemplateInv'
<1> SUFFICES ASSUME TemplateInv, TypeOK', Process \/ Failure PROVE TemplateInv'
  OBVIOUS
<1> USE DEF loopvars, procvars
<1>1. CASE SelectTemplate
  <2>1. /\ UNCHANGED <<last_templates, current>>
        /\ pc # "get_block_template" /\ pc' # "get_block_template"
        /\ \E i \in DOMAIN last_templates : selected' = last_templates[i]
    BY <1>1 DEF SelectTemplate
  <2> QED BY <2>1 DEF TemplateInv
<1>2. CASE InsertDebug \/ InsertRejected \/ RpcFails \/ InsertFails \/ Restart
  <2>1. /\ pc' = "get_block_template"
        /\ \/ last_templates' = last_templates
           \/ last_templates' = <<>>
           \/ /\ pc # "get_block_template"
              /\ \/ last_templates' = <<current>>
                 \/ last_templates' = Append(last_templates, current)
    BY <1>2 DEF InsertDebug, InsertRejected, RpcFails, InsertFails, Restart, Return,
                NextRound, InsertSteps
  <2> QED BY <2>1, RoundEndTemplates
<1>3. CASE \/ GetConnection \/ SanctionedAddresses \/ GetSanctionedUtxos
           \/ InsertBlock \/ InsertTransactions \/ InsertOnlyInBlock
           \/ InsertOnlyInTemplate \/ InsertSanctionedInfos \/ InsertConflicting
           \/ InsertSanctionedUtxos \/ ConnectionFails \/ LookupFails
  <2>1. /\ UNCHANGED <<last_templates, current, selected>>
        /\ pc \in DbSteps /\ pc' # "get_block_template" /\ pc # "get_block_template"
    BY <1>3
    DEF GetConnection, SanctionedAddresses, GetSanctionedUtxos, InsertBlock,
        InsertTransactions, InsertOnlyInBlock, InsertOnlyInTemplate,
        InsertSanctionedInfos, InsertConflicting, InsertSanctionedUtxos,
        ConnectionFails, LookupFails, DbSteps, LookupSteps, InsertSteps
  <2> QED BY <2>1 DEF TemplateInv
<1> QED BY <1>1, <1>2, <1>3 DEF Process, Failure

\* All templates the daemon holds are templates of the node.
THEOREM TemplateInvariance == Spec => []TemplateInv
<1>1. Init /\ TypeOK => TemplateInv
  BY DEF Init, TemplateInv, DbSteps, LookupSteps, InsertSteps
<1>2. TemplateInv /\ TypeOK' /\ [Next]_vars => TemplateInv'
  <2>1. TemplateInv /\ TypeOK' /\ (UNCHANGED vars \/ Node) => TemplateInv'
    BY DEF TemplateInv, vars, loopvars, procvars, Node, NodeConnect, NodeReorg
  <2> QED BY <2>1, MainLoopTemplates, ProcessTemplates DEF Next
<1> QED BY <1>1, <1>2, TypeCorrect, PTL DEF Spec

-----------------------------------------------------------------------------
(* What the tables hold                                                    *)

AfterOnlyInTemplate == {"sanctioned_infos", "conflicting", "sanctioned_utxos", "debug"}
AfterConflicting    == {"sanctioned_utxos", "debug"}

\* The rows that the attempt in progress has written.
RowsSoFar ==
    /\ pc \in InsertSteps =>
          block[blk] = [template |-> selected,
                        sanctioned_missing |-> SanctionedMissing(blk, selected)]
    /\ pc \in AfterOnlyInTemplate \cup {"only_in_template"} =>
          /\ only_in_block[blk] = OnlyInBlock(blk, selected)
          /\ OnlyInBlock(blk, selected) \subseteq transaction
    /\ pc \in AfterOnlyInTemplate =>
          /\ only_in_template[blk] = OnlyInTemplate(blk, selected)
          /\ OnlyInTemplate(blk, selected) \subseteq transaction
    /\ pc \in AfterOnlyInTemplate \ {"sanctioned_infos"} =>
          sanctioned_info[blk] = SanctionedInfos(blk, selected)
    /\ pc \in AfterConflicting => conflicting[blk] = ConflictingTxs(blk, selected)

RowsInv ==
    /\ TemplateInv
    /\ NeverProcessedAgain
    /\ RowsSoFar
    /\ transaction \cap Unbuildable = {}
    /\ ConflictsResolvable
    /\ CompleteRowsExact

\* What process builds depends on its locals alone.
LEMMA SameLocals ==
    ASSUME UNCHANGED <<blk, selected, addresses, utxos>>
    PROVE  /\ SanctionedMissing(blk, selected)' = SanctionedMissing(blk, selected)
           /\ OnlyInBlock(blk, selected)' = OnlyInBlock(blk, selected)
           /\ OnlyInTemplate(blk, selected)' = OnlyInTemplate(blk, selected)
           /\ SanctionedInfos(blk, selected)' = SanctionedInfos(blk, selected)
           /\ ConflictingTxs(blk, selected)' = ConflictingTxs(blk, selected)
BY DEF SanctionedMissing, OnlyInBlock, OnlyInTemplate, SanctionedInfos,
       ConflictingTxs, IsTxSanctioned, IsTxToSanctioned, IsTxFromSanctioned

\* The sanctioned transactions counted as missing are the ones that get an info,
\* if all that is missing can be built.
LEMMA MissingHaveInfos ==
    ASSUME NEW b, NEW t, OnlyInTemplate(b, t) \cap Unbuildable = {}
    PROVE  SanctionedMissing(b, t) = OnlyInTemplate(b, t) \cap SanctionedInfos(b, t)
BY DEF SanctionedMissing, SanctionedInfos, OnlyInTemplate

\* What is built of transactions leaves out the ones that cannot be built.
LEMMA BuiltTransactions ==
    \A b, t : Transactions(b, t) \cap Unbuildable = {}
BY DEF Transactions

\* A stored row is one: no template of the node looks like no template.
LEMMA RowIsStored ==
    ASSUME NEW b, NEW t, NEW S, NodeTemplate(t),
           block[b] = [template |-> t, sanctioned_missing |-> S]
    PROVE  Stored(b)
BY DEF Stored, NoRow, NoTemplate, NodeTemplate

\* Nothing of a block changes but that transactions are added, and process is
\* not in the middle of its INSERTs afterwards, or has not moved.
LEMMA QuietRows ==
    ASSUME RowsInv, TemplateInv', NeverProcessedAgain',
           UNCHANGED <<block, only_in_block, only_in_template, sanctioned_info,
                       conflicting, debug>>,
           transaction \subseteq transaction', transaction' \cap Unbuildable = {},
           \/ pc' \notin InsertSteps
           \/ UNCHANGED <<pc, blk, selected, addresses, utxos>>
    PROVE  RowsInv'
<1>1. RowsSoFar'
  <2>1. CASE pc' \notin InsertSteps
    BY <2>1 DEF RowsSoFar, AfterOnlyInTemplate, AfterConflicting, InsertSteps
  <2>2. CASE UNCHANGED <<pc, blk, selected, addresses, utxos>>
    BY <2>2, SameLocals DEF RowsInv, RowsSoFar
  <2> QED BY <2>1, <2>2
<1>2. ConflictsResolvable'
  BY DEF RowsInv, ConflictsResolvable
<1>3. CompleteRowsExact'
  BY DEF RowsInv, CompleteRowsExact, Complete, Stored, OnlyInBlock, OnlyInTemplate,
         ConflictingTxs
<1> QED BY <1>1, <1>2, <1>3 DEF RowsInv

\* A step of process writes rows of the block in hand, which is not complete, so
\* that the rows of complete blocks stay.
LEMMA CompleteStay ==
    ASSUME RowsInv, TypeOK', pc \in ProcessSteps, debug' = debug,
           \A b \in Blocks \ {blk} :
              /\ block'[b] = block[b]
              /\ only_in_block'[b] = only_in_block[b]
              /\ only_in_template'[b] = only_in_template[b]
              /\ sanctioned_info'[b] = sanctioned_info[b]
              /\ conflicting'[b] = conflicting[b]
    PROVE  CompleteRowsExact'
<1>1. \A b \in Blocks : Complete(b)' => b # blk /\ Complete(b)
  BY DEF RowsInv, NeverProcessedAgain, Complete
<1> QED BY <1>1 DEF RowsInv, CompleteRowsExact, Stored, OnlyInBlock, OnlyInTemplate,
                    ConflictingTxs

\* The INSERTs of process keep the invariant.
LEMMA InsertRows ==
    ASSUME RowsInv, TemplateInv', NeverProcessedAgain',
           \/ InsertBlock \/ InsertTransactions \/ InsertOnlyInBlock
           \/ InsertOnlyInTemplate \/ InsertSanctionedInfos \/ InsertConflicting
           \/ InsertSanctionedUtxos
    PROVE  RowsInv'
<1> USE DEF loopvars, procvars, txtables
<1>1. TypeOK /\ TypeOK'
  BY DEF RowsInv, TemplateInv
<1>2. UNCHANGED <<blk, selected, addresses, utxos, debug>> /\ pc \in ProcessSteps
  BY DEF InsertBlock, InsertTransactions, InsertOnlyInBlock, InsertOnlyInTemplate,
         InsertSanctionedInfos, InsertConflicting, InsertSanctionedUtxos,
         ProcessSteps, DbSteps, InsertSteps
<1>3. CompleteRowsExact'
  <2>1. \A b \in Blocks \ {blk} :
           /\ block'[b] = block[b]
           /\ only_in_block'[b] = only_in_block[b]
           /\ only_in_template'[b] = only_in_template[b]
           /\ sanctioned_info'[b] = sanctioned_info[b]
           /\ conflicting'[b] = conflicting[b]
    BY <1>1 DEF TypeOK, InsertBlock, InsertTransactions, InsertOnlyInBlock,
       InsertOnlyInTemplate, InsertSanctionedInfos, InsertConflicting,
       InsertSanctionedUtxos
  <2> QED BY <1>1, <1>2, <2>1, CompleteStay
<1>4. transaction \subseteq transaction' /\ transaction' \cap Unbuildable = {}
  BY BuiltTransactions
  DEF RowsInv, InsertBlock, InsertTransactions, InsertOnlyInBlock,
      InsertOnlyInTemplate, InsertSanctionedInfos, InsertConflicting,
      InsertSanctionedUtxos
<1>5. ConflictsResolvable'
  <2>1. CASE InsertConflicting
    <3>1. ConflictingTxs(blk, selected) \subseteq transaction
      BY <2>1 DEF InsertConflicting, RowsInv, RowsSoFar, AfterOnlyInTemplate,
                  ConflictingTxs
    <3> QED BY <1>1, <1>4, <2>1, <3>1
            DEF InsertConflicting, RowsInv, ConflictsResolvable, TypeOK
  <2>2. CASE ~InsertConflicting
    <3>1. conflicting' = conflicting
      BY <2>2 DEF InsertBlock, InsertTransactions, InsertOnlyInBlock,
         InsertOnlyInTemplate, InsertSanctionedInfos, InsertSanctionedUtxos
    <3> QED BY <1>4, <3>1 DEF RowsInv, ConflictsResolvable
  <2> QED BY <2>1, <2>2
<1>6. RowsSoFar'
  <2> USE <1>1, <1>2, SameLocals DEF TypeOK, RowsSoFar, AfterOnlyInTemplate,
                                     AfterConflicting, InsertSteps
  <2>1. CASE InsertBlock
    BY <2>1 DEF InsertBlock
  <2>2. CASE InsertTransactions
    BY <2>2 DEF RowsInv, InsertTransactions
  <2>3. CASE InsertOnlyInBlock
    BY <2>3 DEF RowsInv, InsertOnlyInBlock
  <2>4. CASE InsertOnlyInTemplate
    BY <2>4 DEF RowsInv, InsertOnlyInTemplate
  <2>5. CASE InsertSanctionedInfos
    BY <2>5 DEF RowsInv, InsertSanctionedInfos
  <2>6. CASE InsertConflicting
    BY <2>6 DEF RowsInv, InsertConflicting
  <2>7. CASE InsertSanctionedUtxos
    BY <2>7 DEF RowsInv, InsertSanctionedUtxos
  <2> QED BY <2>1, <2>2, <2>3, <2>4, <2>5, <2>6, <2>7
<1> QED BY <1>3, <1>4, <1>5, <1>6 DEF RowsInv

\* The last INSERT: the rows so far are all the rows of the block.
LEMMA DebugRows ==
    ASSUME RowsInv, TemplateInv', NeverProcessedAgain', InsertDebug
    PROVE  RowsInv'
<1> USE DEF txtables
<1>1. /\ pc = "debug" /\ debug' = debug \cup {blk}
      /\ pc' = "get_block_template"
      /\ UNCHANGED <<block, transaction, only_in_block, only_in_template,
                     sanctioned_info, conflicting>>
  BY DEF InsertDebug, Return, NextRound
<1>2. /\ block[blk] = [template |-> selected,
                       sanctioned_missing |-> SanctionedMissing(blk, selected)]
      /\ only_in_block[blk] = OnlyInBlock(blk, selected)
      /\ only_in_template[blk] = OnlyInTemplate(blk, selected)
      /\ OnlyInTemplate(blk, selected) \subseteq transaction
      /\ sanctioned_info[blk] = SanctionedInfos(blk, selected)
      /\ conflicting[blk] = ConflictingTxs(blk, selected)
  BY <1>1 DEF RowsInv, RowsSoFar, InsertSteps, AfterOnlyInTemplate, AfterConflicting
<1>3. Stored(blk)
  BY <1>1, <1>2, RowIsStored DEF RowsInv, TemplateInv, DbSteps, InsertSteps
<1>4. SanctionedMissing(blk, selected) = only_in_template[blk] \cap sanctioned_info[blk]
  BY <1>2, MissingHaveInfos DEF RowsInv
<1>5. CompleteRowsExact'
  BY <1>1, <1>2, <1>3, <1>4 DEF RowsInv, CompleteRowsExact, Complete, Stored,
     OnlyInBlock, OnlyInTemplate, ConflictingTxs
<1>6. RowsSoFar'
  BY <1>1 DEF RowsSoFar, InsertSteps, AfterOnlyInTemplate, AfterConflicting
<1> QED BY <1>1, <1>5, <1>6 DEF RowsInv, ConflictsResolvable

\* RowsInv is an invariant.
THEOREM RowsInvariance == Spec => []RowsInv
<1>1. Init /\ TemplateInv /\ NeverProcessedAgain => RowsInv
  BY DEF Init, RowsInv, RowsSoFar, InsertSteps, AfterOnlyInTemplate,
         AfterConflicting, ConflictsResolvable, CompleteRowsExact, Complete
<1>2. RowsInv /\ TemplateInv' /\ NeverProcessedAgain' /\ [Next]_vars => RowsInv'
  <2> SUFFICES ASSUME RowsInv, TemplateInv', NeverProcessedAgain', [Next]_vars
               PROVE  RowsInv'
    OBVIOUS
  <2> USE DEF loopvars, procvars, dbvars, txtables, envvars
  <2>1. CASE UNCHANGED vars \/ Node
    BY <2>1, QuietRows DEF vars, Node, NodeConnect, NodeReorg, RowsInv
  <2>2. CASE MainLoop
    <3>1. UNCHANGED dbvars /\ pc' \notin InsertSteps
      BY <2>2 DEF MainLoop, FirstTemplate, SameTip, TipChanged, GetBlock,
                  GetBlockSkipped, GetBlockHash, GetMissedBlock, GetBlockTxidFee,
                  InsertSteps
    <3> QED BY <3>1, QuietRows DEF RowsInv
  <2>3. CASE \/ SelectTemplate \/ GetConnection \/ SanctionedAddresses
             \/ GetSanctionedUtxos \/ InsertRejected
    <3>1. UNCHANGED dbvars /\ pc' \notin InsertSteps
      BY <2>3 DEF SelectTemplate, GetConnection, SanctionedAddresses,
                  GetSanctionedUtxos, InsertRejected, Return, NextRound, InsertSteps
    <3> QED BY <3>1, QuietRows DEF RowsInv
  <2>4. CASE Failure
    <3>1. /\ UNCHANGED <<block, only_in_block, only_in_template, sanctioned_info,
                         conflicting, debug>>
          /\ pc' \notin InsertSteps
          /\ \/ transaction' = transaction
             \/ transaction' = transaction \cup Transactions(blk, selected)
      BY <2>4 DEF Failure, RpcFails, ConnectionFails, LookupFails, InsertFails,
                  Restart, Return, NextRound, InsertSteps, LookupSteps
    <3>2. transaction \subseteq transaction' /\ transaction' \cap Unbuildable = {}
      BY <3>1, BuiltTransactions DEF RowsInv
    <3> QED BY <3>1, <3>2, QuietRows
  <2> QED BY <2>1, <2>2, <2>3, <2>4, InsertRows, DebugRows DEF Next, Process
<1> QED BY <1>1, <1>2, TemplateInvariance, NoReprocessing, PTL DEF Spec

\* Every transaction a conflicting_transactions row names is in table
\* transaction, whatever fails and whichever transactions cannot be built: the
\* INSERTs before it, whose foreign keys name the same transactions, succeeded.
THEOREM ConflictsNamed == Spec => []ConflictsResolvable
<1>1. RowsInv => ConflictsResolvable
  BY DEF RowsInv
<1> QED BY <1>1, RowsInvariance, PTL

\* The tables agree on every block that has its last rows, for any number of
\* failed attempts, restarts and reorgs.
THEOREM RowsExact == Spec => []CompleteRowsExact
<1>1. RowsInv => CompleteRowsExact
  BY DEF RowsInv
<1> QED BY <1>1, RowsInvariance, PTL

-----------------------------------------------------------------------------
(* The refinement                                                          *)

\* The rows as Record sees them depend on table block alone.
LEMMA SameRows ==
    ASSUME NEW b \in Blocks, block'[b] = block[b]
    PROVE  RecordedRow(b)' = RecordedRow(b) /\ Stored(b)' = Stored(b)
BY DEF RecordedRow, Stored, ComparisonWith, OnlyInBlock, OnlyInTemplate,
       ConflictingTxs

\* The comparison that the row of the block in hand is about.
LEMMA RowInHand ==
    ASSUME RowsInv, pc \in InsertSteps
    PROVE  /\ Stored(blk)
           /\ RecordedRow(blk) = ComparisonWith(blk, selected,
                                                SanctionedMissing(blk, selected))
<1>1. block[blk] = [template |-> selected,
                    sanctioned_missing |-> SanctionedMissing(blk, selected)]
  BY DEF RowsInv, RowsSoFar
<1>2. Stored(blk)
  BY <1>1, RowIsStored DEF RowsInv, TemplateInv, DbSteps
<1> QED BY <1>1, <1>2 DEF RecordedRow

\* A comparison of a block with a template of the node is one Record allows.
LEMMA ComparisonAllowed ==
    ASSUME TypeOK, NodeTemplate(selected)
    PROVE  ComparisonWith(blk, selected, SanctionedMissing(blk, selected))
               \in NodeComparisons[blk]
<1> DEFINE S == SanctionedMissing(blk, selected)
<1>1. PICK p \in Blocks : selected.txs \in TemplateTxs[p]
  BY DEF NodeTemplate
<1>2. S \subseteq selected.txs \ BlockTxs[blk]
  BY DEF SanctionedMissing, OnlyInTemplate
<1>3. ComparisonWith(blk, selected, S) = ComparisonWith(blk, [txs |-> selected.txs], S)
  BY DEF ComparisonWith, OnlyInBlock, OnlyInTemplate, ConflictingTxs
<1>4. blk \in Blocks
  BY DEF TypeOK
<1> DEFINE With(txs) == { ComparisonWith(blk, [txs |-> txs], R) :
                             R \in SUBSET (txs \ BlockTxs[blk]) }
<1>5. selected.txs \in UNION { TemplateTxs[q] : q \in Blocks }
  BY <1>1
<1>6. ComparisonWith(blk, selected, S) \in With(selected.txs)
  <2> HIDE DEF S
  <2>1. S \in SUBSET (selected.txs \ BlockTxs[blk])
    BY <1>2
  <2> QED BY <1>3, <2>1
<1>7. NodeComparisons[blk]
          = UNION { With(txs) : txs \in UNION { TemplateTxs[q] : q \in Blocks } }
  BY <1>4 DEF NodeComparisons
<1> HIDE DEF S, With
<1>8. ComparisonWith(blk, selected, S)
          \in UNION { With(txs) : txs \in UNION { TemplateTxs[q] : q \in Blocks } }
  BY <1>5, <1>6
<1> QED BY <1>7, <1>8 DEF S

\* Steps that write no row of these tables and begin or end no attempt.
LEMMA StutterStep ==
    ASSUME UNCHANGED <<block, transaction, only_in_block, only_in_template,
                       sanctioned_info, conflicting, debug>>,
           \/ pc \notin InsertSteps /\ pc' \notin InsertSteps
           \/ UNCHANGED <<pc, blk>>
           \/ pc = "sanctioned_utxos" /\ pc' = "debug" /\ blk' = blk
    PROVE  UNCHANGED Record!recordVars
<1>1. \A b \in Blocks : RecordedRow(b)' = RecordedRow(b) /\ Stored(b)' = Stored(b)
  BY SameRows
<1>2. /\ { b \in Blocks : Stored(b) }' = { b \in Blocks : Stored(b) }
      /\ [b \in Blocks |-> RecordedRow(b)]' = [b \in Blocks |-> RecordedRow(b)]
  BY <1>1
<1>3. /\ (IF pc \in InsertSteps THEN {blk} ELSE {})'
             = (IF pc \in InsertSteps THEN {blk} ELSE {})
      /\ (IF pc = "sanctioned_utxos" THEN "debug"
          ELSE IF pc \in InsertSteps THEN pc ELSE "none")'
             = (IF pc = "sanctioned_utxos" THEN "debug"
                ELSE IF pc \in InsertSteps THEN pc ELSE "none")
  BY DEF InsertSteps
<1> QED BY <1>2, <1>3 DEF Record!recordVars, Record!blockTable

\* The first INSERT.
LEMMA BlockStep ==
    ASSUME RowsInv, InsertBlock
    PROVE  Record!WriteBlock(blk)
<1> DEFINE cmp == ComparisonWith(blk, selected, SanctionedMissing(blk, selected))
<1> USE DEF loopvars, procvars, txtables
<1>1. /\ TypeOK /\ NodeTemplate(selected)
      /\ pc = "block" /\ ~Stored(blk) /\ pc' = "transactions"
      /\ block' = [block EXCEPT ![blk] =
            [template |-> selected,
             sanctioned_missing |-> SanctionedMissing(blk, selected)]]
      /\ UNCHANGED <<blk, selected, addresses, utxos, transaction, only_in_block,
                     only_in_template, sanctioned_info, conflicting, debug>>
  BY DEF InsertBlock, RowsInv, TemplateInv, DbSteps
<1>2. \A b \in Blocks \ {blk} :
          RecordedRow(b)' = RecordedRow(b) /\ Stored(b)' = Stored(b)
  <2>1. \A b \in Blocks \ {blk} : block'[b] = block[b]
    BY <1>1 DEF TypeOK
  <2> QED BY <2>1, SameRows
<1>3. blk \in Blocks
  BY <1>1 DEF TypeOK
<1>4. /\ block'[blk].template = selected
      /\ block'[blk].sanctioned_missing = SanctionedMissing(blk, selected)
      /\ Stored(blk)'
  BY <1>1, <1>3 DEF TypeOK, Stored, NoRow, NoTemplate, NodeTemplate
<1>5. RecordedRow(blk)' = cmp
  BY <1>1, <1>4 DEF RecordedRow, ComparisonWith, OnlyInBlock, OnlyInTemplate,
                    ConflictingTxs
<1>6. cmp \in NodeComparisons[blk]
  BY <1>1, ComparisonAllowed
<1> HIDE DEF cmp
<1>7. { b \in Blocks : Stored(b) }' = { b \in Blocks : Stored(b) } \cup {blk}
  <2>1. \A b \in Blocks : Stored(b)' <=> Stored(b) \/ b = blk
    BY <1>1, <1>2, <1>3, <1>4
  <2> QED BY <1>3, <2>1
<1>8. [b \in Blocks |-> RecordedRow(b)]'
          = [[b \in Blocks |-> RecordedRow(b)] EXCEPT ![blk] = cmp]
  <2>1. \A b \in Blocks : RecordedRow(b)' = IF b = blk THEN cmp ELSE RecordedRow(b)
    BY <1>1, <1>2, <1>3, <1>5
  <2> QED BY <1>3, <2>1
<1>9. blk \notin { b \in Blocks : Stored(b) }
  BY <1>1
<1>10. /\ (IF pc \in InsertSteps THEN {blk} ELSE {}) = {}
       /\ (IF pc \in InsertSteps THEN {blk} ELSE {})' = {blk}
       /\ (IF pc = "sanctioned_utxos" THEN "debug"
           ELSE IF pc \in InsertSteps THEN pc ELSE "none")' = "transactions"
  BY <1>1 DEF InsertSteps
<1> QED BY <1>1, <1>6, <1>7, <1>8, <1>9, <1>10 DEF Record!WriteBlock

\* What the other INSERTs leave alone, as Record sees it.
LEMMA BlockTableStays ==
    ASSUME block' = block
    PROVE  UNCHANGED Record!blockTable
<1>1. \A b \in Blocks : RecordedRow(b)' = RecordedRow(b) /\ Stored(b)' = Stored(b)
  BY SameRows
<1>2. /\ { b \in Blocks : Stored(b) }' = { b \in Blocks : Stored(b) }
      /\ [b \in Blocks |-> RecordedRow(b)]' = [b \in Blocks |-> RecordedRow(b)]
  BY <1>1
<1> QED BY <1>2 DEF Record!blockTable

\* insert_transactions
LEMMA TransactionsStep ==
    ASSUME RowsInv, InsertTransactions
    PROVE  Record!WriteTransactions
<1> USE DEF loopvars, procvars, txtables
<1>1. /\ pc = "transactions" /\ pc' = "only_in_block"
      /\ transaction' = transaction \cup Transactions(blk, selected)
      /\ UNCHANGED <<blk, block, only_in_block, only_in_template, sanctioned_info,
                     conflicting, debug>>
  BY DEF InsertTransactions
<1>2. Transactions(blk, selected) \in SUBSET Txs
  BY TxAssumption DEF RowsInv, TemplateInv, TypeOK, Template, Transactions,
     OnlyInBlock, OnlyInTemplate, SanctionedInfos
<1>3. UNCHANGED Record!blockTable
  BY <1>1, BlockTableStays
<1> QED BY <1>1, <1>2, <1>3 DEF Record!WriteTransactions, InsertSteps

\* insert_transactions_only_in_block
LEMMA OnlyInBlockStep ==
    ASSUME RowsInv, InsertOnlyInBlock
    PROVE  Record!WriteOnlyInBlock(blk)
<1> USE DEF loopvars, procvars, txtables
<1>1. /\ pc = "only_in_block" /\ pc' = "only_in_template"
      /\ OnlyInBlock(blk, selected) \subseteq transaction
      /\ only_in_block' = [only_in_block EXCEPT ![blk] = OnlyInBlock(blk, selected)]
      /\ UNCHANGED <<blk, block, transaction, only_in_template, sanctioned_info,
                     conflicting, debug>>
  BY DEF InsertOnlyInBlock
<1>2. [b \in Blocks |-> RecordedRow(b)][blk].extra = OnlyInBlock(blk, selected)
  BY <1>1, RowInHand DEF RowsInv, TemplateInv, TypeOK, ComparisonWith, InsertSteps
<1>3. UNCHANGED Record!blockTable
  BY <1>1, BlockTableStays
<1> QED BY <1>1, <1>2, <1>3 DEF Record!WriteOnlyInBlock, InsertSteps

\* insert_transactions_only_in_template
LEMMA OnlyInTemplateStep ==
    ASSUME RowsInv, InsertOnlyInTemplate
    PROVE  Record!WriteOnlyInTemplate(blk)
<1> USE DEF loopvars, procvars, txtables
<1>1. /\ pc = "only_in_template" /\ pc' = "sanctioned_infos"
      /\ OnlyInTemplate(blk, selected) \subseteq transaction
      /\ only_in_template' =
            [only_in_template EXCEPT ![blk] = OnlyInTemplate(blk, selected)]
      /\ UNCHANGED <<blk, block, transaction, only_in_block, sanctioned_info,
                     conflicting, debug>>
  BY DEF InsertOnlyInTemplate
<1>2. [b \in Blocks |-> RecordedRow(b)][blk].missing = OnlyInTemplate(blk, selected)
  BY <1>1, RowInHand DEF RowsInv, TemplateInv, TypeOK, ComparisonWith, InsertSteps
<1>3. UNCHANGED Record!blockTable
  BY <1>1, BlockTableStays
<1> QED BY <1>1, <1>2, <1>3 DEF Record!WriteOnlyInTemplate, InsertSteps

\* insert_sanctioned_transaction_infos
LEMMA SanctionedInfosStep ==
    ASSUME RowsInv, InsertSanctionedInfos
    PROVE  Record!WriteSanctionedInfos(blk)
<1> USE DEF loopvars, procvars, txtables
<1>1. /\ pc = "sanctioned_infos" /\ pc' = "conflicting"
      /\ SanctionedInfos(blk, selected) \subseteq transaction
      /\ sanctioned_info' =
            [sanctioned_info EXCEPT ![blk] = SanctionedInfos(blk, selected)]
      /\ UNCHANGED <<blk, block, transaction, only_in_block, only_in_template,
                     conflicting, debug>>
  BY DEF InsertSanctionedInfos
<1>2. /\ [b \in Blocks |-> RecordedRow(b)][blk].missing
             = OnlyInTemplate(blk, selected)
      /\ [b \in Blocks |-> RecordedRow(b)][blk].sanctioned
             = SanctionedMissing(blk, selected)
  BY <1>1, RowInHand DEF RowsInv, TemplateInv, TypeOK, ComparisonWith, InsertSteps
<1>3. OnlyInTemplate(blk, selected) \cap Unbuildable = {}
  BY <1>1 DEF RowsInv, RowsSoFar, AfterOnlyInTemplate
<1>4. SanctionedMissing(blk, selected)
          = SanctionedInfos(blk, selected) \cap OnlyInTemplate(blk, selected)
  BY <1>3, MissingHaveInfos
<1>5. SanctionedInfos(blk, selected) \in SUBSET (transaction \cap Txs)
  BY <1>1 DEF RowsInv, TemplateInv, TypeOK
<1>6. UNCHANGED Record!blockTable
  BY <1>1, BlockTableStays
<1> QED BY <1>1, <1>2, <1>4, <1>5, <1>6 DEF Record!WriteSanctionedInfos, InsertSteps

\* insert_conflicting_transactions
LEMMA ConflictingStep ==
    ASSUME RowsInv, InsertConflicting
    PROVE  Record!WriteConflicting(blk)
<1> USE DEF loopvars, procvars, txtables
<1>1. /\ pc = "conflicting" /\ pc' = "sanctioned_utxos"
      /\ conflicting' = [conflicting EXCEPT ![blk] = ConflictingTxs(blk, selected)]
      /\ UNCHANGED <<blk, block, transaction, only_in_block, only_in_template,
                     sanctioned_info, debug>>
  BY DEF InsertConflicting
<1>2. [b \in Blocks |-> RecordedRow(b)][blk].conflicts = ConflictingTxs(blk, selected)
  BY <1>1, RowInHand DEF RowsInv, TemplateInv, TypeOK, ComparisonWith, InsertSteps
<1>3. UNCHANGED Record!blockTable
  BY <1>1, BlockTableStays
<1> QED BY <1>1, <1>2, <1>3 DEF Record!WriteConflicting, InsertSteps

\* The debug rows, the last ones.
LEMMA DebugStep ==
    ASSUME RowsInv, InsertDebug
    PROVE  Record!WriteDebug(blk)
<1> USE DEF txtables
<1>1. /\ pc = "debug" /\ pc' = "get_block_template"
      /\ debug' = debug \cup {blk}
      /\ UNCHANGED <<block, transaction, only_in_block, only_in_template,
                     sanctioned_info, conflicting>>
  BY DEF InsertDebug, Return, NextRound
<1>2. UNCHANGED Record!blockTable
  BY <1>1, BlockTableStays
<1> QED BY <1>1, <1>2 DEF Record!WriteDebug, InsertSteps

\* An attempt ends early.
LEMMA GiveUpStep ==
    ASSUME RowsInv, pc \in InsertSteps, pc' \notin InsertSteps,
           UNCHANGED <<block, only_in_block, only_in_template, sanctioned_info,
                       conflicting, debug>>,
           \/ transaction' = transaction
           \/ /\ pc = "transactions"
              /\ transaction' = transaction \cup Transactions(blk, selected)
    PROVE  Record!GiveUp
<1>1. Transactions(blk, selected) \in SUBSET Txs
  BY TxAssumption DEF RowsInv, TemplateInv, TypeOK, Template, Transactions,
     OnlyInBlock, OnlyInTemplate, SanctionedInfos
<1>2. UNCHANGED Record!blockTable
  BY BlockTableStays
<1>3. pc' # "sanctioned_utxos"
  BY DEF InsertSteps
<1> QED BY <1>1, <1>2, <1>3 DEF Record!GiveUp

\* Observer implements Record: every step of the daemon and of the node is a
\* step of Record or leaves its tables alone.
THEOREM Refinement == Spec => ImplementsRecord
<1>1. Init => Record!Init
  <2> SUFFICES ASSUME Init PROVE Record!Init
    OBVIOUS
  <2>1. \A b \in Blocks : ~Stored(b)
    BY DEF Init, Stored
  <2>2. \A b \in Blocks : RecordedRow(b) = Record!NoComparison
    BY <2>1 DEF RecordedRow, Record!NoComparison
  <2>3. { b \in Blocks : Stored(b) } = {}
    BY <2>1
  <2>4. [b \in Blocks |-> RecordedRow(b)] = [b \in Blocks |-> Record!NoComparison]
    BY <2>2
  <2> QED BY <2>3, <2>4 DEF Init, Record!Init, InsertSteps
<1>2. RowsInv /\ [Next]_vars => [Record!Next]_Record!recordVars
  <2> SUFFICES ASSUME RowsInv, [Next]_vars
               PROVE  Record!Next \/ UNCHANGED Record!recordVars
    OBVIOUS
  <2> USE DEF loopvars, procvars, dbvars, txtables, envvars
  <2>1. blk \in Blocks
    BY DEF RowsInv, TemplateInv, TypeOK
  <2>2. CASE InsertBlock
    BY <2>1, <2>2, BlockStep DEF Record!Next
  <2>3. CASE InsertTransactions
    BY <2>3, TransactionsStep DEF Record!Next, Record!WriteRest
  <2>4. CASE \/ InsertOnlyInBlock \/ InsertOnlyInTemplate \/ InsertSanctionedInfos
             \/ InsertConflicting \/ InsertDebug
    <3>1. pc \in InsertSteps
      BY <2>4 DEF InsertOnlyInBlock, InsertOnlyInTemplate, InsertSanctionedInfos,
                  InsertConflicting, InsertDebug, InsertSteps
    <3>2. blk \in (IF pc \in InsertSteps THEN {blk} ELSE {})
      BY <3>1
    <3>3. \/ Record!WriteOnlyInBlock(blk) \/ Record!WriteOnlyInTemplate(blk)
          \/ Record!WriteSanctionedInfos(blk) \/ Record!WriteConflicting(blk)
          \/ Record!WriteDebug(blk)
      BY <2>4, OnlyInBlockStep, OnlyInTemplateStep, SanctionedInfosStep,
         ConflictingStep, DebugStep
    <3> QED BY <3>2, <3>3 DEF Record!Next, Record!WriteRest
  <2>5. CASE InsertSanctionedUtxos
    <3>1. /\ pc = "sanctioned_utxos" /\ pc' = "debug"
          /\ UNCHANGED <<blk, block, transaction, only_in_block, only_in_template,
                         sanctioned_info, conflicting, debug>>
      BY <2>5 DEF InsertSanctionedUtxos
    <3> QED BY <3>1, StutterStep
  <2>6. CASE InsertRejected \/ Failure
    <3>1. /\ UNCHANGED <<block, only_in_block, only_in_template, sanctioned_info,
                         conflicting, debug>>
          /\ pc' \notin InsertSteps
          /\ \/ transaction' = transaction
             \/ /\ pc = "transactions"
                /\ transaction' = transaction \cup Transactions(blk, selected)
      BY <2>6 DEF InsertRejected, Failure, RpcFails, ConnectionFails, LookupFails,
                  InsertFails, Restart, Return, NextRound, InsertSteps, LookupSteps
    <3>2. CASE pc \in InsertSteps
      BY <3>1, <3>2, GiveUpStep DEF Record!Next, Record!WriteRest
    <3>3. CASE pc \notin InsertSteps
      <4>1. transaction' = transaction
        BY <3>1, <3>3 DEF InsertSteps
      <4> QED BY <3>1, <3>3, <4>1, StutterStep
    <3> QED BY <3>2, <3>3
  <2>7. CASE \/ MainLoop \/ SelectTemplate \/ GetConnection
             \/ SanctionedAddresses \/ GetSanctionedUtxos
    <3>1. UNCHANGED dbvars /\ pc \notin InsertSteps /\ pc' \notin InsertSteps
      BY <2>7 DEF MainLoop, FirstTemplate, SameTip, TipChanged, GetBlock,
                  GetBlockSkipped, GetBlockHash, GetMissedBlock, GetBlockTxidFee,
                  SelectTemplate, GetConnection, SanctionedAddresses,
                  GetSanctionedUtxos, InsertSteps
    <3> QED BY <3>1, StutterStep
  <2>8. CASE UNCHANGED vars \/ Node
    <3>1. UNCHANGED dbvars /\ UNCHANGED <<pc, blk>>
      BY <2>8 DEF vars, Node, NodeConnect, NodeReorg
    <3> QED BY <3>1, StutterStep
  <2> QED BY <2>2, <2>3, <2>4, <2>5, <2>6, <2>7, <2>8 DEF Next, Process
<1> QED BY <1>1, <1>2, RowsInvariance, PTL DEF Spec, ImplementsRecord, Record!Spec
=============================================================================
