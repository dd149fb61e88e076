--------------------------- MODULE ObserverProofs ---------------------------
(***************************************************************************)
(* Proofs about Observer, for every block tree, every set of transactions, *)
(* every capacity of the queue and any number of failures and restarts.    *)
(***************************************************************************)
EXTENDS Observer, SequenceTheorems, TLAPS

-----------------------------------------------------------------------------
(* Facts about the values the actions use                                  *)

\* The placeholders have the types of what they stand for.
LEMMA PlaceholderTypes ==
    NoTemplate \in Template /\ NoRow \in Row /\ Genesis \in Blocks
BY TreeAssumption DEF NoTemplate, NoRow, Template, Row

\* The tip is a block, and a template on it is a template.
LEMMA TemplateTypes ==
    ASSUME TypeOK
    PROVE  /\ Len(chain) \in Nat \ {0}
           /\ Tip \in Blocks
           /\ \A txs \in TemplateTxs[Tip] : TemplateOnTip(txs) \in Template
<1>1. Len(chain) \in Nat \ {0} /\ Tip \in Blocks
  BY DEF TypeOK, Tip
<1>2. TemplateTxs[Tip] \subseteq SUBSET Txs
  BY <1>1, TxAssumption
<1> QED BY <1>1, <1>2 DEF TemplateOnTip, Template

\* The last template of a non-empty queue is one of its elements.
LEMMA LastType ==
    ASSUME NEW q \in Seq(Template), q # <<>>
    PROVE  /\ Len(q) \in Nat \ {0}
           /\ Len(q) \in DOMAIN q
           /\ Last(q) \in Template
BY DEF Last

\* push_back and pop_front keep a queue of templates.
LEMMA PushType ==
    ASSUME NEW q \in Seq(Template), q # <<>>, NEW t \in Template
    PROVE  PushBounded(q, t) \in Seq(Template)
BY DEF PushBounded

\* What process builds are sets of transactions and outpoints.
LEMMA BuiltTypes ==
    ASSUME TypeOK
    PROVE  /\ OnlyInBlock(blk, selected) \subseteq Txs
           /\ OnlyInTemplate(blk, selected) \subseteq Txs
           /\ SanctionedMissing(blk, selected) \subseteq Txs
           /\ SanctionedInfos(blk, selected) \subseteq Txs
           /\ Transactions(blk, selected) \subseteq Txs
           /\ ConflictingTxs(blk, selected) \subseteq Txs
           /\ NewSanctionedUtxos(blk) \subseteq Outpoints
<1>1. BlockTxs[blk] \subseteq Txs /\ selected.txs \subseteq Txs
  BY TxAssumption DEF TypeOK, Template
<1>2. /\ OnlyInBlock(blk, selected) \subseteq Txs
      /\ OnlyInTemplate(blk, selected) \subseteq Txs
  BY <1>1 DEF OnlyInBlock, OnlyInTemplate
<1>3. SanctionedInfos(blk, selected) \subseteq Txs
  BY <1>1, <1>2 DEF SanctionedInfos
<1>4. NewSanctionedUtxos(blk) \subseteq Outpoints
  BY <1>1, TxAssumption DEF NewSanctionedUtxos
<1> QED BY <1>2, <1>3, <1>4 DEF SanctionedMissing, Transactions, ConflictingTxs

\* The locals of a new round have their types.
LEMMA NextRoundTypes ==
    NextRound =>
        /\ pc' \in {"get_block_template"}
        /\ current' \in Template /\ blk' \in Blocks /\ missed' \in BOOLEAN
        /\ selected' \in Template /\ addresses' \in BOOLEAN
        /\ utxos' \subseteq Outpoints
BY PlaceholderTypes DEF NextRound

\* The queue process leaves behind is a queue of templates.
LEMMA ReturnTypes ==
    ASSUME TypeOK, NEW q \in Seq(Template), Return(q)
    PROVE  last_templates' \in Seq(Template)
BY DEF TypeOK, Return

-----------------------------------------------------------------------------
(* Type correctness                                                        *)

\* A step of the node keeps the types.
LEMMA NodeTypes == TypeOK /\ Node => TypeOK'
<1> SUFFICES ASSUME TypeOK, Node PROVE TypeOK'
  OBVIOUS
<1> USE DEF loopvars, procvars, dbvars, txtables, envvars
<1>1. CASE NodeConnect
  <2>1. chain' \in Seq(Blocks) /\ chain' # <<>>
    BY <1>1 DEF NodeConnect, TypeOK
  <2> QED BY <1>1, <2>1 DEF NodeConnect, TypeOK
<1>2. CASE NodeReorg
  <2>1. chain' \in Seq(Blocks) /\ chain' # <<>>
    BY <1>2, TreeAssumption DEF NodeReorg, IsChain
  <2> QED BY <1>2, <2>1 DEF NodeReorg, TypeOK
<1> QED BY <1>1, <1>2 DEF Node

\* A step of main_loop keeps the types.
LEMMA MainLoopTypes == TypeOK /\ MainLoop => TypeOK'
<1> SUFFICES ASSUME TypeOK, MainLoop PROVE TypeOK'
  OBVIOUS
<1> USE DEF loopvars, procvars, dbvars, txtables, envvars
<1>1. CASE FirstTemplate
  <2>1. last_templates' \in Seq(Template)
    BY <1>1, TemplateTypes DEF FirstTemplate
  <2> QED BY <1>1, <2>1 DEF FirstTemplate, TypeOK
<1>2. CASE SameTip
  <2>1. last_templates' \in Seq(Template)
    BY <1>2, TemplateTypes, PushType DEF SameTip, TypeOK
  <2> QED BY <1>2, <2>1 DEF SameTip, TypeOK
<1>3. CASE TipChanged
  <2>1. current' \in Template
    BY <1>3, TemplateTypes DEF TipChanged
  <2> QED BY <1>3, <2>1 DEF TipChanged, TypeOK, RpcSteps
<1>4. CASE GetBlock
  <2>1. blk' \in Blocks
    BY <1>4 DEF GetBlock, TypeOK, Template
  <2> QED BY <1>4, <2>1 DEF GetBlock, TypeOK, RpcSteps
<1>5. CASE GetBlockSkipped
  <2>1. missed' \in BOOLEAN
    BY <1>5 DEF GetBlockSkipped
  <2> QED BY <1>5, <2>1 DEF GetBlockSkipped, TypeOK, RpcSteps
<1>6. CASE GetBlockHash
  <2>1. blk' \in Blocks
    BY <1>6 DEF GetBlockHash, HasBlockAt, BlockAt, TypeOK
  <2> QED BY <1>6, <2>1 DEF GetBlockHash, TypeOK, RpcSteps
<1>7. CASE GetMissedBlock
  BY <1>7 DEF GetMissedBlock, TypeOK, RpcSteps
<1>8. CASE GetBlockTxidFee
  BY <1>8 DEF GetBlockTxidFee, TypeOK, ProcessSteps
<1> QED BY <1>1, <1>2, <1>3, <1>4, <1>5, <1>6, <1>7, <1>8 DEF MainLoop

\* A step of process keeps the types.
LEMMA ProcessTypes == TypeOK /\ Process => TypeOK'
<1> SUFFICES ASSUME TypeOK, Process PROVE TypeOK'
  OBVIOUS
<1> USE DEF loopvars, procvars, dbvars, txtables, envvars, ProcessSteps, DbSteps,
            LookupSteps, InsertSteps
<1>1. CASE SelectTemplate
  <2>1. selected' \in Template
    BY <1>1 DEF SelectTemplate, TypeOK
  <2> QED BY <1>1, <2>1 DEF SelectTemplate, TypeOK
<1>2. CASE GetConnection
  BY <1>2 DEF GetConnection, TypeOK
<1>3. CASE SanctionedAddresses
  BY <1>3 DEF SanctionedAddresses, TypeOK
<1>4. CASE GetSanctionedUtxos
  BY <1>4 DEF GetSanctionedUtxos, TypeOK
<1>5. CASE InsertBlock
  <2>1. [template |-> selected,
         sanctioned_missing |-> SanctionedMissing(blk, selected)] \in Row
    BY BuiltTypes DEF Row, TypeOK
  <2>2. block' \in [Blocks -> Row]
    BY <1>5, <2>1 DEF InsertBlock, TypeOK
  <2> QED BY <1>5, <2>2 DEF InsertBlock, TypeOK
<1>6. CASE InsertTransactions
  <2>1. transaction' \subseteq Txs
    BY <1>6, BuiltTypes DEF InsertTransactions, TypeOK
  <2> QED BY <1>6, <2>1 DEF InsertTransactions, TypeOK
<1>7. CASE InsertOnlyInBlock
  <2>1. only_in_block' \in [Blocks -> SUBSET Txs]
    BY <1>7, BuiltTypes DEF InsertOnlyInBlock, TypeOK
  <2> QED BY <1>7, <2>1 DEF InsertOnlyInBlock, TypeOK
<1>8. CASE InsertOnlyInTemplate
  <2>1. only_in_template' \in [Blocks -> SUBSET Txs]
    BY <1>8, BuiltTypes DEF InsertOnlyInTemplate, TypeOK
  <2> QED BY <1>8, <2>1 DEF InsertOnlyInTemplate, TypeOK
<1>9. CASE InsertSanctionedInfos
  <2>1. sanctioned_info' \in [Blocks -> SUBSET Txs]
    BY <1>9, BuiltTypes DEF InsertSanctionedInfos, TypeOK
  <2> QED BY <1>9, <2>1 DEF InsertSanctionedInfos, TypeOK
<1>10. CASE InsertConflicting
  <2>1. conflicting' \in [Blocks -> SUBSET Txs]
    BY <1>10, BuiltTypes DEF InsertConflicting, TypeOK
  <2> QED BY <1>10, <2>1 DEF InsertConflicting, TypeOK
<1>11. CASE InsertSanctionedUtxos
  <2>1. sanctioned_utxo' \subseteq Outpoints
    BY <1>11, BuiltTypes DEF InsertSanctionedUtxos, TypeOK
  <2> QED BY <1>11, <2>1 DEF InsertSanctionedUtxos, TypeOK
<1>12. CASE InsertDebug
  <2>1. Return(<<>>) /\ debug' = debug \cup {blk}
    BY <1>12 DEF InsertDebug
  <2>2. last_templates' \in Seq(Template)
    <3>1. <<>> \in Seq(Template)
      OBVIOUS
    <3> QED BY <2>1, <3>1, ReturnTypes
  <2> QED BY <1>12, <2>1, <2>2, NextRoundTypes DEF InsertDebug, Return, TypeOK
<1>13. CASE InsertRejected
  <2>1. Return(last_templates)
    BY <1>13 DEF InsertRejected
  <2>2. last_templates' \in Seq(Template)
    BY <2>1, ReturnTypes DEF TypeOK
  <2> QED BY <1>13, <2>1, <2>2, NextRoundTypes DEF InsertRejected, Return, TypeOK
<1> QED BY <1>1, <1>2, <1>3, <1>4, <1>5, <1>6, <1>7, <1>8, <1>9, <1>10, <1>11,
           <1>12, <1>13 DEF Process

\* A failure keeps the types.
LEMMA FailureTypes == TypeOK /\ Failure => TypeOK'
<1> SUFFICES ASSUME TypeOK, Failure PROVE TypeOK'
  OBVIOUS
<1> USE DEF loopvars, procvars, dbvars, txtables, envvars, ProcessSteps, DbSteps,
            LookupSteps, InsertSteps
<1>1. CASE RpcFails
  BY <1>1, NextRoundTypes DEF RpcFails, TypeOK
<1>2. Fault => faults' \in 0..MaxFaults
  BY BoundAssumption DEF Fault, TypeOK
<1>3. CASE ConnectionFails
  BY <1>2, <1>3 DEF ConnectionFails, Fault, TypeOK
<1>4. CASE LookupFails
  BY <1>2, <1>4 DEF LookupFails, Fault, TypeOK
<1>5. CASE InsertFails
  <2>1. Return(last_templates) /\ Fault
    BY <1>5 DEF InsertFails
  <2>2. last_templates' \in Seq(Template)
    BY <2>1, ReturnTypes DEF TypeOK
  <2>3. transaction' \subseteq Txs
    BY <1>5, BuiltTypes DEF InsertFails, TypeOK
  <2> QED BY <1>2, <1>5, <2>1, <2>2, <2>3, NextRoundTypes
          DEF InsertFails, Return, Fault, TypeOK
<1>6. CASE Restart
  <2>1. crashes' \in 0..MaxCrashes
    BY <1>6, BoundAssumption DEF Restart, TypeOK
  <2> QED BY <1>6, <2>1, NextRoundTypes DEF Restart, TypeOK
<1> QED BY <1>1, <1>3, <1>4, <1>5, <1>6 DEF Failure

\* The variables have their types in every reachable state.
THEOREM TypeCorrect == Spec => []TypeOK
<1>1. Init => TypeOK
  <2> SUFFICES ASSUME Init PROVE TypeOK
    OBVIOUS
  <2>1. chain \in Seq(Blocks) /\ chain # <<>> /\ last_templates \in Seq(Template)
    BY PlaceholderTypes DEF Init
  <2>2. /\ pc = "get_block_template"
        /\ current \in Template /\ blk \in Blocks /\ missed \in BOOLEAN
        /\ selected \in Template /\ addresses \in BOOLEAN
        /\ utxos \subseteq Outpoints
    BY PlaceholderTypes DEF Init
  <2>3. /\ block \in [Blocks -> Row]
        /\ only_in_block \in [Blocks -> SUBSET Txs]
        /\ only_in_template \in [Blocks -> SUBSET Txs]
        /\ sanctioned_info \in [Blocks -> SUBSET Txs]
        /\ conflicting \in [Blocks -> SUBSET Txs]
    BY PlaceholderTypes DEF Init
  <2>4. faults \in 0..MaxFaults /\ crashes \in 0..MaxCrashes
    BY BoundAssumption DEF Init
  <2> QED BY <2>1, <2>2, <2>3, <2>4 DEF Init, TypeOK
<1>2. TypeOK /\ [Next]_vars => TypeOK'
  <2>1. TypeOK /\ UNCHANGED vars => TypeOK'
    BY DEF vars, loopvars, procvars, dbvars, txtables, envvars, TypeOK
  <2> QED BY <2>1, NodeTypes, MainLoopTypes, ProcessTypes, FailureTypes DEF Next
<1> QED BY <1>1, <1>2, PTL DEF Spec

-----------------------------------------------------------------------------
(* Completed blocks are not processed again.                               *)
(*                                                                         *)
(* The argument is about heights: a template is for the height above its   *)
(* parent; the queue and the current template hold only templates for      *)
(* heights above those of the completed blocks; the block in hand has the  *)
(* height the last template of the queue is for.                           *)

BlockInHand == {"get_missed_block", "get_fees"} \cup ProcessSteps

\* A template of the node, taken now or before the chain moved on.
Taken(t) ==
    /\ t.height = Height[t.prev] + 1
    /\ t.height <= Len(chain)
    /\ t.height = Len(chain) => t.prev = Tip

QueueHeights ==
    \A i \in DOMAIN last_templates :
        /\ Taken(last_templates[i])
        /\ \A b \in debug : Height[b] < last_templates[i].height

RoundHeights ==
    pc # "get_block_template" =>
        /\ last_templates # <<>>
        /\ Taken(current)
        /\ Last(last_templates).height < current.height

HeightInv ==
    /\ TypeOK
    /\ IsChain(chain)
    /\ QueueHeights
    /\ RoundHeights
    /\ pc \in BlockInHand => Height[blk] = Last(last_templates).height
    /\ \A b \in debug : Height[b] < Len(chain)

\* The elements of a queue after a template was pushed.
LEMMA AppendElements ==
    ASSUME NEW q \in Seq(Template), NEW t \in Template
    PROVE  \A i \in DOMAIN Append(q, t) :
               Append(q, t)[i] = t \/ \E j \in DOMAIN q : Append(q, t)[i] = q[j]
OBVIOUS

\* ... and after the first one was popped as well.
LEMMA PushElements ==
    ASSUME NEW q \in Seq(Template), q # <<>>, NEW t \in Template
    PROVE  \A i \in DOMAIN PushBounded(q, t) :
               \/ PushBounded(q, t)[i] = t
               \/ \E j \in DOMAIN q : PushBounded(q, t)[i] = q[j]
<1>1. Tail(q) \in Seq(Template)
      /\ \A i \in DOMAIN Tail(q) : \E j \in DOMAIN q : Tail(q)[i] = q[j]
  OBVIOUS
<1>2. \A i \in DOMAIN Append(Tail(q), t) :
          \/ Append(Tail(q), t)[i] = t
          \/ \E j \in DOMAIN q : Append(Tail(q), t)[i] = q[j]
  BY <1>1, AppendElements
<1> QED BY <1>2, AppendElements DEF PushBounded

\* The heights of blocks are natural numbers, only genesis has height 0.
LEMMA HeightFacts ==
    /\ \A b \in Blocks : Height[b] \in Nat
    /\ \A b \in Blocks \ {Genesis} : Height[b] = Height[Parent[b]] + 1
    /\ \A t \in Template : t.prev \in Blocks /\ t.height \in Nat
BY TreeAssumption DEF Template

\* The tip's height, and the template taken from it.
LEMMA TipFacts ==
    ASSUME HeightInv
    PROVE  /\ Len(chain) \in Nat \ {0}
           /\ Height[Tip] = Len(chain) - 1
           /\ \A txs : /\ Taken(TemplateOnTip(txs))
                       /\ TemplateOnTip(txs).height = Len(chain)
<1>1. Len(chain) \in Nat \ {0} /\ Height[Tip] = Len(chain) - 1
  BY DEF HeightInv, TypeOK, IsChain, Tip
<1> QED BY <1>1 DEF Taken, TemplateOnTip

\* A longer chain: what was taken before stays so.
LEMMA NodeHeights == HeightInv /\ TypeOK' /\ Node => HeightInv'
<1> SUFFICES ASSUME HeightInv, TypeOK', Node PROVE HeightInv'
  OBVIOUS
<1> USE DEF loopvars, procvars, dbvars, txtables, envvars
<1>1. UNCHANGED <<pc, last_templates, current, blk, debug>>
  BY DEF Node, NodeConnect, NodeReorg
<1>2. IsChain(chain') /\ Len(chain') > Len(chain) /\ Len(chain') \in Nat
  <2>1. CASE NodeConnect
    <3>1. PICK b \in Blocks \ {Genesis} :
             Parent[b] = Tip /\ chain' = Append(chain, b)
      BY <2>1 DEF NodeConnect
    <3>2. Height[b] = Len(chain)
      BY <3>1, HeightFacts, TipFacts
    <3>3. IsChain(chain)
      BY DEF HeightInv
    <3>4. /\ Len(chain') = Len(chain) + 1
          /\ chain'[Len(chain) + 1] = b
          /\ \A i \in 1..Len(chain) : chain'[i] = chain[i]
      BY <3>1, <3>3 DEF IsChain
    <3> QED BY <3>1, <3>2, <3>3, <3>4 DEF IsChain, Tip
  <2>2. CASE NodeReorg
    BY <2>2, TreeAssumption DEF NodeReorg, IsChain
  <2> QED BY <2>1, <2>2 DEF Node
<1>3. ASSUME NEW t \in Template, Taken(t)
      PROVE  Taken(t)'
  BY <1>2, <1>3, TipFacts, HeightFacts DEF Taken
<1>4. QueueHeights'
  BY <1>1, <1>3 DEF HeightInv, TypeOK, QueueHeights
<1>5. RoundHeights'
  BY <1>1, <1>3 DEF HeightInv, TypeOK, RoundHeights
<1>6. \A b \in debug' : Height[b] < Len(chain')
  BY <1>1, <1>2, TipFacts, HeightFacts DEF HeightInv, TypeOK
<1> QED BY <1>1, <1>2, <1>4, <1>5, <1>6 DEF HeightInv

\* A step of main_loop: templates are added with the height above the tip, and
\* the block in hand is the one the last template of the queue is for.
LEMMA MainLoopHeights == HeightInv /\ TypeOK' /\ MainLoop => HeightInv'
<1> SUFFICES ASSUME HeightInv, TypeOK', MainLoop PROVE HeightInv'
  OBVIOUS
<1> USE DEF loopvars, procvars, dbvars, txtables, envvars
<1>1. UNCHANGED <<chain, debug>>
  BY DEF MainLoop, FirstTemplate, SameTip, TipChanged, GetBlock, GetBlockSkipped,
         GetBlockHash, GetMissedBlock, GetBlockTxidFee
<1>2. \A t : Taken(t)' <=> Taken(t)
  BY <1>1 DEF Taken, Tip
<1>3. \A b \in debug' : Height[b] < Len(chain')
  BY <1>1 DEF HeightInv
<1>4. IsChain(chain')
  BY <1>1 DEF HeightInv
<1>5. TypeOK
  BY DEF HeightInv
<1>6. CASE FirstTemplate
  <2>1. PICK txs \in TemplateTxs[Tip] : last_templates' = <<TemplateOnTip(txs)>>
    BY <1>6 DEF FirstTemplate
  <2>2. QueueHeights'
    BY <1>1, <1>2, <1>3, <2>1, TipFacts DEF QueueHeights
  <2>3. pc' = "get_block_template"
    BY <1>6 DEF FirstTemplate
  <2> QED BY <1>3, <1>4, <2>2, <2>3
          DEF HeightInv, RoundHeights, BlockInHand, ProcessSteps, DbSteps,
              LookupSteps, InsertSteps
<1>7. CASE SameTip
  <2>1. PICK txs \in TemplateTxs[Tip] :
           last_templates' = PushBounded(last_templates, TemplateOnTip(txs))
    BY <1>7 DEF SameTip
  <2>2. ASSUME NEW i \in DOMAIN last_templates'
        PROVE  \/ last_templates'[i] = TemplateOnTip(txs)
               \/ \E j \in DOMAIN last_templates :
                      last_templates'[i] = last_templates[j]
    BY <1>5, <1>7, <2>1, TemplateTypes, PushElements DEF SameTip, TypeOK
  <2>3. QueueHeights'
    BY <1>1, <1>2, <1>3, <2>2, TipFacts DEF HeightInv, QueueHeights
  <2>4. pc' = "get_block_template"
    BY <1>7 DEF SameTip
  <2> QED BY <1>3, <1>4, <2>3, <2>4
          DEF HeightInv, RoundHeights, BlockInHand, ProcessSteps, DbSteps,
              LookupSteps, InsertSteps
<1>8. CASE TipChanged
  <2>1. PICK txs \in TemplateTxs[Tip] : current' = TemplateOnTip(txs)
    BY <1>8 DEF TipChanged
  <2>2. /\ last_templates # <<>> /\ Last(last_templates).prev # Tip
        /\ last_templates' = last_templates
        /\ pc' = "get_block"
    BY <1>8 DEF TipChanged
  <2>3. /\ Last(last_templates) \in Template
        /\ Taken(Last(last_templates))
    BY <1>5, <2>2, LastType DEF HeightInv, TypeOK, QueueHeights, Last
  <2>4. Last(last_templates).height < Len(chain)
    BY <2>2, <2>3, TipFacts, HeightFacts DEF Taken
  <2>5. RoundHeights'
    BY <1>2, <2>1, <2>2, <2>4, TipFacts DEF RoundHeights
  <2>6. QueueHeights'
    BY <1>1, <1>2, <2>2 DEF HeightInv, QueueHeights
  <2> QED BY <1>3, <1>4, <2>2, <2>5, <2>6
          DEF HeightInv, BlockInHand, ProcessSteps, DbSteps, LookupSteps,
              InsertSteps
<1>9. ASSUME GetBlock \/ GetBlockSkipped \/ GetBlockHash \/ GetMissedBlock
                \/ GetBlockTxidFee
      PROVE  HeightInv'
  <2>1. UNCHANGED <<last_templates, current>> /\ pc # "get_block_template"
    BY <1>9 DEF GetBlock, GetBlockSkipped, GetBlockHash, GetMissedBlock,
                GetBlockTxidFee
  <2>2. QueueHeights'
    BY <1>1, <1>2, <2>1 DEF HeightInv, QueueHeights
  <2>3. RoundHeights'
    BY <1>2, <2>1 DEF HeightInv, RoundHeights
  <2>4. /\ last_templates # <<>> /\ Last(last_templates) \in Template
        /\ Taken(Last(last_templates)) /\ Taken(current)
        /\ Last(last_templates).height < current.height
    BY <1>5, <2>1, LastType DEF HeightInv, RoundHeights, TypeOK, QueueHeights, Last
  <2>5. CASE GetBlock
    <3>1. blk' = current.prev /\ Parent[current.prev] = Last(last_templates).prev
      BY <2>5 DEF GetBlock
    <3>2. current.prev # Genesis
      BY <1>5, <2>4, HeightFacts, TreeAssumption DEF Taken, TypeOK
    <3>3. Height[blk'] = Last(last_templates).height
      BY <1>5, <2>4, <3>1, <3>2, HeightFacts DEF Taken, TypeOK
    <3> QED BY <1>3, <1>4, <2>1, <2>2, <2>3, <3>3 DEF HeightInv
  <2>6. CASE GetBlockSkipped
    <3>1. pc' = "get_block_hash"
      BY <2>6 DEF GetBlockSkipped
    <3> QED BY <1>3, <1>4, <2>2, <2>3, <3>1
            DEF HeightInv, BlockInHand, ProcessSteps, DbSteps, LookupSteps,
                InsertSteps
  <2>7. CASE GetBlockHash
    <3>1. Height[blk'] = Last(last_templates).height
      BY <1>5, <2>4, <2>7, HeightFacts
      DEF GetBlockHash, HasBlockAt, BlockAt, HeightInv, IsChain
    <3> QED BY <1>3, <1>4, <2>1, <2>2, <2>3, <3>1 DEF HeightInv
  <2>8. CASE GetMissedBlock \/ GetBlockTxidFee
    <3>1. blk' = blk /\ pc \in BlockInHand
      BY <2>8 DEF GetMissedBlock, GetBlockTxidFee, BlockInHand
    <3> QED BY <1>3, <1>4, <2>1, <2>2, <2>3, <3>1 DEF HeightInv
  <2> QED BY <1>9, <2>5, <2>6, <2>7, <2>8
<1> QED BY <1>6, <1>7, <1>8, <1>9 DEF MainLoop

\* The round ends and process leaves the queue as it was: a template that is
\* pushed then is for a greater height than all before it.
LEMMA KeptQueueHeights ==
    ASSUME HeightInv, TypeOK', pc # "get_block_template",
           \/ last_templates' = last_templates
           \/ last_templates' = Append(last_templates, current),
           pc' = "get_block_template", UNCHANGED <<chain, debug>>
    PROVE  HeightInv'
<1>1. \A t : Taken(t)' <=> Taken(t)
  BY DEF Taken, Tip
<1>2. \A b \in debug : Height[b] < current.height
  <2>1. TypeOK /\ last_templates # <<>>
    BY DEF HeightInv, RoundHeights
  <2>2. /\ Last(last_templates) \in Template
        /\ \A b \in debug : Height[b] < Last(last_templates).height
    BY <2>1, LastType DEF HeightInv, TypeOK, QueueHeights, Last
  <2> QED BY <2>1, <2>2, HeightFacts DEF HeightInv, RoundHeights, TypeOK
<1>3. \A i \in DOMAIN last_templates' :
          \/ last_templates'[i] = current
          \/ \E j \in DOMAIN last_templates : last_templates'[i] = last_templates[j]
  <2>1. last_templates \in Seq(Template) /\ current \in Template
    BY DEF HeightInv, TypeOK
  <2>2. CASE last_templates' = last_templates
    BY <2>2
  <2>3. CASE last_templates' = Append(last_templates, current)
    BY <2>1, <2>3, AppendElements
  <2> QED BY <2>2, <2>3
<1>4. QueueHeights'
  BY <1>1, <1>2, <1>3 DEF HeightInv, QueueHeights, RoundHeights
<1> QED BY <1>4 DEF HeightInv, RoundHeights, BlockInHand, ProcessSteps, DbSteps,
                    LookupSteps, InsertSteps

\* The locals change, or pc moves inside process.
LEMMA InsideProcessHeights ==
    ASSUME HeightInv, TypeOK', pc \in ProcessSteps,
           UNCHANGED <<chain, last_templates, current, blk, debug>>
    PROVE  HeightInv'
<1>1. \A t : Taken(t)' <=> Taken(t)
  BY DEF Taken, Tip
<1>2. pc # "get_block_template"
  BY DEF ProcessSteps, DbSteps, LookupSteps, InsertSteps
<1>3. QueueHeights' /\ RoundHeights'
  BY <1>1, <1>2 DEF HeightInv, QueueHeights, RoundHeights
<1> QED BY <1>3 DEF HeightInv, BlockInHand

\* A step of process.  Only the last INSERT completes a block, and it clears
\* the queue: what follows is for a greater height.
LEMMA ProcessHeights == HeightInv /\ TypeOK' /\ Process => HeightInv'
<1> SUFFICES ASSUME HeightInv, TypeOK', Process PROVE HeightInv'
  OBVIOUS
<1> USE DEF loopvars, procvars, dbvars, txtables, envvars
<1>1. CASE InsertDebug
  <2>1. /\ chain' = chain /\ debug' = debug \cup {blk} /\ pc = "debug"
        /\ pc' = "get_block_template"
        /\ last_templates' = <<>> \/ last_templates' = <<current>>
    BY <1>1 DEF InsertDebug, Return, NextRound
  <2>2. /\ TypeOK /\ last_templates # <<>> /\ Taken(current)
        /\ Last(last_templates).height < current.height
        /\ Height[blk] = Last(last_templates).height
    BY <2>1 DEF HeightInv, RoundHeights, BlockInHand, ProcessSteps, DbSteps,
                InsertSteps
  <2>3. /\ Last(last_templates) \in Template
        /\ \A b \in debug : Height[b] < Last(last_templates).height
    BY <2>2, LastType DEF HeightInv, TypeOK, QueueHeights, Last
  <2>4. \A b \in debug' : Height[b] < current.height
    BY <2>1, <2>2, <2>3, HeightFacts DEF TypeOK
  <2>5. \A t : Taken(t)' <=> Taken(t)
    BY <2>1 DEF Taken, Tip
  <2>6. QueueHeights'
    BY <2>1, <2>2, <2>4, <2>5 DEF QueueHeights
  <2>7. \A b \in debug' : Height[b] < Len(chain')
    BY <2>1, <2>2, <2>4, TipFacts, HeightFacts DEF Taken, TypeOK
  <2>8. pc' \notin BlockInHand
    BY <2>1 DEF BlockInHand, ProcessSteps, DbSteps, LookupSteps, InsertSteps
  <2> QED BY <2>1, <2>6, <2>7, <2>8 DEF HeightInv, RoundHeights
<1>2. CASE InsertRejected
  <2>1. /\ pc # "get_block_template" /\ pc' = "get_block_template"
        /\ UNCHANGED <<chain, debug>>
        /\ \/ last_templates' = last_templates
           \/ last_templates' = Append(last_templates, current)
    BY <1>2 DEF InsertRejected, Return, NextRound
  <2> QED BY <2>1, KeptQueueHeights
<1>3. ASSUME ~InsertDebug, ~InsertRejected
      PROVE  HeightInv'
  <2>1. /\ pc \in ProcessSteps
        /\ UNCHANGED <<chain, last_templates, current, blk, debug>>
    BY <1>3 DEF Process, SelectTemplate, GetConnection, SanctionedAddresses,
                GetSanctionedUtxos, InsertBlock, InsertTransactions,
                InsertOnlyInBlock, InsertOnlyInTemplate, InsertSanctionedInfos,
                InsertConflicting, InsertSanctionedUtxos, ProcessSteps, DbSteps,
                LookupSteps, InsertSteps
  <2> QED BY <2>1, InsideProcessHeights
<1> QED BY <1>1, <1>2, <1>3

\* A failure ends the round and keeps the queue, goes on inside process, or
\* empties the queue.
LEMMA FailureHeights == HeightInv /\ TypeOK' /\ Failure => HeightInv'
<1> SUFFICES ASSUME HeightInv, TypeOK', Failure PROVE HeightInv'
  OBVIOUS
<1> USE DEF loopvars, procvars, dbvars, txtables, envvars
<1>1. CASE RpcFails
  <2>1. /\ pc # "get_block_template" /\ pc' = "get_block_template"
        /\ UNCHANGED <<chain, debug, last_templates>>
    BY <1>1 DEF RpcFails, NextRound, RpcSteps
  <2> QED BY <2>1, KeptQueueHeights
<1>2. CASE InsertFails
  <2>1. /\ pc # "get_block_template" /\ pc' = "get_block_template"
        /\ UNCHANGED <<chain, debug>>
        /\ \/ last_templates' = last_templates
           \/ last_templates' = Append(last_templates, current)
    BY <1>2 DEF InsertFails, Fault, Return, NextRound, InsertSteps
  <2> QED BY <2>1, KeptQueueHeights
<1>3. CASE ConnectionFails \/ LookupFails
  <2>1. /\ pc \in ProcessSteps
        /\ UNCHANGED <<chain, last_templates, current, blk, debug>>
    BY <1>3 DEF ConnectionFails, LookupFails, Fault, ProcessSteps, DbSteps,
                LookupSteps
  <2> QED BY <2>1, InsideProcessHeights
<1>4. CASE Restart
  <2>1. /\ pc' = "get_block_template" /\ UNCHANGED <<chain, debug>>
        /\ last_templates' = <<>>
    BY <1>4 DEF Restart, NextRound
  <2>2. pc' \notin BlockInHand
    BY <2>1 DEF BlockInHand, ProcessSteps, DbSteps, LookupSteps, InsertSteps
  <2> QED BY <2>1, <2>2 DEF HeightInv, QueueHeights, RoundHeights
<1> QED BY <1>1, <1>2, <1>3, <1>4 DEF Failure

\* HeightInv is an invariant.
THEOREM HeightInvariance == Spec => []HeightInv
<1>1. Init /\ TypeOK => HeightInv
  <2> SUFFICES ASSUME Init, TypeOK PROVE HeightInv
    OBVIOUS
  <2>1. /\ chain = <<Genesis>> /\ last_templates = <<>> /\ debug = {}
        /\ pc = "get_block_template"
    BY DEF Init
  <2>2. IsChain(chain)
    BY <2>1, TreeAssumption DEF IsChain
  <2>3. pc \notin BlockInHand
    BY <2>1 DEF BlockInHand, ProcessSteps, DbSteps, LookupSteps, InsertSteps
  <2> QED BY <2>1, <2>2, <2>3 DEF HeightInv, QueueHeights, RoundHeights
<1>2. HeightInv /\ TypeOK' /\ [Next]_vars => HeightInv'
  <2>1. HeightInv /\ TypeOK' /\ UNCHANGED vars => HeightInv'
    BY DEF vars, loopvars, procvars, dbvars, txtables, envvars, HeightInv,
           QueueHeights, RoundHeights, Taken, Tip
  <2> QED BY <2>1, NodeHeights, MainLoopHeights, ProcessHeights, FailureHeights
          DEF Next
<1> QED BY <1>1, <1>2, TypeCorrect, PTL DEF Spec

\* A block all of whose rows are stored is never processed again, for every
\* block tree and every history of reorgs, failures and restarts.
THEOREM NoReprocessing == Spec => []NeverProcessedAgain
<1>1. HeightInv => NeverProcessedAgain
  <2> SUFFICES ASSUME HeightInv, pc \in ProcessSteps, blk \in debug
               PROVE  FALSE
    BY DEF NeverProcessedAgain, Complete
  <2>1. /\ TypeOK /\ last_templates # <<>>
        /\ Height[blk] = Last(last_templates).height
    BY DEF HeightInv, RoundHeights, BlockInHand, ProcessSteps, DbSteps,
           LookupSteps, InsertSteps
  <2>2. /\ Last(last_templates) \in Template
        /\ Height[blk] < Last(last_templates).height
    BY <2>1, LastType DEF HeightInv, TypeOK, QueueHeights, Last
  <2> QED BY <2>1, <2>2, HeightFacts
<1> QED BY <1>1, HeightInvariance, PTL

-----------------------------------------------------------------------------
(* One attempt writes                                                      *)

\* Once a block has its row, only the attempt that inserted it writes its other
\* rows; what a failure or a restart leaves unfinished stays as it is.
THEOREM OneAttempt == Spec => OneAttemptWrites
<1> DEFINE A == \A b \in Blocks :
                   Stored(b) /\ ~(pc \in InsertSteps /\ blk = b)
                       => RowsOf(b)' = RowsOf(b)
<1>1. TypeOK /\ [Next]_vars => [A]_vars
  <2> SUFFICES ASSUME TypeOK, Next,
                      NEW b \in Blocks, Stored(b), ~(pc \in InsertSteps /\ blk = b)
               PROVE  RowsOf(b)' = RowsOf(b)
    OBVIOUS
  <2> USE DEF loopvars, procvars, dbvars, txtables, envvars
  <2>1. CASE UNCHANGED <<block, only_in_block, only_in_template, sanctioned_info,
                         conflicting, debug>>
    BY <2>1 DEF RowsOf, Complete
  <2>2. CASE InsertBlock
    <3>1. b # blk
      BY <2>2 DEF InsertBlock
    <3> QED BY <2>2, <3>1 DEF InsertBlock, TypeOK, RowsOf, Complete
  <2>3. CASE \/ InsertOnlyInBlock \/ InsertOnlyInTemplate
             \/ InsertSanctionedInfos \/ InsertConflicting
    <3>1. b # blk
      BY <2>3 DEF InsertOnlyInBlock, InsertOnlyInTemplate, InsertSanctionedInfos,
                  InsertConflicting, InsertSteps
    <3> QED BY <2>3, <3>1
            DEF InsertOnlyInBlock, InsertOnlyInTemplate, InsertSanctionedInfos,
                InsertConflicting, TypeOK, RowsOf, Complete
  <2>4. CASE InsertDebug
    <3>1. b # blk
      BY <2>4 DEF InsertDebug, InsertSteps
    <3> QED BY <2>4, <3>1 DEF InsertDebug, RowsOf, Complete
  <2> QED
    BY <2>1, <2>2, <2>3, <2>4
    DEF Next, Node, NodeConnect, NodeReorg, MainLoop, FirstTemplate, SameTip,
        TipChanged, GetBlock, GetBlockSkipped, GetBlockHash, GetMissedBlock,
        GetBlockTxidFee, Process, SelectTemplate, GetConnection,
        SanctionedAddresses, GetSanctionedUtxos, InsertTransactions,
        InsertSanctionedUtxos, InsertRejected, Failure, RpcFails,
        ConnectionFails, LookupFails, InsertFails, Restart
<1> QED BY <1>1, TypeCorrect, PTL DEF Spec, OneAttemptWrites

-----------------------------------------------------------------------------
(* A database that works: no statement fails and every transaction can be  *)
(* built.  RPC calls may still fail, the chain may reorganize and the      *)
(* daemon may be restarted in the middle of process any number of times.   *)
(* Then process ends in last_templates.clear() unless the daemon dies, so  *)
(* the queue only ever holds templates on one parent, within its capacity, *)
(* and every stored block lies below the height they are for.              *)

Reliable == FaultySteps = {} /\ Unbuildable = {}

\* The block whose row the current attempt has inserted.
InProgress(b) == pc \in InsertSteps /\ b = blk

StoredBelowQueue ==
    \A b \in Blocks : Stored(b) /\ ~InProgress(b) =>
        \A i \in DOMAIN last_templates : Height[b] < last_templates[i].height

StoredBelowTip == \A b \in Blocks : Stored(b) => Height[b] < Len(chain)

SelectedFromQueue ==
    pc \in DbSteps => \E i \in DOMAIN last_templates : selected = last_templates[i]

\* The foreign keys are there when the rows that need them come.
TransactionsThere ==
    pc \in InsertSteps \ {"transactions"} =>
        Transactions(blk, selected) \subseteq transaction

ReliableInv ==
    /\ HeightInv
    /\ OneParent
    /\ QueueBounded
    /\ HeightCorrect
    /\ StoredBelowQueue
    /\ StoredBelowTip
    /\ SelectedFromQueue
    /\ TransactionsThere

-----------------------------------------------------------------------------
\* With one parent there is one height, that of the block in hand.
LEMMA OneHeight ==
    ASSUME ReliableInv, NEW i \in DOMAIN last_templates
    PROVE  /\ last_templates[i] \in Template
           /\ Last(last_templates) \in Template
           /\ last_templates[i].height = Last(last_templates).height
           /\ last_templates[i].prev = Last(last_templates).prev
<1>1. last_templates \in Seq(Template) /\ last_templates # <<>>
  BY DEF ReliableInv, HeightInv, TypeOK
<1>2. Len(last_templates) \in DOMAIN last_templates
  BY <1>1, LastType
<1>3. last_templates[i].prev = last_templates[Len(last_templates)].prev
  BY <1>2 DEF ReliableInv, OneParent
<1>4. /\ Taken(last_templates[i])
      /\ Taken(last_templates[Len(last_templates)])
  BY <1>2 DEF ReliableInv, HeightInv, QueueHeights
<1> QED BY <1>1, <1>2, <1>3, <1>4 DEF Taken, Last

\* A block that is about to be inserted is not there.
LEMMA NotStored == ReliableInv => InsertedOnce
<1> SUFFICES ASSUME ReliableInv, pc = "block", Stored(blk) PROVE FALSE
  BY DEF InsertedOnce
<1>1. /\ TypeOK /\ last_templates # <<>>
      /\ Height[blk] = Last(last_templates).height
  BY DEF ReliableInv, HeightInv, RoundHeights, BlockInHand, ProcessSteps, DbSteps
<1>2. Len(last_templates) \in DOMAIN last_templates
  BY <1>1, LastType DEF TypeOK
<1>3. ~InProgress(blk)
  BY DEF InProgress, InsertSteps
<1>4. Height[blk] < Last(last_templates).height
  BY <1>1, <1>2, <1>3 DEF ReliableInv, StoredBelowQueue, TypeOK, Last
<1>5. Last(last_templates) \in Template
  BY <1>1, LastType DEF TypeOK
<1> QED BY <1>1, <1>4, <1>5, HeightFacts

\* No row is rejected and nothing fails.
LEMMA NothingRejected ==
    ASSUME Reliable, ReliableInv
    PROVE  ~InsertRejected /\ ~Fault
<1>1. ~Fault
  BY DEF Reliable, Fault
<1>2. ~(pc = "block" /\ Stored(blk))
  BY NotStored DEF InsertedOnce
<1>3. /\ OnlyInBlock(blk, selected) \subseteq Transactions(blk, selected)
      /\ OnlyInTemplate(blk, selected) \subseteq Transactions(blk, selected)
  BY DEF Reliable, Transactions
<1>4. pc \in {"only_in_block", "only_in_template"}
          => Transactions(blk, selected) \subseteq transaction
  BY DEF ReliableInv, TransactionsThere, InsertSteps
<1> QED BY <1>1, <1>2, <1>3, <1>4 DEF InsertRejected

\* Steps that leave the queue, the rows and the block in hand alone.
LEMMA QuietStep ==
    ASSUME ReliableInv, HeightInv',
           UNCHANGED <<last_templates, block>>,
           Len(chain') >= Len(chain),
           pc \notin InsertSteps, pc' \notin DbSteps
    PROVE  ReliableInv'
<1>1. OneParent' /\ QueueBounded' /\ HeightCorrect'
  BY DEF ReliableInv, OneParent, QueueBounded, HeightCorrect, Stored
<1>2. StoredBelowQueue'
  BY DEF ReliableInv, StoredBelowQueue, Stored, InProgress, DbSteps
<1>3. StoredBelowTip'
  <2>1. Len(chain) \in Nat /\ Len(chain') \in Nat
    BY DEF ReliableInv, HeightInv, TypeOK
  <2> QED BY <2>1, HeightFacts DEF ReliableInv, StoredBelowTip, Stored
<1>4. SelectedFromQueue' /\ TransactionsThere'
  BY DEF SelectedFromQueue, TransactionsThere, DbSteps
<1> QED BY <1>1, <1>2, <1>3, <1>4 DEF ReliableInv

\* A step of the node only makes the chain longer.
LEMMA ReliableNode == ReliableInv /\ HeightInv' /\ Node => ReliableInv'
<1> SUFFICES ASSUME ReliableInv, HeightInv', Node PROVE ReliableInv'
  OBVIOUS
<1>1. UNCHANGED <<pc, last_templates, blk, selected, addresses, utxos, block,
                  transaction>>
  BY DEF Node, NodeConnect, NodeReorg, loopvars, procvars, dbvars, txtables
<1>2. Len(chain) \in Nat /\ Len(chain') \in Nat /\ Len(chain') >= Len(chain)
  <2>1. Len(chain) \in Nat /\ Len(chain') \in Nat
    BY DEF ReliableInv, HeightInv, TypeOK
  <2>2. NodeConnect => Len(chain') >= Len(chain)
    BY DEF NodeConnect, ReliableInv, HeightInv, TypeOK
  <2>3. NodeReorg => Len(chain') >= Len(chain)
    BY <2>1 DEF NodeReorg
  <2> QED BY <2>1, <2>2, <2>3 DEF Node
<1>3. StoredBelowTip'
  BY <1>1, <1>2, HeightFacts DEF ReliableInv, StoredBelowTip, Stored
<1>4. TransactionsThere'
  BY <1>1 DEF ReliableInv, TransactionsThere, Transactions, SanctionedInfos,
              OnlyInBlock, OnlyInTemplate, IsTxSanctioned, IsTxToSanctioned,
              IsTxFromSanctioned
<1> QED BY <1>1, <1>3, <1>4
        DEF ReliableInv, OneParent, QueueBounded, HeightCorrect, StoredBelowQueue,
            SelectedFromQueue, Stored, InProgress

\* A step of main_loop: a template that is kept is on the parent of the others.
LEMMA ReliableMainLoop == ReliableInv /\ HeightInv' /\ MainLoop => ReliableInv'
<1> SUFFICES ASSUME ReliableInv, HeightInv', MainLoop PROVE ReliableInv'
  OBVIOUS
<1> USE DEF loopvars, procvars, dbvars, txtables, envvars
<1>1. TypeOK /\ HeightInv /\ Len(chain) \in Nat
  BY DEF ReliableInv, HeightInv, TypeOK
<1>2. CASE FirstTemplate \/ SameTip
  <2>1. /\ UNCHANGED <<chain, block>>
        /\ pc = "get_block_template" /\ pc' = "get_block_template"
    BY <1>2 DEF FirstTemplate, SameTip
  <2>2. PICK txs \in TemplateTxs[Tip] :
           \/ last_templates = <<>> /\ last_templates' = <<TemplateOnTip(txs)>>
           \/ /\ last_templates # <<>>
              /\ Last(last_templates).prev = Tip
              /\ last_templates' = PushBounded(last_templates, TemplateOnTip(txs))
    BY <1>2 DEF FirstTemplate, SameTip
  <2> DEFINE t == TemplateOnTip(txs)
  <2>3. t \in Template /\ t.prev = Tip /\ t.height = Len(chain)
    BY <1>1, <2>2, TemplateTypes DEF TemplateOnTip
  <2>4. \A i \in DOMAIN last_templates' :
            \/ last_templates'[i] = t
            \/ \E j \in DOMAIN last_templates : last_templates'[i] = last_templates[j]
    <3>1. CASE last_templates' = <<t>>
      BY <3>1
    <3>2. CASE /\ last_templates # <<>>
               /\ last_templates' = PushBounded(last_templates, t)
      BY <1>1, <2>3, <3>2, PushElements DEF TypeOK
    <3> QED BY <2>2, <3>1, <3>2
  <2>5. \A j \in DOMAIN last_templates : last_templates[j].prev = Tip
    BY <1>1, <2>2, OneHeight
  <2>6. OneParent'
    BY <2>3, <2>4, <2>5 DEF OneParent
  <2>7. QueueBounded'
    <3>1. CASE last_templates' = <<t>>
      BY <3>1, BoundAssumption DEF QueueBounded
    <3>2. CASE /\ last_templates # <<>>
               /\ last_templates' = PushBounded(last_templates, t)
      BY <1>1, <2>3, <3>2, BoundAssumption
      DEF PushBounded, TypeOK, ReliableInv, QueueBounded
    <3> QED BY <2>2, <3>1, <3>2
  <2>8. StoredBelowQueue'
    BY <2>1, <2>3, <2>4
    DEF ReliableInv, StoredBelowQueue, StoredBelowTip, Stored, InProgress,
        InsertSteps
  <2> QED BY <2>1, <2>6, <2>7, <2>8
          DEF ReliableInv, HeightCorrect, StoredBelowTip, SelectedFromQueue,
              TransactionsThere, Stored, DbSteps, LookupSteps, InsertSteps
<1>3. ASSUME ~FirstTemplate, ~SameTip PROVE ReliableInv'
  <2>1. /\ UNCHANGED <<chain, last_templates, block>>
        /\ pc \notin InsertSteps /\ pc' \notin DbSteps
    BY <1>3 DEF MainLoop, TipChanged, GetBlock, GetBlockSkipped, GetBlockHash,
                GetMissedBlock, GetBlockTxidFee, DbSteps, LookupSteps, InsertSteps
  <2> QED BY <1>1, <2>1, QuietStep
<1> QED BY <1>2, <1>3

\* What the queue, the rows and the block in hand are about, after a step inside
\* process that does not touch table block.
LEMMA InsideProcess ==
    ASSUME ReliableInv, HeightInv',
           UNCHANGED <<chain, last_templates, blk, block>>,
           pc \notin InsertSteps \/ pc' \in InsertSteps
    PROVE  /\ OneParent' /\ QueueBounded' /\ HeightCorrect'
           /\ StoredBelowQueue' /\ StoredBelowTip'
<1>1. \A b : InProgress(b) => InProgress(b)'
  BY DEF InProgress
<1>2. StoredBelowQueue'
  BY <1>1 DEF ReliableInv, StoredBelowQueue, Stored
<1> QED BY <1>2 DEF ReliableInv, OneParent, QueueBounded, HeightCorrect,
                    StoredBelowTip, Stored

\* A step of process: it inserts the block with the height of the one parent,
\* and ends with an empty queue.
LEMMA ReliableProcess ==
    ASSUME Reliable, ReliableInv, HeightInv', Process PROVE ReliableInv'
<1> USE DEF loopvars, procvars, dbvars, txtables, envvars
<1>1. TypeOK /\ HeightInv
  BY DEF ReliableInv, HeightInv
<1>2. ASSUME pc \in ProcessSteps
      PROVE  /\ last_templates # <<>>
             /\ Last(last_templates) \in Template
             /\ Height[blk] = Last(last_templates).height
             /\ Height[blk] < current.height
             /\ current.height \in Nat /\ Height[blk] \in Nat
             /\ current.height <= Len(chain) /\ Len(chain) \in Nat
  <2>1. pc # "get_block_template" /\ pc \in BlockInHand
    BY <1>2 DEF BlockInHand, ProcessSteps, DbSteps, LookupSteps, InsertSteps
  <2>2. /\ last_templates # <<>> /\ Taken(current)
        /\ Last(last_templates).height < current.height
        /\ Height[blk] = Last(last_templates).height
    BY <2>1 DEF ReliableInv, HeightInv, RoundHeights
  <2> QED BY <1>1, <2>2, LastType, HeightFacts DEF TypeOK, Taken
<1>3. CASE SelectTemplate
  <2>1. /\ UNCHANGED <<chain, last_templates, blk, block>>
        /\ pc \notin InsertSteps /\ pc' = "connection"
        /\ \E i \in DOMAIN last_templates : selected' = last_templates[i]
    BY <1>3 DEF SelectTemplate, InsertSteps
  <2>2. SelectedFromQueue' /\ TransactionsThere'
    BY <2>1 DEF SelectedFromQueue, TransactionsThere, InsertSteps
  <2> QED BY <2>1, <2>2, InsideProcess DEF ReliableInv
<1>4. CASE GetConnection \/ SanctionedAddresses \/ GetSanctionedUtxos
  <2>1. /\ UNCHANGED <<chain, last_templates, blk, block, selected>>
        /\ pc \in DbSteps /\ pc \notin InsertSteps /\ pc' \notin InsertSteps
    BY <1>4 DEF GetConnection, SanctionedAddresses, GetSanctionedUtxos, DbSteps,
                LookupSteps, InsertSteps
  <2>2. SelectedFromQueue' /\ TransactionsThere'
    BY <2>1 DEF ReliableInv, SelectedFromQueue, TransactionsThere
  <2> QED BY <2>1, <2>2, InsideProcess DEF ReliableInv
<1>5. CASE InsertBlock
  <2>1. /\ UNCHANGED <<chain, last_templates, blk, selected>>
        /\ pc = "block" /\ pc' = "transactions"
        /\ \A b \in Blocks : b # blk => block'[b] = block[b]
        /\ block'[blk].template = selected
    BY <1>1, <1>5 DEF InsertBlock, TypeOK
  <2>2. pc \in ProcessSteps /\ pc \in DbSteps /\ pc \notin InsertSteps
        /\ pc' \in InsertSteps
    BY <2>1 DEF ProcessSteps, DbSteps, InsertSteps
  <2>3. selected.height = Height[blk]
    BY <1>2, <2>2, OneHeight DEF ReliableInv, SelectedFromQueue
  <2>4. \A b \in Blocks : b # blk => (Stored(b)' <=> Stored(b))
    BY <2>1 DEF Stored
  <2>5. HeightCorrect'
    BY <2>1, <2>3, <2>4 DEF ReliableInv, HeightCorrect
  <2>6. StoredBelowQueue'
    BY <2>1, <2>2, <2>4 DEF ReliableInv, StoredBelowQueue, InProgress
  <2>7. StoredBelowTip'
    BY <1>2, <2>1, <2>2, <2>4 DEF ReliableInv, StoredBelowTip
  <2>8. SelectedFromQueue' /\ TransactionsThere'
    BY <2>1, <2>2 DEF ReliableInv, SelectedFromQueue, TransactionsThere
  <2> QED BY <2>1, <2>5, <2>6, <2>7, <2>8 DEF ReliableInv, OneParent, QueueBounded
<1>6. CASE \/ InsertTransactions \/ InsertOnlyInBlock \/ InsertOnlyInTemplate
           \/ InsertSanctionedInfos \/ InsertConflicting \/ InsertSanctionedUtxos
  <2>1. /\ UNCHANGED <<chain, last_templates, blk, block, selected, addresses,
                       utxos>>
        /\ pc \in InsertSteps /\ pc \in DbSteps /\ pc' \in InsertSteps
        /\ \/ transaction' = transaction \cup Transactions(blk, selected)
           \/ pc # "transactions" /\ transaction' = transaction
    BY <1>6 DEF InsertTransactions, InsertOnlyInBlock, InsertOnlyInTemplate,
                InsertSanctionedInfos, InsertConflicting, InsertSanctionedUtxos,
                DbSteps, InsertSteps
  <2>2. Transactions(blk, selected)' = Transactions(blk, selected)
    BY <2>1 DEF Transactions, SanctionedInfos, OnlyInBlock, OnlyInTemplate,
                IsTxSanctioned, IsTxToSanctioned, IsTxFromSanctioned
  <2>3. Transactions(blk, selected) \subseteq transaction'
    BY <2>1 DEF ReliableInv, TransactionsThere
  <2>4. SelectedFromQueue' /\ TransactionsThere'
    BY <2>1, <2>2, <2>3 DEF ReliableInv, SelectedFromQueue, TransactionsThere
  <2> QED BY <2>1, <2>4, InsideProcess DEF ReliableInv
<1>7. CASE InsertDebug
  <2>1. /\ chain' = chain /\ block' = block
        /\ pc = "debug" /\ pc' = "get_block_template"
        /\ last_templates' = <<>> \/ last_templates' = <<current>>
    BY <1>7 DEF InsertDebug, Return, NextRound
  <2>2. pc \in ProcessSteps
    BY <2>1 DEF ProcessSteps, DbSteps, InsertSteps
  <2>3. OneParent' /\ QueueBounded'
    BY <2>1, BoundAssumption DEF OneParent, QueueBounded
  <2>4. ASSUME NEW b \in Blocks, Stored(b)
        PROVE  Height[b] < current.height
    <3>1. CASE b = blk
      BY <1>2, <2>2, <3>1
    <3>2. CASE b # blk
      <4>1. Len(last_templates) \in DOMAIN last_templates
        BY <1>1, <1>2, <2>2, LastType DEF TypeOK
      <4>2. Height[b] < last_templates[Len(last_templates)].height
        BY <2>4, <3>2, <4>1 DEF ReliableInv, StoredBelowQueue, InProgress
      <4> QED BY <1>2, <2>2, <4>2, HeightFacts DEF Last
    <3> QED BY <3>1, <3>2
  <2>5. StoredBelowQueue'
    BY <2>1, <2>4 DEF StoredBelowQueue, Stored
  <2>6. pc' \notin DbSteps
    BY <2>1 DEF DbSteps, LookupSteps, InsertSteps
  <2>7. SelectedFromQueue' /\ TransactionsThere'
    BY <2>6 DEF SelectedFromQueue, TransactionsThere, DbSteps
  <2> QED BY <2>1, <2>3, <2>5, <2>7
          DEF ReliableInv, HeightCorrect, StoredBelowTip, Stored
<1> QED BY <1>3, <1>4, <1>5, <1>6, <1>7, NothingRejected DEF Process

\* Only RPC calls fail, and restarts empty the queue.
LEMMA ReliableFailure ==
    ASSUME Reliable, ReliableInv, HeightInv', Failure PROVE ReliableInv'
<1> USE DEF loopvars, procvars, dbvars, txtables, envvars
<1>1. RpcFails \/ Restart
  BY NothingRejected DEF Failure, ConnectionFails, LookupFails, InsertFails
<1>2. CASE RpcFails
  <2>1. /\ UNCHANGED <<chain, last_templates, block>>
        /\ pc \notin InsertSteps /\ pc' \notin DbSteps
    BY <1>2 DEF RpcFails, NextRound, RpcSteps, DbSteps, LookupSteps, InsertSteps
  <2>2. Len(chain) \in Nat
    BY DEF ReliableInv, HeightInv, TypeOK
  <2> QED BY <2>1, <2>2, QuietStep
<1>3. CASE Restart
  <2>1. /\ UNCHANGED <<chain, block>> /\ last_templates' = <<>>
        /\ pc' \notin DbSteps
    BY <1>3 DEF Restart, NextRound, DbSteps, LookupSteps, InsertSteps
  <2>2. SelectedFromQueue' /\ TransactionsThere'
    BY <2>1 DEF SelectedFromQueue, TransactionsThere, DbSteps
  <2>3. OneParent' /\ QueueBounded' /\ StoredBelowQueue'
    BY <2>1, BoundAssumption DEF OneParent, QueueBounded, StoredBelowQueue
  <2> QED BY <2>1, <2>2, <2>3
          DEF ReliableInv, HeightCorrect, StoredBelowTip, Stored
<1> QED BY <1>1, <1>2, <1>3

\* ReliableInv is an invariant while the database works.
THEOREM ReliableInvariance == ASSUME Reliable PROVE Spec => []ReliableInv
<1>1. Init /\ HeightInv => ReliableInv
  <2> SUFFICES ASSUME Init, HeightInv PROVE ReliableInv
    OBVIOUS
  <2>1. /\ last_templates = <<>> /\ block = [b \in Blocks |-> NoRow]
        /\ pc = "get_block_template"
    BY DEF Init
  <2>2. pc \notin DbSteps
    BY <2>1 DEF DbSteps, LookupSteps, InsertSteps
  <2> QED BY <2>1, <2>2, BoundAssumption
          DEF ReliableInv, OneParent, QueueBounded, HeightCorrect,
              StoredBelowQueue, StoredBelowTip, SelectedFromQueue,
              TransactionsThere, Stored, DbSteps
<1>2. ReliableInv /\ HeightInv' /\ [Next]_vars => ReliableInv'
  <2>1. ReliableInv /\ HeightInv' /\ UNCHANGED vars => ReliableInv'
    BY DEF vars, loopvars, procvars, dbvars, txtables, envvars, ReliableInv,
           OneParent, QueueBounded, HeightCorrect, StoredBelowQueue,
           StoredBelowTip, SelectedFromQueue, TransactionsThere, Stored,
           InProgress, Transactions, SanctionedInfos, OnlyInBlock,
           OnlyInTemplate, IsTxSanctioned, IsTxToSanctioned, IsTxFromSanctioned
  <2> QED BY <2>1, ReliableNode, ReliableMainLoop, ReliableProcess,
             ReliableFailure DEF Next
<1> QED BY <1>1, <1>2, HeightInvariance, PTL DEF Spec

\* While the database works no block is inserted twice, across reorgs, RPC
\* failures and restarts at any point of process.
THEOREM NoDuplicates == ASSUME Reliable PROVE Spec => []InsertedOnce
<1>1. ReliableInv => InsertedOnce
  BY NotStored
<1> QED BY <1>1, ReliableInvariance, PTL

\* While the database works select_best_template_for_block only ever chooses
\* among templates on one parent.
THEOREM OneParentQueue == ASSUME Reliable PROVE Spec => []OneParent
<1>1. ReliableInv => OneParent
  BY DEF ReliableInv
<1> QED BY <1>1, ReliableInvariance, PTL

\* While the database works the queue keeps within its capacity, though the
\* branch for skipped blocks appends without looking at it.
THEOREM QueueCapacity == ASSUME Reliable PROVE Spec => []QueueBounded
<1>1. ReliableInv => QueueBounded
  BY DEF ReliableInv
<1> QED BY <1>1, ReliableInvariance, PTL

\* While the database works the height that build_block takes from the template
\* is the height of the block, in reorgs too.
THEOREM RightHeights == ASSUME Reliable PROVE Spec => []HeightCorrect
<1>1. ReliableInv => HeightCorrect
  BY DEF ReliableInv
<1> QED BY <1>1, ReliableInvariance, PTL

-----------------------------------------------------------------------------
(* Without reorgs every block is compared with a template on its parent.   *)
(* A template's parent is then the block of the active chain below the     *)
(* height the template is for, and stays so.                               *)

NoReorg == ReorgTargets = {}

PairInv ==
    /\ ReliableInv
    /\ \A i \in DOMAIN last_templates :
           last_templates[i].prev = chain[last_templates[i].height]
    /\ pc # "get_block_template" => current.prev = chain[current.height]
    /\ pc \in BlockInHand => Parent[blk] = Last(last_templates).prev
    /\ PairedWithParent

\* A template the daemon holds is about a part of the chain that is there.
LEMMA TakenIndex ==
    ASSUME HeightInv, NEW t \in Template, Taken(t)
    PROVE  t.height \in 1..Len(chain)
BY HeightFacts DEF HeightInv, TypeOK, Taken

\* A new block leaves the chain below it as it was.
LEMMA PairNode ==
    ASSUME NoReorg, PairInv, ReliableInv', Node PROVE PairInv'
<1> USE DEF loopvars, procvars, dbvars, txtables, envvars
<1>1. NodeConnect
  BY DEF Node, NodeReorg, NoReorg
<1>2. /\ UNCHANGED <<pc, last_templates, current, blk, block>>
      /\ \E b \in Blocks : chain' = Append(chain, b)
  BY <1>1 DEF NodeConnect
<1>3. HeightInv /\ TypeOK
  BY DEF PairInv, ReliableInv, HeightInv
<1>4. \A n \in 1..Len(chain) : chain'[n] = chain[n]
  BY <1>2, <1>3 DEF TypeOK
<1>5. ASSUME NEW i \in DOMAIN last_templates
      PROVE  last_templates[i].prev = chain'[last_templates[i].height]
  <2>1. last_templates[i] \in Template /\ Taken(last_templates[i])
    BY <1>3 DEF HeightInv, TypeOK, QueueHeights
  <2> QED BY <1>3, <1>4, <2>1, TakenIndex DEF PairInv
<1>6. ASSUME pc # "get_block_template"
      PROVE  current.prev = chain'[current.height]
  <2>1. current \in Template /\ Taken(current)
    BY <1>3, <1>6 DEF HeightInv, TypeOK, RoundHeights
  <2> QED BY <1>3, <1>4, <1>6, <2>1, TakenIndex DEF PairInv
<1> QED BY <1>2, <1>5, <1>6 DEF PairInv, PairedWithParent, Stored

\* main_loop takes the block on the parent of the queue in both branches.
LEMMA PairMainLoop == PairInv /\ ReliableInv' /\ MainLoop => PairInv'
<1> SUFFICES ASSUME PairInv, ReliableInv', MainLoop PROVE PairInv'
  OBVIOUS
<1> USE DEF loopvars, procvars, dbvars, txtables, envvars
<1>1. HeightInv /\ TypeOK /\ ReliableInv
  BY DEF PairInv, ReliableInv, HeightInv
<1>2. UNCHANGED <<chain, block>>
  BY DEF MainLoop, FirstTemplate, SameTip, TipChanged, GetBlock, GetBlockSkipped,
         GetBlockHash, GetMissedBlock, GetBlockTxidFee
<1>3. PairedWithParent'
  BY <1>2 DEF PairInv, PairedWithParent, Stored
<1>4. \A txs : TemplateOnTip(txs).prev = chain[TemplateOnTip(txs).height]
  BY DEF TemplateOnTip, Tip
<1>5. CASE FirstTemplate
  BY <1>2, <1>3, <1>4, <1>5
  DEF FirstTemplate, PairInv, BlockInHand, ProcessSteps, DbSteps, LookupSteps,
      InsertSteps
<1>6. CASE SameTip
  <2>1. PICK txs \in TemplateTxs[Tip] :
           last_templates' = PushBounded(last_templates, TemplateOnTip(txs))
    BY <1>6 DEF SameTip
  <2>2. \A i \in DOMAIN last_templates' :
            \/ last_templates'[i] = TemplateOnTip(txs)
            \/ \E j \in DOMAIN last_templates : last_templates'[i] = last_templates[j]
    BY <1>1, <1>6, <2>1, TemplateTypes, PushElements DEF SameTip, TypeOK
  <2>3. pc' = "get_block_template"
    BY <1>6 DEF SameTip
  <2> QED BY <1>2, <1>3, <1>4, <2>2, <2>3
          DEF PairInv, BlockInHand, ProcessSteps, DbSteps, LookupSteps, InsertSteps
<1>7. CASE TipChanged
  BY <1>2, <1>3, <1>4, <1>7
  DEF TipChanged, PairInv, BlockInHand, ProcessSteps, DbSteps, LookupSteps,
      InsertSteps
<1>8. CASE GetBlock
  BY <1>2, <1>3, <1>8 DEF GetBlock, PairInv
<1>9. CASE GetBlockSkipped
  BY <1>2, <1>3, <1>9
  DEF GetBlockSkipped, PairInv, BlockInHand, ProcessSteps, DbSteps, LookupSteps,
      InsertSteps
<1>10. CASE GetBlockHash
  <2> DEFINE h == Last(last_templates).height
  <2>1. /\ last_templates # <<>> /\ blk' = chain[h + 1] /\ h + 1 \in DOMAIN chain
        /\ UNCHANGED <<last_templates, current>> /\ pc # "get_block_template"
    BY <1>1, <1>10
    DEF GetBlockHash, HasBlockAt, BlockAt, HeightInv, RoundHeights
  <2>2. /\ Last(last_templates) \in Template /\ Taken(Last(last_templates))
        /\ Last(last_templates).prev = chain[h]
    BY <1>1, <2>1, LastType DEF HeightInv, TypeOK, QueueHeights, PairInv, Last
  <2>3. h \in 1..Len(chain)
    BY <1>1, <2>2, TakenIndex
  <2>4. Parent[chain[h + 1]] = chain[h]
    BY <1>1, <2>1, <2>3 DEF HeightInv, IsChain
  <2> QED BY <1>2, <1>3, <2>1, <2>2, <2>4 DEF PairInv
<1>11. CASE GetMissedBlock \/ GetBlockTxidFee
  BY <1>2, <1>3, <1>11 DEF GetMissedBlock, GetBlockTxidFee, PairInv, BlockInHand
<1> QED BY <1>5, <1>6, <1>7, <1>8, <1>9, <1>10, <1>11 DEF MainLoop

\* process stores the block with a template of the queue.
LEMMA PairProcess ==
    ASSUME Reliable, PairInv, ReliableInv', Process PROVE PairInv'
<1> USE DEF loopvars, procvars, dbvars, txtables, envvars
<1>1. HeightInv /\ TypeOK /\ ReliableInv /\ ~InsertRejected
  BY NothingRejected DEF PairInv, ReliableInv, HeightInv
<1>2. CASE InsertDebug
  <2>1. /\ UNCHANGED <<chain, block>>
        /\ pc = "debug" /\ pc' = "get_block_template"
        /\ last_templates' = <<>> \/ last_templates' = <<current>>
    BY <1>2 DEF InsertDebug, Return, NextRound
  <2> QED BY <2>1 DEF PairInv, PairedWithParent, Stored, BlockInHand,
                      ProcessSteps, DbSteps, LookupSteps, InsertSteps
<1>3. CASE InsertBlock
  <2>1. /\ UNCHANGED <<chain, last_templates, current, blk>>
        /\ pc = "block" /\ pc' = "transactions"
        /\ \A b \in Blocks : b # blk => block'[b] = block[b]
        /\ block'[blk].template = selected
    BY <1>1, <1>3 DEF InsertBlock, TypeOK
  <2>2. pc \in DbSteps /\ pc \in BlockInHand
    BY <2>1 DEF DbSteps, BlockInHand, ProcessSteps
  <2>3. selected.prev = Parent[blk]
    BY <1>1, <2>2, OneHeight DEF ReliableInv, SelectedFromQueue, PairInv
  <2>4. PairedWithParent'
    BY <2>1, <2>3 DEF PairInv, PairedWithParent, Stored
  <2> QED BY <2>1, <2>2, <2>4 DEF PairInv
<1>4. ASSUME ~InsertDebug, ~InsertBlock PROVE PairInv'
  <2>1. /\ UNCHANGED <<chain, last_templates, current, blk, block>>
        /\ pc \in ProcessSteps
    BY <1>1, <1>4
    DEF Process, SelectTemplate, GetConnection, SanctionedAddresses,
        GetSanctionedUtxos, InsertTransactions, InsertOnlyInBlock,
        InsertOnlyInTemplate, InsertSanctionedInfos, InsertConflicting,
        InsertSanctionedUtxos, ProcessSteps, DbSteps, LookupSteps, InsertSteps
  <2>2. pc # "get_block_template" /\ pc \in BlockInHand
    BY <2>1 DEF BlockInHand, ProcessSteps, DbSteps, LookupSteps, InsertSteps
  <2> QED BY <2>1, <2>2 DEF PairInv, PairedWithParent, Stored
<1> QED BY <1>2, <1>3, <1>4

\* A failure stores nothing.
LEMMA PairFailure ==
    ASSUME Reliable, PairInv, ReliableInv', Failure PROVE PairInv'
<1>1. ReliableInv
  BY DEF PairInv
<1>2. RpcFails \/ Restart
  BY <1>1, NothingRejected DEF Failure, ConnectionFails, LookupFails, InsertFails
<1>3. /\ UNCHANGED <<chain, block>> /\ pc' = "get_block_template"
      /\ last_templates' = last_templates \/ last_templates' = <<>>
  BY <1>2 DEF RpcFails, Restart, NextRound, dbvars
<1> QED BY <1>3 DEF PairInv, PairedWithParent, Stored, BlockInHand, ProcessSteps,
                    DbSteps, LookupSteps, InsertSteps

\* While the database works and the chain does not reorganize, every stored
\* block was compared with a template that builds on its own parent, however
\* many blocks come between two polls and however the daemon is restarted.
THEOREM Pairing ==
    ASSUME Reliable, NoReorg PROVE Spec => []PairedWithParent
<1>1. Init /\ ReliableInv => PairInv
  <2> SUFFICES ASSUME Init, ReliableInv PROVE PairInv
    OBVIOUS
  <2>1. /\ last_templates = <<>> /\ block = [b \in Blocks |-> NoRow]
        /\ pc = "get_block_template"
    BY DEF Init
  <2> QED BY <2>1 DEF PairInv, PairedWithParent, Stored, BlockInHand,
                      ProcessSteps, DbSteps, LookupSteps, InsertSteps
<1>2. PairInv /\ ReliableInv' /\ [Next]_vars => PairInv'
  <2>1. PairInv /\ ReliableInv' /\ UNCHANGED vars => PairInv'
    BY DEF vars, loopvars, procvars, dbvars, txtables, envvars, PairInv,
           PairedWithParent, Stored
  <2> QED BY <2>1, PairNode, PairMainLoop, PairProcess, PairFailure DEF Next
<1>3. PairInv => PairedWithParent
  BY DEF PairInv
<1> QED BY <1>1, <1>2, <1>3, ReliableInvariance, PTL DEF Spec

-----------------------------------------------------------------------------
(* With reorgs a round that skipped no block still compares the block with *)
(* a template on its parent.                                               *)

\* What the round has found out about the block in hand.
HandInv ==
    /\ pc \in {"get_block_hash", "get_missed_block"} => missed
    /\ pc \in BlockInHand /\ ~missed => Parent[blk] = Last(last_templates).prev

\* Nothing moves the block in hand or the end of the queue within a round.
LEMMA HandStep == HandInv /\ [Next]_vars => HandInv'
<1> SUFFICES ASSUME HandInv, [Next]_vars PROVE HandInv'
  OBVIOUS
<1> USE DEF loopvars, procvars, dbvars, txtables, envvars
<1>1. CASE UNCHANGED vars \/ Node
  BY <1>1 DEF vars, Node, NodeConnect, NodeReorg, HandInv
<1>2. ASSUME pc' = "get_block_template" PROVE HandInv'
  BY <1>2 DEF HandInv, BlockInHand, ProcessSteps, DbSteps, LookupSteps, InsertSteps
<1>3. CASE \/ FirstTemplate \/ SameTip \/ InsertDebug \/ InsertRejected
           \/ RpcFails \/ InsertFails \/ Restart
  <2>1. pc' = "get_block_template"
    BY <1>3 DEF FirstTemplate, SameTip, InsertDebug, InsertRejected, RpcFails,
                InsertFails, Restart, Return, NextRound
  <2> QED BY <1>2, <2>1
<1>4. CASE TipChanged
  BY <1>4 DEF TipChanged, HandInv, BlockInHand, ProcessSteps, DbSteps,
              LookupSteps, InsertSteps
<1>5. CASE GetBlock \/ GetBlockSkipped
  BY <1>5 DEF GetBlock, GetBlockSkipped, HandInv
<1>6. CASE GetBlockHash \/ GetMissedBlock \/ GetBlockTxidFee
  BY <1>6 DEF GetBlockHash, GetMissedBlock, GetBlockTxidFee, HandInv, BlockInHand
<1>7. CASE \/ SelectTemplate \/ GetConnection \/ SanctionedAddresses
           \/ GetSanctionedUtxos \/ InsertBlock \/ InsertTransactions
           \/ InsertOnlyInBlock \/ InsertOnlyInTemplate \/ InsertSanctionedInfos
           \/ InsertConflicting \/ InsertSanctionedUtxos
           \/ ConnectionFails \/ LookupFails
  <2>1. /\ UNCHANGED <<last_templates, blk, missed>>
        /\ pc \in ProcessSteps /\ pc' \in ProcessSteps
    BY <1>7
    DEF SelectTemplate, GetConnection, SanctionedAddresses, GetSanctionedUtxos,
        InsertBlock, InsertTransactions, InsertOnlyInBlock, InsertOnlyInTemplate,
        InsertSanctionedInfos, InsertConflicting, InsertSanctionedUtxos,
        ConnectionFails, LookupFails, ProcessSteps, DbSteps, LookupSteps,
        InsertSteps
  <2>2. pc' \notin {"get_block_hash", "get_missed_block"}
    BY <2>1 DEF ProcessSteps, DbSteps, LookupSteps, InsertSteps
  <2> QED BY <2>1, <2>2 DEF HandInv, BlockInHand
<1> QED BY <1>1, <1>3, <1>4, <1>5, <1>6, <1>7 DEF Next, MainLoop, Process, Failure

\* While the database works, a block is stored with a template on its own
\* parent unless the round found that blocks were skipped, however the chain
\* reorganizes between the calls of the round and whatever restarts happen.
THEOREM RoundPairing ==
    ASSUME Reliable PROVE Spec => PairedUnlessSkipped
<1>1. Init => HandInv
  BY DEF Init, HandInv, BlockInHand, ProcessSteps, DbSteps, LookupSteps, InsertSteps
<1>2. ReliableInv /\ HandInv /\ [Next]_vars =>
          [ \A b \in Blocks : ~Stored(b) /\ Stored(b)' /\ ~missed
               => block'[b].template.prev = Parent[b] ]_vars
  <2> SUFFICES ASSUME ReliableInv, HandInv, [Next]_vars,
                      NEW b \in Blocks, ~Stored(b), Stored(b)', ~missed
               PROVE  block'[b].template.prev = Parent[b]
    OBVIOUS
  <2> USE DEF loopvars, procvars, dbvars, txtables, envvars
  <2>1. block' # block
    BY DEF Stored
  <2>2. InsertBlock
    BY <2>1 DEF Next, vars, Node, NodeConnect, NodeReorg, MainLoop, FirstTemplate,
       SameTip, TipChanged, GetBlock, GetBlockSkipped, GetBlockHash,
       GetMissedBlock, GetBlockTxidFee, Process, SelectTemplate, GetConnection,
       SanctionedAddresses, GetSanctionedUtxos, InsertTransactions,
       InsertOnlyInBlock, InsertOnlyInTemplate, InsertSanctionedInfos,
       InsertConflicting, InsertSanctionedUtxos, InsertDebug, InsertRejected,
       Failure, RpcFails, ConnectionFails, LookupFails, InsertFails, Restart
  <2>3. TypeOK
    BY DEF ReliableInv, HeightInv
  <2>4. /\ pc = "block" /\ b = blk /\ block'[b].template = selected
    BY <2>2, <2>3 DEF InsertBlock, TypeOK, Stored
  <2>5. pc \in DbSteps /\ pc \in BlockInHand
    BY <2>4 DEF DbSteps, BlockInHand, ProcessSteps
  <2>6. selected.prev = Last(last_templates).prev
    BY <2>5, OneHeight DEF ReliableInv, SelectedFromQueue
  <2> QED BY <2>4, <2>5, <2>6 DEF HandInv
<1> QED BY <1>1, <1>2, HandStep, ReliableInvariance, PTL DEF Spec, PairedUnlessSkipped
=============================================================================
