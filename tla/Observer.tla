------------------------------ MODULE Observer ------------------------------
(***************************************************************************)
(* The core of miningpool-observer's daemon: main_loop and process of      *)
(* daemon/src/main.rs, the Bitcoin Core node they poll over RPC and the    *)
(* PostgreSQL tables they fill.                                            *)
(*                                                                         *)
(* The daemon polls getblocktemplate, keeps the latest templates in the    *)
(* queue last_templates and, when the chain tip changes, compares the new  *)
(* block with the best template of the queue and stores the comparison,    *)
(* one autocommitted INSERT per table.  The node moves between any two     *)
(* RPC calls; an RPC call or a database statement may fail; the daemon may *)
(* be killed and restarted at any point.                                   *)
(*                                                                         *)
(* A transaction is abstracted to the outpoints it spends and the          *)
(* sanctioned outputs it creates; a template to the block it builds on,    *)
(* its height and its set of transactions.  The remaining columns (fees,   *)
(* weights, tags, positions, times, pool names) are left out.              *)
(***************************************************************************)
EXTENDS Integers, Sequences, FiniteSets, Functions

CONSTANTS
    Blocks,              \* block hashes of the block tree
    Genesis,             \* the block the node's chain starts with
    Parent,              \* header.prev_blockhash
    Height,              \* height of a block in the tree
    ReorgTargets,        \* the chains the node may switch to in a reorg
    Txs,                 \* txids
    Outpoints,           \* transaction outputs
    Inputs,              \* the outpoints a transaction spends
    SanctionedOutputs,   \* its outputs that pay to a sanctioned address
    Unbuildable,         \* transactions for which build_transaction fails
    BlockTxs,            \* transactions of a block, the coinbase included
    TemplateTxs,         \* transaction sets the node's templates on a tip have
    MAX_OLD_TEMPLATES,   \* capacity of last_templates
    FaultySteps,         \* the database steps that may fail
    MaxFaults,           \* bound on database failures
    MaxCrashes           \* bound on restarts of the daemon

IsChain(c) ==
    /\ c \in Seq(Blocks) /\ c # <<>>
    /\ c[1] = Genesis
    /\ \A i \in 2..Len(c) : c[i] # Genesis /\ Parent[c[i]] = c[i - 1]
    /\ \A i \in 1..Len(c) : Height[c[i]] = i - 1

ASSUME TreeAssumption ==
    /\ Genesis \in Blocks
    /\ Parent \in [Blocks -> Blocks]
    /\ Height \in [Blocks -> Nat]
    /\ Height[Genesis] = 0
    /\ \A b \in Blocks \ {Genesis} : Height[b] = Height[Parent[b]] + 1
    /\ \A c \in ReorgTargets : IsChain(c)

ASSUME TxAssumption ==
    /\ Inputs \in [Txs -> SUBSET Outpoints]
    /\ SanctionedOutputs \in [Txs -> SUBSET Outpoints]
    /\ Unbuildable \subseteq Txs
    /\ BlockTxs \in [Blocks -> SUBSET Txs]
    /\ TemplateTxs \in [Blocks -> SUBSET SUBSET Txs]

ASSUME BoundAssumption ==
    /\ MAX_OLD_TEMPLATES \in Nat \ {0}
    /\ MaxFaults \in Nat
    /\ MaxCrashes \in Nat

VARIABLES
    chain,              \* the node's active chain, genesis first
    pc,                 \* the call main_loop or process is about to make
    last_templates,     \* main_loop: the templates kept for comparison
    current,            \* main_loop: current_template
    blk,                \* main_loop, process: bitcoin_block
    missed,             \* main_loop: in the branch for skipped blocks
    selected,           \* process: template
    addresses,          \* process: sanctioned_addresses were loaded
    utxos,              \* process: the sanctioned_utxos that were loaded
    block,              \* table block, by hash
    transaction,        \* table transaction: its txids
    only_in_block,      \* table transaction_only_in_block
    only_in_template,   \* table transaction_only_in_template
    sanctioned_info,    \* table sanctioned_transaction_info
    conflicting,        \* table conflicting_transactions: the txids it names
    sanctioned_utxo,    \* table sanctioned_utxo
    debug,              \* table debug_template_selection: blocks with rows
    faults,             \* database failures so far
    crashes             \* restarts so far

loopvars == <<current, blk, missed>>
procvars == <<selected, addresses, utxos>>
txtables == <<transaction, only_in_block, only_in_template, sanctioned_info,
              conflicting>>
dbvars   == <<block, txtables, sanctioned_utxo, debug>>
envvars  == <<faults, crashes>>
vars     == <<chain, pc, last_templates, loopvars, procvars, dbvars, envvars>>

Template == [prev : Blocks, height : Nat, txs : SUBSET Txs]
Row      == [template : Template, sanctioned_missing : SUBSET Txs]

\* What a variable holds while the program has no such local, and a block
\* that has no row: no template of the node has height 0.
NoTemplate == [prev |-> Genesis, height |-> 0, txs |-> {}]
NoRow      == [template |-> NoTemplate, sanctioned_missing |-> {}]

RpcSteps    == {"get_block", "get_block_hash", "get_missed_block", "get_fees"}
LookupSteps == {"addresses", "utxos"}
InsertSteps == {"transactions", "only_in_block", "only_in_template",
                "sanctioned_infos", "conflicting", "sanctioned_utxos", "debug"}
DbSteps     == {"connection", "retry_connection", "block"}
                   \cup LookupSteps \cup InsertSteps
ProcessSteps == {"process"} \cup DbSteps

Tip      == chain[Len(chain)]
Last(q)  == q[Len(q)]
Stored(b)   == block[b] # NoRow
Complete(b) == b \in debug

Init ==
    /\ chain = <<Genesis>>
    /\ pc = "get_block_template"
    /\ last_templates = <<>>
    /\ current = NoTemplate /\ blk = Genesis /\ missed = FALSE
    /\ selected = NoTemplate /\ addresses = FALSE /\ utxos = {}
    /\ block = [b \in Blocks |-> NoRow]
    /\ transaction = {}
    /\ only_in_block = [b \in Blocks |-> {}]
    /\ only_in_template = [b \in Blocks |-> {}]
    /\ sanctioned_info = [b \in Blocks |-> {}]
    /\ conflicting = [b \in Blocks |-> {}]
    /\ sanctioned_utxo = {}
    /\ debug = {}
    /\ faults = 0 /\ crashes = 0

-----------------------------------------------------------------------------
(* The node.  Its template builds on the tip it has when it is asked.      *)

\* A block that extends the active chain is connected.
NodeConnect ==
    /\ \E b \in Blocks \ {Genesis} :
          Parent[b] = Tip /\ chain' = Append(chain, b)
    /\ UNCHANGED <<pc, last_templates, loopvars, procvars, dbvars, envvars>>

\* The node switches to a longer chain.
NodeReorg ==
    /\ \E c \in ReorgTargets : Len(c) > Len(chain) /\ chain' = c
    /\ UNCHANGED <<pc, last_templates, loopvars, procvars, dbvars, envvars>>

TemplateOnTip(txs) == [prev |-> Tip, height |-> Len(chain), txs |-> txs]

\* getblockhash: the block of the active chain at a height; genesis has 0.
HasBlockAt(h) == h + 1 \in DOMAIN chain
BlockAt(h)    == chain[h + 1]

-----------------------------------------------------------------------------
(* main_loop                                                               *)

\* Another round of the loop starts; what was local to the last one is gone.
NextRound ==
    /\ pc' = "get_block_template"
    /\ current' = NoTemplate /\ blk' = Genesis /\ missed' = FALSE
    /\ selected' = NoTemplate /\ addresses' = FALSE /\ utxos' = {}

\* The queue is empty: keep the template and wait.
FirstTemplate ==
    /\ pc = "get_block_template"
    /\ last_templates = <<>>
    /\ \E txs \in TemplateTxs[Tip] : last_templates' = <<TemplateOnTip(txs)>>
    /\ UNCHANGED <<chain, pc, loopvars, procvars, dbvars, envvars>>

\* Mutant of PushBounded: the capacity check is off by one.
PushOverCapacity(q, t) ==
    IF Len(q) > MAX_OLD_TEMPLATES THEN Append(Tail(q), t) ELSE Append(q, t)

\* push_back, then one pop_front if the queue is over its capacity
PushBounded(q, t) ==
    IF Len(q) + 1 > MAX_OLD_TEMPLATES THEN Append(Tail(q), t) ELSE Append(q, t)

\* No block since the previous template: keep the template and wait.
SameTip ==
    /\ pc = "get_block_template"
    /\ last_templates # <<>>
    /\ Last(last_templates).prev = Tip
    /\ \E txs \in TemplateTxs[Tip] :
          last_templates' = PushBounded(last_templates, TemplateOnTip(txs))
    /\ UNCHANGED <<chain, pc, loopvars, procvars, dbvars, envvars>>

\* The tip changed: ask for the block the current template builds on.
TipChanged ==
    /\ pc = "get_block_template"
    /\ last_templates # <<>>
    /\ Last(last_templates).prev # Tip
    /\ \E txs \in TemplateTxs[Tip] : current' = TemplateOnTip(txs)
    /\ pc' = "get_block"
    /\ UNCHANGED <<chain, last_templates, blk, missed, procvars, dbvars, envvars>>

\* Mutant of GetBlock: the block is taken without a look at its parent.
GetAnyBlock ==
    /\ pc = "get_block"
    /\ blk' = current.prev
    /\ pc' = "get_fees"
    /\ UNCHANGED <<chain, last_templates, current, missed, procvars, dbvars,
                   envvars>>

\* The block builds on what the previous template builds on: compare them.
GetBlock ==
    /\ pc = "get_block"
    /\ Parent[current.prev] = Last(last_templates).prev
    /\ blk' = current.prev
    /\ pc' = "get_fees"
    /\ UNCHANGED <<chain, last_templates, current, missed, procvars, dbvars,
                   envvars>>

\* It does not: blocks were skipped, or the chain reorganized.
GetBlockSkipped ==
    /\ pc = "get_block"
    /\ Parent[current.prev] # Last(last_templates).prev
    /\ missed' = TRUE
    /\ pc' = "get_block_hash"
    /\ UNCHANGED <<chain, last_templates, current, blk, procvars, dbvars, envvars>>

\* Mutant of GetBlockHash: the height of what the template builds on.
GetParentHash ==
    /\ pc = "get_block_hash"
    /\ HasBlockAt(Last(last_templates).height)
    /\ blk' = BlockAt(Last(last_templates).height - 1)
    /\ pc' = "get_missed_block"
    /\ UNCHANGED <<chain, last_templates, current, missed, procvars, dbvars,
                   envvars>>

\* The block at the height of the previous template, as the chain is now.
GetBlockHash ==
    /\ pc = "get_block_hash"
    /\ HasBlockAt(Last(last_templates).height)
    /\ blk' = BlockAt(Last(last_templates).height)
    /\ pc' = "get_missed_block"
    /\ UNCHANGED <<chain, last_templates, current, missed, procvars, dbvars,
                   envvars>>

GetMissedBlock ==
    /\ pc = "get_missed_block"
    /\ pc' = "get_fees"
    /\ UNCHANGED <<chain, last_templates, loopvars, procvars, dbvars, envvars>>

GetBlockTxidFee ==
    /\ pc = "get_fees"
    /\ pc' = "process"
    /\ UNCHANGED <<chain, last_templates, loopvars, procvars, dbvars, envvars>>

\* Mutant of RpcFails: the template of the failed round is kept.
RpcFailsKeepsTemplate ==
    /\ pc \in RpcSteps
    /\ last_templates' = Append(last_templates, current)
    /\ NextRound
    /\ UNCHANGED <<chain, dbvars, envvars>>

\* An RPC call fails, or getblockhash is asked for a height above the tip:
\* the round ends, its template is dropped.  A failing getblocktemplate
\* changes nothing at all.
RpcFails ==
    /\ pc \in RpcSteps
    /\ NextRound
    /\ UNCHANGED <<chain, last_templates, dbvars, envvars>>

-----------------------------------------------------------------------------
(* What process compares and builds                                        *)

OnlyInBlock(b, t)    == BlockTxs[b] \ t.txs
OnlyInTemplate(b, t) == t.txs \ BlockTxs[b]

\* missing + extra, the key select_best_template_for_block minimises
Mismatch(b, t) ==
    Cardinality(OnlyInTemplate(b, t)) + Cardinality(OnlyInBlock(b, t))

\* min_by_key: the first template of the queue with the least key
IsBest(q, b, i) ==
    \A j \in DOMAIN q : \/ Mismatch(b, q[i]) < Mismatch(b, q[j])
                        \/ Mismatch(b, q[i]) = Mismatch(b, q[j]) /\ i <= j

IsTxToSanctioned(tx)   == addresses /\ SanctionedOutputs[tx] # {}
IsTxFromSanctioned(tx) == Inputs[tx] \cap utxos # {}
IsTxSanctioned(tx)     == IsTxToSanctioned(tx) \/ IsTxFromSanctioned(tx)

SanctionedMissing(b, t) == { tx \in OnlyInTemplate(b, t) : IsTxSanctioned(tx) }

\* the transactions that spend an outpoint spent on both sides
ConflictingTxs(b, t) ==
    LET Spent(S)  == UNION { Inputs[tx] : tx \in S }
        contested == Spent(OnlyInTemplate(b, t)) \cap Spent(OnlyInBlock(b, t))
    IN  { tx \in OnlyInTemplate(b, t) \cup OnlyInBlock(b, t) :
             Inputs[tx] \cap contested # {} }

\* A transaction that cannot be built gets no sanctioned_transaction_info ...
SanctionedInfos(b, t) ==
    { tx \in t.txs \cup OnlyInBlock(b, t) : IsTxSanctioned(tx) } \ Unbuildable

\* ... and no row in the transaction table.
Transactions(b, t) ==
    (OnlyInBlock(b, t) \cup OnlyInTemplate(b, t) \cup SanctionedInfos(b, t))
        \ Unbuildable

\* Mutant of NewSanctionedUtxos: transactions in place of their outputs.
NewSanctionedTxs(b) ==
    { tx \in BlockTxs[b] : addresses /\ SanctionedOutputs[tx] # {} }

NewSanctionedUtxos(b) ==
    UNION { SanctionedOutputs[tx] : tx \in { x \in BlockTxs[b] : addresses } }

-----------------------------------------------------------------------------
(* process.  Every INSERT is committed on its own.                         *)

\* process returns to main_loop and leaves queue q; after a skipped block
\* main_loop adds its current template without looking at the capacity.
Return(q) ==
    /\ last_templates' = IF missed THEN Append(q, current) ELSE q
    /\ NextRound

SelectTemplate ==
    /\ pc = "process"
    /\ \E i \in DOMAIN last_templates :
          IsBest(last_templates, blk, i) /\ selected' = last_templates[i]
    /\ pc' = "connection"
    /\ UNCHANGED <<chain, last_templates, loopvars, addresses, utxos, dbvars,
                   envvars>>

GetConnection ==
    /\ pc \in {"connection", "retry_connection"}
    /\ pc' = "addresses"
    /\ UNCHANGED <<chain, last_templates, loopvars, procvars, dbvars, envvars>>

SanctionedAddresses ==
    /\ pc = "addresses"
    /\ addresses' = TRUE
    /\ pc' = "utxos"
    /\ UNCHANGED <<chain, last_templates, loopvars, selected, utxos, dbvars,
                   envvars>>

GetSanctionedUtxos ==
    /\ pc = "utxos"
    /\ utxos' = sanctioned_utxo
    /\ pc' = "block"
    /\ UNCHANGED <<chain, last_templates, loopvars, selected, addresses, dbvars,
                   envvars>>

\* Mutant of InsertBlock: a row that is there is overwritten.
UpsertBlock ==
    /\ pc = "block"
    /\ block' = [block EXCEPT ![blk] =
          [template |-> selected,
           sanctioned_missing |-> SanctionedMissing(blk, selected)]]
    /\ pc' = "transactions"
    /\ UNCHANGED <<chain, last_templates, loopvars, procvars, txtables,
                   sanctioned_utxo, debug, envvars>>

\* The hash is the primary key of table block.
InsertBlock ==
    /\ pc = "block"
    /\ ~Stored(blk)
    /\ block' = [block EXCEPT ![blk] =
          [template |-> selected,
           sanctioned_missing |-> SanctionedMissing(blk, selected)]]
    /\ pc' = "transactions"
    /\ UNCHANGED <<chain, last_templates, loopvars, procvars, txtables,
                   sanctioned_utxo, debug, envvars>>

InsertTransactions ==
    /\ pc = "transactions"
    /\ transaction' = transaction \cup Transactions(blk, selected)
    /\ pc' = "only_in_block"
    /\ UNCHANGED <<chain, last_templates, loopvars, procvars, block,
                   only_in_block, only_in_template, sanctioned_info,
                   conflicting, sanctioned_utxo, debug, envvars>>

\* The next three tables have foreign keys to table transaction.
InsertOnlyInBlock ==
    /\ pc = "only_in_block"
    /\ OnlyInBlock(blk, selected) \subseteq transaction
    /\ only_in_block' = [only_in_block EXCEPT ![blk] = OnlyInBlock(blk, selected)]
    /\ pc' = "only_in_template"
    /\ UNCHANGED <<chain, last_templates, loopvars, procvars, block, transaction,
                   only_in_template, sanctioned_info, conflicting,
                   sanctioned_utxo, debug, envvars>>

\* Mutant of InsertOnlyInTemplate: the table has no foreign key.
InsertOnlyInTemplateUnchecked ==
    /\ pc = "only_in_template"
    /\ only_in_template' =
          [only_in_template EXCEPT ![blk] = OnlyInTemplate(blk, selected)]
    /\ pc' = "sanctioned_infos"
    /\ UNCHANGED <<chain, last_templates, loopvars, procvars, block, transaction,
                   only_in_block, sanctioned_info, conflicting, sanctioned_utxo,
                   debug, envvars>>

InsertOnlyInTemplate ==
    /\ pc = "only_in_template"
    /\ OnlyInTemplate(blk, selected) \subseteq transaction
    /\ only_in_template' =
          [only_in_template EXCEPT ![blk] = OnlyInTemplate(blk, selected)]
    /\ pc' = "sanctioned_infos"
    /\ UNCHANGED <<chain, last_templates, loopvars, procvars, block, transaction,
                   only_in_block, sanctioned_info, conflicting, sanctioned_utxo,
                   debug, envvars>>

InsertSanctionedInfos ==
    /\ pc = "sanctioned_infos"
    /\ SanctionedInfos(blk, selected) \subseteq transaction
    /\ sanctioned_info' =
          [sanctioned_info EXCEPT ![blk] = SanctionedInfos(blk, selected)]
    /\ pc' = "conflicting"
    /\ UNCHANGED <<chain, last_templates, loopvars, procvars, block, transaction,
                   only_in_block, only_in_template, conflicting, sanctioned_utxo,
                   debug, envvars>>

\* No foreign key to table transaction: the txids are columns of type BYTEA[].
InsertConflicting ==
    /\ pc = "conflicting"
    /\ conflicting' = [conflicting EXCEPT ![blk] = ConflictingTxs(blk, selected)]
    /\ pc' = "sanctioned_utxos"
    /\ UNCHANGED <<chain, last_templates, loopvars, procvars, block, transaction,
                   only_in_block, only_in_template, sanctioned_info,
                   sanctioned_utxo, debug, envvars>>

InsertSanctionedUtxos ==
    /\ pc = "sanctioned_utxos"
    /\ sanctioned_utxo' = sanctioned_utxo \cup NewSanctionedUtxos(blk)
    /\ pc' = "debug"
    /\ UNCHANGED <<chain, last_templates, loopvars, procvars, block, txtables,
                   debug, envvars>>

\* Mutant of InsertDebug: the queue is not cleared.
InsertDebugKeepsQueue ==
    /\ pc = "debug"
    /\ debug' = debug \cup {blk}
    /\ Return(last_templates)
    /\ UNCHANGED <<chain, block, txtables, sanctioned_utxo, envvars>>

\* One row per template of the queue, then last_templates.clear().
InsertDebug ==
    /\ pc = "debug"
    /\ debug' = debug \cup {blk}
    /\ Return(<<>>)
    /\ UNCHANGED <<chain, block, txtables, sanctioned_utxo, envvars>>

-----------------------------------------------------------------------------
(* Failures                                                                *)

\* Mutant of InsertRejected: process logs a rejected only_in_template row and
\* goes on.
RejectionIgnored ==
    /\ pc = "only_in_template"
    /\ ~(OnlyInTemplate(blk, selected) \subseteq transaction)
    /\ pc' = "sanctioned_infos"
    /\ UNCHANGED <<chain, last_templates, loopvars, procvars, dbvars, envvars>>

\* The database rejects a row: a duplicate hash, or a missing foreign key.
\* process returns and leaves the queue and what it has written as they are.
InsertRejected ==
    /\ \/ pc = "block" /\ Stored(blk)
       \/ pc = "only_in_block"
             /\ ~(OnlyInBlock(blk, selected) \subseteq transaction)
       \/ pc = "only_in_template"
             /\ ~(OnlyInTemplate(blk, selected) \subseteq transaction)
    /\ Return(last_templates)
    /\ UNCHANGED <<chain, dbvars, envvars>>

Fault ==
    /\ pc \in FaultySteps
    /\ faults < MaxFaults
    /\ faults' = faults + 1
    /\ UNCHANGED <<chain, crashes>>

\* The first attempt to get a connection fails; there is one more.
ConnectionFails ==
    /\ pc = "connection"
    /\ Fault
    /\ pc' = "retry_connection"
    /\ UNCHANGED <<last_templates, loopvars, procvars, dbvars>>

\* A failed lookup leaves an empty set of addresses or UTXOs.
LookupFails ==
    /\ pc \in LookupSteps
    /\ Fault
    /\ pc' = IF pc = "addresses" THEN "utxos" ELSE "block"
    /\ UNCHANGED <<last_templates, loopvars, procvars, dbvars>>

\* insert_transactions inserts the new rows before it merges the tags of the
\* ones that were there, so it can fail with its rows committed.  There is no
\* INSERT of sanctioned UTXOs when the block creates none.
InsertFails ==
    /\ pc \in {"retry_connection", "block"} \cup InsertSteps
    /\ pc = "sanctioned_utxos" => NewSanctionedUtxos(blk) # {}
    /\ Fault
    /\ \/ UNCHANGED transaction
       \/ /\ pc = "transactions"
          /\ transaction' = transaction \cup Transactions(blk, selected)
    /\ Return(last_templates)
    /\ UNCHANGED <<block, only_in_block, only_in_template, sanctioned_info,
                   conflicting, sanctioned_utxo, debug>>

\* The daemon is killed and started again: only the database survives.
Restart ==
    /\ crashes < MaxCrashes
    /\ crashes' = crashes + 1
    /\ last_templates' = <<>>
    /\ NextRound
    /\ UNCHANGED <<chain, dbvars, faults>>

-----------------------------------------------------------------------------
Node == NodeConnect \/ NodeReorg

MainLoop ==
    \/ FirstTemplate \/ SameTip \/ TipChanged
    \/ GetBlock \/ GetBlockSkipped
    \/ GetBlockHash \/ GetMissedBlock \/ GetBlockTxidFee

Process ==
    \/ SelectTemplate \/ GetConnection
    \/ SanctionedAddresses \/ GetSanctionedUtxos
    \/ InsertBlock \/ InsertTransactions
    \/ InsertOnlyInBlock \/ InsertOnlyInTemplate
    \/ InsertSanctionedInfos \/ InsertConflicting
    \/ InsertSanctionedUtxos \/ InsertDebug
    \/ InsertRejected

Failure == RpcFails \/ ConnectionFails \/ LookupFails \/ InsertFails \/ Restart

Next == Node \/ MainLoop \/ Process \/ Failure

Spec == Init /\ [][Next]_vars

\* The daemon keeps running (process steps are never abandoned half way but
\* by the failures above), and a call that main_loop repeats without end
\* succeeds in the end.  Nothing is assumed of the node's blocks.
Fairness ==
    /\ WF_vars(FirstTemplate) /\ WF_vars(SameTip) /\ WF_vars(TipChanged)
    /\ WF_vars(Process)
    /\ SF_vars(GetBlock) /\ SF_vars(GetBlockSkipped)
    /\ SF_vars(GetBlockHash) /\ SF_vars(GetMissedBlock)
    /\ SF_vars(GetBlockTxidFee)

FairSpec == Spec /\ Fairness

-----------------------------------------------------------------------------
(* The tables as Record sees them                                          *)

ComparisonWith(b, t, sanctioned) ==
    [extra |-> OnlyInBlock(b, t), missing |-> OnlyInTemplate(b, t),
     sanctioned |-> sanctioned, conflicts |-> ConflictingTxs(b, t)]

\* Every comparison of a block with a template of the node.
NodeComparisons ==
    [b \in Blocks |->
        UNION { { ComparisonWith(b, [txs |-> txs], S) : S \in SUBSET (txs \ BlockTxs[b]) } :
                txs \in UNION { TemplateTxs[p] : p \in Blocks } }]

RecordedRow(b) ==
    IF Stored(b)
      THEN ComparisonWith(b, block[b].template, block[b].sanctioned_missing)
      ELSE [extra |-> {}, missing |-> {}, sanctioned |-> {}, conflicts |-> {}]

\* process stands between two INSERTs; sanctioned_utxo is not one of the tables.
Record == INSTANCE Record WITH
    SanctionedTxs <- Txs,
    Comparisons <- NodeComparisons,
    stored  <- { b \in Blocks : Stored(b) },
    row     <- [b \in Blocks |-> RecordedRow(b)],
    writing <- IF pc \in InsertSteps THEN {blk} ELSE {},
    next    <- IF pc = "sanctioned_utxos" THEN "debug"
               ELSE IF pc \in InsertSteps THEN pc ELSE "none"

-----------------------------------------------------------------------------
(* Properties                                                              *)

\* The types of the state.
TypeOK ==
    /\ chain \in Seq(Blocks) /\ chain # <<>>
    /\ pc \in {"get_block_template"} \cup RpcSteps \cup ProcessSteps
    /\ last_templates \in Seq(Template)
    /\ current \in Template /\ blk \in Blocks /\ missed \in BOOLEAN
    /\ selected \in Template /\ addresses \in BOOLEAN
    /\ utxos \subseteq Outpoints
    /\ block \in [Blocks -> Row]
    /\ transaction \subseteq Txs
    /\ only_in_block \in [Blocks -> SUBSET Txs]
    /\ only_in_template \in [Blocks -> SUBSET Txs]
    /\ sanctioned_info \in [Blocks -> SUBSET Txs]
    /\ conflicting \in [Blocks -> SUBSET Txs]
    /\ sanctioned_utxo \subseteq Outpoints
    /\ debug \subseteq Blocks
    /\ faults \in 0..MaxFaults
    /\ crashes \in 0..MaxCrashes

\* A block all of whose rows are stored is never processed again, whatever
\* fails, reorganizes or restarts: templates that follow it are for later
\* heights only.
NeverProcessedAgain == pc \in ProcessSteps => ~Complete(blk)

\* While the database works, insert_block never meets a hash that is already
\* there, across reorgs, restarts in the middle of process and RPC failures.
InsertedOnce == pc = "block" => ~Stored(blk)

\* While the database works, all templates of the queue are for the same next
\* block, so select_best_template_for_block only sees candidates for it.
OneParent ==
    \A i, j \in DOMAIN last_templates :
        last_templates[i].prev = last_templates[j].prev

\* main.rs:301: the queue stores up to the last MAX_OLD_TEMPLATES templates.
QueueBounded == Len(last_templates) <= MAX_OLD_TEMPLATES

\* The height column, which build_block takes from the template, is the height
\* of the block.
HeightCorrect ==
    \A b \in Blocks : Stored(b) => block[b].template.height = Height[b]

\* main.rs:396-399: a block is compared only with a template that builds on the
\* block's own parent.
PairedWithParent ==
    \A b \in Blocks : Stored(b) => block[b].template.prev = Parent[b]

\* Every transaction a conflicting_transactions row names has a row in table
\* transaction, though no foreign key demands it: the web server unwraps the
\* lookup of each of them.
ConflictsResolvable == \A b \in Blocks : conflicting[b] \subseteq transaction

\* The tables agree on a block that has its last rows, whichever attempts came
\* before: they hold the comparison of the block with the template its row
\* describes, and the sanctioned transactions counted as missing are listed.
CompleteRowsExact ==
    \A b \in Blocks : Complete(b) =>
        LET t == block[b].template
        IN  /\ Stored(b)
            /\ only_in_block[b] = OnlyInBlock(b, t)
            /\ only_in_template[b] = OnlyInTemplate(b, t)
            /\ conflicting[b] = ConflictingTxs(b, t)
            /\ block[b].sanctioned_missing
                  = only_in_template[b] \cap sanctioned_info[b]

RowsOf(b) == <<block[b], only_in_block[b], only_in_template[b],
               sanctioned_info[b], conflicting[b], Complete(b)>>

\* The attempt that inserts the block's row is the only one to write its other
\* rows: what a failure leaves unfinished is neither completed nor changed by
\* a later attempt.
OneAttemptWrites ==
    [][ \A b \in Blocks :
           Stored(b) /\ ~(pc \in InsertSteps /\ blk = b)
               => RowsOf(b)' = RowsOf(b) ]_vars

\* What main_loop and process do to the tables is what Record promises to their
\* readers, whatever fails: each block is written by one attempt, table after
\* table, referenced rows first, and never touched again.
ImplementsRecord == Record!Spec

\* When no more blocks come, the daemon ends up with templates on the tip.
WatchesTip ==
    <>[](last_templates # <<>> /\ Last(last_templates).prev = Tip)

\* A block is stored with a template on its own parent unless the round found
\* that blocks were skipped: however the chain reorganizes between the calls of
\* the round, and whatever earlier rounds left in the queue.
PairedUnlessSkipped ==
    [][ \A b \in Blocks :
           ~Stored(b) /\ Stored(b)' /\ ~missed
               => block'[b].template.prev = Parent[b] ]_vars

\* The block that follows the latest template is stored with all its rows,
\* however the RPC calls fail in between and however many blocks come at once,
\* unless the daemon is restarted or a reorg removes the block.
NextBlockRecorded ==
    \A b \in Blocks \ {Genesis}, n \in 0..MaxCrashes :
        (/\ pc = "get_block_template"
         /\ last_templates # <<>>
         /\ Last(last_templates).prev = Parent[b]
         /\ b \in Range(chain)
         /\ crashes = n)
        ~> (Complete(b) \/ crashes > n \/ b \notin Range(chain))
=============================================================================
