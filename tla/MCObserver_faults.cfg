SPECIFICATION Spec
CONSTANTS
    Blocks = {"g", "a1", "a2", "a3", "b1", "b2", "b3"}
    Genesis = "g"
    Parent <- MCParent
    Height <- MCHeight
    ReorgTargets <- Fork
    Txs = {"t1", "t2", "t3", "t4", "t5", "t6"}
    Outpoints = {"o1", "o2"}
    Inputs <- MCInputs
    SanctionedOutputs <- MCSanctionedOutputs
    Unbuildable = {"t5", "t6"}
    BlockTxs <- MCBlockTxs
    TemplateTxs <- MCTemplateTxs
    MAX_OLD_TEMPLATES = 2
    FaultySteps = {"connection", "retry_connection", "addresses", "utxos", "block",
                   "transactions", "only_in_block", "only_in_template",
                   "sanctioned_infos", "conflicting", "sanctioned_utxos", "debug"}
    MaxFaults = 2
    MaxCrashes = 1
INVARIANTS TypeOK NeverProcessedAgain ConflictsResolvable CompleteRowsExact
PROPERTIES OneAttemptWrites ImplementsRecord
