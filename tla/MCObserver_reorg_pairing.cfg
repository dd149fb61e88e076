SPECIFICATION Spec
CONSTANTS
    Blocks = {"g", "a1", "a2", "a3", "b1", "b2", "b3"}
    Genesis = "g"
    Parent <- MCParent
    Height <- MCHeight
    ReorgTargets <- Fork
    Txs = {"t1", "t2", "t3", "t4", "t5", "t6"}
    Outpoints = {"o1", "o2"}
    Inputs <- MCInputs
    SanctionedOutputs <- MCSanctionedOutputs
    Unbuildable = {}
    BlockTxs <- MCBlockTxs
    TemplateTxs <- OneTemplateEach
    MAX_OLD_TEMPLATES = 2
    FaultySteps = {}
    MaxFaults = 0
    MaxCrashes = 0
INVARIANTS PairedWithParent
