SPECIFICATION Spec
CONSTANTS
    Txs = {"t1", "t2"}
    Tags = {"Conflicting", "ToSanctioned", "SegWit", "Taproot"}
    Contextual = {"Conflicting", "ToSanctioned"}
    Intrinsic <- MCIntrinsic
    RetagContext = {"ToSanctioned"}
    OldTags = {{"SegWit"}}
    MaxBatches = 2
PROPERTIES TagsGrow
