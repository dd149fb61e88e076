SPECIFICATION WebSpec
CONSTANTS
    Blocks = {"b1", "b2", "b3"}
    Txs = {"t1", "t2"}
    SanctionedTxs = {"t1", "t2"}
    Comparisons <- MCComparisons
    BlockTime <- MCBlockTime
    Height <- MCHeight
    Pools = {"A"}
    Excluded <- MCExcluded
    MAX_BLOCKS_PER_PAGE = 1
    Threshold = 1
    Window = 2
    FirstName <- MCFirstName
    Gap <- MCGap
INVARIANTS WebTypeOK LookupsSucceed SidesWhole CompletePageExact MissingRepeatedly
    ListedPageExists CrawlComplete
