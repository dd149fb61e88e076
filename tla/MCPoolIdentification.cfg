SPECIFICATION FairSpec
CONSTANTS
    Blocks = {"p1", "p2", "p3"}
    Pools = {"A", "B"}
    PoolOf <- MCPoolOf
    BlockTime <- MCBlockTime
    MaxVersion = 2
    MaxFailures = 1
    MaxRestarts = 1
INVARIANTS TypeOK
PROPERTIES NamedNeverRenamed DatasetNeverOlder UnknownRetried MutexNeverKept
