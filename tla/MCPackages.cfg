SPECIFICATION Spec
CONSTANTS
    MaxTxs = 5
    Outside = {x}
INVARIANTS PackagesPartition PackagesConnected PackagesMaximal
CHECK_DEADLOCK FALSE
