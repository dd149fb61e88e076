SPECIFICATION FairSpec
CONSTANTS
    Addresses = {"a1", "a2"}
    Outputs = {"o1"}
    AddressOf <- MCAddressOf
    MaxHeight = 2
    Creates <- MCCreates
    Spends <- MCSpends
    Lists <- MCLists
    FailingSteps <- AllSteps
    MaxPublications = 1
    MaxRestarts = 1
INVARIANTS TypeOK TableExact ScannedSpendFlagged
PROPERTIES TablesConverge
