SPECIFICATION Spec
CONSTANTS
    Addresses = {"a1", "a2"}
    Outputs = {"o1"}
    AddressOf <- MCAddressOf
    MaxHeight = 2
    Creates <- MCCreates
    Spends <- MCSpends
    Lists <- OneList
    FailingSteps = {}
    MaxPublications = 0
    MaxRestarts = 0
INVARIANTS RecentSpendKnown
