SPECIFICATION FairSpec
CONSTANTS
    Specs <- MCSpecs
    Amounts = {0, 1}
    MaxChanges = 2
    MaxLag = 2
INVARIANTS TypeOK OthersKept ExactAtRest
PROPERTIES ManagedSettles UsageFollows
CHECK_DEADLOCK FALSE
