CONSTANTS
    Pods = {a, b}
    Usage <- MCUsage
    Heavy = {}
    Hard = 1
    Deletable = {a, b}
    ForeignGated = {}
    NameReuse = FALSE
    FullResync = FALSE
    TotalOrder = FALSE
    MaxLag = 2
    MaxFaults = 0
SPECIFICATION Spec
INVARIANTS QuotaNeverExceeded
