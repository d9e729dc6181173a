CONSTANTS
    Pods = {a, b, c}
    Usage <- MCUsage
    Heavy = {c}
    Hard = 2
    Deletable = {}
    ForeignGated = {b}
    NameReuse = FALSE
    FullResync = TRUE
    TotalOrder = TRUE
    MaxLag = 2
    MaxFaults = 1
SPECIFICATION Spec
INVARIANTS QuotaNeverExceeded QuotaInv
