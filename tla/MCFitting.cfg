CONSTANTS
    Pods = {a, b}
    Usage <- MCUsage
    Heavy = {}
    Hard = 1
    Deletable = {a, b}
    ForeignGated = {b}
    NameReuse = FALSE
    FullResync = TRUE
    TotalOrder = FALSE
    MaxLag = 1
    MaxFaults = 0
SPECIFICATION FairSpec
PROPERTIES FittingPodsReleased
