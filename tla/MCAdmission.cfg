CONSTANTS
    Pods = {a, b}
    Usage <- MCUsage
    Heavy = {}
    Hard = 1
    Deletable = {a, b}
    ForeignGated = {b}
    NameReuse = FALSE
    FullResync = FALSE
    TotalOrder = FALSE
    MaxLag = 1
    MaxFaults = 1
SPECIFICATION FairSpec
INVARIANTS AdmissionInv BatchPursued FittingPodNoticed
PROPERTIES ImplementsAdmission LockReleased
