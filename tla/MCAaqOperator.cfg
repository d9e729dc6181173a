SPECIFICATION FairSpec
CONSTANTS
    Names = {"aaq"}
    Replicas = 2
    MaxUids = 2
    MaxFaults = 1
    MaxLag = 0
INVARIANTS
    OwnerHoldsConfig
    OwnerInv

    
    
CHECK_DEADLOCK FALSE
