SPECIFICATION FairSpec
CONSTANTS
    Names = {"aaq", "other"}
    Replicas = 1
    MaxUids = 2
    MaxFaults = 0
    MaxLag = 0
PROPERTY AnotherIsAnError
CHECK_DEADLOCK FALSE
