SPECIFICATION FairSpec
CONSTANTS
    Namespaces <- MCNamespaces
    Pods <- MCPods
    NsOf <- MCNsOf
    Labels = {"a", "b"}
    Selectors <- MCSelectors
    Hards = {1, 2}
    NameReuse = FALSE
    InitHard = 1
    InitPods <- MCInitPods
    InitLabel <- MCInitLabel
    InitSelector <- MCInitSelector
    SumOver <- MCSumOver
    MaxChanges = 1
    MaxLag = 1
INVARIANTS TypeOK TotalIsSum 
PROPERTIES EachImplementsAdmission StatusSettles ClusterLockReleased CoveredPodsReleased
