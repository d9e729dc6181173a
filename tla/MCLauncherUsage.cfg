SPECIFICATION FairSpec
CONSTANTS
    MaxPods = 3
    MaxMigrations = 2
    MaxChanges = 2
    MaxLag = 1
    Nodes = {"n1", "n2"}
    Topologies <- MCTopologies
    Memories <- MCMemories
    LauncherPod <- MCLauncherPod
    PlainPod <- MCPlainPod
    Scenarios <- MCScenarios
INVARIANTS TypeOK ChargedOnce
PROPERTIES UsageSettles MigrationAdmitted
CHECK_DEADLOCK FALSE
