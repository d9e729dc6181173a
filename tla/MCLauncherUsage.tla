--------------------------- MODULE MCLauncherUsage ---------------------------
\* One machine that can be grown from one CPU to two, memory whose parts
\* disagree, and quotas with room for one small machine.
EXTENDS LauncherUsage

MCTopologies == {[cores |-> 1, sockets |-> 1, threads |-> 1], [cores |-> 0, sockets |-> 2, threads |-> 1]}
MCMemories == {[guest |-> 2, hugepages |-> 1, request |-> 3, limit |-> 1]}
MCLauncherPod == List([x \in {"pods", "requests.cpu", "limits.cpu", "requests.memory", "limits.memory"} |-> 1])
MCPlainPod == List([x \in {"pods", "requests.cpu"} |-> 1])
MCDeadline == [deadline |-> TRUE, bestEffort |-> FALSE, priority |-> FALSE, affinity |-> FALSE]
MCHard == [x \in {"pods", "requests.cpu", "requests.cpu/vmi", "requests.instances/vmi"} |-> 1]
\* Two migrations; a migration next to a pod the scopes leave out; a machine
\* that is created again.
MCScenarios ==
    {[config |-> "DedicatedVirtualResources", scopes |-> {}, hard |-> MCHard,
      plain |-> {}, pods |-> 3, vmis |-> 1, jobs |-> 2],
     [config |-> "VmiPodUsage", scopes |-> {"NotTerminating", "NotBestEffort"}, hard |-> MCHard,
      plain |-> {MCDeadline}, pods |-> 3, vmis |-> 1, jobs |-> 1],
     [config |-> "VirtualResources", scopes |-> {}, hard |-> MCHard,
      plain |-> {}, pods |-> 2, vmis |-> 2, jobs |-> 0]}

=============================================================================
