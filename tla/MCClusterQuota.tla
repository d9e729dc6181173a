--------------------------- MODULE MCClusterQuota ---------------------------
EXTENDS ClusterQuota

\* p1 waits for the quota that p2, in the other namespace, uses up; p3 may come.
MCNamespaces == {"n1", "n2"}
MCPods == {"p1", "p2", "p3"}
MCNsOf == [p \in MCPods |-> IF p = "p1" THEN "n1" ELSE "n2"]
MCInitPods == [p \in MCPods |-> CASE p = "p1" -> "gated" [] p = "p2" -> "free" [] p = "p3" -> "new"]
MCInitLabel == [n \in MCNamespaces |-> "a"]
MCInitSelector == {"a"}
MCSelectors == {{"a"}, {"b"}}
MCSumOver == [f \in [MCNamespaces -> 0 .. Cardinality(MCPods)] |->
                 f["n1"] + f["n2"]]
=============================================================================
