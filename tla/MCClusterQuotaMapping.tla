----------------------- MODULE MCClusterQuotaMapping ------------------------
(* ClusterQuotaMapping for TLC: a selector matches one label.               *)
EXTENDS ClusterQuotaMapping

MCSelectors == {{l} : l \in Labels}
=============================================================================
