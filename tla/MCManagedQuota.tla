--------------------------- MODULE MCManagedQuota ---------------------------
EXTENDS ManagedQuota

\* A quota on cpu alone, and one that also limits storage.
MCSpecs ==
    {[hard |-> [r \in {"cpu"} |-> 1], selector |-> "s1"],
     [hard |-> [r \in {"cpu", "requests.storage"} |-> 1], selector |-> "s1"],
     [hard |-> [r \in {"requests.storage"} |-> 2], selector |-> "s2"]}
=============================================================================
