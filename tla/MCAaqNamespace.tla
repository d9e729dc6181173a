--------------------------- MODULE MCAaqNamespace ---------------------------
(* AaqNamespace for TLC: pods are model values, charged one or two units.   *)
EXTENDS AaqNamespace, FiniteSets, TLC

CONSTANT Heavy   \* pods charged two units; the others are charged one

\* As for requests of cpu or memory, or for "pods" when Heavy is empty.
MCUsage == [S \in SUBSET Pods |-> Cardinality(S) + Cardinality(S \cap Heavy)]

\* Sound where all pods are alike: none heavy, the same users' options for each.
MCSymmetry == Permutations(Pods)
=============================================================================
