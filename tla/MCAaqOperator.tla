--------------------------- MODULE MCAaqOperator ---------------------------
(* TLC instances of AaqOperator. *)
EXTENDS AaqOperator
============================================================================
