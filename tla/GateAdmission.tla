--------------------------- MODULE GateAdmission ----------------------------
(***************************************************************************)
(* What the job queue of a namespace promises.  Pods leave the AAQ gate in *)
(* recorded batches, one batch at a time: a batch is recorded before any   *)
(* of its pods is released, nothing else is released while it is open, and *)
(* it is closed only when none of its pods is behind a gate any more.      *)
(***************************************************************************)
EXTENDS Naturals

CONSTANT Pods

VARIABLES podState, batch, open

avars == <<podState, batch, open>>

Gated(s) == s \in {"held", "gated"}

\* The job queue is created in a namespace that may have pods.
Init ==
    /\ podState \in [Pods -> {"new", "held", "gated", "free", "gone"}]
    /\ batch = {}
    /\ open = FALSE

\* Users create pods behind the gate, drop foreign gates and delete pods.
UserStep(p) ==
    /\ \E s \in {"held", "gated", "gone"} :
          /\ <<podState[p], s>> \in {<<"new", "held">>, <<"new", "gated">>, <<"held", "gated">>,
                                     <<"held", "gone">>, <<"gated", "gone">>, <<"free", "gone">>}
          /\ podState' = [podState EXCEPT ![p] = s]
    /\ UNCHANGED <<batch, open>>

\* A batch of pods that have been behind the AAQ gate alone is recorded.
Record(S) ==
    /\ ~open
    /\ S # {} /\ \A p \in S : podState[p] \in {"gated", "free", "gone"}
    /\ batch' = S /\ open' = TRUE
    /\ UNCHANGED podState

Release(p) ==
    /\ open /\ p \in batch
    /\ podState[p] = "gated"
    /\ podState' = [podState EXCEPT ![p] = "free"]
    /\ UNCHANGED <<batch, open>>

Close ==
    /\ open /\ \A p \in batch : ~Gated(podState[p])
    /\ open' = FALSE
    /\ UNCHANGED <<podState, batch>>

Next ==
    \/ \E p \in Pods : UserStep(p) \/ Release(p)
    \/ \E S \in SUBSET Pods : Record(S)
    \/ Close

Spec == Init /\ [][Next]_avars

=============================================================================
