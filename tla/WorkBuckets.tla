---------------------------- MODULE WorkBuckets -----------------------------
(***************************************************************************)
(* What a bucketing work queue promises to its users: data added for a key *)
(* is kept until a worker takes the key, the worker is handed everything   *)
(* added for it so far, and no two workers have the same key at a time.    *)
(***************************************************************************)
CONSTANTS Keys, Data

VARIABLES
    pending,   \* pending[k]: the data added for k and not taken yet
    busy,      \* the keys some worker is working on
    hand       \* hand[k]: the data k's worker was handed and works on

bvars == <<pending, busy, hand>>

Init ==
    /\ pending = [k \in Keys |-> {}]
    /\ busy = {}
    /\ hand = [k \in Keys |-> {}]

Add(k, D) ==
    /\ pending' = [pending EXCEPT ![k] = @ \cup D]
    /\ UNCHANGED <<busy, hand>>

Take(k) ==
    /\ k \notin busy
    /\ busy' = busy \cup {k}
    /\ hand' = [hand EXCEPT ![k] = pending[k]]
    /\ pending' = [pending EXCEPT ![k] = {}]

\* The worker is through with what it was handed, but for what it will retry.
Finish(k, retry) ==
    /\ k \in busy /\ retry \subseteq hand[k]
    /\ hand' = [hand EXCEPT ![k] = {}]
    /\ pending' = [pending EXCEPT ![k] = @ \cup retry]
    /\ UNCHANGED busy

Release(k) ==
    /\ k \in busy /\ hand[k] = {}
    /\ busy' = busy \ {k}
    /\ UNCHANGED <<pending, hand>>

Next ==
    \E k \in Keys :
        \/ \E D \in SUBSET Data : Add(k, D) \/ Finish(k, D)
        \/ Take(k) \/ Release(k)

Spec == Init /\ [][Next]_bvars

=============================================================================
