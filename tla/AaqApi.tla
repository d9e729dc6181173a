------------------------------- MODULE AaqApi -------------------------------
(***************************************************************************)
(* The shared state of one namespace: the three kinds of API objects the   *)
(* controllers coordinate through, as the API server and as the shared     *)
(* informers see them, and the state of the controllers' workers and       *)
(* queues.  The operations of each controller are in a module of its own.  *)
(*                                                                         *)
(* A kind is kept as the sequence of its versions that some cache may      *)
(* still need: the first is what the informer cache holds, the last is     *)
(* what the API server holds, and the ones between are watch events on     *)
(* their way.  A copy taken from the cache can be written back iff the     *)
(* API server has not changed since (resourceVersion): an object read      *)
(* while its kind has one version is current, and every write makes the    *)
(* copies others hold stale.                                               *)
(***************************************************************************)
EXTENDS Naturals, Sequences

CONSTANTS
    Pods,          \* the pod names that may appear in the namespace
    Usage,         \* Usage[S]: what the evaluator charges for the ungated pods S
    ForeignGated,  \* the pods users create with a scheduling gate of their own as well
    Deletable,     \* the pods users may delete
    Hard,          \* the ARQ's hard limit
    NameReuse,     \* whether a deleted pod's name may be created again
    FullResync,    \* whether resyncPeriod > 0: enqueueAll runs periodically
    TotalOrder,    \* whether informers see the writes of all kinds in commit order
    MaxLag,        \* bound: watch events of one kind on their way
    MaxFaults      \* bound: API errors and controller restarts

\* What the evaluator's sum over pods provides: usage adds up, pods are not free.
ASSUME UsageAssumption ==
    /\ Usage \in [SUBSET Pods -> Nat]
    /\ \A S, T \in SUBSET Pods : S \cap T = {} => Usage[S \cup T] = Usage[S] + Usage[T]
    /\ \A p \in Pods : Usage[{p}] > 0
ASSUME ConstantsAssumption ==
    /\ ForeignGated \subseteq Pods /\ Deletable \subseteq Pods
    /\ Hard \in Nat
    /\ NameReuse \in BOOLEAN
    /\ FullResync \in BOOLEAN
    /\ TotalOrder \in BOOLEAN
    /\ MaxLag \in Nat \ {0}
    /\ MaxFaults \in Nat

VARIABLES
    pods,      \* versions of the namespace's pods
    arq,       \* versions of the ARQ's status.used
    aaqjqc,    \* versions of the AAQJobQueueConfig
    order,     \* kinds of the undelivered events, oldest first (TotalOrder only)
    gate,      \* the gate controller's worker on this namespace
    gateQ,     \* the namespace is in the gate controller's nsQueue
    nsw,       \* the ARQ controller's nsQueue worker on this namespace
    nsQ,       \* the namespace is in the ARQ controller's nsQueue
    keyw,      \* the ARQ controller's arqQueue worker on the ARQ
    arqQ,      \* the ARQ's key is in the arqQueue
    faults     \* API errors and restarts so far

api == <<pods, arq, aaqjqc, order>>
vars == <<pods, arq, aaqjqc, order, gate, gateQ, nsw, nsQ, keyw, arqQ, faults>>

-----------------------------------------------------------------------------
(* A pod name's life: never used; created with the AAQ gate and a foreign   *)
(* one; with the AAQ gate only; ungated; deleted.                           *)
PodStates == {"new", "held", "gated", "free", "gone"}

\* len(pod.Spec.SchedulingGates) > 0
HasGates(s) == s \in {"held", "gated"}

\* exactly one scheduling gate, and it is util.AAQGate
OnlyAAQGate(s) == s = "gated"

Present(s) == s \in {"held", "gated", "free"}

\* The pods the evaluator charges for in a snapshot: the ungated ones.
Charged(snapshot) == {p \in Pods : snapshot[p] = "free"}

\* An AAQJobQueueConfig: status.podsInJobQueue and the ARQ controller's lock.
JobQueues == [exists : BOOLEAN, queue : SUBSET Pods, locked : BOOLEAN]
NoJobQueue == [exists |-> FALSE, queue |-> {}, locked |-> FALSE]

-----------------------------------------------------------------------------
Cached(versions) == versions[1]
Current(versions) == versions[Len(versions)]
UpToDate(versions) == Len(versions) = 1
HasRoom(versions) == Len(versions) <= MaxLag

\* The cached copy of pod p has the API server's resourceVersion.
PodUpToDate(p) == \A i \in 1 .. Len(pods) : pods[i][p] = Cached(pods)[p]

\* The API server commits a write to a kind.
Commit(kind) == order' = IF TotalOrder THEN Append(order, kind) ELSE order

WritePod(p, s) ==
    /\ HasRoom(pods)
    /\ pods' = Append(pods, [Current(pods) EXCEPT ![p] = s])
    /\ Commit("pods")

WriteArq(used) ==
    /\ HasRoom(arq)
    /\ arq' = Append(arq, used)
    /\ Commit("arq")

WriteAaqjqc(queue, locked) ==
    /\ HasRoom(aaqjqc)
    /\ aaqjqc' = Append(aaqjqc, [exists |-> TRUE, queue |-> queue, locked |-> locked])
    /\ Commit("aaqjqc")

-----------------------------------------------------------------------------
(* Workers.  "current" and "arqCurrent" say whether the copy of the         *)
(* aaqjqc or of the ARQ the worker holds is the API server's latest.        *)
GateStates == [pc : {"idle", "quota", "admit", "record", "release"}, current : BOOLEAN,
               used : Nat, todo : SUBSET Pods, again : BOOLEAN]
GateIdle == [pc |-> "idle", current |-> FALSE, used |-> 0, todo |-> {}, again |-> FALSE]

NsStates == [pc : {"idle", "list", "sync", "write", "unlock"}, locked : BOOLEAN, queue : SUBSET Pods,
             current : BOOLEAN, used : Nat, arqCurrent : BOOLEAN]
NsIdle == [pc |-> "idle", locked |-> FALSE, queue |-> {}, current |-> FALSE,
           used |-> 0, arqCurrent |-> FALSE]

KeyStates == [pc : {"idle", "sync", "write"}, used : Nat, arqCurrent : BOOLEAN]
KeyIdle == [pc |-> "idle", used |-> 0, arqCurrent |-> FALSE]

=============================================================================
