--------------------------- MODULE AcrqController ---------------------------
(***************************************************************************)
(* One ApplicationAwareClusterResourceQuota over several namespaces.  The  *)
(* ACRQ controller keeps the quota's status: a slice of usage per matching *)
(* namespace and the total, which it never recomputes but corrects by each *)
(* slice it replaces.  A worker of the bucketing queue syncs the           *)
(* namespaces gathered for the quota; a worker per namespace syncs that    *)
(* namespace and then clears the job queue's cluster lock.                 *)
(*                                                                         *)
(* The bucketing queue is the abstract one of WorkBuckets, the mapper what *)
(* ClusterQuotaMapping shows of it (mappings set one namespace at a time,  *)
(* the selector noted when a scan ends), the gate controller a client of   *)
(* the batch protocol of GateAdmission.  Pods and the quota are kept as    *)
(* the versions between the informer's cache (first) and the API server    *)
(* (last); workers read in one step and write in steps of their own.       *)
(***************************************************************************)
EXTENDS Naturals, Sequences, FiniteSets, Folds

CONSTANTS
    Namespaces, Pods,
    NsOf,          \* the namespace of each pod
    Labels,        \* what selectors look at in a namespace
    Selectors,     \* a selector is the set of the labels it matches
    Hards,         \* limits a user may set
    NameReuse,     \* whether a deleted pod's name may be created again
    InitPods, InitLabel, InitSelector, InitHard,
    SumOver,       \* SumOver[f]: the sum of f[n] over the namespaces
    MaxChanges,    \* bound: changes users make, failed calls and restarts
    MaxLag         \* bound: watch events of one kind on their way

Counts == 0 .. Cardinality(Pods)

ASSUME AcrqAssumption ==
    /\ IsFiniteSet(Pods) /\ NsOf \in [Pods -> Namespaces]
    /\ Selectors \subseteq SUBSET Labels /\ {} \notin Selectors
    /\ Hards \subseteq Nat /\ InitHard \in Hards
    /\ NameReuse \in BOOLEAN
    /\ InitPods \in [Pods -> {"new", "gated", "free", "gone"}]
    /\ InitSelector \in Selectors /\ InitLabel \in [Namespaces -> Labels]
    /\ MaxChanges \in Nat /\ MaxLag \in Nat \ {0}

\* What adding resource lists provides: sums add up, a list alone is its own sum.
ASSUME SumAssumption ==
    /\ IsFiniteSet(Namespaces)
    /\ SumOver \in [[Namespaces -> Counts] -> Nat]
    /\ \A n \in Namespaces, v \in Counts : SumOver[[m \in Namespaces |-> IF m = n THEN v ELSE 0]] = v
    /\ \A f, g, h \in [Namespaces -> Counts] :
          (\A n \in Namespaces : f[n] = g[n] + h[n]) => SumOver[f] = SumOver[g] + SumOver[h]

VARIABLES
    pods,       \* versions of the pods
    acrq,       \* versions of the cluster quota
    aaqjqc,     \* per namespace, its AAQJobQueueConfig
    label,      \* per namespace, its label
    mapped,     \* the mapper: namespaces mapped to the quota
    completed,  \* the mapper: completedQuotaToSelector, {} when there is none
    noted,      \* the mapper: completedNamespaceToLabels, {} when there is none
    pending,    \* work items gathered for the quota
    queued,     \* the quota's key is in the bucketing queue
    bw,         \* the worker on the quota's key
    nw,         \* per namespace, the nsQueue worker
    nsQ,        \* namespaces in the ACRQ controller's nsQueue
    gateQ,      \* namespaces in the gate controller's nsQueue
    changes

api == <<pods, acrq, aaqjqc>>
mapper == <<mapped, completed, noted>>
queues == <<pending, queued, nsQ>>
vars == <<pods, acrq, aaqjqc, label, mapped, completed, noted, pending, queued, bw, nw,
          nsQ, gateQ, changes>>

Cached(versions) == versions[1]
Current(versions) == versions[Len(versions)]
UpToDate(versions) == Len(versions) = 1
HasRoom(versions) == Len(versions) <= MaxLag

-----------------------------------------------------------------------------
(* The quota: spec.quota.hard, spec.selector, status.namespaces and         *)
(* status.total.  Hard is 0 where status has none yet.                      *)
Slices == [loaded : BOOLEAN, used : Counts, hard : Hards \cup {0}]
NotLoaded == [loaded |-> FALSE, used |-> 0, hard |-> 0]
AcrqObjects == [exists : BOOLEAN, hard : Hards \cup {0}, selector : Selectors \cup {{}},
                slices : [Namespaces -> Slices], used : Nat, totalHard : Hards \cup {0}]
NewAcrq(h, s) == [exists |-> TRUE, hard |-> h, selector |-> s,
                  slices |-> [n \in Namespaces |-> NotLoaded], used |-> 0, totalHard |-> 0]
NoAcrq == [NewAcrq(0, {}) EXCEPT !.exists = FALSE]

WorkItems == [ns : Namespaces, force : BOOLEAN]
Items(S, f) == {[ns |-> n, force |-> f] : n \in S}

JobQueues == [queue : SUBSET Pods, arqLock : BOOLEAN, acrqLock : BOOLEAN]
NoJobs == [queue |-> {}, arqLock |-> FALSE, acrqLock |-> FALSE]

\* The worker on the quota's key between its reads and its write: the items it
\* was handed, those to try again, the new status, and whether the API server
\* still has the version it started from.
BwStates == [pc : {"idle", "write"}, quota : AcrqObjects, current : BOOLEAN,
             items : SUBSET WorkItems, retry : SUBSET WorkItems]
BwIdle == [pc |-> "idle", quota |-> NoAcrq, current |-> FALSE, items |-> {}, retry |-> {}]

\* A namespace's worker: its copy of the job queue, the new status it has yet
\* to write, and whether either is still current.
NwStates == [pc : {"idle", "write", "unlock"}, job : JobQueues, jobCurrent : BOOLEAN,
             quota : AcrqObjects, current : BOOLEAN]
NwIdle == [pc |-> "idle", job |-> NoJobs, jobCurrent |-> FALSE, quota |-> NoAcrq, current |-> FALSE]

PodStates == {"new", "gated", "free", "gone"}
Present(s) == s \in {"gated", "free"}
GatedIn(n, snapshot) == {p \in Pods : NsOf[p] = n /\ snapshot[p] = "gated"}

Usage(n, snapshot) == Cardinality({p \in Pods : NsOf[p] = n /\ snapshot[p] = "free"})

TypeOK ==
    /\ pods \in Seq([Pods -> PodStates]) /\ pods # <<>>
    /\ acrq \in Seq(AcrqObjects) /\ acrq # <<>>
    /\ aaqjqc \in [Namespaces -> JobQueues]
    /\ label \in [Namespaces -> Labels]
    /\ mapped \subseteq Namespaces /\ completed \in Selectors \cup {{}}
    /\ noted \in [Namespaces -> SUBSET Labels]
    /\ pending \subseteq WorkItems /\ queued \in BOOLEAN
    /\ bw \in BwStates /\ nw \in [Namespaces -> NwStates]
    /\ nsQ \subseteq Namespaces /\ gateQ \subseteq Namespaces
    /\ changes \in Nat

\* A cluster quota nobody has synced yet, with pods running or behind the gate.
Init ==
    /\ pods = <<InitPods>>
    /\ acrq = <<NewAcrq(InitHard, InitSelector)>>
    /\ aaqjqc = [n \in Namespaces |-> NoJobs]
    /\ label = InitLabel
    /\ mapped = {} /\ completed = {} /\ noted = [n \in Namespaces |-> {}]
    /\ pending = {} /\ queued = FALSE
    /\ bw = BwIdle /\ nw = [n \in Namespaces |-> NwIdle]
    /\ nsQ = {} /\ gateQ = {n \in Namespaces : GatedIn(n, InitPods) # {}}
    /\ changes = 0

-----------------------------------------------------------------------------
\* A write to the quota makes the copies of the workers stale.
StaleBw == [bw EXCEPT !.current = FALSE]
StaleNw == [n \in Namespaces |-> [nw[n] EXCEPT !.current = FALSE]]

WriteAcrq(q) == HasRoom(acrq) /\ acrq' = Append(acrq, q)
\* A write to a job queue; the gate controller looks at the namespace again.
WriteJobs(n, j) == aaqjqc' = [aaqjqc EXCEPT ![n] = j] /\ gateQ' = gateQ \cup {n}
WritePod(p, s) == HasRoom(pods) /\ pods' = Append(pods, [Current(pods) EXCEPT ![p] = s])

\* queue.AddWithData; without items nothing is queued by calculate and
\* forceCalculation.
AddWithData(D) ==
    /\ pending' = pending \cup D
    /\ queued' = (queued \/ D # {})

\* Mutant: the slice is subtracted and stays in the status.
RemoveSliceKept(q, n) == [q EXCEPT !.used = @ - q.slices[n].used]

\* A namespace that is no longer mapped is taken out of status and total.
RemoveSlice(q, n) ==
    [q EXCEPT !.used = @ - q.slices[n].used, !.slices[n] = NotLoaded]

\* Mutant: the old slice is not taken off the total.
SyncItemAdds(q, matching, item, usage) ==
    LET n == item.ns IN
    IF n \notin matching THEN RemoveSlice(q, n)
    ELSE IF ~item.force /\ q.slices[n].loaded /\ q.slices[n].hard = q.hard THEN q
    ELSE [q EXCEPT !.used = @ + usage,
                   !.slices[n] = [loaded |-> TRUE, used |-> usage, hard |-> q.hard]]

\* One work item of syncQuotaForNamespaces on the copy of the quota.
SyncItem(q, matching, item, usage) ==
    LET n == item.ns IN
    IF n \notin matching THEN RemoveSlice(q, n)
    ELSE IF ~item.force /\ q.slices[n].loaded /\ q.slices[n].hard = q.hard THEN q
    ELSE [q EXCEPT !.used = (@ - q.slices[n].used) + usage,
                   !.slices[n] = [loaded |-> TRUE, used |-> usage, hard |-> q.hard]]

\* The end of syncQuotaForNamespaces: slices that no longer match go, and the
\* total's limit is the quota's.
FinishSync(q, matching) ==
    [q EXCEPT !.slices = [n \in Namespaces |-> IF n \in matching THEN q.slices[n] ELSE NotLoaded],
              !.used = @ - SumOver[[n \in Namespaces |->
                                      IF n \in matching THEN 0 ELSE q.slices[n].used]],
              !.totalHard = q.hard]

-----------------------------------------------------------------------------
(* The worker on the quota's key.                                           *)

\* AddWithDataRateLimited: a key that failed comes back, with or without items.
BwRetry(items) == pending' = pending \cup items /\ queued' = TRUE

\* syncQuotaForNamespaces on the cached quota, item by item.
Synced(matching, items) ==
    LET Step(i, q) == SyncItem(q, matching, i, Usage(i.ns, Cached(pods)))
        Choose(S) == CHOOSE i \in S : TRUE
    IN  FinishSync(MapThenFoldSet(Step, Cached(acrq), LAMBDA i : i, Choose, items), matching)

\* GetNamespacesFor: a mapping for another selector is an error.
MappingReady == completed = Cached(acrq).selector

\* The worker takes the quota's items.  A quota that is gone is forgotten, a
\* mapping that is not ready means all items are tried again, a status that
\* does not change is not written.  The items of S fail.
BwSync(S) ==
    /\ bw.pc = "idle" /\ queued
    /\ LET q == Synced(mapped, pending \ S) IN
       IF ~Cached(acrq).exists
       THEN pending' = {} /\ queued' = FALSE /\ UNCHANGED bw
       ELSE IF ~MappingReady
       THEN UNCHANGED <<pending, queued, bw>>
       ELSE IF q = Cached(acrq)
       THEN pending' = S /\ queued' = (S # {}) /\ UNCHANGED bw
       ELSE /\ pending' = {} /\ queued' = FALSE
            /\ bw' = [pc |-> "write", quota |-> q, current |-> UpToDate(acrq),
                      items |-> pending, retry |-> S]
    /\ UNCHANGED <<api, label, mapper, nw, nsQ, gateQ>>

\* UpdateStatus, or a conflict: all items are tried again.
BwUpdate ==
    /\ bw.pc = "write" /\ bw' = BwIdle
    /\ \/ /\ bw.current
          /\ WriteAcrq(bw.quota)
          /\ nw' = StaleNw
          /\ IF bw.retry = {} THEN UNCHANGED <<pending, queued>> ELSE BwRetry(bw.retry)
       \/ /\ ~bw.current
          /\ BwRetry(bw.items)
          /\ UNCHANGED <<acrq, nw>>
    /\ UNCHANGED <<pods, aaqjqc, label, mapper, nsQ, gateQ, changes>>

-----------------------------------------------------------------------------
(* The worker on a namespace.                                               *)
NwStep(n, w) == nw' = [nw EXCEPT ![n] = w]
Immediate(n) == NwStep(n, NwIdle) /\ nsQ' = nsQ \cup {n}

\* Mutant: the gates of recorded pods are not looked at.
VerifySkipped(names) == TRUE

VerifyPodsWithOutSchedulingGates(names) ==
    LET snapshot == IF \A p \in names : Present(Cached(pods)[p]) THEN Cached(pods) ELSE Current(pods)
    IN  \A p \in names : snapshot[p] # "gated"

\* execute up to its first write: a locked job queue has to wait for its pods;
\* the quota mapped to the namespace is synced with a forced item for it.  A
\* quota that is not in the cache, or a mapping that is not ready, is an error
\* and the namespace comes back.
NsSync(n) ==
    /\ nw[n].pc = "idle" /\ n \in nsQ
    /\ LET job == aaqjqc[n]
           next == [NwIdle EXCEPT !.job = job, !.jobCurrent = TRUE]
           q == Synced(mapped, {[ns |-> n, force |-> TRUE]})
       IN  /\ job.acrqLock => VerifyPodsWithOutSchedulingGates(job.queue)
           /\ n \in mapped => Cached(acrq).exists /\ MappingReady
           /\ NwStep(n, IF n \in mapped /\ q # Cached(acrq)
                        THEN [next EXCEPT !.pc = "write", !.quota = q, !.current = UpToDate(acrq)]
                        ELSE [next EXCEPT !.pc = "unlock"])
    /\ nsQ' = nsQ \ {n}
    /\ UNCHANGED <<api, label, mapper, pending, queued, bw, gateQ, changes>>

\* Mutant: after a conflict the quota's own key, not the namespace, is left to try again.
NsUpdateForget(n) ==
    /\ nw[n].pc = "write"
    /\ IF nw[n].current
       THEN /\ WriteAcrq(nw[n].quota)
            /\ nw' = [StaleNw EXCEPT ![n] = [nw[n] EXCEPT !.pc = "unlock", !.quota = NoAcrq,
                                                          !.current = FALSE]]
            /\ bw' = StaleBw
            /\ UNCHANGED <<pending, queued>>
       ELSE /\ NwStep(n, NwIdle)
            /\ BwRetry({[ns |-> n, force |-> TRUE]})
            /\ UNCHANGED <<acrq, bw>>
    /\ UNCHANGED <<pods, aaqjqc, label, mapper, nsQ, gateQ, changes>>

\* Its UpdateStatus, or a conflict.
NsUpdate(n) ==
    /\ nw[n].pc = "write"
    /\ IF nw[n].current
       THEN /\ WriteAcrq(nw[n].quota)
            /\ nw' = [StaleNw EXCEPT ![n] = [nw[n] EXCEPT !.pc = "unlock", !.quota = NoAcrq,
                                                          !.current = FALSE]]
            /\ bw' = StaleBw
            /\ UNCHANGED nsQ
       ELSE /\ Immediate(n)
            /\ UNCHANGED <<acrq, bw>>
    /\ UNCHANGED <<pods, aaqjqc, label, mapper, pending, queued, gateQ, changes>>

\* Mutant: the other controller's lock is cleared.
NsUnlockOther(n) ==
    /\ nw[n].pc = "unlock"
    /\ NwStep(n, NwIdle)
    /\ IF nw[n].job.acrqLock /\ nw[n].jobCurrent
       THEN WriteJobs(n, [nw[n].job EXCEPT !.arqLock = FALSE])
       ELSE UNCHANGED <<aaqjqc, gateQ>>
    /\ UNCHANGED <<pods, acrq, label, mapper, queues, bw, changes>>

\* The end of execute: the cluster lock of the copy is cleared, or a conflict.
NsUnlock(n) ==
    /\ nw[n].pc = "unlock"
    /\ \/ /\ ~nw[n].job.acrqLock
          /\ NwStep(n, NwIdle)
          /\ UNCHANGED <<aaqjqc, nsQ, gateQ>>
       \/ /\ nw[n].job.acrqLock /\ nw[n].jobCurrent
          /\ WriteJobs(n, [nw[n].job EXCEPT !.acrqLock = FALSE])
          /\ NwStep(n, NwIdle)
          /\ UNCHANGED nsQ
       \/ /\ nw[n].job.acrqLock /\ ~nw[n].jobCurrent
          /\ Immediate(n)
          /\ UNCHANGED <<aaqjqc, gateQ>>
    /\ UNCHANGED <<pods, acrq, label, mapper, pending, queued, bw, changes>>
=============================================================================
