---------------------------- MODULE ClusterQuota ----------------------------
(***************************************************************************)
(* A cluster quota in its cluster: the ACRQ controller together with the   *)
(* informers, the mapper, the gate controller that admits pods against the *)
(* total, the ARQ controller that shares the job queue, and the users.     *)
(***************************************************************************)
EXTENDS AcrqController

-----------------------------------------------------------------------------
(* The gate controller, as a client of the batch protocol.                  *)

\* getArtificialRqsForGateController: the quota, if it is mapped and in the cache;
\* one without a limit in its status restricts nothing.
GetArtificialRqs(n) ==
    {q \in {Cached(acrq)} : n \in mapped /\ q.exists /\ q.totalHard # 0}

\* The gated pods those quotas let in, in any order.
CheckRequests(n) ==
    LET gated == GatedIn(n, Cached(pods))
        Fits(q, count) == q.used + count <= q.totalHard
    IN  {S \in SUBSET gated :
            /\ S # {} => \A q \in GetArtificialRqs(n) : Fits(q, Cardinality(S))
            /\ S # gated => \E q \in GetArtificialRqs(n) : ~Fits(q, Cardinality(S) + 1)}

\* aaqjqcProcessed
Locked(job) == job.arqLock \/ job.acrqLock

\* waitForReadyClusterQuotaNames: the mapper has seen the namespace's labels.  A
\* worker that waits too long comes back.
MappingKnown(n) == noted[n] = {label[n]}

\* execute on an unlocked job queue: the admitted pods are recorded with both
\* locks set, which brings the namespace to the ACRQ controller's workers.
GateRecord(n) ==
    /\ n \in gateQ /\ ~Locked(aaqjqc[n]) /\ MappingKnown(n)
    /\ \E S \in CheckRequests(n) :
          IF S = {}
          THEN gateQ' = gateQ \ {n} /\ UNCHANGED <<aaqjqc, nsQ, nw>>
          ELSE /\ WriteJobs(n, [queue |-> S, arqLock |-> TRUE, acrqLock |-> TRUE])
               /\ nsQ' = nsQ \cup {n}
               /\ nw' = [nw EXCEPT ![n].jobCurrent = FALSE]
    /\ UNCHANGED <<pods, acrq, label, mapper, pending, queued, bw, changes>>

\* releasePods: a recorded pod loses its gate while its batch is locked.
GateRelease(p) ==
    /\ LET job == aaqjqc[NsOf[p]] IN Locked(job) /\ p \in job.queue
    /\ Current(pods)[p] = "gated"
    /\ WritePod(p, "free")
    /\ UNCHANGED <<acrq, aaqjqc, label, mapper, queues, bw, nw, gateQ, changes>>

\* The ARQ controller clears its own lock in the same object.
ArqUnlock(n) ==
    /\ aaqjqc[n].arqLock /\ VerifyPodsWithOutSchedulingGates(aaqjqc[n].queue)
    /\ WriteJobs(n, [aaqjqc[n] EXCEPT !.arqLock = FALSE])
    /\ nsQ' = IF aaqjqc[n].acrqLock THEN nsQ \cup {n} ELSE nsQ
    /\ nw' = [nw EXCEPT ![n].jobCurrent = FALSE]
    /\ UNCHANGED <<pods, acrq, label, mapper, pending, queued, bw, changes>>

-----------------------------------------------------------------------------
(* The mapper: mappings follow the cached selector one namespace at a time, *)
(* and every change is told to the ACRQ controller (AddMapping,             *)
(* RemoveMapping).                                                          *)
SetMapping(n) ==
    /\ Cached(acrq).exists
    /\ (n \in mapped) # (label[n] \in Cached(acrq).selector)
    /\ mapped' = IF n \in mapped THEN mapped \ {n} ELSE mapped \cup {n}
    /\ AddWithData(Items({n}, FALSE))
    /\ UNCHANGED <<api, label, completed, noted, bw, nw, nsQ, gateQ, changes>>

\* completeQuota; a scan that ends early notes its selector all the same.
CompleteQuota ==
    /\ Cached(acrq).exists /\ completed # Cached(acrq).selector
    /\ completed' = Cached(acrq).selector
    /\ UNCHANGED <<api, label, mapped, noted, queues, bw, nw, gateQ, changes>>

\* completeNamespace: every quota listed has been compared with the labels.
CompleteNamespace(n) ==
    /\ ~MappingKnown(n)
    /\ Cached(acrq).exists => (n \in mapped) = (label[n] \in Cached(acrq).selector)
    /\ noted' = [noted EXCEPT ![n] = {label[n]}]
    /\ UNCHANGED <<api, label, mapped, completed, queues, bw, nw, gateQ, changes>>

\* removeQuota, once the quota's deletion has been seen.
RemoveQuota ==
    /\ ~Cached(acrq).exists /\ (mapped # {} \/ completed # {})
    /\ mapped' = {} /\ completed' = {}
    /\ AddWithData(Items(mapped, FALSE))
    /\ UNCHANGED <<api, label, noted, bw, nw, nsQ, gateQ, changes>>

-----------------------------------------------------------------------------
(* Informers.                                                               *)

\* addPod, deletePod: the namespace's slice is recomputed.  A pod that loses
\* its gate is not noticed here (updatePod wants both copies ungated).
PodEvent ==
    /\ Len(pods) > 1
    /\ pods' = Tail(pods)
    /\ LET touched == {p \in Pods : pods[1][p] # pods[2][p]}
           counted == {NsOf[p] : p \in {p \in touched : Present(pods[1][p]) # Present(pods[2][p])}}
       IN  /\ AddWithData(Items(counted \cap mapped, TRUE))
           /\ gateQ' = gateQ \cup {NsOf[p] : p \in {p \in touched : pods[2][p] = "gated"}}
    /\ UNCHANGED <<acrq, aaqjqc, label, mapper, bw, nw, nsQ, changes>>

\* addAcrq, updateAcrq of both controllers; deleteAcrq of the gate controller,
\* which asks the mapper for the namespaces before or after the mapper's own
\* handler has forgotten them.
AcrqEvent ==
    /\ Len(acrq) > 1
    /\ acrq' = Tail(acrq)
    /\ \/ /\ acrq[2].exists
          /\ AddWithData(Items(mapped, FALSE))
          /\ gateQ' = gateQ \cup mapped
          /\ UNCHANGED mapper
       \/ /\ ~acrq[2].exists
          /\ gateQ' = gateQ \cup mapped
          /\ UNCHANGED <<mapper, pending, queued>>
       \/ /\ ~acrq[2].exists
          /\ mapped' = {} /\ completed' = {} /\ UNCHANGED noted
          /\ AddWithData(Items(mapped, FALSE))
          /\ UNCHANGED gateQ
    /\ UNCHANGED <<pods, aaqjqc, label, bw, nw, nsQ, changes>>

\* Bound: the timers are slow; they fire when everything else has run down.
Quiet == ~queued /\ bw = BwIdle /\ UpToDate(pods) /\ UpToDate(acrq)
            /\ nsQ = {} /\ \A n \in Namespaces : nw[n] = NwIdle

\* Mutant: an update without a change is not passed on to the gate controller.
InformerResyncNoGate ==
    /\ Quiet
    /\ nsQ' = nsQ \cup {n \in Namespaces : aaqjqc[n].acrqLock}
    /\ AddWithData(Items({n \in mapped : Usage(n, Cached(pods)) > 0}, TRUE)
                     \cup (IF Cached(acrq).exists THEN Items(mapped, FALSE) ELSE {}))
    /\ UNCHANGED <<api, label, mapper, bw, nw, gateQ, changes>>

\* The informers' resync: every cached object is an update event.
InformerResync ==
    /\ Quiet
    /\ gateQ' = gateQ \cup {n \in Namespaces : GatedIn(n, Cached(pods)) # {}}
                      \cup (IF Cached(acrq).exists THEN mapped ELSE {})
    /\ nsQ' = nsQ \cup {n \in Namespaces : aaqjqc[n].acrqLock}
    /\ AddWithData(Items({n \in mapped : Usage(n, Cached(pods)) > 0}, TRUE)
                     \cup (IF Cached(acrq).exists THEN Items(mapped, FALSE) ELSE {}))
    /\ UNCHANGED <<api, label, mapper, bw, nw, changes>>

\* Mutant: the timer's work leaves slices alone that have the right limit.
CalculateAllUnforced ==
    /\ Quiet /\ Cached(acrq).exists
    /\ AddWithData(Items(mapped, FALSE))
    /\ UNCHANGED <<api, label, mapper, bw, nw, nsQ, gateQ, changes>>

\* calculateAll, every resyncPeriod: the mapped namespaces are forced; a quota
\* that has slices and no namespaces is queued without items.
CalculateAll ==
    /\ Quiet /\ Cached(acrq).exists
    /\ pending' = pending \cup Items(mapped, TRUE)
    /\ queued' = (\/ queued \/ mapped # {}
                  \/ \E n \in Namespaces : Cached(acrq).slices[n].loaded)
    /\ UNCHANGED <<api, label, mapper, bw, nw, nsQ, gateQ, changes>>

-----------------------------------------------------------------------------
(* Users.                                                                   *)
Change == changes < MaxChanges /\ changes' = changes + 1

Creatable(s) == s = "new" \/ (NameReuse /\ s = "gone")

CreatePod(p) ==
    /\ Change /\ Creatable(Current(pods)[p]) /\ WritePod(p, "gated")
    /\ UNCHANGED <<acrq, aaqjqc, label, mapper, queues, bw, nw, gateQ>>

DeletePod(p) ==
    /\ Change /\ Present(Current(pods)[p]) /\ WritePod(p, "gone")
    /\ UNCHANGED <<acrq, aaqjqc, label, mapper, queues, bw, nw, gateQ>>

Relabel(n, l) ==
    /\ Change /\ label[n] # l /\ label' = [label EXCEPT ![n] = l]
    /\ UNCHANGED <<api, mapper, queues, bw, nw, gateQ>>

UserWritesAcrq(q) ==
    /\ Change /\ Current(acrq).exists /\ q # Current(acrq)
    /\ WriteAcrq(q)
    /\ bw' = StaleBw /\ nw' = StaleNw
    /\ UNCHANGED <<pods, aaqjqc, label, mapper, queues, gateQ>>

ChangeQuota(h, s) == UserWritesAcrq([Current(acrq) EXCEPT !.hard = h, !.selector = s])
DeleteQuota == UserWritesAcrq(NoAcrq)

-----------------------------------------------------------------------------
(* Faults.                                                                  *)
\* The usage of some namespaces cannot be computed: their items are tried again.
BwItemsFail(S) == Change /\ S # {} /\ S \subseteq Items(mapped, TRUE) \cap pending /\ BwSync(S)

\* UpdateStatus fails: all items are tried again.
BwFails ==
    /\ Change /\ bw.pc = "write" /\ bw' = BwIdle
    /\ BwRetry(bw.items)
    /\ UNCHANGED <<api, label, mapper, nw, nsQ, gateQ>>

NsFails(n) ==
    /\ Change /\ nw[n].pc \in {"write", "unlock"}
    /\ Immediate(n)
    /\ UNCHANGED <<api, label, mapper, pending, queued, bw, gateQ>>

\* A restart, or another leader: queues, workers and mapper start empty, the
\* caches are listed afresh.
Restart ==
    /\ Change
    /\ pods' = <<Current(pods)>> /\ acrq' = <<Current(acrq)>>
    /\ mapped' = {} /\ completed' = {} /\ noted' = [n \in Namespaces |-> {}] /\ pending' = {} /\ queued' = FALSE
    /\ bw' = BwIdle /\ nw' = [n \in Namespaces |-> NwIdle]
    /\ nsQ' = {n \in Namespaces : aaqjqc[n].acrqLock}
    /\ gateQ' = {n \in Namespaces : GatedIn(n, Current(pods)) # {}}
    /\ UNCHANGED <<aaqjqc, label>>

-----------------------------------------------------------------------------
Bw == (BwSync({}) /\ UNCHANGED changes) \/ BwUpdate
Nw(n) == NsSync(n) \/ NsUpdate(n) \/ NsUnlock(n)
Gate(n) == GateRecord(n) \/ (\E p \in Pods : NsOf[p] = n /\ GateRelease(p))
Mapper ==
    \/ \E n \in Namespaces : SetMapping(n) \/ CompleteNamespace(n)
    \/ CompleteQuota \/ RemoveQuota
Users ==
    \/ \E p \in Pods : CreatePod(p) \/ DeletePod(p)
    \/ \E n \in Namespaces, l \in Labels : Relabel(n, l)
    \/ (\E h \in Hards, s \in Selectors : ChangeQuota(h, s)) \/ DeleteQuota
Faults ==
    \/ (\E S \in SUBSET WorkItems : BwItemsFail(S)) \/ BwFails
    \/ (\E n \in Namespaces : NsFails(n)) \/ Restart

Next ==
    \/ Bw \/ Mapper \/ PodEvent \/ AcrqEvent \/ InformerResync \/ CalculateAll
    \/ \E n \in Namespaces : Nw(n) \/ Gate(n) \/ ArqUnlock(n)
    \/ Users \/ Faults

Spec == Init /\ [][Next]_vars

\* Workers, informers and the mapper run on, the resync timers keep firing.
Fairness ==
    /\ WF_vars(Bw) /\ WF_vars(Mapper \/ PodEvent \/ AcrqEvent)
    /\ SF_vars(InformerResync) /\ SF_vars(CalculateAll)
    /\ \A n \in Namespaces :
          WF_vars(Nw(n)) /\ WF_vars(Gate(n)) /\ WF_vars(ArqUnlock(n))

FairSpec == Spec /\ Fairness

-----------------------------------------------------------------------------
UsedBy(q) == [n \in Namespaces |-> q.slices[n].used]

\* In each namespace the batch protocol is kept: the two controllers clear their
\* locks in one object, in any order, and a batch is closed by the one that comes
\* last, when none of its pods is behind the gate any more.
Admission(n) == INSTANCE GateAdmission
    WITH Pods <- {p \in Pods : NsOf[p] = n},
         podState <- [p \in {p \in Pods : NsOf[p] = n} |-> Current(pods)[p]],
         batch <- aaqjqc[n].queue, open <- Locked(aaqjqc[n])
EachImplementsAdmission ==
    /\ \A n \in Namespaces : Admission(n)!Init
    /\ [][\A n \in Namespaces : [Admission(n)!Next]_(Admission(n)!avars)]_vars

(* Why it is, as an inductive invariant when names are not reused.           *)
WasGated(s) == s # "new"
Released(s) == s \in {"free", "gone"}

\* What a version of a pod has been through, the API server's pod has too.
PodsForward ==
    \A i \in 1 .. Len(pods), p \in Pods :
        /\ WasGated(pods[i][p]) => WasGated(Current(pods)[p])
        /\ Released(pods[i][p]) => Released(Current(pods)[p])

JobsRecorded ==
    \A n \in Namespaces : \A p \in aaqjqc[n].queue : NsOf[p] = n /\ WasGated(Current(pods)[p])

\* A worker that may still clear the lock has the API server's job queue, and
\* has seen its pods released.
NwVerified ==
    \A n \in Namespaces : nw[n].pc # "idle" =>
        /\ nw[n].jobCurrent => nw[n].job = aaqjqc[n]
        /\ nw[n].job.acrqLock => \A p \in nw[n].job.queue : Released(Current(pods)[p])

BatchInv == PodsForward /\ JobsRecorded /\ NwVerified

\* The total is the sum of the slices in every version of the quota and in
\* every copy a worker holds: corrections made by concurrent workers, failed
\* writes and repeated items never make it drift.
TotalIsSum ==
    /\ \A i \in 1 .. Len(acrq) : acrq[i].used = SumOver[UsedBy(acrq[i])]
    /\ bw.quota.used = SumOver[UsedBy(bw.quota)]
    /\ \A n \in Namespaces : nw[n].quota.used = SumOver[UsedBy(nw[n].quota)]

\* Once users leave the cluster alone, the status says for good which
\* namespaces the quota covers, what their pods use and what the limit is.
Settled ==
    LET q == Current(acrq)
        covered == {n \in Namespaces : label[n] \in q.selector}
    IN  q.exists =>
          /\ \A n \in Namespaces :
                q.slices[n] = IF n \in covered
                              THEN [loaded |-> TRUE, used |-> Usage(n, Current(pods)), hard |-> q.hard]
                              ELSE NotLoaded
          /\ covered # {} => q.totalHard = q.hard
StatusSettles == <>[]Settled

\* While a namespace's cluster lock is set, the ACRQ controller has the namespace
\* queued, or a worker that read the lock: no failed check, conflict with either
\* of the other controllers, error or restart in between makes it forget it.
ClusterLockPursued ==
    \A n \in Namespaces : aaqjqc[n].acrqLock =>
        n \in nsQ \/ (nw[n].pc # "idle" /\ nw[n].job.acrqLock)

\* The cluster lock of a job queue is cleared in the end, though the ARQ
\* controller writes the same object, the quota may change or be deleted
\* meanwhile, and calls fail.
ClusterLockReleased ==
    \A n \in Namespaces : aaqjqc[n].acrqLock ~> ~aaqjqc[n].acrqLock

\* A pod behind the gate that the quota leaves room for, or that no quota
\* covers any more, does not stay there for ever.
CoveredPodsReleased ==
    <>[](\A p \in Pods : Current(pods)[p] = "gated" =>
            /\ Current(acrq).exists /\ label[NsOf[p]] \in Current(acrq).selector
            /\ Current(acrq).used + 1 > Current(acrq).hard)
=============================================================================
