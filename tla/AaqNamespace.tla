---------------------------- MODULE AaqNamespace ----------------------------
(***************************************************************************)
(* One namespace with one ApplicationAwareResourceQuota: the gate          *)
(* controller and the ARQ controller, the informers that feed both, the    *)
(* users that create and delete pods, and restarts of the controller.      *)
(***************************************************************************)
EXTENDS AaqGateController, ArqController

TypeOK ==
    /\ pods \in Seq([Pods -> PodStates]) /\ Len(pods) >= 1
    /\ arq \in Seq(Nat) /\ Len(arq) >= 1
    /\ aaqjqc \in Seq(JobQueues) /\ Len(aaqjqc) >= 1
    /\ order \in Seq({"pods", "arq", "aaqjqc"})
    /\ gate \in GateStates
    /\ nsw \in NsStates
    /\ keyw \in KeyStates
    /\ gateQ \in BOOLEAN /\ nsQ \in BOOLEAN /\ arqQ \in BOOLEAN
    /\ faults \in Nat

\* An empty namespace whose quota has been synced.
Init ==
    /\ pods = <<[p \in Pods |-> "new"]>>
    /\ arq = <<0>>
    /\ aaqjqc = <<NoJobQueue>>
    /\ order = <<>>
    /\ gate = GateIdle /\ gateQ = TRUE
    /\ nsw = NsIdle /\ nsQ = FALSE
    /\ keyw = KeyIdle /\ arqQ = FALSE
    /\ faults = 0

-----------------------------------------------------------------------------
(* Users.  The mutating webhook puts the AAQ gate on every new pod.         *)
Creatable(s) == s = "new" \/ (NameReuse /\ s = "gone")

UserWrites(p, s) ==
    /\ WritePod(p, s)
    /\ UNCHANGED <<arq, aaqjqc, gate, gateQ, nsw, nsQ, keyw, arqQ, faults>>

CreatePod(p) ==
    /\ Creatable(Current(pods)[p])
    /\ UserWrites(p, IF p \in ForeignGated THEN "held" ELSE "gated")

RemoveForeignGate(p) == Current(pods)[p] = "held" /\ UserWrites(p, "gated")

DeletePod(p) ==
    /\ p \in Deletable /\ Present(Current(pods)[p])
    /\ UserWrites(p, "gone")

-----------------------------------------------------------------------------
(* Informers: the next event of a kind reaches the cache and the handlers.  *)
Next1(kind, versions) ==
    /\ Len(versions) > 1
    /\ IF TotalOrder THEN order # <<>> /\ Head(order) = kind /\ order' = Tail(order)
                     ELSE UNCHANGED order

PodEvent ==
    /\ Next1("pods", pods)
    /\ pods' = Tail(pods)
    /\ gateQ' = (gateQ \/ GateWantsPods(pods[1], pods[2]))
    /\ nsQ' = (nsQ \/ NsWantsPods(pods[1], pods[2]))
    /\ UNCHANGED <<arq, aaqjqc, gate, nsw, keyw, arqQ, faults>>

\* Mutant: the gate controller does not look again when a quota's status changes.
ArqEventIgnored ==
    /\ Next1("arq", arq)
    /\ arq' = Tail(arq)
    /\ UNCHANGED <<pods, aaqjqc, gate, gateQ, nsw, nsQ, keyw, arqQ, faults>>

\* The gate controller's updateArq enqueues the namespace; the ARQ
\* controller's ignores updates that leave spec.hard alone.
ArqEvent ==
    /\ Next1("arq", arq)
    /\ arq' = Tail(arq)
    /\ gateQ' = TRUE
    /\ UNCHANGED <<pods, aaqjqc, gate, nsw, nsQ, keyw, arqQ, faults>>

AaqjqcEvent ==
    /\ Next1("aaqjqc", aaqjqc)
    /\ aaqjqc' = Tail(aaqjqc)
    /\ gateQ' = (gateQ \/ GateWantsAaqjqc(aaqjqc[1]))
    /\ nsQ' = (nsQ \/ NsWantsAaqjqc(aaqjqc[2]))
    /\ UNCHANGED <<pods, arq, gate, nsw, keyw, arqQ, faults>>

\* The informers' resync: every cached object is an update event, for the gate
\* controller the ARQ and the gated pods, for the ARQ controller ungated pods
\* and a locked job queue.
InformerResync ==
    /\ gateQ' = TRUE
    /\ nsQ' = (nsQ \/ Charged(Cached(pods)) # {} \/ NsWantsAaqjqc(Cached(aaqjqc)))
    /\ UNCHANGED <<api, gate, nsw, keyw, arqQ, faults>>

\* The process restarts or leadership moves: workers and queues are lost, the
\* caches are listed afresh and every object is an add event.
Restart ==
    /\ faults < MaxFaults
    /\ faults' = faults + 1
    /\ pods' = <<Current(pods)>> /\ arq' = <<Current(arq)>> /\ aaqjqc' = <<Current(aaqjqc)>>
    /\ order' = <<>>
    /\ gate' = GateIdle /\ nsw' = NsIdle /\ keyw' = KeyIdle
    /\ gateQ' = TRUE
    /\ nsQ' = (\/ \E p \in Pods : Present(Current(pods)[p])
               \/ NsWantsAaqjqc(Current(aaqjqc)))
    /\ arqQ' = TRUE

-----------------------------------------------------------------------------
Gate == GetAaqjqc \/ GetArtificialRqs \/ AdmitPods \/ UpdateAaqjqc
        \/ (\E p \in Pods : ReleasePod(p)) \/ GateReturn
NsWorker == GetLockedQueue \/ ListArqs \/ SyncResourceQuota \/ UpdateArqStatus \/ Unlock
KeyWorker == SyncFromKey \/ SyncKeyQuota \/ UpdateArqStatusFromKey
Informers == PodEvent \/ ArqEvent \/ AaqjqcEvent \/ InformerResync
Users == \E p \in Pods : CreatePod(p) \/ RemoveForeignGate(p) \/ DeletePod(p)
Faults == GateError \/ NsError \/ KeyError \/ Restart

Next == Gate \/ NsWorker \/ KeyWorker \/ EnqueueAll \/ Informers \/ Users \/ Faults

Spec == Init /\ [][Next]_vars

\* Worker goroutines and informers keep running; timers keep firing.  Users
\* and faults are under no obligation.
Fairness ==
    /\ WF_vars(Gate) /\ WF_vars(NsWorker) /\ WF_vars(KeyWorker)
    /\ WF_vars(PodEvent) /\ WF_vars(ArqEvent) /\ WF_vars(AaqjqcEvent)
    /\ WF_vars(EnqueueAll)

FairSpec == Spec /\ Fairness

-----------------------------------------------------------------------------
\* The ungated pods in the API server never use more than the quota's hard
\* limit: what the job queue lock between admission and accounting is for.
QuotaNeverExceeded == Usage[Charged(Current(pods))] <= Hard

\* With per-kind watches, concurrent workers, errors and restarts, pods leave
\* the gate in recorded batches, one at a time (GateAdmission).
Admission == INSTANCE GateAdmission
    WITH podState <- Current(pods), batch <- Current(aaqjqc).queue,
         open <- Current(aaqjqc).locked
ImplementsAdmission == Admission!Spec

(* Why it does, as an inductive invariant.                                  *)
WasGated(s) == s \in {"gated", "free", "gone"}
Released(s) == s \in {"free", "gone"}

\* What a version of a pod has been through, the API server's pod has too.
PodsMonotone ==
    \A i \in 1 .. Len(pods), p \in Pods :
        /\ WasGated(pods[i][p]) => WasGated(Current(pods)[p])
        /\ Released(pods[i][p]) => Released(Current(pods)[p])

\* A pod that is in no open batch of the API server needs no release.
Handled(p) ==
    \/ Released(Current(pods)[p])
    \/ Current(aaqjqc).locked /\ p \in Current(aaqjqc).queue

\* Every version of the job queue records pods that were behind the AAQ gate,
\* and those of a locked one are released or still recorded in the open batch.
QueuesHandled ==
    \A i \in 1 .. Len(aaqjqc) :
        /\ ~aaqjqc[i].exists => aaqjqc[i] = NoJobQueue
        /\ \A p \in aaqjqc[i].queue :
              WasGated(Current(pods)[p]) /\ (aaqjqc[i].locked => Handled(p))

\* The gate worker can write only over an unlocked job queue, and releases
\* only pods whose batch is open.
GateDiscipline ==
    /\ gate.current => gate.pc \in {"quota", "admit", "record"} /\ ~Current(aaqjqc).locked
    /\ gate.pc = "record" => gate.todo # {}
    /\ \A p \in gate.todo :
          WasGated(Current(pods)[p]) /\ (gate.pc = "release" => Handled(p))

\* The ARQ worker can unlock only the open batch, all of it released.
NsDiscipline ==
    nsw.locked =>
        /\ nsw.current => Current(aaqjqc).locked /\ Current(aaqjqc).queue = nsw.queue
        /\ \A p \in nsw.queue : Released(Current(pods)[p])

AdmissionInv == TypeOK /\ PodsMonotone /\ QueuesHandled /\ GateDiscipline /\ NsDiscipline

(* Why the quota is kept where pods are never deleted and the watches keep  *)
(* the order of commits, as an inductive invariant.                         *)
UsageNow == Usage[Charged(Current(pods))]
UsageSeen == Usage[Charged(Cached(pods))]

\* The pods of the open batch, released or not.
OpenBatch == IF Current(aaqjqc).locked THEN Current(aaqjqc).queue ELSE {}

\* No pod goes back to an earlier state from one version to a later one.
PodsGrow ==
    \A i, j \in 1 .. Len(pods) : i <= j =>
        \A p \in Pods :
            /\ pods[i][p] # "gone"
            /\ WasGated(pods[i][p]) => WasGated(pods[j][p])
            /\ Released(pods[i][p]) => Released(pods[j][p])

UsageGrows ==
    /\ \A i, j \in 1 .. Len(arq) : i <= j => arq[i] <= arq[j]
    /\ Current(arq) <= UsageSeen

\* Reserved: the open batch is paid for as a whole; all that is charged outside
\* of it is in the pod cache, and in the status once no batch is open.
Reserved ==
    /\ Usage[Charged(Current(pods)) \cup OpenBatch] <= Hard
    /\ Charged(Current(pods)) \ OpenBatch \subseteq Charged(Cached(pods))
    /\ \A p \in OpenBatch : WasGated(Cached(pods)[p])
    /\ ~Current(aaqjqc).locked => UsageNow <= Current(arq)
    /\ ~Current(aaqjqc).exists => Len(aaqjqc) = 1

\* A gate worker that can still record a batch counts all that is charged.
GateCounts ==
    /\ gate.current =>
          /\ gate.pc = "quota" => UsageNow <= Cached(arq)
          /\ gate.pc = "admit" => UsageNow <= gate.used
          /\ gate.pc = "record" => Usage[Charged(Current(pods)) \cup gate.todo] <= Hard
    /\ gate.pc = "record" => \A p \in gate.todo : WasGated(Cached(pods)[p])

\* An ARQ worker never writes less than what is there, and one that can close
\* the batch has seen all of it, and has it written when it comes to unlock.
ArqCounts ==
    /\ keyw.pc = "write" /\ keyw.arqCurrent =>
          Current(arq) <= keyw.used /\ keyw.used <= UsageSeen
    /\ nsw.pc = "write" /\ nsw.arqCurrent =>
          Current(arq) <= nsw.used /\ nsw.used <= UsageSeen
    /\ nsw.pc = "sync" => nsw.used <= Current(arq)
    /\ nsw.pc # "idle" /\ nsw.locked /\ nsw.current =>
          /\ Charged(Current(pods)) \subseteq Charged(Cached(pods))
          /\ nsw.pc = "write" => UsageNow <= nsw.used
          /\ nsw.pc = "unlock" => UsageNow <= Current(arq)

\* For each event of a kind on its way (of the versions 2 .. n), its place
\* among the undelivered events of all kinds.
Places(kind, n, events) ==
    {f \in [2 .. n -> 1 .. Len(events)] :
        /\ \A i, j \in 2 .. n : i < j => f[i] < f[j]
        /\ \A k \in 1 .. Len(events) : events[k] = kind <=> \E i \in 2 .. n : f[i] = k}

\* No cache sees the lock cleared before it sees the usage the lock waited for.
UsageBeforeUnlock ==
    \E f \in Places("arq", Len(arq), order), g \in Places("aaqjqc", Len(aaqjqc), order) :
        ~Current(aaqjqc).locked =>
            \A i \in 1 .. Len(arq) : arq[i] < UsageNow =>
                i < Len(arq) /\ Len(aaqjqc) > 1 /\ f[i + 1] < g[Len(aaqjqc)]

QuotaInv ==
    /\ AdmissionInv
    /\ PodsGrow /\ UsageGrows /\ Reserved /\ GateCounts /\ ArqCounts /\ UsageBeforeUnlock

\* While the job queue is locked, the event that says so is on its way, or both
\* controllers have the namespace queued or in work: no order of failed checks,
\* conflicts, errors and restarts makes either forget the lock.
BatchPursued ==
    Current(aaqjqc).locked =>
        \/ Len(aaqjqc) > 1
        \/ (gateQ \/ gate.again) /\ (nsQ \/ nsw.locked)

\* An update of the job queue, which enqueues the namespace, is on its way.
UpdateComing == Len(aaqjqc) > 1 /\ aaqjqc[Len(aaqjqc) - 1].exists

\* A gated pod in the cache that would fit the cached status is never left to
\* itself: the gate controller has the namespace queued or in work, or is going
\* to hear of it, unless the lock is set.
FittingPodNoticed ==
    \A p \in Pods :
        /\ OnlyAAQGate(Cached(pods)[p]) /\ ~Current(aaqjqc).locked
        /\ Cached(arq) + Usage[{p}] <= Hard
        => gateQ \/ gate.pc # "idle" \/ UpdateComing

\* What makes both inductive.  Job queues that are locked, or may be written
\* over, are in the API server, so that their next change enqueues the namespace.
QueuesExist ==
    /\ Current(aaqjqc).locked => Current(aaqjqc).exists
    /\ Current(aaqjqc).locked /\ Len(aaqjqc) > 1 => UpdateComing
    /\ gate.current => Current(aaqjqc).exists
    /\ nsw.locked /\ nsw.current => Current(aaqjqc).exists

\* A gate worker that may go idle without being queued again has decided on what
\* the caches still show, and one that has just recorded a batch hears of it.
GateAttends ==
    /\ gate.again => gate.pc = "release"
    /\ gate.pc = "admit" => gateQ \/ gate.used = Cached(arq)
    /\ gate.pc = "release" => gateQ \/ gate.again \/ UpdateComing

PursuitInv == TypeOK /\ BatchPursued /\ FittingPodNoticed /\ QueuesExist /\ GateAttends

\* A locked job queue is unlocked in the end: the namespace never stops for
\* good waiting for its lock, whatever is deleted, fails or restarts meanwhile.
LockReleased == Current(aaqjqc).locked ~> ~Current(aaqjqc).locked

\* Once users leave the namespace alone, no pod stays behind the AAQ gate
\* alone that would fit what the quota has left.
FittingPodsReleased ==
    <>[](\A p \in Pods : OnlyAAQGate(Current(pods)[p]) =>
            Usage[Charged(Current(pods)) \cup {p}] > Hard)

=============================================================================
