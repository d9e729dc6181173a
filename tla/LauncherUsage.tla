---------------------------- MODULE LauncherUsage ----------------------------
(***************************************************************************)
(* What a pod is charged: the evaluator, the registry of calculators and   *)
(* the virt-launcher calculator, over the caches they read.                *)
(*                                                                         *)
(* The pods of a namespace are numbered in the order of their creation: a  *)
(* virtual machine's launcher, the targets of its migrations, launchers of *)
(* a machine recreated under the same name, and a plain pod.  A resource   *)
(* list is a function on Names; a resource that is not listed counts 0.    *)
(***************************************************************************)
EXTENDS Naturals, FiniteSets, FiniteSetsExt, Functions

CONSTANTS
    MaxPods, MaxMigrations,   \* how many pods and migrations there can be
    MaxChanges,               \* bound: what users and crashing guests do
    MaxLag,                   \* bound: caches and evaluations behind while the cluster moves on
    Nodes,
    Topologies,               \* [cores, sockets, threads]
    Memories,                 \* [guest, hugepages, request, limit], 0 where not set
    LauncherPod, PlainPod,    \* what Kubernetes' own evaluator charges the pods
    Scenarios                 \* [config: the configName flag, scopes and hard: the quota's,
                              \*  plain: attributes of plain pods; bounds: pods, vmis (times
                              \*  the machine is created), jobs (its migrations)]

Names == {"pods", "requests.cpu", "limits.cpu", "requests.memory", "limits.memory",
          "requests.instances/vmi", "requests.cpu/vmi", "requests.memory/vmi"}
Pods == 1 .. MaxPods
Migrations == 1 .. MaxMigrations
NoNode == "none"
NoTopology == [cores |-> 0, sockets |-> 0, threads |-> 0]

Attributes == [deadline : BOOLEAN, bestEffort : BOOLEAN, priority : BOOLEAN, affinity : BOOLEAN]

ASSUME LauncherAssumption ==
    /\ MaxPods \in Nat /\ MaxMigrations \in Nat /\ MaxChanges \in Nat /\ MaxLag \in Nat
    /\ NoNode \notin Nodes
    /\ LauncherPod \in [Names -> Nat] /\ PlainPod \in [Names -> Nat]
    /\ Topologies \subseteq [cores : Nat, sockets : Nat, threads : Nat] \ {NoTopology}
    /\ Topologies # {}
    /\ Memories \subseteq [guest : Nat, hugepages : Nat, request : Nat, limit : Nat]
    /\ \A s \in Scenarios :
          /\ s.hard \in [DOMAIN s.hard -> Nat] /\ DOMAIN s.hard \subseteq Names
          /\ s.plain \subseteq Attributes
          /\ s.vmis \in Nat

VARIABLES
    scenario,                           \* of this deployment and this quota
    pods, vmi, migrations,              \* in the API server
    podCache, vmiCache, migCache,       \* in the controller's informers
    items, todo, sum,                   \* a run of UsageStats: snapshot, rest, result so far
    queued,                             \* the quota's key is in the ARQ controller's queue
    used,                               \* the quota's status
    changes

vars == <<scenario, pods, vmi, migrations, podCache, vmiCache, migCache,
          items, todo, sum, queued, used, changes>>
api == <<pods, vmi, migrations>>
caches == <<podCache, vmiCache, migCache>>
calc == <<items, todo, sum>>

config == scenario.config
scopes == scenario.scopes
hard == scenario.hard

-----------------------------------------------------------------------------
(* Resource lists.                                                          *)
Zero == [r \in Names |-> 0]
List(partial) == [r \in Names |-> IF r \in DOMAIN partial THEN partial[r] ELSE 0]
Max2(a, b) == IF a > b THEN a ELSE b
Add(l, m) == [r \in Names |-> l[r] + m[r]]
SubtractWithNonNegativeResult(l, m) == [r \in Names |-> IF l[r] > m[r] THEN l[r] - m[r] ELSE 0]
Maximum(l, m) == [r \in Names |-> Max2(l[r], m[r])]

-----------------------------------------------------------------------------
(* The virt-launcher calculator.                                            *)

\* GetNumberOfVCPUs: the product of the factors that are given.
GetNumberOfVCPUs(t) ==
    LET Times(a, b) == IF b = 0 THEN a ELSE IF a = 0 THEN b ELSE a * b
    IN  Times(Times(t.cores, t.sockets), t.threads)

\* The memory a machine is charged: a limit below the request does not count.
MemoryRequest(m) == Max2(Max2(m.guest, m.request), m.hugepages)
MemoryLimit(m) == Max2(m.limit, MemoryRequest(m))

\* The topology a launcher is charged for: a source runs the current one, a
\* target will run the one of the spec.
ChargedTopology(v, isSource) == IF isSource /\ v.current # NoTopology THEN v.current ELSE v.spec

CalculateResourceLauncherVMIUsagePodResources(v, isSource) ==
    LET cpus == GetNumberOfVCPUs(ChargedTopology(v, isSource))
    IN  [Zero EXCEPT !["pods"] = 1,
                     !["requests.cpu"] = cpus, !["limits.cpu"] = cpus,
                     !["requests.memory"] = MemoryRequest(v.memory),
                     !["limits.memory"] = MemoryLimit(v.memory)]

\* Kubernetes' pod evaluator: a pod that is finished, or deleted and past its
\* grace period, uses nothing.
QuotaV1Pod(p) == p.phase = "live"
PodEvaluatorUsage(p) == IF ~QuotaV1Pod(p) THEN Zero ELSE IF p.owner = 0 THEN PlainPod ELSE LauncherPod

CalculateUsageByConfig(p, v, isSource) ==
    LET virtual == CalculateResourceLauncherVMIUsagePodResources(v, isSource)
    IN  CASE config = "VirtualResources" -> virtual
          [] config = "DedicatedVirtualResources" ->
               [Zero EXCEPT !["requests.instances/vmi"] = 1,
                            !["requests.cpu/vmi"] = virtual["limits.cpu"],
                            !["requests.memory/vmi"] = virtual["limits.memory"]]
          [] OTHER -> PodEvaluatorUsage(p)      \* VmiPodUsage, and any other value

UnfinishedVMIPods(its, v) == {p \in DOMAIN its : its[p].phase \in {"live", "expired"} /\ its[p].owner = v.uid}

\* The newest migration that has not failed; 0 if there is none.
getLatestVmimIfExist(migs) == Max({m \in Migrations : migs[m] \in {"active", "done"}} \cup {0})

\* The pod of that migration; {} if there is none.
getTargetPod(its, launchers, migs) ==
    {p \in launchers : its[p].job # 0 /\ its[p].job = getLatestVmimIfExist(migs)}

\* The newest launcher on the machine's node; {} if there is none.
getSourcePod(its, launchers, v) ==
    LET here == {p \in launchers : v.node \in {NoNode, its[p].node}}
    IN  IF here = {} THEN {} ELSE {Max(here)}

\* What the calculator answers: a usage, that the pod is not its business, an
\* error, or nothing because it dereferenced a source pod that is not there.
Answer(kind, usage) == [kind |-> kind, usage |-> usage]

\* Mutant: a target is charged in full.
TargetUsageInFull(p, v) == CalculateUsageByConfig(p, v, FALSE)

\* A target is charged what it will use beyond its source.
TargetUsage(p, v) ==
    SubtractWithNonNegativeResult(CalculateUsageByConfig(p, v, FALSE), CalculateUsageByConfig(p, v, TRUE))

PodUsageFunc(id, p, its) ==
    LET v == vmiCache
        launchers == UnfinishedVMIPods(its, v)
        source == getSourcePod(its, launchers, v)
        target == getTargetPod(its, launchers, migCache)
    IN  IF p.owner = 0 \/ ~QuotaV1Pod(p) \/ ~v.exists THEN Answer("nomatch", Zero)
        ELSE IF id \notin launchers THEN Answer("error", Zero)
        ELSE IF source = {} THEN Answer("panic", Zero)
        ELSE IF id \in source THEN Answer("usage", CalculateUsageByConfig(p, v, TRUE))
        ELSE IF id \in target THEN Answer("usage", TargetUsage(p, v))
        ELSE Answer("usage", Zero)

-----------------------------------------------------------------------------
(* The registry and the evaluator.                                          *)

\* Usage of the registry.  A calculator that errs is asked ten times; asked
\* again at once, over the same items, it answers the same.  No calculator that
\* accepts the pod is an error.
RegistryUsage(id, p, its) ==
    LET a == PodUsageFunc(id, p, its)
    IN  IF a.kind \in {"usage", "panic"} THEN a ELSE Answer("error", Zero)

\* CalculatorUsage, and Usage over the pods of the cache.
CalculatorUsage(id, p, its) ==
    IF p.gated THEN Answer("usage", Zero)
    ELSE LET a == RegistryUsage(id, p, its)
         IN  IF a.kind = "error" THEN Answer("usage", PodEvaluatorUsage(p)) ELSE a

\* podMatchesScopeFunc, with the operator Exists.
PodMatchesScope(a, s) ==
    CASE s = "Terminating" -> a.deadline
      [] s = "NotTerminating" -> ~a.deadline
      [] s = "BestEffort" -> a.bestEffort
      [] s = "NotBestEffort" -> ~a.bestEffort
      [] s = "PriorityClass" -> a.priority
      [] s = "CrossNamespacePodAffinity" -> a.affinity
      [] OTHER -> FALSE
MatchesScopes(p) == \A s \in scopes : PodMatchesScope(p.attrs, s)

-----------------------------------------------------------------------------
NoPod == [phase |-> "none", gated |-> FALSE, node |-> NoNode, job |-> 0, owner |-> 0,
          attrs |-> [deadline |-> FALSE, bestEffort |-> FALSE, priority |-> FALSE, affinity |-> FALSE]]
NoVmi == [exists |-> FALSE, uid |-> 0, node |-> NoNode, current |-> NoTopology, spec |-> NoTopology,
          memory |-> [guest |-> 0, hugepages |-> 0, request |-> 0, limit |-> 0]]

IsPods(ps) ==
    \A p \in Pods : /\ ps[p].phase \in {"none", "live", "expired", "done"} /\ ps[p].gated \in BOOLEAN
                    /\ ps[p].node \in Nodes \cup {NoNode} /\ ps[p].job \in 0 .. MaxMigrations
                    /\ ps[p].owner \in 0 .. scenario.vmis
IsMigrations(ms) == ms \in [Migrations -> {"none", "active", "failed", "done"}]

\* Every charge is a natural number: no subtraction in the calculators goes
\* below zero, and the status lists exactly the resources the quota limits.
TypeOK ==
    /\ IsPods(pods) /\ IsPods(podCache) /\ IsMigrations(migrations) /\ IsMigrations(migCache)
    /\ {vmi.uid, vmiCache.uid} \subseteq 0 .. scenario.vmis
    /\ todo \subseteq Pods /\ queued \in BOOLEAN
    /\ sum \in [Names -> Nat]
    /\ used \in [DOMAIN hard -> Nat]
    /\ changes \in 0 .. MaxChanges

Init ==
    /\ scenario \in Scenarios
    /\ pods = [p \in Pods |-> NoPod] /\ vmi = NoVmi
    /\ migrations = [m \in Migrations |-> "none"]
    /\ podCache = pods /\ vmiCache = vmi /\ migCache = migrations
    /\ items = <<>> /\ todo = {} /\ sum = Zero
    /\ queued = TRUE
    /\ used = [r \in DOMAIN hard |-> 0]
    /\ changes = 0

-----------------------------------------------------------------------------
(* The ARQ controller's use of the evaluator: UsageStats takes the pods from *)
(* the cache once, and evaluates one after the other; each evaluation looks  *)
(* at the machine and its migrations as the caches have them by then.        *)

UsageStatsBegin ==
    /\ queued /\ items = <<>>
    /\ queued' = FALSE
    /\ items' = podCache
    /\ todo' = {p \in Pods : podCache[p].phase # "none"}
    /\ UNCHANGED <<changes, scenario, api, caches, sum, used>>

UsageStatsPod(p) ==
    /\ p \in todo
    /\ todo' = todo \ {p}
    /\ IF MatchesScopes(items[p])
       THEN LET a == CalculatorUsage(p, items[p], items)
            IN  a.kind = "usage" /\ sum' = Add(sum, a.usage)
       ELSE UNCHANGED sum
    /\ UNCHANGED <<changes, scenario, api, caches, items, queued, used>>

\* Mutant: every resource the pods use.
UsageStatsEndUnmasked ==
    /\ items # <<>> /\ todo = {}
    /\ used' = sum
    /\ items' = <<>> /\ sum' = Zero
    /\ UNCHANGED <<changes, scenario, api, caches, todo, queued>>

\* The status: the resources the quota limits.
UsageStatsEnd ==
    /\ items # <<>> /\ todo = {}
    /\ used' = Restrict(sum, DOMAIN hard)
    /\ items' = <<>> /\ sum' = Zero
    /\ UNCHANGED <<changes, scenario, api, caches, todo, queued>>

\* Mutant: the quotas are not gone through again.
EnqueueAllNever == FALSE /\ UNCHANGED vars

\* The ARQ controller goes through all quotas periodically.  Bound: the timer is
\* slow, it fires when the caches are current.
EnqueueAll ==
    /\ ~queued /\ items = <<>> /\ podCache = pods /\ vmiCache = vmi /\ migCache = migrations
    /\ queued' = TRUE
    /\ UNCHANGED <<changes, scenario, api, caches, calc, used>>

-----------------------------------------------------------------------------
(* The gate controller's: a gated pod is charged as it would be without its  *)
(* gate.  The quota it is checked against has the limits and the usage of    *)
(* the ARQ, and not its scopes.  (The lock between admissions is the subject *)
(* of AaqNamespace.)                                                         *)
Ungated(p) == [podCache[p] EXCEPT !.gated = FALSE]
AdmissionUsage(p) == CalculatorUsage(p, Ungated(p), podCache)

\* Mutant: a resource that is used up refuses every pod.
CheckRequestUsedUp(l) == \A r \in DOMAIN hard : used[r] < hard[r] /\ used[r] + l[r] <= hard[r]

\* CheckRequest: resources the pod does not use are not looked at.
CheckRequest(l) == \A r \in DOMAIN hard : l[r] > 0 => used[r] + l[r] <= hard[r]

Waiting(p) == pods[p].phase = "live" /\ pods[p].gated

ReleasePod(p) ==
    /\ Waiting(p) /\ podCache[p] = pods[p]
    /\ AdmissionUsage(p).kind = "usage" /\ CheckRequest(AdmissionUsage(p).usage)
    /\ pods' = [pods EXCEPT ![p].gated = FALSE]
    /\ UNCHANGED <<changes, scenario, vmi, migrations, caches, calc, queued, used>>

\* An evaluation without a source pod takes the process down; it starts again
\* from what the API server has.
Panics(p) ==
    \/ p \in todo /\ MatchesScopes(items[p]) /\ CalculatorUsage(p, items[p], items).kind = "panic"
    \/ podCache[p].phase = "live" /\ podCache[p].gated /\ AdmissionUsage(p).kind = "panic"

Panic ==
    /\ \E p \in Pods : Panics(p)
    /\ podCache' = pods /\ vmiCache' = vmi /\ migCache' = migrations
    /\ items' = <<>> /\ todo' = {} /\ sum' = Zero
    /\ queued' = TRUE
    /\ UNCHANGED <<changes, scenario, api, used>>

-----------------------------------------------------------------------------
(* The informers; only pods bring a quota to the ARQ controller's queue.     *)
PodEvent ==
    /\ podCache # pods /\ podCache' = pods
    /\ queued' = TRUE
    /\ UNCHANGED <<changes, scenario, api, vmiCache, migCache, calc, used>>

VmiEvent ==
    /\ vmiCache # vmi /\ vmiCache' = vmi
    /\ UNCHANGED <<changes, scenario, api, podCache, migCache, calc, queued, used>>

MigrationEvent ==
    /\ migCache # migrations /\ migCache' = migrations
    /\ UNCHANGED <<changes, scenario, api, podCache, vmiCache, calc, queued, used>>

-----------------------------------------------------------------------------
(* KubeVirt, Kubernetes and the users.                                       *)
Behind == {k \in {"pods", "vmi", "migrations", "evaluation"} :
              CASE k = "pods" -> podCache # pods
                [] k = "vmi" -> vmiCache # vmi
                [] k = "migrations" -> migCache # migrations
                [] k = "evaluation" -> items # <<>>}
Outside == Cardinality(Behind) < MaxLag /\ UNCHANGED <<scenario, caches, calc, queued, used>>
Unasked == UNCHANGED changes
Change == changes < MaxChanges /\ changes' = changes + 1

Fresh(p) == p <= scenario.pods /\ pods[p].phase = "none" /\ \A q \in 1 .. p - 1 : pods[q].phase # "none"
Running(p) == pods[p].phase = "live" /\ pods[p].node # NoNode
Launchers == {p \in Pods : pods[p].phase = "live" /\ pods[p].owner = vmi.uid /\ vmi.uid # 0}
OnNode == {p \in Launchers : Running(p) /\ vmi.node = pods[p].node}
Main == {p \in OnNode : \A q \in OnNode : q <= p}
Active == {m \in Migrations : migrations[m] = "active"}

\* Bound: machines start small.
Smallest == CHOOSE t \in Topologies : \A u \in Topologies : GetNumberOfVCPUs(t) <= GetNumberOfVCPUs(u)

StartVmi ==
    /\ ~vmi.exists /\ vmi.uid < scenario.vmis
    /\ \E mem \in Memories :
          vmi' = [NoVmi EXCEPT !.exists = TRUE, !.uid = vmi.uid + 1, !.spec = Smallest, !.memory = mem]
    /\ UNCHANGED <<pods, migrations>> /\ Outside /\ Unasked

CreateLauncher(p) ==
    /\ vmi.exists /\ vmi.node = NoNode /\ Launchers = {}
    /\ Fresh(p)
    /\ pods' = [pods EXCEPT ![p] = [NoPod EXCEPT !.phase = "live", !.gated = TRUE, !.owner = vmi.uid]]
    /\ UNCHANGED <<vmi, migrations>> /\ Outside /\ Unasked

CreatePlainPod(p) ==
    /\ Fresh(p) /\ \A q \in Pods : pods[q].phase # "none" => pods[q].owner # 0
    /\ \E a \in scenario.plain :
          pods' = [pods EXCEPT ![p] = [NoPod EXCEPT !.phase = "live", !.gated = TRUE, !.attrs = a]]
    /\ UNCHANGED <<vmi, migrations>> /\ Outside /\ Change

\* Nodes are alike: a new machine always starts on the same one.
FirstNode == CHOOSE n \in Nodes : TRUE

Schedule(p) ==
    /\ pods[p].phase = "live" /\ ~pods[p].gated /\ pods[p].node = NoNode
    /\ \E n \in Nodes : /\ IF pods[p].job = 0 THEN n = FirstNode ELSE n # vmi.node
                        /\ pods' = [pods EXCEPT ![p].node = n]
    /\ UNCHANGED <<vmi, migrations>> /\ Outside /\ Unasked

\* The machine has started: on the node of its launcher, with the topology asked for.
SetNode ==
    /\ vmi.exists /\ vmi.node = NoNode
    /\ \E p \in Launchers : /\ Running(p)
                            /\ vmi' = [vmi EXCEPT !.node = pods[p].node, !.current = vmi.spec]
    /\ UNCHANGED <<pods, migrations>> /\ Outside /\ Unasked

HotPlug ==
    /\ OnNode # {} /\ vmi.current = vmi.spec
    /\ \E t \in Topologies : /\ GetNumberOfVCPUs(t) > GetNumberOfVCPUs(vmi.spec)
                             /\ vmi' = [vmi EXCEPT !.spec = t]
    /\ UNCHANGED <<pods, migrations>> /\ Outside /\ Change

Migrate(m) ==
    /\ vmi.exists /\ OnNode # {} /\ Active = {}
    /\ m <= scenario.jobs /\ migrations[m] = "none" /\ \A k \in 1 .. m - 1 : migrations[k] # "none"
    /\ migrations' = [migrations EXCEPT ![m] = "active"]
    /\ UNCHANGED <<pods, vmi>> /\ Outside /\ Change

CreateTarget(p, m) ==
    /\ m \in Active /\ OnNode # {} /\ \A q \in Pods : pods[q].job # m
    /\ Fresh(p)
    /\ pods' = [pods EXCEPT ![p] = [NoPod EXCEPT !.phase = "live", !.gated = TRUE, !.owner = vmi.uid, !.job = m]]
    /\ UNCHANGED <<vmi, migrations>> /\ Outside /\ Unasked

\* The machine moves to the target; the migration is done a little later.
Handoff(p) ==
    /\ vmi.exists /\ p \in Launchers /\ Running(p) /\ pods[p].job \in Active
    /\ vmi.node # pods[p].node /\ OnNode # {}
    /\ vmi' = [vmi EXCEPT !.node = pods[p].node, !.current = vmi.spec]
    /\ UNCHANGED <<pods, migrations>> /\ Outside /\ Unasked

MigrationDone(m) ==
    /\ m \in Active /\ \E p \in OnNode : pods[p].job = m
    /\ migrations' = [migrations EXCEPT ![m] = "done"]
    /\ UNCHANGED <<pods, vmi>> /\ Outside /\ Unasked

MigrationFails(m) ==
    /\ m \in Active /\ ~\E p \in OnNode : pods[p].job = m
    /\ migrations' = [migrations EXCEPT ![m] = "failed"]
    /\ UNCHANGED <<pods, vmi>> /\ Outside /\ Unasked

\* A launcher the machine has no use for: its migration failed, the machine runs
\* in another one, has crashed or is gone.
Orphan(p) ==
    /\ pods[p].phase \in {"live", "expired"} /\ pods[p].owner # 0
    /\ \/ pods[p].phase = "expired"
       \/ pods[p].owner # vmi.uid \/ ~vmi.exists
       \/ vmi.node # NoNode /\ p \notin Main /\ (Main = {} \/ pods[p].job \notin Active)

OrphanFinishes(p) ==
    /\ Orphan(p)
    /\ pods' = [pods EXCEPT ![p].phase = "done"]
    /\ UNCHANGED <<vmi, migrations>> /\ Outside /\ Unasked

\* The guest shuts down or crashes, or the pod is deleted and its node does not
\* answer.
PodStops(p) ==
    /\ pods[p].phase = "live"
    /\ \E f \in {"done", "expired"} : pods' = [pods EXCEPT ![p].phase = f]
    /\ UNCHANGED <<vmi, migrations>> /\ Outside /\ Change

\* The machine is deleted; it can be started again.
DeleteVmi ==
    /\ vmi.exists
    /\ vmi' = [vmi EXCEPT !.exists = FALSE]
    /\ UNCHANGED <<pods, migrations>> /\ Outside /\ Change

-----------------------------------------------------------------------------
Controller ==
    \/ UsageStatsBegin \/ UsageStatsEnd \/ EnqueueAll \/ Panic
    \/ PodEvent \/ VmiEvent \/ MigrationEvent
    \/ \E p \in Pods : UsageStatsPod(p) \/ ReleasePod(p)

Environment ==
    \/ StartVmi \/ SetNode \/ HotPlug \/ DeleteVmi
    \/ \E p \in Pods : \/ CreateLauncher(p) \/ CreatePlainPod(p) \/ Schedule(p) \/ Handoff(p)
                       \/ OrphanFinishes(p) \/ PodStops(p)
                       \/ \E m \in Migrations : CreateTarget(p, m)
    \/ \E m \in Migrations : Migrate(m) \/ MigrationDone(m) \/ MigrationFails(m)

Next == Controller \/ Environment

Spec == Init /\ [][Next]_vars

\* Workers take the next step, watches deliver, KubeVirt removes launchers that
\* are of no use, and a pod that fits is released in the end.
Calculate == UsageStatsBegin \/ UsageStatsEnd \/ EnqueueAll \/ Panic \/ \E p \in Pods : UsageStatsPod(p)
Deliver == PodEvent \/ VmiEvent \/ MigrationEvent
Fairness ==
    /\ WF_vars(Calculate \/ Deliver)    \* a calculation ends, and waits for what it misses
    /\ WF_vars(\E p \in Pods : ReleasePod(p))
    /\ SF_vars(\E p \in Pods : OrphanFinishes(p))   \* strong: MaxLag disables it now and then

FairSpec == Spec /\ Fairness

-----------------------------------------------------------------------------
(* Properties.                                                              *)

\* The most a machine may be charged: one launcher of its larger topology.
Ceiling(v) ==
    IF config \in {"VirtualResources", "DedicatedVirtualResources"}
    THEN Maximum(CalculateUsageByConfig(NoPod, v, TRUE), CalculateUsageByConfig(NoPod, v, FALSE))
    ELSE LauncherPod

\* All its launchers together, waiting ones as if released, are charged at most
\* that by an evaluation over the caches: never for source and target both,
\* whatever the caches have missed, however many migrations failed.
ChargedOnce ==
    LET mine == {p \in Pods : podCache[p].owner = vmiCache.uid}
    IN  vmiCache.exists /\ (\A p \in mine : AdmissionUsage(p).kind = "usage")
        => \A r \in Names : MapThenSumSet(LAMBDA p : AdmissionUsage(p).usage[r], mine) <= Ceiling(vmiCache)[r]

(* Why it is, as an inductive invariant.                                     *)

PodRecords == [phase : {"none", "live", "expired", "done"}, gated : BOOLEAN,
               node : Nodes \cup {NoNode}, job : 0 .. MaxMigrations,
               owner : 0 .. scenario.vmis, attrs : Attributes]
VmiRecords == [exists : BOOLEAN, uid : 0 .. scenario.vmis, node : Nodes \cup {NoNode},
               current : Topologies \cup {NoTopology}, spec : Topologies \cup {NoTopology},
               memory : Memories \cup {NoVmi.memory}]

\* A machine that exists has an identity no plain pod has for an owner.
IsVmi(v) == v \in VmiRecords /\ (v.exists => v.uid # 0)

\* A migration has one target.
OneTarget(ps) == \A p, q \in Pods : p # q /\ ps[p].job # 0 => ps[p].job # ps[q].job

LauncherInv ==
    /\ scenario \in Scenarios /\ changes \in 0 .. MaxChanges
    /\ pods \in [Pods -> PodRecords] /\ OneTarget(pods)
    /\ podCache \in [Pods -> PodRecords] /\ OneTarget(podCache)
    /\ IsVmi(vmi) /\ IsVmi(vmiCache)
    /\ IsMigrations(migrations) /\ IsMigrations(migCache)
    /\ todo \subseteq Pods /\ (todo # {} => items \in [Pods -> PodRecords])
    /\ queued \in BOOLEAN /\ sum \in [Names -> Nat] /\ used \in [DOMAIN hard -> Nat]

\* What the quota should show: the machine's launcher, raised to the topology a
\* released target will need, and the plain pod, as far as the scopes cover them.
Charged(p) == pods[p].phase = "live" /\ ~pods[p].gated /\ MatchesScopes(pods[p])
Reference ==
    LET main == IF vmi.node = NoNode THEN Launchers ELSE Main
        targets == {p \in Launchers \ main : Charged(p) /\ pods[p].job \in Active}
        machine == IF ~\E p \in main : Charged(p) THEN Zero
                   ELSE IF targets = {} \/ config = "VmiPodUsage"
                   THEN CalculateUsageByConfig(pods[Max(main)], vmi, TRUE)
                   ELSE Ceiling(vmi)
    IN  IF \E p \in Pods : pods[p].owner = 0 /\ Charged(p) THEN Add(machine, PlainPod) ELSE machine

\* Once users and KubeVirt leave the machine alone, the quota's usage comes to
\* be what it really uses: no evaluation that mixed the caches of two moments,
\* and no crash, is the last word.
UsageSettles == <>[](used = Restrict(Reference, DOMAIN hard))

\* A migration that does not grow the machine is not held up by a quota,
\* however full.
MigrationWaits(p) ==
    /\ Waiting(p) /\ pods[p].job \in Active /\ vmi.exists /\ Main # {}
    /\ vmi.current = vmi.spec
MigrationAdmitted == (\E p \in Pods : MigrationWaits(p)) ~> ~(\E p \in Pods : MigrationWaits(p))

=============================================================================
