------------------------ MODULE LauncherUsageProofs ------------------------
(***************************************************************************)
(* Proofs about what a virtual machine's launchers are charged, for every  *)
(* number of pods and migrations, every topology, memory and quota: all of *)
(* them together never more than one launcher of the larger topology.      *)
(***************************************************************************)
EXTENDS LauncherUsage, FiniteSetTheorems, TLAPS

-----------------------------------------------------------------------------
(* Induction by least counterexample.                                       *)

LEMMA MinimalSubset ==
    ASSUME NEW S, IsFiniteSet(S), NEW T \in SUBSET (SUBSET S), T # {}
    PROVE  \E x \in T : \A y \in T : y \subseteq x => y = x
<1> DEFINE R == StrictSubsetOrdering(S)
<1>1. IsWellFoundedOn(R, SUBSET S)
    BY FS_StrictSubsetOrderingWellFounded, FS_FiniteSubsetsOfFinite
<1>2. \A x, y \in SUBSET S : y \subseteq x /\ y # x => <<y, x>> \in R
    BY DEF StrictSubsetOrdering
<1> HIDE DEF R
<1>3. \E x \in T : \A y \in T : <<y, x>> \notin R
    BY <1>1, WFMin
<1> QED BY <1>2, <1>3

LEMMA LeastNatural ==
    ASSUME NEW T \in SUBSET Nat, T # {}
    PROVE  \E k \in T : \A j \in T : k <= j
<1> DEFINE R == OpToRel(<, Nat)
<1>1. \E k \in T : \A j \in T : <<j, k>> \notin R
    BY NatLessThanWellFounded, WFMin
<1>2. \A j, k \in Nat : j < k => <<j, k>> \in R
    BY DEF OpToRel
<1> HIDE DEF R
<1>3. \A j, k \in Nat : k <= j \/ j < k
    OBVIOUS
<1> QED BY <1>1, <1>2, <1>3

-----------------------------------------------------------------------------
(* A sum over pods.                                                         *)

Choose(S) == CHOOSE p \in S : TRUE

\* The sum of the charges c over every subset of M, one pod after the other.
Adds(g, M, c) ==
    g = [s \in SUBSET M |-> IF s = {} THEN 0 ELSE c[Choose(s)] + g[s \ {Choose(s)}]]

\* Such a sum exists.
LEMMA SumExists ==
    ASSUME NEW M, IsFiniteSet(M), NEW c
    PROVE  \E g : Adds(g, M, c)
<1> DEFINE Plus(g, s) == IF s = {} THEN 0 ELSE c[Choose(s)] + g[s \ {Choose(s)}]
           Upto(g, k) == /\ g = [s \in SUBSET M |-> g[s]]
                         /\ \A s \in SUBSET M : Cardinality(s) <= k => g[s] = Plus(g, s)
           Bad == {k \in Nat : ~\E g : Upto(g, k)}
<1>0. \A s \in SUBSET M :
          /\ IsFiniteSet(s) /\ Cardinality(s) \in Nat /\ Cardinality(s) <= Cardinality(M)
          /\ s # {} => /\ Choose(s) \in s /\ s \ {Choose(s)} \in SUBSET M
                       /\ Cardinality(s \ {Choose(s)}) = Cardinality(s) - 1
          /\ Cardinality(s) = 0 <=> s = {}
    BY FS_Subset, FS_CardinalityType, FS_EmptySet, FS_RemoveElement DEF Choose
<1>1. 0 \notin Bad
    <2> DEFINE g == [s \in SUBSET M |-> 0]
    <2>1. ASSUME NEW s \in SUBSET M, Cardinality(s) <= 0 PROVE s = {}
        <3>1. Cardinality(s) \in Nat /\ (Cardinality(s) = 0 <=> s = {})
            BY <1>0
        <3> QED BY <2>1, <3>1
    <2>2. Upto(g, 0)
        BY <2>1
    <2> QED BY <2>2
<1>2. ASSUME NEW k \in Nat, k \notin Bad PROVE k + 1 \notin Bad
    <2>1. PICK g : Upto(g, k)
        BY <1>2
    <2> DEFINE h == [s \in SUBSET M |-> Plus(g, s)]
    <2>2. \A s \in SUBSET M : Cardinality(s) <= k => h[s] = g[s]
        BY <2>1
    <2>3. ASSUME NEW s \in SUBSET M, Cardinality(s) <= k + 1
          PROVE  Plus(g, s) = Plus(h, s)
        <3>1. CASE s = {}
            BY <3>1
        <3>2. CASE s # {}
            <4>1. s \ {Choose(s)} \in SUBSET M /\ Cardinality(s \ {Choose(s)}) <= k
                BY <1>0, <2>3, <3>2
            <4>2. h[s \ {Choose(s)}] = g[s \ {Choose(s)}]
                BY <2>2, <4>1
            <4> QED BY <3>2, <4>2
        <3> QED BY <3>1, <3>2
    <2>4. \A s \in SUBSET M : h[s] = Plus(g, s)
        OBVIOUS
    <2>5. h = [s \in SUBSET M |-> h[s]]
        BY <2>4
    <2> HIDE DEF h
    <2>6. Upto(h, k + 1)
        BY <2>3, <2>4, <2>5
    <2> QED BY <2>6
<1>3. Bad = {}
    <2> SUFFICES ASSUME Bad # {} PROVE FALSE
        OBVIOUS
    <2>1. Bad \in SUBSET Nat
        OBVIOUS
    <2> HIDE DEF Bad
    <2>2. PICK k \in Bad : \A j \in Bad : k <= j
        BY <2>1, LeastNatural
    <2>3. k \in Nat /\ k # 0
        BY <1>1, <2>1, <2>2
    <2>4. k - 1 \in Nat /\ k - 1 \notin Bad /\ (k - 1) + 1 = k
        BY <2>1, <2>2, <2>3
    <2> QED BY <1>2, <2>2, <2>4
<1>4. PICK g : Upto(g, Cardinality(M))
    BY <1>3, FS_CardinalityType
<1>5. \A s \in SUBSET M : g[s] = Plus(g, s)
    BY <1>0, <1>4
<1>6. g = [s \in SUBSET M |-> Plus(g, s)]
    BY <1>4, <1>5
<1> QED BY <1>6 DEF Adds

\* One pod at most, of P, is charged a, one at most, of Q, d, the others nothing.
TwoCharges(M, c, a, d, P, Q) ==
    /\ \A p \in M : /\ c[p] \in Nat
                    /\ p \in P => c[p] <= a
                    /\ p \notin P /\ p \in Q => c[p] <= d
                    /\ p \notin P /\ p \notin Q => c[p] = 0
    /\ \A p, q \in P : p = q
    /\ \A p, q \in Q : p = q

LEMMA SumBounded ==
    ASSUME NEW M, IsFiniteSet(M), NEW c, NEW g, Adds(g, M, c),
           NEW a \in Nat, NEW d \in Nat, NEW P, NEW Q, TwoCharges(M, c, a, d, P, Q)
    PROVE  g[M] \in Nat /\ g[M] <= a + d
<1> DEFINE A(s) == IF s \cap P = {} THEN 0 ELSE a
           D(s) == IF s \cap Q = {} THEN 0 ELSE d
           Good(s) == g[s] \in Nat /\ g[s] <= A(s) + D(s)
           Bad == {s \in SUBSET M : ~Good(s)}
<1>0. \A s \in SUBSET M : A(s) \in {0, a} /\ D(s) \in {0, d}
    OBVIOUS
<1>1. SUFFICES Bad = {}
    <2>1. Good(M)
        BY <1>1
    <2>2. A(M) <= a /\ D(M) <= d /\ A(M) \in Nat /\ D(M) \in Nat
        OBVIOUS
    <2> HIDE DEF A, D
    <2> QED BY <2>1, <2>2
<1> SUFFICES ASSUME Bad # {} PROVE FALSE
    OBVIOUS
<1>2. Bad \in SUBSET (SUBSET M)
    OBVIOUS
<1>3. PICK s \in Bad : \A t \in Bad : t \subseteq s => t = s
    <2> HIDE DEF Bad
    <2> QED BY <1>2, MinimalSubset
<1>4. s \in SUBSET M /\ ~Good(s)
    OBVIOUS
<1>5. g[s] = IF s = {} THEN 0 ELSE c[Choose(s)] + g[s \ {Choose(s)}]
    BY <1>4 DEF Adds
<1>6. s # {}
    <2> SUFFICES ASSUME s = {} PROVE FALSE
        OBVIOUS
    <2>1. g[s] = 0 /\ A(s) = 0 /\ D(s) = 0
        BY <1>5
    <2> QED BY <2>1, <1>4
<1> DEFINE x == Choose(s)
           t == s \ {x}
<1>7. x \in s /\ x \in M
    BY <1>4, <1>6 DEF Choose
<1>8. t \in SUBSET M /\ t \subseteq s /\ t # s
    BY <1>4, <1>7
<1>9. Good(t)
    BY <1>3, <1>8
<1>10. g[s] = c[x] + g[t]
    BY <1>5, <1>6
<1>11. /\ x \in P => A(t) = 0 /\ A(s) = a
       /\ x \notin P => A(t) = A(s)
       /\ x \in Q => D(t) = 0 /\ D(s) = d
       /\ x \notin Q => D(t) = D(s)
    BY <1>4, <1>7 DEF TwoCharges
<1>12. A(t) \in Nat /\ D(t) \in Nat /\ A(s) \in Nat /\ D(s) \in Nat /\ g[t] \in Nat /\ g[t] <= A(t) + D(t)
    BY <1>9
<1>13. /\ c[x] \in Nat
       /\ x \in P => c[x] <= a
       /\ x \notin P /\ x \in Q => c[x] <= d
       /\ x \notin P /\ x \notin Q => c[x] = 0
    BY <1>7 DEF TwoCharges
<1> HIDE DEF A, D, x, t
<1>14. CASE x \in P
    <2>1. D(t) <= D(s)
        <3>1. CASE x \in Q
            BY <3>1, <1>11, <1>12
        <3>2. CASE x \notin Q
            BY <3>2, <1>11, <1>12
        <3> QED BY <3>1, <3>2
    <2> QED BY <2>1, <1>4, <1>10, <1>11, <1>12, <1>13, <1>14
<1>15. CASE x \notin P /\ x \in Q
    BY <1>4, <1>10, <1>11, <1>12, <1>13, <1>15
<1>16. CASE x \notin P /\ x \notin Q
    BY <1>4, <1>10, <1>11, <1>12, <1>13, <1>16
<1> QED BY <1>14, <1>15, <1>16

-----------------------------------------------------------------------------
(* Resource lists and the calculator's answers.                             *)

LEMMA Lists ==
    /\ Zero \in [Names -> Nat]
    /\ \A l, m \in [Names -> Nat] :
          Add(l, m) \in [Names -> Nat] /\ SubtractWithNonNegativeResult(l, m) \in [Names -> Nat]
<1>1. ASSUME NEW l \in [Names -> Nat], NEW m \in [Names -> Nat], NEW r \in Names
      PROVE  l[r] \in Nat /\ m[r] \in Nat /\ l[r] + m[r] \in Nat /\ (l[r] > m[r] => l[r] - m[r] \in Nat)
    OBVIOUS
<1>2. \A l, m \in [Names -> Nat] : Add(l, m) \in [Names -> Nat]
    BY <1>1 DEF Add
<1>3. \A l, m \in [Names -> Nat] : SubtractWithNonNegativeResult(l, m) \in [Names -> Nat]
    BY <1>1 DEF SubtractWithNonNegativeResult
<1> QED BY <1>2, <1>3 DEF Zero

Machines == [cores : Nat, sockets : Nat, threads : Nat]
Sizes == [guest : Nat, hugepages : Nat, request : Nat, limit : Nat]

LEMMA VcpusNatural == \A t \in Machines : GetNumberOfVCPUs(t) \in Nat
<1> DEFINE Times(a, b) == IF b = 0 THEN a ELSE IF a = 0 THEN b ELSE a * b
<1>1. \A a, b \in Nat : a * b \in Nat
    OBVIOUS
<1>2. \A a, b \in Nat : Times(a, b) \in Nat
    BY <1>1
<1> SUFFICES ASSUME NEW t \in Machines PROVE GetNumberOfVCPUs(t) \in Nat
    OBVIOUS
<1>3. t.cores \in Nat /\ t.sockets \in Nat /\ t.threads \in Nat
    BY DEF Machines
<1>4. GetNumberOfVCPUs(t) = Times(Times(t.cores, t.sockets), t.threads)
    BY DEF GetNumberOfVCPUs
<1> HIDE DEF Times
<1>5. Times(t.cores, t.sockets) \in Nat
    BY <1>2, <1>3
<1> QED BY <1>2, <1>3, <1>4, <1>5

LEMMA MemoryNatural == \A m \in Sizes : MemoryRequest(m) \in Nat /\ MemoryLimit(m) \in Nat
<1>1. \A a, b \in Nat : Max2(a, b) \in Nat
    BY DEF Max2
<1> SUFFICES ASSUME NEW m \in Sizes PROVE MemoryRequest(m) \in Nat /\ MemoryLimit(m) \in Nat
    OBVIOUS
<1>2. m.guest \in Nat /\ m.hugepages \in Nat /\ m.request \in Nat /\ m.limit \in Nat
    BY DEF Sizes
<1>3. Max2(m.guest, m.request) \in Nat
    BY <1>1, <1>2
<1>4. MemoryRequest(m) \in Nat
    BY <1>1, <1>2, <1>3 DEF MemoryRequest
<1> QED BY <1>1, <1>2, <1>4 DEF MemoryLimit

\* A machine as the API server knows it.
LEMMA MachineFields ==
    ASSUME NEW v \in VmiRecords
    PROVE  /\ v.spec \in Machines /\ v.current \in Machines /\ v.memory \in Sizes
           /\ v.exists \in BOOLEAN /\ v.uid \in 0 .. scenario.vmis
           /\ v.node \in Nodes \cup {NoNode}
<1>1. Topologies \cup {NoTopology} \subseteq Machines
    BY LauncherAssumption DEF Machines, NoTopology
<1>2. NoVmi.memory = [guest |-> 0, hugepages |-> 0, request |-> 0, limit |-> 0]
    BY DEF NoVmi
<1>3. Memories \cup {NoVmi.memory} \subseteq Sizes
    BY <1>2, LauncherAssumption DEF Sizes
<1> HIDE DEF NoVmi
<1>4. /\ v.spec \in Topologies \cup {NoTopology} /\ v.current \in Topologies \cup {NoTopology}
      /\ v.memory \in Memories \cup {NoVmi.memory}
      /\ v.exists \in BOOLEAN /\ v.uid \in 0 .. scenario.vmis
      /\ v.node \in Nodes \cup {NoNode}
    BY DEF VmiRecords
<1> QED BY <1>1, <1>3, <1>4

LEMMA EvaluatorNatural == \A p : PodEvaluatorUsage(p) \in [Names -> Nat]
    BY LauncherAssumption, Lists DEF PodEvaluatorUsage

LEMMA VirtualNatural ==
    ASSUME NEW v \in VmiRecords, NEW isSource
    PROVE  CalculateResourceLauncherVMIUsagePodResources(v, isSource) \in [Names -> Nat]
<1> DEFINE cpus == GetNumberOfVCPUs(ChargedTopology(v, isSource))
<1>1. cpus \in Nat
    BY VcpusNatural, MachineFields DEF ChargedTopology
<1>2. MemoryRequest(v.memory) \in Nat /\ MemoryLimit(v.memory) \in Nat
    BY MemoryNatural, MachineFields
<1>3. CalculateResourceLauncherVMIUsagePodResources(v, isSource)
        = [Zero EXCEPT !["pods"] = 1,
                       !["requests.cpu"] = cpus, !["limits.cpu"] = cpus,
                       !["requests.memory"] = MemoryRequest(v.memory),
                       !["limits.memory"] = MemoryLimit(v.memory)]
    BY DEF CalculateResourceLauncherVMIUsagePodResources
<1> HIDE DEF cpus
<1>4. ASSUME NEW n \in Nat, NEW request \in Nat, NEW limit \in Nat
      PROVE  [Zero EXCEPT !["pods"] = 1,
                          !["requests.cpu"] = n, !["limits.cpu"] = n,
                          !["requests.memory"] = request,
                          !["limits.memory"] = limit] \in [Names -> Nat]
    BY Lists
<1>5. PICK n \in Nat, request \in Nat, limit \in Nat :
          n = cpus /\ request = MemoryRequest(v.memory) /\ limit = MemoryLimit(v.memory)
    BY <1>1, <1>2
<1>6. [Zero EXCEPT !["pods"] = 1,
                   !["requests.cpu"] = n, !["limits.cpu"] = n,
                   !["requests.memory"] = request,
                   !["limits.memory"] = limit] \in [Names -> Nat]
    BY <1>4
<1>7. CalculateResourceLauncherVMIUsagePodResources(v, isSource)
        = [Zero EXCEPT !["pods"] = 1,
                       !["requests.cpu"] = n, !["limits.cpu"] = n,
                       !["requests.memory"] = request,
                       !["limits.memory"] = limit]
    BY <1>3, <1>5, Zenon
<1> QED BY <1>6, <1>7, Zenon

Virtual == config \in {"VirtualResources", "DedicatedVirtualResources"}

\* A configuration in virtual resources looks at the machine, the others at the pod.
LEMMA ByConfig ==
    ASSUME NEW v \in VmiRecords, NEW isSource
    PROVE  /\ Virtual => /\ CalculateUsageByConfig(NoPod, v, isSource) \in [Names -> Nat]
                         /\ \A p : CalculateUsageByConfig(p, v, isSource)
                                     = CalculateUsageByConfig(NoPod, v, isSource)
           /\ ~Virtual => \A p : CalculateUsageByConfig(p, v, isSource) = PodEvaluatorUsage(p)
<1> DEFINE virtual == CalculateResourceLauncherVMIUsagePodResources(v, isSource)
           dedicated == [Zero EXCEPT !["requests.instances/vmi"] = 1,
                                     !["requests.cpu/vmi"] = virtual["limits.cpu"],
                                     !["requests.memory/vmi"] = virtual["limits.memory"]]
<1>1. virtual \in [Names -> Nat]
    BY VirtualNatural
<1>2. \A p : /\ config = "VirtualResources" => CalculateUsageByConfig(p, v, isSource) = virtual
             /\ config = "DedicatedVirtualResources" => CalculateUsageByConfig(p, v, isSource) = dedicated
             /\ ~Virtual => CalculateUsageByConfig(p, v, isSource) = PodEvaluatorUsage(p)
    BY DEF CalculateUsageByConfig, Virtual
<1> HIDE DEF virtual
<1>3. dedicated \in [Names -> Nat]
    <2>1. virtual["limits.cpu"] \in Nat /\ virtual["limits.memory"] \in Nat
        BY <1>1 DEF Names
    <2> QED BY <2>1, Lists
<1> HIDE DEF dedicated
<1> QED BY <1>1, <1>2, <1>3 DEF Virtual

\* A launcher's charge, whatever the configuration.
LEMMA ByConfigNatural ==
    ASSUME NEW v \in VmiRecords, NEW isSource, NEW p
    PROVE  CalculateUsageByConfig(p, v, isSource) \in [Names -> Nat]
    BY ByConfig, EvaluatorNatural

-----------------------------------------------------------------------------
(* What a machine's launchers are charged over one state of the caches.     *)

Mine == {p \in Pods : podCache[p].owner = vmiCache.uid}
MyLaunchers == UnfinishedVMIPods(podCache, vmiCache)
Source == getSourcePod(podCache, MyLaunchers, vmiCache)
Target == getTargetPod(podCache, MyLaunchers, migCache)

SourceCharge == IF Virtual THEN CalculateUsageByConfig(NoPod, vmiCache, TRUE) ELSE LauncherPod
TargetCharge ==
    IF Virtual THEN SubtractWithNonNegativeResult(CalculateUsageByConfig(NoPod, vmiCache, FALSE),
                                                  CalculateUsageByConfig(NoPod, vmiCache, TRUE))
    ELSE Zero

\* What the calculators read: a machine that exists, and its pods.
Readable ==
    /\ podCache \in [Pods -> PodRecords] /\ OneTarget(podCache)
    /\ IsVmi(vmiCache) /\ vmiCache.exists

LEMMA ChargesNatural ==
    ASSUME Readable
    PROVE  SourceCharge \in [Names -> Nat] /\ TargetCharge \in [Names -> Nat]
<1>1. vmiCache \in VmiRecords
    BY DEF Readable, IsVmi
<1>2. LauncherPod \in [Names -> Nat]
    BY LauncherAssumption
<1>3. SourceCharge \in [Names -> Nat]
    BY <1>1, <1>2, ByConfigNatural DEF SourceCharge
<1>4. TargetCharge \in [Names -> Nat]
    BY <1>1, ByConfigNatural, Lists DEF TargetCharge
<1> QED BY <1>3, <1>4

\* The most a machine may be charged is the two charges together.
LEMMA CeilingIsBoth ==
    ASSUME Readable, NEW r \in Names
    PROVE  Ceiling(vmiCache)[r] = SourceCharge[r] + TargetCharge[r]
<1>1. vmiCache \in VmiRecords
    BY DEF Readable, IsVmi
<1>2. CASE Virtual
    <2> DEFINE l == CalculateUsageByConfig(NoPod, vmiCache, TRUE)
               m == CalculateUsageByConfig(NoPod, vmiCache, FALSE)
    <2>1. l \in [Names -> Nat] /\ m \in [Names -> Nat]
        BY <1>1, ByConfigNatural
    <2>2. Ceiling(vmiCache) = Maximum(l, m) /\ SourceCharge = l
          /\ TargetCharge = SubtractWithNonNegativeResult(m, l)
        BY <1>2 DEF Ceiling, SourceCharge, TargetCharge, Virtual
    <2> HIDE DEF l, m
    <2>3. Ceiling(vmiCache)[r] = Max2(l[r], m[r])
          /\ TargetCharge[r] = IF m[r] > l[r] THEN m[r] - l[r] ELSE 0
        BY <2>2 DEF Maximum, SubtractWithNonNegativeResult
    <2>4. l[r] \in Nat /\ m[r] \in Nat
        BY <2>1
    <2>5. CASE l[r] > m[r]
        BY <2>2, <2>3, <2>4, <2>5 DEF Max2
    <2>6. CASE ~(l[r] > m[r])
        BY <2>2, <2>3, <2>4, <2>6 DEF Max2
    <2> QED BY <2>5, <2>6
<1>3. CASE ~Virtual
    <2>1. Ceiling(vmiCache) = LauncherPod /\ SourceCharge = LauncherPod /\ TargetCharge = Zero
        BY <1>3 DEF Ceiling, SourceCharge, TargetCharge, Virtual
    <2>2. LauncherPod[r] \in Nat /\ Zero[r] = 0
        BY LauncherAssumption DEF Zero
    <2> QED BY <2>1, <2>2
<1> QED BY <1>2, <1>3

\* There is one source at most, and one target.
LEMMA OneSourceOneTarget ==
    ASSUME Readable
    PROVE  (\A p, q \in Source : p = q) /\ (\A p, q \in Target : p = q)
<1>1. \A p, q \in Source : p = q
    BY DEF Source, getSourcePod
<1>2. MyLaunchers \subseteq Pods
    BY DEF Readable, MyLaunchers, UnfinishedVMIPods
<1>3. ASSUME NEW p \in Target, NEW q \in Target PROVE p = q
    <2>1. p \in Pods /\ q \in Pods /\ podCache[p].job # 0 /\ podCache[p].job = podCache[q].job
        BY <1>2 DEF Target, getTargetPod
    <2> QED BY <2>1 DEF Readable, OneTarget
<1> QED BY <1>1, <1>3

\* What one pod is charged: the source its part, the target its, others nothing.
LEMMA Charge ==
    ASSUME Readable, NEW p \in Mine, AdmissionUsage(p).kind = "usage"
    PROVE  /\ p \in Source => AdmissionUsage(p).usage \in {SourceCharge, Zero}
           /\ p \notin Source /\ p \in Target => AdmissionUsage(p).usage \in {TargetCharge, Zero}
           /\ p \notin Source /\ p \notin Target => AdmissionUsage(p).usage = Zero
<1> DEFINE u == Ungated(p)
           v == vmiCache
           a == PodUsageFunc(p, u, podCache)
<1>1. v \in VmiRecords /\ v.exists /\ v.uid # 0 /\ p \in Pods /\ podCache[p] \in PodRecords
      /\ podCache[p].owner = v.uid
    BY DEF Readable, IsVmi, Mine
<1>2. u.gated = FALSE /\ u.phase = podCache[p].phase /\ u.owner = v.uid
    BY <1>1 DEF Ungated, PodRecords
<1>3. a = IF u.owner = 0 \/ ~QuotaV1Pod(u) \/ ~v.exists THEN Answer("nomatch", Zero)
          ELSE IF p \notin MyLaunchers THEN Answer("error", Zero)
          ELSE IF Source = {} THEN Answer("panic", Zero)
          ELSE IF p \in Source THEN Answer("usage", CalculateUsageByConfig(u, v, TRUE))
          ELSE IF p \in Target THEN Answer("usage", TargetUsage(u, v))
          ELSE Answer("usage", Zero)
    BY DEF PodUsageFunc, MyLaunchers, Source, Target
<1> HIDE DEF u, a
<1>4. AdmissionUsage(p) = LET b == IF a.kind \in {"usage", "panic"} THEN a ELSE Answer("error", Zero)
                          IN  IF b.kind = "error" THEN Answer("usage", PodEvaluatorUsage(u)) ELSE b
    BY <1>2 DEF AdmissionUsage, CalculatorUsage, RegistryUsage, u, a
<1>5. CASE ~QuotaV1Pod(u)
    <2>1. a.kind = "nomatch"
        BY <1>3, <1>5 DEF Answer
    <2>2. AdmissionUsage(p) = Answer("usage", PodEvaluatorUsage(u))
        BY <1>4, <2>1 DEF Answer
    <2>3. AdmissionUsage(p).usage = Zero
        BY <1>5, <2>2 DEF Answer, PodEvaluatorUsage
    <2> QED BY <2>3
<1>6. CASE QuotaV1Pod(u)
    <2>1. p \in MyLaunchers
        BY <1>1, <1>2, <1>6 DEF MyLaunchers, UnfinishedVMIPods, QuotaV1Pod, Readable
    <2>2. Source # {}
        <3> SUFFICES ASSUME Source = {} PROVE FALSE
            OBVIOUS
        <3>1. a.kind = "panic"
            BY <1>1, <1>2, <1>3, <1>6, <2>1 DEF Answer
        <3>2. AdmissionUsage(p).kind = "panic"
            BY <1>4, <3>1
        <3> QED BY <3>2
    <2>3. /\ p \in Source => a = Answer("usage", CalculateUsageByConfig(u, v, TRUE))
          /\ p \notin Source /\ p \in Target => a = Answer("usage", TargetUsage(u, v))
          /\ p \notin Source /\ p \notin Target => a = Answer("usage", Zero)
        <3>1. a = IF p \in Source THEN Answer("usage", CalculateUsageByConfig(u, v, TRUE))
                  ELSE IF p \in Target THEN Answer("usage", TargetUsage(u, v))
                  ELSE Answer("usage", Zero)
            BY <1>1, <1>2, <1>3, <1>6, <2>1, <2>2
        <3> QED BY <3>1
    <2>4. a.kind = "usage"
        <3>1. \A x : Answer("usage", x).kind = "usage"
            BY DEF Answer
        <3> QED BY <2>3, <3>1
    <2>5. AdmissionUsage(p) = a
        BY <1>4, <2>4
    <2>6. /\ p \in Source => AdmissionUsage(p).usage = CalculateUsageByConfig(u, v, TRUE)
          /\ p \notin Source /\ p \in Target => AdmissionUsage(p).usage = TargetUsage(u, v)
          /\ p \notin Source /\ p \notin Target => AdmissionUsage(p).usage = Zero
        <3>1. \A x : Answer("usage", x).usage = x
            BY DEF Answer
        <3> QED BY <2>3, <2>5, <3>1
    <2>7. PodEvaluatorUsage(u) = LauncherPod
        BY <1>1, <1>2, <1>6 DEF PodEvaluatorUsage
    <2>8. CalculateUsageByConfig(u, v, TRUE) = SourceCharge
        BY <1>1, <2>7, ByConfig DEF SourceCharge
    <2>9. TargetUsage(u, v) = TargetCharge
        <3>1. CASE Virtual
            <4>1. /\ CalculateUsageByConfig(u, v, TRUE) = CalculateUsageByConfig(NoPod, v, TRUE)
                  /\ CalculateUsageByConfig(u, v, FALSE) = CalculateUsageByConfig(NoPod, v, FALSE)
                BY <1>1, <3>1, ByConfig
            <4> QED BY <3>1, <4>1 DEF TargetUsage, TargetCharge
        <3>2. CASE ~Virtual
            <4>1. /\ CalculateUsageByConfig(u, v, TRUE) = LauncherPod
                  /\ CalculateUsageByConfig(u, v, FALSE) = LauncherPod
                BY <1>1, <2>7, <3>2, ByConfig
            <4>2. LauncherPod \in [Names -> Nat]
                BY LauncherAssumption
            <4>3. \A r \in Names : LauncherPod[r] \in Nat /\ ~(LauncherPod[r] > LauncherPod[r])
                BY <4>2
            <4>4. SubtractWithNonNegativeResult(LauncherPod, LauncherPod) = Zero
                BY <4>3 DEF SubtractWithNonNegativeResult, Zero
            <4> QED BY <3>2, <4>1, <4>4 DEF TargetUsage, TargetCharge
        <3> QED BY <3>1, <3>2
    <2> QED BY <2>6, <2>8, <2>9
<1> QED BY <1>5, <1>6

\* All its launchers together are charged at most one of the larger topology.
LEMMA MachineCharged == LauncherInv => ChargedOnce
<1> SUFFICES ASSUME LauncherInv, vmiCache.exists, \A p \in Mine : AdmissionUsage(p).kind = "usage",
                    NEW r \in Names
             PROVE  MapThenSumSet(LAMBDA p : AdmissionUsage(p).usage[r], Mine) <= Ceiling(vmiCache)[r]
    BY DEF ChargedOnce, Mine
<1>1. Readable
    BY DEF LauncherInv, Readable
<1>2. IsFiniteSet(Mine)
    <2>1. IsFiniteSet(Pods)
        BY LauncherAssumption, FS_Interval DEF Pods
    <2> QED BY <2>1, FS_Subset DEF Mine
<1> DEFINE c == [p \in Mine |-> AdmissionUsage(p).usage[r]]
           Loop(f) == f = [s \in SUBSET Mine |->
                             IF s = {} THEN 0
                             ELSE AdmissionUsage(Choose(s)).usage[r] + f[s \ {Choose(s)}]]
           g == CHOOSE f : Loop(f)
<1>3. MapThenSumSet(LAMBDA p : AdmissionUsage(p).usage[r], Mine) = g[Mine]
    BY DEF MapThenSumSet, MapThenFoldSet, Choose
<1>4. ASSUME NEW f PROVE Loop(f) <=> Adds(f, Mine, c)
    <2>1. \A s \in SUBSET Mine : s # {} => c[Choose(s)] = AdmissionUsage(Choose(s)).usage[r]
        BY DEF Choose
    <2> HIDE DEF c
    <2>2. [s \in SUBSET Mine |-> IF s = {} THEN 0
                                 ELSE AdmissionUsage(Choose(s)).usage[r] + f[s \ {Choose(s)}]]
          = [s \in SUBSET Mine |-> IF s = {} THEN 0 ELSE c[Choose(s)] + f[s \ {Choose(s)}]]
        BY <2>1
    <2> QED BY <2>2 DEF Adds
<1>5. \E f : Adds(f, Mine, c)
    <2> HIDE DEF c
    <2> QED BY <1>2, SumExists
<1>6. Adds(g, Mine, c)
    <2>1. \E f : Loop(f)
        BY <1>4, <1>5
    <2>2. Loop(g)
        <3> HIDE DEF Loop
        <3> QED BY <2>1
    <2> HIDE DEF g, Loop, c
    <2> QED BY <1>4, <2>2
<1>7. SourceCharge[r] \in Nat /\ TargetCharge[r] \in Nat /\ Zero[r] = 0
    BY <1>1, ChargesNatural DEF Zero
<1>8. ASSUME NEW p \in Mine
      PROVE  /\ c[p] \in Nat
             /\ p \in Source => c[p] <= SourceCharge[r]
             /\ p \notin Source /\ p \in Target => c[p] <= TargetCharge[r]
             /\ p \notin Source /\ p \notin Target => c[p] = 0
    <2>1. c[p] = AdmissionUsage(p).usage[r]
        OBVIOUS
    <2>2. /\ p \in Source => AdmissionUsage(p).usage \in {SourceCharge, Zero}
          /\ p \notin Source /\ p \in Target => AdmissionUsage(p).usage \in {TargetCharge, Zero}
          /\ p \notin Source /\ p \notin Target => AdmissionUsage(p).usage = Zero
        BY <1>1, Charge
    <2> HIDE DEF c
    <2>3. /\ p \in Source => c[p] \in {SourceCharge[r], 0}
          /\ p \notin Source /\ p \in Target => c[p] \in {TargetCharge[r], 0}
          /\ p \notin Source /\ p \notin Target => c[p] = 0
        BY <1>7, <2>1, <2>2
    <2> QED BY <1>7, <2>3
<1> HIDE DEF c, g
<1>9. g[Mine] \in Nat /\ g[Mine] <= SourceCharge[r] + TargetCharge[r]
    <2>1. (\A p, q \in Source : p = q) /\ (\A p, q \in Target : p = q)
        BY <1>1, OneSourceOneTarget
    <2>2. PICK a \in Nat : a = SourceCharge[r]
        BY <1>7
    <2>3. PICK d \in Nat : d = TargetCharge[r]
        BY <1>7
    <2>4. TwoCharges(Mine, c, a, d, Source, Target)
        BY <1>8, <2>1, <2>2, <2>3 DEF TwoCharges
    <2>5. g[Mine] \in Nat /\ g[Mine] <= a + d
        BY <1>2, <1>6, <2>4, SumBounded
    <2> QED BY <2>2, <2>3, <2>5
<1> QED BY <1>1, <1>3, <1>9, CeilingIsBoth

-----------------------------------------------------------------------------
(* LauncherInv is inductive.                                                *)

USE DEF api, caches, calc

\* A quota's limits, and what its scenario may do.
LEMMA ScenarioTyped ==
    ASSUME scenario \in Scenarios
    PROVE  /\ hard \in [DOMAIN hard -> Nat] /\ DOMAIN hard \subseteq Names
           /\ scenario.plain \subseteq Attributes /\ scenario.vmis \in Nat
    BY LauncherAssumption DEF hard

LEMMA PodFields ==
    ASSUME NEW p \in PodRecords
    PROVE  /\ p.phase \in {"none", "live", "expired", "done"} /\ p.gated \in BOOLEAN
           /\ p.node \in Nodes \cup {NoNode} /\ p.job \in 0 .. MaxMigrations
           /\ p.owner \in 0 .. scenario.vmis /\ p.attrs \in Attributes
    BY DEF PodRecords

LEMMA PodUpdates ==
    ASSUME NEW p \in PodRecords
    PROVE  /\ \A b \in BOOLEAN : [p EXCEPT !.gated = b] \in PodRecords
                                 /\ [p EXCEPT !.gated = b].job = p.job
           /\ \A f \in {"none", "live", "expired", "done"} : [p EXCEPT !.phase = f] \in PodRecords
                                                           /\ [p EXCEPT !.phase = f].job = p.job
           /\ \A n \in Nodes : [p EXCEPT !.node = n] \in PodRecords /\ [p EXCEPT !.node = n].job = p.job
    BY DEF PodRecords

LEMMA NoPodTyped ==
    ASSUME scenario \in Scenarios
    PROVE  NoPod \in PodRecords /\ NoPod.job = 0
<1>1. scenario.vmis \in Nat /\ MaxMigrations \in Nat
    BY ScenarioTyped, LauncherAssumption
<1>2. 0 \in 0 .. scenario.vmis /\ 0 \in 0 .. MaxMigrations
    BY <1>1
<1> QED BY <1>2 DEF NoPod, PodRecords, Attributes

\* The pods users and KubeVirt create.
LEMMA NewPods ==
    ASSUME scenario \in Scenarios
    PROVE  /\ \A u \in 0 .. scenario.vmis :
                 LET x == [NoPod EXCEPT !.phase = "live", !.gated = TRUE, !.owner = u]
                 IN  x \in PodRecords /\ x.job = 0
           /\ \A u \in 0 .. scenario.vmis, m \in 0 .. MaxMigrations :
                 LET x == [NoPod EXCEPT !.phase = "live", !.gated = TRUE, !.owner = u, !.job = m]
                 IN  x \in PodRecords /\ x.job = m
           /\ \A a \in Attributes :
                 LET x == [NoPod EXCEPT !.phase = "live", !.gated = TRUE, !.attrs = a]
                 IN  x \in PodRecords /\ x.job = 0
    BY NoPodTyped DEF PodRecords

LEMMA NoVmiTyped ==
    ASSUME scenario \in Scenarios
    PROVE  IsVmi(NoVmi)
<1>1. 0 \in 0 .. scenario.vmis
    BY ScenarioTyped
<1>2. NoVmi.exists = FALSE
    BY DEF NoVmi
<1>3. NoVmi \in VmiRecords
    BY <1>1 DEF NoVmi, VmiRecords
<1> QED BY <1>2, <1>3 DEF IsVmi

LEMMA SmallestExists == Smallest \in Topologies
<1> DEFINE T == {GetNumberOfVCPUs(t) : t \in Topologies}
<1>1. \A t \in Topologies : GetNumberOfVCPUs(t) \in Nat
    BY LauncherAssumption, VcpusNatural DEF Machines
<1>2. T \in SUBSET Nat /\ T # {}
    BY <1>1, LauncherAssumption
<1>3. PICK k \in T : \A j \in T : k <= j
    <2> HIDE DEF T
    <2> QED BY <1>2, LeastNatural
<1>4. \E t \in Topologies : \A u \in Topologies : GetNumberOfVCPUs(t) <= GetNumberOfVCPUs(u)
    BY <1>3
<1> QED BY <1>4 DEF Smallest

\* Every answer is a list of natural numbers.
LEMMA AnswerNatural ==
    ASSUME NEW v \in VmiRecords, v = vmiCache, NEW id, NEW p, NEW its
    PROVE  CalculatorUsage(id, p, its).usage \in [Names -> Nat]
<1>1. \A k : \A l \in [Names -> Nat] : Answer(k, l).usage \in [Names -> Nat]
    BY DEF Answer
<1>2. TargetUsage(p, vmiCache) \in [Names -> Nat]
    BY ByConfigNatural, Lists DEF TargetUsage
<1>3. CalculateUsageByConfig(p, vmiCache, TRUE) \in [Names -> Nat]
    BY ByConfigNatural
<1> DEFINE a == PodUsageFunc(id, p, its)
<1>4. \/ a = Answer("nomatch", Zero) \/ a = Answer("error", Zero)
      \/ a = Answer("panic", Zero) \/ a = Answer("usage", Zero)
      \/ a = Answer("usage", CalculateUsageByConfig(p, vmiCache, TRUE))
      \/ a = Answer("usage", TargetUsage(p, vmiCache))
    BY DEF PodUsageFunc
<1>5. a.usage \in [Names -> Nat]
    BY <1>1, <1>2, <1>3, <1>4, Lists
<1> HIDE DEF a
<1>6. \/ CalculatorUsage(id, p, its) = a
      \/ CalculatorUsage(id, p, its) = Answer("usage", Zero)
      \/ CalculatorUsage(id, p, its) = Answer("error", Zero)
      \/ CalculatorUsage(id, p, its) = Answer("usage", PodEvaluatorUsage(p))
    BY DEF CalculatorUsage, RegistryUsage, a
<1> QED BY <1>1, <1>5, <1>6, Lists, EvaluatorNatural

\* The initial state.
LEMMA InvInit == Init => LauncherInv
<1> SUFFICES ASSUME Init PROVE LauncherInv
    OBVIOUS
<1>1. scenario \in Scenarios /\ changes \in 0 .. MaxChanges
    BY LauncherAssumption DEF Init
<1>2. pods \in [Pods -> PodRecords] /\ podCache = pods
    BY <1>1, NoPodTyped DEF Init
<1>3. OneTarget(pods)
    BY DEF Init, OneTarget, NoPod
<1>4. IsVmi(vmi) /\ vmiCache = vmi
    BY <1>1, NoVmiTyped DEF Init
<1>5. IsMigrations(migrations) /\ migCache = migrations
    BY DEF Init, IsMigrations
<1>6. todo = {} /\ queued \in BOOLEAN /\ sum \in [Names -> Nat] /\ used \in [DOMAIN hard -> Nat]
    BY Lists DEF Init
<1> QED BY <1>1, <1>2, <1>3, <1>4, <1>5, <1>6 DEF LauncherInv

\* The steps that leave the deployment and its bound alone: the rest of the
\* invariant, in the new state.
StepTo ==
    /\ scenario' = scenario /\ changes' \in 0 .. MaxChanges
    /\ pods' \in [Pods -> PodRecords] /\ OneTarget(pods')
    /\ podCache' \in [Pods -> PodRecords] /\ OneTarget(podCache')
    /\ IsVmi(vmi') /\ IsVmi(vmiCache')
    /\ IsMigrations(migrations') /\ IsMigrations(migCache')
    /\ todo' \subseteq Pods /\ (todo' # {} => items' \in [Pods -> PodRecords])
    /\ queued' \in BOOLEAN /\ sum' \in [Names -> Nat] /\ used' \in [DOMAIN hard -> Nat]

LEMMA StepKeeps == LauncherInv /\ StepTo => LauncherInv'
<1> SUFFICES ASSUME LauncherInv, StepTo PROVE LauncherInv'
    OBVIOUS
<1>1. scenario' = scenario /\ scenario \in Scenarios
    BY DEF LauncherInv, StepTo
<1>2. PodRecords' = PodRecords /\ VmiRecords' = VmiRecords /\ hard' = hard
    BY <1>1 DEF PodRecords, VmiRecords, hard
<1>3. (pods \in [Pods -> PodRecords])' /\ (podCache \in [Pods -> PodRecords])'
      /\ (todo # {} => items \in [Pods -> PodRecords])'
    BY <1>2 DEF StepTo
<1>4. OneTarget(pods)' /\ OneTarget(podCache)'
    BY DEF StepTo, OneTarget
<1>5. IsVmi(vmi)' /\ IsVmi(vmiCache)'
    BY <1>2 DEF StepTo, IsVmi
<1>6. IsMigrations(migrations)' /\ IsMigrations(migCache)'
    BY DEF StepTo, IsMigrations
<1>7. (used \in [DOMAIN hard -> Nat])'
    BY <1>2 DEF StepTo
<1> QED BY <1>1, <1>3, <1>4, <1>5, <1>6, <1>7 DEF LauncherInv, StepTo

\* What the controllers and the informers do.
LEMMA ControllerKeeps == LauncherInv /\ Controller => StepTo
<1> SUFFICES ASSUME LauncherInv, Controller PROVE StepTo
    OBVIOUS
<1> USE DEF LauncherInv, StepTo
<1>1. CASE UsageStatsBegin
    BY <1>1 DEF UsageStatsBegin
<1>2. CASE UsageStatsEnd
    <2>1. DOMAIN hard \subseteq Names
        BY ScenarioTyped
    <2>2. used' \in [DOMAIN hard -> Nat]
        BY <1>2, <2>1 DEF UsageStatsEnd, Restrict
    <2>3. todo' = {} /\ sum' \in [Names -> Nat]
        BY <1>2, Lists DEF UsageStatsEnd
    <2> QED BY <1>2, <2>2, <2>3 DEF UsageStatsEnd
<1>3. CASE EnqueueAll
    BY <1>3 DEF EnqueueAll
<1>4. CASE Panic
    BY <1>4, Lists DEF Panic
<1>5. CASE PodEvent
    BY <1>5 DEF PodEvent
<1>6. CASE VmiEvent
    BY <1>6 DEF VmiEvent
<1>7. CASE MigrationEvent
    BY <1>7 DEF MigrationEvent
<1>8. ASSUME NEW p \in Pods, UsageStatsPod(p) PROVE StepTo
    <2>1. vmiCache \in VmiRecords
        BY DEF IsVmi
    <2>2. CalculatorUsage(p, items[p], items).usage \in [Names -> Nat]
        BY <2>1, AnswerNatural
    <2>3. sum' \in [Names -> Nat]
        BY <1>8, <2>2, Lists DEF UsageStatsPod
    <2>4. todo' \subseteq todo /\ items' = items
        BY <1>8 DEF UsageStatsPod
    <2> QED BY <1>8, <2>3, <2>4 DEF UsageStatsPod
<1>9. ASSUME NEW p \in Pods, ReleasePod(p) PROVE StepTo
    <2>1. pods' = [pods EXCEPT ![p] = [pods[p] EXCEPT !.gated = FALSE]]
        BY <1>9 DEF ReleasePod
    <2>2. [pods[p] EXCEPT !.gated = FALSE] \in PodRecords
          /\ [pods[p] EXCEPT !.gated = FALSE].job = pods[p].job
        BY PodUpdates
    <2>3. pods' \in [Pods -> PodRecords] /\ \A q \in Pods : pods'[q].job = pods[q].job
        BY <2>1, <2>2
    <2>4. OneTarget(pods')
        BY <2>3 DEF OneTarget
    <2> QED BY <1>9, <2>3, <2>4 DEF ReleasePod
<1> QED BY <1>1, <1>2, <1>3, <1>4, <1>5, <1>6, <1>7, <1>8, <1>9 DEF Controller

-----------------------------------------------------------------------------
(* What KubeVirt, Kubernetes and the users do.                              *)

LEMMA VmiUpdates ==
    ASSUME NEW v, IsVmi(v), LauncherInv
    PROVE  /\ \A n \in Nodes \cup {NoNode} : IsVmi([v EXCEPT !.node = n, !.current = v.spec])
           /\ \A t \in Topologies : IsVmi([v EXCEPT !.spec = t])
           /\ IsVmi([v EXCEPT !.exists = FALSE])
<1>1. v \in VmiRecords /\ (v.exists => v.uid # 0)
    BY DEF IsVmi
<1>2. ASSUME NEW n \in Nodes \cup {NoNode} PROVE IsVmi([v EXCEPT !.node = n, !.current = v.spec])
    <2>1. [v EXCEPT !.node = n, !.current = v.spec] \in VmiRecords
        BY <1>1 DEF VmiRecords
    <2>2. /\ [v EXCEPT !.node = n, !.current = v.spec].exists = v.exists
          /\ [v EXCEPT !.node = n, !.current = v.spec].uid = v.uid
        BY <1>1 DEF VmiRecords
    <2> QED BY <1>1, <2>1, <2>2 DEF IsVmi
<1>3. ASSUME NEW t \in Topologies PROVE IsVmi([v EXCEPT !.spec = t])
    <2>1. [v EXCEPT !.spec = t] \in VmiRecords
        BY <1>1 DEF VmiRecords
    <2>2. /\ [v EXCEPT !.spec = t].exists = v.exists /\ [v EXCEPT !.spec = t].uid = v.uid
        BY <1>1 DEF VmiRecords
    <2> QED BY <1>1, <2>1, <2>2 DEF IsVmi
<1>4. IsVmi([v EXCEPT !.exists = FALSE])
    <2>1. [v EXCEPT !.exists = FALSE] \in VmiRecords
        BY <1>1 DEF VmiRecords
    <2>2. [v EXCEPT !.exists = FALSE].exists = FALSE
        BY <1>1 DEF VmiRecords
    <2> QED BY <2>1, <2>2 DEF IsVmi
<1> QED BY <1>2, <1>3, <1>4

\* What happens outside the controllers changes neither their caches nor the
\* calculation.
LEMMA OutsideKeeps ==
    ASSUME LauncherInv, Outside, Unasked \/ Change,
           pods' \in [Pods -> PodRecords], OneTarget(pods'), IsVmi(vmi'), IsMigrations(migrations')
    PROVE  StepTo
<1>1. changes' \in 0 .. MaxChanges
    BY LauncherAssumption DEF LauncherInv, Unasked, Change
<1>2. UNCHANGED <<scenario, podCache, vmiCache, migCache, items, todo, sum, queued, used>>
    BY DEF Outside
<1> QED BY <1>1, <1>2 DEF LauncherInv, StepTo

\* A pod that changes keeps its migration.
LEMMA PodChanged ==
    ASSUME LauncherInv, NEW p \in Pods, NEW x \in PodRecords, x.job = pods[p].job,
           pods' = [pods EXCEPT ![p] = x]
    PROVE  pods' \in [Pods -> PodRecords] /\ OneTarget(pods')
<1>1. pods \in [Pods -> PodRecords] /\ OneTarget(pods)
    BY DEF LauncherInv
<1>2. pods' \in [Pods -> PodRecords] /\ \A q \in Pods : pods'[q].job = pods[q].job
    BY <1>1
<1> QED BY <1>1, <1>2 DEF OneTarget

\* A new pod is of no migration, or of one no other pod is of.
LEMMA PodCreated ==
    ASSUME LauncherInv, NEW p \in Pods, NEW x \in PodRecords,
           x.job = 0 \/ \A q \in Pods : pods[q].job # x.job,
           pods' = [pods EXCEPT ![p] = x]
    PROVE  pods' \in [Pods -> PodRecords] /\ OneTarget(pods')
<1>1. pods \in [Pods -> PodRecords] /\ OneTarget(pods)
    BY DEF LauncherInv
<1>3. pods' \in [Pods -> PodRecords]
    BY <1>1
<1>4. pods'[p].job = x.job /\ \A q \in Pods : q # p => pods'[q].job = pods[q].job
    BY <1>1
<1>5. OneTarget(pods')
    <2> SUFFICES ASSUME NEW q \in Pods, NEW s \in Pods, q # s, pods'[q].job # 0
                 PROVE  pods'[q].job # pods'[s].job
        BY DEF OneTarget
    <2>1. CASE q = p
        BY <1>4, <2>1
    <2>2. CASE s = p
        BY <1>4, <2>2
    <2>3. CASE q # p /\ s # p
        BY <1>1, <1>4, <2>3 DEF OneTarget
    <2> QED BY <2>1, <2>2, <2>3
<1> QED BY <1>3, <1>5

LEMMA EnvironmentKeeps == LauncherInv /\ Environment => StepTo
<1> SUFFICES ASSUME LauncherInv, Environment PROVE StepTo
    OBVIOUS
<1>0. /\ scenario \in Scenarios
      /\ pods \in [Pods -> PodRecords] /\ OneTarget(pods) /\ IsVmi(vmi) /\ vmi \in VmiRecords
      /\ IsMigrations(migrations)
    BY DEF LauncherInv, IsVmi
<1>01. /\ vmi.uid \in 0 .. scenario.vmis /\ vmi.node \in Nodes \cup {NoNode}
       /\ \A p \in Pods : pods[p].node \in Nodes \cup {NoNode}
    BY <1>0, MachineFields, PodFields
<1>1. CASE StartVmi
    <2>1. PICK mem \in Memories :
             vmi' = [NoVmi EXCEPT !.exists = TRUE, !.uid = vmi.uid + 1, !.spec = Smallest, !.memory = mem]
        BY <1>1 DEF StartVmi
    <2>2. vmi.uid + 1 \in 0 .. scenario.vmis /\ vmi.uid + 1 # 0
        <3>1. vmi.uid < scenario.vmis
            BY <1>1 DEF StartVmi
        <3>2. scenario.vmis \in Nat
            BY <1>0, ScenarioTyped
        <3> QED BY <1>01, <3>1, <3>2
    <2>3. vmi' = [exists |-> TRUE, uid |-> vmi.uid + 1, node |-> NoNode, current |-> NoTopology,
                  spec |-> Smallest, memory |-> mem]
        BY <2>1 DEF NoVmi
    <2>4. vmi' \in VmiRecords
        BY <2>2, <2>3, SmallestExists DEF VmiRecords
    <2>5. IsVmi(vmi')
        BY <2>2, <2>3, <2>4 DEF IsVmi
    <2>6. pods' = pods /\ migrations' = migrations /\ Outside /\ Unasked
        BY <1>1 DEF StartVmi
    <2> QED BY <1>0, <2>5, <2>6, OutsideKeeps
<1>2. CASE SetNode
    <2>1. PICK p \in Pods : vmi' = [vmi EXCEPT !.node = pods[p].node, !.current = vmi.spec]
        BY <1>2 DEF SetNode, Launchers
    <2>2. IsVmi(vmi')
        BY <1>0, <1>01, <2>1, VmiUpdates
    <2>3. pods' = pods /\ migrations' = migrations /\ Outside /\ Unasked
        BY <1>2 DEF SetNode
    <2> QED BY <1>0, <2>2, <2>3, OutsideKeeps
<1>3. CASE HotPlug
    <2>1. PICK t \in Topologies : vmi' = [vmi EXCEPT !.spec = t]
        BY <1>3 DEF HotPlug
    <2>2. IsVmi(vmi')
        BY <1>0, <2>1, VmiUpdates
    <2>3. pods' = pods /\ migrations' = migrations /\ Outside /\ Change
        BY <1>3 DEF HotPlug
    <2> QED BY <1>0, <2>2, <2>3, OutsideKeeps
<1>4. CASE DeleteVmi
    <2>1. IsVmi(vmi')
        BY <1>0, <1>4, VmiUpdates DEF DeleteVmi
    <2>2. pods' = pods /\ migrations' = migrations /\ Outside /\ Change
        BY <1>4 DEF DeleteVmi
    <2> QED BY <1>0, <2>1, <2>2, OutsideKeeps
<1>5. ASSUME NEW p \in Pods, CreateLauncher(p) PROVE StepTo
    <2> DEFINE x == [NoPod EXCEPT !.phase = "live", !.gated = TRUE, !.owner = vmi.uid]
    <2>1. pods' = [pods EXCEPT ![p] = x]
        BY <1>5 DEF CreateLauncher
    <2>2. x \in PodRecords /\ x.job = 0
        BY <1>0, <1>01, NewPods
    <2> HIDE DEF x
    <2>4. pods' \in [Pods -> PodRecords] /\ OneTarget(pods')
        BY <2>1, <2>2, PodCreated
    <2>3. vmi' = vmi /\ migrations' = migrations /\ Outside /\ Unasked
        BY <1>5 DEF CreateLauncher
    <2> QED BY <1>0, <2>3, <2>4, OutsideKeeps
<1>6. ASSUME NEW p \in Pods, CreatePlainPod(p) PROVE StepTo
    <2>1. PICK a \in scenario.plain :
             pods' = [pods EXCEPT ![p] = [NoPod EXCEPT !.phase = "live", !.gated = TRUE, !.attrs = a]]
        BY <1>6 DEF CreatePlainPod
    <2>2. a \in Attributes
        BY <1>0, ScenarioTyped
    <2> DEFINE x == [NoPod EXCEPT !.phase = "live", !.gated = TRUE, !.attrs = a]
    <2>3. x \in PodRecords /\ x.job = 0
        BY <1>0, <2>2, NewPods
    <2> HIDE DEF x
    <2>4. pods' \in [Pods -> PodRecords] /\ OneTarget(pods')
        BY <2>1, <2>3, PodCreated DEF x
    <2>5. vmi' = vmi /\ migrations' = migrations /\ Outside /\ Change
        BY <1>6 DEF CreatePlainPod
    <2> QED BY <1>0, <2>4, <2>5, OutsideKeeps
<1>7. ASSUME NEW p \in Pods, Schedule(p) PROVE StepTo
    <2>1. PICK n \in Nodes : pods' = [pods EXCEPT ![p].node = n]
        BY <1>7 DEF Schedule
    <2>2. pods' \in [Pods -> PodRecords] /\ OneTarget(pods')
        BY <1>0, <2>1, PodUpdates, PodChanged
    <2>3. vmi' = vmi /\ migrations' = migrations /\ Outside /\ Unasked
        BY <1>7 DEF Schedule
    <2> QED BY <1>0, <2>2, <2>3, OutsideKeeps
<1>8. ASSUME NEW p \in Pods, Handoff(p) PROVE StepTo
    <2>1. IsVmi(vmi')
        BY <1>0, <1>01, <1>8, VmiUpdates DEF Handoff
    <2>2. pods' = pods /\ migrations' = migrations /\ Outside /\ Unasked
        BY <1>8 DEF Handoff
    <2> QED BY <1>0, <2>1, <2>2, OutsideKeeps
<1>9. ASSUME NEW p \in Pods, OrphanFinishes(p) PROVE StepTo
    <2>1. pods' \in [Pods -> PodRecords] /\ OneTarget(pods')
        BY <1>0, <1>9, PodUpdates, PodChanged DEF OrphanFinishes
    <2>2. vmi' = vmi /\ migrations' = migrations /\ Outside /\ Unasked
        BY <1>9 DEF OrphanFinishes
    <2> QED BY <1>0, <2>1, <2>2, OutsideKeeps
<1>10. ASSUME NEW p \in Pods, PodStops(p) PROVE StepTo
    <2>1. PICK f \in {"done", "expired"} : pods' = [pods EXCEPT ![p].phase = f]
        BY <1>10 DEF PodStops
    <2>2. pods' \in [Pods -> PodRecords] /\ OneTarget(pods')
        BY <1>0, <2>1, PodUpdates, PodChanged
    <2>3. vmi' = vmi /\ migrations' = migrations /\ Outside /\ Change
        BY <1>10 DEF PodStops
    <2> QED BY <1>0, <2>2, <2>3, OutsideKeeps
<1>11. ASSUME NEW p \in Pods, NEW m \in Migrations, CreateTarget(p, m) PROVE StepTo
    <2> DEFINE x == [NoPod EXCEPT !.phase = "live", !.gated = TRUE, !.owner = vmi.uid, !.job = m]
    <2>1. pods' = [pods EXCEPT ![p] = x]
        BY <1>11 DEF CreateTarget
    <2>2. m \in 0 .. MaxMigrations
        BY LauncherAssumption DEF Migrations
    <2>3. \A q \in Pods : pods[q].job # m
        BY <1>11 DEF CreateTarget
    <2>6. x \in PodRecords /\ x.job = m
        BY <1>0, <1>01, <2>2, NewPods
    <2> HIDE DEF x
    <2>4. pods' \in [Pods -> PodRecords] /\ OneTarget(pods')
        BY <2>1, <2>3, <2>6, PodCreated
    <2>5. vmi' = vmi /\ migrations' = migrations /\ Outside /\ Unasked
        BY <1>11 DEF CreateTarget
    <2> QED BY <1>0, <2>4, <2>5, OutsideKeeps
<1>12. ASSUME NEW m \in Migrations, Migrate(m) \/ MigrationDone(m) \/ MigrationFails(m) PROVE StepTo
    <2>1. \E x \in {"active", "done", "failed"} : migrations' = [migrations EXCEPT ![m] = x]
        BY <1>12 DEF Migrate, MigrationDone, MigrationFails
    <2>2. IsMigrations(migrations')
        BY <1>0, <2>1 DEF IsMigrations
    <2>3. pods' = pods /\ vmi' = vmi /\ Outside /\ (Unasked \/ Change)
        BY <1>12 DEF Migrate, MigrationDone, MigrationFails
    <2> QED BY <1>0, <2>2, <2>3, OutsideKeeps
<1> QED BY <1>1, <1>2, <1>3, <1>4, <1>5, <1>6, <1>7, <1>8, <1>9, <1>10, <1>11, <1>12 DEF Environment

-----------------------------------------------------------------------------
(* The theorems.                                                            *)

\* What the caches hold is always such that a machine has one source and a
\* migration one target: the reason no launcher is charged twice.
THEOREM LauncherInvariant == Spec => []LauncherInv
<1>1. Init => LauncherInv
    BY InvInit
<1>2. LauncherInv /\ [Next]_vars => LauncherInv'
    <2> SUFFICES ASSUME LauncherInv, [Next]_vars PROVE LauncherInv'
        OBVIOUS
    <2>1. CASE Next
        BY <2>1, ControllerKeeps, EnvironmentKeeps, StepKeeps DEF Next
    <2>2. CASE UNCHANGED vars
        <3>1. StepTo
            BY <2>2 DEF vars, LauncherInv, StepTo
        <3> QED BY <3>1, StepKeeps
    <2> QED BY <2>1, <2>2
<1> QED BY <1>1, <1>2, PTL DEF Spec

\* Every usage the calculators answer, and every status written from one, is of
\* natural numbers over the resources the quota limits (UsageStatsEnd's mask).
COROLLARY LauncherTypeCorrect == Spec => []TypeOK
<1>1. LauncherInv => TypeOK
    <2> SUFFICES ASSUME LauncherInv PROVE TypeOK
        OBVIOUS
    <2>1. IsPods(pods) /\ IsPods(podCache)
        BY PodFields DEF LauncherInv, IsPods
    <2>2. vmi.uid \in 0 .. scenario.vmis /\ vmiCache.uid \in 0 .. scenario.vmis
        BY MachineFields DEF LauncherInv, IsVmi
    <2> QED BY <2>1, <2>2 DEF LauncherInv, TypeOK
<1> QED BY <1>1, LauncherInvariant, PTL

\* The virt-launcher calculator never charges a machine's source and its
\* migration's target both in full, whatever the informers have missed.
COROLLARY MachineChargedOnce == Spec => []ChargedOnce
    BY MachineCharged, LauncherInvariant, PTL

=============================================================================
