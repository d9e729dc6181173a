------------------------- MODULE ClusterQuotaProofs -------------------------
(***************************************************************************)
(* Proofs about the cluster quota, for every set of namespaces, pods,      *)
(* selectors and limits: the total the ACRQ controller keeps by            *)
(* corrections is the sum of the namespaces' slices, in every version of   *)
(* the quota and in every copy a worker has yet to write; each of the      *)
(* namespaces keeps to the batch protocol of GateAdmission; and the ACRQ   *)
(* controller forgets no lock.                                             *)
(***************************************************************************)
EXTENDS ClusterQuota, FiniteSetTheorems, TLAPS

USE DEF api, mapper, queues, Counts

-----------------------------------------------------------------------------
(* Induction by least counterexample.                                       *)

LEMMA MinimalSubset ==
    ASSUME NEW S, IsFiniteSet(S), NEW T \in SUBSET (SUBSET S), T # {}
    PROVE  \E x \in T : \A y \in T : y \subseteq x => y = x
<1> DEFINE R == StrictSubsetOrdering(S)
<1>1. IsWellFoundedOn(R, SUBSET S)
    BY FS_StrictSubsetOrderingWellFounded, FS_FiniteSubsetsOfFinite
<1>2. \A x, y \in SUBSET S : y \subseteq x /\ y # x => <<y, x>> \in R
    BY DEF StrictSubsetOrdering
<1> HIDE DEF R
<1>3. \E x \in T : \A y \in T : <<y, x>> \notin R
    BY <1>1, WFMin
<1> QED BY <1>2, <1>3

LEMMA LeastNatural ==
    ASSUME NEW T \in SUBSET Nat, T # {}
    PROVE  \E k \in T : \A j \in T : k <= j
<1> DEFINE R == OpToRel(<, Nat)
<1>1. \E k \in T : \A j \in T : <<j, k>> \notin R
    BY NatLessThanWellFounded, WFMin
<1>2. \A j, k \in Nat : j < k => <<j, k>> \in R
    BY DEF OpToRel
<1> HIDE DEF R
<1>3. \A j, k \in Nat : k <= j \/ j < k
    OBVIOUS
<1> QED BY <1>1, <1>2, <1>3

-----------------------------------------------------------------------------
(* The loop over a sync's items.                                            *)

Choose(S) == CHOOSE i \in S : TRUE

\* The quota after one item more.
After(g, s, matching) ==
    IF s = {} THEN Cached(acrq)
    ELSE LET i == Choose(s)
         IN  SyncItem(g[s \ {i}], matching, i, Usage(i.ns, Cached(pods)))

Loops(g, items, matching) == g = [s \in SUBSET items |-> After(g, s, matching)]

\* The loop is a recursive function over the sets of items still to sync.
LEMMA LoopExists ==
    ASSUME NEW items, IsFiniteSet(items), NEW matching
    PROVE  \E g : Loops(g, items, matching)
<1> DEFINE Upto(g, k) == /\ g = [s \in SUBSET items |-> g[s]]
                         /\ \A s \in SUBSET items :
                               Cardinality(s) <= k => g[s] = After(g, s, matching)
           Bad == {k \in Nat : ~\E g : Upto(g, k)}
<1>0. \A s \in SUBSET items :
          /\ IsFiniteSet(s) /\ Cardinality(s) \in Nat /\ Cardinality(s) <= Cardinality(items)
          /\ s # {} => /\ Choose(s) \in s /\ s \ {Choose(s)} \in SUBSET items
                       /\ Cardinality(s \ {Choose(s)}) = Cardinality(s) - 1
          /\ Cardinality(s) = 0 <=> s = {}
    BY FS_Subset, FS_CardinalityType, FS_EmptySet, FS_RemoveElement DEF Choose
<1>1. 0 \notin Bad
    <2> DEFINE g == [s \in SUBSET items |-> Cached(acrq)]
    <2>1. ASSUME NEW s \in SUBSET items, Cardinality(s) <= 0 PROVE s = {}
        <3>1. Cardinality(s) \in Nat /\ (Cardinality(s) = 0 <=> s = {})
            BY <1>0
        <3> QED BY <2>1, <3>1
    <2>2. Upto(g, 0)
        BY <2>1 DEF After
    <2> QED BY <2>2
<1>2. ASSUME NEW k \in Nat, k \notin Bad PROVE k + 1 \notin Bad
    <2>1. PICK g : Upto(g, k)
        BY <1>2
    <2> DEFINE h == [s \in SUBSET items |-> After(g, s, matching)]
    <2>2. \A s \in SUBSET items : Cardinality(s) <= k => h[s] = g[s]
        BY <2>1
    <2>3. ASSUME NEW s \in SUBSET items, Cardinality(s) <= k + 1
          PROVE  After(g, s, matching) = After(h, s, matching)
        <3>1. CASE s = {}
            BY <3>1 DEF After
        <3>2. CASE s # {}
            <4>1. s \ {Choose(s)} \in SUBSET items /\ Cardinality(s \ {Choose(s)}) <= k
                BY <1>0, <2>3, <3>2
            <4>2. h[s \ {Choose(s)}] = g[s \ {Choose(s)}]
                BY <2>2, <4>1
            <4> QED BY <3>2, <4>2 DEF After
        <3> QED BY <3>1, <3>2
    <2>4. \A s \in SUBSET items : h[s] = After(g, s, matching)
        OBVIOUS
    <2>5. h = [s \in SUBSET items |-> h[s]]
        BY <2>4
    <2> HIDE DEF h
    <2>6. Upto(h, k + 1)
        BY <2>3, <2>4, <2>5
    <2> QED BY <2>6
<1>3. Bad = {}
    <2> SUFFICES ASSUME Bad # {} PROVE FALSE
        OBVIOUS
    <2>1. Bad \in SUBSET Nat
        OBVIOUS
    <2> HIDE DEF Bad
    <2>2. PICK k \in Bad : \A j \in Bad : k <= j
        BY <2>1, LeastNatural
    <2>3. k \in Nat /\ k # 0
        BY <1>1, <2>1, <2>2
    <2>4. k - 1 \in Nat /\ k - 1 \notin Bad /\ (k - 1) + 1 = k
        BY <2>1, <2>2, <2>3
    <2> QED BY <1>2, <2>2, <2>4
<1>4. PICK g : Upto(g, Cardinality(items))
    BY <1>3, FS_CardinalityType
<1>5. \A s \in SUBSET items : g[s] = After(g, s, matching)
    BY <1>0, <1>4
<1>6. g = [s \in SUBSET items |-> After(g, s, matching)]
    BY <1>4, <1>5
<1> QED BY <1>6 DEF Loops

LEMMA SyncedLoops ==
    ASSUME NEW items, IsFiniteSet(items), NEW matching
    PROVE  \E g : /\ Synced(matching, items) = FinishSync(g[items], matching)
                  /\ \A s \in SUBSET items : g[s] = After(g, s, matching)
<1> DEFINE g == CHOOSE f : Loops(f, items, matching)
<1>1. Synced(matching, items) = FinishSync(g[items], matching)
    BY DEF Synced, MapThenFoldSet, Loops, After, Choose
<1>2. Loops(g, items, matching)
    BY LoopExists
<1> HIDE DEF g
<1>3. \A s \in SUBSET items : g[s] = After(g, s, matching)
    BY <1>2 DEF Loops
<1> QED BY <1>1, <1>3

-----------------------------------------------------------------------------
(* What a sync does to the sum.                                             *)

\* A quota whose total is the sum of its slices.
Good(q) == q \in AcrqObjects /\ q.used = SumOver[UsedBy(q)]

LEMMA CountsType ==
    ASSUME NEW n, NEW snapshot
    PROVE  Usage(n, snapshot) \in Counts
<1>1. {p \in Pods : NsOf[p] = n /\ snapshot[p] = "free"} \in SUBSET Pods
    OBVIOUS
<1>2. IsFiniteSet(Pods)
    BY AcrqAssumption
<1> QED BY <1>1, <1>2, FS_Subset, FS_CardinalityType DEF Usage

LEMMA CountsNat == Counts \subseteq Nat /\ 0 \in Counts
<1>1. Cardinality(Pods) \in Nat
    BY AcrqAssumption, FS_CardinalityType
<1> QED BY <1>1

LEMMA SumZero == SumOver[[n \in Namespaces |-> 0]] = 0
<1> DEFINE z == [n \in Namespaces |-> 0]
<1>1. z \in [Namespaces -> Counts] /\ \A n \in Namespaces : z[n] = z[n] + z[n]
    BY CountsNat
<1> HIDE DEF z
<1>2. SumOver[z] \in Nat /\ SumOver[z] = SumOver[z] + SumOver[z]
    BY <1>1, SumAssumption
<1>3. \A x \in Nat : x = x + x => x = 0
    OBVIOUS
<1>4. SumOver[z] = 0
    BY <1>2, <1>3
<1> QED BY <1>4 DEF z

\* Replacing one summand changes the sum by the difference.
LEMMA SumReplaces ==
    ASSUME NEW f \in [Namespaces -> Counts], NEW n \in Namespaces, NEW v \in Counts
    PROVE  /\ SumOver[f] \in Nat /\ SumOver[f] - f[n] \in Nat
           /\ SumOver[[f EXCEPT ![n] = v]] = (SumOver[f] - f[n]) + v
<1> DEFINE rest == [f EXCEPT ![n] = 0]
           old == [m \in Namespaces |-> IF m = n THEN f[n] ELSE 0]
           one == [m \in Namespaces |-> IF m = n THEN v ELSE 0]
           new == [f EXCEPT ![n] = v]
<1>1. /\ rest \in [Namespaces -> Counts] /\ new \in [Namespaces -> Counts]
      /\ old \in [Namespaces -> Counts] /\ one \in [Namespaces -> Counts]
    BY CountsNat
<1>2. /\ \A m \in Namespaces : f[m] = rest[m] + old[m]
      /\ \A m \in Namespaces : new[m] = rest[m] + one[m]
    BY CountsNat
<1>3. f[n] \in Counts /\ SumOver[old] = f[n] /\ SumOver[one] = v
    BY SumAssumption
<1> HIDE DEF rest, old, one, new
<1>4. SumOver[f] = SumOver[rest] + SumOver[old] /\ SumOver[new] = SumOver[rest] + SumOver[one]
    <2>1. ASSUME NEW F \in [Namespaces -> Counts], NEW G \in [Namespaces -> Counts],
                 NEW H \in [Namespaces -> Counts], \A m \in Namespaces : F[m] = G[m] + H[m]
          PROVE  SumOver[F] = SumOver[G] + SumOver[H]
        BY <2>1, SumAssumption
    <2> QED BY <1>1, <1>2, <2>1
<1>5. SumOver[rest] \in Nat /\ SumOver[f] \in Nat /\ f[n] \in Nat /\ v \in Nat
    BY <1>1, CountsNat, SumAssumption
<1> QED BY <1>3, <1>4, <1>5 DEF new

LEMMA SyncItemGood ==
    ASSUME NEW q, Good(q), NEW matching, NEW item \in WorkItems, NEW usage \in Counts
    PROVE  Good(SyncItem(q, matching, item, usage))
<1> DEFINE n == item.ns
           f == UsedBy(q)
<1>1. /\ q \in AcrqObjects /\ q.used = SumOver[f] /\ n \in Namespaces
      /\ f \in [Namespaces -> Counts] /\ f[n] = q.slices[n].used
    BY DEF Good, WorkItems, UsedBy, AcrqObjects, Slices
<1>2. CASE n \notin matching
    <2> DEFINE new == RemoveSlice(q, n)
    <2>1. SyncItem(q, matching, item, usage) = new
        BY <1>2 DEF SyncItem
    <2>2. UsedBy(new) = [f EXCEPT ![n] = 0]
        BY <1>1 DEF UsedBy, RemoveSlice, AcrqObjects, NotLoaded
    <2>3. new.used = q.used - f[n]
        BY <1>1 DEF RemoveSlice, AcrqObjects
    <2>4. SumOver[f] - f[n] \in Nat /\ SumOver[[f EXCEPT ![n] = 0]] = SumOver[f] - f[n]
        <3>1. /\ SumOver[f] - f[n] \in Nat
              /\ SumOver[[f EXCEPT ![n] = 0]] = (SumOver[f] - f[n]) + 0
            BY <1>1, CountsNat, SumReplaces
        <3>2. \A x \in Nat : x + 0 = x
            OBVIOUS
        <3> QED BY <3>1, <3>2
    <2>5. NotLoaded \in Slices
        BY CountsNat DEF NotLoaded, Slices
    <2>6. new \in AcrqObjects
        BY <1>1, <2>3, <2>4, <2>5 DEF RemoveSlice, AcrqObjects
    <2> QED BY <1>1, <2>1, <2>2, <2>3, <2>4, <2>6 DEF Good
<1>3. CASE n \in matching /\ ~item.force /\ q.slices[n].loaded /\ q.slices[n].hard = q.hard
    BY <1>3 DEF SyncItem
<1>4. CASE n \in matching /\ ~(~item.force /\ q.slices[n].loaded /\ q.slices[n].hard = q.hard)
    <2> DEFINE slice == [loaded |-> TRUE, used |-> usage, hard |-> q.hard]
               new == [q EXCEPT !.used = (@ - q.slices[n].used) + usage, !.slices[n] = slice]
    <2>1. SyncItem(q, matching, item, usage) = new
        BY <1>4 DEF SyncItem
    <2>2. UsedBy(new) = [f EXCEPT ![n] = usage]
        BY <1>1 DEF UsedBy, AcrqObjects
    <2>3. new.used = (q.used - f[n]) + usage
        BY <1>1 DEF AcrqObjects
    <2>4. SumOver[f] - f[n] \in Nat /\ SumOver[[f EXCEPT ![n] = usage]] = (SumOver[f] - f[n]) + usage
        BY <1>1, SumReplaces
    <2>5. slice \in Slices
        BY <1>1 DEF AcrqObjects, Slices
    <2>6. (q.used - f[n]) + usage \in Nat
        BY <1>1, <2>4, CountsNat
    <2>7. new \in AcrqObjects
        BY <1>1, <2>3, <2>5, <2>6 DEF AcrqObjects
    <2> QED BY <1>1, <2>1, <2>2, <2>3, <2>4, <2>7 DEF Good
<1> QED BY <1>2, <1>3, <1>4

LEMMA FinishSyncGood ==
    ASSUME NEW q, Good(q), NEW matching
    PROVE  Good(FinishSync(q, matching))
<1> DEFINE f == UsedBy(q)
           kept == [n \in Namespaces |-> IF n \in matching THEN q.slices[n].used ELSE 0]
           gone == [n \in Namespaces |-> IF n \in matching THEN 0 ELSE q.slices[n].used]
           new == FinishSync(q, matching)
<1>1. /\ q \in AcrqObjects /\ q.used = SumOver[f] /\ f \in [Namespaces -> Counts]
      /\ kept \in [Namespaces -> Counts] /\ gone \in [Namespaces -> Counts]
    BY CountsNat DEF Good, UsedBy, AcrqObjects, Slices
<1>2. \A n \in Namespaces : f[n] = kept[n] + gone[n]
    BY <1>1, CountsNat DEF UsedBy
<1>3. UsedBy(new) = kept
    BY <1>1 DEF UsedBy, FinishSync, AcrqObjects, NotLoaded
<1>4. new.used = q.used - SumOver[gone]
    BY <1>1 DEF FinishSync, AcrqObjects
<1> HIDE DEF f, kept, gone
<1>5. SumOver[f] = SumOver[kept] + SumOver[gone] /\ SumOver[kept] \in Nat /\ SumOver[gone] \in Nat
    BY <1>1, <1>2, SumAssumption
<1>6. new.used = SumOver[kept] /\ new.used \in Nat
    BY <1>1, <1>4, <1>5
<1>7. NotLoaded \in Slices
    BY CountsNat DEF NotLoaded, Slices
<1>8. new \in AcrqObjects
    BY <1>1, <1>6, <1>7 DEF FinishSync, AcrqObjects
<1> QED BY <1>3, <1>6, <1>8 DEF Good

\* There are finitely many work items.
LEMMA WorkItemsFinite ==
    ASSUME NEW items \in SUBSET WorkItems
    PROVE  IsFiniteSet(items)
<1> DEFINE f == [i \in items |-> <<i.ns, IF i.force THEN 1 ELSE 0>>]
<1>1. IsFiniteSet(0 .. 1)
    <2>1. 0 \in Int /\ 1 \in Int
        OBVIOUS
    <2> QED BY <2>1, FS_Interval, Zenon
<1>2. IsFiniteSet(Namespaces \X (0 .. 1))
    BY <1>1, SumAssumption, FS_Product
<1>3. f \in Injection(items, Namespaces \X (0 .. 1))
    <2>1. f \in [items -> Namespaces \X (0 .. 1)]
        BY DEF WorkItems
    <2>2. \A i, j \in items : f[i] = f[j] => i = j
        BY DEF WorkItems
    <2> QED BY <2>1, <2>2 DEF Injection, IsInjective
<1> HIDE DEF f
<1> QED BY <1>2, <1>3, FS_Injection

\* The loop keeps the total the sum, whatever the items and their order.
LEMMA SyncedGood ==
    ASSUME NEW items \in SUBSET WorkItems, NEW matching, Good(Cached(acrq))
    PROVE  Good(Synced(matching, items))
<1>1. IsFiniteSet(items)
    BY WorkItemsFinite
<1>2. PICK g : /\ Synced(matching, items) = FinishSync(g[items], matching)
               /\ \A s \in SUBSET items : g[s] = After(g, s, matching)
    BY <1>1, SyncedLoops
<1> DEFINE Bad == {s \in SUBSET items : ~Good(g[s])}
<1>3. Bad = {}
    <2> SUFFICES ASSUME Bad # {} PROVE FALSE
        OBVIOUS
    <2>1. Bad \in SUBSET (SUBSET items)
        OBVIOUS
    <2> HIDE DEF Bad
    <2>2. PICK s \in Bad : \A t \in Bad : t \subseteq s => t = s
        BY <1>1, <2>1, MinimalSubset
    <2>3. s \in SUBSET items /\ ~Good(g[s]) /\ g[s] = After(g, s, matching)
        BY <1>2, <2>2 DEF Bad
    <2>4. CASE s = {}
        BY <2>3, <2>4 DEF After
    <2>5. CASE s # {}
        <3> DEFINE i == Choose(s)
        <3>1. i \in s /\ i \in WorkItems /\ s \ {i} \in SUBSET items /\ s \ {i} \subseteq s /\ s \ {i} # s
            BY <2>3, <2>5 DEF Choose
        <3>2. Good(g[s \ {i}])
            BY <2>2, <3>1 DEF Bad
        <3>3. g[s] = SyncItem(g[s \ {i}], matching, i, Usage(i.ns, Cached(pods)))
            BY <2>3, <2>5 DEF After
        <3> HIDE DEF i
        <3> QED BY <2>3, <3>1, <3>2, <3>3, CountsType, SyncItemGood
    <2> QED BY <2>4, <2>5
<1>4. Good(g[items])
    BY <1>3
<1> QED BY <1>2, <1>4, FinishSyncGood

-----------------------------------------------------------------------------
(* The invariant, in two parts.                                             *)

GoodQuotas == {q \in AcrqObjects : q.used = SumOver[UsedBy(q)]}

\* Versions and copies of the quota.
Totals ==
    /\ acrq \in Seq(GoodQuotas) /\ acrq # <<>>
    /\ bw \in BwStates /\ bw.quota \in GoodQuotas
    /\ nw \in [Namespaces -> NwStates] /\ \A n \in Namespaces : nw[n].quota \in GoodQuotas

\* Everything else.
Surroundings ==
    /\ pods \in Seq([Pods -> PodStates]) /\ pods # <<>>
    /\ aaqjqc \in [Namespaces -> JobQueues]
    /\ label \in [Namespaces -> Labels]
    /\ mapped \subseteq Namespaces /\ completed \in Selectors \cup {{}}
    /\ noted \in [Namespaces -> SUBSET Labels]
    /\ pending \subseteq WorkItems /\ queued \in BOOLEAN
    /\ nsQ \subseteq Namespaces /\ gateQ \subseteq Namespaces
    /\ changes \in Nat

LEMMA InvParts == (TypeOK /\ TotalIsSum) <=> (Totals /\ Surroundings)
<1>1. acrq \in Seq(AcrqObjects) /\ (\A i \in 1 .. Len(acrq) : acrq[i].used = SumOver[UsedBy(acrq[i])])
          <=> acrq \in Seq(GoodQuotas)
    BY DEF GoodQuotas
<1>2. bw \in BwStates /\ bw.quota.used = SumOver[UsedBy(bw.quota)]
          <=> bw \in BwStates /\ bw.quota \in GoodQuotas
    BY DEF GoodQuotas, BwStates
<1>3. nw \in [Namespaces -> NwStates] /\ (\A n \in Namespaces : nw[n].quota.used = SumOver[UsedBy(nw[n].quota)])
          <=> nw \in [Namespaces -> NwStates] /\ \A n \in Namespaces : nw[n].quota \in GoodQuotas
    BY DEF GoodQuotas, NwStates
<1> QED BY <1>1, <1>2, <1>3 DEF TypeOK, TotalIsSum, Totals, Surroundings

\* Versions between the cache and the API server.
LEMMA VersionsHold ==
    ASSUME NEW S, NEW versions \in Seq(S), versions # <<>>
    PROVE  /\ Cached(versions) \in S /\ Current(versions) \in S
           /\ <<Current(versions)>> \in Seq(S) /\ <<Current(versions)>> # <<>>
           /\ \A x \in S : Append(versions, x) \in Seq(S) /\ Append(versions, x) # <<>>
           /\ Len(versions) > 1 => /\ Tail(versions) \in Seq(S) /\ Tail(versions) # <<>>
                                   /\ versions[2] \in S
<1>1. Len(versions) \in Nat /\ Len(versions) >= 1 /\ \A i \in 1 .. Len(versions) : versions[i] \in S
    OBVIOUS
<1>2. Cached(versions) \in S /\ Current(versions) \in S
    BY <1>1 DEF Cached, Current
<1>3. \A x \in S : Append(versions, x) \in Seq(S) /\ Append(versions, x) # <<>>
    <2> SUFFICES ASSUME NEW x \in S PROVE Append(versions, x) \in Seq(S) /\ Append(versions, x) # <<>>
        OBVIOUS
    <2>1. Append(versions, x) \in Seq(S) /\ Len(Append(versions, x)) = Len(versions) + 1
        OBVIOUS
    <2> QED BY <1>1, <2>1
<1>4. ASSUME Len(versions) > 1 PROVE Tail(versions) \in Seq(S) /\ Tail(versions) # <<>> /\ versions[2] \in S
    <2>1. Tail(versions) \in Seq(S) /\ Len(Tail(versions)) = Len(versions) - 1
        OBVIOUS
    <2>2. Len(Tail(versions)) # 0 /\ 2 \in 1 .. Len(versions)
        BY <1>1, <1>4, <2>1
    <2>3. Tail(versions) # <<>>
        BY <2>1, <2>2
    <2>4. versions[2] \in S
        BY <1>1, <2>2
    <2> QED BY <2>1, <2>3, <2>4
<1>5. <<Current(versions)>> \in Seq(S) /\ <<Current(versions)>> # <<>>
    BY <1>2
<1> QED BY <1>2, <1>3, <1>4, <1>5

LEMMA ObjectsGood ==
    /\ NoAcrq \in GoodQuotas
    /\ \A h \in Hards, s \in Selectors : NewAcrq(h, s) \in GoodQuotas
    /\ \A q \in GoodQuotas, h \in Hards, s \in Selectors :
          [q EXCEPT !.hard = h, !.selector = s] \in GoodQuotas
<1>1. NotLoaded \in Slices
    BY CountsNat DEF NotLoaded, Slices
<1>2. ASSUME NEW q \in AcrqObjects, q.slices = [n \in Namespaces |-> NotLoaded], q.used = 0
      PROVE  q \in GoodQuotas
    <2>1. UsedBy(q) = [n \in Namespaces |-> 0]
        BY <1>2 DEF UsedBy, NotLoaded
    <2> QED BY <1>2, <2>1, SumZero DEF GoodQuotas
<1>3. NoAcrq \in GoodQuotas
    <2>1. NoAcrq \in AcrqObjects /\ NoAcrq.slices = [n \in Namespaces |-> NotLoaded] /\ NoAcrq.used = 0
        BY <1>1 DEF NoAcrq, NewAcrq, AcrqObjects
    <2> QED BY <1>2, <2>1
<1>4. ASSUME NEW h \in Hards, NEW s \in Selectors PROVE NewAcrq(h, s) \in GoodQuotas
    <2> DEFINE q == NewAcrq(h, s)
    <2>1. q \in AcrqObjects /\ q.slices = [n \in Namespaces |-> NotLoaded] /\ q.used = 0
        BY <1>1 DEF NewAcrq, AcrqObjects
    <2> HIDE DEF q
    <2> QED BY <1>2, <2>1 DEF q
<1>5. ASSUME NEW q \in GoodQuotas, NEW h \in Hards, NEW s \in Selectors
      PROVE  [q EXCEPT !.hard = h, !.selector = s] \in GoodQuotas
    <2> DEFINE new == [q EXCEPT !.hard = h, !.selector = s]
    <2>1. new \in AcrqObjects /\ new.used = q.used /\ new.slices = q.slices
        BY DEF GoodQuotas, AcrqObjects
    <2>2. UsedBy(new) = UsedBy(q)
        BY <2>1 DEF UsedBy
    <2> QED BY <2>1, <2>2 DEF GoodQuotas
<1> QED BY <1>3, <1>4, <1>5

\* Marking copies as stale changes no copy.
LEMMA StaleCopies ==
    ASSUME Totals
    PROVE  /\ StaleBw \in BwStates /\ StaleBw.quota \in GoodQuotas
           /\ StaleNw \in [Namespaces -> NwStates] /\ \A n \in Namespaces : StaleNw[n].quota \in GoodQuotas
    BY DEF Totals, StaleBw, StaleNw, BwStates, NwStates

LEMMA IdleWorkers ==
    /\ BwIdle \in BwStates /\ BwIdle.quota \in GoodQuotas
    /\ NwIdle \in NwStates /\ NwIdle.quota \in GoodQuotas
<1>1. NoAcrq \in GoodQuotas /\ NoAcrq \in AcrqObjects
    BY ObjectsGood DEF GoodQuotas
<1> QED BY <1>1 DEF BwIdle, NwIdle, BwStates, NwStates, NoJobs, JobQueues

LEMMA SyncedType ==
    ASSUME Totals, NEW items \in SUBSET WorkItems, NEW matching
    PROVE  Synced(matching, items) \in GoodQuotas
<1>1. Good(Cached(acrq))
    BY VersionsHold DEF Totals, GoodQuotas, Good
<1> QED BY <1>1, SyncedGood DEF Good, GoodQuotas

-----------------------------------------------------------------------------
(* The ACRQ controller's own steps.                                         *)

LEMMA BwSyncStep ==
    ASSUME Totals, Surroundings, NEW S, S \subseteq pending, BwSync(S)
    PROVE  Totals' /\ bw.pc = "idle" /\ pending' \subseteq WorkItems /\ queued' \in BOOLEAN
<1> DEFINE q == Synced(mapped, pending \ S)
<1>1. q \in GoodQuotas /\ q \in AcrqObjects
    BY SyncedType DEF Surroundings, GoodQuotas
<1>2. /\ UNCHANGED <<acrq, nw>> /\ bw.pc = "idle"
      /\ pending' \in {pending, {}, S}
      /\ queued' \in {queued, FALSE, S # {}}
      /\ \/ bw' = bw
         \/ bw' = [pc |-> "write", quota |-> q, current |-> UpToDate(acrq), items |-> pending, retry |-> S]
    BY DEF BwSync
<1> DEFINE write == [pc |-> "write", quota |-> q, current |-> UpToDate(acrq), items |-> pending, retry |-> S]
<1> HIDE DEF q
<1>3. bw' \in BwStates /\ bw'.quota \in GoodQuotas
    <2>1. pending \in SUBSET WorkItems /\ S \in SUBSET WorkItems /\ UpToDate(acrq) \in BOOLEAN
        BY DEF Surroundings, UpToDate
    <2>2. write \in BwStates /\ write.quota = q
        BY <1>1, <2>1 DEF BwStates
    <2> HIDE DEF write
    <2>3. bw' = bw \/ bw' = write
        BY <1>2 DEF write
    <2> QED BY <1>1, <2>2, <2>3 DEF Totals
<1>4. pending' \subseteq WorkItems /\ queued' \in BOOLEAN
    BY <1>2 DEF Surroundings
<1> QED BY <1>2, <1>3, <1>4 DEF Totals

LEMMA BwUpdateStep ==
    ASSUME Totals, Surroundings, BwUpdate
    PROVE  Totals' /\ Surroundings'
<1>1. /\ bw' = BwIdle /\ UNCHANGED <<pods, aaqjqc, label, mapper, nsQ, gateQ, changes>>
      /\ \/ acrq' = Append(acrq, bw.quota) /\ nw' = StaleNw
         \/ UNCHANGED <<acrq, nw>>
      /\ \/ UNCHANGED <<pending, queued>>
         \/ queued' = TRUE /\ pending' \in {pending \cup bw.items, pending \cup bw.retry}
    BY DEF BwUpdate, WriteAcrq, BwRetry
<1>2. bw.items \subseteq WorkItems /\ bw.retry \subseteq WorkItems
    BY DEF Totals, BwStates
<1>3. pending' \subseteq WorkItems /\ queued' \in BOOLEAN
    BY <1>1, <1>2 DEF Surroundings
<1>4. acrq' \in Seq(GoodQuotas) /\ acrq' # <<>>
    BY <1>1, VersionsHold DEF Totals
<1>5. nw' \in [Namespaces -> NwStates] /\ \A n \in Namespaces : nw'[n].quota \in GoodQuotas
    BY <1>1, StaleCopies DEF Totals
<1> QED BY <1>1, <1>3, <1>4, <1>5, IdleWorkers DEF Totals, Surroundings

\* A step that changes one namespace's worker.
LEMMA NwStepTotals ==
    ASSUME Totals, NEW n \in Namespaces, NEW w \in NwStates, w.quota \in GoodQuotas,
           nw' = [nw EXCEPT ![n] = w], UNCHANGED <<acrq, bw>>
    PROVE  Totals'
    BY DEF Totals

LEMMA NsSyncStep ==
    ASSUME Totals, Surroundings, NEW n \in Namespaces, NsSync(n)
    PROVE  Totals' /\ Surroundings'
<1> DEFINE q == Synced(mapped, {[ns |-> n, force |-> TRUE]})
           next == [NwIdle EXCEPT !.job = aaqjqc[n], !.jobCurrent = TRUE]
           write == [next EXCEPT !.pc = "write", !.quota = q, !.current = UpToDate(acrq)]
           unlock == [next EXCEPT !.pc = "unlock"]
<1>1. q \in GoodQuotas /\ q \in AcrqObjects
    <2>1. {[ns |-> n, force |-> TRUE]} \in SUBSET WorkItems
        BY DEF WorkItems
    <2> QED BY <2>1, SyncedType DEF GoodQuotas
<1>2. /\ nw' = [nw EXCEPT ![n] = write] \/ nw' = [nw EXCEPT ![n] = unlock]
      /\ nsQ' = nsQ \ {n} /\ UNCHANGED <<api, label, mapper, pending, queued, bw, gateQ, changes>>
    BY DEF NsSync, NwStep
<1>3. aaqjqc[n] \in JobQueues
    BY DEF Surroundings
<1> HIDE DEF q
<1>4. /\ write \in NwStates /\ write.quota \in GoodQuotas
      /\ unlock \in NwStates /\ unlock.quota \in GoodQuotas
    BY <1>1, <1>3, IdleWorkers DEF NwStates, UpToDate, NwIdle
<1> HIDE DEF write, unlock
<1>5. Totals'
    BY <1>2, <1>4, NwStepTotals
<1> QED BY <1>2, <1>5 DEF Surroundings

LEMMA NsUpdateStep ==
    ASSUME Totals, Surroundings, NEW n \in Namespaces, NsUpdate(n)
    PROVE  Totals' /\ Surroundings'
<1> DEFINE unlock == [nw[n] EXCEPT !.pc = "unlock", !.quota = NoAcrq, !.current = FALSE]
<1>0. nw[n] \in NwStates /\ nw[n].quota \in GoodQuotas
    BY DEF Totals
<1>1. UNCHANGED <<pods, aaqjqc, label, mapper, pending, queued, gateQ, changes>>
    BY DEF NsUpdate
<1>2. CASE nw[n].current
    <2>1. /\ acrq' = Append(acrq, nw[n].quota) /\ nw' = [StaleNw EXCEPT ![n] = unlock]
          /\ bw' = StaleBw /\ nsQ' = nsQ
        BY <1>2 DEF NsUpdate, WriteAcrq
    <2>2. unlock \in NwStates /\ unlock.quota \in GoodQuotas
        BY <1>0, ObjectsGood DEF NwStates, GoodQuotas
    <2> HIDE DEF unlock
    <2>3. acrq' \in Seq(GoodQuotas) /\ acrq' # <<>>
        BY <1>0, <2>1, VersionsHold DEF Totals
    <2>4. Totals'
        BY <2>1, <2>2, <2>3, StaleCopies DEF Totals
    <2> QED BY <1>1, <2>1, <2>4 DEF Surroundings
<1>3. CASE ~nw[n].current
    <2>1. nw' = [nw EXCEPT ![n] = NwIdle] /\ nsQ' = nsQ \cup {n} /\ UNCHANGED <<acrq, bw>>
        BY <1>3 DEF NsUpdate, Immediate, NwStep
    <2>2. Totals'
        BY <2>1, IdleWorkers, NwStepTotals
    <2> QED BY <1>1, <2>1, <2>2 DEF Surroundings
<1> QED BY <1>2, <1>3

LEMMA NsUnlockStep ==
    ASSUME Totals, Surroundings, NEW n \in Namespaces, NsUnlock(n)
    PROVE  Totals' /\ Surroundings'
<1>1. /\ nw' = [nw EXCEPT ![n] = NwIdle]
      /\ UNCHANGED <<pods, acrq, label, mapper, pending, queued, bw, changes>>
      /\ nsQ' \in {nsQ, nsQ \cup {n}} /\ gateQ' \in {gateQ, gateQ \cup {n}}
      /\ \/ aaqjqc' = aaqjqc
         \/ aaqjqc' = [aaqjqc EXCEPT ![n] = [nw[n].job EXCEPT !.acrqLock = FALSE]]
    BY DEF NsUnlock, NwStep, Immediate, WriteJobs
<1>2. Totals'
    BY <1>1, IdleWorkers, NwStepTotals
<1>3. [nw[n].job EXCEPT !.acrqLock = FALSE] \in JobQueues
    BY DEF Totals, NwStates, JobQueues
<1>4. aaqjqc' \in [Namespaces -> JobQueues]
    BY <1>1, <1>3 DEF Surroundings
<1> QED BY <1>1, <1>2, <1>4 DEF Surroundings

-----------------------------------------------------------------------------
(* Everybody else's steps.                                                  *)

\* A write to a job queue makes the worker's copy of it stale.
LEMMA JobStaleTotals ==
    ASSUME Totals, NEW n \in Namespaces,
           nw' = [nw EXCEPT ![n].jobCurrent = FALSE], UNCHANGED <<acrq, bw>>
    PROVE  Totals'
<1> DEFINE w == [nw[n] EXCEPT !.jobCurrent = FALSE]
<1>1. w \in NwStates /\ w.quota \in GoodQuotas
    BY DEF Totals, NwStates
<1>2. nw' = [nw EXCEPT ![n] = w]
    BY DEF Totals
<1> HIDE DEF w
<1> QED BY <1>1, <1>2, NwStepTotals

LEMMA GateStep ==
    ASSUME Totals, Surroundings, NEW n \in Namespaces, Gate(n) \/ ArqUnlock(n)
    PROVE  Totals' /\ Surroundings'
<1>1. CASE GateRecord(n)
    <2>1. PICK S \in CheckRequests(n) :
              IF S = {}
              THEN gateQ' = gateQ \ {n} /\ UNCHANGED <<aaqjqc, nsQ, nw>>
              ELSE /\ WriteJobs(n, [queue |-> S, arqLock |-> TRUE, acrqLock |-> TRUE])
                   /\ nsQ' = nsQ \cup {n}
                   /\ nw' = [nw EXCEPT ![n].jobCurrent = FALSE]
        BY <1>1 DEF GateRecord
    <2>2. UNCHANGED <<pods, acrq, label, mapper, pending, queued, bw, changes>>
        BY <1>1 DEF GateRecord
    <2>3. CASE S = {}
        BY <2>1, <2>2, <2>3 DEF Totals, Surroundings
    <2>4. CASE S # {}
        <3>1. [queue |-> S, arqLock |-> TRUE, acrqLock |-> TRUE] \in JobQueues
            BY <2>1 DEF CheckRequests, GatedIn, JobQueues
        <3>2. aaqjqc' \in [Namespaces -> JobQueues] /\ gateQ' = gateQ \cup {n} /\ nsQ' = nsQ \cup {n}
            BY <2>1, <2>4, <3>1 DEF WriteJobs, Surroundings
        <3>3. Totals'
            BY <2>1, <2>2, <2>4, JobStaleTotals
        <3> QED BY <2>2, <3>2, <3>3 DEF Surroundings
    <2> QED BY <2>3, <2>4
<1>2. ASSUME NEW p \in Pods, GateRelease(p) PROVE Totals' /\ Surroundings'
    <2>1. /\ pods' = Append(pods, [Current(pods) EXCEPT ![p] = "free"])
          /\ UNCHANGED <<acrq, aaqjqc, label, mapper, queues, bw, nw, gateQ, changes>>
        BY <1>2 DEF GateRelease, WritePod
    <2>2. [Current(pods) EXCEPT ![p] = "free"] \in [Pods -> PodStates]
        BY VersionsHold DEF Surroundings, PodStates
    <2>3. pods' \in Seq([Pods -> PodStates]) /\ pods' # <<>>
        BY <2>1, <2>2, VersionsHold DEF Surroundings
    <2> QED BY <2>1, <2>3 DEF Totals, Surroundings
<1>3. CASE ArqUnlock(n)
    <2>1. /\ aaqjqc' = [aaqjqc EXCEPT ![n] = [aaqjqc[n] EXCEPT !.arqLock = FALSE]]
          /\ gateQ' = gateQ \cup {n} /\ nsQ' \in {nsQ, nsQ \cup {n}}
          /\ nw' = [nw EXCEPT ![n].jobCurrent = FALSE]
          /\ UNCHANGED <<pods, acrq, label, mapper, pending, queued, bw, changes>>
        BY <1>3 DEF ArqUnlock, WriteJobs
    <2>2. aaqjqc' \in [Namespaces -> JobQueues]
        BY <2>1 DEF Surroundings, JobQueues
    <2>3. Totals'
        BY <2>1, JobStaleTotals
    <2> QED BY <2>1, <2>2, <2>3 DEF Surroundings
<1> QED BY <1>1, <1>2, <1>3 DEF Gate

LEMMA ItemsType ==
    ASSUME NEW S \in SUBSET Namespaces, NEW f \in BOOLEAN
    PROVE  Items(S, f) \in SUBSET WorkItems
    BY DEF Items, WorkItems

\* What the mapper, the informers, the timers and the users leave as it is
\* typed, but for the quota and its copies.
LEMMA QueuesStep ==
    ASSUME Surroundings, NEW D \in SUBSET WorkItems, AddWithData(D)
    PROVE  pending' \subseteq WorkItems /\ queued' \in BOOLEAN
    BY DEF Surroundings, AddWithData

LEMMA MapperStep ==
    ASSUME Totals, Surroundings, Mapper
    PROVE  Totals' /\ Surroundings'
<1>0. Cached(acrq).selector \in Selectors \cup {{}}
    <2>1. Cached(acrq) \in AcrqObjects
        BY VersionsHold DEF Totals, GoodQuotas
    <2> QED BY <2>1 DEF AcrqObjects
<1>1. UNCHANGED <<api, label, bw, nw, gateQ, nsQ, changes>>
    BY DEF Mapper, SetMapping, CompleteNamespace, CompleteQuota, RemoveQuota
<1>2. pending' \subseteq WorkItems /\ queued' \in BOOLEAN
    <2>1. ASSUME NEW n \in Namespaces, SetMapping(n)
          PROVE  pending' \subseteq WorkItems /\ queued' \in BOOLEAN
        <3>1. AddWithData(Items({n}, FALSE)) /\ Items({n}, FALSE) \in SUBSET WorkItems
            BY <2>1, ItemsType DEF SetMapping
        <3> QED BY <3>1, QueuesStep
    <2>2. CASE RemoveQuota
        <3>1. AddWithData(Items(mapped, FALSE)) /\ Items(mapped, FALSE) \in SUBSET WorkItems
            BY <2>2, ItemsType DEF RemoveQuota, Surroundings
        <3> QED BY <3>1, QueuesStep
    <2>3. CASE UNCHANGED <<pending, queued>>
        BY <2>3 DEF Surroundings
    <2> QED BY <2>1, <2>2, <2>3 DEF Mapper, CompleteNamespace, CompleteQuota
<1>3. mapped' \subseteq Namespaces /\ completed' \in Selectors \cup {{}}
    BY <1>0 DEF Mapper, SetMapping, CompleteNamespace, CompleteQuota, RemoveQuota, Surroundings
<1>4. noted' \in [Namespaces -> SUBSET Labels]
    <2>1. ASSUME NEW n \in Namespaces, CompleteNamespace(n) PROVE noted' \in [Namespaces -> SUBSET Labels]
        <3>1. label[n] \in Labels
            BY DEF Surroundings
        <3> QED BY <2>1, <3>1 DEF CompleteNamespace, Surroundings
    <2> QED BY <2>1 DEF Mapper, SetMapping, CompleteQuota, RemoveQuota, Surroundings
<1> QED BY <1>1, <1>2, <1>3, <1>4 DEF Totals, Surroundings

LEMMA InformerStep ==
    ASSUME Totals, Surroundings, PodEvent \/ AcrqEvent
    PROVE  Totals' /\ Surroundings'
<1>1. CASE PodEvent
    <2> DEFINE touched == {p \in Pods : pods[1][p] # pods[2][p]}
               counted == {NsOf[p] : p \in {p \in touched : Present(pods[1][p]) # Present(pods[2][p])}}
    <2>1. /\ Len(pods) > 1 /\ pods' = Tail(pods)
          /\ AddWithData(Items(counted \cap mapped, TRUE))
          /\ gateQ' = gateQ \cup {NsOf[p] : p \in {p \in touched : pods[2][p] = "gated"}}
          /\ UNCHANGED <<acrq, aaqjqc, label, mapper, bw, nw, nsQ, changes>>
        BY <1>1 DEF PodEvent
    <2>2. counted \cap mapped \in SUBSET Namespaces
        BY DEF Surroundings
    <2>3. gateQ' \subseteq Namespaces
        BY <2>1, AcrqAssumption DEF Surroundings
    <2> HIDE DEF touched, counted
    <2>4. pending' \subseteq WorkItems /\ queued' \in BOOLEAN
        BY <2>1, <2>2, ItemsType, QueuesStep
    <2>5. pods' \in Seq([Pods -> PodStates]) /\ pods' # <<>>
        BY <2>1, VersionsHold DEF Surroundings
    <2> QED BY <2>1, <2>3, <2>4, <2>5 DEF Totals, Surroundings
<1>2. CASE AcrqEvent
    <2>1. /\ Len(acrq) > 1 /\ acrq' = Tail(acrq)
          /\ AddWithData(Items(mapped, FALSE)) \/ UNCHANGED <<pending, queued>>
          /\ gateQ' \in {gateQ, gateQ \cup mapped}
          /\ mapped' \in {mapped, {}} /\ completed' \in {completed, {}} /\ noted' = noted
          /\ UNCHANGED <<pods, aaqjqc, label, bw, nw, nsQ, changes>>
        BY <1>2 DEF AcrqEvent
    <2>2. Items(mapped, FALSE) \in SUBSET WorkItems
        BY ItemsType DEF Surroundings
    <2>3. pending' \subseteq WorkItems /\ queued' \in BOOLEAN
        BY <2>1, <2>2, QueuesStep DEF Surroundings
    <2>4. acrq' \in Seq(GoodQuotas) /\ acrq' # <<>>
        BY <2>1, VersionsHold DEF Totals
    <2> QED BY <2>1, <2>3, <2>4 DEF Totals, Surroundings
<1> QED BY <1>1, <1>2

LEMMA TimerStep ==
    ASSUME Totals, Surroundings, InformerResync \/ CalculateAll
    PROVE  Totals' /\ Surroundings'
<1>1. CASE InformerResync
    <2> DEFINE D == Items({n \in mapped : Usage(n, Cached(pods)) > 0}, TRUE)
                      \cup (IF Cached(acrq).exists THEN Items(mapped, FALSE) ELSE {})
    <2>1. /\ gateQ' \subseteq gateQ \cup Namespaces \cup mapped /\ nsQ' \subseteq nsQ \cup Namespaces
          /\ AddWithData(D)
          /\ UNCHANGED <<api, label, mapper, bw, nw, changes>>
        BY <1>1 DEF InformerResync
    <2>2. D \in SUBSET WorkItems
        <3>1. {n \in mapped : Usage(n, Cached(pods)) > 0} \in SUBSET Namespaces /\ mapped \in SUBSET Namespaces
            BY DEF Surroundings
        <3>2. /\ Items({n \in mapped : Usage(n, Cached(pods)) > 0}, TRUE) \in SUBSET WorkItems
              /\ Items(mapped, FALSE) \in SUBSET WorkItems
            BY <3>1, ItemsType
        <3> QED BY <3>2
    <2> HIDE DEF D
    <2>3. pending' \subseteq WorkItems /\ queued' \in BOOLEAN
        BY <2>1, <2>2, QueuesStep
    <2> QED BY <2>1, <2>3 DEF Totals, Surroundings
<1>2. CASE CalculateAll
    <2>1. /\ pending' = pending \cup Items(mapped, TRUE) /\ queued' \in BOOLEAN
          /\ UNCHANGED <<api, label, mapper, bw, nw, nsQ, gateQ, changes>>
        BY <1>2 DEF CalculateAll
    <2>2. Items(mapped, TRUE) \in SUBSET WorkItems
        BY ItemsType DEF Surroundings
    <2> QED BY <2>1, <2>2 DEF Totals, Surroundings
<1> QED BY <1>1, <1>2

LEMMA UserStep ==
    ASSUME Totals, Surroundings, Users
    PROVE  Totals' /\ Surroundings'
<1>0. ASSUME Change PROVE changes' \in Nat
    BY <1>0 DEF Change, Surroundings
<1>1. ASSUME NEW p \in Pods, CreatePod(p) \/ DeletePod(p) PROVE Totals' /\ Surroundings'
    <2>1. PICK s \in PodStates : pods' = Append(pods, [Current(pods) EXCEPT ![p] = s])
        BY <1>1 DEF CreatePod, DeletePod, WritePod, PodStates
    <2>2. [Current(pods) EXCEPT ![p] = s] \in [Pods -> PodStates]
        BY VersionsHold DEF Surroundings
    <2>3. pods' \in Seq([Pods -> PodStates]) /\ pods' # <<>>
        BY <2>1, <2>2, VersionsHold DEF Surroundings
    <2>4. UNCHANGED <<acrq, aaqjqc, label, mapper, queues, bw, nw, gateQ>> /\ Change
        BY <1>1 DEF CreatePod, DeletePod
    <2> QED BY <1>0, <2>3, <2>4 DEF Totals, Surroundings
<1>2. ASSUME NEW n \in Namespaces, NEW l \in Labels, Relabel(n, l) PROVE Totals' /\ Surroundings'
    BY <1>0, <1>2 DEF Relabel, Totals, Surroundings
<1>3. ASSUME NEW q \in GoodQuotas, UserWritesAcrq(q) PROVE Totals' /\ Surroundings'
    <2>1. /\ acrq' = Append(acrq, q) /\ bw' = StaleBw /\ nw' = StaleNw /\ Change
          /\ UNCHANGED <<pods, aaqjqc, label, mapper, queues, gateQ>>
        BY <1>3 DEF UserWritesAcrq, WriteAcrq
    <2>2. acrq' \in Seq(GoodQuotas) /\ acrq' # <<>>
        BY <1>3, <2>1, VersionsHold DEF Totals
    <2> QED BY <1>0, <2>1, <2>2, StaleCopies DEF Totals, Surroundings
<1>4. ASSUME NEW h \in Hards, NEW s \in Selectors, ChangeQuota(h, s) PROVE Totals' /\ Surroundings'
    <2>1. Current(acrq) \in GoodQuotas
        BY VersionsHold DEF Totals
    <2>2. [Current(acrq) EXCEPT !.hard = h, !.selector = s] \in GoodQuotas
        BY <2>1, ObjectsGood
    <2> QED BY <1>3, <1>4, <2>2 DEF ChangeQuota
<1>5. CASE DeleteQuota
    BY <1>3, <1>5, ObjectsGood DEF DeleteQuota
<1> QED BY <1>1, <1>2, <1>4, <1>5 DEF Users

LEMMA FaultStep ==
    ASSUME Totals, Surroundings, Faults
    PROVE  Totals' /\ Surroundings'
<1>0. ASSUME Change PROVE changes' \in Nat
    BY <1>0 DEF Change, Surroundings
<1>1. ASSUME NEW S \in SUBSET WorkItems, BwItemsFail(S) PROVE Totals' /\ Surroundings'
    <2>1. S \subseteq pending /\ BwSync(S) /\ Change
        BY <1>1 DEF BwItemsFail
    <2>2. UNCHANGED <<api, label, mapper, nw, nsQ, gateQ>>
        BY <2>1 DEF BwSync
    <2> QED BY <1>0, <2>1, <2>2, BwSyncStep DEF Surroundings
<1>2. CASE BwFails
    <2>1. /\ bw' = BwIdle /\ pending' = pending \cup bw.items /\ queued' = TRUE /\ Change
          /\ UNCHANGED <<api, label, mapper, nw, nsQ, gateQ>>
        BY <1>2 DEF BwFails, BwRetry
    <2>2. bw.items \subseteq WorkItems
        BY DEF Totals, BwStates
    <2> QED BY <1>0, <2>1, <2>2, IdleWorkers DEF Totals, Surroundings
<1>3. ASSUME NEW n \in Namespaces, NsFails(n) PROVE Totals' /\ Surroundings'
    <2>1. /\ nw' = [nw EXCEPT ![n] = NwIdle] /\ nsQ' = nsQ \cup {n} /\ Change
          /\ UNCHANGED <<api, label, mapper, pending, queued, bw, gateQ>>
        BY <1>3 DEF NsFails, Immediate, NwStep
    <2>2. Totals'
        BY <2>1, IdleWorkers, NwStepTotals
    <2> QED BY <1>0, <2>1, <2>2 DEF Surroundings
<1>4. CASE Restart
    <2>1. /\ pods' = <<Current(pods)>> /\ acrq' = <<Current(acrq)>> /\ Change
          /\ mapped' = {} /\ completed' = {} /\ noted' = [n \in Namespaces |-> {}]
          /\ pending' = {} /\ queued' = FALSE
          /\ bw' = BwIdle /\ nw' = [n \in Namespaces |-> NwIdle]
          /\ nsQ' \subseteq Namespaces /\ gateQ' \subseteq Namespaces
          /\ UNCHANGED <<aaqjqc, label>>
        BY <1>4 DEF Restart
    <2>2. acrq' \in Seq(GoodQuotas) /\ acrq' # <<>>
        BY <2>1, VersionsHold DEF Totals
    <2>3. pods' \in Seq([Pods -> PodStates]) /\ pods' # <<>>
        BY <2>1, VersionsHold DEF Surroundings
    <2> QED BY <1>0, <2>1, <2>2, <2>3, IdleWorkers DEF Totals, Surroundings
<1> QED BY <1>1, <1>2, <1>3, <1>4 DEF Faults

LEMMA ClusterStep ==
    ASSUME Totals, Surroundings, [Next]_vars
    PROVE  Totals' /\ Surroundings'
<1>1. CASE Bw
    <2>1. CASE BwSync({}) /\ UNCHANGED changes
        <3>1. UNCHANGED <<api, label, mapper, nw, nsQ, gateQ>>
            BY <2>1 DEF BwSync
        <3> QED BY <2>1, <3>1, BwSyncStep DEF Surroundings
    <2> QED BY <1>1, <2>1, BwUpdateStep DEF Bw
<1>2. ASSUME NEW n \in Namespaces, Nw(n) PROVE Totals' /\ Surroundings'
    BY <1>2, NsSyncStep, NsUpdateStep, NsUnlockStep DEF Nw
<1>3. CASE UNCHANGED vars
    BY <1>3 DEF vars, Totals, Surroundings
<1> QED BY <1>1, <1>2, <1>3, GateStep, MapperStep, InformerStep, TimerStep, UserStep, FaultStep DEF Next

-----------------------------------------------------------------------------
\* In every reachable state the cluster quota, the controllers' queues and the
\* workers' copies are well typed, and the total of every version and of every
\* copy (syncQuotaForNamespaces, UpdateStatus) is the sum of its slices.
THEOREM ClusterInvariant == Spec => [](TypeOK /\ TotalIsSum)
<1> DEFINE Inv == Totals /\ Surroundings
<1>1. Init => Inv
    <2> SUFFICES ASSUME Init PROVE Inv
        OBVIOUS
    <2>1. NewAcrq(InitHard, InitSelector) \in GoodQuotas
        BY AcrqAssumption, ObjectsGood
    <2>2. acrq \in Seq(GoodQuotas) /\ acrq # <<>>
        BY <2>1 DEF Init
    <2>3. Totals
        BY <2>2, IdleWorkers DEF Init, Totals
    <2>4. pods \in Seq([Pods -> PodStates]) /\ pods # <<>>
        BY AcrqAssumption DEF Init, PodStates
    <2>5. Surroundings
        BY <2>4, AcrqAssumption DEF Init, Surroundings, NoJobs, JobQueues
    <2> QED BY <2>3, <2>5
<1>2. Inv /\ [Next]_vars => Inv'
    BY ClusterStep
<1>3. Inv => TypeOK /\ TotalIsSum
    BY InvParts
<1> QED BY <1>1, <1>2, <1>3, PTL DEF Spec

\* The types of the cluster quota's objects, queues and workers hold in every
\* reachable state: no correction makes a total negative (Subtract, Add).
COROLLARY ClusterTypeCorrect == Spec => []TypeOK
<1>1. TypeOK /\ TotalIsSum => TypeOK
    OBVIOUS
<1> QED BY <1>1, ClusterInvariant, PTL

\* The total of a cluster quota (status.total.used), which the ACRQ controller
\* only ever corrects by the slices it replaces, is the sum of the slices, through
\* concurrent workers, conflicts, retries, restarts and changes of the selector.
COROLLARY TotalStaysSum == Spec => []TotalIsSum
<1>1. TypeOK /\ TotalIsSum => TotalIsSum
    OBVIOUS
<1> QED BY <1>1, ClusterInvariant, PTL

-----------------------------------------------------------------------------
(***************************************************************************)
(* The cluster lock is not forgotten.                                      *)
(***************************************************************************)

AtWork(n) == nw[n].pc # "idle" /\ nw[n].job.acrqLock
Pursued(n) == aaqjqc[n].acrqLock => n \in nsQ \/ AtWork(n)

\* A worker that goes on, its namespace queued as before.
GoesOn(n) ==
    /\ nw'[n].pc = nw[n].pc /\ nw'[n].job = nw[n].job
    /\ aaqjqc'[n] = aaqjqc[n] /\ (n \in nsQ => n \in nsQ')

LEMMA PursuedGoesOn ==
    ASSUME NEW n \in Namespaces, Pursued(n), GoesOn(n)
    PROVE  Pursued(n)'
    BY DEF Pursued, AtWork, GoesOn

\* Nobody touches the namespaces' workers, but for marking their copies of the
\* quota as stale.
LEMMA UntouchedGoesOn ==
    ASSUME TypeOK, NEW n \in Namespaces, nw' = nw \/ nw' = StaleNw,
           UNCHANGED aaqjqc, nsQ \subseteq nsQ'
    PROVE  GoesOn(n)
<1>1. CASE nw' = StaleNw
    <2>1. nw[n] \in NwStates /\ nw'[n] = [nw[n] EXCEPT !.current = FALSE]
        BY <1>1 DEF TypeOK, StaleNw
    <2>2. nw'[n].pc = nw[n].pc /\ nw'[n].job = nw[n].job
        BY <2>1 DEF NwStates
    <2> QED BY <2>2 DEF GoesOn
<1>2. CASE nw' = nw
    BY <1>2 DEF GoesOn
<1> QED BY <1>1, <1>2

\* One namespace's worker and job queue change; the others' go on.
LEMMA OthersGoOn ==
    ASSUME TypeOK, NEW m \in Namespaces, NEW n \in Namespaces, n # m,
           nw' = nw \/ \E w : nw' = [nw EXCEPT ![m] = w],
           aaqjqc' = aaqjqc \/ \E j : aaqjqc' = [aaqjqc EXCEPT ![m] = j],
           nsQ \ {m} \subseteq nsQ'
    PROVE  GoesOn(n)
<1>1. nw'[n] = nw[n]
    BY DEF TypeOK
<1>2. aaqjqc'[n] = aaqjqc[n]
    BY DEF TypeOK
<1> QED BY <1>1, <1>2 DEF GoesOn

LEMMA PursuedNs ==
    ASSUME TypeOK, NEW m \in Namespaces, Nw(m), NEW n \in Namespaces, Pursued(n)
    PROVE  Pursued(n)'
<1>0. nw[m] \in NwStates /\ nw \in [Namespaces -> NwStates] /\ aaqjqc \in [Namespaces -> JobQueues]
    BY DEF TypeOK
<1>1. CASE NsSync(m)
    <2> DEFINE next == [NwIdle EXCEPT !.job = aaqjqc[m], !.jobCurrent = TRUE]
               q == Synced(mapped, {[ns |-> m, force |-> TRUE]})
               b == UpToDate(acrq)
               w == IF m \in mapped /\ q # Cached(acrq)
                    THEN [next EXCEPT !.pc = "write", !.quota = q, !.current = b]
                    ELSE [next EXCEPT !.pc = "unlock"]
    <2>1. nw' = [nw EXCEPT ![m] = w] /\ nsQ' = nsQ \ {m} /\ UNCHANGED aaqjqc
        BY <1>1 DEF NsSync, NwStep
    <2>2. w.pc # "idle" /\ w.job = aaqjqc[m]
        <3> HIDE DEF q, b
        <3> QED BY DEF NwIdle
    <2> HIDE DEF w
    <2>3. CASE n = m
        <3>1. nw'[n] = w
            BY <1>0, <2>1, <2>3
        <3> QED BY <2>1, <2>2, <2>3, <3>1 DEF Pursued, AtWork
    <2>4. CASE n # m
        BY <2>1, <2>4, OthersGoOn, PursuedGoesOn
    <2> QED BY <2>3, <2>4
<1>2. CASE NsUpdate(m)
    <2>0. UNCHANGED aaqjqc
        BY <1>2 DEF NsUpdate
    <2>1. CASE nw[m].current
        <3> DEFINE w == [nw[m] EXCEPT !.pc = "unlock", !.quota = NoAcrq, !.current = FALSE]
        <3>1. nw' = [StaleNw EXCEPT ![m] = w] /\ nw[m].pc = "write" /\ nsQ' = nsQ
            BY <1>2, <2>1 DEF NsUpdate
        <3>2. w.pc = "unlock" /\ w.job = nw[m].job
            BY <1>0 DEF NwStates
        <3> HIDE DEF w
        <3>3. CASE n = m
            <4>1. nw'[n] = w
                BY <3>1, <3>3 DEF StaleNw
            <4> QED BY <2>0, <3>1, <3>2, <3>3, <4>1 DEF Pursued, AtWork
        <3>4. CASE n # m
            <4>1. nw'[n] = [nw[n] EXCEPT !.current = FALSE] /\ nw[n] \in NwStates
                BY <1>0, <3>1, <3>4 DEF StaleNw
            <4>2. nw'[n].pc = nw[n].pc /\ nw'[n].job = nw[n].job
                BY <4>1 DEF NwStates
            <4> QED BY <2>0, <3>1, <4>2 DEF Pursued, AtWork
        <3> QED BY <3>3, <3>4
    <2>2. CASE ~nw[m].current
        <3>1. nw' = [nw EXCEPT ![m] = NwIdle] /\ nsQ' = nsQ \cup {m}
            BY <1>2, <2>2 DEF NsUpdate, Immediate, NwStep
        <3>2. CASE n = m
            BY <3>1, <3>2 DEF Pursued
        <3>3. CASE n # m
            BY <2>0, <3>1, <3>3, OthersGoOn, PursuedGoesOn
        <3> QED BY <3>2, <3>3
    <2> QED BY <2>1, <2>2
<1>3. CASE NsUnlock(m)
    <2>1. /\ nw' = [nw EXCEPT ![m] = NwIdle] /\ nw[m].pc = "unlock"
          /\ \/ ~nw[m].job.acrqLock /\ UNCHANGED <<aaqjqc, nsQ>>
             \/ aaqjqc' = [aaqjqc EXCEPT ![m] = [nw[m].job EXCEPT !.acrqLock = FALSE]] /\ UNCHANGED nsQ
             \/ nsQ' = nsQ \cup {m} /\ UNCHANGED aaqjqc
        BY <1>3 DEF NsUnlock, NwStep, Immediate, WriteJobs
    <2>2. CASE n # m
        <3>1. aaqjqc' = aaqjqc \/ \E j : aaqjqc' = [aaqjqc EXCEPT ![m] = j]
            BY <2>1
        <3>2. nsQ \ {m} \subseteq nsQ'
            BY <2>1
        <3> QED BY <2>1, <2>2, <3>1, <3>2, OthersGoOn, PursuedGoesOn
    <2>3. CASE n = m /\ ~nw[m].job.acrqLock /\ UNCHANGED <<aaqjqc, nsQ>>
        BY <2>3 DEF Pursued, AtWork
    <2>4. CASE n = m /\ aaqjqc' = [aaqjqc EXCEPT ![m] = [nw[m].job EXCEPT !.acrqLock = FALSE]]
        <3>1. aaqjqc'[n] = [nw[m].job EXCEPT !.acrqLock = FALSE] /\ nw[m].job \in JobQueues
            BY <1>0, <2>4 DEF NwStates
        <3>2. ~aaqjqc'[n].acrqLock
            BY <3>1 DEF JobQueues
        <3> QED BY <3>2 DEF Pursued
    <2>5. CASE n = m /\ nsQ' = nsQ \cup {m}
        BY <2>5 DEF Pursued
    <2> QED BY <2>1, <2>2, <2>3, <2>4, <2>5
<1> QED BY <1>1, <1>2, <1>3 DEF Nw

\* A batch is recorded, or the ARQ controller clears its lock.
LEMMA PursuedGate ==
    ASSUME TypeOK, NEW m \in Namespaces, Gate(m) \/ ArqUnlock(m), NEW n \in Namespaces, Pursued(n)
    PROVE  Pursued(n)'
<1>0. nw[m] \in NwStates /\ aaqjqc[m] \in JobQueues
    BY DEF TypeOK
<1> DEFINE w == [nw[m] EXCEPT !.jobCurrent = FALSE]
<1>1. w.pc = nw[m].pc /\ w.job = nw[m].job
    BY <1>0 DEF NwStates
<1>2. nw' = [nw EXCEPT ![m].jobCurrent = FALSE] => nw' = [nw EXCEPT ![m] = w] /\ nw'[m] = w
    BY DEF TypeOK
<1> HIDE DEF w
<1>3. CASE GateRecord(m)
    <2>1. PICK S :
              IF S = {}
              THEN gateQ' = gateQ \ {m} /\ UNCHANGED <<aaqjqc, nsQ, nw>>
              ELSE /\ WriteJobs(m, [queue |-> S, arqLock |-> TRUE, acrqLock |-> TRUE])
                   /\ nsQ' = nsQ \cup {m}
                   /\ nw' = [nw EXCEPT ![m].jobCurrent = FALSE]
        BY <1>3 DEF GateRecord
    <2>2. CASE S = {}
        BY <2>1, <2>2, UntouchedGoesOn, PursuedGoesOn
    <2>3. CASE S # {}
        <3>1. /\ \E j : aaqjqc' = [aaqjqc EXCEPT ![m] = j]
              /\ nsQ' = nsQ \cup {m} /\ nw' = [nw EXCEPT ![m] = w]
            BY <1>2, <2>1, <2>3 DEF WriteJobs
        <3>2. CASE n = m
            BY <3>1, <3>2 DEF Pursued
        <3>3. CASE n # m
            BY <3>1, <3>3, OthersGoOn, PursuedGoesOn
        <3> QED BY <3>2, <3>3
    <2> QED BY <2>2, <2>3
<1>4. ASSUME NEW p \in Pods, GateRelease(p) PROVE Pursued(n)'
    <2>1. UNCHANGED <<aaqjqc, nsQ, nw>>
        BY <1>4 DEF GateRelease
    <2> QED BY <2>1, UntouchedGoesOn, PursuedGoesOn
<1>5. CASE ArqUnlock(m)
    <2>1. /\ aaqjqc' = [aaqjqc EXCEPT ![m] = [aaqjqc[m] EXCEPT !.arqLock = FALSE]]
          /\ nw' = [nw EXCEPT ![m] = w] /\ nw'[m] = w
          /\ nsQ' \in {nsQ, nsQ \cup {m}}
        BY <1>2, <1>5 DEF ArqUnlock, WriteJobs
    <2>2. CASE n = m
        <3>1. aaqjqc'[n].acrqLock = aaqjqc[n].acrqLock
            BY <1>0, <2>1, <2>2 DEF TypeOK, JobQueues
        <3> QED BY <1>1, <2>1, <2>2, <3>1 DEF Pursued, AtWork
    <2>3. CASE n # m
        <3>1. /\ \E j : aaqjqc' = [aaqjqc EXCEPT ![m] = j]
              /\ \E v : nw' = [nw EXCEPT ![m] = v]
              /\ nsQ \ {m} \subseteq nsQ'
            BY <2>1
        <3> QED BY <2>3, <3>1, OthersGoOn, PursuedGoesOn
    <2> QED BY <2>2, <2>3
<1> QED BY <1>3, <1>4, <1>5 DEF Gate

LEMMA PursuedStep ==
    ASSUME TypeOK, [Next]_vars, NEW n \in Namespaces, Pursued(n)
    PROVE  Pursued(n)'
<1>1. CASE \/ Bw \/ Mapper \/ PodEvent \/ AcrqEvent \/ InformerResync \/ CalculateAll
           \/ UNCHANGED vars
    <2>1. UNCHANGED aaqjqc /\ (nw' = nw \/ nw' = StaleNw) /\ nsQ \subseteq nsQ'
        BY <1>1 DEF Bw, BwSync, BwUpdate, Mapper, SetMapping, CompleteNamespace, CompleteQuota,
                    RemoveQuota, PodEvent, AcrqEvent, InformerResync, CalculateAll, vars
    <2> QED BY <2>1, UntouchedGoesOn, PursuedGoesOn
<1>2. CASE Users
    <2>1. ASSUME NEW p \in Pods, CreatePod(p) \/ DeletePod(p) PROVE UNCHANGED <<aaqjqc, nw, nsQ>>
        BY <2>1 DEF CreatePod, DeletePod
    <2>2. ASSUME NEW m \in Namespaces, NEW l \in Labels, Relabel(m, l) PROVE UNCHANGED <<aaqjqc, nw, nsQ>>
        BY <2>2 DEF Relabel
    <2>3. ASSUME (\E h \in Hards, s \in Selectors : ChangeQuota(h, s)) \/ DeleteQuota
          PROVE  UNCHANGED <<aaqjqc, nsQ>> /\ nw' = StaleNw
        BY <2>3 DEF ChangeQuota, DeleteQuota, UserWritesAcrq
    <2>4. UNCHANGED <<aaqjqc, nsQ>> /\ (nw' = nw \/ nw' = StaleNw)
        BY <1>2, <2>1, <2>2, <2>3 DEF Users
    <2> QED BY <2>4, UntouchedGoesOn, PursuedGoesOn
<1>3. CASE Faults
    <2>1. ASSUME (\E S \in SUBSET WorkItems : BwItemsFail(S)) \/ BwFails
          PROVE  UNCHANGED <<aaqjqc, nw, nsQ>>
        BY <2>1 DEF BwItemsFail, BwSync, BwFails
    <2>2. ASSUME NEW m \in Namespaces, NsFails(m) PROVE Pursued(n)'
        <3>1. UNCHANGED aaqjqc /\ nw' = [nw EXCEPT ![m] = NwIdle] /\ nsQ' = nsQ \cup {m}
            BY <2>2 DEF NsFails, Immediate, NwStep
        <3>2. CASE n = m
            BY <3>1, <3>2 DEF Pursued
        <3>3. CASE n # m
            BY <3>1, <3>3, OthersGoOn, PursuedGoesOn
        <3> QED BY <3>2, <3>3
    <2>3. CASE Restart
        BY <2>3 DEF Restart, Pursued
    <2> QED BY <1>3, <2>1, <2>2, <2>3, UntouchedGoesOn, PursuedGoesOn DEF Faults
<1> QED BY <1>1, <1>2, <1>3, PursuedNs, PursuedGate DEF Next

\* For every number of namespaces and whatever users do: a namespace whose cluster
\* lock is set is in the ACRQ controller's nsQueue, or a worker that read the lock
\* is on it.  With the workers' fairness this is why the lock is cleared in the end.
THEOREM ClusterLockNeverForgotten == Spec => []ClusterLockPursued
<1>1. Init => ClusterLockPursued
    BY DEF Init, ClusterLockPursued, NoJobs
<1>2. TypeOK /\ ClusterLockPursued /\ [Next]_vars => ClusterLockPursued'
    <2>1. ClusterLockPursued <=> \A n \in Namespaces : Pursued(n)
        BY DEF ClusterLockPursued, Pursued, AtWork
    <2>2. (\A n \in Namespaces : Pursued(n)') => ClusterLockPursued'
        BY DEF ClusterLockPursued, Pursued, AtWork
    <2> QED BY <2>1, <2>2, PursuedStep
<1> QED BY <1>1, <1>2, ClusterTypeCorrect, PTL DEF Spec

-----------------------------------------------------------------------------
(***************************************************************************)
(* The batch protocol in each namespace, when pod names are not reused.    *)
(***************************************************************************)

\* The pods of the API server go forward only.
Forward ==
    \A p \in Pods : /\ WasGated(Current(pods)[p]) => WasGated(Current(pods)'[p])
                    /\ Released(Current(pods)[p]) => Released(Current(pods)'[p])

InOpenBatch(p) == Locked(aaqjqc[NsOf[p]]) /\ p \in aaqjqc[NsOf[p]].queue

\* How a step may write the API server's pods.
PodWritten(p, s) ==
    /\ UNCHANGED aaqjqc /\ (s = "free" => InOpenBatch(p))
    /\ pods' = Append(pods, [Current(pods) EXCEPT ![p] = s])
    /\ <<Current(pods)[p], s>> \in {<<"new", "gated">>, <<"gated", "free">>,
                                    <<"gated", "gone">>, <<"free", "gone">>}

LEMMA PodStep ==
    ASSUME ~NameReuse, TypeOK, [Next]_vars
    PROVE  \/ pods' = pods
           \/ Len(pods) > 1 /\ pods' = Tail(pods)
           \/ pods' = <<Current(pods)>>
           \/ \E p \in Pods, s \in PodStates : PodWritten(p, s)
<1>0. Current(pods) \in [Pods -> PodStates]
    BY VersionsHold DEF TypeOK
<1>1. ASSUME NEW p \in Pods, GateRelease(p) PROVE PodWritten(p, "free")
    BY <1>1 DEF GateRelease, PodWritten, WritePod, InOpenBatch
<1>2. ASSUME NEW p \in Pods, CreatePod(p) PROVE PodWritten(p, "gated")
    BY <1>2 DEF CreatePod, Creatable, PodWritten, WritePod
<1>3. ASSUME NEW p \in Pods, DeletePod(p) PROVE PodWritten(p, "gone")
    BY <1>3 DEF DeletePod, Present, PodWritten, WritePod
<1>4. {"gated", "free", "gone"} \subseteq PodStates
    BY DEF PodStates
<1>5. CASE Bw \/ Mapper
    BY <1>5 DEF Bw, BwSync, BwUpdate, Mapper, SetMapping, CompleteNamespace, CompleteQuota, RemoveQuota
<1>6. CASE PodEvent \/ AcrqEvent \/ InformerResync \/ CalculateAll
    BY <1>6 DEF PodEvent, AcrqEvent, InformerResync, CalculateAll
<1>7. ASSUME NEW n \in Namespaces, Nw(n) \/ GateRecord(n) \/ ArqUnlock(n) PROVE pods' = pods
    BY <1>7 DEF Nw, NsSync, NsUpdate, NsUnlock, GateRecord, ArqUnlock
<1>8. ASSUME NEW n \in Namespaces, NEW l \in Labels, Relabel(n, l) PROVE pods' = pods
    BY <1>8 DEF Relabel
<1>9. ASSUME (\E h \in Hards, s \in Selectors : ChangeQuota(h, s)) \/ DeleteQuota PROVE pods' = pods
    BY <1>9 DEF ChangeQuota, DeleteQuota, UserWritesAcrq
<1>10. CASE Faults
    BY <1>10 DEF Faults, BwItemsFail, BwSync, BwFails, NsFails, Restart
<1>11. CASE UNCHANGED vars
    BY <1>11 DEF vars
<1> QED BY <1>1, <1>2, <1>3, <1>4, <1>5, <1>6, <1>7, <1>8, <1>9, <1>10, <1>11 DEF Next, Gate, Users

\* The API server's pods after a write, or without one.
LEMMA CurrentPods ==
    ASSUME TypeOK
    PROVE  /\ pods' = pods \/ (Len(pods) > 1 /\ pods' = Tail(pods)) \/ pods' = <<Current(pods)>>
                => Current(pods)' = Current(pods)
           /\ \A x : pods' = Append(pods, x) => Current(pods)' = x
<1>1. Len(pods) \in Nat /\ Len(pods) >= 1
    BY DEF TypeOK
<1>2. ASSUME Len(pods) > 1, pods' = Tail(pods) PROVE Current(pods)' = Current(pods)
    <2>1. Len(pods') = Len(pods) - 1 /\ pods'[Len(pods) - 1] = pods[Len(pods)]
        BY <1>1, <1>2 DEF TypeOK
    <2> QED BY <2>1 DEF Current
<1>3. ASSUME pods' = <<Current(pods)>> PROVE Current(pods)' = Current(pods)
    BY <1>3 DEF Current
<1>4. ASSUME NEW x, pods' = Append(pods, x) PROVE Current(pods)' = x
    <2>1. Len(pods') = Len(pods) + 1 /\ pods'[Len(pods) + 1] = x
        BY <1>1, <1>4 DEF TypeOK
    <2> QED BY <2>1 DEF Current
<1> QED BY <1>2, <1>3, <1>4 DEF Current

LEMMA ForwardStep ==
    ASSUME ~NameReuse, TypeOK, PodsForward, [Next]_vars
    PROVE  Forward /\ PodsForward'
<1>0. /\ Len(pods) \in Nat /\ Len(pods) >= 1 /\ Current(pods) \in [Pods -> PodStates]
      /\ \A i \in 1 .. Len(pods) : pods[i] \in [Pods -> PodStates]
    BY VersionsHold DEF TypeOK
<1>1. CASE pods' = pods
    BY <1>1 DEF Forward, PodsForward, Current
<1>2. CASE Len(pods) > 1 /\ pods' = Tail(pods)
    <2>1. Current(pods)' = Current(pods)
        BY <1>2, CurrentPods
    <2>2. \A i \in 1 .. Len(pods') : i + 1 \in 1 .. Len(pods) /\ pods'[i] = pods[i + 1]
        BY <1>0, <1>2 DEF TypeOK
    <2> QED BY <2>1, <2>2 DEF Forward, PodsForward
<1>3. CASE pods' = <<Current(pods)>>
    <2>1. Current(pods)' = Current(pods)
        BY <1>3, CurrentPods
    <2>2. \A i \in 1 .. Len(pods') : pods'[i] = Current(pods)
        BY <1>3
    <2> QED BY <2>1, <2>2 DEF Forward, PodsForward
<1>4. ASSUME NEW p \in Pods, NEW s \in PodStates, PodWritten(p, s) PROVE Forward /\ PodsForward'
    <2>1. Current(pods)' = [Current(pods) EXCEPT ![p] = s]
        BY <1>4, CurrentPods DEF PodWritten
    <2>2. Forward
        BY <1>0, <1>4, <2>1 DEF Forward, PodWritten, WasGated, Released
    <2>3. \A i \in 1 .. Len(pods') :
              (i \in 1 .. Len(pods) /\ pods'[i] = pods[i]) \/ pods'[i] = Current(pods)'
        BY <1>0, <1>4, <2>1 DEF PodWritten, TypeOK
    <2>4. PodsForward'
        <3>1. ASSUME NEW i \in 1 .. Len(pods'), NEW q \in Pods
              PROVE  /\ WasGated(pods'[i][q]) => WasGated(Current(pods)'[q])
                     /\ Released(pods'[i][q]) => Released(Current(pods)'[q])
            <4>1. CASE i \in 1 .. Len(pods) /\ pods'[i] = pods[i]
                BY <4>1, <2>2 DEF PodsForward, Forward
            <4>2. CASE pods'[i] = Current(pods)'
                BY <4>2
            <4> QED BY <2>3, <4>1, <4>2
        <3> QED BY <3>1 DEF PodsForward
    <2> QED BY <2>2, <2>4
<1> QED BY <1>1, <1>2, <1>3, <1>4, PodStep

-----------------------------------------------------------------------------
(* The job queues and the workers' copies of them.                          *)

\* A worker at work goes on with the job queue it has, which is current only if
\* it was and nobody wrote it.
Carried(n) ==
    nw'[n].pc # "idle" =>
        /\ nw[n].pc # "idle" /\ nw'[n].job = nw[n].job
        /\ nw'[n].jobCurrent => nw[n].jobCurrent /\ aaqjqc'[n] = aaqjqc[n]

\* What a step makes of a namespace's job queue.
JobWritten(n) ==
    \/ aaqjqc'[n] = aaqjqc[n]
    \/ /\ ~Locked(aaqjqc[n]) /\ aaqjqc'[n].queue # {} /\ Locked(aaqjqc'[n])
       /\ aaqjqc'[n].queue \subseteq GatedIn(n, Cached(pods))
    \/ /\ aaqjqc[n].arqLock /\ aaqjqc'[n] = [aaqjqc[n] EXCEPT !.arqLock = FALSE]
       /\ VerifyPodsWithOutSchedulingGates(aaqjqc[n].queue)
    \/ /\ nw[n].pc = "unlock" /\ nw[n].jobCurrent /\ nw[n].job.acrqLock
       /\ aaqjqc'[n] = [nw[n].job EXCEPT !.acrqLock = FALSE]

LEMMA StaleCarried ==
    ASSUME TypeOK, NEW n \in Namespaces, UNCHANGED aaqjqc,
           \/ nw' = nw \/ nw' = StaleNw
           \/ \E m \in Namespaces : \E w : nw' = [nw EXCEPT ![m] = w] /\ w.pc = "idle"
    PROVE  Carried(n)
<1>1. CASE nw' = nw
    BY <1>1 DEF Carried
<1>2. CASE nw' = StaleNw
    <2>1. nw[n] \in NwStates /\ nw'[n] = [nw[n] EXCEPT !.current = FALSE]
        BY <1>2 DEF TypeOK, StaleNw
    <2> QED BY <2>1 DEF Carried, NwStates
<1>3. ASSUME NEW m \in Namespaces, NEW w, nw' = [nw EXCEPT ![m] = w], w.pc = "idle" PROVE Carried(n)
    BY <1>3 DEF Carried, TypeOK
<1> QED BY <1>1, <1>2, <1>3

LEMMA NsUpdateCarried ==
    ASSUME TypeOK, NEW m \in Namespaces, NsUpdate(m), NEW n \in Namespaces
    PROVE  Carried(n) /\ UNCHANGED aaqjqc
<1>0. UNCHANGED aaqjqc
    BY DEF NsUpdate
<1>1. CASE nw[m].current
    <2> DEFINE w == [nw[m] EXCEPT !.pc = "unlock", !.quota = NoAcrq, !.current = FALSE]
    <2>1. nw' = [StaleNw EXCEPT ![m] = w] /\ nw[m].pc = "write"
        BY <1>1 DEF NsUpdate
    <2>2. nw[m] \in NwStates /\ nw[n] \in NwStates
        BY DEF TypeOK
    <2>3. w.job = nw[m].job /\ w.jobCurrent = nw[m].jobCurrent
        BY <2>2 DEF NwStates
    <2> HIDE DEF w
    <2>4. CASE n = m
        BY <1>0, <2>1, <2>3, <2>4 DEF Carried, StaleNw
    <2>5. CASE n # m
        <3>1. nw'[n] = [nw[n] EXCEPT !.current = FALSE]
            BY <2>1, <2>5 DEF StaleNw
        <3> QED BY <1>0, <2>2, <3>1 DEF Carried, NwStates
    <2> QED BY <1>0, <2>4, <2>5
<1>2. CASE ~nw[m].current
    <2>1. nw' = [nw EXCEPT ![m] = NwIdle] /\ NwIdle.pc = "idle"
        BY <1>2 DEF NsUpdate, Immediate, NwStep, NwIdle
    <2> QED BY <1>0, <2>1, StaleCarried
<1> QED BY <1>1, <1>2

\* A write of another namespace's job queue, or of this one's by somebody else.
LEMMA JobStaleCarried ==
    ASSUME TypeOK, NEW m \in Namespaces, NEW j, aaqjqc' = [aaqjqc EXCEPT ![m] = j],
           nw' = [nw EXCEPT ![m].jobCurrent = FALSE], NEW n \in Namespaces
    PROVE  Carried(n)
<1>1. nw[m] \in NwStates /\ nw[n] \in NwStates
    BY DEF TypeOK
<1>2. CASE n = m
    <2>1. nw'[n] = [nw[n] EXCEPT !.jobCurrent = FALSE]
        BY <1>2 DEF TypeOK
    <2> QED BY <1>1, <2>1 DEF Carried, NwStates
<1>3. CASE n # m
    <2>1. nw'[n] = nw[n] /\ aaqjqc'[n] = aaqjqc[n]
        BY <1>3 DEF TypeOK
    <2> QED BY <2>1 DEF Carried
<1> QED BY <1>2, <1>3

LEMMA NsUnlockJobs ==
    ASSUME TypeOK, NEW m \in Namespaces, NsUnlock(m), NEW n \in Namespaces
    PROVE  Carried(n) /\ JobWritten(n)
<1>1. CASE UNCHANGED aaqjqc
    <2>1. nw' = [nw EXCEPT ![m] = NwIdle] /\ NwIdle.pc = "idle"
        BY DEF NsUnlock, NwStep, Immediate, NwIdle
    <2> QED BY <1>1, <2>1, StaleCarried DEF JobWritten
<1>2. CASE aaqjqc' # aaqjqc
    <2>1. /\ nw[m].pc = "unlock" /\ nw[m].job.acrqLock /\ nw[m].jobCurrent
          /\ nw' = [nw EXCEPT ![m] = NwIdle]
          /\ aaqjqc' = [aaqjqc EXCEPT ![m] = [nw[m].job EXCEPT !.acrqLock = FALSE]]
        BY <1>2 DEF NsUnlock, NwStep, Immediate, WriteJobs
    <2>2. CASE n = m
        BY <2>1, <2>2 DEF TypeOK, Carried, JobWritten, NwIdle
    <2>3. CASE n # m
        BY <2>1, <2>3 DEF TypeOK, Carried, JobWritten
    <2> QED BY <2>2, <2>3
<1> QED BY <1>1, <1>2

LEMMA GateRecordJobs ==
    ASSUME TypeOK, NEW m \in Namespaces, GateRecord(m), NEW n \in Namespaces
    PROVE  Carried(n) /\ JobWritten(n)
<1>1. PICK S \in CheckRequests(m) :
          IF S = {}
          THEN gateQ' = gateQ \ {m} /\ UNCHANGED <<aaqjqc, nsQ, nw>>
          ELSE /\ WriteJobs(m, [queue |-> S, arqLock |-> TRUE, acrqLock |-> TRUE])
               /\ nsQ' = nsQ \cup {m}
               /\ nw' = [nw EXCEPT ![m].jobCurrent = FALSE]
    BY DEF GateRecord
<1>2. CASE S = {}
    BY <1>1, <1>2 DEF Carried, JobWritten
<1>3. CASE S # {}
    <2> DEFINE j == [queue |-> S, arqLock |-> TRUE, acrqLock |-> TRUE]
    <2>1. aaqjqc' = [aaqjqc EXCEPT ![m] = j] /\ nw' = [nw EXCEPT ![m].jobCurrent = FALSE]
        BY <1>1, <1>3 DEF WriteJobs
    <2>2. j.queue # {} /\ Locked(j) /\ j.queue \subseteq GatedIn(m, Cached(pods)) /\ ~Locked(aaqjqc[m])
        BY <1>1, <1>3 DEF CheckRequests, Locked, GateRecord
    <2> HIDE DEF j
    <2>3. Carried(n)
        BY <2>1, JobStaleCarried
    <2>4. JobWritten(n)
        BY <2>1, <2>2 DEF JobWritten, TypeOK
    <2> QED BY <2>3, <2>4
<1> QED BY <1>2, <1>3

LEMMA ArqUnlockJobs ==
    ASSUME TypeOK, NEW m \in Namespaces, ArqUnlock(m), NEW n \in Namespaces
    PROVE  Carried(n) /\ JobWritten(n)
<1> DEFINE j == [aaqjqc[m] EXCEPT !.arqLock = FALSE]
<1>1. /\ aaqjqc' = [aaqjqc EXCEPT ![m] = j] /\ nw' = [nw EXCEPT ![m].jobCurrent = FALSE]
      /\ aaqjqc[m].arqLock /\ VerifyPodsWithOutSchedulingGates(aaqjqc[m].queue)
    BY DEF ArqUnlock, WriteJobs
<1>2. Carried(n)
    BY <1>1, JobStaleCarried
<1>3. JobWritten(n)
    BY <1>1 DEF JobWritten, TypeOK
<1> QED BY <1>2, <1>3

\* The step of a worker that begins: it takes the job queue and checks its pods.
Begun(n) ==
    /\ nw'[n].pc # "idle" =>
          /\ nw'[n].job = aaqjqc[n]
          /\ aaqjqc[n].acrqLock => VerifyPodsWithOutSchedulingGates(aaqjqc[n].queue)
    /\ UNCHANGED <<pods, aaqjqc>>

LEMMA NsSyncJobs ==
    ASSUME TypeOK, NEW m \in Namespaces, NsSync(m), NEW n \in Namespaces
    PROVE  (Carried(n) \/ Begun(n)) /\ JobWritten(n)
<1>1. /\ aaqjqc[m].acrqLock => VerifyPodsWithOutSchedulingGates(aaqjqc[m].queue)
      /\ UNCHANGED <<pods, aaqjqc>>
      /\ \E w : nw' = [nw EXCEPT ![m] = w] /\ w.job = aaqjqc[m]
    <2> DEFINE next == [NwIdle EXCEPT !.job = aaqjqc[m], !.jobCurrent = TRUE]
               q == Synced(mapped, {[ns |-> m, force |-> TRUE]})
               b == UpToDate(acrq)
               w == IF m \in mapped /\ q # Cached(acrq)
                    THEN [next EXCEPT !.pc = "write", !.quota = q, !.current = b]
                    ELSE [next EXCEPT !.pc = "unlock"]
    <2>1. nw' = [nw EXCEPT ![m] = w]
        BY DEF NsSync, NwStep
    <2>2. w.job = aaqjqc[m]
        <3> HIDE DEF q, b
        <3> QED BY DEF NwIdle
    <2>3. /\ aaqjqc[m].acrqLock => VerifyPodsWithOutSchedulingGates(aaqjqc[m].queue)
          /\ UNCHANGED <<pods, aaqjqc>>
        BY DEF NsSync
    <2> HIDE DEF w
    <2> QED BY <2>1, <2>2, <2>3
<1>2. CASE n = m
    <2>1. nw'[n].job = aaqjqc[n]
        BY <1>1, <1>2 DEF TypeOK
    <2> QED BY <1>1, <1>2, <2>1 DEF Begun, JobWritten
<1>3. CASE n # m
    BY <1>1, <1>3 DEF TypeOK, Carried, JobWritten
<1> QED BY <1>2, <1>3

LEMMA JobStep ==
    ASSUME TypeOK, [Next]_vars, NEW n \in Namespaces
    PROVE  (Carried(n) \/ Begun(n)) /\ JobWritten(n)
<1>0. NwIdle.pc = "idle"
    BY DEF NwIdle
<1>1. CASE Bw
    <2>1. UNCHANGED aaqjqc /\ (nw' = nw \/ nw' = StaleNw)
        BY <1>1 DEF Bw, BwSync, BwUpdate
    <2> QED BY <2>1, StaleCarried DEF JobWritten
<1>2. CASE Mapper \/ PodEvent \/ AcrqEvent \/ InformerResync \/ CalculateAll
    <2>1. UNCHANGED <<aaqjqc, nw>>
        BY <1>2 DEF Mapper, SetMapping, CompleteNamespace, CompleteQuota, RemoveQuota,
                    PodEvent, AcrqEvent, InformerResync, CalculateAll
    <2> QED BY <2>1, StaleCarried DEF JobWritten
<1>3. ASSUME NEW m \in Namespaces, Nw(m) PROVE (Carried(n) \/ Begun(n)) /\ JobWritten(n)
    BY <1>3, NsSyncJobs, NsUpdateCarried, NsUnlockJobs DEF Nw, JobWritten
<1>4. ASSUME NEW m \in Namespaces, Gate(m) \/ ArqUnlock(m) PROVE (Carried(n) \/ Begun(n)) /\ JobWritten(n)
    <2>1. ASSUME NEW p \in Pods, GateRelease(p) PROVE UNCHANGED <<aaqjqc, nw>>
        BY <2>1 DEF GateRelease
    <2> QED BY <1>4, <2>1, GateRecordJobs, ArqUnlockJobs, StaleCarried DEF Gate, JobWritten
<1>5. CASE Users
    <2>1. ASSUME NEW p \in Pods, CreatePod(p) \/ DeletePod(p) PROVE UNCHANGED <<aaqjqc, nw>>
        BY <2>1 DEF CreatePod, DeletePod
    <2>2. ASSUME NEW m \in Namespaces, NEW l \in Labels, Relabel(m, l) PROVE UNCHANGED <<aaqjqc, nw>>
        BY <2>2 DEF Relabel
    <2>3. ASSUME (\E h \in Hards, s \in Selectors : ChangeQuota(h, s)) \/ DeleteQuota
          PROVE  UNCHANGED aaqjqc /\ nw' = StaleNw
        BY <2>3 DEF ChangeQuota, DeleteQuota, UserWritesAcrq
    <2>4. UNCHANGED aaqjqc /\ (nw' = nw \/ nw' = StaleNw)
        BY <1>5, <2>1, <2>2, <2>3 DEF Users
    <2> QED BY <2>4, StaleCarried DEF JobWritten
<1>6. CASE Faults
    <2>1. ASSUME NEW S \in SUBSET WorkItems, BwItemsFail(S) PROVE UNCHANGED <<aaqjqc, nw>>
        BY <2>1 DEF BwItemsFail, BwSync
    <2>2. CASE BwFails
        BY <2>2, StaleCarried DEF BwFails, JobWritten
    <2>3. ASSUME NEW m \in Namespaces, NsFails(m) PROVE Carried(n) /\ JobWritten(n)
        <3>1. UNCHANGED aaqjqc /\ nw' = [nw EXCEPT ![m] = NwIdle]
            BY <2>3 DEF NsFails, Immediate, NwStep
        <3> QED BY <1>0, <3>1, StaleCarried DEF JobWritten
    <2>4. CASE Restart
        BY <1>0, <2>4 DEF Restart, Carried, JobWritten
    <2> QED BY <1>6, <2>1, <2>2, <2>3, <2>4, StaleCarried DEF Faults, JobWritten
<1>7. CASE UNCHANGED vars
    BY <1>7, StaleCarried DEF vars, JobWritten
<1> QED BY <1>1, <1>2, <1>3, <1>4, <1>5, <1>6, <1>7 DEF Next

\* Recorded pods that pass the check are released.
LEMMA VerifiedReleased ==
    ASSUME TypeOK, PodsForward, NEW S \in SUBSET Pods,
           \A p \in S : WasGated(Current(pods)[p]),
           VerifyPodsWithOutSchedulingGates(S)
    PROVE  \A p \in S : Released(Current(pods)[p])
<1>0. /\ Len(pods) \in Nat /\ Len(pods) >= 1
      /\ Current(pods) \in [Pods -> PodStates] /\ Cached(pods) \in [Pods -> PodStates]
    BY VersionsHold DEF TypeOK
<1>1. CASE \A p \in S : Present(Cached(pods)[p])
    <2>1. \A p \in S : Cached(pods)[p] = "free"
        BY <1>1 DEF VerifyPodsWithOutSchedulingGates, Present
    <2> QED BY <1>0, <2>1 DEF PodsForward, Cached, Released
<1>2. CASE ~\A p \in S : Present(Cached(pods)[p])
    <2>1. \A p \in S : Current(pods)[p] # "gated"
        BY <1>2 DEF VerifyPodsWithOutSchedulingGates
    <2> QED BY <1>0, <2>1 DEF PodStates, Released, WasGated
<1> QED BY <1>1, <1>2

LEMMA JobsTyped ==
    ASSUME TypeOK, NEW n \in Namespaces
    PROVE  /\ aaqjqc[n] \in JobQueues /\ aaqjqc[n].queue \in SUBSET Pods
           /\ nw[n] \in NwStates /\ nw[n].job \in JobQueues /\ nw[n].job.queue \in SUBSET Pods
    BY DEF TypeOK, JobQueues, NwStates

\* The lock's worker writes the job queue it read, its lock aside.
LEMMA UnlockWrites ==
    ASSUME TypeOK, BatchInv, NEW n \in Namespaces,
           nw[n].pc = "unlock", nw[n].jobCurrent, nw[n].job.acrqLock,
           aaqjqc'[n] = [nw[n].job EXCEPT !.acrqLock = FALSE]
    PROVE  /\ aaqjqc'[n] = [aaqjqc[n] EXCEPT !.acrqLock = FALSE] /\ aaqjqc[n].acrqLock
           /\ \A p \in aaqjqc[n].queue : Released(Current(pods)[p])
    BY DEF BatchInv, NwVerified

LEMMA BatchStep ==
    ASSUME ~NameReuse, TypeOK, BatchInv, [Next]_vars
    PROVE  BatchInv'
<1>1. Forward /\ PodsForward'
    BY ForwardStep DEF BatchInv
<1>2. ASSUME NEW n \in Namespaces
      PROVE  \A p \in aaqjqc'[n].queue : NsOf[p] = n /\ WasGated(Current(pods)'[p])
    <2>1. \A p \in aaqjqc[n].queue : p \in Pods /\ NsOf[p] = n /\ WasGated(Current(pods)'[p])
        BY <1>1, JobsTyped DEF Forward, BatchInv, JobsRecorded
    <2>2. JobWritten(n)
        BY JobStep
    <2>3. CASE aaqjqc'[n].queue = aaqjqc[n].queue
        BY <2>1, <2>3
    <2>4. CASE aaqjqc'[n].queue \subseteq GatedIn(n, Cached(pods))
        <3>1. \A p \in GatedIn(n, Cached(pods)) : p \in Pods /\ NsOf[p] = n /\ WasGated(Current(pods)[p])
            BY VersionsHold DEF GatedIn, BatchInv, PodsForward, TypeOK, Cached, WasGated
        <3> QED BY <1>1, <2>4, <3>1 DEF Forward
    <2>5. aaqjqc[n] \in JobQueues
        BY JobsTyped
    <2>6. CASE aaqjqc'[n] = [aaqjqc[n] EXCEPT !.arqLock = FALSE]
        BY <2>3, <2>5, <2>6 DEF JobQueues
    <2>7. CASE aaqjqc'[n] = [aaqjqc[n] EXCEPT !.acrqLock = FALSE]
        BY <2>3, <2>5, <2>7 DEF JobQueues
    <2> QED BY <2>2, <2>3, <2>4, <2>6, <2>7, UnlockWrites DEF JobWritten
<1>3. ASSUME NEW n \in Namespaces, nw'[n].pc # "idle"
      PROVE  /\ nw'[n].jobCurrent => nw'[n].job = aaqjqc'[n]
             /\ nw'[n].job.acrqLock => \A p \in nw'[n].job.queue : Released(Current(pods)'[p])
    <2>1. CASE Carried(n)
        <3>1. /\ nw[n].pc # "idle" /\ nw'[n].job = nw[n].job
              /\ nw'[n].jobCurrent => nw[n].jobCurrent /\ aaqjqc'[n] = aaqjqc[n]
            BY <1>3, <2>1 DEF Carried
        <3>2. nw[n].job.acrqLock => \A p \in nw[n].job.queue : p \in Pods /\ Released(Current(pods)[p])
            BY <3>1, JobsTyped DEF BatchInv, NwVerified
        <3>3. nw[n].jobCurrent => nw[n].job = aaqjqc[n]
            BY <3>1 DEF BatchInv, NwVerified
        <3> QED BY <1>1, <3>1, <3>2, <3>3 DEF Forward
    <2>2. CASE Begun(n)
        <3>1. /\ nw'[n].job = aaqjqc[n] /\ UNCHANGED <<pods, aaqjqc>>
              /\ aaqjqc[n].acrqLock => VerifyPodsWithOutSchedulingGates(aaqjqc[n].queue)
            BY <1>3, <2>2 DEF Begun
        <3>2. aaqjqc[n].acrqLock => \A p \in aaqjqc[n].queue : Released(Current(pods)[p])
            BY <3>1, VerifiedReleased, JobsTyped DEF BatchInv, JobsRecorded
        <3> QED BY <3>1, <3>2 DEF Current
    <2> QED BY <2>1, <2>2, JobStep
<1> QED BY <1>1, <1>2, <1>3 DEF BatchInv, JobsRecorded, NwVerified

\* The API server's pods of a namespace, as the abstract specification sees them.
PodsOf(n) == [p \in {p \in Pods : NsOf[p] = n} |-> Current(pods)[p]]

LEMMA WrittenPods ==
    ASSUME TypeOK, NEW p \in Pods, NEW s \in PodStates, PodWritten(p, s), NEW n \in Namespaces
    PROVE  IF NsOf[p] = n THEN PodsOf(n)' = [PodsOf(n) EXCEPT ![p] = s] ELSE UNCHANGED PodsOf(n)
<1>1. Current(pods)' = [Current(pods) EXCEPT ![p] = s]
    BY CurrentPods DEF PodWritten
<1>2. Current(pods) \in [Pods -> PodStates]
    BY VersionsHold DEF TypeOK
<1> QED BY <1>1, <1>2 DEF PodsOf

LEMMA PodRefines ==
    ASSUME TypeOK, BatchInv, NEW p \in Pods, NEW s \in PodStates,
           PodWritten(p, s), NEW n \in Namespaces
    PROVE  [Admission(n)!Next]_(Admission(n)!avars)
<1>0. UNCHANGED <<aaqjqc[n].queue, Locked(aaqjqc[n])>>
    BY DEF Locked, PodWritten
<1>1. CASE NsOf[p] # n
    <2>1. UNCHANGED PodsOf(n)
        BY <1>1, WrittenPods
    <2> QED BY <1>0, <2>1 DEF Admission!avars, PodsOf
<1>2. CASE NsOf[p] = n
    <2>1. PodsOf(n)' = [PodsOf(n) EXCEPT ![p] = s]
        BY <1>2, WrittenPods
    <2>2. PodsOf(n)[p] = Current(pods)[p] /\ p \in {q \in Pods : NsOf[q] = n}
        BY <1>2 DEF PodsOf
    <2>3. <<PodsOf(n)[p], s>> \in {<<"new", "gated">>, <<"gated", "free">>,
                                   <<"gated", "gone">>, <<"free", "gone">>}
        BY <2>2 DEF PodWritten
    <2>4. CASE s # "free"
        <3>1. Admission(n)!UserStep(p)
            BY <1>0, <2>1, <2>3, <2>4 DEF Admission!UserStep, PodsOf
        <3> QED BY <2>2, <3>1 DEF Admission!Next
    <2>5. CASE s = "free"
        <3>1. Locked(aaqjqc[n]) /\ p \in aaqjqc[n].queue
            BY <1>2, <2>5 DEF InOpenBatch, PodWritten
        <3>2. Admission(n)!Release(p)
            BY <1>0, <2>1, <2>3, <2>5, <3>1 DEF Admission!Release, PodsOf
        <3> QED BY <2>2, <3>2 DEF Admission!Next
    <2> QED BY <2>4, <2>5
<1> QED BY <1>1, <1>2

\* Clearing a lock closes the batch if the other is clear already.
LEMMA ClearRefines ==
    ASSUME TypeOK, BatchInv, NEW n \in Namespaces, UNCHANGED PodsOf(n),
           Locked(aaqjqc[n]), aaqjqc'[n].queue = aaqjqc[n].queue,
           \A p \in aaqjqc[n].queue : Released(Current(pods)[p])
    PROVE  [Admission(n)!Next]_(Admission(n)!avars)
<1>1. CASE Locked(aaqjqc'[n])
    <2>1. UNCHANGED <<PodsOf(n), aaqjqc[n].queue, Locked(aaqjqc[n])>>
        BY <1>1 DEF Locked, JobsTyped
    <2> QED BY <2>1 DEF Admission!avars, PodsOf
<1>2. CASE ~Locked(aaqjqc'[n])
    <2>1. \A p \in aaqjqc[n].queue : PodsOf(n)[p] \notin {"held", "gated"}
        BY JobsTyped DEF BatchInv, JobsRecorded, PodsOf, Released
    <2>2. Locked(aaqjqc[n])' = FALSE
        BY <1>2 DEF Locked
    <2>3. Admission(n)!Close
        BY <2>1, <2>2 DEF Admission!Close, Admission!Gated, PodsOf
    <2> QED BY <2>3 DEF Admission!Next
<1> QED BY <1>1, <1>2

LEMMA JobRefines ==
    ASSUME TypeOK, BatchInv, NEW n \in Namespaces, JobWritten(n), Current(pods)' = Current(pods)
    PROVE  [Admission(n)!Next]_(Admission(n)!avars)
<1>0. UNCHANGED PodsOf(n) /\ aaqjqc[n] \in JobQueues
    BY JobsTyped DEF PodsOf
<1>1. CASE aaqjqc'[n] = aaqjqc[n]
    BY <1>0, <1>1 DEF Admission!avars, PodsOf, Locked
<1>2. CASE /\ ~Locked(aaqjqc[n]) /\ aaqjqc'[n].queue # {} /\ Locked(aaqjqc'[n])
           /\ aaqjqc'[n].queue \subseteq GatedIn(n, Cached(pods))
    <2> DEFINE S == aaqjqc'[n].queue
    <2>1. \A p \in S : p \in Pods /\ NsOf[p] = n /\ WasGated(Current(pods)[p])
        <3>1. \A p \in S : p \in Pods /\ NsOf[p] = n /\ pods[1][p] = "gated"
            BY <1>2 DEF GatedIn, Cached
        <3>2. 1 \in 1 .. Len(pods)
            BY DEF TypeOK
        <3> QED BY <3>1, <3>2 DEF BatchInv, PodsForward, WasGated
    <2>2. \A p \in S : PodsOf(n)[p] \in {"gated", "free", "gone"}
        BY <2>1, VersionsHold DEF PodsOf, TypeOK, PodStates, WasGated
    <2>3. Locked(aaqjqc[n])' = TRUE
        BY <1>2 DEF Locked
    <2>4. S \in SUBSET {p \in Pods : NsOf[p] = n}
        BY <2>1
    <2>5. Admission(n)!Record(S)
        BY <1>0, <1>2, <2>2, <2>3 DEF Admission!Record, PodsOf
    <2> QED BY <2>4, <2>5 DEF Admission!Next
<1>3. CASE /\ aaqjqc[n].arqLock /\ aaqjqc'[n] = [aaqjqc[n] EXCEPT !.arqLock = FALSE]
           /\ VerifyPodsWithOutSchedulingGates(aaqjqc[n].queue)
    <2>1. \A p \in aaqjqc[n].queue : Released(Current(pods)[p])
        BY <1>3, VerifiedReleased, JobsTyped DEF BatchInv, JobsRecorded
    <2>2. Locked(aaqjqc[n]) /\ aaqjqc'[n].queue = aaqjqc[n].queue
        BY <1>0, <1>3 DEF Locked, JobQueues
    <2> QED BY <1>0, <2>1, <2>2, ClearRefines
<1>4. CASE /\ nw[n].pc = "unlock" /\ nw[n].jobCurrent /\ nw[n].job.acrqLock
           /\ aaqjqc'[n] = [nw[n].job EXCEPT !.acrqLock = FALSE]
    <2>1. /\ aaqjqc'[n] = [aaqjqc[n] EXCEPT !.acrqLock = FALSE] /\ aaqjqc[n].acrqLock
          /\ \A p \in aaqjqc[n].queue : Released(Current(pods)[p])
        BY <1>4, UnlockWrites
    <2>2. Locked(aaqjqc[n]) /\ aaqjqc'[n].queue = aaqjqc[n].queue
        BY <1>0, <2>1 DEF Locked, JobQueues
    <2> QED BY <1>0, <2>1, <2>2, ClearRefines
<1> QED BY <1>1, <1>2, <1>3, <1>4 DEF JobWritten

LEMMA EachStepRefines ==
    ASSUME ~NameReuse, TypeOK, BatchInv, [Next]_vars, NEW n \in Namespaces
    PROVE  [Admission(n)!Next]_(Admission(n)!avars)
<1>1. CASE pods' = pods \/ (Len(pods) > 1 /\ pods' = Tail(pods)) \/ pods' = <<Current(pods)>>
    BY <1>1, CurrentPods, JobRefines, JobStep
<1>2. ASSUME NEW p \in Pods, NEW s \in PodStates, PodWritten(p, s)
      PROVE  [Admission(n)!Next]_(Admission(n)!avars)
    BY <1>2, PodRefines
<1> QED BY <1>1, <1>2, PodStep

-----------------------------------------------------------------------------
\* When pod names are not reused, in every reachable state the recorded pods are
\* past their creation, and a worker of a namespace that may still clear the
\* cluster lock holds the job queue as it is, with all its pods released.
THEOREM BatchInvariant ==
    ASSUME ~NameReuse
    PROVE  Spec => []BatchInv
<1>1. Init => BatchInv
    BY DEF Init, BatchInv, PodsForward, JobsRecorded, NwVerified, NwIdle, NoJobs, Current
<1>2. TypeOK /\ BatchInv /\ [Next]_vars => BatchInv'
    BY BatchStep
<1> QED BY <1>1, <1>2, ClusterTypeCorrect, PTL DEF Spec

\* When pod names are not reused, every namespace of a cluster quota keeps to the
\* batch protocol: the gate controller, the ARQ controller and the ACRQ
\* controller, which share the job queue, record a batch only when none is open,
\* release pods of the open batch only, and close it only when both have seen
\* its pods released (VerifyPodsWithOutSchedulingGates), whatever is cached,
\* fails or restarts.
THEOREM NamespacesAdmit ==
    ASSUME ~NameReuse
    PROVE  Spec => EachImplementsAdmission
<1>1. Init => \A n \in Namespaces : Admission(n)!Init
    <2> SUFFICES ASSUME Init, NEW n \in Namespaces PROVE Admission(n)!Init
        OBVIOUS
    <2>1. Current(pods) = InitPods /\ aaqjqc[n] = NoJobs
        BY DEF Init, Current
    <2>2. aaqjqc[n].queue = {} /\ Locked(aaqjqc[n]) = FALSE
        BY <2>1 DEF NoJobs, Locked
    <2> QED BY <2>1, <2>2, AcrqAssumption DEF Admission!Init
<1>2. TypeOK /\ BatchInv /\ [Next]_vars
          => [\A n \in Namespaces : [Admission(n)!Next]_(Admission(n)!avars)]_vars
    BY EachStepRefines
<1> QED BY <1>1, <1>2, BatchInvariant, ClusterTypeCorrect, PTL DEF Spec, EachImplementsAdmission

=============================================================================
