--------------------- MODULE ClusterQuotaMappingProofs ----------------------
(***************************************************************************)
(* Proofs about the cluster quota mapping, for every set of quotas,        *)
(* namespaces, labels and selectors: its two sides and what the listeners  *)
(* have been told stay one relation, from which a deleted quota or         *)
(* namespace is gone for good, and once nothing is left to do for a quota  *)
(* and a namespace, they are mapped iff the selector matches the labels.   *)
(***************************************************************************)
EXTENDS ClusterQuotaMapping, TLAPS

USE DEF informers, quotaNotes, nsNotes, mapping

\* The step of a quota's worker leaves it a worker.
LEMMA QuotaWorkerType ==
    ASSUME TypeOK, NEW q \in Quotas, QuotaWorker(q)
    PROVE  qw' \in [Quotas -> QuotaWorkers]
<1>0. qw[q] \in QuotaWorkers /\ qw \in [Quotas -> QuotaWorkers]
    BY DEF TypeOK
<1>1. CASE GetQuota(q)
    <2>1. [QuotaIdle EXCEPT !.pc = "list", !.obj = quotaCache[q]] \in QuotaWorkers
        BY DEF TypeOK, QuotaIdle, QuotaWorkers
    <2> QED BY <1>0, <1>1, <2>1 DEF GetQuota
<1>2. CASE ListNamespaces(q)
    <2>1. Present(nsCache) \in SUBSET Namespaces /\ nsCache \in [Namespaces -> Labels \cup {None}]
        BY DEF TypeOK, Present
    <2> QED BY <1>0, <1>2, <2>1 DEF ListNamespaces, QuotaWorkers
<1>3. ASSUME NEW n \in Namespaces, ScanNamespace(q, n) PROVE qw' \in [Quotas -> QuotaWorkers]
    <2>1. CASE qw' = [qw EXCEPT ![q].todo = @ \ {n}]
        BY <1>0, <2>1 DEF QuotaWorkers
    <2>2. CASE qw' = [qw EXCEPT ![q].todo = {}]
        BY <1>0, <2>2 DEF QuotaWorkers
    <2>3. CASE qw' = [qw EXCEPT ![q].snap[n] = nsCache[n]]
        <3>1. [qw[q].snap EXCEPT ![n] = nsCache[n]] \in [Namespaces -> Labels \cup {None}]
            BY <1>0 DEF TypeOK, QuotaWorkers
        <3>2. qw' = [qw EXCEPT ![q].snap = [qw[q].snap EXCEPT ![n] = nsCache[n]]]
            BY <1>0, <2>3
        <3> QED BY <1>0, <3>1, <3>2 DEF QuotaWorkers
    <2> QED BY <1>3, <2>1, <2>2, <2>3 DEF ScanNamespace
<1>4. CASE CompleteQuota(q)
    BY <1>0, <1>4 DEF CompleteQuota, QuotaIdle, QuotaWorkers
<1> QED BY <1>1, <1>2, <1>3, <1>4 DEF QuotaWorker

\* The step of a namespace's worker leaves it a worker.
LEMMA NamespaceWorkerType ==
    ASSUME TypeOK, NEW n \in Namespaces, NamespaceWorker(n)
    PROVE  nw' \in [Namespaces -> NsWorkers]
<1>0. nw[n] \in NsWorkers /\ nw \in [Namespaces -> NsWorkers]
    BY DEF TypeOK
<1>1. CASE GetNamespace(n)
    <2>1. [NsIdle EXCEPT !.pc = "list", !.obj = nsCache[n]] \in NsWorkers
        BY DEF TypeOK, NsIdle, NsWorkers
    <2> QED BY <1>0, <1>1, <2>1 DEF GetNamespace
<1>2. CASE ListQuotas(n)
    <2>1. Present(quotaCache) \in SUBSET Quotas /\ quotaCache \in [Quotas -> Selectors \cup {None}]
        BY DEF TypeOK, Present
    <2> QED BY <1>0, <1>2, <2>1 DEF ListQuotas, NsWorkers
<1>3. ASSUME NEW q \in Quotas, ScanQuota(n, q) PROVE nw' \in [Namespaces -> NsWorkers]
    <2>1. CASE nw' = [nw EXCEPT ![n].todo = @ \ {q}]
        BY <1>0, <2>1 DEF NsWorkers
    <2>2. CASE nw' = [nw EXCEPT ![n] = NsIdle]
        BY <1>0, <2>2 DEF NsIdle, NsWorkers
    <2>3. CASE nw' = [nw EXCEPT ![n].snap[q] = quotaCache[q]]
        <3>1. [nw[n].snap EXCEPT ![q] = quotaCache[q]] \in [Quotas -> Selectors \cup {None}]
            BY <1>0 DEF TypeOK, NsWorkers
        <3>2. nw' = [nw EXCEPT ![n].snap = [nw[n].snap EXCEPT ![q] = quotaCache[q]]]
            BY <1>0, <2>3
        <3> QED BY <1>0, <3>1, <3>2 DEF NsWorkers
    <2> QED BY <1>3, <2>1, <2>2, <2>3 DEF ScanQuota
<1>4. CASE CompleteNamespace(n)
    BY <1>0, <1>4 DEF CompleteNamespace, NsIdle, NsWorkers
<1> QED BY <1>1, <1>2, <1>3, <1>4 DEF NamespaceWorker

-----------------------------------------------------------------------------
\* The handlers' steps, by what they do to the mapper.
LEMMA QuotaEventCases ==
    ASSUME TypeOK, QuotaEvent
    PROVE  \E q \in Quotas, s \in Selectors \cup {None} :
              /\ IF s = None THEN RemoveQuota(q) ELSE EnqueueQuota(q, s)
              /\ quotaEvents' \in Seq(Quotas \X (Selectors \cup {None}))
              /\ UNCHANGED <<quotaCache, nsCache, nsEvents, changes, nsNotes, nsQ, qw, nw>>
<1>1. Head(quotaEvents) \in Quotas \X (Selectors \cup {None})
    BY DEF TypeOK, QuotaEvent
<1>2. Tail(quotaEvents) \in Seq(Quotas \X (Selectors \cup {None}))
    BY DEF TypeOK, QuotaEvent
<1>3. Head(quotaEvents)[1] \in Quotas /\ Head(quotaEvents)[2] \in Selectors \cup {None}
    BY <1>1
<1> QED BY <1>2, <1>3 DEF QuotaEvent

\* The same for the handlers of namespaces (addNamespace, deleteNamespace).
LEMMA NamespaceEventCases ==
    ASSUME TypeOK, NamespaceEvent
    PROVE  \E n \in Namespaces, l \in Labels \cup {None} :
              /\ IF l = None THEN RemoveNamespace(n) ELSE EnqueueNamespace(n, l)
              /\ nsEvents' \in Seq(Namespaces \X (Labels \cup {None}))
              /\ UNCHANGED <<quotaCache, nsCache, quotaEvents, changes, quotaNotes, quotaQ, qw, nw>>
<1>1. Head(nsEvents) \in Namespaces \X (Labels \cup {None})
    BY DEF TypeOK, NamespaceEvent
<1>2. Tail(nsEvents) \in Seq(Namespaces \X (Labels \cup {None}))
    BY DEF TypeOK, NamespaceEvent
<1>3. Head(nsEvents)[1] \in Namespaces /\ Head(nsEvents)[2] \in Labels \cup {None}
    BY <1>1
<1> QED BY <1>2, <1>3 DEF NamespaceEvent

\* Types of the mapping after setMapping.
LEMMA SetMappingType ==
    ASSUME TypeOK, NEW q \in Quotas, NEW n \in Namespaces, NEW l, NEW s,
           SetMapping(q, n, l \in s)
    PROVE  /\ quotaToNs' \in [Quotas -> SUBSET Namespaces]
           /\ nsToQuota' \in [Namespaces -> SUBSET Quotas]
           /\ told' \subseteq Quotas \X Namespaces
    BY DEF TypeOK, SetMapping

\* Every step of the handlers and workers keeps the types.
LEMMA TypeStep ==
    ASSUME TypeOK, [Next]_vars
    PROVE  TypeOK'
<1> USE MappingAssumption
<1>1. ASSUME NEW q \in Quotas, NEW s \in Selectors \cup {None}, ChangeQuota(q, s) PROVE TypeOK'
    <2>1. quotaEvents' \in Seq(Quotas \X (Selectors \cup {None}))
        BY <1>1 DEF TypeOK, ChangeQuota
    <2> QED BY <1>1, <2>1 DEF TypeOK, ChangeQuota
<1>2. ASSUME NEW n \in Namespaces, NEW l \in Labels \cup {None}, ChangeNamespace(n, l) PROVE TypeOK'
    <2>1. nsEvents' \in Seq(Namespaces \X (Labels \cup {None}))
        BY <1>2 DEF TypeOK, ChangeNamespace
    <2> QED BY <1>2, <2>1 DEF TypeOK, ChangeNamespace
<1>3. CASE QuotaEvent
    <2>1. PICK q \in Quotas, s \in Selectors \cup {None} :
              /\ IF s = None THEN RemoveQuota(q) ELSE EnqueueQuota(q, s)
              /\ quotaEvents' \in Seq(Quotas \X (Selectors \cup {None}))
              /\ UNCHANGED <<quotaCache, nsCache, nsEvents, changes, nsNotes, nsQ, qw, nw>>
        BY <1>3, QuotaEventCases
    <2>2. CASE s = None
        <3>1. quotaToNs' \in [Quotas -> SUBSET Namespaces]
            BY <2>1, <2>2 DEF TypeOK, RemoveQuota
        <3>2. nsToQuota' \in [Namespaces -> SUBSET Quotas]
            BY <2>1, <2>2 DEF TypeOK, RemoveQuota
        <3>3. told' \subseteq Quotas \X Namespaces
            <4>1. told' \subseteq told
                BY <2>1, <2>2 DEF RemoveQuota
            <4> QED BY <4>1 DEF TypeOK
        <3>4. RemoveQuota(q)
            BY <2>1, <2>2
        <3> QED BY <2>1, <3>1, <3>2, <3>3, <3>4 DEF TypeOK, RemoveQuota
    <2>3. CASE s # None
        BY <2>1, <2>3 DEF TypeOK, EnqueueQuota
    <2> QED BY <2>2, <2>3
<1>4. CASE NamespaceEvent
    <2>1. PICK n \in Namespaces, l \in Labels \cup {None} :
              /\ IF l = None THEN RemoveNamespace(n) ELSE EnqueueNamespace(n, l)
              /\ nsEvents' \in Seq(Namespaces \X (Labels \cup {None}))
              /\ UNCHANGED <<quotaCache, nsCache, quotaEvents, changes, quotaNotes, quotaQ, qw, nw>>
        BY <1>4, NamespaceEventCases
    <2>2. CASE l = None
        <3>1. quotaToNs' \in [Quotas -> SUBSET Namespaces]
            BY <2>1, <2>2 DEF TypeOK, RemoveNamespace
        <3>2. nsToQuota' \in [Namespaces -> SUBSET Quotas]
            BY <2>1, <2>2 DEF TypeOK, RemoveNamespace
        <3>3. told' \subseteq Quotas \X Namespaces
            <4>1. told' \subseteq told
                BY <2>1, <2>2 DEF RemoveNamespace
            <4> QED BY <4>1 DEF TypeOK
        <3>4. RemoveNamespace(n)
            BY <2>1, <2>2
        <3> QED BY <2>1, <3>1, <3>2, <3>3, <3>4 DEF TypeOK, RemoveNamespace
    <2>3. CASE l # None
        <3>1. EnqueueNamespace(n, l)
            BY <2>1, <2>3
        <3>2. requiredNs' \in [Namespaces -> Labels \cup {None}] /\ nsQ' \subseteq Namespaces
            <4>1. /\ requiredNs' = requiredNs \/ requiredNs' = [requiredNs EXCEPT ![n] = l]
                  /\ nsQ' = nsQ \/ nsQ' = nsQ \cup {n}
                BY <3>1 DEF EnqueueNamespace
            <4>2. requiredNs \in [Namespaces -> Labels \cup {None}] /\ nsQ \subseteq Namespaces
                BY DEF TypeOK
            <4>3. requiredNs' \in [Namespaces -> Labels \cup {None}]
                BY <4>1, <4>2
            <4> QED BY <4>1, <4>2, <4>3
        <3> QED BY <2>1, <3>1, <3>2 DEF TypeOK, EnqueueNamespace
    <2> QED BY <2>2, <2>3
<1>5. ASSUME NEW q \in Quotas, QuotaWorker(q) PROVE TypeOK'
    <2>0. qw' \in [Quotas -> QuotaWorkers]
        BY <1>5, QuotaWorkerType
    <2>1. CASE GetQuota(q)
        BY <2>0, <2>1 DEF TypeOK, GetQuota
    <2>2. CASE ListNamespaces(q)
        BY <2>0, <2>2 DEF TypeOK, ListNamespaces
    <2>3. ASSUME NEW n \in Namespaces, ScanNamespace(q, n) PROVE TypeOK'
        <3>1. CASE SetMapping(q, n, qw[q].snap[n] \in qw[q].obj)
            <4>2. /\ quotaToNs' \in [Quotas -> SUBSET Namespaces]
                  /\ nsToQuota' \in [Namespaces -> SUBSET Quotas]
                  /\ told' \subseteq Quotas \X Namespaces
                BY <3>1, SetMappingType
            <4>3. UNCHANGED <<informers, quotaNotes, nsNotes, quotaQ, nsQ, nw>>
                BY <2>3 DEF ScanNamespace
            <4> QED BY <2>0, <4>2, <4>3 DEF TypeOK
        <3>2. CASE UNCHANGED mapping
            BY <2>0, <2>3, <3>2 DEF TypeOK, ScanNamespace
        <3> QED BY <2>3, <3>1, <3>2 DEF ScanNamespace
    <2>4. CASE CompleteQuota(q)
        <3>1. qw[q].obj \in Selectors \cup {None}
            BY DEF TypeOK, QuotaWorkers
        <3> QED BY <2>0, <2>4, <3>1 DEF TypeOK, CompleteQuota
    <2> QED BY <1>5, <2>1, <2>2, <2>3, <2>4 DEF QuotaWorker
<1>6. ASSUME NEW n \in Namespaces, NamespaceWorker(n) PROVE TypeOK'
    <2>0. nw' \in [Namespaces -> NsWorkers]
        BY <1>6, NamespaceWorkerType
    <2>1. CASE GetNamespace(n)
        BY <2>0, <2>1 DEF TypeOK, GetNamespace
    <2>2. CASE ListQuotas(n)
        BY <2>0, <2>2 DEF TypeOK, ListQuotas
    <2>3. ASSUME NEW q \in Quotas, ScanQuota(n, q) PROVE TypeOK'
        <3>1. CASE SetMapping(q, n, nw[n].obj \in nw[n].snap[q])
            <4>2. /\ quotaToNs' \in [Quotas -> SUBSET Namespaces]
                  /\ nsToQuota' \in [Namespaces -> SUBSET Quotas]
                  /\ told' \subseteq Quotas \X Namespaces
                BY <3>1, SetMappingType
            <4>3. UNCHANGED <<informers, quotaNotes, nsNotes, quotaQ, nsQ, qw>>
                BY <2>3 DEF ScanQuota
            <4> QED BY <2>0, <4>2, <4>3 DEF TypeOK
        <3>2. CASE UNCHANGED mapping
            BY <2>0, <2>3, <3>2 DEF TypeOK, ScanQuota
        <3> QED BY <2>3, <3>1, <3>2 DEF ScanQuota
    <2>4. CASE CompleteNamespace(n)
        <3>1. nw[n].obj \in Labels \cup {None}
            BY DEF TypeOK, NsWorkers
        <3> QED BY <2>0, <2>4, <3>1 DEF TypeOK, CompleteNamespace
    <2> QED BY <1>6, <2>1, <2>2, <2>3, <2>4 DEF NamespaceWorker
<1>7. CASE UNCHANGED vars
    BY <1>7 DEF TypeOK, vars
<1> QED BY <1>1, <1>2, <1>3, <1>4, <1>5, <1>6, <1>7 DEF Next, Users

-----------------------------------------------------------------------------
\* A worker that scans has found what it scans in the caches.
LEMMA ScanningStep ==
    ASSUME TypeOK, Scanning, [Next]_vars
    PROVE  Scanning'
<1>1. ASSUME NEW q \in Quotas, QuotaWorker(q) PROVE Scanning'
    <2>0. qw[q] \in QuotaWorkers /\ qw \in [Quotas -> QuotaWorkers] /\ nw' = nw
        BY <1>1 DEF TypeOK, QuotaWorker, GetQuota, ListNamespaces, ScanNamespace, CompleteQuota
    <2>1. \A r \in Quotas : r # q => qw'[r] = qw[r]
        BY <1>1, <2>0 DEF QuotaWorker, GetQuota, ListNamespaces, ScanNamespace, CompleteQuota
    <2>2. qw'[q].pc # "idle" => qw'[q].obj # None
        <3>1. CASE GetQuota(q)
            BY <2>0, <3>1 DEF GetQuota, Scanning, QuotaIdle
        <3>2. CASE ListNamespaces(q)
            BY <2>0, <3>2 DEF ListNamespaces, Scanning, QuotaWorkers
        <3>3. ASSUME NEW n \in Namespaces, ScanNamespace(q, n)
              PROVE  qw'[q].pc # "idle" => qw'[q].obj # None
            <4>1. qw'[q].pc = qw[q].pc /\ qw'[q].obj = qw[q].obj
                BY <2>0, <3>3 DEF ScanNamespace, QuotaWorkers
            <4> QED BY <4>1 DEF Scanning
        <3>4. CASE CompleteQuota(q)
            BY <2>0, <3>4 DEF CompleteQuota, QuotaIdle
        <3> QED BY <1>1, <3>1, <3>2, <3>3, <3>4 DEF QuotaWorker
    <2> QED BY <2>0, <2>1, <2>2 DEF Scanning
<1>2. ASSUME NEW n \in Namespaces, NamespaceWorker(n) PROVE Scanning'
    <2>0. nw[n] \in NsWorkers /\ nw \in [Namespaces -> NsWorkers] /\ qw' = qw
        BY <1>2 DEF TypeOK, NamespaceWorker, GetNamespace, ListQuotas, ScanQuota, CompleteNamespace
    <2>1. \A m \in Namespaces : m # n => nw'[m] = nw[m]
        BY <1>2, <2>0 DEF NamespaceWorker, GetNamespace, ListQuotas, ScanQuota, CompleteNamespace
    <2>2. nw'[n].pc = "scan" => \A q \in nw'[n].todo : nw'[n].snap[q] # None
        <3>1. CASE GetNamespace(n)
            BY <2>0, <3>1 DEF GetNamespace, Scanning, NsIdle
        <3>2. CASE ListQuotas(n)
            <4>1. nw'[n].todo = Present(quotaCache) /\ nw'[n].snap = quotaCache
                BY <2>0, <3>2 DEF ListQuotas, NsWorkers
            <4> QED BY <4>1 DEF Present
        <3>3. ASSUME NEW q \in Quotas, ScanQuota(n, q)
              PROVE  nw'[n].pc = "scan" => \A r \in nw'[n].todo : nw'[n].snap[r] # None
            <4>1. CASE nw' = [nw EXCEPT ![n].todo = @ \ {q}]
                <5>1. nw'[n].todo = nw[n].todo \ {q} /\ nw'[n].snap = nw[n].snap /\ nw[n].pc = "scan"
                    BY <2>0, <3>3, <4>1 DEF NsWorkers, ScanQuota
                <5> QED BY <5>1 DEF Scanning
            <4>2. CASE nw' = [nw EXCEPT ![n] = NsIdle]
                BY <2>0, <4>2 DEF NsIdle
            <4>3. CASE nw' = [nw EXCEPT ![n].snap[q] = quotaCache[q]] /\ quotaCache[q] # None
                <5>1. nw'[n].todo = nw[n].todo /\ nw'[n].snap = [nw[n].snap EXCEPT ![q] = quotaCache[q]]
                    BY <2>0, <4>3 DEF NsWorkers
                <5>2. nw[n].pc = "scan" /\ nw[n].snap \in [Quotas -> Selectors \cup {None}]
                    BY <2>0, <3>3 DEF ScanQuota, NsWorkers
                <5>3. \A r \in nw[n].todo : nw[n].snap[r] # None /\ r \in Quotas
                    BY <2>0, <5>2 DEF Scanning, NsWorkers
                <5> QED BY <4>3, <5>1, <5>2, <5>3
            <4> QED BY <3>3, <4>1, <4>2, <4>3 DEF ScanQuota
        <3>4. CASE CompleteNamespace(n)
            BY <2>0, <3>4 DEF CompleteNamespace, NsIdle
        <3> QED BY <1>2, <3>1, <3>2, <3>3, <3>4 DEF NamespaceWorker
    <2> QED BY <2>0, <2>1, <2>2 DEF Scanning
<1>3. CASE UNCHANGED <<qw, nw>>
    BY <1>3 DEF Scanning
<1> QED BY <1>1, <1>2, <1>3 DEF Next, Users, ChangeQuota, ChangeNamespace, QuotaEvent, NamespaceEvent, vars

\* setMapping keeps the mapping one relation: it adds only objects that are
\* required, both of them.
LEMMA SetMappingConsistent ==
    ASSUME TypeOK, MappingConsistent,
           NEW q \in Quotas, NEW n \in Namespaces, NEW l, NEW s,
           SetMapping(q, n, l \in s),
           l \in s => requiredQuota[q] # None /\ requiredNs[n] # None,
           UNCHANGED <<quotaNotes, nsNotes>>
    PROVE  MappingConsistent'
<1>1. \A r \in Quotas, m \in Namespaces :
          m \in quotaToNs'[r] <=> IF r = q /\ m = n THEN l \in s ELSE m \in quotaToNs[r]
    BY DEF SetMapping, TypeOK
<1>2. \A r \in Quotas, m \in Namespaces :
          r \in nsToQuota'[m] <=> IF r = q /\ m = n THEN l \in s ELSE r \in nsToQuota[m]
    BY DEF SetMapping, TypeOK
<1>3. \A r \in Quotas, m \in Namespaces :
          <<r, m>> \in told' <=> IF r = q /\ m = n THEN l \in s ELSE <<r, m>> \in told
    BY DEF SetMapping, TypeOK, MappingConsistent
<1> QED BY <1>1, <1>2, <1>3 DEF MappingConsistent

\* Every step keeps the mapping one relation over required objects.
LEMMA ConsistentStep ==
    ASSUME TypeOK, Scanning, MappingConsistent, [Next]_vars
    PROVE  MappingConsistent'
<1> USE MappingAssumption
<1>1. CASE QuotaEvent
    <2>1. PICK q \in Quotas, s \in Selectors \cup {None} :
              /\ IF s = None THEN RemoveQuota(q) ELSE EnqueueQuota(q, s)
              /\ quotaEvents' \in Seq(Quotas \X (Selectors \cup {None}))
              /\ UNCHANGED <<quotaCache, nsCache, nsEvents, changes, nsNotes, nsQ, qw, nw>>
        BY <1>1, QuotaEventCases
    <2>2. CASE s = None
        <3>1. RemoveQuota(q) /\ UNCHANGED nsNotes
            BY <2>1, <2>2
        <3>2. \A r \in Quotas, m \in Namespaces : m \in quotaToNs'[r] <=> r # q /\ m \in quotaToNs[r]
            BY <3>1 DEF RemoveQuota, TypeOK
        <3>3. \A r \in Quotas, m \in Namespaces : r \in nsToQuota'[m] <=> r # q /\ r \in nsToQuota[m]
            BY <3>1 DEF RemoveQuota, TypeOK
        <3>4. \A r \in Quotas, m \in Namespaces : <<r, m>> \in told' <=> r # q /\ <<r, m>> \in told
            <4>1. told' = told \ {<<q, n>> : n \in {m \in Namespaces : q \in nsToQuota[m]}}
                BY <3>1 DEF RemoveQuota
            <4>2. \A m \in Namespaces : <<q, m>> \in told => q \in nsToQuota[m]
                BY DEF MappingConsistent
            <4> QED BY <4>1, <4>2
        <3>5. \A r \in Quotas : r # q => requiredQuota'[r] = requiredQuota[r]
            BY <3>1 DEF RemoveQuota, TypeOK
        <3> QED BY <3>1, <3>2, <3>3, <3>4, <3>5 DEF MappingConsistent
    <2>3. CASE s # None
        <3>1. EnqueueQuota(q, s) /\ UNCHANGED nsNotes
            BY <2>1, <2>3
        <3>2. \A r \in Quotas : requiredQuota[r] # None => requiredQuota'[r] # None
            BY <2>3, <3>1 DEF EnqueueQuota, TypeOK
        <3> QED BY <3>1, <3>2 DEF MappingConsistent, EnqueueQuota
    <2> QED BY <2>2, <2>3
<1>2. CASE NamespaceEvent
    <2>1. PICK n \in Namespaces, l \in Labels \cup {None} :
              /\ IF l = None THEN RemoveNamespace(n) ELSE EnqueueNamespace(n, l)
              /\ nsEvents' \in Seq(Namespaces \X (Labels \cup {None}))
              /\ UNCHANGED <<quotaCache, nsCache, quotaEvents, changes, quotaNotes, quotaQ, qw, nw>>
        BY <1>2, NamespaceEventCases
    <2>2. CASE l = None
        <3>1. RemoveNamespace(n) /\ UNCHANGED quotaNotes
            BY <2>1, <2>2
        <3>2. \A r \in Quotas, m \in Namespaces : m \in quotaToNs'[r] <=> m # n /\ m \in quotaToNs[r]
            BY <3>1 DEF RemoveNamespace, TypeOK
        <3>3. \A r \in Quotas, m \in Namespaces : r \in nsToQuota'[m] <=> m # n /\ r \in nsToQuota[m]
            BY <3>1 DEF RemoveNamespace, TypeOK
        <3>4. \A r \in Quotas, m \in Namespaces : <<r, m>> \in told' <=> m # n /\ <<r, m>> \in told
            BY <3>1 DEF RemoveNamespace, TypeOK, MappingConsistent
        <3>5. \A m \in Namespaces : m # n => requiredNs'[m] = requiredNs[m]
            BY <3>1 DEF RemoveNamespace, TypeOK
        <3> QED BY <3>1, <3>2, <3>3, <3>4, <3>5 DEF MappingConsistent
    <2>3. CASE l # None
        <3>1. EnqueueNamespace(n, l) /\ UNCHANGED quotaNotes
            BY <2>1, <2>3
        <3>2. \A m \in Namespaces : requiredNs[m] # None => requiredNs'[m] # None
            BY <2>3, <3>1 DEF EnqueueNamespace, TypeOK
        <3> QED BY <3>1, <3>2 DEF MappingConsistent, EnqueueNamespace
    <2> QED BY <2>2, <2>3
<1>3. ASSUME NEW q \in Quotas, NEW n \in Namespaces, ScanNamespace(q, n) PROVE MappingConsistent'
    <2>1. qw[q] \in QuotaWorkers /\ qw[q].obj # None /\ UNCHANGED <<quotaNotes, nsNotes>>
        BY <1>3 DEF TypeOK, Scanning, ScanNamespace
    <2>2. qw[q].obj \in Selectors /\ (qw[q].snap[n] \in qw[q].obj => qw[q].snap[n] # None)
        BY <2>1 DEF QuotaWorkers
    <2>3. CASE UNCHANGED mapping
        BY <2>1, <2>3 DEF MappingConsistent
    <2>4. CASE /\ QuotaMatches(q, qw[q].obj) /\ NamespaceMatches(n, qw[q].snap[n])
               /\ SetMapping(q, n, qw[q].snap[n] \in qw[q].obj)
        <3>1. qw[q].snap[n] \in qw[q].obj => requiredQuota[q] # None /\ requiredNs[n] # None
            BY <2>1, <2>2, <2>4 DEF QuotaMatches, NamespaceMatches
        <3> QED BY <2>1, <2>4, <3>1, SetMappingConsistent
    <2> QED BY <1>3, <2>3, <2>4 DEF ScanNamespace
<1>4. ASSUME NEW n \in Namespaces, NEW q \in Quotas, ScanQuota(n, q) PROVE MappingConsistent'
    <2>1. nw[n] \in NsWorkers /\ nw[n].snap[q] # None /\ UNCHANGED <<quotaNotes, nsNotes>>
        BY <1>4 DEF TypeOK, Scanning, ScanQuota
    <2>2. nw[n].snap[q] \in Selectors /\ (nw[n].obj \in nw[n].snap[q] => nw[n].obj # None)
        BY <2>1 DEF NsWorkers
    <2>3. CASE UNCHANGED mapping
        BY <2>1, <2>3 DEF MappingConsistent
    <2>4. CASE /\ QuotaMatches(q, nw[n].snap[q]) /\ NamespaceMatches(n, nw[n].obj)
               /\ SetMapping(q, n, nw[n].obj \in nw[n].snap[q])
        <3>1. nw[n].obj \in nw[n].snap[q] => requiredQuota[q] # None /\ requiredNs[n] # None
            BY <2>1, <2>2, <2>4 DEF QuotaMatches, NamespaceMatches
        <3> QED BY <2>1, <2>4, <3>1, SetMappingConsistent
    <2> QED BY <1>4, <2>3, <2>4 DEF ScanQuota
<1>5. CASE UNCHANGED <<requiredQuota, requiredNs, mapping>>
    BY <1>5 DEF MappingConsistent
<1>6. ASSUME NEW q \in Quotas, GetQuota(q) \/ ListNamespaces(q) \/ CompleteQuota(q)
      PROVE  UNCHANGED <<requiredQuota, requiredNs, mapping>>
    BY <1>6 DEF GetQuota, ListNamespaces, CompleteQuota
<1>7. ASSUME NEW n \in Namespaces, GetNamespace(n) \/ ListQuotas(n) \/ CompleteNamespace(n)
      PROVE  UNCHANGED <<requiredQuota, requiredNs, mapping>>
    BY <1>7 DEF GetNamespace, ListQuotas, CompleteNamespace
<1>8. CASE Users \/ UNCHANGED vars
    BY <1>5, <1>8 DEF Users, ChangeQuota, ChangeNamespace, vars
<1> QED BY <1>1, <1>2, <1>3, <1>4, <1>5, <1>6, <1>7, <1>8 DEF Next, QuotaWorker, NamespaceWorker

-----------------------------------------------------------------------------
LEMMA MappingInit ==
    ASSUME Init
    PROVE  MappingInv
<1>1. TypeOK
    BY MappingAssumption DEF Init, TypeOK, QuotaIdle, NsIdle, QuotaWorkers, NsWorkers
<1>2. Scanning
    BY DEF Init, Scanning, QuotaIdle, NsIdle
<1>3. MappingConsistent
    BY DEF Init, MappingConsistent
<1> QED BY <1>1, <1>2, <1>3 DEF MappingInv

\* In every reachable state workers scan only objects they found in the caches,
\* and the two sides of the mapping (quotaToNamespaces, namespaceToQuota) and
\* the listeners' view are one relation over required objects.
THEOREM MappingInvariant == Spec => []MappingInv
<1>1. Init => MappingInv
    BY MappingInit
<1>2. MappingInv /\ [Next]_vars => MappingInv'
    BY TypeStep, ScanningStep, ConsistentStep DEF MappingInv
<1> QED BY <1>1, <1>2, PTL DEF Spec

\* In every reachable state the controller's queues, notes and mappings hold
\* quotas, namespaces, labels and selectors only (setMapping, completeQuota).
COROLLARY MappingTypeCorrect == Spec => []TypeOK
<1>1. MappingInv => TypeOK
    BY DEF MappingInv
<1> QED BY <1>1, MappingInvariant, PTL

\* A quota or namespace whose deletion was handled (removeQuota,
\* removeNamespace) is in neither side of the mapping, whatever a worker that
\* still scans it does, and both sides and the listeners agree.
COROLLARY MappingStaysConsistent == Spec => []MappingConsistent
<1>1. MappingInv => MappingConsistent
    BY DEF MappingInv
<1> QED BY <1>1, MappingInvariant, PTL

-----------------------------------------------------------------------------
(* The informers' events.                                                   *)

\* e2 is e with the event <<y, v>> after the k there are, or e2 is e without
\* the first of the k + 1 there are.
Grows(e, e2, k, y, v) ==
    /\ k \in Nat /\ DOMAIN e = 1 .. k /\ DOMAIN e2 = 1 .. (k + 1)
    /\ \A i \in 1 .. k : e2[i] = e[i]
    /\ e2[k + 1] = <<y, v>>
Shrinks(e, e2, k, y, v) ==
    /\ k \in Nat /\ DOMAIN e = 1 .. (k + 1) /\ DOMAIN e2 = 1 .. k
    /\ \A i \in 1 .. k : e2[i] = e[i + 1]
    /\ e[1] = <<y, v>>

\* An object's change appends an event and is what is cached from then on.
LEMMA AnnounceAppend ==
    ASSUME NEW e, NEW e2, NEW k, NEW y, NEW v, Grows(e, e2, k, y, v),
           NEW x, NEW required, NEW cache, NEW cache2, Announced(x, e, required, cache),
           x = y => cache2[x] = v /\ v # cache[x], x # y => cache2[x] = cache[x]
    PROVE  /\ Announced(x, e2, required, cache2)
           /\ Pending(x, e) # {} => Pending(x, e2) # {}
           /\ x = y => Pending(x, e2) # {}
<1> USE DEF Grows
<1> DEFINE at == Pending(x, e)
           at2 == Pending(x, e2)
<1>0. e2[k + 1][1] = y /\ e2[k + 1][2] = v /\ k + 1 \in 1 .. (k + 1) /\ 1 .. k \subseteq 1 .. (k + 1)
    OBVIOUS
<1>1. at = {i \in 1 .. k : e[i][1] = x} /\ at2 = {i \in 1 .. (k + 1) : e2[i][1] = x}
    BY DEF Pending
<1>2. /\ at = {} => required[x] = cache[x]
      /\ \A i \in at : (\A j \in at : j <= i) => e[i][2] = cache[x]
      /\ \A i \in at : (\A j \in at : i <= j) => e[i][2] # required[x]
      /\ \A i, j \in at : i < j /\ (\A l \in at : l <= i \/ j <= l) => e[i][2] # e[j][2]
    BY DEF Announced
<1> HIDE DEF at, at2
<1>3. CASE x # y
    <2>1. at2 = at
        BY <1>0, <1>1, <1>3
    <2>2. \A i \in at : e2[i] = e[i]
        BY <1>1
    <2> QED BY <1>2, <1>3, <2>1, <2>2 DEF Announced, at2, at
<1>4. CASE x = y
    <2>1. at2 = at \cup {k + 1} /\ \A i \in at : i \in Nat /\ i < k + 1 /\ e2[i] = e[i]
        BY <1>0, <1>1, <1>4
    <2>2. \A i \in at2 : (\A j \in at2 : j <= i) => e2[i][2] = cache2[x]
        BY <1>0, <1>4, <2>1
    <2>3. \A i \in at2 : (\A j \in at2 : i <= j) => e2[i][2] # required[x]
        <3>1. CASE at = {}
            BY <1>0, <1>2, <1>4, <2>1, <3>1
        <3>2. CASE at # {}
            BY <1>2, <2>1, <3>2
        <3> QED BY <3>1, <3>2
    <2>4. ASSUME NEW i \in at2, NEW j \in at2, i < j, \A l \in at2 : l <= i \/ j <= l
          PROVE  e2[i][2] # e2[j][2]
        <3>1. CASE j \in at
            BY <1>2, <2>1, <2>4, <3>1
        <3>2. CASE j = k + 1
            <4>1. i \in at /\ \A l \in at : l <= i
                BY <2>1, <2>4, <3>2
            <4>2. e[i][2] = cache[x]
                BY <1>2, <4>1
            <4> QED BY <1>0, <1>4, <2>1, <3>2, <4>1, <4>2
        <3> QED BY <2>1, <3>1, <3>2
    <2> QED BY <1>4, <2>1, <2>2, <2>3, <2>4 DEF Announced, at2, at
<1> QED BY <1>3, <1>4

\* The handler called with the oldest event notes what it says.
LEMMA AnnounceTail ==
    ASSUME NEW e, NEW e2, NEW k, NEW y, NEW v, Shrinks(e, e2, k, y, v),
           NEW x, NEW required, NEW required2, NEW cache, Announced(x, e, required, cache),
           required2[x] = IF x = y THEN v ELSE required[x]
    PROVE  /\ Announced(x, e2, required2, cache)
           /\ x # y /\ Pending(x, e) # {} => Pending(x, e2) # {}
           /\ x = y /\ Pending(x, e2) = {} => cache[x] = v /\ required[x] # v
<1> USE DEF Shrinks
<1> DEFINE at == Pending(x, e)
           at2 == Pending(x, e2)
<1>0. e[1][1] = y /\ e[1][2] = v /\ 1 \in 1 .. (k + 1)
    OBVIOUS
<1>1. /\ at = {i \in 1 .. (k + 1) : e[i][1] = x}
      /\ \A i : i \in at2 <=> i \in 1 .. k /\ e[i + 1][1] = x
      /\ \A i \in 1 .. k : i + 1 \in 1 .. (k + 1)
      /\ \A i \in at : i \in Nat /\ 1 <= i
      /\ \A i \in at : i # 1 => i - 1 \in 1 .. k /\ (i - 1) + 1 = i
    BY DEF Pending
<1>2. /\ at = {} => required[x] = cache[x]
      /\ \A i \in at : (\A j \in at : j <= i) => e[i][2] = cache[x]
      /\ \A i \in at : (\A j \in at : i <= j) => e[i][2] # required[x]
      /\ \A i, j \in at : i < j /\ (\A l \in at : l <= i \/ j <= l) => e[i][2] # e[j][2]
    BY DEF Announced
<1> HIDE DEF at, at2
<1>3. /\ \A i \in at2 : i \in Nat /\ 1 <= i /\ i + 1 \in at /\ e2[i] = e[i + 1]
      /\ \A i \in at : i = 1 \/ (i - 1 \in at2 /\ (i - 1) + 1 = i)
      /\ 1 \in at <=> x = y
    <2>1. ASSUME NEW i \in at2 PROVE i \in Nat /\ 1 <= i /\ i + 1 \in at /\ e2[i] = e[i + 1]
        <3>1. i \in 1 .. k /\ e[i + 1][1] = x /\ i + 1 \in 1 .. (k + 1)
            BY <1>1
        <3> QED BY <1>1, <3>1
    <2>2. ASSUME NEW i \in at, i # 1 PROVE i - 1 \in at2 /\ (i - 1) + 1 = i
        <3>1. i - 1 \in 1 .. k /\ (i - 1) + 1 = i /\ e[i][1] = x
            BY <1>1, <2>2
        <3>2. e[(i - 1) + 1][1] = x
            BY <3>1, Zenon
        <3> QED BY <1>1, <3>1, <3>2
    <2>3. 1 \in at <=> x = y
        BY <1>0, <1>1
    <2> QED BY <2>1, <2>2, <2>3
<1>4. \A i \in at2 : (\A j \in at2 : j <= i) => e2[i][2] = cache[x]
    <2> SUFFICES ASSUME NEW i \in at2, \A j \in at2 : j <= i PROVE e2[i][2] = cache[x]
        OBVIOUS
    <2>1. \A j \in at : j <= i + 1
        BY <1>1, <1>3
    <2> QED BY <1>2, <1>3, <2>1
<1>5. \A i, j \in at2 : i < j /\ (\A l \in at2 : l <= i \/ j <= l) => e2[i][2] # e2[j][2]
    <2> SUFFICES ASSUME NEW i \in at2, NEW j \in at2, i < j, \A l \in at2 : l <= i \/ j <= l
                 PROVE  e2[i][2] # e2[j][2]
        OBVIOUS
    <2>1. i \in Nat /\ j \in Nat /\ i + 1 \in at /\ j + 1 \in at /\ i + 1 < j + 1
        BY <1>3
    <2>2. ASSUME NEW l \in at PROVE l <= i + 1 \/ j + 1 <= l
        <3>1. CASE l = 1
            BY <2>1, <3>1
        <3>2. CASE l # 1
            <4>1. l \in Nat /\ l - 1 \in at2 /\ (l - 1 <= i \/ j <= l - 1)
                BY <1>1, <1>3, <3>2
            <4> QED BY <2>1, <4>1
        <3> QED BY <3>1, <3>2
    <2>3. e[i + 1][2] # e[j + 1][2]
        BY <1>2, <2>1, <2>2
    <2> QED BY <1>3, <2>3
<1>6. CASE x # y
    <2>1. at2 = {} => at = {}
        BY <1>3, <1>6
    <2>2. \A i \in at2 : (\A j \in at2 : i <= j) => e2[i][2] # required[x]
        <3> SUFFICES ASSUME NEW i \in at2, \A j \in at2 : i <= j PROVE e2[i][2] # required[x]
            OBVIOUS
        <3>1. \A j \in at : i + 1 <= j
            BY <1>1, <1>3, <1>6
        <3> QED BY <1>2, <1>3, <3>1
    <2> QED BY <1>2, <1>4, <1>5, <1>6, <2>1, <2>2 DEF Announced, at2, at
<1>7. CASE x = y
    <2>1. 1 \in at /\ e[1][2] # required[x]
        BY <1>1, <1>2, <1>3, <1>7
    <2>2. at2 = {} => cache[x] = v
        <3>1. at2 = {} => \A j \in at : j <= 1
            BY <1>1, <1>3
        <3> QED BY <1>0, <1>2, <2>1, <3>1
    <2>3. \A i \in at2 : (\A j \in at2 : i <= j) => e2[i][2] # v
        <3> SUFFICES ASSUME NEW i \in at2, \A j \in at2 : i <= j PROVE e2[i][2] # v
            OBVIOUS
        <3>1. 1 < i + 1 /\ \A l \in at : l <= 1 \/ i + 1 <= l
            BY <1>1, <1>3
        <3> QED BY <1>0, <1>2, <1>3, <2>1, <3>1
    <2> QED BY <1>0, <1>4, <1>5, <1>7, <2>1, <2>2, <2>3 DEF Announced, at2, at
<1> QED BY <1>6, <1>7

\* Quota q and namespace n are mapped as they should be, or one is to be scanned.
Settled(q, n) ==
    \/ Awaits(q, quotaEvents, quotaQ) \/ Awaits(n, nsEvents, nsQ)
    \/ ComesTo(n, q, qw, quotaCache) \/ ComesTo(q, n, nw, nsCache)
    \/ Exact(q, n)

QuotaNoted(q) == Noted(q, quotaEvents, quotaQ, qw, quotaCache, completedQuota)
NsNoted(n) == Noted(n, nsEvents, nsQ, nw, nsCache, completedNs)
QuotaAnnounced(q) == Announced(q, quotaEvents, requiredQuota, quotaCache)
NsAnnounced(n) == Announced(n, nsEvents, requiredNs, nsCache)

LEMMA SettleParts ==
    SettleInv <=> /\ MappingInv
                  /\ \A q \in Quotas : QuotaAnnounced(q) /\ QuotaNoted(q)
                  /\ \A n \in Namespaces : NsAnnounced(n) /\ NsNoted(n)
                  /\ \A q \in Quotas, n \in Namespaces : Settled(q, n)
    BY DEF SettleInv, Settled, QuotaNoted, NsNoted, QuotaAnnounced, NsAnnounced

\* Without events to come the handlers have noted what is cached, and what is
\* gone is not mapped.
LEMMA Delivered ==
    ASSUME SettleInv, NEW q \in Quotas, NEW n \in Namespaces,
           Pending(q, quotaEvents) = {}, Pending(n, nsEvents) = {}
    PROVE  /\ requiredQuota[q] = quotaCache[q] /\ requiredNs[n] = nsCache[n]
           /\ quotaCache[q] = None \/ nsCache[n] = None => Exact(q, n)
<1>1. requiredQuota[q] = quotaCache[q] /\ requiredNs[n] = nsCache[n]
    BY SettleParts DEF QuotaAnnounced, NsAnnounced, Announced
<1>2. n \in quotaToNs[q] => quotaCache[q] # None /\ nsCache[n] # None
    BY <1>1, SettleParts DEF MappingInv, MappingConsistent
<1>3. quotaCache[q] # None => None \notin quotaCache[q]
    BY MappingAssumption, SettleParts DEF MappingInv, TypeOK
<1> QED BY <1>1, <1>2, <1>3 DEF Exact

LEMMA ChangeQuotaFacts ==
    ASSUME SettleInv, NEW q \in Quotas, NEW s, ChangeQuota(q, s)
    PROVE  /\ Pending(q, quotaEvents') # {}
           /\ \A r \in Quotas : /\ QuotaAnnounced(r)'
                                /\ Pending(r, quotaEvents) # {} => Pending(r, quotaEvents') # {}
                                /\ r # q => quotaCache'[r] = quotaCache[r]
<1> DEFINE k == Len(quotaEvents)
<1>1. /\ s # quotaCache[q] /\ quotaCache' = [quotaCache EXCEPT ![q] = s]
      /\ quotaEvents' = Append(quotaEvents, <<q, s>>) /\ requiredQuota' = requiredQuota
    BY DEF ChangeQuota
<1>2. quotaEvents \in Seq(Quotas \X (Selectors \cup {None})) /\ DOMAIN quotaCache = Quotas
    BY SettleParts DEF MappingInv, TypeOK
<1>3. Grows(quotaEvents, quotaEvents', k, q, s)
    BY <1>1, <1>2 DEF Grows
<1>4. \A r \in Quotas : IF r = q THEN quotaCache'[r] = s /\ s # quotaCache[r]
                        ELSE quotaCache'[r] = quotaCache[r]
    BY <1>1, <1>2
<1> HIDE DEF k
<1>5. ASSUME NEW r \in Quotas
      PROVE  /\ Announced(r, quotaEvents', requiredQuota, quotaCache')
             /\ Pending(r, quotaEvents) # {} => Pending(r, quotaEvents') # {}
             /\ r = q => Pending(r, quotaEvents') # {}
    <2>1. Announced(r, quotaEvents, requiredQuota, quotaCache)
        BY SettleParts DEF QuotaAnnounced
    <2>2. /\ r = q => quotaCache'[r] = s /\ s # quotaCache[r]
          /\ r # q => quotaCache'[r] = quotaCache[r]
        BY <1>4
    <2> QED BY <1>3, <2>1, <2>2, AnnounceAppend
<1> QED BY <1>1, <1>4, <1>5 DEF QuotaAnnounced

LEMMA ChangeNamespaceFacts ==
    ASSUME SettleInv, NEW n \in Namespaces, NEW l, ChangeNamespace(n, l)
    PROVE  /\ Pending(n, nsEvents') # {}
           /\ \A m \in Namespaces : /\ NsAnnounced(m)'
                                    /\ Pending(m, nsEvents) # {} => Pending(m, nsEvents') # {}
                                    /\ m # n => nsCache'[m] = nsCache[m]
<1> DEFINE k == Len(nsEvents)
<1>1. /\ l # nsCache[n] /\ nsCache' = [nsCache EXCEPT ![n] = l]
      /\ nsEvents' = Append(nsEvents, <<n, l>>) /\ requiredNs' = requiredNs
    BY DEF ChangeNamespace
<1>2. nsEvents \in Seq(Namespaces \X (Labels \cup {None})) /\ DOMAIN nsCache = Namespaces
    BY SettleParts DEF MappingInv, TypeOK
<1>3. Grows(nsEvents, nsEvents', k, n, l)
    BY <1>1, <1>2 DEF Grows
<1>4. \A m \in Namespaces : IF m = n THEN nsCache'[m] = l /\ l # nsCache[m]
                            ELSE nsCache'[m] = nsCache[m]
    BY <1>1, <1>2
<1> HIDE DEF k
<1>5. ASSUME NEW m \in Namespaces
      PROVE  /\ Announced(m, nsEvents', requiredNs, nsCache')
             /\ Pending(m, nsEvents) # {} => Pending(m, nsEvents') # {}
             /\ m = n => Pending(m, nsEvents') # {}
    <2>1. Announced(m, nsEvents, requiredNs, nsCache)
        BY SettleParts DEF NsAnnounced
    <2>2. /\ m = n => nsCache'[m] = l /\ l # nsCache[m]
          /\ m # n => nsCache'[m] = nsCache[m]
        BY <1>4
    <2> QED BY <1>3, <2>1, <2>2, AnnounceAppend
<1> QED BY <1>1, <1>4, <1>5 DEF NsAnnounced

LEMMA QuotaEventFacts ==
    ASSUME SettleInv, QuotaEvent
    PROVE  \E q \in Quotas, s \in Selectors \cup {None} :
              /\ IF s = None THEN RemoveQuota(q) ELSE EnqueueQuota(q, s)
              /\ UNCHANGED <<quotaCache, nsCache, nsEvents, nsNotes, nsQ, qw, nw>>
              /\ \A r \in Quotas :
                   /\ QuotaAnnounced(r)'
                   /\ r # q /\ Pending(r, quotaEvents) # {} => Pending(r, quotaEvents') # {}
              /\ Pending(q, quotaEvents') = {} => quotaCache[q] = s /\ requiredQuota[q] # s
<1>0. TypeOK /\ quotaEvents \in Seq(Quotas \X (Selectors \cup {None})) /\ quotaEvents # <<>>
    BY SettleParts DEF MappingInv, TypeOK, QuotaEvent
<1>1. PICK k \in Nat : Len(quotaEvents) = k + 1
    <2>1. Len(quotaEvents) \in Nat /\ Len(quotaEvents) # 0
        BY <1>0
    <2>2. \A i \in Nat : i # 0 => i - 1 \in Nat /\ i = (i - 1) + 1
        OBVIOUS
    <2> QED BY <2>1, <2>2
<1>2. PICK q \in Quotas, s \in Selectors \cup {None} : Head(quotaEvents) = <<q, s>>
    <2>1. Head(quotaEvents) \in Quotas \X (Selectors \cup {None})
        BY <1>0
    <2> QED BY <2>1
<1>3. /\ IF s = None THEN RemoveQuota(q) ELSE EnqueueQuota(q, s)
      /\ quotaEvents' = Tail(quotaEvents)
      /\ UNCHANGED <<quotaCache, nsCache, nsEvents, nsNotes, nsQ, qw, nw>>
    BY <1>2 DEF QuotaEvent
<1>4. Shrinks(quotaEvents, quotaEvents', k, q, s)
    BY <1>0, <1>1, <1>2, <1>3 DEF Shrinks
<1>5. \A r \in Quotas : requiredQuota'[r] = IF r = q THEN s ELSE requiredQuota[r]
    BY <1>0, <1>3 DEF RemoveQuota, EnqueueQuota, TypeOK
<1>6. ASSUME NEW r \in Quotas
      PROVE  /\ Announced(r, quotaEvents', requiredQuota', quotaCache)
             /\ r # q /\ Pending(r, quotaEvents) # {} => Pending(r, quotaEvents') # {}
             /\ r = q /\ Pending(r, quotaEvents') = {} => quotaCache[r] = s /\ requiredQuota[r] # s
    <2>1. Announced(r, quotaEvents, requiredQuota, quotaCache)
        BY SettleParts DEF QuotaAnnounced
    <2>2. requiredQuota'[r] = IF r = q THEN s ELSE requiredQuota[r]
        BY <1>5
    <2> QED BY <1>4, <2>1, <2>2, AnnounceTail
<1> QED BY <1>3, <1>6 DEF QuotaAnnounced

LEMMA NamespaceEventFacts ==
    ASSUME SettleInv, NamespaceEvent
    PROVE  \E n \in Namespaces, l \in Labels \cup {None} :
              /\ IF l = None THEN RemoveNamespace(n) ELSE EnqueueNamespace(n, l)
              /\ UNCHANGED <<quotaCache, nsCache, quotaEvents, quotaNotes, quotaQ, qw, nw>>
              /\ \A m \in Namespaces :
                   /\ NsAnnounced(m)'
                   /\ m # n /\ Pending(m, nsEvents) # {} => Pending(m, nsEvents') # {}
              /\ Pending(n, nsEvents') = {} => nsCache[n] = l /\ requiredNs[n] # l
<1>0. TypeOK /\ nsEvents \in Seq(Namespaces \X (Labels \cup {None})) /\ nsEvents # <<>>
    BY SettleParts DEF MappingInv, TypeOK, NamespaceEvent
<1>1. PICK k \in Nat : Len(nsEvents) = k + 1
    <2>1. Len(nsEvents) \in Nat /\ Len(nsEvents) # 0
        BY <1>0
    <2>2. \A i \in Nat : i # 0 => i - 1 \in Nat /\ i = (i - 1) + 1
        OBVIOUS
    <2> QED BY <2>1, <2>2
<1>2. PICK n \in Namespaces, l \in Labels \cup {None} : Head(nsEvents) = <<n, l>>
    <2>1. Head(nsEvents) \in Namespaces \X (Labels \cup {None})
        BY <1>0
    <2> QED BY <2>1
<1>3. /\ IF l = None THEN RemoveNamespace(n) ELSE EnqueueNamespace(n, l)
      /\ nsEvents' = Tail(nsEvents)
      /\ UNCHANGED <<quotaCache, nsCache, quotaEvents, quotaNotes, quotaQ, qw, nw>>
    BY <1>2 DEF NamespaceEvent
<1>4. Shrinks(nsEvents, nsEvents', k, n, l)
    BY <1>0, <1>1, <1>2, <1>3 DEF Shrinks
<1>5. \A m \in Namespaces : requiredNs'[m] = IF m = n THEN l ELSE requiredNs[m]
    BY <1>0, <1>3 DEF RemoveNamespace, EnqueueNamespace, TypeOK
<1>6. ASSUME NEW m \in Namespaces
      PROVE  /\ Announced(m, nsEvents', requiredNs', nsCache)
             /\ m # n /\ Pending(m, nsEvents) # {} => Pending(m, nsEvents') # {}
             /\ m = n /\ Pending(m, nsEvents') = {} => nsCache[m] = l /\ requiredNs[m] # l
    <2>1. Announced(m, nsEvents, requiredNs, nsCache)
        BY SettleParts DEF NsAnnounced
    <2>2. requiredNs'[m] = IF m = n THEN l ELSE requiredNs[m]
        BY <1>5
    <2> QED BY <1>4, <2>1, <2>2, AnnounceTail
<1> QED BY <1>3, <1>6 DEF NsAnnounced

-----------------------------------------------------------------------------
(* Every step keeps scans coming for what is not mapped as it should be.    *)

\* What a step of one quota's worker leaves alone.
LEMMA QuotaWorkerFrame ==
    ASSUME TypeOK, NEW q \in Quotas, QuotaWorker(q)
    PROVE  /\ UNCHANGED <<informers, requiredQuota, nsNotes, nsQ, nw>>
           /\ qw \in [Quotas -> QuotaWorkers]
           /\ \A r \in Quotas : r # q => /\ qw'[r] = qw[r] /\ (r \in quotaQ' <=> r \in quotaQ)
                                         /\ quotaToNs'[r] = quotaToNs[r]
                                         /\ completedQuota'[r] = completedQuota[r]
<1>1. /\ UNCHANGED <<informers, requiredQuota, nsNotes, nsQ, nw>>
      /\ qw \in [Quotas -> QuotaWorkers]
    BY DEF QuotaWorker, GetQuota, ListNamespaces, ScanNamespace, CompleteQuota, TypeOK
<1>2. CASE GetQuota(q)
    BY <1>1, <1>2 DEF GetQuota
<1>3. CASE ListNamespaces(q)
    BY <1>1, <1>3 DEF ListNamespaces
<1>4. ASSUME NEW n \in Namespaces, ScanNamespace(q, n)
      PROVE  \A r \in Quotas : r # q => /\ qw'[r] = qw[r] /\ (r \in quotaQ' <=> r \in quotaQ)
                                        /\ quotaToNs'[r] = quotaToNs[r]
                                        /\ completedQuota'[r] = completedQuota[r]
    <2>1. \A r \in Quotas : r # q => quotaToNs'[r] = quotaToNs[r]
        BY <1>4 DEF ScanNamespace, SetMapping, TypeOK
    <2> QED BY <1>1, <1>4, <2>1 DEF ScanNamespace
<1>5. CASE CompleteQuota(q)
    BY <1>1, <1>5 DEF CompleteQuota, TypeOK
<1> QED BY <1>1, <1>2, <1>3, <1>4, <1>5 DEF QuotaWorker

LEMMA QuotaWorkerNotes ==
    ASSUME SettleInv, NEW q \in Quotas, QuotaWorker(q)
    PROVE  /\ \A r \in Quotas : QuotaAnnounced(r)' /\ QuotaNoted(r)'
           /\ \A n \in Namespaces : NsAnnounced(n)' /\ NsNoted(n)'
<1>0. /\ TypeOK /\ UNCHANGED <<informers, requiredQuota, nsNotes, nsQ, nw>>
      /\ qw \in [Quotas -> QuotaWorkers] /\ qw[q] \in QuotaWorkers
    BY QuotaWorkerFrame, SettleParts DEF MappingInv
<1>1. /\ \A r \in Quotas : QuotaAnnounced(r)'
      /\ \A n \in Namespaces : NsAnnounced(n)' /\ NsNoted(n)'
    BY <1>0, SettleParts DEF QuotaAnnounced, NsAnnounced, NsNoted, Noted, Announced, Awaits
<1>2. \A r \in Quotas : r # q => QuotaNoted(r)'
    BY <1>0, QuotaWorkerFrame, SettleParts DEF QuotaNoted, Noted, Awaits
<1>3. QuotaNoted(q)
    BY SettleParts
<1>4. QuotaNoted(q)'
    <2>1. CASE quotaCache[q] = None \/ Pending(q, quotaEvents) # {}
        BY <1>0, <2>1 DEF QuotaNoted, Noted, Awaits
    <2>2. CASE quotaCache[q] # None /\ Pending(q, quotaEvents) = {}
        <3>1. CASE GetQuota(q)
            <4>1. qw'[q].pc = "list" /\ qw'[q].obj = quotaCache[q]
                BY <1>0, <2>2, <3>1 DEF GetQuota, QuotaIdle
            <4> QED BY <1>0, <4>1 DEF QuotaNoted, Noted
        <3>2. CASE ListNamespaces(q)
            <4>1. /\ qw[q].pc = "list" /\ qw'[q].pc = "scan" /\ qw'[q].obj = qw[q].obj
                  /\ quotaQ' = quotaQ
                BY <1>0, <3>2 DEF ListNamespaces, QuotaWorkers
            <4> QED BY <1>0, <1>3, <2>2, <4>1 DEF QuotaNoted, Noted, Awaits
        <3>3. ASSUME NEW n \in Namespaces, ScanNamespace(q, n) PROVE QuotaNoted(q)'
            <4>1. /\ qw[q].pc = "scan" /\ qw'[q].pc = "scan" /\ qw'[q].obj = qw[q].obj
                  /\ quotaQ' = quotaQ
                BY <1>0, <3>3 DEF ScanNamespace, QuotaWorkers
            <4> QED BY <1>0, <1>3, <2>2, <4>1 DEF QuotaNoted, Noted, Awaits
        <3>4. CASE CompleteQuota(q)
            <4>1. /\ qw[q].pc = "scan" /\ qw'[q].pc = "idle" /\ completedQuota'[q] = qw[q].obj
                  /\ quotaQ' = quotaQ
                BY <1>0, <3>4 DEF CompleteQuota, QuotaIdle, TypeOK
            <4> QED BY <1>0, <1>3, <2>2, <4>1 DEF QuotaNoted, Noted, Awaits
        <3> QED BY <3>1, <3>2, <3>3, <3>4 DEF QuotaWorker
    <2> QED BY <2>1, <2>2
<1> QED BY <1>1, <1>2, <1>4

LEMMA QuotaWorkerSettles ==
    ASSUME SettleInv, NEW q \in Quotas, QuotaWorker(q), NEW r \in Quotas, NEW n \in Namespaces
    PROVE  Settled(r, n)'
<1>0. /\ TypeOK /\ UNCHANGED <<informers, requiredQuota, nsNotes, nsQ, nw>>
      /\ qw \in [Quotas -> QuotaWorkers] /\ qw[q] \in QuotaWorkers
    BY QuotaWorkerFrame, SettleParts DEF MappingInv
<1>1. Settled(r, n)
    BY SettleParts
<1>2. CASE r # q
    <2>1. /\ qw'[r] = qw[r] /\ (r \in quotaQ' <=> r \in quotaQ) /\ quotaToNs'[r] = quotaToNs[r]
        BY <1>0, <1>2, QuotaWorkerFrame
    <2> QED BY <1>0, <1>1, <2>1 DEF Settled, Awaits, ComesTo, Exact
<1>3. CASE Pending(r, quotaEvents) # {} \/ Awaits(n, nsEvents, nsQ)
    BY <1>0, <1>3 DEF Settled, Awaits
<1>4. CASE r = q /\ Pending(q, quotaEvents) = {} /\ ~Awaits(n, nsEvents, nsQ)
    <2>1. Pending(n, nsEvents) = {}
        BY <1>4 DEF Awaits
    <2>2. /\ requiredQuota[q] = quotaCache[q] /\ requiredNs[n] = nsCache[n]
          /\ quotaCache[q] = None \/ nsCache[n] = None => Exact(q, n)
        BY <1>4, <2>1, Delivered
    <2>3. CASE GetQuota(q)
        <3>1. CASE quotaCache[q] = None
            BY <1>0, <1>4, <2>2, <2>3, <3>1 DEF Settled, Exact, GetQuota
        <3>2. CASE quotaCache[q] # None
            <4>1. qw'[q].pc = "list" /\ qw'[q].obj = quotaCache[q]
                BY <1>0, <2>3, <3>2 DEF GetQuota, QuotaIdle
            <4> QED BY <1>0, <1>4, <4>1 DEF Settled, ComesTo
        <3> QED BY <3>1, <3>2
    <2>4. CASE ListNamespaces(q)
        <3>1. /\ qw[q].pc = "list" /\ qw'[q].pc = "scan" /\ qw'[q].obj = qw[q].obj
              /\ qw'[q].todo = Present(nsCache) /\ UNCHANGED <<quotaQ, mapping>>
            BY <1>0, <2>4 DEF ListNamespaces, QuotaWorkers
        <3>2. CASE nsCache[n] = None
            BY <1>0, <1>4, <2>2, <3>1, <3>2 DEF Settled, Exact
        <3>3. CASE nsCache[n] # None
            <4>1. n \in Present(nsCache)
                BY <1>0, <3>3 DEF Present, TypeOK
            <4> QED BY <1>0, <1>1, <1>4, <3>1, <4>1 DEF Settled, ComesTo, Awaits, Exact
        <3> QED BY <3>2, <3>3
    <2>5. ASSUME NEW m \in Namespaces, ScanNamespace(q, m) PROVE Settled(r, n)'
        <3>1. /\ qw[q].pc = "scan" /\ qw'[q].pc = "scan" /\ qw'[q].obj = qw[q].obj
              /\ quotaQ' = quotaQ
            BY <1>0, <2>5 DEF ScanNamespace, QuotaWorkers
        <3>2. CASE ~QuotaMatches(q, qw[q].obj)
            <4>1. qw[q].obj # quotaCache[q] /\ UNCHANGED mapping
                BY <2>2, <2>5, <3>2 DEF QuotaMatches, ScanNamespace
            <4> QED BY <1>0, <1>1, <1>4, <3>1, <4>1 DEF Settled, ComesTo, Awaits, Exact
        <3>3. CASE /\ QuotaMatches(q, qw[q].obj) /\ NamespaceMatches(m, qw[q].snap[m])
                   /\ SetMapping(q, m, qw[q].snap[m] \in qw[q].obj)
                   /\ qw' = [qw EXCEPT ![q].todo = @ \ {m}]
            <4>1. qw'[q].todo = qw[q].todo \ {m}
                BY <1>0, <3>3 DEF QuotaWorkers
            <4>2. \A k \in Namespaces : k \in quotaToNs'[q] <=>
                      IF k = m THEN qw[q].snap[m] \in qw[q].obj ELSE k \in quotaToNs[q]
                BY <1>0, <3>3 DEF SetMapping, TypeOK
            <4>3. CASE n = m
                <5>1. qw[q].snap[n] = nsCache[n] /\ qw[q].obj = quotaCache[q]
                    BY <2>2, <3>3, <4>3 DEF QuotaMatches, NamespaceMatches
                <5>2. CASE quotaCache[q] = None
                    <6>1. qw[q].obj # None
                        BY <3>1, SettleParts DEF MappingInv, Scanning
                    <6> QED BY <5>1, <5>2, <6>1
                <5>3. CASE quotaCache[q] # None
                    <6>1. n \in quotaToNs'[q] <=> nsCache[n] \in quotaCache[q]
                        BY <4>2, <4>3, <5>1
                    <6> QED BY <1>0, <1>4, <5>3, <6>1 DEF Settled, Exact
                <5> QED BY <5>2, <5>3
            <4>4. CASE n # m
                BY <1>0, <1>1, <1>4, <3>1, <4>1, <4>2, <4>4 DEF Settled, ComesTo, Awaits, Exact
            <4> QED BY <4>3, <4>4
        <3>4. CASE ~NamespaceMatches(m, qw[q].snap[m]) /\ QuotaMatches(q, qw[q].obj)
            <4>1. UNCHANGED mapping
                BY <2>5, <3>4 DEF ScanNamespace
            <4>2. CASE nsCache[n] = None
                BY <1>0, <1>4, <2>2, <4>1, <4>2 DEF Settled, Exact
            <4>3. CASE nsCache[n] # None
                <5>1. n \in qw[q].todo => n \in qw'[q].todo
                    <6>1. \/ qw' = [qw EXCEPT ![q].todo = @ \ {m}] /\ n # m
                          \/ qw' = [qw EXCEPT ![q].snap[m] = nsCache[m]]
                        BY <2>5, <3>4, <4>3 DEF ScanNamespace
                    <6>2. CASE qw' = [qw EXCEPT ![q].todo = @ \ {m}] /\ n # m
                        BY <1>0, <6>2 DEF QuotaWorkers
                    <6>3. CASE qw' = [qw EXCEPT ![q].snap[m] = nsCache[m]]
                        BY <1>0, <6>3 DEF QuotaWorkers
                    <6> QED BY <6>1, <6>2, <6>3
                <5> QED BY <1>0, <1>1, <1>4, <3>1, <4>1, <5>1 DEF Settled, ComesTo, Awaits, Exact
            <4> QED BY <4>2, <4>3
        <3> QED BY <2>5, <3>2, <3>3, <3>4 DEF ScanNamespace
    <2>6. CASE CompleteQuota(q)
        <3>1. qw[q].pc = "scan" /\ qw[q].todo = {} /\ UNCHANGED <<quotaQ, mapping>>
            BY <2>6 DEF CompleteQuota
        <3>2. ~ComesTo(n, q, qw, quotaCache)
            BY <3>1 DEF ComesTo
        <3> QED BY <1>0, <1>1, <1>4, <3>1, <3>2 DEF Settled, ComesTo, Awaits, Exact
    <2> QED BY <2>3, <2>4, <2>5, <2>6 DEF QuotaWorker
<1> QED BY <1>2, <1>3, <1>4

\* What a step of one namespace's worker leaves alone.
LEMMA NamespaceWorkerFrame ==
    ASSUME TypeOK, NEW n \in Namespaces, NamespaceWorker(n)
    PROVE  /\ UNCHANGED <<informers, requiredNs, quotaNotes, quotaQ, qw>>
           /\ nw \in [Namespaces -> NsWorkers]
           /\ \A m \in Namespaces : m # n =>
                 /\ nw'[m] = nw[m] /\ (m \in nsQ' <=> m \in nsQ)
                 /\ \A q \in Quotas : m \in quotaToNs'[q] <=> m \in quotaToNs[q]
                 /\ completedNs'[m] = completedNs[m]
<1>1. /\ UNCHANGED <<informers, requiredNs, quotaNotes, quotaQ, qw>>
      /\ nw \in [Namespaces -> NsWorkers]
    BY DEF NamespaceWorker, GetNamespace, ListQuotas, ScanQuota, CompleteNamespace, TypeOK
<1>2. CASE GetNamespace(n)
    BY <1>1, <1>2 DEF GetNamespace
<1>3. CASE ListQuotas(n)
    BY <1>1, <1>3 DEF ListQuotas
<1>4. ASSUME NEW r \in Quotas, ScanQuota(n, r)
      PROVE  \A m \in Namespaces : m # n =>
                 /\ nw'[m] = nw[m] /\ (m \in nsQ' <=> m \in nsQ)
                 /\ \A q \in Quotas : m \in quotaToNs'[q] <=> m \in quotaToNs[q]
                 /\ completedNs'[m] = completedNs[m]
    <2>1. \A m \in Namespaces : m # n =>
              \A q \in Quotas : m \in quotaToNs'[q] <=> m \in quotaToNs[q]
        BY <1>4 DEF ScanQuota, SetMapping, TypeOK
    <2>2. \A m \in Namespaces : m # n => nw'[m] = nw[m]
        BY <1>1, <1>4 DEF ScanQuota
    <2>3. nsQ' = nsQ /\ completedNs' = completedNs
        BY <1>4 DEF ScanQuota
    <2> QED BY <2>1, <2>2, <2>3
<1>5. CASE CompleteNamespace(n)
    BY <1>1, <1>5 DEF CompleteNamespace, TypeOK
<1> QED BY <1>1, <1>2, <1>3, <1>4, <1>5 DEF NamespaceWorker

LEMMA NamespaceWorkerNotes ==
    ASSUME SettleInv, NEW n \in Namespaces, NamespaceWorker(n)
    PROVE  /\ \A q \in Quotas : QuotaAnnounced(q)' /\ QuotaNoted(q)'
           /\ \A m \in Namespaces : NsAnnounced(m)' /\ NsNoted(m)'
<1>0. /\ TypeOK /\ UNCHANGED <<informers, requiredNs, quotaNotes, quotaQ, qw>>
      /\ nw \in [Namespaces -> NsWorkers] /\ nw[n] \in NsWorkers
    BY NamespaceWorkerFrame, SettleParts DEF MappingInv
<1>1. /\ \A m \in Namespaces : NsAnnounced(m)'
      /\ \A q \in Quotas : QuotaAnnounced(q)' /\ QuotaNoted(q)'
    BY <1>0, SettleParts DEF QuotaAnnounced, NsAnnounced, QuotaNoted, Noted, Announced, Awaits
<1>2. \A m \in Namespaces : m # n => NsNoted(m)'
    BY <1>0, NamespaceWorkerFrame, SettleParts DEF NsNoted, Noted, Awaits
<1>3. NsNoted(n)
    BY SettleParts
<1>4. NsNoted(n)'
    <2>1. CASE nsCache[n] = None \/ Pending(n, nsEvents) # {}
        BY <1>0, <2>1 DEF NsNoted, Noted, Awaits
    <2>2. CASE nsCache[n] # None /\ Pending(n, nsEvents) = {}
        <3>1. CASE GetNamespace(n)
            <4>1. nw'[n].pc = "list" /\ nw'[n].obj = nsCache[n]
                BY <1>0, <2>2, <3>1 DEF GetNamespace, NsIdle
            <4> QED BY <1>0, <4>1 DEF NsNoted, Noted
        <3>2. CASE ListQuotas(n)
            <4>1. /\ nw[n].pc = "list" /\ nw'[n].pc = "scan" /\ nw'[n].obj = nw[n].obj
                  /\ nsQ' = nsQ
                BY <1>0, <3>2 DEF ListQuotas, NsWorkers
            <4> QED BY <1>0, <1>3, <2>2, <4>1 DEF NsNoted, Noted, Awaits
        <3>3. ASSUME NEW q \in Quotas, ScanQuota(n, q) PROVE NsNoted(n)'
            <4>1. nw[n].pc = "scan" /\ nsQ' = nsQ
                BY <1>0, <3>3 DEF ScanQuota
            <4>2. CASE NamespaceMatches(n, nw[n].obj)
                <5>1. nw'[n].pc = "scan" /\ nw'[n].obj = nw[n].obj
                    BY <1>0, <3>3, <4>1, <4>2 DEF ScanQuota, NsWorkers
                <5> QED BY <1>0, <1>3, <2>2, <4>1, <5>1 DEF NsNoted, Noted, Awaits
            <4>3. CASE ~NamespaceMatches(n, nw[n].obj)
                <5>1. requiredNs[n] = nsCache[n]
                    BY <2>2, SettleParts DEF NsAnnounced, Announced
                <5>2. n \in nsQ
                    BY <1>3, <2>2, <4>1, <4>3, <5>1 DEF NamespaceMatches, NsNoted, Noted, Awaits
                <5> QED BY <4>1, <5>2 DEF NsNoted, Noted, Awaits
            <4> QED BY <4>2, <4>3
        <3>4. CASE CompleteNamespace(n)
            <4>1. /\ nw[n].pc = "scan" /\ nw'[n].pc = "idle" /\ completedNs'[n] = nw[n].obj
                  /\ nsQ' = nsQ
                BY <1>0, <3>4 DEF CompleteNamespace, NsIdle, TypeOK
            <4> QED BY <1>0, <1>3, <2>2, <4>1 DEF NsNoted, Noted, Awaits
        <3> QED BY <3>1, <3>2, <3>3, <3>4 DEF NamespaceWorker
    <2> QED BY <2>1, <2>2
<1> QED BY <1>1, <1>2, <1>4

LEMMA NamespaceWorkerSettles ==
    ASSUME SettleInv, NEW n \in Namespaces, NamespaceWorker(n), NEW q \in Quotas, NEW m \in Namespaces
    PROVE  Settled(q, m)'
<1>0. /\ TypeOK /\ UNCHANGED <<informers, requiredNs, quotaNotes, quotaQ, qw>>
      /\ nw \in [Namespaces -> NsWorkers] /\ nw[n] \in NsWorkers
    BY NamespaceWorkerFrame, SettleParts DEF MappingInv
<1>1. Settled(q, m)
    BY SettleParts
<1>2. CASE m # n
    <2>1. /\ nw'[m] = nw[m] /\ (m \in nsQ' <=> m \in nsQ)
          /\ (m \in quotaToNs'[q] <=> m \in quotaToNs[q])
        BY <1>0, <1>2, NamespaceWorkerFrame
    <2> QED BY <1>0, <1>1, <2>1 DEF Settled, Awaits, ComesTo, Exact
<1>3. CASE Pending(m, nsEvents) # {} \/ Awaits(q, quotaEvents, quotaQ)
    BY <1>0, <1>3 DEF Settled, Awaits
<1>4. CASE m = n /\ Pending(n, nsEvents) = {} /\ ~Awaits(q, quotaEvents, quotaQ)
    <2>1. Pending(q, quotaEvents) = {}
        BY <1>4 DEF Awaits
    <2>2. /\ requiredQuota[q] = quotaCache[q] /\ requiredNs[n] = nsCache[n]
          /\ quotaCache[q] = None \/ nsCache[n] = None => Exact(q, n)
        BY <1>4, <2>1, Delivered
    <2>3. CASE GetNamespace(n)
        <3>1. CASE nsCache[n] = None
            BY <1>0, <1>4, <2>2, <2>3, <3>1 DEF Settled, Exact, GetNamespace
        <3>2. CASE nsCache[n] # None
            <4>1. nw'[n].pc = "list" /\ nw'[n].obj = nsCache[n]
                BY <1>0, <2>3, <3>2 DEF GetNamespace, NsIdle
            <4> QED BY <1>0, <1>4, <4>1 DEF Settled, ComesTo
        <3> QED BY <3>1, <3>2
    <2>4. CASE ListQuotas(n)
        <3>1. /\ nw[n].pc = "list" /\ nw'[n].pc = "scan" /\ nw'[n].obj = nw[n].obj
              /\ nw'[n].todo = Present(quotaCache) /\ UNCHANGED <<nsQ, mapping>>
            BY <1>0, <2>4 DEF ListQuotas, NsWorkers
        <3>2. CASE quotaCache[q] = None
            BY <1>0, <1>4, <2>2, <3>1, <3>2 DEF Settled, Exact
        <3>3. CASE quotaCache[q] # None
            <4>1. q \in Present(quotaCache)
                BY <1>0, <3>3 DEF Present, TypeOK
            <4> QED BY <1>0, <1>1, <1>4, <3>1, <4>1 DEF Settled, ComesTo, Awaits, Exact
        <3> QED BY <3>2, <3>3
    <2>5. ASSUME NEW r \in Quotas, ScanQuota(n, r) PROVE Settled(q, m)'
        <3>1. nw[n].pc = "scan" /\ nsQ' = nsQ
            BY <1>0, <2>5 DEF ScanQuota
        <3>2. CASE ~NamespaceMatches(n, nw[n].obj)
            <4>1. nw[n].obj # nsCache[n] /\ UNCHANGED mapping
                BY <2>2, <2>5, <3>2 DEF NamespaceMatches, ScanQuota
            <4> QED BY <1>0, <1>1, <1>4, <3>1, <4>1 DEF Settled, ComesTo, Awaits, Exact
        <3>3. CASE /\ QuotaMatches(r, nw[n].snap[r]) /\ NamespaceMatches(n, nw[n].obj)
                   /\ SetMapping(r, n, nw[n].obj \in nw[n].snap[r])
                   /\ nw' = [nw EXCEPT ![n].todo = @ \ {r}]
            <4>1. nw'[n].todo = nw[n].todo \ {r} /\ nw'[n].pc = "scan" /\ nw'[n].obj = nw[n].obj
                BY <1>0, <3>1, <3>3 DEF NsWorkers
            <4>2. \A k \in Quotas : n \in quotaToNs'[k] <=>
                      IF k = r THEN nw[n].obj \in nw[n].snap[r] ELSE n \in quotaToNs[k]
                BY <1>0, <3>3 DEF SetMapping, TypeOK
            <4>3. CASE q = r
                <5>1. nw[n].snap[q] = quotaCache[q] /\ nw[n].obj = nsCache[n]
                    BY <2>2, <3>3, <4>3 DEF QuotaMatches, NamespaceMatches
                <5>2. quotaCache[q] # None
                    <6>1. r \in nw[n].todo
                        BY <2>5 DEF ScanQuota
                    <6>2. nw[n].snap[r] # None
                        BY <3>1, <6>1, SettleParts DEF MappingInv, Scanning
                    <6> QED BY <4>3, <5>1, <6>2
                <5>3. n \in quotaToNs'[q] <=> nsCache[n] \in quotaCache[q]
                    BY <4>2, <4>3, <5>1
                <5> QED BY <1>0, <1>4, <5>2, <5>3 DEF Settled, Exact
            <4>4. CASE q # r
                BY <1>0, <1>1, <1>4, <3>1, <4>1, <4>2, <4>4 DEF Settled, ComesTo, Awaits, Exact
            <4> QED BY <4>3, <4>4
        <3>4. CASE ~QuotaMatches(r, nw[n].snap[r]) /\ NamespaceMatches(n, nw[n].obj)
            <4>1. UNCHANGED mapping
                BY <2>5, <3>4 DEF ScanQuota
            <4>2. CASE quotaCache[q] = None
                BY <1>0, <1>4, <2>2, <4>1, <4>2 DEF Settled, Exact
            <4>3. CASE quotaCache[q] # None
                <5>1. /\ q \in nw[n].todo => q \in nw'[n].todo
                      /\ nw'[n].pc = nw[n].pc /\ nw'[n].obj = nw[n].obj
                    <6>1. \/ nw' = [nw EXCEPT ![n].todo = @ \ {r}] /\ q # r
                          \/ nw' = [nw EXCEPT ![n].snap[r] = quotaCache[r]]
                        BY <2>5, <3>4, <4>3 DEF ScanQuota
                    <6>2. CASE nw' = [nw EXCEPT ![n].todo = @ \ {r}] /\ q # r
                        BY <1>0, <6>2 DEF NsWorkers
                    <6>3. CASE nw' = [nw EXCEPT ![n].snap[r] = quotaCache[r]]
                        BY <1>0, <6>3 DEF NsWorkers
                    <6> QED BY <6>1, <6>2, <6>3
                <5> QED BY <1>0, <1>1, <1>4, <3>1, <4>1, <5>1 DEF Settled, ComesTo, Awaits, Exact
            <4> QED BY <4>2, <4>3
        <3> QED BY <2>5, <3>2, <3>3, <3>4 DEF ScanQuota
    <2>6. CASE CompleteNamespace(n)
        <3>1. nw[n].pc = "scan" /\ nw[n].todo = {} /\ UNCHANGED <<nsQ, mapping>>
            BY <2>6 DEF CompleteNamespace
        <3>2. ~ComesTo(q, n, nw, nsCache)
            BY <3>1 DEF ComesTo
        <3> QED BY <1>0, <1>1, <1>4, <3>1, <3>2 DEF Settled, ComesTo, Awaits, Exact
    <2> QED BY <2>3, <2>4, <2>5, <2>6 DEF NamespaceWorker
<1> QED BY <1>2, <1>3, <1>4

\* A change of a quota or a namespace leaves an event to come.
LEMMA UsersSettle ==
    ASSUME SettleInv, Users
    PROVE  /\ \A q \in Quotas : QuotaAnnounced(q)' /\ QuotaNoted(q)'
           /\ \A n \in Namespaces : NsAnnounced(n)' /\ NsNoted(n)'
           /\ \A q \in Quotas, n \in Namespaces : Settled(q, n)'
<1>1. ASSUME NEW q \in Quotas, NEW s, ChangeQuota(q, s)
      PROVE  /\ \A r \in Quotas : QuotaAnnounced(r)' /\ QuotaNoted(r)'
             /\ \A n \in Namespaces : NsAnnounced(n)' /\ NsNoted(n)'
             /\ \A r \in Quotas, n \in Namespaces : Settled(r, n)'
    <2>1. /\ Pending(q, quotaEvents') # {}
          /\ \A r \in Quotas : /\ QuotaAnnounced(r)'
                               /\ Pending(r, quotaEvents) # {} => Pending(r, quotaEvents') # {}
                               /\ r # q => quotaCache'[r] = quotaCache[r]
        BY <1>1, ChangeQuotaFacts
    <2>2. UNCHANGED <<nsCache, nsEvents, quotaNotes, nsNotes, mapping, quotaQ, nsQ, qw, nw>>
        BY <1>1 DEF ChangeQuota
    <2>3. \A r \in Quotas : QuotaNoted(r)'
        BY <2>1, <2>2, SettleParts DEF QuotaNoted, Noted, Awaits
    <2>4. \A n \in Namespaces : NsAnnounced(n)' /\ NsNoted(n)'
        BY <2>2, SettleParts DEF NsAnnounced, NsNoted, Announced, Noted, Awaits
    <2>5. ASSUME NEW r \in Quotas, NEW n \in Namespaces PROVE Settled(r, n)'
        <3>1. Settled(r, n)
            BY SettleParts
        <3>2. CASE r = q
            BY <2>1, <3>2 DEF Settled, Awaits
        <3>3. CASE r # q
            BY <2>1, <2>2, <3>1, <3>3 DEF Settled, Awaits, ComesTo, Exact
        <3> QED BY <3>2, <3>3
    <2> QED BY <2>1, <2>3, <2>4, <2>5
<1>2. ASSUME NEW n \in Namespaces, NEW l, ChangeNamespace(n, l)
      PROVE  /\ \A r \in Quotas : QuotaAnnounced(r)' /\ QuotaNoted(r)'
             /\ \A m \in Namespaces : NsAnnounced(m)' /\ NsNoted(m)'
             /\ \A r \in Quotas, m \in Namespaces : Settled(r, m)'
    <2>1. /\ Pending(n, nsEvents') # {}
          /\ \A m \in Namespaces : /\ NsAnnounced(m)'
                                   /\ Pending(m, nsEvents) # {} => Pending(m, nsEvents') # {}
                                   /\ m # n => nsCache'[m] = nsCache[m]
        BY <1>2, ChangeNamespaceFacts
    <2>2. UNCHANGED <<quotaCache, quotaEvents, quotaNotes, nsNotes, mapping, quotaQ, nsQ, qw, nw>>
        BY <1>2 DEF ChangeNamespace
    <2>3. \A m \in Namespaces : NsNoted(m)'
        BY <2>1, <2>2, SettleParts DEF NsNoted, Noted, Awaits
    <2>4. \A r \in Quotas : QuotaAnnounced(r)' /\ QuotaNoted(r)'
        BY <2>2, SettleParts DEF QuotaAnnounced, QuotaNoted, Announced, Noted, Awaits
    <2>5. ASSUME NEW r \in Quotas, NEW m \in Namespaces PROVE Settled(r, m)'
        <3>1. Settled(r, m)
            BY SettleParts
        <3>2. CASE m = n
            BY <2>1, <3>2 DEF Settled, Awaits
        <3>3. CASE m # n
            BY <2>1, <2>2, <3>1, <3>3 DEF Settled, Awaits, ComesTo, Exact
        <3> QED BY <3>2, <3>3
    <2> QED BY <2>1, <2>3, <2>4, <2>5
<1> QED BY <1>1, <1>2 DEF Users

\* The last event of a quota that is gone takes it out of the mapping, and the
\* last event of a quota that is there queues it.
LEMMA QuotaEventSettles ==
    ASSUME SettleInv, QuotaEvent
    PROVE  /\ \A q \in Quotas : QuotaAnnounced(q)' /\ QuotaNoted(q)'
           /\ \A n \in Namespaces : NsAnnounced(n)' /\ NsNoted(n)'
           /\ \A q \in Quotas, n \in Namespaces : Settled(q, n)'
<1>1. PICK q \in Quotas, s \in Selectors \cup {None} :
          /\ IF s = None THEN RemoveQuota(q) ELSE EnqueueQuota(q, s)
          /\ UNCHANGED <<quotaCache, nsCache, nsEvents, nsNotes, nsQ, qw, nw>>
          /\ \A r \in Quotas :
               /\ QuotaAnnounced(r)'
               /\ r # q /\ Pending(r, quotaEvents) # {} => Pending(r, quotaEvents') # {}
          /\ Pending(q, quotaEvents') = {} => quotaCache[q] = s /\ requiredQuota[q] # s
    BY QuotaEventFacts
<1>2. /\ \A r \in Quotas : r \in quotaQ => r \in quotaQ'
      /\ \A r \in Quotas, n \in Namespaces : r # q => /\ (n \in quotaToNs'[r] <=> n \in quotaToNs[r])
                                                     /\ completedQuota'[r] = completedQuota[r]
    <2>0. TypeOK
        BY SettleParts DEF MappingInv
    <2>1. CASE s = None
        BY <1>1, <2>0, <2>1 DEF RemoveQuota, TypeOK
    <2>2. CASE s # None
        BY <1>1, <2>2 DEF EnqueueQuota
    <2> QED BY <2>1, <2>2
<1>3. \A r \in Quotas : r # q => completedQuota'[r] = completedQuota[r]
    <2>0. TypeOK
        BY SettleParts DEF MappingInv
    <2>1. CASE s = None
        BY <1>1, <2>0, <2>1 DEF RemoveQuota, TypeOK
    <2>2. CASE s # None
        BY <1>1, <2>2 DEF EnqueueQuota
    <2> QED BY <2>1, <2>2
<1>4. \/ Pending(q, quotaEvents') # {} \/ q \in quotaQ'
      \/ /\ quotaCache[q] = None
         /\ \A n \in Namespaces : n \notin quotaToNs'[q]
    <2>0. TypeOK
        BY SettleParts DEF MappingInv
    <2>1. CASE Pending(q, quotaEvents') = {} /\ s = None
        <3>1. quotaCache[q] = None /\ RemoveQuota(q)
            BY <1>1, <2>1
        <3>2. quotaToNs'[q] = {}
            BY <2>0, <3>1 DEF RemoveQuota, TypeOK
        <3> QED BY <3>1, <3>2
    <2>2. CASE Pending(q, quotaEvents') = {} /\ s # None
        BY <1>1, <2>2 DEF EnqueueQuota
    <2> QED BY <2>1, <2>2
<1>5. \A r \in Quotas : QuotaNoted(r)'
    <2> SUFFICES ASSUME NEW r \in Quotas PROVE QuotaNoted(r)'
        OBVIOUS
    <2>1. CASE r = q
        BY <1>1, <1>4, <2>1 DEF QuotaNoted, Noted, Awaits
    <2>2. CASE r # q
        <3>1. QuotaNoted(r)
            BY SettleParts
        <3> QED BY <1>1, <1>2, <1>3, <2>2, <3>1 DEF QuotaNoted, Noted, Awaits
    <2> QED BY <2>1, <2>2
<1>6. \A n \in Namespaces : NsAnnounced(n)' /\ NsNoted(n)'
    BY <1>1, SettleParts DEF NsAnnounced, NsNoted, Announced, Noted, Awaits
<1>7. ASSUME NEW r \in Quotas, NEW n \in Namespaces PROVE Settled(r, n)'
    <2>1. CASE r = q
        BY <1>1, <1>4, <2>1 DEF Settled, Awaits, Exact
    <2>2. CASE r # q
        <3>1. Settled(r, n)
            BY SettleParts
        <3> QED BY <1>1, <1>2, <2>2, <3>1 DEF Settled, Awaits, ComesTo, Exact
    <2> QED BY <2>1, <2>2
<1> QED BY <1>1, <1>5, <1>6, <1>7

\* The same for the last event of a namespace.
LEMMA NamespaceEventSettles ==
    ASSUME SettleInv, NamespaceEvent
    PROVE  /\ \A q \in Quotas : QuotaAnnounced(q)' /\ QuotaNoted(q)'
           /\ \A n \in Namespaces : NsAnnounced(n)' /\ NsNoted(n)'
           /\ \A q \in Quotas, n \in Namespaces : Settled(q, n)'
<1>0. TypeOK
    BY SettleParts DEF MappingInv
<1>1. PICK n \in Namespaces, l \in Labels \cup {None} :
          /\ IF l = None THEN RemoveNamespace(n) ELSE EnqueueNamespace(n, l)
          /\ UNCHANGED <<quotaCache, nsCache, quotaEvents, quotaNotes, quotaQ, qw, nw>>
          /\ \A m \in Namespaces :
               /\ NsAnnounced(m)'
               /\ m # n /\ Pending(m, nsEvents) # {} => Pending(m, nsEvents') # {}
          /\ Pending(n, nsEvents') = {} => nsCache[n] = l /\ requiredNs[n] # l
    BY NamespaceEventFacts
<1>2. /\ \A m \in Namespaces : m \in nsQ => m \in nsQ'
      /\ \A m \in Namespaces : m # n => completedNs'[m] = completedNs[m]
      /\ \A q \in Quotas, m \in Namespaces : m # n => (m \in quotaToNs'[q] <=> m \in quotaToNs[q])
    <2>1. CASE l = None
        <3>1. RemoveNamespace(n)
            BY <1>1, <2>1
        <3>2. \A q \in Quotas, m \in Namespaces : m # n => (m \in quotaToNs'[q] <=> m \in quotaToNs[q])
            BY <3>1 DEF RemoveNamespace
        <3> QED BY <1>0, <3>1, <3>2 DEF RemoveNamespace, TypeOK
    <2>2. CASE l # None
        BY <1>1, <2>2 DEF EnqueueNamespace
    <2> QED BY <2>1, <2>2
<1>4. \/ Pending(n, nsEvents') # {} \/ n \in nsQ'
      \/ /\ nsCache[n] = None
         /\ \A q \in Quotas : n \notin quotaToNs'[q]
    <2>1. CASE Pending(n, nsEvents') = {} /\ l = None
        <3>1. nsCache[n] = None /\ RemoveNamespace(n)
            BY <1>1, <2>1
        <3>2. \A q \in Quotas : n \notin quotaToNs'[q]
            BY <3>1 DEF RemoveNamespace
        <3> QED BY <3>1, <3>2
    <2>2. CASE Pending(n, nsEvents') = {} /\ l # None
        BY <1>1, <2>2 DEF EnqueueNamespace
    <2> QED BY <2>1, <2>2
<1>5. \A m \in Namespaces : NsNoted(m)'
    <2> SUFFICES ASSUME NEW m \in Namespaces PROVE NsNoted(m)'
        OBVIOUS
    <2>1. CASE m = n
        BY <1>1, <1>4, <2>1 DEF NsNoted, Noted, Awaits
    <2>2. CASE m # n
        <3>1. NsNoted(m)
            BY SettleParts
        <3> QED BY <1>1, <1>2, <2>2, <3>1 DEF NsNoted, Noted, Awaits
    <2> QED BY <2>1, <2>2
<1>6. \A q \in Quotas : QuotaAnnounced(q)' /\ QuotaNoted(q)'
    BY <1>1, SettleParts DEF QuotaAnnounced, QuotaNoted, Announced, Noted, Awaits
<1>7. ASSUME NEW q \in Quotas, NEW m \in Namespaces PROVE Settled(q, m)'
    <2>1. CASE m = n
        <3>1. quotaCache[q] # None => None \notin quotaCache[q]
            BY <1>0, MappingAssumption DEF TypeOK
        <3> QED BY <1>1, <1>4, <2>1, <3>1 DEF Settled, Awaits, Exact
    <2>2. CASE m # n
        <3>1. Settled(q, m)
            BY SettleParts
        <3> QED BY <1>1, <1>2, <2>2, <3>1 DEF Settled, Awaits, ComesTo, Exact
    <2> QED BY <2>1, <2>2
<1> QED BY <1>1, <1>5, <1>6, <1>7

LEMMA SettleStep ==
    ASSUME SettleInv, [Next]_vars
    PROVE  SettleInv'
<1> DEFINE Rest == /\ \A q \in Quotas : QuotaAnnounced(q) /\ QuotaNoted(q)
                   /\ \A n \in Namespaces : NsAnnounced(n) /\ NsNoted(n)
                   /\ \A q \in Quotas, n \in Namespaces : Settled(q, n)
<1>0. MappingInv'
    BY TypeStep, ScanningStep, ConsistentStep, SettleParts DEF MappingInv
<1>1. ASSUME Users PROVE Rest'
    BY <1>1, UsersSettle
<1>2. ASSUME QuotaEvent PROVE Rest'
    BY <1>2, QuotaEventSettles
<1>3. ASSUME NamespaceEvent PROVE Rest'
    BY <1>3, NamespaceEventSettles
<1>4. ASSUME NEW q \in Quotas, QuotaWorker(q) PROVE Rest'
    BY <1>4, QuotaWorkerNotes, QuotaWorkerSettles
<1>5. ASSUME NEW n \in Namespaces, NamespaceWorker(n) PROVE Rest'
    BY <1>5, NamespaceWorkerNotes, NamespaceWorkerSettles
<1>6. ASSUME UNCHANGED vars PROVE Rest'
    <2>1. /\ \A q \in Quotas : QuotaAnnounced(q)' /\ QuotaNoted(q)'
          /\ \A n \in Namespaces : NsAnnounced(n)' /\ NsNoted(n)'
        BY <1>6, SettleParts
        DEF vars, QuotaAnnounced, QuotaNoted, NsAnnounced, NsNoted, Announced, Noted, Awaits
    <2>2. \A q \in Quotas, n \in Namespaces : Settled(q, n)'
        BY <1>6, SettleParts DEF vars, Settled, Awaits, ComesTo, Exact
    <2> QED BY <2>1, <2>2
<1>7. Rest'
    BY <1>1, <1>2, <1>3, <1>4, <1>5, <1>6 DEF Next
<1> QED BY <1>0, <1>7 DEF SettleInv, Settled, QuotaNoted, NsNoted, QuotaAnnounced, NsAnnounced

LEMMA SettleInit ==
    ASSUME Init
    PROVE  SettleInv
<1>1. MappingInv
    BY MappingInit
<1>2. /\ \A q \in Quotas : Pending(q, quotaEvents) = {}
      /\ \A n \in Namespaces : Pending(n, nsEvents) = {}
    BY DEF Init, Pending
<1>3. \A q \in Quotas : QuotaAnnounced(q) /\ QuotaNoted(q)
    BY <1>2 DEF Init, QuotaAnnounced, QuotaNoted, Announced, Noted
<1>4. \A n \in Namespaces : NsAnnounced(n) /\ NsNoted(n)
    BY <1>2 DEF Init, NsAnnounced, NsNoted, Announced, Noted
<1>5. \A q \in Quotas, n \in Namespaces : Settled(q, n)
    BY DEF Init, Settled, Exact
<1> QED BY <1>1, <1>3, <1>4, <1>5, SettleParts

\* In every reachable state a quota and a namespace are mapped as the cached
\* selector and labels say, unless an event, a queued key or a scan that has yet
\* to come to the other still stands for the pair.
THEOREM SettleInvariant == Spec => []SettleInv
<1>1. Init => SettleInv
    BY SettleInit
<1>2. SettleInv /\ [Next]_vars => SettleInv'
    BY SettleStep
<1> QED BY <1>1, <1>2, PTL DEF Spec

\* When the handlers have been called and the workers are done with a quota and
\* a namespace, the quota is mapped to the namespace iff its selector matches
\* the labels, whatever the interleaving of their two scans was (setMapping's
\* two checks), and both scans are noted as completed.
COROLLARY MappingSettlesExactly == Spec => []SettledIsExact
<1>1. SettleInv => SettledIsExact
    <2> SUFFICES ASSUME SettleInv, NEW q \in Quotas, NEW n \in Namespaces,
                        Quiet(q, quotaEvents, quotaQ, qw), Quiet(n, nsEvents, nsQ, nw)
                 PROVE  /\ n \in quotaToNs[q] <=> quotaCache[q] # None /\ nsCache[n] \in quotaCache[q]
                        /\ quotaCache[q] # None => completedQuota[q] = quotaCache[q]
                        /\ nsCache[n] # None => completedNs[n] = nsCache[n]
        BY DEF SettledIsExact
    <2>1. /\ Pending(q, quotaEvents) = {} /\ q \notin quotaQ /\ qw[q].pc = "idle"
          /\ Pending(n, nsEvents) = {} /\ n \notin nsQ /\ nw[n].pc = "idle"
        BY DEF Quiet, Pending
    <2>2. Settled(q, n) /\ QuotaNoted(q) /\ NsNoted(n)
        BY SettleParts
    <2>3. Exact(q, n)
        BY <2>1, <2>2 DEF Settled, Awaits, ComesTo
    <2> QED BY <2>1, <2>2, <2>3 DEF Exact, QuotaNoted, NsNoted, Noted, Awaits
<1> QED BY <1>1, SettleInvariant, PTL

=============================================================================
