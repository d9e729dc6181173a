------------------------ MODULE ClusterQuotaMapping -------------------------
(***************************************************************************)
(* The cluster quota mapping controller and its mapper: which cluster      *)
(* quotas apply to which namespaces.  Handlers note the latest selector of *)
(* a quota and the latest labels of a namespace (required) and queue its   *)
(* key; a quota's worker scans the namespaces, a namespace's worker scans  *)
(* the quotas, both set mappings, and note what they have scanned          *)
(* (completed).  A mapping is set only for the required selector and the   *)
(* required labels.                                                        *)
(*                                                                         *)
(* An informer updates its cache first and calls the handlers later, in    *)
(* order, so a worker may read an object no handler has seen yet.          *)
(***************************************************************************)
EXTENDS Naturals, Sequences

CONSTANTS
    Quotas, Namespaces,   \* names
    Labels,               \* what selectors look at in a namespace (SelectionFields)
    Selectors,            \* a selector is the set of the labels it matches
    None,                 \* no such object, or nothing noted about it
    MaxChanges            \* bound: changes users make

ASSUME MappingAssumption ==
    /\ Selectors \subseteq SUBSET Labels
    /\ None \notin Selectors /\ None \notin Labels
    /\ MaxChanges \in Nat

VARIABLES
    quotaCache, nsCache,           \* the informers' caches
    quotaEvents, nsEvents,         \* objects the handlers have yet to be called with
    requiredQuota, completedQuota, \* requiredQuotaToSelector, completedQuotaToSelector
    requiredNs, completedNs,       \* requiredNamespaceToLabels, completedNamespaceToLabels
    quotaToNs, nsToQuota,          \* quotaToNamespaces, namespaceToQuota
    told,                          \* the mapping as the listeners have been told it
    quotaQ, nsQ,                   \* quotaQueue, namespaceQueue
    qw, nw,                        \* the worker on each quota, on each namespace
    changes

informers == <<quotaCache, nsCache, quotaEvents, nsEvents, changes>>
quotaNotes == <<requiredQuota, completedQuota>>
nsNotes == <<requiredNs, completedNs>>
mapping == <<quotaToNs, nsToQuota, told>>
vars == <<informers, quotaNotes, nsNotes, mapping, quotaQ, nsQ, qw, nw>>

\* A worker: the object it got, the objects it listed, those still to scan.
QuotaWorkers == [pc : {"idle", "list", "scan"}, obj : Selectors \cup {None},
                 snap : [Namespaces -> Labels \cup {None}], todo : SUBSET Namespaces]
NsWorkers == [pc : {"idle", "list", "scan"}, obj : Labels \cup {None},
              snap : [Quotas -> Selectors \cup {None}], todo : SUBSET Quotas]
QuotaIdle == [pc |-> "idle", obj |-> None, snap |-> [n \in Namespaces |-> None], todo |-> {}]
NsIdle == [pc |-> "idle", obj |-> None, snap |-> [q \in Quotas |-> None], todo |-> {}]

Present(cache) == {x \in DOMAIN cache : cache[x] # None}

Init ==
    /\ quotaCache = [q \in Quotas |-> None] /\ nsCache = [n \in Namespaces |-> None]
    /\ quotaEvents = <<>> /\ nsEvents = <<>>
    /\ requiredQuota = [q \in Quotas |-> None] /\ completedQuota = [q \in Quotas |-> None]
    /\ requiredNs = [n \in Namespaces |-> None] /\ completedNs = [n \in Namespaces |-> None]
    /\ quotaToNs = [q \in Quotas |-> {}] /\ nsToQuota = [n \in Namespaces |-> {}]
    /\ told = {}
    /\ quotaQ = {} /\ nsQ = {}
    /\ qw = [q \in Quotas |-> QuotaIdle] /\ nw = [n \in Namespaces |-> NsIdle]
    /\ changes = 0

-----------------------------------------------------------------------------
(* Users create, change and delete quotas and namespaces.                   *)
ChangeQuota(q, s) ==
    /\ changes < MaxChanges /\ changes' = changes + 1
    /\ s # quotaCache[q]
    /\ quotaCache' = [quotaCache EXCEPT ![q] = s]
    /\ quotaEvents' = Append(quotaEvents, <<q, s>>)
    /\ UNCHANGED <<nsCache, nsEvents, quotaNotes, nsNotes, mapping, quotaQ, nsQ, qw, nw>>

ChangeNamespace(n, l) ==
    /\ changes < MaxChanges /\ changes' = changes + 1
    /\ l # nsCache[n]
    /\ nsCache' = [nsCache EXCEPT ![n] = l]
    /\ nsEvents' = Append(nsEvents, <<n, l>>)
    /\ UNCHANGED <<quotaCache, quotaEvents, quotaNotes, nsNotes, mapping, quotaQ, nsQ, qw, nw>>

-----------------------------------------------------------------------------
\* Mutant: a selector that has been scanned before is not required again.
EnqueueQuotaUnlessCompleted(q, s) ==
    /\ IF completedQuota[q] = s THEN UNCHANGED <<requiredQuota, quotaQ>>
       ELSE /\ requiredQuota' = [requiredQuota EXCEPT ![q] = s]
            /\ quotaQ' = quotaQ \cup {q}
    /\ UNCHANGED <<completedQuota, mapping>>

\* addQuota, updateQuota (requireQuota): a selector seen before changes nothing.
EnqueueQuota(q, s) ==
    /\ IF requiredQuota[q] = s THEN UNCHANGED <<requiredQuota, quotaQ>>
       ELSE /\ requiredQuota' = [requiredQuota EXCEPT ![q] = s]
            /\ quotaQ' = quotaQ \cup {q}
    /\ UNCHANGED <<completedQuota, mapping>>

\* Mutant: a deleted quota's mappings stay in the namespaces' side.
RemoveQuotaOneSide(q) ==
    /\ requiredQuota' = [requiredQuota EXCEPT ![q] = None]
    /\ completedQuota' = [completedQuota EXCEPT ![q] = None]
    /\ quotaToNs' = [quotaToNs EXCEPT ![q] = {}]
    /\ UNCHANGED <<nsToQuota, told, quotaQ>>

\* deleteQuota (removeQuota).
RemoveQuota(q) ==
    /\ requiredQuota' = [requiredQuota EXCEPT ![q] = None]
    /\ completedQuota' = [completedQuota EXCEPT ![q] = None]
    /\ quotaToNs' = [quotaToNs EXCEPT ![q] = {}]
    /\ nsToQuota' = [n \in Namespaces |-> nsToQuota[n] \ {q}]
    /\ told' = told \ {<<q, n>> : n \in {m \in Namespaces : q \in nsToQuota[m]}}
    /\ UNCHANGED quotaQ

QuotaEvent ==
    /\ quotaEvents # <<>>
    /\ quotaEvents' = Tail(quotaEvents)
    /\ LET q == Head(quotaEvents)[1]
           s == Head(quotaEvents)[2]
       IN IF s = None THEN RemoveQuota(q) ELSE EnqueueQuota(q, s)
    /\ UNCHANGED <<quotaCache, nsCache, nsEvents, changes, nsNotes, nsQ, qw, nw>>

\* addNamespace, updateNamespace (requireNamespace).
EnqueueNamespace(n, l) ==
    /\ IF requiredNs[n] = l THEN UNCHANGED <<requiredNs, nsQ>>
       ELSE /\ requiredNs' = [requiredNs EXCEPT ![n] = l]
            /\ nsQ' = nsQ \cup {n}
    /\ UNCHANGED <<completedNs, mapping>>

\* deleteNamespace (removeNamespace).
RemoveNamespace(n) ==
    /\ requiredNs' = [requiredNs EXCEPT ![n] = None]
    /\ completedNs' = [completedNs EXCEPT ![n] = None]
    /\ nsToQuota' = [nsToQuota EXCEPT ![n] = {}]
    /\ quotaToNs' = [q \in Quotas |-> quotaToNs[q] \ {n}]
    /\ told' = told \ {<<q, n>> : q \in {r \in Quotas : n \in quotaToNs[r]}}
    /\ UNCHANGED nsQ

NamespaceEvent ==
    /\ nsEvents # <<>>
    /\ nsEvents' = Tail(nsEvents)
    /\ LET n == Head(nsEvents)[1]
           l == Head(nsEvents)[2]
       IN IF l = None THEN RemoveNamespace(n) ELSE EnqueueNamespace(n, l)
    /\ UNCHANGED <<quotaCache, nsCache, quotaEvents, changes, quotaNotes, quotaQ, qw, nw>>

-----------------------------------------------------------------------------
\* setMapping's two checks: the objects are the latest the handlers have seen.
QuotaMatches(q, s) == requiredQuota[q] = s
NamespaceMatches(n, l) == requiredNs[n] = l

\* Mutant: the namespace's side gets the namespace instead of the quota.
SetMappingSwapped(q, n, matches) ==
    /\ quotaToNs' = [quotaToNs EXCEPT ![q] = IF matches THEN @ \cup {n} ELSE @ \ {n}]
    /\ nsToQuota' = [nsToQuota EXCEPT ![n] = IF matches THEN @ \cup {n} ELSE @ \ {q}]
    /\ told' = IF matches THEN told \cup {<<q, n>>} ELSE told \ {<<q, n>>}

\* setMapping past its checks: both sides, and the listeners if one changed.
SetMapping(q, n, matches) ==
    /\ quotaToNs' = [quotaToNs EXCEPT ![q] = IF matches THEN @ \cup {n} ELSE @ \ {n}]
    /\ nsToQuota' = [nsToQuota EXCEPT ![n] = IF matches THEN @ \cup {q} ELSE @ \ {q}]
    /\ told' = IF (n \in quotaToNs[q]) = matches /\ (q \in nsToQuota[n]) = matches THEN told
               ELSE IF matches THEN told \cup {<<q, n>>} ELSE told \ {<<q, n>>}

\* quotaWork: the cached quota, unless it is gone.
GetQuota(q) ==
    /\ q \in quotaQ /\ qw[q].pc = "idle"
    /\ quotaQ' = quotaQ \ {q}
    /\ qw' = IF quotaCache[q] = None THEN qw
             ELSE [qw EXCEPT ![q] = [QuotaIdle EXCEPT !.pc = "list", !.obj = quotaCache[q]]]
    /\ UNCHANGED <<informers, quotaNotes, nsNotes, mapping, nsQ, nw>>

\* syncQuota lists the cached namespaces.
ListNamespaces(q) ==
    /\ qw[q].pc = "list"
    /\ qw' = [qw EXCEPT ![q].pc = "scan", ![q].snap = nsCache, ![q].todo = Present(nsCache)]
    /\ UNCHANGED <<informers, quotaNotes, nsNotes, mapping, quotaQ, nsQ, nw>>

\* Mutant: a namespace with other labels than the required ones is tried again
\* without being read again.
ScanNamespaceNoReread(q, n) ==
    /\ qw[q].pc = "scan" /\ n \in qw[q].todo
    /\ QuotaMatches(q, qw[q].obj) => NamespaceMatches(n, qw[q].snap[n])
    /\ IF QuotaMatches(q, qw[q].obj)
       THEN /\ SetMapping(q, n, qw[q].snap[n] \in qw[q].obj)
            /\ qw' = [qw EXCEPT ![q].todo = @ \ {n}]
       ELSE /\ qw' = [qw EXCEPT ![q].todo = {}]
            /\ UNCHANGED mapping
    /\ UNCHANGED <<informers, quotaNotes, nsNotes, quotaQ, nsQ, nw>>

\* syncQuota on one namespace: set the mapping and go on; end the scan when the
\* quota is not the required one; with other labels than the required ones read
\* the namespace again, and pass over it if it is gone.
ScanNamespace(q, n) ==
    /\ qw[q].pc = "scan" /\ n \in qw[q].todo
    /\ LET s == qw[q].obj
           l == qw[q].snap[n]
       IN \/ /\ QuotaMatches(q, s) /\ NamespaceMatches(n, l)
             /\ SetMapping(q, n, l \in s)
             /\ qw' = [qw EXCEPT ![q].todo = @ \ {n}]
          \/ /\ ~QuotaMatches(q, s)
             /\ qw' = [qw EXCEPT ![q].todo = {}]
             /\ UNCHANGED mapping
          \/ /\ QuotaMatches(q, s) /\ ~NamespaceMatches(n, l)
             /\ qw' = IF nsCache[n] = None THEN [qw EXCEPT ![q].todo = @ \ {n}]
                      ELSE [qw EXCEPT ![q].snap[n] = nsCache[n]]
             /\ UNCHANGED mapping
    /\ UNCHANGED <<informers, quotaNotes, nsNotes, quotaQ, nsQ, nw>>

\* completeQuota, after the scan or its early end.
CompleteQuota(q) ==
    /\ qw[q].pc = "scan" /\ qw[q].todo = {}
    /\ completedQuota' = [completedQuota EXCEPT ![q] = qw[q].obj]
    /\ qw' = [qw EXCEPT ![q] = QuotaIdle]
    /\ UNCHANGED <<informers, requiredQuota, nsNotes, mapping, quotaQ, nsQ, nw>>

\* namespaceWork.
GetNamespace(n) ==
    /\ n \in nsQ /\ nw[n].pc = "idle"
    /\ nsQ' = nsQ \ {n}
    /\ nw' = IF nsCache[n] = None THEN nw
             ELSE [nw EXCEPT ![n] = [NsIdle EXCEPT !.pc = "list", !.obj = nsCache[n]]]
    /\ UNCHANGED <<informers, quotaNotes, nsNotes, mapping, quotaQ, qw>>

\* syncNamespace lists the cached quotas.
ListQuotas(n) ==
    /\ nw[n].pc = "list"
    /\ nw' = [nw EXCEPT ![n].pc = "scan", ![n].snap = quotaCache, ![n].todo = Present(quotaCache)]
    /\ UNCHANGED <<informers, quotaNotes, nsNotes, mapping, quotaQ, nsQ, qw>>

\* syncNamespace on one quota: set the mapping and go on; return when the
\* namespace is not the required one; with another selector than the required
\* one read the quota again, and pass over it if it is gone.
ScanQuota(n, q) ==
    /\ nw[n].pc = "scan" /\ q \in nw[n].todo
    /\ LET l == nw[n].obj
           s == nw[n].snap[q]
       IN \/ /\ QuotaMatches(q, s) /\ NamespaceMatches(n, l)
             /\ SetMapping(q, n, l \in s)
             /\ nw' = [nw EXCEPT ![n].todo = @ \ {q}]
          \/ /\ ~NamespaceMatches(n, l)
             /\ nw' = [nw EXCEPT ![n] = NsIdle]
             /\ UNCHANGED mapping
          \/ /\ ~QuotaMatches(q, s) /\ NamespaceMatches(n, l)
             /\ nw' = IF quotaCache[q] = None THEN [nw EXCEPT ![n].todo = @ \ {q}]
                      ELSE [nw EXCEPT ![n].snap[q] = quotaCache[q]]
             /\ UNCHANGED mapping
    /\ UNCHANGED <<informers, quotaNotes, nsNotes, quotaQ, nsQ, qw>>

\* completeNamespace, after the whole scan only.
CompleteNamespace(n) ==
    /\ nw[n].pc = "scan" /\ nw[n].todo = {}
    /\ completedNs' = [completedNs EXCEPT ![n] = nw[n].obj]
    /\ nw' = [nw EXCEPT ![n] = NsIdle]
    /\ UNCHANGED <<informers, quotaNotes, requiredNs, mapping, quotaQ, nsQ, qw>>

-----------------------------------------------------------------------------
Users ==
    \/ \E q \in Quotas, s \in Selectors \cup {None} : ChangeQuota(q, s)
    \/ \E n \in Namespaces, l \in Labels \cup {None} : ChangeNamespace(n, l)
QuotaWorker(q) ==
    GetQuota(q) \/ ListNamespaces(q) \/ (\E n \in Namespaces : ScanNamespace(q, n)) \/ CompleteQuota(q)
NamespaceWorker(n) ==
    GetNamespace(n) \/ ListQuotas(n) \/ (\E q \in Quotas : ScanQuota(n, q)) \/ CompleteNamespace(n)

Next ==
    \/ Users \/ QuotaEvent \/ NamespaceEvent
    \/ \E q \in Quotas : QuotaWorker(q)
    \/ \E n \in Namespaces : NamespaceWorker(n)

Spec == Init /\ [][Next]_vars

\* Informers deliver, and every queued key finds a worker that runs on.
Fairness ==
    /\ WF_vars(QuotaEvent) /\ WF_vars(NamespaceEvent)
    /\ \A q \in Quotas : WF_vars(QuotaWorker(q))
    /\ \A n \in Namespaces : WF_vars(NamespaceWorker(n))

FairSpec == Spec /\ Fairness

-----------------------------------------------------------------------------
(* Properties.                                                              *)
TypeOK ==
    /\ quotaCache \in [Quotas -> Selectors \cup {None}]
    /\ nsCache \in [Namespaces -> Labels \cup {None}]
    /\ quotaEvents \in Seq(Quotas \X (Selectors \cup {None}))
    /\ nsEvents \in Seq(Namespaces \X (Labels \cup {None}))
    /\ requiredQuota \in [Quotas -> Selectors \cup {None}]
    /\ completedQuota \in [Quotas -> Selectors \cup {None}]
    /\ requiredNs \in [Namespaces -> Labels \cup {None}]
    /\ completedNs \in [Namespaces -> Labels \cup {None}]
    /\ quotaToNs \in [Quotas -> SUBSET Namespaces] /\ nsToQuota \in [Namespaces -> SUBSET Quotas]
    /\ told \subseteq Quotas \X Namespaces
    /\ quotaQ \subseteq Quotas /\ nsQ \subseteq Namespaces
    /\ qw \in [Quotas -> QuotaWorkers] /\ nw \in [Namespaces -> NsWorkers]
    /\ changes \in 0 .. MaxChanges

\* The two directions of the mapping and what the listeners were told are one
\* relation, and it holds no quota and no namespace whose deletion was handled,
\* whatever a worker that is still scanning them does.
MappingConsistent ==
    \A q \in Quotas, n \in Namespaces :
        /\ (n \in quotaToNs[q]) <=> (q \in nsToQuota[n])
        /\ (n \in quotaToNs[q]) <=> (<<q, n>> \in told)
        /\ n \in quotaToNs[q] => requiredQuota[q] # None /\ requiredNs[n] # None

\* A worker scans only objects it has found in the caches.
Scanning ==
    /\ \A q \in Quotas : qw[q].pc # "idle" => qw[q].obj # None
    /\ \A n \in Namespaces : nw[n].pc = "scan" => \A q \in nw[n].todo : nw[n].snap[q] # None

MappingInv == TypeOK /\ Scanning /\ MappingConsistent

Quiet(x, events, queue, worker) ==
    /\ \A i \in DOMAIN events : events[i][1] # x
    /\ x \notin queue /\ worker[x].pc = "idle"

\* When nothing is left to do for a quota and for a namespace, the quota is
\* mapped to the namespace iff it selects it, however the scans of both, the
\* handlers and the changes interleaved, and the scans are noted as completed.
SettledIsExact ==
    \A q \in Quotas, n \in Namespaces :
        Quiet(q, quotaEvents, quotaQ, qw) /\ Quiet(n, nsEvents, nsQ, nw) =>
            /\ n \in quotaToNs[q] <=> quotaCache[q] # None /\ nsCache[n] \in quotaCache[q]
            /\ quotaCache[q] # None => completedQuota[q] = quotaCache[q]
            /\ nsCache[n] # None => completedNs[n] = nsCache[n]

(* Why they are, as an inductive invariant.                                  *)

Pending(x, events) == {i \in DOMAIN events : events[i][1] = x}

\* The events of an object lead, one change after the other, from what the
\* handlers have noted to what is cached.
Announced(x, events, required, cache) ==
    LET at == Pending(x, events)
    IN  /\ at = {} => required[x] = cache[x]
        /\ \A i \in at : (\A j \in at : j <= i) => events[i][2] = cache[x]
        /\ \A i \in at : (\A j \in at : i <= j) => events[i][2] # required[x]
        /\ \A i, j \in at : i < j /\ (\A k \in at : k <= i \/ j <= k) => events[i][2] # events[j][2]

\* An object is to be scanned, or being scanned, or noted as scanned.
Awaits(x, events, queue) == Pending(x, events) # {} \/ x \in queue
Noted(x, events, queue, worker, cache, completed) ==
    \/ cache[x] = None
    \/ Awaits(x, events, queue)
    \/ worker[x].pc # "idle" /\ worker[x].obj = cache[x]
    \/ worker[x].pc = "idle" /\ completed[x] = cache[x]

\* The worker on x has yet to come to y, with x as it is cached.
ComesTo(y, x, worker, cache) ==
    /\ worker[x].obj = cache[x]
    /\ worker[x].pc = "list" \/ (worker[x].pc = "scan" /\ y \in worker[x].todo)

Exact(q, n) == n \in quotaToNs[q] <=> quotaCache[q] # None /\ nsCache[n] \in quotaCache[q]

\* A quota and a namespace are mapped as they should be, unless one of the two
\* is still to be scanned.
SettleInv ==
    /\ MappingInv
    /\ \A q \in Quotas : /\ Announced(q, quotaEvents, requiredQuota, quotaCache)
                         /\ Noted(q, quotaEvents, quotaQ, qw, quotaCache, completedQuota)
    /\ \A n \in Namespaces : /\ Announced(n, nsEvents, requiredNs, nsCache)
                             /\ Noted(n, nsEvents, nsQ, nw, nsCache, completedNs)
    /\ \A q \in Quotas, n \in Namespaces :
          \/ Awaits(q, quotaEvents, quotaQ) \/ Awaits(n, nsEvents, nsQ)
          \/ ComesTo(n, q, qw, quotaCache) \/ ComesTo(q, n, nw, nsCache)
          \/ Exact(q, n)

\* The scans come to an end: once users stop, the mapping settles.
Settles ==
    <>[](/\ \A q \in Quotas : Quiet(q, quotaEvents, quotaQ, qw)
         /\ \A n \in Namespaces : Quiet(n, nsEvents, nsQ, nw))

=============================================================================
