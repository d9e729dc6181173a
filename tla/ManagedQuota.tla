---------------------------- MODULE ManagedQuota ----------------------------
(***************************************************************************)
(* The resources a pod does not use (services, requests.storage, ...) are  *)
(* limited by a built-in quota object the controllers keep beside an       *)
(* application-aware quota: a ResourceQuota for an ARQ (RQ controller), a  *)
(* ClusterResourceQuota for an ACRQ (CRQ controller).  Its usage is taken  *)
(* over into the application-aware quota's status by the ARQ or the ACRQ   *)
(* controller.                                                             *)
(*                                                                         *)
(* One pair of objects, each kept as the versions between the informer's   *)
(* cache (first) and the API server (last).  A resource list is a function *)
(* from resource names; <<>> is the empty one, nil where a status has none *)
(* yet.  Scopes are left out: the API server refuses them on a quota that  *)
(* limits such resources, which the webhook's dry run finds out.           *)
(***************************************************************************)
EXTENDS Naturals, Sequences, Functions

CONSTANTS
    Specs,        \* hard and selector of a quota, as users may write them
    Amounts,      \* what the cluster may use of a resource
    MaxChanges,   \* bound: changes users make, failed calls and restarts
    MaxLag        \* bound: watch events of one kind on their way

Resources == UNION {DOMAIN s.hard : s \in Specs}

ASSUME ManagedAssumption ==
    /\ Amounts \subseteq Nat /\ 0 \in Amounts
    /\ \A s \in Specs : s.hard \in [DOMAIN s.hard -> Nat]
    /\ MaxChanges \in Nat /\ MaxLag \in Nat \ {0}

VARIABLES
    cluster,    \* an ACRQ with its CRQ, otherwise an ARQ with its RQ
    arq,        \* versions of the application-aware quota
    rq,         \* versions of the managed quota
    amount,     \* what the cluster uses of each resource
    rqQ,        \* the quota's key is in the RQ controller's queue
    rqWorker,   \* the call the RQ controller is about to make
    arqQ,       \* the quota's key is in the ARQ or ACRQ controller's queue
    arqWorker,  \* the status the ARQ or ACRQ controller is about to write
    changes

vars == <<cluster, arq, rq, amount, rqQ, rqWorker, arqQ, arqWorker, changes>>

Cached(versions) == versions[1]
Current(versions) == versions[Len(versions)]
UpToDate(versions) == Len(versions) = 1
Write(versions, object) == Len(versions) <= MaxLag /\ versions' = Append(versions, object)

-----------------------------------------------------------------------------
(* Resource names, as far as their classes go.                              *)
WithoutPrefix == {"pods", "cpu", "memory", "ephemeral-storage"}
WithPrefix == {"requests.cpu", "requests.memory", "requests.storage", "requests.gpu",
               "limits.cpu", "limits.memory"}

IsSchedulableResource(r) ==
    r \in WithoutPrefix \/ (r \in WithPrefix /\ r # "requests.storage")

FilterNonScheduableResources(list) ==
    Restrict(list, {r \in DOMAIN list : ~IsSchedulableResource(r)})

-----------------------------------------------------------------------------
(* The objects.                                                             *)
None == [exists |-> FALSE, uid |-> 0, hard |-> <<>>, selector |-> "none", label |-> FALSE,
         statusHard |-> <<>>, used |-> <<>>]
NewArq(s, u) == [None EXCEPT !.exists = TRUE, !.uid = u, !.hard = s.hard, !.selector = s.selector]

\* What the RQ controller wants for an ARQ; uid is the owner's.
Managed(a) == [None EXCEPT !.exists = TRUE, !.uid = a.uid, !.label = TRUE, !.selector = a.selector,
                           !.hard = FilterNonScheduableResources(a.hard)]

\* The informer of the managed quotas lists and watches those with the label.
CachedRq == IF Cached(rq).label THEN Cached(rq) ELSE None

Idle == [op |-> "none", object |-> None, current |-> FALSE]
StaleRq == [rqWorker EXCEPT !.current = FALSE]
StaleArq == [arqWorker EXCEPT !.current = FALSE]

Values == Amounts \cup UNION {Range(s.hard) : s \in Specs}
Lists == UNION {[D -> Values] : D \in SUBSET Resources}
Objects == [exists : BOOLEAN, uid : Nat, hard : Lists,
            selector : {s.selector : s \in Specs} \cup {"none"}, label : BOOLEAN,
            statusHard : Lists, used : Lists]

\* An ARQ's status has usage of the resources it lists as limited only.
Masked(a) == cluster \/ DOMAIN a.used \subseteq DOMAIN a.statusHard

TypeOK ==
    /\ cluster \in BOOLEAN /\ rqQ \in BOOLEAN /\ arqQ \in BOOLEAN
    /\ arq \in Seq(Objects) /\ arq # <<>> /\ \A i \in 1 .. Len(arq) : Masked(arq[i])
    /\ rq \in Seq(Objects) /\ rq # <<>>
    /\ amount \in [Resources -> Amounts]
    /\ rqWorker \in {Idle} \cup [op : {"delete", "create", "update"}, object : Objects, current : BOOLEAN]
    /\ arqWorker \in {Idle} \cup [op : {"update"}, object : Objects, current : BOOLEAN]
    /\ Masked(arqWorker.object)
    /\ changes \in 0 .. MaxChanges

\* A quota just created; the controllers have had its add event.
Init ==
    /\ cluster \in BOOLEAN
    /\ \E s \in Specs : arq = <<NewArq(s, 0)>>
    /\ rq = <<None>>
    /\ amount = [r \in Resources |-> 0]
    /\ rqQ = TRUE /\ arqQ = TRUE
    /\ rqWorker = Idle /\ arqWorker = Idle
    /\ changes = 0

-----------------------------------------------------------------------------
(* The RQ and CRQ controllers.                                              *)

\* The fields execute compares.
Dirty(q, a) == q.hard # Managed(a).hard \/ q.selector # a.selector

\* Mutant: the update is the quota as it would be created.
RespecifiedAfresh(q, a) == Managed(a)

\* The update: a copy from the cache with the owner's limits and selector.
Respecified(q, a) == [q EXCEPT !.hard = Managed(a).hard, !.selector = a.selector]

\* execute up to its call: the quota and its managed quota from the caches.
RqExecute ==
    /\ rqQ /\ rqWorker = Idle
    /\ rqQ' = FALSE
    /\ LET a == Cached(arq)
           Call(op, object) == [op |-> op, object |-> object, current |-> UpToDate(rq)]
       IN  rqWorker' =
             IF ~a.exists \/ Managed(a).hard = <<>> THEN Call("delete", None)
             ELSE IF ~CachedRq.exists THEN Call("create", Managed(a))
             ELSE IF Dirty(CachedRq, a)
             THEN Call("update", Respecified(CachedRq, a))
             ELSE Idle
    /\ UNCHANGED <<cluster, arq, rq, amount, arqQ, arqWorker, changes>>

\* Mutant: a call that fails is given up.
RqFailsForget == rqWorker' = Idle /\ UNCHANGED <<rq, rqQ>>

\* A call that fails: the key comes back at once.
RqFails == rqWorker' = Idle /\ rqQ' = TRUE /\ UNCHANGED rq

\* The call.  A managed quota that is already gone is fine; one that exists
\* already, was changed meanwhile or is gone is an error otherwise.
RqCall ==
    /\ rqWorker # Idle
    /\ LET q == Current(rq)
           Done(object) == Write(rq, object) /\ rqWorker' = Idle /\ UNCHANGED rqQ
       IN  CASE rqWorker.op = "delete" ->
                  IF q.exists THEN Done(None) ELSE rqWorker' = Idle /\ UNCHANGED <<rq, rqQ>>
             [] rqWorker.op = "create" ->
                  IF q.exists THEN RqFails ELSE Done(rqWorker.object)
             [] rqWorker.op = "update" ->
                  IF q.exists /\ rqWorker.current THEN Done(rqWorker.object) ELSE RqFails
    /\ UNCHANGED <<cluster, arq, amount, arqQ, arqWorker, changes>>

-----------------------------------------------------------------------------
(* The usage the ARQ and ACRQ controllers take over.                        *)

\* updateUsageFromResourceQuota: the managed quota has to be the one of the
\* limits in the ARQ's status.  includeUsageFromClusterResourceQuota does not
\* look at its limits.
TakesOver(a, q) ==
    /\ q.exists /\ q.statusHard # <<>> /\ a.statusHard # <<>>
    /\ cluster \/ q.hard = FilterNonScheduableResources(a.statusHard)

\* The amounts of l, and those of m for what l does not list.
Merged(l, m) == [r \in DOMAIN l \cup DOMAIN m |-> IF r \in DOMAIN l THEN l[r] ELSE m[r]]

\* Mutant: usage of resources without a limit stays.
NewStatusUnmasked(a, q) ==
    LET taken == IF TakesOver(a, q) THEN q.used ELSE <<>> IN
    [a EXCEPT !.statusHard = a.hard, !.used = IF cluster THEN taken ELSE Merged(taken, a.used)]

\* syncResourceQuota keeps the usage it has and drops what has no limit any
\* more; syncQuotaForNamespaces starts afresh.
NewStatus(a, q) ==
    LET taken == IF TakesOver(a, q) THEN q.used ELSE <<>> IN
    [a EXCEPT !.statusHard = a.hard,
              !.used = IF cluster THEN taken
                       ELSE LET used == Merged(taken, a.used) IN Restrict(used, DOMAIN used \cap DOMAIN a.hard)]

ArqSync ==
    /\ arqQ /\ arqWorker = Idle
    /\ arqQ' = FALSE
    /\ LET a == Cached(arq)
           new == NewStatus(a, CachedRq)
       IN  arqWorker' = IF a.exists /\ new # a
                        THEN [op |-> "update", object |-> new, current |-> UpToDate(arq)]
                        ELSE Idle
    /\ UNCHANGED <<cluster, arq, rq, amount, rqQ, rqWorker, changes>>

ArqCall ==
    /\ arqWorker # Idle /\ arqWorker' = Idle
    /\ IF arqWorker.current
       THEN Write(arq, arqWorker.object) /\ UNCHANGED arqQ
       ELSE arqQ' = TRUE /\ UNCHANGED arq
    /\ UNCHANGED <<cluster, rq, amount, rqQ, rqWorker, changes>>

\* Mutant: the periodic work is left to the events.
EnqueueAllNever == FALSE /\ UNCHANGED vars

\* enqueueAll and calculateAll, every resyncPeriod.
EnqueueAll ==
    /\ Cached(arq).exists
    /\ arqQ' = TRUE
    /\ UNCHANGED <<cluster, arq, rq, amount, rqQ, rqWorker, arqWorker, changes>>

-----------------------------------------------------------------------------
(* Events.                                                                  *)

\* What the RQ and CRQ controllers' handlers of the owner look for.
SpecChanged(old, new) ==
    new.hard # old.hard \/ new.selector # old.selector \/ new.exists # old.exists

\* addArq, updateArq and deleteArq of the two controllers.
ArqEvent ==
    /\ Len(arq) > 1 /\ arq' = Tail(arq)
    /\ LET old == arq[1]
           new == arq[2]
       IN  /\ rqQ' = (rqQ \/ SpecChanged(old, new))
           /\ arqQ' = (arqQ \/ cluster \/ new.hard # old.hard \/ new.exists # old.exists)
    /\ UNCHANGED <<cluster, rq, amount, rqWorker, arqWorker, changes>>

\* The label-filtered informer: losing the label looks like a deletion.
Seen(q) == q.exists /\ q.label
Updated(old, new) == Seen(old) /\ Seen(new)
Deleted(old, new) == Seen(old) /\ ~Seen(new)

\* updateRQ and deleteRQ of the RQ and CRQ controllers, which have no add handler.
ManagedTouched(old, new) ==
    Deleted(old, new) \/ (Updated(old, new) /\ (new.hard # old.hard \/ new.selector # old.selector))

\* addRQ, updateRQ and deleteRQ of the ARQ controller, addCRQ, updateCRQ and
\* deleteCRQ of the ACRQ controller, which takes every update.
UsageTouched(old, new) ==
    \/ Seen(old) # Seen(new)
    \/ Updated(old, new) /\ (cluster \/ new.statusHard # old.statusHard \/ new.used # old.used)

RqEvent ==
    /\ Len(rq) > 1 /\ rq' = Tail(rq)
    /\ rqQ' = (rqQ \/ ManagedTouched(rq[1], rq[2]))
    /\ arqQ' = (arqQ \/ UsageTouched(rq[1], rq[2]))
    /\ UNCHANGED <<cluster, arq, amount, rqWorker, arqWorker, changes>>

-----------------------------------------------------------------------------
(* Kubernetes: the quota controller and the garbage collector.              *)
RqWritten(object) == Write(rq, object) /\ rqWorker' = StaleRq

QuotaController ==
    /\ LET q == Current(rq)
           new == [q EXCEPT !.statusHard = q.hard, !.used = Restrict(amount, DOMAIN q.hard)]
       IN  q.exists /\ new # q /\ RqWritten(new)
    /\ UNCHANGED <<cluster, arq, amount, rqQ, arqQ, arqWorker, changes>>

\* A managed quota whose owner is gone, by uid, is deleted.
Collectable ==
    /\ Current(rq).exists
    /\ ~Current(arq).exists \/ Current(arq).uid # Current(rq).uid

GarbageCollector ==
    /\ Collectable
    /\ RqWritten(None)
    /\ UNCHANGED <<cluster, arq, amount, rqQ, arqQ, arqWorker, changes>>

-----------------------------------------------------------------------------
(* Users and faults.                                                        *)
Change == changes < MaxChanges /\ changes' = changes + 1
ArqWritten(object) == Write(arq, object) /\ arqWorker' = StaleArq

ChangeArq(s) ==
    /\ Change /\ Current(arq).exists
    /\ ArqWritten([Current(arq) EXCEPT !.hard = s.hard, !.selector = s.selector])
    /\ UNCHANGED <<cluster, rq, amount, rqQ, rqWorker, arqQ>>

DeleteArq ==
    /\ Change /\ Current(arq).exists
    /\ ArqWritten([None EXCEPT !.uid = Current(arq).uid])
    /\ UNCHANGED <<cluster, rq, amount, rqQ, rqWorker, arqQ>>

RecreateArq(s) ==
    /\ Change /\ ~Current(arq).exists
    /\ ArqWritten(NewArq(s, Current(arq).uid + 1))
    /\ UNCHANGED <<cluster, rq, amount, rqQ, rqWorker, arqQ>>

\* A user deletes the managed quota, changes its limits or drops its label.
MeddleWithRq(object) ==
    /\ Change /\ Current(rq).exists /\ RqWritten(object)
    /\ UNCHANGED <<cluster, arq, amount, rqQ, arqQ, arqWorker>>

Consume(r, n) ==
    /\ Change /\ amount[r] # n /\ amount' = [amount EXCEPT ![r] = n]
    /\ UNCHANGED <<cluster, arq, rq, rqQ, rqWorker, arqQ, arqWorker>>

CallFails ==
    /\ Change
    /\ \/ rqWorker # Idle /\ RqFails /\ UNCHANGED <<arqQ, arqWorker>>
       \/ /\ arqWorker # Idle /\ arqWorker' = Idle /\ arqQ' = TRUE
          /\ UNCHANGED <<rq, rqQ, rqWorker>>
    /\ UNCHANGED <<cluster, arq, amount>>

\* A restart or another leader: fresh caches, an add event for what is there.
Restart ==
    /\ Change
    /\ arq' = <<Current(arq)>> /\ rq' = <<Current(rq)>>
    /\ rqWorker' = Idle /\ arqWorker' = Idle
    /\ rqQ' = Current(arq).exists /\ arqQ' = Current(arq).exists
    /\ UNCHANGED <<cluster, amount>>

-----------------------------------------------------------------------------
Controllers == RqExecute \/ RqCall
StatusControllers == ArqSync \/ ArqCall
Users ==
    \/ \E s \in Specs : ChangeArq(s) \/ RecreateArq(s)
    \/ DeleteArq
    \/ MeddleWithRq(None) \/ MeddleWithRq([Current(rq) EXCEPT !.label = FALSE])
    \/ \E s \in Specs : MeddleWithRq([Current(rq) EXCEPT !.hard = s.hard])
    \/ \E r \in Resources, n \in Amounts : Consume(r, n)

Next ==
    \/ Controllers \/ StatusControllers \/ EnqueueAll \/ ArqEvent \/ RqEvent
    \/ QuotaController \/ GarbageCollector \/ Users \/ CallFails \/ Restart

Spec == Init /\ [][Next]_vars

\* Workers, watches, the timer and Kubernetes' own controllers run on.
Fairness ==
    /\ WF_vars(Controllers) /\ WF_vars(StatusControllers) /\ WF_vars(EnqueueAll)
    /\ WF_vars(ArqEvent) /\ WF_vars(RqEvent)
    /\ WF_vars(QuotaController) /\ WF_vars(GarbageCollector)

FairSpec == Spec /\ Fairness

-----------------------------------------------------------------------------
\* An update the API server would accept leaves to others what is theirs, though
\* it was made from a cache: the RQ controller's keeps the status, the owner and
\* the label as they are in the API server by now, the status controller's the
\* owner's limits, which are the ones its status is about.
OthersKept ==
    /\ rqWorker.op = "update" /\ rqWorker.current =>
         LET new == rqWorker.object
         IN  new = [Current(rq) EXCEPT !.hard = new.hard, !.selector = new.selector]
    /\ arqWorker.op = "update" /\ arqWorker.current =>
         LET new == arqWorker.object
         IN  new = [Current(arq) EXCEPT !.statusHard = Current(arq).hard, !.used = new.used]

\* A managed quota that lost its label cannot be seen or replaced.
LostLabel == Current(rq).exists /\ ~Current(rq).label

\* What the RQ controller makes of an application-aware quota, the owner aside.
Unwanted(a) == ~a.exists \/ Managed(a).hard = <<>>
Follows(a, q) ==
    IF Unwanted(a) THEN ~q.exists
    ELSE Seen(q) /\ q.hard = Managed(a).hard /\ q.selector = a.selector

\* Nothing is left for the RQ controller: no key, no call, no event, no garbage.
RqAtRest == ~rqQ /\ rqWorker = Idle /\ UpToDate(arq) /\ UpToDate(rq) /\ ~Collectable

\* It never comes to rest with the managed quota wrong, one that lost its label
\* included: whatever users and the garbage collector do between its steps, an
\* event or a failed call brings the key back.
ExactAtRest ==
    RqAtRest =>
        /\ Follows(Current(arq), Current(rq))
        /\ Current(rq).exists => Current(rq).uid = Current(arq).uid

(* Why, as an inductive invariant.                                          *)

\* An event on its way that brings the key back.
ArqNews == \E i \in 1 .. Len(arq) - 1 : SpecChanged(arq[i], arq[i + 1])
RqNews == \E i \in 1 .. Len(rq) - 1 : ManagedTouched(rq[i], rq[i + 1])

\* With no work left, the API server's managed quota follows the cached owner,
\* or is garbage because the owner is gone.
RqPursued ==
    \/ rqQ \/ rqWorker # Idle \/ ArqNews \/ RqNews
    \/ Current(rq).exists /\ ~Current(arq).exists
    \/ Follows(Cached(arq), Current(rq))

\* A call that is about to be made follows it as well, or the key is back.
CallsFollow ==
    rqWorker # Idle /\ ~rqQ =>
        IF Unwanted(Cached(arq)) THEN rqWorker.op = "delete"
        ELSE rqWorker.op # "delete" /\ Follows(Cached(arq), rqWorker.object)

RestInv == TypeOK /\ RqPursued /\ CallsFollow

\* Once users leave the two objects alone, the managed quota has the limits and
\* the selector of the application-aware one, is owned by it rather than by one
\* of the same name deleted before, and is gone when there is nothing to limit:
\* through recreated owners, garbage collection, deletions by hand and conflicts.
\* A managed quota whose label was taken off is the exception.
ManagedSettles ==
    <>[](LostLabel \/
         LET a == Current(arq)
             q == Current(rq)
         IN  IF a.exists /\ FilterNonScheduableResources(a.hard) # <<>>
             THEN /\ q.exists /\ q.uid = a.uid /\ q.selector = a.selector
                  /\ q.hard = FilterNonScheduableResources(a.hard)
             ELSE ~q.exists)

\* Once users stop, the status of the application-aware quota has the usage of
\* the limited resources that the built-in quota counts, although the managed
\* quota's events may come before the limits they belong to are in the status.
UsageFollows ==
    <>[](LET a == Current(arq) IN
         a.exists /\ ~LostLabel =>
           /\ a.statusHard = a.hard
           /\ Restrict(a.used, DOMAIN a.used \cap DOMAIN FilterNonScheduableResources(a.hard))
                = Restrict(amount, DOMAIN FilterNonScheduableResources(a.hard)))
=============================================================================
