------------------------ MODULE ManagedQuotaProofs --------------------------
(***************************************************************************)
(* Proofs about the managed quota, for every set of limits users may       *)
(* write: usage is listed only where there is a limit; an update that the  *)
(* API server would accept leaves to others what is theirs; and the RQ     *)
(* controller comes to rest only when the managed quota is right.          *)
(***************************************************************************)
EXTENDS ManagedQuota, TLAPS, NaturalsInduction, WellFoundedInduction

-----------------------------------------------------------------------------
(* Resource lists and objects.                                              *)

LEMMA ListDomain == \A l \in Lists : DOMAIN l \subseteq Resources /\ l \in [DOMAIN l -> Values]
    BY DEF Lists

LEMMA ListMade == \A D \in SUBSET Resources : \A l \in [D -> Values] : l \in Lists
    BY DEF Lists

LEMMA EmptyList == <<>> \in Lists /\ DOMAIN <<>> = {}
<1>1. <<>> \in [{} -> Values]
    OBVIOUS
<1> QED BY <1>1, ListMade

LEMMA RestrictList == \A l \in Lists : \A S \in SUBSET DOMAIN l : Restrict(l, S) \in Lists /\ DOMAIN Restrict(l, S) = S
<1> SUFFICES ASSUME NEW l \in Lists, NEW S \in SUBSET DOMAIN l
             PROVE  Restrict(l, S) \in Lists /\ DOMAIN Restrict(l, S) = S
    OBVIOUS
<1>1. S \in SUBSET Resources /\ \A r \in S : l[r] \in Values
    BY ListDomain
<1>2. Restrict(l, S) \in [S -> Values]
    BY <1>1 DEF Restrict
<1> QED BY <1>1, <1>2, ListMade

LEMMA MergedList == \A l, m \in Lists : Merged(l, m) \in Lists
<1> SUFFICES ASSUME NEW l \in Lists, NEW m \in Lists PROVE Merged(l, m) \in Lists
    OBVIOUS
<1>1. /\ DOMAIN l \cup DOMAIN m \in SUBSET Resources
      /\ \A r \in DOMAIN l : l[r] \in Values
      /\ \A r \in DOMAIN m : m[r] \in Values
    BY ListDomain
<1>2. Merged(l, m) \in [DOMAIN l \cup DOMAIN m -> Values]
    BY <1>1 DEF Merged
<1> QED BY <1>1, <1>2, ListMade

LEMMA SpecList == \A s \in Specs : s.hard \in Lists
<1> SUFFICES ASSUME NEW s \in Specs PROVE s.hard \in Lists
    OBVIOUS
<1>1. DOMAIN s.hard \in SUBSET Resources
    BY DEF Resources
<1>2. s.hard \in [DOMAIN s.hard -> Nat]
    BY ManagedAssumption
<1>3. \A r \in DOMAIN s.hard : s.hard[r] \in Values
    BY DEF Values, Range
<1>4. s.hard \in [DOMAIN s.hard -> Values]
    BY <1>2, <1>3
<1> QED BY <1>1, <1>4, ListMade

LEMMA FilteredList == \A l \in Lists : FilterNonScheduableResources(l) \in Lists
    BY RestrictList DEF FilterNonScheduableResources

Selectors == {s.selector : s \in Specs} \cup {"none"}

LEMMA ObjectFields ==
    \A o \in Objects : /\ o.exists \in BOOLEAN /\ o.uid \in Nat /\ o.hard \in Lists /\ o.selector \in Selectors
                       /\ o.label \in BOOLEAN /\ o.statusHard \in Lists /\ o.used \in Lists
    BY DEF Objects, Selectors

LEMMA NoneTyped == None \in Objects /\ DOMAIN None.used = {}
<1>1. <<>> \in Lists /\ DOMAIN <<>> = {}
    BY EmptyList
<1> HIDE DEF Lists
<1> QED BY <1>1 DEF None, Objects

\* The updates of one object.
LEMMA SpecUpdates ==
    ASSUME NEW o \in Objects, NEW l \in Lists, NEW s \in Selectors
    PROVE  /\ [o EXCEPT !.hard = l, !.selector = s] \in Objects
           /\ [o EXCEPT !.hard = l, !.selector = s].used = o.used
           /\ [o EXCEPT !.hard = l, !.selector = s].statusHard = o.statusHard
           /\ [o EXCEPT !.hard = l] \in Objects
           /\ [o EXCEPT !.label = FALSE] \in Objects
    BY DEF Objects, Selectors

LEMMA NewTyped ==
    ASSUME NEW l \in Lists, NEW s \in Selectors, NEW u \in Nat
    PROVE  /\ [None EXCEPT !.exists = TRUE, !.uid = u, !.hard = l, !.selector = s] \in Objects
           /\ DOMAIN [None EXCEPT !.exists = TRUE, !.uid = u, !.hard = l, !.selector = s].used = {}
           /\ [None EXCEPT !.exists = TRUE, !.uid = u, !.label = TRUE, !.selector = s, !.hard = l] \in Objects
<1> DEFINE x == [None EXCEPT !.exists = TRUE, !.uid = u, !.hard = l, !.selector = s]
           y == [None EXCEPT !.exists = TRUE, !.uid = u, !.label = TRUE, !.selector = s, !.hard = l]
<1>1. None \in Objects /\ DOMAIN None.used = {}
    BY NoneTyped
<1>2. x \in Objects /\ y \in Objects
    BY <1>1 DEF Objects, Selectors
<1>3. x.used = None.used
    BY <1>1 DEF Objects
<1> QED BY <1>1, <1>2, <1>3

LEMMA DeletedTyped ==
    ASSUME NEW u \in Nat
    PROVE  [None EXCEPT !.uid = u] \in Objects /\ DOMAIN [None EXCEPT !.uid = u].used = {}
<1>1. None \in Objects /\ DOMAIN None.used = {}
    BY NoneTyped
<1>2. [None EXCEPT !.uid = u] \in Objects
    BY <1>1 DEF Objects
<1>3. [None EXCEPT !.uid = u].used = None.used
    BY <1>1 DEF Objects
<1> QED BY <1>1, <1>2, <1>3

LEMMA NewArqTyped == \A s \in Specs, u \in Nat : NewArq(s, u) \in Objects /\ DOMAIN NewArq(s, u).used = {}
    BY NewTyped, SpecList DEF NewArq, Selectors

LEMMA ManagedTyped == \A a \in Objects : Managed(a) \in Objects /\ Managed(a).hard \in Lists
<1> SUFFICES ASSUME NEW a \in Objects PROVE Managed(a) \in Objects /\ Managed(a).hard \in Lists
    OBVIOUS
<1>1. a.uid \in Nat /\ a.selector \in Selectors /\ FilterNonScheduableResources(a.hard) \in Lists
    BY ObjectFields, FilteredList
<1>2. Managed(a) \in Objects
    BY <1>1, NewTyped DEF Managed
<1> QED BY <1>2, ObjectFields

LEMMA RespecifiedTyped ==
    \A q, a \in Objects : Respecified(q, a) \in Objects
    BY SpecUpdates, ObjectFields, ManagedTyped DEF Respecified

\* The new status: usage of limited resources only.
LEMMA NewStatusTyped ==
    ASSUME NEW a \in Objects, NEW q \in Objects
    PROVE  NewStatus(a, q) \in Objects /\ Masked(NewStatus(a, q))
<1> DEFINE taken == IF TakesOver(a, q) THEN q.used ELSE <<>>
           merged == Merged(taken, a.used)
           used == IF cluster THEN taken ELSE Restrict(merged, DOMAIN merged \cap DOMAIN a.hard)
<1>1. a.hard \in Lists /\ a.used \in Lists /\ q.used \in Lists
    BY ObjectFields
<1>2. taken \in Lists
    BY <1>1, EmptyList
<1> HIDE DEF taken
<1>3. merged \in Lists
    BY <1>1, <1>2, MergedList
<1>4. NewStatus(a, q) = [a EXCEPT !.statusHard = a.hard, !.used = used]
    BY DEF NewStatus, taken
<1> HIDE DEF merged
<1>5. used \in Lists /\ (~cluster => DOMAIN used \subseteq DOMAIN a.hard)
    BY <1>2, <1>3, RestrictList
<1> HIDE DEF used
<1>6. NewStatus(a, q) \in Objects /\ NewStatus(a, q).used = used /\ NewStatus(a, q).statusHard = a.hard
    <2>1. PICK l \in Lists : l = a.hard
        BY <1>1
    <2>2. PICK m \in Lists : m = used
        BY <1>5
    <2> DEFINE new == [a EXCEPT !.statusHard = l, !.used = m]
    <2>3. new \in Objects /\ new.used = m /\ new.statusHard = l
        BY DEF Objects
    <2>4. NewStatus(a, q) = new
        BY <1>4, <2>1, <2>2
    <2> HIDE DEF new
    <2> QED BY <2>1, <2>2, <2>3, <2>4
<1> QED BY <1>5, <1>6 DEF Masked

-----------------------------------------------------------------------------
(* Versions.                                                                *)

LEMMA VersionsRead ==
    ASSUME NEW S, NEW v \in Seq(S), v # <<>>
    PROVE  Cached(v) \in S /\ Current(v) \in S /\ Len(v) \in 1 .. Len(v) /\ 1 \in 1 .. Len(v)
           /\ (UpToDate(v) => Cached(v) = Current(v))
    BY DEF Cached, Current, UpToDate

LEMMA VersionsWritten ==
    ASSUME NEW S, NEW v \in Seq(S), v # <<>>, NEW o \in S
    PROVE  /\ Append(v, o) \in Seq(S) /\ Append(v, o) # <<>> /\ Current(Append(v, o)) = o
           /\ \A i \in 1 .. Len(Append(v, o)) : Append(v, o)[i] = o \/ \E j \in 1 .. Len(v) : Append(v, o)[i] = v[j]
<1>1. Len(v) \in Nat /\ Len(Append(v, o)) = Len(v) + 1 /\ Append(v, o) \in Seq(S)
    OBVIOUS
<1>2. Append(v, o)[Len(v) + 1] = o /\ \A i \in 1 .. Len(v) : Append(v, o)[i] = v[i]
    OBVIOUS
<1>3. \A i \in 1 .. Len(v) + 1 : i = Len(v) + 1 \/ i \in 1 .. Len(v)
    BY <1>1
<1>4. Append(v, o) # <<>>
    BY <1>1
<1> QED BY <1>1, <1>2, <1>3, <1>4 DEF Current

LEMMA VersionsDelivered ==
    ASSUME NEW S, NEW v \in Seq(S), Len(v) > 1
    PROVE  /\ Tail(v) \in Seq(S) /\ Tail(v) # <<>> /\ Current(Tail(v)) = Current(v)
           /\ \A i \in 1 .. Len(Tail(v)) : \E j \in 1 .. Len(v) : Tail(v)[i] = v[j]
<1>0. v # <<>>
    OBVIOUS
<1>1. Len(v) \in Nat /\ Tail(v) \in Seq(S) /\ Len(Tail(v)) = Len(v) - 1
    BY <1>0
<1>2. \A i \in 1 .. Len(v) - 1 : Tail(v)[i] = v[i + 1] /\ i + 1 \in 1 .. Len(v)
    BY <1>0, <1>1
<1>3. Len(v) - 1 \in 1 .. Len(v) - 1 /\ (Len(v) - 1) + 1 = Len(v)
    BY <1>1
<1>4. Current(Tail(v)) = Current(v)
    BY <1>1, <1>2, <1>3 DEF Current
<1>5. Tail(v) # <<>>
    <2>1. Len(Tail(v)) # 0 /\ Len(<<>>) = 0
        BY <1>1
    <2> QED BY <2>1
<1> QED BY <1>1, <1>2, <1>4, <1>5

-----------------------------------------------------------------------------
(* The invariant: TypeOK and OthersKept.                                    *)

RqWorkers == {Idle} \cup [op : {"delete", "create", "update"}, object : Objects, current : BOOLEAN]
ArqWorkers == {Idle} \cup [op : {"update"}, object : Objects, current : BOOLEAN]

Arqs(v) == v \in Seq(Objects) /\ v # <<>> /\ \A i \in 1 .. Len(v) : Masked(v[i])
Rqs(v) == v \in Seq(Objects) /\ v # <<>>

\* The types, in the new state.
TypedTo ==
    /\ cluster' = cluster /\ rqQ' \in BOOLEAN /\ arqQ' \in BOOLEAN
    /\ Arqs(arq') /\ Rqs(rq')
    /\ amount' \in [Resources -> Amounts]
    /\ rqWorker' \in RqWorkers
    /\ arqWorker' \in ArqWorkers /\ Masked(arqWorker'.object)
    /\ changes' \in 0 .. MaxChanges

\* Either half of OthersKept.
KeepsRq(w, v) ==
    w.op = "update" /\ w.current =>
        w.object = [Current(v) EXCEPT !.hard = w.object.hard, !.selector = w.object.selector]
KeepsArq(w, v) ==
    w.op = "update" /\ w.current =>
        w.object = [Current(v) EXCEPT !.statusHard = Current(v).hard, !.used = w.object.used]

LEMMA TypeRead ==
    TypeOK <=> /\ cluster \in BOOLEAN /\ rqQ \in BOOLEAN /\ arqQ \in BOOLEAN
               /\ Arqs(arq) /\ Rqs(rq)
               /\ amount \in [Resources -> Amounts]
               /\ rqWorker \in RqWorkers
               /\ arqWorker \in ArqWorkers /\ Masked(arqWorker.object)
               /\ changes \in 0 .. MaxChanges
    BY DEF TypeOK, Arqs, Rqs, RqWorkers, ArqWorkers

LEMMA TypeKept == TypeOK /\ TypedTo => TypeOK'
<1> SUFFICES ASSUME TypeOK, TypedTo PROVE TypeOK'
    OBVIOUS
<1>1. cluster' \in BOOLEAN
    BY DEF TypeOK, TypedTo
<1>2. (\A i \in 1 .. Len(arq) : Masked(arq[i]))' /\ Masked(arqWorker.object)'
    BY DEF TypedTo, Arqs, Masked
<1> QED BY <1>1, <1>2 DEF TypeOK, TypedTo, Arqs, Rqs, RqWorkers, ArqWorkers

LEMMA IdleTyped == Idle \in RqWorkers /\ Idle \in ArqWorkers /\ Idle.current = FALSE /\ Masked(Idle.object)
<1>1. Idle.object = None /\ Idle.current = FALSE
    BY DEF Idle
<1>2. DOMAIN None.used = {}
    BY NoneTyped
<1> QED BY <1>1, <1>2 DEF RqWorkers, ArqWorkers, Masked

LEMMA IdleStays == [Idle EXCEPT !.current = FALSE] = Idle /\ Idle.current = FALSE
<1>1. ASSUME NEW o PROVE [[op |-> "none", object |-> o, current |-> FALSE] EXCEPT !.current = FALSE]
                           = [op |-> "none", object |-> o, current |-> FALSE]
    <2> DEFINE I == [op : {"none"}, object : {o}, current : {FALSE}]
    <2>1. \A i \in I : [i EXCEPT !.current = FALSE] \in I
        OBVIOUS
    <2>2. [op |-> "none", object |-> o, current |-> FALSE] \in I
        OBVIOUS
    <2>3. \A i \in I : i = [op |-> i.op, object |-> i.object, current |-> i.current]
        OBVIOUS
    <2>4. \A i \in I : i.op = "none" /\ i.object = o /\ i.current = FALSE
        OBVIOUS
    <2> HIDE DEF I
    <2> QED BY <2>1, <2>2, <2>3, <2>4
<1> QED BY <1>1 DEF Idle

\* A worker's copy that has become stale.
LEMMA StaleTyped ==
    ASSUME TypeOK
    PROVE  /\ StaleRq \in RqWorkers /\ StaleRq.current = FALSE
           /\ StaleArq \in ArqWorkers /\ StaleArq.current = FALSE /\ Masked(StaleArq.object)
<1>0. [Idle EXCEPT !.current = FALSE] = Idle /\ Idle.current = FALSE
    BY IdleStays
<1>1. StaleRq \in RqWorkers /\ StaleRq.current = FALSE
    <2>1. CASE rqWorker = Idle
        BY <1>0, <2>1 DEF StaleRq, RqWorkers
    <2>2. CASE rqWorker # Idle
        BY <2>2 DEF TypeOK, StaleRq, RqWorkers
    <2> QED BY <2>1, <2>2
<1>2. StaleArq \in ArqWorkers /\ StaleArq.current = FALSE /\ StaleArq.object = arqWorker.object
    <2>1. CASE arqWorker = Idle
        BY <1>0, <2>1 DEF StaleArq, ArqWorkers
    <2>2. CASE arqWorker # Idle
        BY <2>2 DEF TypeOK, StaleArq, ArqWorkers
    <2> QED BY <2>1, <2>2
<1> QED BY <1>1, <1>2 DEF TypeOK, Masked

\* The objects as the caches and the API server have them.
LEMMA ObjectsRead ==
    ASSUME TypeOK
    PROVE  /\ Cached(arq) \in Objects /\ Current(arq) \in Objects
           /\ Masked(Cached(arq)) /\ Masked(Current(arq))
           /\ Cached(rq) \in Objects /\ Current(rq) \in Objects /\ CachedRq \in Objects
           /\ (UpToDate(arq) => Cached(arq) = Current(arq))
           /\ (UpToDate(rq) => Cached(rq) = Current(rq))
<1>1. Arqs(arq) /\ Rqs(rq)
    BY TypeRead
<1>2. Cached(arq) \in Objects /\ Current(arq) \in Objects
      /\ Len(arq) \in 1 .. Len(arq) /\ 1 \in 1 .. Len(arq) /\ (UpToDate(arq) => Cached(arq) = Current(arq))
    BY <1>1, VersionsRead DEF Arqs
<1>3. Cached(rq) \in Objects /\ Current(rq) \in Objects /\ (UpToDate(rq) => Cached(rq) = Current(rq))
    BY <1>1, VersionsRead DEF Rqs
<1>4. Masked(Cached(arq)) /\ Masked(Current(arq))
    BY <1>1, <1>2 DEF Arqs, Cached, Current
<1>5. CachedRq \in Objects
    BY <1>3, NoneTyped DEF CachedRq
<1> QED BY <1>2, <1>3, <1>4, <1>5

\* What is written.
LEMMA ArqVersions ==
    ASSUME TypeOK, NEW o \in Objects, Masked(o), Write(arq, o)
    PROVE  Arqs(arq')
<1>1. arq \in Seq(Objects) /\ arq # <<>> /\ (\A i \in 1 .. Len(arq) : Masked(arq[i])) /\ arq' = Append(arq, o)
    BY DEF TypeOK, Write
<1>2. arq' \in Seq(Objects) /\ arq' # <<>>
      /\ \A i \in 1 .. Len(arq') : arq'[i] = o \/ \E j \in 1 .. Len(arq) : arq'[i] = arq[j]
    BY <1>1, VersionsWritten
<1>3. \A i \in 1 .. Len(arq') : Masked(arq'[i])
    BY <1>1, <1>2
<1> QED BY <1>2, <1>3 DEF Arqs

LEMMA RqVersions ==
    ASSUME TypeOK, NEW o \in Objects, Write(rq, o)
    PROVE  Rqs(rq')
    BY VersionsWritten DEF TypeOK, Write, Rqs

\* An update that was safe stays so while nobody writes the object, and one that
\* is stale is refused.
LEMMA RqKept ==
    ASSUME KeepsRq(rqWorker, rq),
           (rqWorker' = rqWorker /\ Current(rq') = Current(rq)) \/ rqWorker'.current = FALSE
    PROVE  KeepsRq(rqWorker', rq')
<1>1. CASE rqWorker' = rqWorker /\ Current(rq') = Current(rq)
    BY <1>1 DEF KeepsRq
<1>2. CASE rqWorker'.current = FALSE
    BY <1>2 DEF KeepsRq
<1> QED BY <1>1, <1>2

LEMMA ArqKept ==
    ASSUME KeepsArq(arqWorker, arq),
           (arqWorker' = arqWorker /\ Current(arq') = Current(arq)) \/ arqWorker'.current = FALSE
    PROVE  KeepsArq(arqWorker', arq')
<1>1. CASE arqWorker' = arqWorker /\ Current(arq') = Current(arq)
    BY <1>1 DEF KeepsArq
<1>2. CASE arqWorker'.current = FALSE
    BY <1>2 DEF KeepsArq
<1> QED BY <1>1, <1>2

\* The steps that only write, deliver or forget.
Inv == TypeOK /\ OthersKept
KeptTo == KeepsRq(rqWorker', rq') /\ KeepsArq(arqWorker', arq')

LEMMA InvRead == OthersKept <=> KeepsRq(rqWorker, rq) /\ KeepsArq(arqWorker, arq)
    BY DEF OthersKept, KeepsRq, KeepsArq

LEMMA InvKept == Inv /\ TypedTo /\ KeptTo => Inv'
<1> SUFFICES ASSUME Inv, TypedTo, KeptTo PROVE Inv'
    OBVIOUS
<1>1. TypeOK'
    BY TypeKept DEF Inv
<1>2. OthersKept'
    BY DEF KeptTo, OthersKept, KeepsRq, KeepsArq, Current
<1> QED BY <1>1, <1>2 DEF Inv

LEMMA InvInit == Init => Inv
<1> SUFFICES ASSUME Init PROVE Inv
    OBVIOUS
<1>1. PICK s \in Specs : arq = <<NewArq(s, 0)>>
    BY DEF Init
<1>2. PICK o \in Objects : arq = <<o>> /\ DOMAIN o.used = {}
    BY <1>1, NewArqTyped
<1>3. Arqs(arq)
    <2>1. <<o>> \in Seq(Objects) /\ <<o>> # <<>> /\ Len(<<o>>) = 1 /\ <<o>>[1] = o
        OBVIOUS
    <2>2. Masked(o)
        BY <1>2 DEF Masked
    <2>3. \A i \in 1 .. 1 : i = 1
        OBVIOUS
    <2> QED BY <1>2, <2>1, <2>2, <2>3 DEF Arqs
<1>4. Rqs(rq)
    <2>1. rq = <<None>> /\ None \in Objects
        BY NoneTyped DEF Init
    <2> QED BY <2>1 DEF Rqs
<1>5. amount \in [Resources -> Amounts] /\ changes \in 0 .. MaxChanges
    BY ManagedAssumption DEF Init
<1>6. rqWorker = Idle /\ arqWorker = Idle /\ cluster \in BOOLEAN /\ rqQ = TRUE /\ arqQ = TRUE
    BY DEF Init
<1>7. TypeOK
    BY <1>3, <1>4, <1>5, <1>6, IdleTyped, TypeRead
<1>8. OthersKept
    BY <1>6, IdleTyped DEF OthersKept
<1> QED BY <1>7, <1>8 DEF Inv

-----------------------------------------------------------------------------
(* The RQ and CRQ controllers.                                              *)

LEMMA RqExecuteKeeps == Inv /\ RqExecute => TypedTo /\ KeptTo
<1> SUFFICES ASSUME Inv, RqExecute PROVE TypedTo /\ KeptTo
    OBVIOUS
<1>0. TypeOK /\ KeepsRq(rqWorker, rq) /\ KeepsArq(arqWorker, arq)
    BY InvRead DEF Inv
<1> DEFINE a == Cached(arq)
           q == CachedRq
<1>1. a \in Objects /\ q \in Objects /\ (UpToDate(rq) => Cached(rq) = Current(rq))
    BY <1>0, ObjectsRead
<1>2. UpToDate(rq) \in BOOLEAN
    BY DEF UpToDate
<1>3. \/ rqWorker' = [op |-> "delete", object |-> None, current |-> UpToDate(rq)]
      \/ rqWorker' = [op |-> "create", object |-> Managed(a), current |-> UpToDate(rq)]
      \/ q.exists /\ rqWorker' = [op |-> "update", object |-> Respecified(q, a), current |-> UpToDate(rq)]
      \/ rqWorker' = Idle
    BY DEF RqExecute
<1>4. UNCHANGED <<cluster, arq, rq, amount, arqQ, arqWorker, changes>> /\ rqQ' = FALSE
    BY DEF RqExecute
<1>5. q.exists => q = Cached(rq)
    BY DEF CachedRq, None
<1> HIDE DEF a, q
<1>6. None \in Objects /\ Managed(a) \in Objects /\ Respecified(q, a) \in Objects
    BY <1>1, NoneTyped, ManagedTyped, RespecifiedTyped
<1>7. rqWorker' \in RqWorkers
    BY <1>2, <1>3, <1>6 DEF RqWorkers
<1>8. TypedTo
    BY <1>0, <1>4, <1>7, TypeRead DEF TypedTo
<1>9. KeepsRq(rqWorker', rq')
    <2>1. CASE q.exists /\ rqWorker' = [op |-> "update", object |-> Respecified(q, a), current |-> UpToDate(rq)]
        <3> SUFFICES ASSUME UpToDate(rq)
                     PROVE  Respecified(q, a)
                              = [Current(rq) EXCEPT !.hard = Respecified(q, a).hard,
                                                    !.selector = Respecified(q, a).selector]
            BY <1>4, <2>1 DEF KeepsRq
        <3>1. q = Current(rq)
            BY <1>1, <1>5, <2>1
        <3>2. \A h, s : /\ [q EXCEPT !.hard = h, !.selector = s].hard = h
                        /\ [q EXCEPT !.hard = h, !.selector = s].selector = s
            BY <1>1 DEF Objects
        <3>3. Respecified(q, a).hard = Managed(a).hard /\ Respecified(q, a).selector = a.selector
            BY <3>2 DEF Respecified
        <3> QED BY <3>1, <3>3 DEF Respecified
    <2>2. CASE rqWorker'.op # "update"
        BY <2>2 DEF KeepsRq
    <2> QED BY <1>3, <2>1, <2>2 DEF Idle
<1>10. KeepsArq(arqWorker', arq')
    BY <1>0, <1>4
<1> QED BY <1>8, <1>9, <1>10 DEF KeptTo

LEMMA RqCallKeeps == Inv /\ RqCall => TypedTo /\ KeptTo
<1> SUFFICES ASSUME Inv, RqCall PROVE TypedTo /\ KeptTo
    OBVIOUS
<1>0. TypeOK /\ KeepsRq(rqWorker, rq) /\ KeepsArq(arqWorker, arq)
    BY InvRead DEF Inv
<1>1. UNCHANGED <<cluster, arq, amount, arqQ, arqWorker, changes>>
    BY DEF RqCall
<1>2. rqWorker \in [op : {"delete", "create", "update"}, object : Objects, current : BOOLEAN]
    BY <1>0, TypeRead DEF RqWorkers, RqCall
<1>3. rqWorker.op \in {"delete", "create", "update"} /\ rqWorker.object \in Objects
    BY <1>2
<1>4. rqWorker' = Idle /\ rqQ' \in {rqQ, TRUE}
      /\ (rq' = rq \/ \E o \in Objects : Write(rq, o))
    <2>1. CASE rqWorker.op = "delete"
        BY <2>1, NoneTyped DEF RqCall
    <2>2. CASE rqWorker.op = "create"
        BY <1>3, <2>2 DEF RqCall, RqFails
    <2>3. CASE rqWorker.op = "update"
        BY <1>3, <2>3 DEF RqCall, RqFails
    <2> QED BY <1>3, <2>1, <2>2, <2>3
<1>5. Rqs(rq')
    <2>1. CASE rq' = rq
        BY <1>0, <2>1, TypeRead
    <2>2. CASE \E o \in Objects : Write(rq, o)
        BY <1>0, <2>2, RqVersions
    <2> QED BY <1>4, <2>1, <2>2
<1>6. TypedTo
    BY <1>0, <1>1, <1>4, <1>5, IdleTyped, TypeRead DEF TypedTo
<1>7. KeepsRq(rqWorker', rq')
    BY <1>0, <1>4, IdleTyped, RqKept
<1>8. KeepsArq(arqWorker', arq')
    BY <1>0, <1>1
<1> QED BY <1>6, <1>7, <1>8 DEF KeptTo

-----------------------------------------------------------------------------
(* The status controllers.                                                  *)

LEMMA ArqSyncKeeps == Inv /\ ArqSync => TypedTo /\ KeptTo
<1> SUFFICES ASSUME Inv, ArqSync PROVE TypedTo /\ KeptTo
    OBVIOUS
<1>0. TypeOK /\ KeepsRq(rqWorker, rq) /\ KeepsArq(arqWorker, arq)
    BY InvRead DEF Inv
<1> DEFINE a == Cached(arq)
           new == NewStatus(a, CachedRq)
<1>1. a \in Objects /\ new \in Objects /\ Masked(new) /\ (UpToDate(arq) => a = Current(arq))
    BY <1>0, ObjectsRead, NewStatusTyped
<1>2. UpToDate(arq) \in BOOLEAN
    BY DEF UpToDate
<1>3. \/ arqWorker' = [op |-> "update", object |-> new, current |-> UpToDate(arq)]
      \/ arqWorker' = Idle
    BY DEF ArqSync
<1>4. UNCHANGED <<cluster, arq, rq, amount, rqQ, rqWorker, changes>> /\ arqQ' = FALSE
    BY DEF ArqSync
<1>5. PICK u : new = [a EXCEPT !.statusHard = a.hard, !.used = u]
    BY DEF NewStatus
<1> HIDE DEF a, new
<1>6. arqWorker' \in ArqWorkers /\ Masked(arqWorker'.object)
    <2>1. CASE arqWorker' = Idle
        BY <2>1, IdleTyped
    <2>2. CASE arqWorker' = [op |-> "update", object |-> new, current |-> UpToDate(arq)]
        BY <1>1, <1>2, <2>2 DEF ArqWorkers
    <2> QED BY <1>3, <2>1, <2>2
<1>7. TypedTo
    BY <1>0, <1>4, <1>6, TypeRead DEF TypedTo
<1>8. KeepsArq(arqWorker', arq')
    <2>1. CASE arqWorker' = Idle
        BY <2>1 DEF KeepsArq, Idle
    <2>2. CASE arqWorker' = [op |-> "update", object |-> new, current |-> UpToDate(arq)]
        <3> SUFFICES ASSUME UpToDate(arq)
                     PROVE  new = [Current(arq) EXCEPT !.statusHard = Current(arq).hard, !.used = new.used]
            BY <1>4, <2>2 DEF KeepsArq
        <3>1. new.used = u
            BY <1>1, <1>5 DEF Objects
        <3> QED BY <1>1, <1>5, <3>1
    <2> QED BY <1>3, <2>1, <2>2
<1>9. KeepsRq(rqWorker', rq')
    BY <1>0, <1>4
<1> QED BY <1>7, <1>8, <1>9 DEF KeptTo

LEMMA ArqCallKeeps == Inv /\ ArqCall => TypedTo /\ KeptTo
<1> SUFFICES ASSUME Inv, ArqCall PROVE TypedTo /\ KeptTo
    OBVIOUS
<1>0. TypeOK /\ KeepsRq(rqWorker, rq) /\ KeepsArq(arqWorker, arq)
    BY InvRead DEF Inv
<1>1. UNCHANGED <<cluster, rq, amount, rqQ, rqWorker, changes>> /\ arqWorker' = Idle
    BY DEF ArqCall
<1>2. arqWorker.object \in Objects /\ Masked(arqWorker.object)
    BY <1>0, TypeRead DEF ArqWorkers, ArqCall
<1>3. Arqs(arq') /\ arqQ' \in BOOLEAN
    <2>1. CASE arqWorker.current
        BY <1>0, <1>2, <2>1, ArqVersions, TypeRead DEF ArqCall
    <2>2. CASE ~arqWorker.current
        BY <1>0, <2>2, TypeRead DEF ArqCall
    <2> QED BY <2>1, <2>2
<1>4. TypedTo
    BY <1>0, <1>1, <1>3, IdleTyped, TypeRead DEF TypedTo
<1>5. KeepsArq(arqWorker', arq')
    BY <1>0, <1>1, IdleTyped, ArqKept
<1>6. KeepsRq(rqWorker', rq')
    BY <1>0, <1>1
<1> QED BY <1>4, <1>5, <1>6 DEF KeptTo

-----------------------------------------------------------------------------
(* Events and the timer.                                                    *)

LEMMA EventsKeep == Inv /\ (EnqueueAll \/ ArqEvent \/ RqEvent) => TypedTo /\ KeptTo
<1> SUFFICES ASSUME Inv, EnqueueAll \/ ArqEvent \/ RqEvent PROVE TypedTo /\ KeptTo
    OBVIOUS
<1>0. TypeOK /\ KeepsRq(rqWorker, rq) /\ KeepsArq(arqWorker, arq)
    BY InvRead DEF Inv
<1>1. CASE EnqueueAll
    <2>1. UNCHANGED <<cluster, arq, rq, amount, rqQ, rqWorker, arqWorker, changes>> /\ arqQ' = TRUE
        BY <1>1 DEF EnqueueAll
    <2> QED BY <1>0, <2>1, TypeRead DEF TypedTo, KeptTo
<1>2. CASE ArqEvent
    <2>1. UNCHANGED <<cluster, rq, amount, rqWorker, arqWorker, changes>>
          /\ arq \in Seq(Objects) /\ Len(arq) > 1 /\ arq' = Tail(arq)
        BY <1>0, <1>2 DEF ArqEvent, TypeOK
    <2>2. /\ arq' \in Seq(Objects) /\ arq' # <<>> /\ Current(arq') = Current(arq)
          /\ \A i \in 1 .. Len(arq') : \E j \in 1 .. Len(arq) : arq'[i] = arq[j]
        BY <2>1, VersionsDelivered
    <2>3. Arqs(arq')
        BY <1>0, <2>2 DEF Arqs, TypeOK
    <2>4. rqQ' \in BOOLEAN /\ arqQ' \in BOOLEAN
        BY <1>2 DEF ArqEvent
    <2>5. TypedTo
        BY <1>0, <2>1, <2>3, <2>4, TypeRead DEF TypedTo
    <2>6. KeepsArq(arqWorker', arq') /\ KeepsRq(rqWorker', rq')
        BY <1>0, <2>1, <2>2, ArqKept
    <2> QED BY <2>5, <2>6 DEF KeptTo
<1>3. CASE RqEvent
    <2>1. UNCHANGED <<cluster, arq, amount, rqWorker, arqWorker, changes>>
          /\ rq \in Seq(Objects) /\ Len(rq) > 1 /\ rq' = Tail(rq)
        BY <1>0, <1>3 DEF RqEvent, TypeOK
    <2>2. rq' \in Seq(Objects) /\ rq' # <<>> /\ Current(rq') = Current(rq)
        BY <2>1, VersionsDelivered
    <2>3. Rqs(rq')
        BY <2>2 DEF Rqs
    <2>4. rqQ' \in BOOLEAN /\ arqQ' \in BOOLEAN
        BY <1>3 DEF RqEvent
    <2>5. TypedTo
        BY <1>0, <2>1, <2>3, <2>4, TypeRead DEF TypedTo
    <2>6. KeepsArq(arqWorker', arq') /\ KeepsRq(rqWorker', rq')
        BY <1>0, <2>1, <2>2, RqKept
    <2> QED BY <2>5, <2>6 DEF KeptTo
<1> QED BY <1>1, <1>2, <1>3

-----------------------------------------------------------------------------
(* Kubernetes, users and faults.                                            *)

\* A write of the managed quota by somebody else.
LEMMA RqWrittenKeeps ==
    ASSUME Inv, NEW o \in Objects, RqWritten(o),
           UNCHANGED <<cluster, arq, amount, rqQ, arqQ, arqWorker>>, changes' \in 0 .. MaxChanges
    PROVE  TypedTo /\ KeptTo
<1>0. TypeOK /\ KeepsRq(rqWorker, rq) /\ KeepsArq(arqWorker, arq)
    BY InvRead DEF Inv
<1>1. Rqs(rq') /\ rqWorker' = StaleRq
    BY <1>0, RqVersions DEF RqWritten
<1>2. TypedTo
    BY <1>0, <1>1, StaleTyped, TypeRead DEF TypedTo
<1>3. KeepsRq(rqWorker', rq')
    BY <1>0, <1>1, StaleTyped, RqKept
<1>4. KeepsArq(arqWorker', arq')
    BY <1>0
<1> QED BY <1>2, <1>3, <1>4 DEF KeptTo

\* A write of the application-aware quota by a user.
LEMMA ArqWrittenKeeps ==
    ASSUME Inv, NEW o \in Objects, Masked(o), ArqWritten(o),
           UNCHANGED <<cluster, rq, amount, rqQ, rqWorker, arqQ>>, changes' \in 0 .. MaxChanges
    PROVE  TypedTo /\ KeptTo
<1>0. TypeOK /\ KeepsRq(rqWorker, rq) /\ KeepsArq(arqWorker, arq)
    BY InvRead DEF Inv
<1>1. Arqs(arq') /\ arqWorker' = StaleArq
    BY <1>0, ArqVersions DEF ArqWritten
<1>2. TypedTo
    BY <1>0, <1>1, StaleTyped, TypeRead DEF TypedTo
<1>3. KeepsArq(arqWorker', arq')
    BY <1>0, <1>1, StaleTyped, ArqKept
<1>4. KeepsRq(rqWorker', rq')
    BY <1>0
<1> QED BY <1>2, <1>3, <1>4 DEF KeptTo

LEMMA KubernetesKeeps == Inv /\ (QuotaController \/ GarbageCollector) => TypedTo /\ KeptTo
<1> SUFFICES ASSUME Inv, QuotaController \/ GarbageCollector PROVE TypedTo /\ KeptTo
    OBVIOUS
<1>0. TypeOK /\ changes' \in 0 .. MaxChanges
    BY TypeRead DEF Inv, QuotaController, GarbageCollector
<1>1. CASE QuotaController
    <2> DEFINE q == Current(rq)
               counted == Restrict(amount, DOMAIN q.hard)
    <2>1. q \in Objects /\ q.hard \in Lists
        BY <1>0, ObjectsRead, ObjectFields
    <2>2. DOMAIN q.hard \in SUBSET Resources
        BY <2>1, ListDomain
    <2>3. \A r \in Resources : amount[r] \in Values
        BY <1>0 DEF TypeOK, Values
    <2> HIDE DEF q
    <2>4. counted \in [DOMAIN q.hard -> Values]
        BY <2>2, <2>3 DEF Restrict
    <2>5. counted \in Lists
        BY <2>2, <2>4, ListMade
    <2> HIDE DEF counted
    <2>6. [q EXCEPT !.statusHard = q.hard, !.used = counted] \in Objects
        BY <2>1, <2>5 DEF Objects
    <2>7. RqWritten([q EXCEPT !.statusHard = q.hard, !.used = counted])
          /\ UNCHANGED <<cluster, arq, amount, rqQ, arqQ, arqWorker>>
        BY <1>1 DEF QuotaController, q, counted
    <2>8. PICK w \in Objects : RqWritten(w)
        BY <2>6, <2>7 DEF RqWritten, Write
    <2> QED BY <1>0, <2>7, <2>8, RqWrittenKeeps
<1>2. CASE GarbageCollector
    <2>1. RqWritten(None) /\ UNCHANGED <<cluster, arq, amount, rqQ, arqQ, arqWorker>>
        BY <1>2 DEF GarbageCollector
    <2> QED BY <1>0, <2>1, NoneTyped, RqWrittenKeeps
<1> QED BY <1>1, <1>2

LEMMA MeddlingKeeps ==
    ASSUME Inv, NEW o \in Objects, MeddleWithRq(o)
    PROVE  TypedTo /\ KeptTo
<1>1. changes' \in 0 .. MaxChanges
    BY ManagedAssumption DEF Inv, TypeOK, MeddleWithRq, Change
<1>2. RqWritten(o) /\ UNCHANGED <<cluster, arq, amount, rqQ, arqQ, arqWorker>>
    BY DEF MeddleWithRq
<1> QED BY <1>1, <1>2, RqWrittenKeeps

LEMMA UsersKeep == Inv /\ Users => TypedTo /\ KeptTo
<1> SUFFICES ASSUME Inv, Users PROVE TypedTo /\ KeptTo
    OBVIOUS
<1>0. TypeOK /\ KeepsRq(rqWorker, rq) /\ KeepsArq(arqWorker, arq)
    BY InvRead DEF Inv
<1> DEFINE a == Current(arq)
           q == Current(rq)
<1>1. a \in Objects /\ q \in Objects /\ Masked(a) /\ a.uid \in Nat
    BY <1>0, ObjectsRead, ObjectFields
<1>2. Change => changes' \in 0 .. MaxChanges
    BY <1>0, ManagedAssumption DEF TypeOK, Change
<1>3. ASSUME NEW s \in Specs, ChangeArq(s) PROVE TypedTo /\ KeptTo
    <2> DEFINE o == [a EXCEPT !.hard = s.hard, !.selector = s.selector]
    <2>1. s.hard \in Lists /\ s.selector \in Selectors
        BY SpecList DEF Selectors
    <2>2. ArqWritten(o) /\ UNCHANGED <<cluster, rq, amount, rqQ, rqWorker, arqQ>> /\ Change
        BY <1>3 DEF ChangeArq
    <2> HIDE DEF a
    <2>3. o \in Objects /\ o.used = a.used /\ o.statusHard = a.statusHard
        BY <1>1, <2>1, SpecUpdates
    <2> HIDE DEF o
    <2>4. Masked(o)
        BY <1>1, <2>3 DEF Masked
    <2>5. PICK w \in Objects : Masked(w) /\ ArqWritten(w)
        BY <2>2, <2>3, <2>4 DEF ArqWritten, Write
    <2> QED BY <1>2, <2>2, <2>5, ArqWrittenKeeps
<1>4. ASSUME NEW s \in Specs, RecreateArq(s) PROVE TypedTo /\ KeptTo
    <2>1. NewArq(s, a.uid + 1) \in Objects /\ Masked(NewArq(s, a.uid + 1))
        BY <1>1, NewArqTyped DEF Masked
    <2>2. ArqWritten(NewArq(s, a.uid + 1)) /\ UNCHANGED <<cluster, rq, amount, rqQ, rqWorker, arqQ>> /\ Change
        BY <1>4 DEF RecreateArq
    <2>3. PICK w \in Objects : Masked(w) /\ ArqWritten(w)
        BY <2>1, <2>2 DEF ArqWritten, Write
    <2> QED BY <1>2, <2>2, <2>3, ArqWrittenKeeps
<1>5. CASE DeleteArq
    <2>1. [None EXCEPT !.uid = a.uid] \in Objects /\ Masked([None EXCEPT !.uid = a.uid])
        BY <1>1, DeletedTyped DEF Masked
    <2>2. ArqWritten([None EXCEPT !.uid = a.uid]) /\ UNCHANGED <<cluster, rq, amount, rqQ, rqWorker, arqQ>> /\ Change
        BY <1>5 DEF DeleteArq
    <2>3. PICK w \in Objects : Masked(w) /\ ArqWritten(w)
        BY <2>1, <2>2 DEF ArqWritten, Write
    <2> QED BY <1>2, <2>2, <2>3, ArqWrittenKeeps
<1>6. CASE MeddleWithRq(None)
    BY <1>6, NoneTyped, MeddlingKeeps
<1>7. CASE MeddleWithRq([q EXCEPT !.label = FALSE])
    <2>1. [q EXCEPT !.label = FALSE] \in Objects
        BY <1>1 DEF Objects
    <2>2. PICK w \in Objects : MeddleWithRq(w)
        BY <1>7, <2>1 DEF MeddleWithRq, RqWritten, Write
    <2> QED BY <2>2, MeddlingKeeps
<1>8. ASSUME NEW s \in Specs, MeddleWithRq([q EXCEPT !.hard = s.hard]) PROVE TypedTo /\ KeptTo
    <2>1. [q EXCEPT !.hard = s.hard] \in Objects
        BY <1>1, SpecList DEF Objects
    <2>2. PICK w \in Objects : MeddleWithRq(w)
        BY <1>8, <2>1 DEF MeddleWithRq, RqWritten, Write
    <2> QED BY <2>2, MeddlingKeeps
<1>9. ASSUME NEW r \in Resources, NEW n \in Amounts, Consume(r, n) PROVE TypedTo /\ KeptTo
    <2>1. UNCHANGED <<cluster, arq, rq, rqQ, rqWorker, arqQ, arqWorker>> /\ Change
          /\ amount' = [amount EXCEPT ![r] = n]
        BY <1>9 DEF Consume
    <2>2. amount' \in [Resources -> Amounts]
        BY <1>0, <2>1 DEF TypeOK
    <2> QED BY <1>0, <1>2, <2>1, <2>2, TypeRead DEF TypedTo, KeptTo
<1> QED BY <1>3, <1>4, <1>5, <1>6, <1>7, <1>8, <1>9 DEF Users

LEMMA FaultsKeep == Inv /\ (CallFails \/ Restart) => TypedTo /\ KeptTo
<1> SUFFICES ASSUME Inv, CallFails \/ Restart PROVE TypedTo /\ KeptTo
    OBVIOUS
<1>0. TypeOK /\ KeepsRq(rqWorker, rq) /\ KeepsArq(arqWorker, arq)
    BY InvRead DEF Inv
<1>1. changes' \in 0 .. MaxChanges
    BY <1>0, ManagedAssumption DEF TypeOK, Change, CallFails, Restart
<1>2. CASE CallFails
    <2>1. UNCHANGED <<cluster, arq, amount, rq>>
        BY <1>2 DEF CallFails, RqFails
    <2>2. /\ rqWorker' = rqWorker \/ rqWorker' = Idle
          /\ arqWorker' = arqWorker \/ arqWorker' = Idle
          /\ rqQ' \in {rqQ, TRUE} /\ arqQ' \in {arqQ, TRUE}
        BY <1>2 DEF CallFails, RqFails
    <2>3. TypedTo
        BY <1>0, <1>1, <2>1, <2>2, IdleTyped, TypeRead DEF TypedTo
    <2>4. KeepsRq(rqWorker', rq')
        BY <1>0, <2>1, <2>2, IdleTyped, RqKept
    <2>5. KeepsArq(arqWorker', arq')
        BY <1>0, <2>1, <2>2, IdleTyped, ArqKept
    <2> QED BY <2>3, <2>4, <2>5 DEF KeptTo
<1>3. CASE Restart
    <2>1. /\ UNCHANGED <<cluster, amount>> /\ rqWorker' = Idle /\ arqWorker' = Idle
          /\ arq' = <<Current(arq)>> /\ rq' = <<Current(rq)>>
          /\ rqQ' = Current(arq).exists /\ arqQ' = Current(arq).exists
        BY <1>3 DEF Restart
    <2>2. Current(arq) \in Objects /\ Current(rq) \in Objects /\ Masked(Current(arq))
          /\ Current(arq).exists \in BOOLEAN
        BY <1>0, ObjectsRead, ObjectFields
    <2>3. ASSUME NEW o \in Objects
          PROVE  /\ <<o>> \in Seq(Objects) /\ <<o>> # <<>>
                 /\ \A i \in 1 .. Len(<<o>>) : <<o>>[i] = o
        <3>1. Len(<<o>>) = 1 /\ <<o>>[1] = o /\ \A i \in 1 .. 1 : i = 1
            OBVIOUS
        <3> QED BY <3>1
    <2>4. Arqs(arq') /\ Rqs(rq')
        BY <2>1, <2>2, <2>3 DEF Arqs, Rqs
    <2>5. TypedTo
        BY <1>0, <1>1, <2>1, <2>2, <2>4, IdleTyped, TypeRead DEF TypedTo
    <2>6. KeepsRq(rqWorker', rq') /\ KeepsArq(arqWorker', arq')
        BY <1>0, <2>1, IdleTyped, RqKept, ArqKept
    <2> QED BY <2>5, <2>6 DEF KeptTo
<1> QED BY <1>2, <1>3

-----------------------------------------------------------------------------
(* The theorems.                                                            *)

\* Types, and what an accepted update may not touch, together.
THEOREM ManagedInvariant == Spec => [](TypeOK /\ OthersKept)
<1>1. Init => Inv
    BY InvInit
<1>2. Inv /\ [Next]_vars => Inv'
    <2> SUFFICES ASSUME Inv, [Next]_vars PROVE Inv'
        OBVIOUS
    <2>1. CASE Next
        <3>1. TypedTo /\ KeptTo
            BY <2>1, RqExecuteKeeps, RqCallKeeps, ArqSyncKeeps, ArqCallKeeps, EventsKeep, KubernetesKeeps,
               UsersKeep, FaultsKeep DEF Next, Controllers, StatusControllers
        <3> QED BY <3>1, InvKept
    <2>2. CASE UNCHANGED vars
        <3>1. TypedTo /\ KeptTo
            BY <2>2, TypeRead, InvRead DEF vars, Inv, TypedTo, KeptTo
        <3> QED BY <3>1, InvKept
    <2> QED BY <2>1, <2>2
<1> QED BY <1>1, <1>2, PTL DEF Spec, Inv

\* Every list in every version of the two objects is one of limited resources,
\* and an ARQ's status shows usage only beside its limit (syncResourceQuota's mask).
COROLLARY ManagedTypeCorrect == Spec => []TypeOK
    BY ManagedInvariant, PTL

\* No lost update: what RQ, CRQ, ARQ and ACRQ controllers write from their caches
\* keeps what others have written since, or is refused.
COROLLARY NoLostUpdate == Spec => []OthersKept
    BY ManagedInvariant, PTL

-----------------------------------------------------------------------------
(* The RQ and CRQ controllers rest only when the managed quota is right.    *)

\* What holds of the first of n, and passes from each to the next, holds of the last.
LEMMA LastReached ==
    ASSUME NEW n \in Nat, n # 0, NEW G \in SUBSET (1 .. n), 1 \in G,
           \A i \in 1 .. n - 1 : i \in G => i + 1 \in G
    PROVE  n \in G
<1> DEFINE Bad == {k \in Nat : k \in 1 .. n /\ k \notin G}
           R == OpToRel(<, Nat)
<1> SUFFICES ASSUME n \notin G PROVE FALSE
    OBVIOUS
<1>1. n \in Bad
    OBVIOUS
<1>2. PICK k \in Bad : \A j \in Bad : <<j, k>> \notin R
    BY <1>1, NatLessThanWellFounded, WFMin
<1>3. \A j, m \in Nat : j < m => <<j, m>> \in R
    BY DEF OpToRel
<1> HIDE DEF R
<1>4. k \in Nat /\ k \in 1 .. n /\ k # 1
    BY <1>2
<1>5. k - 1 \in Nat /\ k - 1 \in 1 .. n - 1 /\ k - 1 < k /\ (k - 1) + 1 = k /\ k - 1 \in 1 .. n
    BY <1>4
<1>6. k - 1 \notin Bad
    BY <1>2, <1>3, <1>4, <1>5
<1>7. k - 1 \in G
    BY <1>5, <1>6
<1> QED BY <1>2, <1>5, <1>7

\* The neighbouring versions after a write, and after a delivery.
LEMMA PairsWritten ==
    ASSUME NEW S, NEW v \in Seq(S), v # <<>>, NEW o \in S, NEW w, w = Append(v, o)
    PROVE  /\ Cached(w) = Cached(v)
           /\ \A i \in 1 .. Len(v) - 1 : i \in 1 .. Len(w) - 1 /\ w[i] = v[i] /\ w[i + 1] = v[i + 1]
           /\ Len(v) \in 1 .. Len(w) - 1 /\ w[Len(v)] = Current(v) /\ w[Len(v) + 1] = o
<1>1. Len(v) \in Nat /\ Len(v) # 0 /\ Len(w) = Len(v) + 1
    OBVIOUS
<1>2. w[Len(v) + 1] = o /\ \A i \in 1 .. Len(v) : w[i] = v[i]
    OBVIOUS
<1>3. \A k \in Nat : k # 0 =>
          /\ (k + 1) - 1 = k /\ 1 \in 1 .. k /\ k \in 1 .. k
          /\ \A i \in 1 .. k - 1 : i \in 1 .. k /\ i + 1 \in 1 .. k
    OBVIOUS
<1> QED BY <1>1, <1>2, <1>3 DEF Cached, Current

LEMMA PairsDelivered ==
    ASSUME NEW S, NEW v \in Seq(S), Len(v) > 1
    PROVE  /\ Cached(v) = v[1] /\ Cached(Tail(v)) = v[2]
           /\ \A i \in 1 .. Len(v) - 1 :
                 i = 1 \/ \E j \in 1 .. Len(Tail(v)) - 1 : Tail(v)[j] = v[i] /\ Tail(v)[j + 1] = v[i + 1]
<1>0. v # <<>>
    OBVIOUS
<1>1. Len(v) \in Nat /\ Len(Tail(v)) = Len(v) - 1
    BY <1>0
<1>2. \A i \in 1 .. Len(v) - 1 : Tail(v)[i] = v[i + 1]
    BY <1>0, <1>1
<1>3. Tail(v)[1] = v[2]
    BY <1>1, <1>2
<1>4. \A k \in Nat : \A i \in 1 .. k - 1 :
          i # 1 => /\ i - 1 \in 1 .. (k - 1) - 1 /\ (i - 1) + 1 = i
                   /\ i - 1 \in 1 .. k - 1 /\ i \in 1 .. k - 1
    OBVIOUS
<1>5. ASSUME NEW i \in 1 .. Len(v) - 1, i # 1
      PROVE  \E j \in 1 .. Len(Tail(v)) - 1 : Tail(v)[j] = v[i] /\ Tail(v)[j + 1] = v[i + 1]
    <2>1. /\ i - 1 \in 1 .. Len(Tail(v)) - 1 /\ (i - 1) + 1 = i
          /\ i - 1 \in 1 .. Len(v) - 1 /\ i \in 1 .. Len(v) - 1
        BY <1>1, <1>4, <1>5
    <2>2. Tail(v)[i - 1] = v[i] /\ Tail(v)[(i - 1) + 1] = v[i + 1]
        BY <1>2, <2>1
    <2> QED BY <2>1, <2>2
<1> QED BY <1>3, <1>5 DEF Cached

\* Without news the API server has the quota as the cache does.
LEMMA QuietRq ==
    ASSUME TypeOK, ~RqNews, Seen(Cached(rq))
    PROVE  /\ Seen(Current(rq)) /\ Current(rq).hard = Cached(rq).hard
           /\ Current(rq).selector = Cached(rq).selector
<1> DEFINE G == {i \in 1 .. Len(rq) : /\ Seen(rq[i]) /\ rq[i].hard = rq[1].hard
                                      /\ rq[i].selector = rq[1].selector}
<1>1. rq \in Seq(Objects) /\ rq # <<>>
    BY DEF TypeOK
<1>2. Len(rq) \in Nat /\ Len(rq) # 0
    BY <1>1
<1>3. 1 \in G
    BY <1>2 DEF Cached
<1>4. ASSUME NEW i \in 1 .. Len(rq) - 1, i \in G PROVE i + 1 \in G
    <2>1. ~ManagedTouched(rq[i], rq[i + 1])
        BY DEF RqNews
    <2>2. i + 1 \in 1 .. Len(rq)
        BY <1>2
    <2> QED BY <1>4, <2>1, <2>2 DEF ManagedTouched, Deleted, Updated
<1>5. Len(rq) \in G
    <2>1. G \in SUBSET (1 .. Len(rq))
        OBVIOUS
    <2> HIDE DEF G
    <2> QED BY <1>2, <1>3, <1>4, <2>1, LastReached
<1> QED BY <1>5 DEF Cached, Current

LEMMA QuietArq ==
    ASSUME TypeOK, ~ArqNews
    PROVE  Current(arq).exists = Cached(arq).exists
<1> DEFINE G == {i \in 1 .. Len(arq) : arq[i].exists = arq[1].exists}
<1>1. arq \in Seq(Objects) /\ arq # <<>>
    BY DEF TypeOK
<1>2. Len(arq) \in Nat /\ Len(arq) # 0
    BY <1>1
<1>3. 1 \in G
    BY <1>2
<1>4. ASSUME NEW i \in 1 .. Len(arq) - 1, i \in G PROVE i + 1 \in G
    <2>1. ~SpecChanged(arq[i], arq[i + 1])
        BY DEF ArqNews
    <2>2. i + 1 \in 1 .. Len(arq)
        BY <1>2
    <2> QED BY <1>4, <2>1, <2>2 DEF SpecChanged
<1>5. Len(arq) \in G
    <2>1. G \in SUBSET (1 .. Len(arq))
        OBVIOUS
    <2> HIDE DEF G
    <2> QED BY <1>2, <1>3, <1>4, <2>1, LastReached
<1> QED BY <1>5 DEF Cached, Current

\* A write adds to the news, and is news itself when a handler looks for it.
LEMMA ArqNewsWritten ==
    ASSUME TypeOK, NEW o \in Objects, Write(arq, o)
    PROVE  /\ Cached(arq') = Cached(arq) /\ Current(arq') = o
           /\ (ArqNews \/ SpecChanged(Current(arq), o) => ArqNews')
<1>1. arq \in Seq(Objects) /\ arq # <<>> /\ arq' = Append(arq, o)
    BY DEF TypeOK, Write
<1>2. /\ Cached(arq') = Cached(arq)
      /\ \A i \in 1 .. Len(arq) - 1 :
            i \in 1 .. Len(arq') - 1 /\ arq'[i] = arq[i] /\ arq'[i + 1] = arq[i + 1]
      /\ Len(arq) \in 1 .. Len(arq') - 1 /\ arq'[Len(arq)] = Current(arq) /\ arq'[Len(arq) + 1] = o
    BY <1>1, PairsWritten DEF Cached
<1>3. Current(arq') = o
    BY <1>1, VersionsWritten
<1>4. ASSUME ArqNews PROVE ArqNews'
    <2>1. PICK i \in 1 .. Len(arq) - 1 : SpecChanged(arq[i], arq[i + 1])
        BY <1>4 DEF ArqNews
    <2>2. i \in 1 .. Len(arq') - 1 /\ SpecChanged(arq'[i], arq'[i + 1])
        BY <1>2, <2>1
    <2> QED BY <2>2 DEF ArqNews, SpecChanged
<1>5. ASSUME SpecChanged(Current(arq), o) PROVE ArqNews'
    <2>1. Len(arq) \in 1 .. Len(arq') - 1 /\ SpecChanged(arq'[Len(arq)], arq'[Len(arq) + 1])
        BY <1>2, <1>5
    <2> QED BY <2>1 DEF ArqNews, SpecChanged
<1> QED BY <1>2, <1>3, <1>4, <1>5

LEMMA RqNewsWritten ==
    ASSUME TypeOK, NEW o \in Objects, Write(rq, o)
    PROVE  /\ Current(rq') = o
           /\ (RqNews \/ ManagedTouched(Current(rq), o) => RqNews')
<1>1. rq \in Seq(Objects) /\ rq # <<>> /\ rq' = Append(rq, o)
    BY DEF TypeOK, Write
<1>2. /\ \A i \in 1 .. Len(rq) - 1 :
            i \in 1 .. Len(rq') - 1 /\ rq'[i] = rq[i] /\ rq'[i + 1] = rq[i + 1]
      /\ Len(rq) \in 1 .. Len(rq') - 1 /\ rq'[Len(rq)] = Current(rq) /\ rq'[Len(rq) + 1] = o
    BY <1>1, PairsWritten
<1>3. Current(rq') = o
    BY <1>1, VersionsWritten
<1>4. ASSUME RqNews PROVE RqNews'
    <2>1. PICK i \in 1 .. Len(rq) - 1 : ManagedTouched(rq[i], rq[i + 1])
        BY <1>4 DEF RqNews
    <2>2. i \in 1 .. Len(rq') - 1 /\ ManagedTouched(rq'[i], rq'[i + 1])
        BY <1>2, <2>1
    <2> QED BY <2>2 DEF RqNews, ManagedTouched, Deleted, Updated, Seen
<1>5. ASSUME ManagedTouched(Current(rq), o) PROVE RqNews'
    <2>1. Len(rq) \in 1 .. Len(rq') - 1 /\ ManagedTouched(rq'[Len(rq)], rq'[Len(rq) + 1])
        BY <1>2, <1>5
    <2> QED BY <2>1 DEF RqNews, ManagedTouched, Deleted, Updated, Seen
<1> QED BY <1>3, <1>4, <1>5

\* What has been written is an object, the types being kept.
LEMMA LastWritten ==
    ASSUME TypeOK, TypeOK'
    PROVE  /\ \A o : Write(arq, o) => o \in Objects
           /\ \A o : Write(rq, o) => o \in Objects
<1>1. ASSUME NEW v \in Seq(Objects), NEW o, Append(v, o) \in Seq(Objects) PROVE o \in Objects
    <2>1. Len(v) \in Nat /\ Len(Append(v, o)) = Len(v) + 1 /\ Append(v, o)[Len(v) + 1] = o
        OBVIOUS
    <2>2. Len(v) + 1 \in 1 .. Len(Append(v, o))
        BY <2>1
    <2>3. Append(v, o)[Len(v) + 1] \in Objects
        BY <1>1, <2>2
    <2> QED BY <2>1, <2>3
<1> QED BY <1>1 DEF TypeOK, Write

\* RqPursued and CallsFollow carry over when nothing they speak of changes.
LEMMA RestUntouched ==
    ASSUME RqPursued, CallsFollow, UNCHANGED <<arq, rq, rqQ, rqWorker>>
    PROVE  RqPursued' /\ CallsFollow'
    BY DEF RqPursued, CallsFollow, ArqNews, RqNews, SpecChanged, ManagedTouched, Deleted, Updated, Seen,
           Follows, Unwanted, Managed, Cached, Current

\* What the controller makes of a quota depends on what its handler looks for only.
LEMMA SameWish ==
    ASSUME NEW a \in Objects, NEW b \in Objects, ~SpecChanged(a, b)
    PROVE  /\ Unwanted(a) <=> Unwanted(b)
           /\ \A q : Follows(a, q) <=> Follows(b, q)
<1>1. a.hard = b.hard /\ a.selector = b.selector /\ a.exists = b.exists
    BY DEF SpecChanged
<1>2. Managed(a).hard = Managed(b).hard
    <2>1. ASSUME NEW u \in Nat, NEW l \in Lists, NEW s \in Selectors
          PROVE  [None EXCEPT !.exists = TRUE, !.uid = u, !.label = TRUE, !.selector = s, !.hard = l].hard = l
        BY NoneTyped DEF Objects
    <2>2. /\ a.uid \in Nat /\ a.selector \in Selectors /\ FilterNonScheduableResources(a.hard) \in Lists
          /\ b.uid \in Nat /\ b.selector \in Selectors /\ FilterNonScheduableResources(b.hard) \in Lists
        BY ObjectFields, FilteredList
    <2>3. Managed(a).hard = FilterNonScheduableResources(a.hard)
          /\ Managed(b).hard = FilterNonScheduableResources(b.hard)
        BY <2>1, <2>2 DEF Managed
    <2> QED BY <1>1, <2>3
<1> QED BY <1>1, <1>2 DEF Unwanted, Follows

\* execute makes a call that follows the owner, or the managed quota does already.
LEMMA RestExecute ==
    ASSUME TypeOK, RqPursued, CallsFollow, RqExecute
    PROVE  RqPursued' /\ CallsFollow'
<1> DEFINE a == Cached(arq)
           q == CachedRq
<1>1. UNCHANGED <<arq, rq>> /\ rqQ' = FALSE
    BY DEF RqExecute
<1>2. a \in Objects /\ q \in Objects /\ Managed(a) \in Objects /\ Managed(a).hard \in Lists
      /\ a.selector \in Selectors
    BY ObjectsRead, ManagedTyped, ObjectFields
<1>3. Idle.op = "none"
    BY DEF Idle
<1>4. q.exists => q = Cached(rq) /\ Seen(q)
    BY DEF CachedRq, Seen, None
<1>5. CASE Unwanted(a)
    <2>1. rqWorker'.op = "delete" /\ rqWorker' # Idle
        BY <1>3, <1>5 DEF RqExecute, Unwanted
    <2> QED BY <1>1, <1>5, <2>1 DEF RqPursued, CallsFollow, Cached, Unwanted, Managed
<1>6. CASE ~Unwanted(a) /\ ~q.exists
    <2>1. rqWorker'.op = "create" /\ rqWorker'.object = Managed(a) /\ rqWorker' # Idle
        BY <1>3, <1>6 DEF RqExecute, Unwanted
    <2>2. Seen(Managed(a)) /\ Managed(a).selector = a.selector
        <3>1. ASSUME NEW u \in Nat, NEW l \in Lists, NEW s \in Selectors
              PROVE  LET x == [None EXCEPT !.exists = TRUE, !.uid = u, !.label = TRUE, !.selector = s, !.hard = l]
                     IN  x.exists /\ x.label /\ x.selector = s
            BY NoneTyped DEF Objects
        <3>2. a.uid \in Nat /\ FilterNonScheduableResources(a.hard) \in Lists
            BY <1>2, ObjectFields, FilteredList
        <3> QED BY <1>2, <3>1, <3>2 DEF Managed, Seen
    <2>3. Follows(a, rqWorker'.object)
        BY <1>6, <2>1, <2>2 DEF Follows
    <2> QED BY <1>1, <1>6, <2>1, <2>3 DEF RqPursued, CallsFollow, Cached, Unwanted, Managed, Follows
<1>7. CASE ~Unwanted(a) /\ q.exists /\ Dirty(q, a)
    <2>1. rqWorker'.op = "update" /\ rqWorker'.object = Respecified(q, a) /\ rqWorker' # Idle
        BY <1>3, <1>7 DEF RqExecute, Unwanted
    <2>2. Seen(Respecified(q, a)) /\ Respecified(q, a).hard = Managed(a).hard
          /\ Respecified(q, a).selector = a.selector
        <3>1. ASSUME NEW o \in Objects, NEW l \in Lists, NEW s \in Selectors
              PROVE  LET x == [o EXCEPT !.hard = l, !.selector = s]
                     IN  x.exists = o.exists /\ x.label = o.label /\ x.hard = l /\ x.selector = s
            BY DEF Objects
        <3> QED BY <1>2, <1>4, <1>7, <3>1 DEF Respecified, Seen
    <2>3. Follows(a, rqWorker'.object)
        BY <1>7, <2>1, <2>2 DEF Follows
    <2> QED BY <1>1, <1>7, <2>1, <2>3 DEF RqPursued, CallsFollow, Cached, Unwanted, Managed, Follows
<1>8. CASE ~Unwanted(a) /\ q.exists /\ ~Dirty(q, a)
    <2>1. rqWorker' = Idle
        BY <1>8 DEF RqExecute, Unwanted
    <2>2. Seen(Cached(rq)) /\ Cached(rq).hard = Managed(a).hard /\ Cached(rq).selector = a.selector
        BY <1>4, <1>8 DEF Dirty
    <2>3. RqNews \/ Follows(a, Current(rq))
        BY <1>8, <2>2, QuietRq DEF Follows
    <2>4. RqNews' \/ Follows(a, Current(rq))'
        BY <1>1, <2>3 DEF RqNews, ManagedTouched, Deleted, Updated, Seen, Follows, Unwanted, Managed, Cached, Current
    <2> QED BY <2>1, <2>4 DEF RqPursued, CallsFollow
<1> QED BY <1>5, <1>6, <1>7, <1>8

\* The call writes what follows the owner, or the key is back.
LEMMA RestCall ==
    ASSUME TypeOK, RqPursued, CallsFollow, RqCall
    PROVE  RqPursued' /\ CallsFollow'
<1>0. UNCHANGED arq /\ rqWorker # Idle
    BY DEF RqCall
<1>2. rqWorker \in RqWorkers /\ rqWorker.op \in {"delete", "create", "update"} /\ rqWorker.object \in Objects
    BY <1>0, TypeRead DEF RqWorkers
<1>1. UNCHANGED arq /\ rqWorker' = Idle /\ rqWorker # Idle
    BY <1>0, <1>2 DEF RqCall, RqFails
<1>3. CallsFollow'
    BY <1>1 DEF CallsFollow
<1>4. CASE rqQ'
    BY <1>3, <1>4 DEF RqPursued
<1>5. CASE ~rqQ'
    <2>1. ~rqQ
        BY <1>2, <1>5 DEF RqCall, RqFails
    <2>2. IF Unwanted(Cached(arq)) THEN rqWorker.op = "delete"
          ELSE rqWorker.op # "delete" /\ Follows(Cached(arq), rqWorker.object)
        BY <1>1, <2>1 DEF CallsFollow
    <2>3. Follows(Cached(arq), Current(rq'))
        <3>1. CASE rqWorker.op = "delete" /\ Current(rq).exists
            <4>1. Write(rq, None)
                BY <3>1 DEF RqCall
            <4>2. Current(rq') = None /\ ~None.exists
                BY <4>1, NoneTyped, RqNewsWritten DEF None
            <4> QED BY <2>2, <3>1, <4>2 DEF Follows
        <3>2. CASE rqWorker.op = "delete" /\ ~Current(rq).exists
            <4>1. rq' = rq
                BY <3>2 DEF RqCall
            <4> QED BY <2>2, <3>2, <4>1 DEF Follows
        <3>3. CASE rqWorker.op # "delete"
            <4>1. Write(rq, rqWorker.object)
                BY <1>2, <1>5, <3>3 DEF RqCall, RqFails
            <4>2. Current(rq') = rqWorker.object
                BY <1>2, <4>1, RqNewsWritten
            <4> QED BY <2>2, <3>3, <4>2
        <3> QED BY <3>1, <3>2, <3>3
    <2>4. Follows(Cached(arq), Current(rq))'
        BY <1>1, <2>3 DEF Follows, Unwanted, Managed, Cached, Current, Seen
    <2> QED BY <1>3, <2>4 DEF RqPursued
<1> QED BY <1>4, <1>5

\* A delivery hands the key back, or was of no interest.
LEMMA RestArqEvent ==
    ASSUME TypeOK, RqPursued, CallsFollow, ArqEvent
    PROVE  RqPursued' /\ CallsFollow'
<1>1. UNCHANGED <<rq, rqWorker>> /\ arq \in Seq(Objects) /\ Len(arq) > 1 /\ arq' = Tail(arq)
      /\ rqQ' = (rqQ \/ SpecChanged(arq[1], arq[2]))
    BY DEF ArqEvent, TypeOK
<1>2. CASE rqQ'
    BY <1>2 DEF RqPursued, CallsFollow
<1>3. CASE ~rqQ'
    <2>1. ~rqQ /\ ~SpecChanged(arq[1], arq[2])
        BY <1>1, <1>3
    <2>2. /\ Cached(arq) = arq[1] /\ Cached(arq') = arq[2]
          /\ \A i \in 1 .. Len(arq) - 1 :
                i = 1 \/ \E j \in 1 .. Len(arq') - 1 : arq'[j] = arq[i] /\ arq'[j + 1] = arq[i + 1]
        BY <1>1, PairsDelivered
    <2>3. Current(arq') = Current(arq)
        BY <1>1, VersionsDelivered
    <2>4. 1 \in 1 .. Len(arq) /\ 2 \in 1 .. Len(arq)
        BY <1>1
    <2>5. Cached(arq) \in Objects /\ Cached(arq') \in Objects /\ ~SpecChanged(Cached(arq), Cached(arq'))
        BY <1>1, <2>1, <2>2, <2>4
    <2>6. /\ Unwanted(Cached(arq)) <=> Unwanted(Cached(arq'))
          /\ \A q : Follows(Cached(arq), q) <=> Follows(Cached(arq'), q)
        BY <2>5, SameWish
    <2>7. ASSUME ArqNews PROVE ArqNews'
        <3>1. PICK i \in 1 .. Len(arq) - 1 : SpecChanged(arq[i], arq[i + 1])
            BY <2>7 DEF ArqNews
        <3>2. i # 1
            BY <2>1, <3>1
        <3>3. PICK j \in 1 .. Len(arq') - 1 : arq'[j] = arq[i] /\ arq'[j + 1] = arq[i + 1]
            BY <2>2, <3>1, <3>2
        <3>4. SpecChanged(arq'[j], arq'[j + 1])
            BY <3>1, <3>3
        <3> QED BY <3>4 DEF ArqNews, SpecChanged
    <2>8. RqNews => RqNews'
        BY <1>1 DEF RqNews, ManagedTouched, Deleted, Updated, Seen
    <2>9. Unwanted(Cached(arq))' <=> Unwanted(Cached(arq'))
        BY DEF Unwanted, Cached, Managed
    <2>10. /\ Follows(Cached(arq), Current(rq))' <=> Follows(Cached(arq'), Current(rq))
           /\ Follows(Cached(arq), rqWorker.object)' <=> Follows(Cached(arq'), rqWorker.object)
        BY <1>1 DEF Follows, Unwanted, Cached, Current, Managed, Seen
    <2>11. RqPursued'
        BY <1>1, <2>1, <2>3, <2>6, <2>7, <2>8, <2>10 DEF RqPursued
    <2>12. CallsFollow'
        BY <1>1, <2>1, <2>6, <2>9, <2>10 DEF CallsFollow
    <2> QED BY <2>11, <2>12
<1> QED BY <1>2, <1>3

LEMMA RestRqEvent ==
    ASSUME TypeOK, RqPursued, CallsFollow, RqEvent
    PROVE  RqPursued' /\ CallsFollow'
<1>1. UNCHANGED <<arq, rqWorker>> /\ rq \in Seq(Objects) /\ Len(rq) > 1 /\ rq' = Tail(rq)
      /\ rqQ' = (rqQ \/ ManagedTouched(rq[1], rq[2]))
    BY DEF RqEvent, TypeOK
<1>2. CASE rqQ'
    BY <1>2 DEF RqPursued, CallsFollow
<1>3. CASE ~rqQ'
    <2>1. ~rqQ /\ ~ManagedTouched(rq[1], rq[2])
        BY <1>1, <1>3
    <2>2. \A i \in 1 .. Len(rq) - 1 :
              i = 1 \/ \E j \in 1 .. Len(rq') - 1 : rq'[j] = rq[i] /\ rq'[j + 1] = rq[i + 1]
        BY <1>1, PairsDelivered
    <2>3. Current(rq') = Current(rq)
        BY <1>1, VersionsDelivered
    <2>4. ASSUME RqNews PROVE RqNews'
        <3>1. PICK i \in 1 .. Len(rq) - 1 : ManagedTouched(rq[i], rq[i + 1])
            BY <2>4 DEF RqNews
        <3>2. i # 1
            BY <2>1, <3>1
        <3>3. PICK j \in 1 .. Len(rq') - 1 : rq'[j] = rq[i] /\ rq'[j + 1] = rq[i + 1]
            BY <2>2, <3>1, <3>2
        <3>4. ManagedTouched(rq'[j], rq'[j + 1])
            BY <3>1, <3>3
        <3> QED BY <3>4 DEF RqNews, ManagedTouched, Deleted, Updated, Seen
    <2>5. ArqNews => ArqNews'
        BY <1>1 DEF ArqNews, SpecChanged
    <2>6. Follows(Cached(arq), Current(rq))' <=> Follows(Cached(arq), Current(rq))
        BY <1>1, <2>3 DEF Follows, Unwanted, Cached, Managed, Seen
    <2>7. RqPursued'
        BY <1>1, <2>1, <2>3, <2>4, <2>5, <2>6 DEF RqPursued, Cached
    <2>8. CallsFollow'
        BY <1>1, <2>1 DEF CallsFollow, Follows, Unwanted, Cached, Managed, Seen
    <2> QED BY <2>7, <2>8
<1> QED BY <1>2, <1>3

\* A write of the owner, by its status controller or a user, is of no interest or
\* is news.
LEMMA RestArqWrite ==
    ASSUME TypeOK, RqPursued, CallsFollow, NEW o \in Objects, Write(arq, o), UNCHANGED <<rq, rqQ, rqWorker>>
    PROVE  RqPursued' /\ CallsFollow'
<1>1. /\ Cached(arq') = Cached(arq) /\ Current(arq') = o
      /\ (ArqNews \/ SpecChanged(Current(arq), o) => ArqNews')
    BY ArqNewsWritten
<1>2. CallsFollow'
    BY <1>1 DEF CallsFollow, Follows, Unwanted, Managed, Seen
<1>3. RqNews => RqNews'
    BY DEF RqNews, ManagedTouched, Deleted, Updated, Seen
<1>4. Follows(Cached(arq), Current(rq)) => Follows(Cached(arq), Current(rq))'
    BY <1>1 DEF Follows, Unwanted, Managed, Seen, Current
<1>5. Current(rq') = Current(rq)
    BY DEF Current
<1>6. ~Current(arq).exists => ArqNews' \/ ~Current(arq').exists
    BY <1>1 DEF SpecChanged
<1>7. RqPursued'
    BY <1>1, <1>3, <1>4, <1>5, <1>6 DEF RqPursued
<1> QED BY <1>2, <1>7

\* A write of the managed quota by others as well; one that takes garbage away
\* leaves what the owner, known to be gone, wants.
LEMMA RestRqWrite ==
    ASSUME TypeOK, RqPursued, CallsFollow, NEW o \in Objects, RqWritten(o), Current(rq).exists,
           UNCHANGED <<arq, rqQ>>
    PROVE  RqPursued' /\ CallsFollow'
<1>1. /\ Current(rq') = o
      /\ (RqNews \/ ManagedTouched(Current(rq), o) => RqNews')
    BY RqNewsWritten DEF RqWritten
<1>2. Current(rq) \in Objects /\ Current(arq) \in Objects
    BY ObjectsRead
<1>3. /\ rqWorker = Idle => rqWorker' = Idle
      /\ rqWorker # Idle => rqWorker' # Idle /\ rqWorker'.op = rqWorker.op
                             /\ rqWorker'.object = rqWorker.object
    <2>1. Idle.op = "none"
        BY DEF Idle
    <2>2. CASE rqWorker # Idle
        <3>1. rqWorker \in [op : {"delete", "create", "update"}, object : Objects, current : BOOLEAN]
            BY <2>2 DEF TypeOK
        <3> QED BY <2>1, <2>2, <3>1 DEF RqWritten, StaleRq
    <2>3. CASE rqWorker = Idle
        BY <2>3, IdleStays DEF RqWritten, StaleRq
    <2> QED BY <2>2, <2>3
<1>4. CallsFollow'
    BY <1>3 DEF CallsFollow, Follows, Unwanted, Managed, Seen, Cached
<1>5. ArqNews => ArqNews'
    BY DEF ArqNews, SpecChanged
<1>6. ASSUME Follows(Cached(arq), Current(rq)) PROVE RqNews' \/ Follows(Cached(arq), o)
    <2>1. ~Unwanted(Cached(arq)) /\ Seen(Current(rq))
        BY <1>6 DEF Follows
    <2> QED BY <1>1, <1>6, <2>1 DEF Follows, ManagedTouched, Deleted, Updated
<1>7. ASSUME ~Current(arq).exists PROVE ArqNews' \/ Follows(Cached(arq), o) \/ o.exists
    <2>1. ArqNews \/ Unwanted(Cached(arq))
        BY <1>7, QuietArq DEF Unwanted
    <2> QED BY <1>5, <2>1 DEF Follows
<1>8. Follows(Cached(arq), o) => Follows(Cached(arq), Current(rq))'
    BY <1>1 DEF Follows, Unwanted, Managed, Seen, Cached
<1>9. Current(arq') = Current(arq)
    BY DEF Current
<1>10. RqPursued'
    BY <1>1, <1>3, <1>5, <1>6, <1>7, <1>8, <1>9 DEF RqPursued
<1> QED BY <1>4, <1>10

LEMMA RestKubernetes ==
    ASSUME TypeOK, TypeOK', RqPursued, CallsFollow, QuotaController \/ GarbageCollector
    PROVE  RqPursued' /\ CallsFollow'
<1>1. ASSUME NEW o, RqWritten(o), Current(rq).exists, UNCHANGED <<arq, rqQ>>
      PROVE  RqPursued' /\ CallsFollow'
    <2>1. o \in Objects
        BY <1>1, LastWritten DEF RqWritten
    <2> QED BY <1>1, <2>1, RestRqWrite
<1>2. CASE QuotaController
    <2> DEFINE o == [Current(rq) EXCEPT !.statusHard = Current(rq).hard,
                                        !.used = Restrict(amount, DOMAIN Current(rq).hard)]
    <2>1. Current(rq).exists /\ RqWritten(o) /\ UNCHANGED <<arq, rqQ>>
        BY <1>2 DEF QuotaController
    <2> HIDE DEF o
    <2>2. PICK w : RqWritten(w)
        BY <2>1 DEF RqWritten, Write
    <2> QED BY <1>1, <2>1, <2>2
<1>3. CASE GarbageCollector
    <2>1. Current(rq).exists /\ RqWritten(None) /\ UNCHANGED <<arq, rqQ>>
        BY <1>3 DEF GarbageCollector, Collectable
    <2> QED BY <1>1, <2>1
<1> QED BY <1>2, <1>3

LEMMA RestUsers ==
    ASSUME TypeOK, TypeOK', RqPursued, CallsFollow, Users
    PROVE  RqPursued' /\ CallsFollow'
<1>1. ASSUME NEW o, ArqWritten(o), UNCHANGED <<rq, rqQ, rqWorker>>
      PROVE  RqPursued' /\ CallsFollow'
    <2>1. o \in Objects
        BY <1>1, LastWritten DEF ArqWritten
    <2> QED BY <1>1, <2>1, RestArqWrite DEF ArqWritten
<1>2. ASSUME NEW o, MeddleWithRq(o) PROVE RqPursued' /\ CallsFollow'
    <2>1. o \in Objects
        BY <1>2, LastWritten DEF MeddleWithRq, RqWritten
    <2> QED BY <1>2, <2>1, RestRqWrite DEF MeddleWithRq
<1>3. ASSUME NEW s \in Specs, ChangeArq(s) PROVE RqPursued' /\ CallsFollow'
    <2> DEFINE o == [Current(arq) EXCEPT !.hard = s.hard, !.selector = s.selector]
    <2>1. ArqWritten(o) /\ UNCHANGED <<rq, rqQ, rqWorker>>
        BY <1>3 DEF ChangeArq
    <2> HIDE DEF o
    <2>2. PICK w : ArqWritten(w)
        BY <2>1 DEF ArqWritten, Write
    <2> QED BY <1>1, <2>1, <2>2
<1>4. ASSUME NEW s \in Specs, RecreateArq(s) PROVE RqPursued' /\ CallsFollow'
    <2> DEFINE o == NewArq(s, Current(arq).uid + 1)
    <2>1. ArqWritten(o) /\ UNCHANGED <<rq, rqQ, rqWorker>>
        BY <1>4 DEF RecreateArq
    <2> HIDE DEF o
    <2>2. PICK w : ArqWritten(w)
        BY <2>1 DEF ArqWritten, Write
    <2> QED BY <1>1, <2>1, <2>2
<1>5. CASE DeleteArq
    <2> DEFINE o == [None EXCEPT !.uid = Current(arq).uid]
    <2>1. ArqWritten(o) /\ UNCHANGED <<rq, rqQ, rqWorker>>
        BY <1>5 DEF DeleteArq
    <2> HIDE DEF o
    <2>2. PICK w : ArqWritten(w)
        BY <2>1 DEF ArqWritten, Write
    <2> QED BY <1>1, <2>1, <2>2
<1>6. ASSUME NEW r \in Resources, NEW n \in Amounts, Consume(r, n) PROVE RqPursued' /\ CallsFollow'
    <2>1. UNCHANGED <<arq, rq, rqQ, rqWorker>>
        BY <1>6 DEF Consume
    <2> QED BY <2>1, RestUntouched
<1>7. CASE MeddleWithRq([Current(rq) EXCEPT !.label = FALSE])
    <2>1. PICK w : MeddleWithRq(w)
        BY <1>7 DEF MeddleWithRq, RqWritten, Write
    <2> QED BY <1>2, <2>1
<1>8. ASSUME NEW s \in Specs, MeddleWithRq([Current(rq) EXCEPT !.hard = s.hard])
      PROVE  RqPursued' /\ CallsFollow'
    <2>1. PICK w : MeddleWithRq(w)
        BY <1>8 DEF MeddleWithRq, RqWritten, Write
    <2> QED BY <1>2, <2>1
<1> QED BY <1>2, <1>3, <1>4, <1>5, <1>6, <1>7, <1>8 DEF Users

LEMMA RestFaults ==
    ASSUME TypeOK, RqPursued, CallsFollow, CallFails \/ Restart
    PROVE  RqPursued' /\ CallsFollow'
<1>1. CASE CallFails /\ rqQ'
    BY <1>1 DEF RqPursued, CallsFollow
<1>2. CASE CallFails /\ ~rqQ'
    BY <1>2, RestUntouched DEF CallFails, RqFails
<1>3. CASE Restart
    <2>1. /\ rqWorker' = Idle /\ rqQ' = Current(arq).exists
          /\ arq' = <<Current(arq)>> /\ rq' = <<Current(rq)>>
        BY <1>3 DEF Restart
    <2>2. \A v : Cached(<<v>>) = v /\ Current(<<v>>) = v
        BY DEF Cached, Current
    <2>3. Cached(arq') = Current(arq) /\ Current(arq') = Current(arq) /\ Current(rq') = Current(rq)
        BY <2>1, <2>2
    <2>4. CallsFollow'
        BY <2>1 DEF CallsFollow
    <2>5. ~Current(arq).exists /\ ~Current(rq).exists => Follows(Cached(arq), Current(rq))'
        BY <2>3 DEF Follows, Unwanted
    <2>6. RqPursued'
        BY <2>1, <2>3, <2>5 DEF RqPursued
    <2> QED BY <2>4, <2>6
<1> QED BY <1>1, <1>2, <1>3

\* The invariant is inductive as it stands.
THEOREM RestInvariant == Spec => []RestInv
<1> DEFINE I == RqPursued /\ CallsFollow
<1>1. Init => I
    BY DEF Init, RqPursued, CallsFollow
<1>2. TypeOK /\ TypeOK' /\ I /\ [Next]_vars => I'
    <2> SUFFICES ASSUME TypeOK, TypeOK', RqPursued, CallsFollow, [Next]_vars
                 PROVE  RqPursued' /\ CallsFollow'
        OBVIOUS
    <2>1. CASE RqExecute \/ RqCall
        BY <2>1, RestExecute, RestCall
    <2>2. CASE ArqSync \/ EnqueueAll \/ UNCHANGED vars
        <3>1. UNCHANGED <<arq, rq, rqQ, rqWorker>>
            BY <2>2 DEF ArqSync, EnqueueAll, vars
        <3> QED BY <3>1, RestUntouched
    <2>3. CASE ArqCall
        <3>1. CASE ~arqWorker.current
            <4>1. UNCHANGED <<arq, rq, rqQ, rqWorker>>
                BY <2>3, <3>1 DEF ArqCall
            <4> QED BY <4>1, RestUntouched
        <3>2. CASE arqWorker.current
            <4>1. Write(arq, arqWorker.object) /\ UNCHANGED <<rq, rqQ, rqWorker>>
                BY <2>3, <3>2 DEF ArqCall
            <4>2. arqWorker.object \in Objects
                BY <4>1, LastWritten
            <4> QED BY <4>1, <4>2, RestArqWrite
        <3> QED BY <3>1, <3>2
    <2>4. CASE ArqEvent \/ RqEvent
        BY <2>4, RestArqEvent, RestRqEvent
    <2>5. CASE QuotaController \/ GarbageCollector
        BY <2>5, RestKubernetes
    <2>6. CASE Users
        BY <2>6, RestUsers
    <2>7. CASE CallFails \/ Restart
        BY <2>7, RestFaults
    <2> QED BY <2>1, <2>2, <2>3, <2>4, <2>5, <2>6, <2>7 DEF Next, Controllers, StatusControllers
<1> QED BY <1>1, <1>2, ManagedTypeCorrect, PTL DEF Spec, RestInv

\* The RQ and CRQ controllers never rest with a managed quota missing, left over,
\* with other limits or the label gone: the safety half of ManagedSettles.
COROLLARY RestsOnlyWhenExact == Spec => []ExactAtRest
<1>1. RestInv => ExactAtRest
    <2> SUFFICES ASSUME TypeOK, RqPursued, RqAtRest
                 PROVE  /\ Follows(Current(arq), Current(rq))
                        /\ Current(rq).exists => Current(rq).uid = Current(arq).uid
        BY DEF RestInv, ExactAtRest
    <2>1. ~rqQ /\ rqWorker = Idle /\ Len(arq) = 1 /\ Len(rq) = 1 /\ ~Collectable
        BY DEF RqAtRest, UpToDate
    <2>2. 1 .. Len(arq) - 1 = {} /\ 1 .. Len(rq) - 1 = {}
        BY <2>1
    <2>3. ~ArqNews /\ ~RqNews
        BY <2>2 DEF ArqNews, RqNews
    <2>4. Cached(arq) = Current(arq)
        BY <2>1 DEF Cached, Current
    <2> QED BY <2>1, <2>3, <2>4 DEF RqPursued, Collectable
<1> QED BY <1>1, RestInvariant, PTL

=============================================================================
