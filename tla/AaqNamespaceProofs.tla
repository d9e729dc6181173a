------------------------ MODULE AaqNamespaceProofs --------------------------
(***************************************************************************)
(* Proofs about one namespace, for every set of pods, every usage function *)
(* and every bound: type correctness; that the gate controller and the ARQ *)
(* controller together implement GateAdmission when pod names are not      *)
(* reused; that the quota is never exceeded, when moreover pods are not    *)
(* deleted and the informers see the writes of all kinds in order; and     *)
(* that neither controller forgets a lock, nor the gate controller a pod   *)
(* that fits.                                                              *)
(***************************************************************************)
EXTENDS AaqNamespace, TLAPS

\* A commit appends a version: the cache keeps the first, the server has the new.
LEMMA AppendVersion ==
    ASSUME NEW V, NEW v \in Seq(V), Len(v) >= 1, NEW e \in V
    PROVE  /\ Append(v, e) \in Seq(V)
           /\ Len(Append(v, e)) = Len(v) + 1
           /\ Current(Append(v, e)) = e
           /\ Cached(Append(v, e)) = Cached(v)
           /\ \A i \in 1 .. Len(v) : Append(v, e)[i] = v[i]
    BY DEF Current, Cached

\* A watch event drops the oldest version: the server's is still the last.
LEMMA TailVersion ==
    ASSUME NEW V, NEW v \in Seq(V), Len(v) > 1
    PROVE  /\ Tail(v) \in Seq(V)
           /\ Len(Tail(v)) = Len(v) - 1
           /\ Current(Tail(v)) = Current(v)
           /\ \A i \in 1 .. Len(Tail(v)) : i + 1 \in 1 .. Len(v) /\ Tail(v)[i] = v[i + 1]
    BY DEF Current

\* The cached and the current version of a kind are versions of it, and a
\* restarted informer lists the current one.
LEMMA VersionTypes ==
    ASSUME NEW V, NEW v \in Seq(V), Len(v) >= 1
    PROVE  /\ Current(v) \in V
           /\ Cached(v) \in V
           /\ <<Current(v)>> \in Seq(V)
           /\ Len(<<Current(v)>>) = 1
           /\ Current(<<Current(v)>>) = Current(v)
           /\ \A i \in 1 .. Len(<<Current(v)>>) : <<Current(v)>>[i] = Current(v)
           /\ Len(v) = 1 => Cached(v) = Current(v)
    BY DEF Current, Cached

\* The idle workers are states of the workers.
LEMMA IdleTypes ==
    GateIdle \in GateStates /\ NsIdle \in NsStates /\ KeyIdle \in KeyStates
    BY DEF GateIdle, GateStates, NsIdle, NsStates, KeyIdle, KeyStates

\* The writes to the three kinds keep the types of the versions.
LEMMA WriteTypes ==
    ASSUME TypeOK
    PROVE  /\ \A p \in Pods, s \in PodStates : WritePod(p, s) =>
                 /\ pods' \in Seq([Pods -> PodStates]) /\ Len(pods') >= 1
                 /\ order' \in Seq({"pods", "arq", "aaqjqc"})
           /\ \A u \in Nat : WriteArq(u) =>
                 /\ arq' \in Seq(Nat) /\ Len(arq') >= 1
                 /\ order' \in Seq({"pods", "arq", "aaqjqc"})
           /\ \A q \in SUBSET Pods, l \in BOOLEAN : WriteAaqjqc(q, l) =>
                 /\ aaqjqc' \in Seq(JobQueues) /\ Len(aaqjqc') >= 1
                 /\ order' \in Seq({"pods", "arq", "aaqjqc"})
<1>1. \A k \in {"pods", "arq", "aaqjqc"} :
          Commit(k) => order' \in Seq({"pods", "arq", "aaqjqc"})
    BY ConstantsAssumption DEF TypeOK, Commit
<1>2. ASSUME NEW p \in Pods, NEW s \in PodStates, WritePod(p, s)
      PROVE  /\ pods' \in Seq([Pods -> PodStates]) /\ Len(pods') >= 1
             /\ order' \in Seq({"pods", "arq", "aaqjqc"})
    <2>1. [Current(pods) EXCEPT ![p] = s] \in [Pods -> PodStates]
        BY <1>2, VersionTypes DEF TypeOK
    <2> QED BY <1>1, <1>2, <2>1, AppendVersion DEF TypeOK, WritePod
<1>3. ASSUME NEW u \in Nat, WriteArq(u)
      PROVE  /\ arq' \in Seq(Nat) /\ Len(arq') >= 1
             /\ order' \in Seq({"pods", "arq", "aaqjqc"})
    BY <1>1, <1>3, AppendVersion DEF TypeOK, WriteArq
<1>4. ASSUME NEW q \in SUBSET Pods, NEW l \in BOOLEAN, WriteAaqjqc(q, l)
      PROVE  /\ aaqjqc' \in Seq(JobQueues) /\ Len(aaqjqc') >= 1
             /\ order' \in Seq({"pods", "arq", "aaqjqc"})
    BY <1>1, <1>4, AppendVersion DEF TypeOK, WriteAaqjqc, JobQueues
<1> QED BY <1>2, <1>3, <1>4

-----------------------------------------------------------------------------
LEMMA TypeGate ==
    ASSUME TypeOK, Gate \/ GateError
    PROVE  TypeOK'
<1> USE IdleTypes
<1>1. CASE GetAaqjqc
    <2>1. Cached(aaqjqc) \in JobQueues
        BY VersionTypes DEF TypeOK
    <2>2. gate' \in GateStates
        <3>1. PICK c \in BOOLEAN, T \in SUBSET Pods, again \in BOOLEAN :
                  \/ gate' = [gate EXCEPT !.pc = "quota", !.current = c]
                  \/ gate' = [gate EXCEPT !.pc = "release", !.todo = T, !.again = again]
            BY <1>1, <2>1 DEF GetAaqjqc, JobQueues, UpToDate
        <3> QED BY <3>1 DEF TypeOK, GateStates
    <2>3. nsw' \in NsStates
        <3>1. nsw' = nsw \/ nsw' = [nsw EXCEPT !.current = FALSE]
            BY <1>1 DEF GetAaqjqc
        <3> QED BY <3>1 DEF TypeOK, NsStates
    <2>4. aaqjqc' \in Seq(JobQueues) /\ Len(aaqjqc') >= 1 /\ order' \in Seq({"pods", "arq", "aaqjqc"})
        <3>1. WriteAaqjqc({}, FALSE) \/ UNCHANGED <<aaqjqc, order>>
            BY <1>1 DEF GetAaqjqc
        <3> QED BY <3>1, WriteTypes DEF TypeOK
    <2>5. gateQ' = FALSE /\ UNCHANGED <<pods, arq, nsQ, keyw, arqQ, faults>>
        BY <1>1 DEF GetAaqjqc
    <2> QED BY <2>2, <2>3, <2>4, <2>5 DEF TypeOK
<1>2. CASE GetArtificialRqs
    <2>1. Cached(arq) \in Nat
        BY VersionTypes DEF TypeOK
    <2> QED BY <1>2, <2>1 DEF TypeOK, GetArtificialRqs, GateStates, api
<1>3. CASE AdmitPods
    <2>1. PICK S \in SUBSET Pods :
              gate' = IF S = {} THEN GateIdle
                      ELSE [gate EXCEPT !.pc = "record", !.todo = S, !.used = 0]
        BY <1>3 DEF AdmitPods, CheckRequests
    <2>2. gate' \in GateStates
        BY <2>1 DEF TypeOK, GateStates
    <2> QED BY <1>3, <2>2 DEF TypeOK, AdmitPods, api
<1>4. CASE UpdateAaqjqc
    <2>1. gate.todo \in SUBSET Pods
        BY DEF TypeOK, GateStates
    <2>2. CASE gate.current
        <3>1. /\ WriteAaqjqc(gate.todo, TRUE)
              /\ gate' = [gate EXCEPT !.pc = "release", !.current = FALSE]
              /\ nsw' = [nsw EXCEPT !.current = FALSE]
              /\ UNCHANGED <<pods, arq, gateQ, nsQ, keyw, arqQ, faults>>
            BY <1>4, <2>2 DEF UpdateAaqjqc
        <3>2. gate' \in GateStates /\ nsw' \in NsStates
            BY <3>1 DEF TypeOK, GateStates, NsStates
        <3> QED BY <2>1, <3>1, <3>2, WriteTypes DEF TypeOK
    <2>3. CASE ~gate.current
        BY <1>4, <2>3 DEF TypeOK, UpdateAaqjqc, api
    <2> QED BY <2>2, <2>3
<1>5. ASSUME NEW p \in Pods, ReleasePod(p) PROVE TypeOK'
    <2>1. gate' \in GateStates
        <3>1. gate' = [gate EXCEPT !.todo = gate.todo \ {p}] \/ gate' = GateIdle
            BY <1>5 DEF ReleasePod
        <3> QED BY <3>1 DEF TypeOK, GateStates
    <2>2. /\ pods' \in Seq([Pods -> PodStates]) /\ Len(pods') >= 1
          /\ order' \in Seq({"pods", "arq", "aaqjqc"})
        <3>1. WritePod(p, "free") \/ UNCHANGED <<pods, order>>
            BY <1>5 DEF ReleasePod, api
        <3> QED BY <3>1, WriteTypes DEF TypeOK, PodStates
    <2>3. /\ gateQ' = gateQ \/ gateQ' = TRUE
          /\ UNCHANGED <<arq, aaqjqc, nsw, nsQ, keyw, arqQ, faults>>
        BY <1>5 DEF ReleasePod, api
    <2> QED BY <2>1, <2>2, <2>3 DEF TypeOK
<1>6. CASE GateReturn
    BY <1>6 DEF TypeOK, GateReturn, GateStates, api
<1>7. CASE GateError
    BY <1>7, ConstantsAssumption DEF TypeOK, GateError, api
<1> QED BY <1>1, <1>2, <1>3, <1>4, <1>5, <1>6, <1>7 DEF Gate

\* The ARQ controller's workers, their failures and enqueueAll keep the types.
LEMMA TypeArq ==
    ASSUME TypeOK, NsWorker \/ KeyWorker \/ EnqueueAll \/ NsError \/ KeyError
    PROVE  TypeOK'
<1> USE IdleTypes
<1>0. CalculateUsage \in Nat /\ Cached(arq) \in Nat
    BY VersionTypes, UsageAssumption DEF TypeOK, CalculateUsage, Charged
<1>1. CASE GetLockedQueue
    <2>1. Cached(aaqjqc) \in JobQueues
        BY VersionTypes DEF TypeOK
    <2> QED BY <1>1, <2>1 DEF TypeOK, GetLockedQueue, NsStates, JobQueues, UpToDate, api
<1>2. CASE ListArqs \/ SyncResourceQuota
    <2>1. CASE ListArqs
        BY <1>0, <2>1 DEF TypeOK, ListArqs, NsStates, UpToDate, api
    <2>2. CASE SyncResourceQuota
        BY <1>0, <2>2 DEF TypeOK, SyncResourceQuota, NsStates, api
    <2> QED BY <1>2, <2>1, <2>2
<1>3. CASE UpdateArqStatus
    <2>1. CASE nsw.arqCurrent
        <3>0. nsw' \in NsStates
            <4>1. nsw' = [nsw EXCEPT !.pc = "unlock", !.used = 0, !.arqCurrent = FALSE]
                BY <1>3, <2>1 DEF UpdateArqStatus
            <4> QED BY <4>1 DEF TypeOK, NsStates
        <3>1. keyw' \in KeyStates
            BY <1>3, <2>1 DEF TypeOK, UpdateArqStatus, KeyStates
        <3>2. nsw.used \in Nat /\ WriteArq(nsw.used)
            BY <1>3, <2>1 DEF TypeOK, UpdateArqStatus, NsStates
        <3> QED BY <1>3, <2>1, <3>0, <3>1, <3>2, WriteTypes DEF TypeOK, UpdateArqStatus
    <2>2. CASE ~nsw.arqCurrent
        BY <1>3, <2>2 DEF TypeOK, UpdateArqStatus, api
    <2> QED BY <2>1, <2>2
<1>4. CASE Unlock
    <2>1. gate' \in GateStates
        <3>1. gate' = gate \/ gate' = [gate EXCEPT !.current = FALSE]
            BY <1>4 DEF Unlock
        <3> QED BY <3>1 DEF TypeOK, GateStates
    <2>2. aaqjqc' \in Seq(JobQueues) /\ Len(aaqjqc') >= 1 /\ order' \in Seq({"pods", "arq", "aaqjqc"})
        <3>1. nsw.queue \in SUBSET Pods
            BY DEF TypeOK, NsStates
        <3>2. WriteAaqjqc(nsw.queue, FALSE) \/ UNCHANGED <<aaqjqc, order>>
            BY <1>4 DEF Unlock, api
        <3> QED BY <3>1, <3>2, WriteTypes DEF TypeOK
    <2>3. /\ nsw' = NsIdle /\ (nsQ' = nsQ \/ nsQ' = TRUE)
          /\ UNCHANGED <<pods, arq, gateQ, keyw, arqQ, faults>>
        BY <1>4 DEF Unlock, api
    <2> QED BY <2>1, <2>2, <2>3 DEF TypeOK
<1>5. CASE SyncFromKey \/ SyncKeyQuota
    <2>1. CASE SyncFromKey
        BY <1>0, <2>1 DEF TypeOK, SyncFromKey, KeyStates, UpToDate, api
    <2>2. CASE SyncKeyQuota
        BY <1>0, <2>2 DEF TypeOK, SyncKeyQuota, KeyStates, api
    <2> QED BY <1>5, <2>1, <2>2
<1>6. CASE UpdateArqStatusFromKey
    <2>1. CASE keyw.arqCurrent
        BY <1>6, <2>1, WriteTypes DEF TypeOK, UpdateArqStatusFromKey, NsStates, KeyStates
    <2>2. CASE ~keyw.arqCurrent
        BY <1>6, <2>2 DEF TypeOK, UpdateArqStatusFromKey, api
    <2> QED BY <2>1, <2>2
<1>7. CASE EnqueueAll
    BY <1>7 DEF TypeOK, EnqueueAll, api
<1>8. CASE NsError \/ KeyError
    <2>1. nsw' \in NsStates /\ keyw' \in KeyStates /\ UNCHANGED <<pods, arq, aaqjqc, order>>
        BY <1>8 DEF TypeOK, NsError, KeyError, api
    <2>2. faults' \in Nat
        BY <1>8 DEF TypeOK, NsError, KeyError
    <2>3. nsQ' \in BOOLEAN /\ arqQ' \in BOOLEAN /\ UNCHANGED <<gate, gateQ>>
        BY <1>8 DEF TypeOK, NsError, KeyError
    <2> QED BY <2>1, <2>2, <2>3 DEF TypeOK
<1> QED BY <1>1, <1>2, <1>3, <1>4, <1>5, <1>6, <1>7, <1>8 DEF NsWorker, KeyWorker

\* Informers, users and restarts keep the types.
LEMMA TypeEnvironment ==
    ASSUME TypeOK, Informers \/ Users \/ Restart
    PROVE  TypeOK'
<1> USE IdleTypes
<1>0. ASSUME NEW k, NEW v, Next1(k, v)
      PROVE  order' \in Seq({"pods", "arq", "aaqjqc"})
    <2>1. order # <<>> => Tail(order) \in Seq({"pods", "arq", "aaqjqc"})
        BY DEF TypeOK
    <2> QED BY <1>0, <2>1 DEF TypeOK, Next1
<1>1. CASE PodEvent
    <2>1. pods' \in Seq([Pods -> PodStates]) /\ Len(pods') >= 1
        BY <1>1, TailVersion DEF TypeOK, PodEvent, Next1
    <2>2. gateQ' \in BOOLEAN /\ nsQ' \in BOOLEAN
        BY <1>1, Zenon DEF TypeOK, PodEvent
    <2>3. order' \in Seq({"pods", "arq", "aaqjqc"})
        BY <1>0, <1>1 DEF PodEvent
    <2> QED BY <1>1, <2>1, <2>2, <2>3 DEF TypeOK, PodEvent
<1>2. CASE ArqEvent
    <2>1. arq' \in Seq(Nat) /\ Len(arq') >= 1
        BY <1>2, TailVersion DEF TypeOK, ArqEvent, Next1
    <2>2. order' \in Seq({"pods", "arq", "aaqjqc"})
        BY <1>0, <1>2 DEF ArqEvent
    <2> QED BY <1>2, <2>1, <2>2 DEF TypeOK, ArqEvent
<1>3. CASE AaqjqcEvent
    <2>1. aaqjqc' \in Seq(JobQueues) /\ Len(aaqjqc') >= 1
        BY <1>3, TailVersion DEF TypeOK, AaqjqcEvent, Next1
    <2>2. gateQ' \in BOOLEAN /\ nsQ' \in BOOLEAN
        BY <1>3, Zenon DEF TypeOK, AaqjqcEvent
    <2>3. order' \in Seq({"pods", "arq", "aaqjqc"})
        BY <1>0, <1>3 DEF AaqjqcEvent
    <2> QED BY <1>3, <2>1, <2>2, <2>3 DEF TypeOK, AaqjqcEvent
<1>4. CASE InformerResync
    <2>1. nsQ' \in BOOLEAN
        BY <1>4, Zenon DEF InformerResync
    <2> QED BY <1>4, <2>1 DEF TypeOK, InformerResync, api
<1>5. ASSUME NEW p \in Pods, CreatePod(p) \/ RemoveForeignGate(p) \/ DeletePod(p)
      PROVE  TypeOK'
    <2>1. PICK s \in PodStates : UserWrites(p, s)
        BY <1>5 DEF CreatePod, RemoveForeignGate, DeletePod, PodStates
    <2> QED BY <2>1, WriteTypes DEF TypeOK, UserWrites
<1>6. CASE Restart
    <2>1. nsQ' \in BOOLEAN
        BY <1>6, Zenon DEF Restart
    <2>2. pods' \in Seq([Pods -> PodStates]) /\ Len(pods') >= 1
        BY <1>6, VersionTypes DEF TypeOK, Restart
    <2>3. arq' \in Seq(Nat) /\ Len(arq') >= 1
        BY <1>6, VersionTypes DEF TypeOK, Restart
    <2>4. aaqjqc' \in Seq(JobQueues) /\ Len(aaqjqc') >= 1
        BY <1>6, VersionTypes DEF TypeOK, Restart
    <2> QED BY <1>6, <2>1, <2>2, <2>3, <2>4, ConstantsAssumption DEF TypeOK, Restart
<1> QED BY <1>1, <1>2, <1>3, <1>4, <1>5, <1>6 DEF Informers, Users

\* Every reachable state is well typed: every informer cache and the API server
\* always hold an object of each kind, whatever the controllers' steps, errors
\* and restarts.
THEOREM TypeCorrect == Spec => []TypeOK
<1>1. Init => TypeOK
    <2> SUFFICES ASSUME Init PROVE TypeOK
        OBVIOUS
    <2>1. pods \in Seq([Pods -> PodStates]) /\ Len(pods) >= 1
        BY DEF Init, PodStates
    <2>2. aaqjqc \in Seq(JobQueues) /\ Len(aaqjqc) >= 1
        BY DEF Init, JobQueues, NoJobQueue
    <2>3. arq \in Seq(Nat) /\ Len(arq) >= 1 /\ order \in Seq({"pods", "arq", "aaqjqc"})
        BY DEF Init
    <2> QED BY <2>1, <2>2, <2>3, IdleTypes, ConstantsAssumption DEF Init, TypeOK
<1>2. TypeOK /\ [Next]_vars => TypeOK'
    <2>1. ASSUME TypeOK, UNCHANGED vars PROVE TypeOK'
        BY <2>1 DEF TypeOK, vars
    <2> QED BY <2>1, TypeGate, TypeArq, TypeEnvironment DEF Next, Faults
<1> QED BY <1>1, <1>2, PTL DEF Spec

-----------------------------------------------------------------------------
(* The inductive invariant.  Three facts say what a step does to the API    *)
(* server's view; what each controller's step needs beyond them is below.   *)

\* No pod's life goes back from state f to state g.
Advances(f, g) ==
    \A q \in Pods : /\ WasGated(f[q]) => WasGated(g[q])
                    /\ Released(f[q]) => Released(g[q])

\* A write that moves a pod's life forward keeps every version below the server's.
LEMMA PodWrite ==
    ASSUME TypeOK, PodsMonotone, NEW p \in Pods, NEW s \in PodStates, WritePod(p, s),
           WasGated(Current(pods)[p]) => WasGated(s),
           Released(Current(pods)[p]) => Released(s)
    PROVE  /\ PodsMonotone'
           /\ Current(pods') = [Current(pods) EXCEPT ![p] = s]
           /\ Advances(Current(pods), Current(pods'))
<1> DEFINE e == [Current(pods) EXCEPT ![p] = s]
<1>1. Current(pods) \in [Pods -> PodStates]
    BY VersionTypes DEF TypeOK
<1>2. e \in [Pods -> PodStates]
    BY <1>1
<1>3. pods' = Append(pods, e)
    BY DEF WritePod
<1>4. Advances(Current(pods), e)
    <2>1. \A q \in Pods : e[q] = IF q = p THEN s ELSE Current(pods)[q]
        BY <1>1
    <2> QED BY <2>1 DEF Advances
<1> HIDE DEF e
<1>5. /\ Len(pods') = Len(pods) + 1
      /\ Current(pods') = e
      /\ \A i \in 1 .. Len(pods) : pods'[i] = pods[i]
    BY <1>2, <1>3, AppendVersion DEF TypeOK
<1>6. ASSUME NEW i \in 1 .. Len(pods'), NEW q \in Pods
      PROVE  /\ WasGated(pods'[i][q]) => WasGated(e[q])
             /\ Released(pods'[i][q]) => Released(e[q])
    <2>1. CASE i \in 1 .. Len(pods)
        BY <1>4, <1>5, <2>1 DEF PodsMonotone, Advances
    <2>2. CASE i = Len(pods')
        BY <1>5, <2>2 DEF Current
    <2> QED BY <1>5, <2>1, <2>2 DEF TypeOK
<1> QED BY <1>4, <1>5, <1>6 DEF PodsMonotone, e

\* A pod event that reaches the cache only drops the oldest version.
LEMMA PodTail ==
    ASSUME TypeOK, PodsMonotone, Len(pods) > 1, pods' = Tail(pods)
    PROVE  PodsMonotone' /\ Current(pods') = Current(pods)
<1>1. /\ Current(pods') = Current(pods)
      /\ \A i \in 1 .. Len(pods') : i + 1 \in 1 .. Len(pods) /\ pods'[i] = pods[i + 1]
    BY TailVersion DEF TypeOK
<1> QED BY <1>1 DEF PodsMonotone

\* Steps that leave the server's job queue alone keep its versions handled.
LEMMA QueuesStable ==
    ASSUME QueuesHandled, aaqjqc \in Seq(JobQueues),
           Advances(Current(pods), Current(pods')),
           Current(aaqjqc') = Current(aaqjqc),
           \A i \in 1 .. Len(aaqjqc') : \E j \in 1 .. Len(aaqjqc) : aaqjqc'[i] = aaqjqc[j]
    PROVE  QueuesHandled'
<1> SUFFICES ASSUME NEW i \in 1 .. Len(aaqjqc')
             PROVE  /\ ~aaqjqc'[i].exists => aaqjqc'[i] = NoJobQueue
                    /\ \A p \in aaqjqc'[i].queue :
                         WasGated(Current(pods')[p]) /\ (aaqjqc'[i].locked => Handled(p)')
    BY DEF QueuesHandled
<1>1. PICK j \in 1 .. Len(aaqjqc) : aaqjqc'[i] = aaqjqc[j]
    OBVIOUS
<1>2. aaqjqc'[i].queue \subseteq Pods
    <2>1. aaqjqc[j] \in JobQueues
        OBVIOUS
    <2> QED BY <1>1, <2>1 DEF JobQueues
<1> QED BY <1>1, <1>2 DEF QueuesHandled, Handled, Advances

\* A worker that does not move keeps its discipline while pods advance and the
\* server's job queue stays as it is.
LEMMA WorkersStable ==
    ASSUME TypeOK, Advances(Current(pods), Current(pods')), Current(aaqjqc') = Current(aaqjqc)
    PROVE  /\ GateDiscipline /\ UNCHANGED gate => GateDiscipline'
           /\ NsDiscipline /\ UNCHANGED nsw => NsDiscipline'
<1>1. gate.todo \subseteq Pods /\ nsw.queue \subseteq Pods
    BY DEF TypeOK, GateStates, NsStates
<1>2. ASSUME GateDiscipline, UNCHANGED gate PROVE GateDiscipline'
    BY <1>1, <1>2 DEF GateDiscipline, Handled, Advances
<1>3. ASSUME NsDiscipline, UNCHANGED nsw PROVE NsDiscipline'
    BY <1>1, <1>3 DEF NsDiscipline, Advances
<1> QED BY <1>2, <1>3

\* A step that does not touch the job queue keeps all its versions.
LEMMA Unmoved ==
    ASSUME UNCHANGED aaqjqc, aaqjqc \in Seq(JobQueues)
    PROVE  /\ Current(aaqjqc') = Current(aaqjqc)
           /\ \A i \in 1 .. Len(aaqjqc') : \E j \in 1 .. Len(aaqjqc) : aaqjqc'[i] = aaqjqc[j]
    OBVIOUS

\* A step that does not touch the pods keeps all their versions.
LEMMA PodsUnmoved ==
    ASSUME UNCHANGED pods
    PROVE  /\ PodsMonotone => PodsMonotone'
           /\ Current(pods') = Current(pods)
           /\ Advances(Current(pods), Current(pods'))
    BY DEF PodsMonotone, Advances

\* A write to the job queue that loses no open batch.
LEMMA QueueWrite ==
    ASSUME TypeOK, QueuesHandled, UNCHANGED pods,
           NEW q \in SUBSET Pods, NEW l \in BOOLEAN, WriteAaqjqc(q, l),
           \A p \in q : WasGated(Current(pods)[p]),
           Current(aaqjqc).locked =>
              \A p \in Current(aaqjqc).queue : Released(Current(pods)[p])
    PROVE  /\ Current(aaqjqc') = [exists |-> TRUE, queue |-> q, locked |-> l]
           /\ QueuesHandled'
<1> DEFINE e == [exists |-> TRUE, queue |-> q, locked |-> l]
<1>1. e \in JobQueues /\ aaqjqc' = Append(aaqjqc, e)
    BY DEF JobQueues, WriteAaqjqc
<1>2. e.exists /\ e.queue = q /\ e.locked = l
    OBVIOUS
<1> HIDE DEF e
<1>3. /\ Len(aaqjqc') = Len(aaqjqc) + 1
      /\ Current(aaqjqc') = e
      /\ \A i \in 1 .. Len(aaqjqc) : aaqjqc'[i] = aaqjqc[i]
    BY <1>1, AppendVersion DEF TypeOK
<1>4. Current(pods') = Current(pods)
    OBVIOUS
<1>5. ASSUME NEW i \in 1 .. Len(aaqjqc')
      PROVE  /\ ~aaqjqc'[i].exists => aaqjqc'[i] = NoJobQueue
             /\ \A p \in aaqjqc'[i].queue :
                  WasGated(Current(pods')[p]) /\ (aaqjqc'[i].locked => Handled(p)')
    <2>1. CASE i \in 1 .. Len(aaqjqc)
        BY <1>3, <1>4, <2>1 DEF QueuesHandled, Handled
    <2>2. CASE i = Len(aaqjqc')
        BY <1>2, <1>3, <1>4, <2>2 DEF Current, Handled
    <2> QED BY <1>3, <2>1, <2>2 DEF TypeOK
<1> QED BY <1>3, <1>5 DEF QueuesHandled, e

\* The rest of the invariant.
Parts == PodsMonotone /\ QueuesHandled /\ GateDiscipline /\ NsDiscipline

\* A step that only moves the gate worker and the queues of keys.
LEMMA OnlyGate ==
    ASSUME TypeOK, Parts, UNCHANGED <<pods, aaqjqc, nsw>>
    PROVE  /\ PodsMonotone' /\ QueuesHandled' /\ NsDiscipline'
           /\ Current(pods') = Current(pods) /\ Current(aaqjqc') = Current(aaqjqc)
<1>1. Advances(Current(pods), Current(pods')) /\ PodsMonotone' /\ Current(pods') = Current(pods)
    BY PodsUnmoved DEF Parts
<1> QED BY <1>1, Unmoved, QueuesStable, WorkersStable DEF Parts, TypeOK

\* A gate worker that has returned from execute owes nothing.
LEMMA IdleDiscipline ==
    ASSUME gate' = GateIdle
    PROVE  GateDiscipline'
    BY DEF GateDiscipline, GateIdle

\* Every step of the gate controller's execute, and its failure, keeps the
\* parts of the invariant.
LEMMA InvGate ==
    ASSUME TypeOK, Parts, Gate \/ GateError
    PROVE  Parts'
<1>0. /\ Cached(aaqjqc) \in JobQueues /\ Current(aaqjqc) \in JobQueues
      /\ gate \in GateStates /\ nsw \in NsStates
    BY VersionTypes DEF TypeOK
<1>a. /\ 1 \in 1 .. Len(aaqjqc) /\ Len(aaqjqc) \in 1 .. Len(aaqjqc)
      /\ 1 \in 1 .. Len(pods)
    BY DEF TypeOK
<1>1. CASE GetAaqjqc
    <2>1. CASE ~Cached(aaqjqc).exists
        <3>1. /\ WriteAaqjqc({}, FALSE) /\ UNCHANGED pods /\ ~Current(aaqjqc).exists
              /\ gate' = [gate EXCEPT !.pc = "quota", !.current = TRUE]
              /\ nsw' = [nsw EXCEPT !.current = FALSE]
              /\ gate.pc = "idle"
            BY <1>1, <2>1 DEF GetAaqjqc
        <3>2. ~Current(aaqjqc).locked
            <4>1. Current(aaqjqc) = NoJobQueue
                BY <1>a, <3>1 DEF Parts, QueuesHandled, Current
            <4> QED BY <4>1 DEF NoJobQueue
        <3>3. /\ Current(aaqjqc') = [exists |-> TRUE, queue |-> {}, locked |-> FALSE]
              /\ QueuesHandled'
            <4>1. {} \in SUBSET Pods /\ \A p \in {} : WasGated(Current(pods)[p])
                OBVIOUS
            <4> QED BY <3>1, <3>2, <4>1, QueueWrite, Zenon DEF Parts
        <3>4. PodsMonotone' /\ Current(pods') = Current(pods)
            BY <3>1, PodsUnmoved DEF Parts
        <3>5. GateDiscipline'
            BY <1>0, <3>1, <3>3, <3>4 DEF Parts, GateDiscipline, GateStates
        <3>6. NsDiscipline'
            BY <1>0, <3>1, <3>4 DEF Parts, NsDiscipline, NsStates
        <3> QED BY <3>3, <3>4, <3>5, <3>6 DEF Parts
    <2>2. CASE Cached(aaqjqc).exists /\ Cached(aaqjqc).locked
        <3>1. /\ UNCHANGED <<pods, aaqjqc, nsw>>
              /\ gate' = [gate EXCEPT !.pc = "release", !.todo = Cached(aaqjqc).queue, !.again = TRUE]
              /\ gate.pc = "idle"
            BY <1>1, <2>2 DEF GetAaqjqc
        <3>2. \A p \in Cached(aaqjqc).queue : WasGated(Current(pods)[p]) /\ Handled(p)
            BY <1>a, <2>2 DEF Parts, QueuesHandled, Cached
        <3>3. \A p : Handled(p) => Handled(p)'
            BY <3>1 DEF Handled
        <3>4. GateDiscipline'
            BY <1>0, <3>1, <3>2, <3>3, OnlyGate DEF Parts, GateDiscipline, GateStates
        <3> QED BY <3>1, <3>4, OnlyGate DEF Parts
    <2>3. CASE Cached(aaqjqc).exists /\ ~Cached(aaqjqc).locked
        <3>1. /\ UNCHANGED <<pods, aaqjqc, nsw>>
              /\ gate' = [gate EXCEPT !.pc = "quota", !.current = UpToDate(aaqjqc)]
              /\ gate.pc = "idle"
            BY <1>1, <2>3 DEF GetAaqjqc
        <3>2. UpToDate(aaqjqc) => ~Current(aaqjqc).locked
            BY <2>3 DEF UpToDate, Cached, Current
        <3>3. GateDiscipline'
            BY <1>0, <3>1, <3>2, OnlyGate DEF Parts, GateDiscipline, GateStates
        <3> QED BY <3>1, <3>3, OnlyGate DEF Parts
    <2> QED BY <2>1, <2>2, <2>3
<1>2. CASE GetArtificialRqs
    <2>1. /\ UNCHANGED <<pods, aaqjqc, nsw>>
          /\ gate' = [gate EXCEPT !.pc = "admit", !.used = Cached(arq)]
          /\ gate.pc = "quota"
        BY <1>2 DEF GetArtificialRqs, api
    <2>2. GateDiscipline'
        BY <1>0, <2>1, OnlyGate DEF Parts, GateDiscipline, GateStates
    <2> QED BY <2>1, <2>2, OnlyGate DEF Parts
<1>3. CASE AdmitPods
    <2>1. UNCHANGED <<pods, aaqjqc, nsw>> /\ gate.pc = "admit"
        BY <1>3 DEF AdmitPods, api
    <2>2. PICK S \in SUBSET {p \in Pods : OnlyAAQGate(Cached(pods)[p])} :
              gate' = IF S = {} THEN GateIdle
                      ELSE [gate EXCEPT !.pc = "record", !.todo = S, !.used = 0]
        BY <1>3 DEF AdmitPods, CheckRequests
    <2>3. \A p \in S : WasGated(Current(pods)[p])
        BY <1>a DEF Parts, PodsMonotone, OnlyAAQGate, WasGated, Cached
    <2>4. CASE S = {}
        BY <2>1, <2>2, <2>4, OnlyGate, IdleDiscipline DEF Parts
    <2>5. CASE S # {}
        <3>1. gate' = [gate EXCEPT !.pc = "record", !.todo = S, !.used = 0]
            BY <2>2, <2>5
        <3>2. GateDiscipline'
            BY <1>0, <2>1, <2>3, <2>5, <3>1, OnlyGate DEF Parts, GateDiscipline, GateStates
        <3> QED BY <2>1, <3>2, OnlyGate DEF Parts
    <2> QED BY <2>4, <2>5
<1>4. CASE UpdateAaqjqc
    <2>1. CASE gate.current
        <3>1. /\ WriteAaqjqc(gate.todo, TRUE) /\ UNCHANGED pods
              /\ gate' = [gate EXCEPT !.pc = "release", !.current = FALSE]
              /\ nsw' = [nsw EXCEPT !.current = FALSE]
              /\ gate.pc = "record"
            BY <1>4, <2>1 DEF UpdateAaqjqc
        <3>2. gate.todo \in SUBSET Pods /\ ~Current(aaqjqc).locked
              /\ \A p \in gate.todo : WasGated(Current(pods)[p])
            BY <1>0, <2>1 DEF Parts, GateDiscipline, GateStates
        <3>3. /\ Current(aaqjqc') = [exists |-> TRUE, queue |-> gate.todo, locked |-> TRUE]
              /\ QueuesHandled'
            BY <3>1, <3>2, QueueWrite DEF Parts
        <3>4. PodsMonotone' /\ Current(pods') = Current(pods)
            BY <3>1, PodsUnmoved DEF Parts
        <3>5. gate'.todo = gate.todo /\ ~gate'.current /\ gate'.pc = "release"
            BY <1>0, <3>1 DEF GateStates
        <3>6. GateDiscipline'
            BY <3>2, <3>3, <3>4, <3>5 DEF GateDiscipline, Handled
        <3>7. NsDiscipline'
            BY <1>0, <3>1, <3>4 DEF Parts, NsDiscipline, NsStates
        <3> QED BY <3>3, <3>4, <3>6, <3>7 DEF Parts
    <2>2. CASE ~gate.current
        BY <1>4, <2>2, OnlyGate, IdleDiscipline DEF UpdateAaqjqc, api, Parts
    <2> QED BY <2>1, <2>2
<1>5. ASSUME NEW p \in Pods, ReleasePod(p) PROVE Parts'
    <2>0. gate.pc = "release" /\ p \in gate.todo /\ UNCHANGED <<aaqjqc, nsw>>
        BY <1>5 DEF ReleasePod, api
    <2>1. CASE UNCHANGED pods /\ gate' = GateIdle
        BY <2>0, <2>1, OnlyGate, IdleDiscipline DEF Parts
    <2>2. CASE UNCHANGED pods /\ gate' = [gate EXCEPT !.todo = @ \ {p}]
        <3>1. gate'.todo \subseteq gate.todo /\ gate'.pc = "release" /\ gate'.current = gate.current
            BY <1>0, <2>0, <2>2 DEF GateStates
        <3>2. \A q : Handled(q) => Handled(q)'
            BY <2>0, <2>2 DEF Handled
        <3>3. GateDiscipline'
            BY <2>0, <2>2, <3>1, <3>2, OnlyGate DEF Parts, GateDiscipline
        <3> QED BY <2>0, <2>2, <3>3, OnlyGate DEF Parts
    <2>3. CASE /\ OnlyAAQGate(Cached(pods)[p]) /\ PodUpToDate(p) /\ WritePod(p, "free")
               /\ gate' = [gate EXCEPT !.todo = @ \ {p}]
        <3>1. Current(pods)[p] = "gated"
            <4>1. Len(pods) \in 1 .. Len(pods)
                BY DEF TypeOK
            <4> QED BY <2>3, <4>1 DEF PodUpToDate, OnlyAAQGate, Current
        <3>2. PodsMonotone' /\ Advances(Current(pods), Current(pods'))
            BY <2>3, <3>1, PodWrite DEF Parts, WasGated, Released, PodStates
        <3>3. gate'.todo \subseteq gate.todo /\ gate'.pc = "release" /\ gate'.current = gate.current
            BY <1>0, <2>0, <2>3 DEF GateStates
        <3>4. gate.todo \subseteq Pods /\ \A q \in Pods : Handled(q) => Handled(q)'
            BY <1>0, <2>0, <3>2 DEF Handled, Advances, GateStates
        <3>5. GateDiscipline'
            BY <2>0, <3>2, <3>3, <3>4 DEF Parts, GateDiscipline, Advances
        <3>6. QueuesHandled' /\ NsDiscipline'
            BY <2>0, <3>2, Unmoved, QueuesStable, WorkersStable DEF Parts, TypeOK
        <3> QED BY <3>2, <3>5, <3>6 DEF Parts
    <2> QED BY <1>5, <2>1, <2>2, <2>3 DEF ReleasePod, api
<1>6. CASE GateReturn \/ GateError
    BY <1>6, OnlyGate, IdleDiscipline DEF GateReturn, GateError, api, Parts
<1> QED BY <1>1, <1>2, <1>3, <1>4, <1>5, <1>6 DEF Gate

\* A step of the ARQ controller that only moves its own workers and queues.
LEMMA OnlyArq ==
    ASSUME TypeOK, Parts, UNCHANGED <<pods, aaqjqc, gate>>
    PROVE  /\ PodsMonotone' /\ QueuesHandled' /\ GateDiscipline'
           /\ Current(pods') = Current(pods) /\ Current(aaqjqc') = Current(aaqjqc)
           /\ nsw'.locked = nsw.locked /\ nsw'.queue = nsw.queue /\ nsw'.current = nsw.current
                => NsDiscipline'
<1>1. Advances(Current(pods), Current(pods')) /\ PodsMonotone' /\ Current(pods') = Current(pods)
    BY PodsUnmoved DEF Parts
<1>2. Current(aaqjqc') = Current(aaqjqc)
    OBVIOUS
<1>3. ASSUME nsw'.locked = nsw.locked, nsw'.queue = nsw.queue, nsw'.current = nsw.current
      PROVE  NsDiscipline'
    BY <1>1, <1>2, <1>3 DEF Parts, NsDiscipline
<1> QED BY <1>1, <1>2, <1>3, Unmoved, QueuesStable, WorkersStable DEF Parts, TypeOK

\* An ARQ worker that has returned from execute owes nothing.
LEMMA IdleNsDiscipline ==
    ASSUME nsw' = NsIdle
    PROVE  NsDiscipline'
    BY DEF NsDiscipline, NsIdle

\* A batch that passes the check of its pods is released in the API server: by
\* the API list at once, by the cache because pods do not go back; a pod that
\* was recorded was behind the gate, so one without a gate is released.
LEMMA VerifiedReleased ==
    ASSUME TypeOK, Parts, Cached(aaqjqc).locked,
           VerifyPodsWithOutSchedulingGates(Cached(aaqjqc).queue)
    PROVE  \A p \in Cached(aaqjqc).queue : Released(Current(pods)[p])
<1>1. 1 \in 1 .. Len(aaqjqc) /\ 1 \in 1 .. Len(pods)
    BY DEF TypeOK
<1>2. Cached(aaqjqc).queue \subseteq Pods
    <2>1. Cached(aaqjqc) \in JobQueues
        BY VersionTypes DEF TypeOK
    <2> QED BY <2>1 DEF JobQueues
<1>3. \A p \in Cached(aaqjqc).queue : WasGated(Current(pods)[p])
    BY <1>1 DEF Parts, QueuesHandled, Cached
<1>4. ASSUME NEW p \in Cached(aaqjqc).queue PROVE Released(Current(pods)[p])
    <2>1. CASE ~HasGates(Current(pods)[p])
        BY <1>3, <2>1 DEF WasGated, Released, HasGates
    <2>2. CASE Present(Cached(pods)[p]) /\ ~HasGates(Cached(pods)[p])
        <3>1. Released(Cached(pods)[p])
            BY <2>2 DEF Present, HasGates, Released
        <3> QED BY <1>1, <1>2, <3>1 DEF Parts, PodsMonotone, Cached
    <2> QED BY <2>1, <2>2 DEF VerifyPodsWithOutSchedulingGates
<1> QED BY <1>4

\* Every step of the ARQ controller's two workers, their failures and
\* enqueueAll keep the parts of the invariant.
LEMMA InvArq ==
    ASSUME TypeOK, Parts, NsWorker \/ KeyWorker \/ EnqueueAll \/ NsError \/ KeyError
    PROVE  Parts'
<1>0. Cached(aaqjqc) \in JobQueues /\ gate \in GateStates /\ nsw \in NsStates
    BY VersionTypes DEF TypeOK
<1>1. CASE GetLockedQueue
    <2>1. /\ UNCHANGED <<pods, aaqjqc, gate>>
          /\ Cached(aaqjqc).locked => VerifyPodsWithOutSchedulingGates(Cached(aaqjqc).queue)
          /\ nsw' = [nsw EXCEPT !.pc = "list", !.locked = Cached(aaqjqc).locked,
                                !.queue = Cached(aaqjqc).queue, !.current = UpToDate(aaqjqc)]
        BY <1>1 DEF GetLockedQueue, api
    <2>2. /\ nsw'.locked = Cached(aaqjqc).locked /\ nsw'.queue = Cached(aaqjqc).queue
          /\ nsw'.current => Cached(aaqjqc) = Current(aaqjqc)
        BY <1>0, <2>1 DEF NsStates, UpToDate, Cached, Current
    <2>3. NsDiscipline'
        BY <2>1, <2>2, OnlyArq, VerifiedReleased DEF NsDiscipline
    <2> QED BY <2>1, <2>3, OnlyArq DEF Parts
<1>2. CASE ListArqs \/ SyncResourceQuota
    <2>1. /\ UNCHANGED <<pods, aaqjqc, gate>>
          /\ nsw'.locked = nsw.locked /\ nsw'.queue = nsw.queue /\ nsw'.current = nsw.current
        BY <1>0, <1>2 DEF ListArqs, SyncResourceQuota, NsStates, api
    <2> QED BY <2>1, OnlyArq DEF Parts
<1>3. CASE UpdateArqStatus
    <2>1. CASE nsw.arqCurrent
        <3>1. /\ UNCHANGED <<pods, aaqjqc, gate>>
              /\ nsw'.locked = nsw.locked /\ nsw'.queue = nsw.queue /\ nsw'.current = nsw.current
            BY <1>0, <1>3, <2>1 DEF UpdateArqStatus, NsStates
        <3> QED BY <3>1, OnlyArq DEF Parts
    <2>2. CASE ~nsw.arqCurrent
        BY <1>3, <2>2, OnlyArq, IdleNsDiscipline DEF UpdateArqStatus, api, Parts
    <2> QED BY <2>1, <2>2
<1>4. CASE Unlock
    <2>1. nsw' = NsIdle
        BY <1>4 DEF Unlock
    <2>2. CASE UNCHANGED <<pods, aaqjqc, gate>>
        BY <2>1, <2>2, OnlyArq, IdleNsDiscipline DEF Parts
    <2>3. CASE nsw.locked /\ nsw.current /\ WriteAaqjqc(nsw.queue, FALSE) /\ UNCHANGED pods
               /\ gate' = [gate EXCEPT !.current = FALSE]
        <3>1. /\ nsw.queue \in SUBSET Pods
              /\ Current(aaqjqc).queue = nsw.queue
              /\ \A p \in nsw.queue : Released(Current(pods)[p])
            BY <1>0, <2>3 DEF Parts, NsDiscipline, NsStates
        <3>2. \A p \in nsw.queue : WasGated(Current(pods)[p])
            BY <3>1 DEF Released, WasGated
        <3>3. /\ Current(aaqjqc') = [exists |-> TRUE, queue |-> nsw.queue, locked |-> FALSE]
              /\ QueuesHandled'
            BY <2>3, <3>1, <3>2, QueueWrite DEF Parts
        <3>4. PodsMonotone' /\ Current(pods') = Current(pods)
            BY <2>3, PodsUnmoved DEF Parts
        <3>5. \A p : Handled(p) => Handled(p)'
            BY <3>1, <3>4 DEF Handled
        <3>6. gate'.todo = gate.todo /\ ~gate'.current /\ gate'.pc = gate.pc
            BY <1>0, <2>3 DEF GateStates
        <3>7. GateDiscipline'
            BY <3>4, <3>5, <3>6 DEF Parts, GateDiscipline
        <3> QED BY <2>1, <3>3, <3>4, <3>7, IdleNsDiscipline DEF Parts
    <2> QED BY <1>4, <2>2, <2>3 DEF Unlock, api
<1>5. CASE KeyWorker \/ EnqueueAll \/ KeyError
    <2>1. /\ UNCHANGED <<pods, aaqjqc, gate>>
          /\ nsw'.locked = nsw.locked /\ nsw'.queue = nsw.queue /\ nsw'.current = nsw.current
        BY <1>0, <1>5
        DEF KeyWorker, SyncFromKey, SyncKeyQuota, UpdateArqStatusFromKey, EnqueueAll, KeyError, NsStates, api
    <2> QED BY <2>1, OnlyArq DEF Parts
<1>6. CASE NsError
    BY <1>6, OnlyArq, IdleNsDiscipline DEF NsError, api, Parts
<1> QED BY <1>1, <1>2, <1>3, <1>4, <1>5, <1>6 DEF NsWorker

\* Informers, users who do not use a name twice (at this step: because no deleted
\* pod is there), and restarts keep the parts of the invariant.
LEMMA InvEnvironment ==
    ASSUME \A p \in Pods : NameReuse => Current(pods)[p] # "gone",
           TypeOK, Parts, Informers \/ Users \/ Restart
    PROVE  Parts'
<1>1. ASSUME NEW p \in Pods, CreatePod(p) \/ RemoveForeignGate(p) \/ DeletePod(p)
      PROVE  Parts'
    <2>1. PICK s \in PodStates : /\ UserWrites(p, s)
                                 /\ WasGated(Current(pods)[p]) => WasGated(s)
                                 /\ Released(Current(pods)[p]) => Released(s)
        BY <1>1 DEF CreatePod, RemoveForeignGate, DeletePod, Creatable, PodStates,
                    WasGated, Released, Present
    <2>2. PodsMonotone' /\ Advances(Current(pods), Current(pods'))
        BY <2>1, PodWrite DEF UserWrites, Parts
    <2>3. UNCHANGED <<aaqjqc, gate, nsw>>
        BY <2>1 DEF UserWrites
    <2> QED BY <2>2, <2>3, Unmoved, QueuesStable, WorkersStable DEF Parts, TypeOK
<1>2. CASE PodEvent
    <2>1. PodsMonotone' /\ Current(pods') = Current(pods) /\ UNCHANGED <<aaqjqc, gate, nsw>>
        BY <1>2, PodTail DEF PodEvent, Next1, Parts
    <2>2. Advances(Current(pods), Current(pods'))
        BY <2>1 DEF Advances
    <2> QED BY <2>1, <2>2, Unmoved, QueuesStable, WorkersStable DEF Parts, TypeOK
<1>3. CASE AaqjqcEvent
    <2>1. PodsMonotone' /\ Advances(Current(pods), Current(pods')) /\ UNCHANGED <<gate, nsw>>
        BY <1>3, PodsUnmoved DEF AaqjqcEvent, Parts
    <2>2. /\ Current(aaqjqc') = Current(aaqjqc)
          /\ \A i \in 1 .. Len(aaqjqc') : \E j \in 1 .. Len(aaqjqc) : aaqjqc'[i] = aaqjqc[j]
        BY <1>3, TailVersion DEF AaqjqcEvent, Next1, TypeOK
    <2> QED BY <2>1, <2>2, QueuesStable, WorkersStable DEF Parts, TypeOK
<1>4. CASE ArqEvent \/ InformerResync
    <2>1. UNCHANGED <<pods, aaqjqc, gate, nsw>>
        BY <1>4 DEF ArqEvent, InformerResync, api
    <2> QED BY <2>1, OnlyArq DEF Parts
<1>5. CASE Restart
    <2>1. Current(pods') = Current(pods) /\ \A i \in 1 .. Len(pods') : pods'[i] = Current(pods)
        BY <1>5, VersionTypes DEF Restart, TypeOK
    <2>2. PodsMonotone' /\ Advances(Current(pods), Current(pods'))
        BY <2>1 DEF PodsMonotone, Advances
    <2>3. /\ Current(aaqjqc') = Current(aaqjqc)
          /\ \A i \in 1 .. Len(aaqjqc') : aaqjqc'[i] = Current(aaqjqc)
        BY <1>5, VersionTypes DEF Restart, TypeOK
    <2>4. Current(aaqjqc) = aaqjqc[Len(aaqjqc)] /\ Len(aaqjqc) \in 1 .. Len(aaqjqc)
        BY DEF Current, TypeOK
    <2>5. QueuesHandled'
        BY <2>2, <2>3, <2>4, QueuesStable DEF Parts, TypeOK
    <2>6. GateDiscipline' /\ NsDiscipline'
        BY <1>5, IdleDiscipline, IdleNsDiscipline DEF Restart
    <2> QED BY <2>2, <2>5, <2>6 DEF Parts
<1> QED BY <1>1, <1>2, <1>3, <1>4, <1>5 DEF Informers, Users
-----------------------------------------------------------------------------
\* When pod names are not reused, in every reachable state the recorded pods
\* of every locked version of the job queue are released or in the open batch,
\* the gate worker can write only over an unlocked job queue and releases only
\* such pods, and the ARQ worker can unlock only the open batch, all released.
THEOREM AdmissionInvariant ==
    ASSUME ~NameReuse
    PROVE  Spec => []AdmissionInv
<1>1. Init => Parts
    <2> SUFFICES ASSUME Init PROVE Parts
        OBVIOUS
    <2>1. PodsMonotone
        <3>1. \A i \in 1 .. Len(pods) : pods[i] = Current(pods)
            BY DEF Init, Current
        <3> QED BY <3>1 DEF PodsMonotone
    <2>2. QueuesHandled
        <3>1. \A i \in 1 .. Len(aaqjqc) : aaqjqc[i] = NoJobQueue
            BY DEF Init
        <3>2. NoJobQueue.queue = {}
            BY DEF NoJobQueue
        <3> QED BY <3>1, <3>2 DEF QueuesHandled
    <2> QED BY <2>1, <2>2 DEF Init, Parts, GateDiscipline, NsDiscipline, GateIdle, NsIdle
<1>2. TypeOK /\ Parts /\ [Next]_vars => Parts'
    <2>1. ASSUME TypeOK, Parts, UNCHANGED vars PROVE Parts'
        BY <2>1 DEF Parts, PodsMonotone, QueuesHandled, Handled, GateDiscipline, NsDiscipline, vars
    <2> QED BY <2>1, InvGate, InvArq, InvEnvironment DEF Next, Faults
<1>3. TypeOK /\ Parts => AdmissionInv
    BY DEF Parts, AdmissionInv
<1> QED BY <1>1, <1>2, <1>3, TypeCorrect, PTL DEF Spec

\* A step of the namespace is a step of the admission protocol or stutters.
LEMMA StepRefines ==
    ASSUME ~NameReuse, AdmissionInv, [Next]_vars
    PROVE  [Admission!Next]_(Admission!avars)
<1>0. /\ TypeOK /\ Parts
      /\ Current(aaqjqc) \in JobQueues /\ gate \in GateStates /\ nsw \in NsStates
      /\ Current(pods) \in [Pods -> PodStates]
    BY VersionTypes DEF AdmissionInv, Parts, TypeOK
<1>1. ASSUME Current(pods') = Current(pods),
             Current(aaqjqc').queue = Current(aaqjqc).queue,
             Current(aaqjqc').locked = Current(aaqjqc).locked
      PROVE  [Admission!Next]_(Admission!avars)
    BY <1>1 DEF Admission!avars
<1>2. ASSUME UNCHANGED <<pods, aaqjqc>>
      PROVE  /\ Current(pods') = Current(pods)
             /\ Current(aaqjqc').queue = Current(aaqjqc).queue
             /\ Current(aaqjqc').locked = Current(aaqjqc).locked
    BY <1>2
<1>3. CASE GetAaqjqc
    <2>1. CASE WriteAaqjqc({}, FALSE) /\ ~Current(aaqjqc).exists /\ UNCHANGED pods
        <3>1. Len(aaqjqc) \in 1 .. Len(aaqjqc)
            BY <1>0 DEF TypeOK
        <3>2. Current(aaqjqc) = NoJobQueue
            BY <1>0, <2>1, <3>1 DEF Parts, QueuesHandled, Current
        <3>3. [exists |-> TRUE, queue |-> {}, locked |-> FALSE] \in JobQueues
            BY DEF JobQueues
        <3>4. Current(aaqjqc') = [exists |-> TRUE, queue |-> {}, locked |-> FALSE]
            BY <1>0, <2>1, <3>3, AppendVersion DEF WriteAaqjqc, TypeOK
        <3> QED BY <1>1, <2>1, <3>2, <3>4 DEF NoJobQueue
    <2>2. CASE UNCHANGED <<pods, aaqjqc>>
        BY <1>1, <1>2, <2>2
    <2> QED BY <1>3, <2>1, <2>2 DEF GetAaqjqc
<1>4. CASE UpdateAaqjqc
    <2>1. CASE gate.current
        <3>1. WriteAaqjqc(gate.todo, TRUE) /\ UNCHANGED pods /\ gate.pc = "record"
            BY <1>4, <2>1 DEF UpdateAaqjqc
        <3>2. gate.todo \in SUBSET Pods /\ gate.todo # {} /\ ~Current(aaqjqc).locked
              /\ \A p \in gate.todo : WasGated(Current(pods)[p])
            BY <1>0, <2>1, <3>1 DEF Parts, GateDiscipline, GateStates
        <3>3. Current(aaqjqc') = [exists |-> TRUE, queue |-> gate.todo, locked |-> TRUE]
            BY <1>0, <3>1, <3>2, QueueWrite DEF Parts
        <3>4. Admission!Record(gate.todo)
            BY <3>1, <3>2, <3>3 DEF Admission!Record, WasGated
        <3> QED BY <3>2, <3>4 DEF Admission!Next
    <2>2. CASE ~gate.current
        BY <1>1, <1>2, <1>4, <2>2 DEF UpdateAaqjqc, api
    <2> QED BY <2>1, <2>2
<1>5. ASSUME NEW p \in Pods, ReleasePod(p)
      PROVE  [Admission!Next]_(Admission!avars)
    <2>1. CASE /\ OnlyAAQGate(Cached(pods)[p]) /\ PodUpToDate(p) /\ WritePod(p, "free")
               /\ UNCHANGED aaqjqc
        <3>1. Len(pods) \in 1 .. Len(pods)
            BY <1>0 DEF TypeOK
        <3>2. Current(pods)[p] = "gated"
            BY <2>1, <3>1 DEF PodUpToDate, OnlyAAQGate, Current
        <3>3. Current(pods') = [Current(pods) EXCEPT ![p] = "free"]
            BY <1>0, <2>1, <3>2, PodWrite DEF Parts, WasGated, Released, PodStates
        <3>4. Current(aaqjqc).locked /\ p \in Current(aaqjqc).queue
            BY <1>0, <1>5, <3>2 DEF Parts, GateDiscipline, ReleasePod, Handled, Released
        <3>5. Admission!Release(p)
            BY <2>1, <3>2, <3>3, <3>4 DEF Admission!Release
        <3> QED BY <3>5 DEF Admission!Next
    <2>2. CASE UNCHANGED <<pods, aaqjqc>>
        BY <1>1, <1>2, <2>2
    <2> QED BY <1>5, <2>1, <2>2 DEF ReleasePod, api
<1>6. CASE Unlock
    <2>1. CASE nsw.locked /\ nsw.current /\ WriteAaqjqc(nsw.queue, FALSE) /\ UNCHANGED pods
        <3>1. /\ nsw.queue \in SUBSET Pods
              /\ Current(aaqjqc).locked /\ Current(aaqjqc).queue = nsw.queue
              /\ \A p \in nsw.queue : Released(Current(pods)[p])
            BY <1>0, <2>1 DEF Parts, NsDiscipline, NsStates
        <3>2. [exists |-> TRUE, queue |-> nsw.queue, locked |-> FALSE] \in JobQueues
            BY <3>1 DEF JobQueues
        <3>3. Current(aaqjqc') = [exists |-> TRUE, queue |-> nsw.queue, locked |-> FALSE]
            BY <1>0, <2>1, <3>2, AppendVersion DEF WriteAaqjqc, TypeOK
        <3>4. Admission!Close
            BY <2>1, <3>1, <3>3 DEF Admission!Close, Admission!Gated, Released
        <3> QED BY <3>4 DEF Admission!Next
    <2>2. CASE UNCHANGED <<pods, aaqjqc>>
        BY <1>1, <1>2, <2>2
    <2> QED BY <1>6, <2>1, <2>2 DEF Unlock, api
<1>7. ASSUME NEW p \in Pods, CreatePod(p) \/ RemoveForeignGate(p) \/ DeletePod(p)
      PROVE  [Admission!Next]_(Admission!avars)
    <2>0. Current(pods)[p] \in PodStates
        BY <1>0
    <2>1. PICK s \in {"held", "gated", "gone"} :
              /\ UserWrites(p, s)
              /\ <<Current(pods)[p], s>> \in
                   {<<"new", "held">>, <<"new", "gated">>, <<"held", "gated">>,
                    <<"held", "gone">>, <<"gated", "gone">>, <<"free", "gone">>}
        BY <1>7, <2>0
        DEF CreatePod, RemoveForeignGate, DeletePod, Creatable, Present
    <2>2. [Current(pods) EXCEPT ![p] = s] \in [Pods -> PodStates]
        BY <1>0 DEF PodStates
    <2>3. Current(pods') = [Current(pods) EXCEPT ![p] = s] /\ UNCHANGED aaqjqc
        <3> DEFINE e == [Current(pods) EXCEPT ![p] = s]
        <3>1. pods' = Append(pods, e) /\ UNCHANGED aaqjqc /\ e \in [Pods -> PodStates]
            BY <2>1, <2>2 DEF UserWrites, WritePod
        <3> HIDE DEF e
        <3>2. Current(pods') = e
            BY <1>0, <3>1, AppendVersion DEF TypeOK
        <3> QED BY <3>1, <3>2 DEF e
    <2>4. Admission!UserStep(p)
        BY <2>1, <2>3 DEF Admission!UserStep
    <2> QED BY <2>4 DEF Admission!Next
<1>8. CASE \/ GetArtificialRqs \/ AdmitPods \/ GateReturn \/ GateError
           \/ GetLockedQueue \/ ListArqs \/ SyncResourceQuota \/ NsError
           \/ SyncFromKey \/ SyncKeyQuota \/ EnqueueAll \/ KeyError \/ InformerResync \/ UNCHANGED vars
    <2>1. UNCHANGED <<pods, aaqjqc>>
        BY <1>8 DEF GetArtificialRqs, AdmitPods, GateReturn, GateError, GetLockedQueue,
                    ListArqs, SyncResourceQuota, NsError, SyncFromKey, SyncKeyQuota, EnqueueAll, KeyError,
                    InformerResync, api, vars
    <2> QED BY <1>1, <1>2, <2>1
<1>9. CASE UpdateArqStatus \/ UpdateArqStatusFromKey \/ ArqEvent
    <2>1. UNCHANGED <<pods, aaqjqc>>
        BY <1>9 DEF UpdateArqStatus, UpdateArqStatusFromKey, ArqEvent, api
    <2> QED BY <1>1, <1>2, <2>1
<1>10. CASE PodEvent \/ AaqjqcEvent \/ Restart
    <2>1. Current(pods') = Current(pods)
        BY <1>0, <1>10, TailVersion, VersionTypes DEF PodEvent, AaqjqcEvent, Restart, Next1, TypeOK
    <2>2. Current(aaqjqc') = Current(aaqjqc)
        BY <1>0, <1>10, TailVersion, VersionTypes DEF PodEvent, AaqjqcEvent, Restart, Next1, TypeOK
    <2> QED BY <1>1, <2>1, <2>2
<1> QED
    BY <1>3, <1>4, <1>5, <1>6, <1>7, <1>8, <1>9, <1>10
    DEF Next, Gate, NsWorker, KeyWorker, Informers, Users, Faults

\* When pod names are not reused, the gate controller and the ARQ controller
\* together release pods in recorded batches, one at a time, and close a batch
\* only when its pods are ungated or deleted: with any number of pods, any
\* staleness of each informer's cache, any errors and any restarts.
THEOREM AdmissionRefined ==
    ASSUME ~NameReuse
    PROVE  Spec => ImplementsAdmission
<1>1. Init => Admission!Init
    BY DEF Init, Admission!Init, Current, NoJobQueue
<1>2. AdmissionInv /\ [Next]_vars => [Admission!Next]_(Admission!avars)
    BY StepRefines
<1> QED BY <1>1, <1>2, AdmissionInvariant, PTL DEF Spec, ImplementsAdmission, Admission!Spec

-----------------------------------------------------------------------------
(***************************************************************************)
(* The quota is never exceeded, when pods are not deleted and the          *)
(* informers see the writes of all kinds in commit order.                  *)
(***************************************************************************)

(* Where the undelivered events of one kind are in the order of all kinds.  *)

\* A commit of the kind takes the last place.
LEMMA PlacesAppend ==
    ASSUME NEW K, NEW e \in Seq(K), NEW k \in K, NEW n \in Nat \ {0}, NEW f \in Places(k, n, e)
    PROVE  [i \in 2 .. n + 1 |-> IF i = n + 1 THEN Len(e) + 1 ELSE f[i]]
              \in Places(k, n + 1, Append(e, k))
<1> DEFINE h == [i \in 2 .. n + 1 |-> IF i = n + 1 THEN Len(e) + 1 ELSE f[i]]
<1>1. /\ f \in [2 .. n -> 1 .. Len(e)]
      /\ \A i, j \in 2 .. n : i < j => f[i] < f[j]
      /\ \A m \in 1 .. Len(e) : e[m] = k <=> \E i \in 2 .. n : f[i] = m
    BY DEF Places
<1>2. /\ Len(Append(e, k)) = Len(e) + 1 /\ Len(e) \in Nat
      /\ \A m \in 1 .. Len(e) : Append(e, k)[m] = e[m]
      /\ Append(e, k)[Len(e) + 1] = k
    OBVIOUS
<1>3. /\ n + 1 \in 2 .. n + 1 /\ \A i \in 2 .. n : i \in 2 .. n + 1 /\ i # n + 1
      /\ \A i \in 2 .. n + 1 : i = n + 1 \/ i \in 2 .. n
    OBVIOUS
<1>4. /\ h[n + 1] = Len(e) + 1
      /\ \A i \in 2 .. n : h[i] = f[i] /\ f[i] \in 1 .. Len(e)
    BY <1>1, <1>3
<1>5. DOMAIN h = 2 .. n + 1 /\ h = [i \in DOMAIN h |-> h[i]]
    OBVIOUS
<1> HIDE DEF h
<1>6. ASSUME NEW i \in 2 .. n + 1, NEW j \in 2 .. n + 1, i < j PROVE h[i] < h[j]
    <2>1. i \in 2 .. n
        BY <1>6
    <2>2. CASE j = n + 1
        BY <1>2, <1>4, <2>1, <2>2
    <2>3. CASE j \in 2 .. n
        BY <1>1, <1>4, <1>6, <2>1, <2>3
    <2> QED BY <1>3, <2>2, <2>3
<1>7. h \in [2 .. n + 1 -> 1 .. Len(e) + 1]
    <2>1. \A i \in 2 .. n + 1 : h[i] \in 1 .. Len(e) + 1
        BY <1>2, <1>3, <1>4
    <2> QED BY <1>5, <2>1
<1>8. ASSUME NEW m \in 1 .. Len(e) + 1
      PROVE  Append(e, k)[m] = k <=> \E i \in 2 .. n + 1 : h[i] = m
    <2>1. CASE m = Len(e) + 1
        BY <1>2, <1>3, <1>4, <2>1
    <2>2. CASE m \in 1 .. Len(e)
        <3>1. Append(e, k)[m] = k <=> \E i \in 2 .. n : f[i] = m
            BY <1>1, <1>2, <2>2
        <3>2. (\E i \in 2 .. n : f[i] = m) <=> \E i \in 2 .. n + 1 : h[i] = m
            BY <1>2, <1>3, <1>4, <2>2
        <3> QED BY <3>1, <3>2
    <2> QED BY <1>2, <2>1, <2>2
<1>9. h \in Places(k, n + 1, Append(e, k))
    BY <1>2, <1>6, <1>8, <1>7 DEF Places
<1> QED BY <1>9 DEF h

\* A commit of another kind leaves the places alone.
LEMMA PlacesAppendOther ==
    ASSUME NEW K, NEW e \in Seq(K), NEW k \in K, NEW j \in K, j # k,
           NEW n \in Nat \ {0}, NEW f \in Places(k, n, e)
    PROVE  f \in Places(k, n, Append(e, j))
<1>1. /\ f \in [2 .. n -> 1 .. Len(e)]
      /\ \A i, m \in 2 .. n : i < m => f[i] < f[m]
      /\ \A m \in 1 .. Len(e) : e[m] = k <=> \E i \in 2 .. n : f[i] = m
    BY DEF Places
<1>2. /\ Len(Append(e, j)) = Len(e) + 1 /\ Len(e) \in Nat
      /\ \A m \in 1 .. Len(e) : Append(e, j)[m] = e[m]
      /\ Append(e, j)[Len(e) + 1] = j
    OBVIOUS
<1>3. f \in [2 .. n -> 1 .. Len(e) + 1]
    BY <1>1, <1>2
<1>4. ASSUME NEW m \in 1 .. Len(e) + 1
      PROVE  Append(e, j)[m] = k <=> \E i \in 2 .. n : f[i] = m
    BY <1>1, <1>2
<1> QED BY <1>1, <1>2, <1>3, <1>4 DEF Places

\* The delivery of the oldest event, of the kind: the others move up.
LEMMA PlacesTail ==
    ASSUME NEW K, NEW e \in Seq(K), e # <<>>, NEW k \in K, Head(e) = k,
           NEW n \in Nat, n > 1, NEW f \in Places(k, n, e)
    PROVE  /\ f[2] = 1
           /\ [i \in 2 .. n - 1 |-> f[i + 1] - 1] \in Places(k, n - 1, Tail(e))
<1> DEFINE h == [i \in 2 .. n - 1 |-> f[i + 1] - 1]
<1>1. /\ f \in [2 .. n -> 1 .. Len(e)]
      /\ \A i, j \in 2 .. n : i < j => f[i] < f[j]
      /\ \A m \in 1 .. Len(e) : e[m] = k <=> \E i \in 2 .. n : f[i] = m
    BY DEF Places
<1>2. /\ Len(e) \in Nat \ {0} /\ Len(Tail(e)) = Len(e) - 1 /\ e[1] = k
      /\ \A m \in 1 .. Len(e) - 1 : Tail(e)[m] = e[m + 1]
    OBVIOUS
<1>3. f[2] = 1
    <2>1. PICK i \in 2 .. n : f[i] = 1
        BY <1>1, <1>2
    <2>2. i # 2 => f[2] < f[i] /\ f[2] \in 1 .. Len(e)
        BY <1>1, <2>1
    <2> QED BY <2>1, <2>2
<1>4. \A i \in 2 .. n - 1 : i + 1 \in 2 .. n /\ f[i + 1] > 1 /\ f[i + 1] \in 1 .. Len(e)
    BY <1>1, <1>3
<1>5. h \in [2 .. n - 1 -> 1 .. Len(e) - 1]
    BY <1>2, <1>4
<1>6. \A i, j \in 2 .. n - 1 : i < j => h[i] < h[j]
    BY <1>1, <1>4
<1>7. ASSUME NEW m \in 1 .. Len(e) - 1
      PROVE  Tail(e)[m] = k <=> \E i \in 2 .. n - 1 : h[i] = m
    <2>1. m + 1 \in 1 .. Len(e)
        BY <1>2
    <2>2. Tail(e)[m] = k <=> \E i \in 2 .. n : f[i] = m + 1
        BY <1>1, <1>2, <2>1
    <2>3. ASSUME NEW i \in 2 .. n, f[i] = m + 1 PROVE \E j \in 2 .. n - 1 : h[j] = m
        <3>1. i # 2
            BY <1>2, <1>3, <2>3
        <3>2. i - 1 \in 2 .. n - 1 /\ h[i - 1] = f[(i - 1) + 1] - 1
            BY <3>1
        <3>3. h[i - 1] = m
            BY <1>2, <2>3, <3>2
        <3> QED BY <3>2, <3>3
    <2>4. ASSUME NEW i \in 2 .. n - 1, h[i] = m PROVE \E j \in 2 .. n : f[j] = m + 1
        BY <1>2, <1>4, <2>4
    <2> QED BY <2>2, <2>3, <2>4
<1> HIDE DEF h
<1>8. h \in Places(k, n - 1, Tail(e))
    BY <1>2, <1>5, <1>6, <1>7 DEF Places
<1> QED BY <1>3, <1>8 DEF h

\* The delivery of the oldest event, of another kind: all move up.
LEMMA PlacesTailOther ==
    ASSUME NEW K, NEW e \in Seq(K), e # <<>>, NEW k \in K, Head(e) # k,
           NEW n \in Nat \ {0}, NEW f \in Places(k, n, e)
    PROVE  [i \in 2 .. n |-> f[i] - 1] \in Places(k, n, Tail(e))
<1> DEFINE h == [i \in 2 .. n |-> f[i] - 1]
<1>1. /\ f \in [2 .. n -> 1 .. Len(e)]
      /\ \A i, j \in 2 .. n : i < j => f[i] < f[j]
      /\ \A m \in 1 .. Len(e) : e[m] = k <=> \E i \in 2 .. n : f[i] = m
    BY DEF Places
<1>2. /\ Len(e) \in Nat \ {0} /\ Len(Tail(e)) = Len(e) - 1 /\ e[1] # k
      /\ \A m \in 1 .. Len(e) - 1 : Tail(e)[m] = e[m + 1]
    OBVIOUS
<1>3. \A i \in 2 .. n : f[i] > 1 /\ f[i] \in 1 .. Len(e)
    BY <1>1, <1>2
<1>4. h \in [2 .. n -> 1 .. Len(e) - 1]
    BY <1>2, <1>3
<1>5. \A i, j \in 2 .. n : i < j => h[i] < h[j]
    BY <1>1, <1>3
<1>6. ASSUME NEW m \in 1 .. Len(e) - 1
      PROVE  Tail(e)[m] = k <=> \E i \in 2 .. n : h[i] = m
    <2>1. m + 1 \in 1 .. Len(e)
        BY <1>2
    <2>2. Tail(e)[m] = k <=> \E i \in 2 .. n : f[i] = m + 1
        BY <1>1, <1>2, <2>1
    <2>3. \A i \in 2 .. n : f[i] = m + 1 <=> h[i] = m
        BY <1>2, <1>3
    <2> QED BY <2>2, <2>3
<1> HIDE DEF h
<1>7. h \in Places(k, n, Tail(e))
    BY <1>2, <1>4, <1>5, <1>6 DEF Places
<1> QED BY <1>7 DEF h

\* Usage adds up, so it grows with the pods.
LEMMA UsageMonotone ==
    ASSUME NEW S \in SUBSET Pods, NEW T \in SUBSET Pods, S \subseteq T
    PROVE  Usage[S] \in Nat /\ Usage[T] \in Nat /\ Usage[S] <= Usage[T]
<1>1. T = S \cup (T \ S) /\ S \cap (T \ S) = {} /\ T \ S \in SUBSET Pods
    OBVIOUS
<1>2. Usage[T] = Usage[S] + Usage[T \ S]
    BY <1>1, UsageAssumption
<1> QED BY <1>1, <1>2, UsageAssumption

LEMMA UsageUnion ==
    ASSUME NEW S \in SUBSET Pods, NEW T \in SUBSET Pods
    PROVE  Usage[S \cup T] <= Usage[S] + Usage[T]
<1>1. S \cup T = S \cup (T \ S) /\ S \cap (T \ S) = {} /\ T \ S \in SUBSET Pods
    OBVIOUS
<1>2. Usage[S \cup T] = Usage[S] + Usage[T \ S]
    BY <1>1, UsageAssumption
<1>3. Usage[T \ S] <= Usage[T] /\ Usage[T \ S] \in Nat /\ Usage[T] \in Nat /\ Usage[S] \in Nat
    BY UsageMonotone, UsageAssumption
<1> QED BY <1>2, <1>3

-----------------------------------------------------------------------------
(* The parts of the invariant, and what a step that moves one thing keeps.  *)
QuotaParts == PodsGrow /\ UsageGrows /\ Reserved /\ GateCounts /\ ArqCounts /\ UsageBeforeUnlock

\* What the steps below need of the types.
LEMMA Shapes ==
    ASSUME TypeOK
    PROVE  /\ Current(pods) \in [Pods -> PodStates] /\ Cached(pods) \in [Pods -> PodStates]
           /\ Current(arq) \in Nat /\ Cached(arq) \in Nat
           /\ Current(aaqjqc) \in JobQueues /\ Cached(aaqjqc) \in JobQueues
           /\ Charged(Current(pods)) \in SUBSET Pods /\ Charged(Cached(pods)) \in SUBSET Pods
           /\ OpenBatch \in SUBSET Pods
           /\ UsageNow \in Nat /\ UsageSeen \in Nat
           /\ 1 \in 1 .. Len(pods) /\ Len(pods) \in 1 .. Len(pods)
           /\ 1 \in 1 .. Len(arq) /\ Len(arq) \in 1 .. Len(arq)
           /\ 1 \in 1 .. Len(aaqjqc) /\ Len(aaqjqc) \in 1 .. Len(aaqjqc)
<1>1. /\ Current(pods) \in [Pods -> PodStates] /\ Cached(pods) \in [Pods -> PodStates]
      /\ Current(arq) \in Nat /\ Cached(arq) \in Nat
      /\ Current(aaqjqc) \in JobQueues /\ Cached(aaqjqc) \in JobQueues
    BY VersionTypes DEF TypeOK
<1>2. Charged(Current(pods)) \in SUBSET Pods /\ Charged(Cached(pods)) \in SUBSET Pods
    BY DEF Charged
<1>3. OpenBatch \in SUBSET Pods
    BY <1>1 DEF OpenBatch, JobQueues
<1>4. UsageNow \in Nat /\ UsageSeen \in Nat
    BY <1>2, UsageAssumption DEF UsageNow, UsageSeen
<1> QED BY <1>1, <1>2, <1>3, <1>4 DEF TypeOK

\* What a cache shows of a pod, the API server's pod has been through.
LEMMA CacheBehind ==
    ASSUME TypeOK, PodsGrow
    PROVE  /\ \A p \in Pods :
                /\ Cached(pods)[p] # "gone" /\ Current(pods)[p] # "gone"
                /\ WasGated(Cached(pods)[p]) => WasGated(Current(pods)[p])
                /\ Released(Cached(pods)[p]) => Released(Current(pods)[p])
           /\ Charged(Cached(pods)) \subseteq Charged(Current(pods))
           /\ UsageSeen <= UsageNow
<1>1. \A p \in Pods :
        /\ Cached(pods)[p] # "gone" /\ Current(pods)[p] # "gone"
        /\ WasGated(Cached(pods)[p]) => WasGated(Current(pods)[p])
        /\ Released(Cached(pods)[p]) => Released(Current(pods)[p])
    <2>1. 1 \in 1 .. Len(pods) /\ Len(pods) \in 1 .. Len(pods) /\ 1 <= Len(pods)
        BY DEF TypeOK
    <2> QED BY <2>1 DEF PodsGrow, Cached, Current
<1>2. Charged(Cached(pods)) \subseteq Charged(Current(pods))
    BY <1>1 DEF Charged, Released
<1> QED BY <1>1, <1>2, Shapes, UsageMonotone DEF UsageNow, UsageSeen

\* Steps that write nothing and deliver no event keep what is said of the API
\* objects and the caches alone.
LEMMA ApiStill ==
    ASSUME QuotaParts, UNCHANGED api
    PROVE  /\ PodsGrow' /\ UsageGrows' /\ Reserved' /\ UsageBeforeUnlock'
           /\ UNCHANGED gate => GateCounts'
           /\ UNCHANGED <<nsw, keyw>> => ArqCounts'
<1>1. PodsGrow' /\ UsageGrows' /\ Reserved'
    BY DEF QuotaParts, api, PodsGrow, UsageGrows, Reserved, UsageNow, UsageSeen, OpenBatch
<1>2. UsageBeforeUnlock'
    BY DEF QuotaParts, api, UsageBeforeUnlock, UsageNow
<1>3. UNCHANGED gate => GateCounts'
    BY DEF QuotaParts, api, GateCounts, UsageNow
<1>4. UNCHANGED <<nsw, keyw>> => ArqCounts'
    BY DEF QuotaParts, api, ArqCounts, UsageNow, UsageSeen
<1> QED BY <1>1, <1>2, <1>3, <1>4

\* A step of the pods alone, a user's write or an event, that charges for no
\* other pod and takes nothing from what the cache shows.
LEMMA PodsMove ==
    ASSUME TypeOK, TypeOK', QuotaParts, UNCHANGED <<arq, aaqjqc, gate, nsw, keyw>>,
           Charged(Current(pods')) = Charged(Current(pods)),
           Charged(Cached(pods)) \subseteq Charged(Cached(pods')),
           \A p \in Pods : WasGated(Cached(pods)[p]) => WasGated(Cached(pods')[p])
    PROVE  UsageGrows' /\ Reserved' /\ GateCounts' /\ ArqCounts' /\ UsageNow' = UsageNow
<1>1. UsageNow' = UsageNow
    BY DEF UsageNow
<1>2. UsageSeen <= UsageSeen' /\ UsageSeen \in Nat /\ UsageSeen' \in Nat
    <2>1. Charged(Cached(pods)) \in SUBSET Pods /\ Charged(Cached(pods')) \in SUBSET Pods
        BY DEF Charged
    <2>2. UsageSeen' = Usage[Charged(Cached(pods'))]
        BY DEF UsageSeen
    <2> QED BY <2>1, <2>2, UsageMonotone DEF UsageSeen
<1>3. OpenBatch' = OpenBatch /\ OpenBatch \subseteq Pods
    BY Shapes DEF OpenBatch
<1>4. Current(arq') = Current(arq) /\ Cached(arq') = Cached(arq) /\ Current(arq) \in Nat
    BY Shapes
<1>5. gate.todo \subseteq Pods /\ nsw.used \in Nat /\ keyw.used \in Nat
    BY DEF TypeOK, GateStates, NsStates, KeyStates
<1>6. UsageGrows'
    BY <1>2, <1>4 DEF QuotaParts, UsageGrows
<1>7. Reserved'
    BY <1>1, <1>3, <1>4 DEF QuotaParts, Reserved
<1>8. GateCounts'
    BY <1>1, <1>4, <1>5 DEF QuotaParts, GateCounts
<1>9. ArqCounts'
    BY <1>1, <1>2, <1>4, <1>5 DEF QuotaParts, ArqCounts
<1> QED BY <1>1, <1>6, <1>7, <1>8, <1>9

\* A version of a pod that is further on than all before it.
LEMMA PodsGrowWrite ==
    ASSUME TypeOK, PodsGrow, NEW p \in Pods, NEW s \in PodStates, WritePod(p, s),
           s # "gone",
           WasGated(Current(pods)[p]) => WasGated(s),
           Released(Current(pods)[p]) => Released(s)
    PROVE  /\ PodsGrow'
           /\ Cached(pods') = Cached(pods)
           /\ Current(pods') = [Current(pods) EXCEPT ![p] = s]
<1> DEFINE e == [Current(pods) EXCEPT ![p] = s]
<1>1. \A q \in Pods : e[q] = IF q = p THEN s ELSE Current(pods)[q]
    BY Shapes
<1>2. e \in [Pods -> PodStates] /\ pods' = Append(pods, e)
    BY Shapes DEF WritePod
<1> HIDE DEF e
<1>3. /\ Len(pods') = Len(pods) + 1 /\ Current(pods') = e /\ Cached(pods') = Cached(pods)
      /\ \A i \in 1 .. Len(pods) : pods'[i] = pods[i]
    BY <1>2, AppendVersion DEF TypeOK
<1>4. ASSUME NEW i \in 1 .. Len(pods'), NEW j \in 1 .. Len(pods'), i <= j, NEW q \in Pods
      PROVE  /\ pods'[i][q] # "gone"
             /\ WasGated(pods'[i][q]) => WasGated(pods'[j][q])
             /\ Released(pods'[i][q]) => Released(pods'[j][q])
    <2>1. CASE j \in 1 .. Len(pods)
        <3>1. i \in 1 .. Len(pods)
            BY <1>4, <2>1
        <3> QED BY <1>3, <1>4, <2>1, <3>1 DEF PodsGrow
    <2>2. CASE j = Len(pods') /\ i \in 1 .. Len(pods)
        <3>1. /\ pods[i][q] # "gone"
              /\ WasGated(pods[i][q]) => WasGated(Current(pods)[q])
              /\ Released(pods[i][q]) => Released(Current(pods)[q])
            BY <2>2, Shapes DEF PodsGrow, Current
        <3>2. pods'[j] = e /\ pods'[i] = pods[i]
            BY <1>3, <2>2 DEF Current
        <3> QED BY <1>1, <3>1, <3>2
    <2>3. CASE j = Len(pods') /\ i = Len(pods')
        <3>1. pods'[j] = e /\ pods'[i] = e
            BY <1>3, <2>3 DEF Current
        <3>2. Current(pods)[q] # "gone"
            BY Shapes DEF PodsGrow, Current
        <3> QED BY <1>1, <3>1, <3>2
    <2> QED BY <1>3, <1>4, <2>1, <2>2, <2>3 DEF TypeOK
<1>5. PodsGrow'
    BY <1>4 DEF PodsGrow
<1> QED BY <1>3, <1>5 DEF e

-----------------------------------------------------------------------------
(* What becomes of the place of each event when one is committed or         *)
(* delivered, for a step that changes neither the charge nor the lock.      *)

\* f and g are the places of the ARQ's and the job queue's events, and no cache
\* sees the lock cleared before it sees the usage.
Ordered(f, g) ==
    ~Current(aaqjqc).locked =>
        \A i \in 1 .. Len(arq) : arq[i] < UsageNow =>
            i < Len(arq) /\ Len(aaqjqc) > 1 /\ f[i + 1] < g[Len(aaqjqc)]

LEMMA PlacesRange ==
    ASSUME NEW K, NEW e \in Seq(K), NEW k, NEW n \in Nat, NEW f \in Places(k, n, e), NEW i \in 2 .. n
    PROVE  f[i] \in Nat \ {0} /\ f[i] <= Len(e)
    BY DEF Places

LEMMA OrderedPlaces ==
    /\ UsageBeforeUnlock <=>
          \E f \in Places("arq", Len(arq), order), g \in Places("aaqjqc", Len(aaqjqc), order) :
              Ordered(f, g)
    /\ UsageBeforeUnlock' <=>
          \E f \in Places("arq", Len(arq'), order'), g \in Places("aaqjqc", Len(aaqjqc'), order') :
              Ordered(f, g)'
    BY DEF UsageBeforeUnlock, Ordered

\* A write to a pod: its event is the last.
LEMMA PodCommitted ==
    ASSUME TypeOK, UsageBeforeUnlock, TotalOrder, Commit("pods"), UNCHANGED <<arq, aaqjqc>>,
           UsageNow' = UsageNow \/ Current(aaqjqc).locked
    PROVE  UsageBeforeUnlock'
<1>1. PICK f \in Places("arq", Len(arq), order), g \in Places("aaqjqc", Len(aaqjqc), order) :
          Ordered(f, g)
    BY OrderedPlaces
<1>2. order' = Append(order, "pods") /\ order \in Seq({"pods", "arq", "aaqjqc"})
    BY DEF Commit, TypeOK
<1>3. f \in Places("arq", Len(arq'), order') /\ g \in Places("aaqjqc", Len(aaqjqc'), order')
    <2>1. Len(arq) \in Nat \ {0} /\ Len(aaqjqc) \in Nat \ {0} /\ "arq" # "pods" /\ "aaqjqc" # "pods"
        BY DEF TypeOK
    <2> QED BY <1>2, <2>1, PlacesAppendOther
<1>4. Ordered(f, g)'
    BY <1>1 DEF Ordered
<1> QED BY <1>3, <1>4, OrderedPlaces

\* The delivery of a pod event: all others move up by one place.
LEMMA PodDelivered ==
    ASSUME TypeOK, UsageBeforeUnlock, order # <<>>, Head(order) = "pods", order' = Tail(order),
           UNCHANGED <<arq, aaqjqc>>, UsageNow' = UsageNow
    PROVE  UsageBeforeUnlock'
<1>1. PICK f \in Places("arq", Len(arq), order), g \in Places("aaqjqc", Len(aaqjqc), order) :
          Ordered(f, g)
    BY OrderedPlaces
<1>2. order \in Seq({"pods", "arq", "aaqjqc"}) /\ Len(arq) \in Nat \ {0} /\ Len(aaqjqc) \in Nat \ {0}
    BY DEF TypeOK
<1>3. PICK F \in Places("arq", Len(arq'), order') : F = [i \in 2 .. Len(arq) |-> f[i] - 1]
    BY <1>2, PlacesTailOther
<1>4. PICK G \in Places("aaqjqc", Len(aaqjqc'), order') : G = [i \in 2 .. Len(aaqjqc) |-> g[i] - 1]
    BY <1>2, PlacesTailOther
<1>5. Ordered(F, G)'
    <2> SUFFICES ASSUME ~Current(aaqjqc).locked, NEW i \in 1 .. Len(arq), arq[i] < UsageNow
                 PROVE  i < Len(arq) /\ Len(aaqjqc) > 1 /\ F[i + 1] < G[Len(aaqjqc)]
        BY DEF Ordered
    <2>1. i < Len(arq) /\ Len(aaqjqc) > 1 /\ f[i + 1] < g[Len(aaqjqc)]
        BY <1>1 DEF Ordered
    <2>2. i + 1 \in 2 .. Len(arq) /\ Len(aaqjqc) \in 2 .. Len(aaqjqc)
        BY <1>2, <2>1
    <2>3. f[i + 1] \in Nat /\ g[Len(aaqjqc)] \in Nat
        BY <1>2, <2>2, PlacesRange
    <2> QED BY <1>3, <1>4, <2>1, <2>2, <2>3
<1> QED BY <1>5, OrderedPlaces

\* The delivery of a usage: the others move up, one version fewer is needed.
LEMMA ArqDelivered ==
    ASSUME TypeOK, UsageBeforeUnlock, Len(arq) > 1, arq' = Tail(arq),
           order # <<>>, Head(order) = "arq", order' = Tail(order),
           UNCHANGED aaqjqc, UsageNow' = UsageNow
    PROVE  UsageBeforeUnlock'
<1>1. PICK f \in Places("arq", Len(arq), order), g \in Places("aaqjqc", Len(aaqjqc), order) :
          Ordered(f, g)
    BY OrderedPlaces
<1>2. /\ order \in Seq({"pods", "arq", "aaqjqc"})
      /\ Len(arq) \in Nat \ {0, 1} /\ Len(aaqjqc) \in Nat \ {0} /\ Len(arq') = Len(arq) - 1
      /\ \A i \in 1 .. Len(arq') : i + 1 \in 1 .. Len(arq) /\ arq'[i] = arq[i + 1]
    BY TailVersion DEF TypeOK
<1>3. PICK F \in Places("arq", Len(arq'), order') : F = [i \in 2 .. Len(arq) - 1 |-> f[i + 1] - 1]
    <2>1. [i \in 2 .. Len(arq) - 1 |-> f[i + 1] - 1] \in Places("arq", Len(arq) - 1, Tail(order))
        <3>1. Len(arq) \in Nat /\ Len(arq) > 1 /\ "arq" \in {"pods", "arq", "aaqjqc"}
            BY <1>2
        <3> QED BY <1>2, <3>1, PlacesTail
    <2> QED BY <1>2, <2>1
<1>4. PICK G \in Places("aaqjqc", Len(aaqjqc'), order') : G = [i \in 2 .. Len(aaqjqc) |-> g[i] - 1]
    <2>1. [i \in 2 .. Len(aaqjqc) |-> g[i] - 1] \in Places("aaqjqc", Len(aaqjqc), Tail(order))
        <3>1. Len(aaqjqc) \in Nat \ {0} /\ "aaqjqc" \in {"pods", "arq", "aaqjqc"} /\ Head(order) # "aaqjqc"
            BY <1>2
        <3> QED BY <1>2, <3>1, PlacesTailOther
    <2> QED BY <2>1
<1>5. Ordered(F, G)'
    <2> SUFFICES ASSUME ~Current(aaqjqc).locked, NEW i \in 1 .. Len(arq'), arq'[i] < UsageNow
                 PROVE  i < Len(arq') /\ Len(aaqjqc) > 1 /\ F[i + 1] < G[Len(aaqjqc)]
        BY DEF Ordered
    <2>1. i + 1 < Len(arq) /\ Len(aaqjqc) > 1 /\ f[i + 2] < g[Len(aaqjqc)]
        BY <1>1, <1>2 DEF Ordered
    <2>2. i + 1 \in 2 .. Len(arq) - 1 /\ i + 2 \in 2 .. Len(arq) /\ Len(aaqjqc) \in 2 .. Len(aaqjqc)
        BY <1>2, <2>1
    <2>3. f[i + 2] \in Nat /\ g[Len(aaqjqc)] \in Nat
        BY <1>2, <2>2, PlacesRange
    <2>4. F[i + 1] = f[i + 2] - 1
        BY <1>3, <2>2
    <2> QED BY <1>2, <1>4, <2>1, <2>2, <2>3, <2>4
<1> QED BY <1>5, OrderedPlaces

\* The delivery of a job queue: if it was the last one, all usage it waited for
\* has been delivered before.
LEMMA AaqjqcDelivered ==
    ASSUME TypeOK, UsageBeforeUnlock, Len(aaqjqc) > 1, aaqjqc' = Tail(aaqjqc),
           order # <<>>, Head(order) = "aaqjqc", order' = Tail(order),
           UNCHANGED arq, UsageNow' = UsageNow
    PROVE  UsageBeforeUnlock'
<1>1. PICK f \in Places("arq", Len(arq), order), g \in Places("aaqjqc", Len(aaqjqc), order) :
          Ordered(f, g)
    BY OrderedPlaces
<1>2. /\ order \in Seq({"pods", "arq", "aaqjqc"}) /\ Len(arq) \in Nat \ {0}
      /\ Len(aaqjqc) \in Nat \ {0, 1} /\ Len(aaqjqc') = Len(aaqjqc) - 1
      /\ Current(aaqjqc') = Current(aaqjqc)
    BY TailVersion DEF TypeOK
<1>3. PICK F \in Places("arq", Len(arq'), order') : F = [i \in 2 .. Len(arq) |-> f[i] - 1]
    BY <1>2, PlacesTailOther
<1>4. g[2] = 1
    <2>1. Len(aaqjqc) \in Nat /\ Len(aaqjqc) > 1 /\ "aaqjqc" \in {"pods", "arq", "aaqjqc"}
        BY <1>2
    <2> QED BY <1>2, <2>1, PlacesTail
<1>5. PICK G \in Places("aaqjqc", Len(aaqjqc'), order') :
          G = [i \in 2 .. Len(aaqjqc) - 1 |-> g[i + 1] - 1]
    <2>1. [i \in 2 .. Len(aaqjqc) - 1 |-> g[i + 1] - 1] \in Places("aaqjqc", Len(aaqjqc) - 1, Tail(order))
        <3>1. Len(aaqjqc) \in Nat /\ Len(aaqjqc) > 1 /\ "aaqjqc" \in {"pods", "arq", "aaqjqc"}
            BY <1>2
        <3> QED BY <1>2, <3>1, PlacesTail
    <2> QED BY <1>2, <2>1
<1>6. Ordered(F, G)'
    <2> SUFFICES ASSUME ~Current(aaqjqc).locked, NEW i \in 1 .. Len(arq), arq[i] < UsageNow
                 PROVE  i < Len(arq) /\ Len(aaqjqc') > 1 /\ F[i + 1] < G[Len(aaqjqc')]
        BY <1>2 DEF Ordered
    <2>1. i < Len(arq) /\ f[i + 1] < g[Len(aaqjqc)]
        BY <1>1 DEF Ordered
    <2>2. i + 1 \in 2 .. Len(arq) /\ Len(aaqjqc) \in 2 .. Len(aaqjqc)
        BY <1>2, <2>1
    <2>3. f[i + 1] \in Nat \ {0} /\ g[Len(aaqjqc)] \in Nat
        BY <1>2, <2>2, PlacesRange
    <2>4. Len(aaqjqc) # 2
        <3> SUFFICES ASSUME Len(aaqjqc) = 2 PROVE FALSE
            OBVIOUS
        <3>1. g[Len(aaqjqc)] = 1
            BY <1>4, Zenon
        <3> QED BY <2>1, <2>3, <3>1
    <2>5. Len(aaqjqc') \in 2 .. Len(aaqjqc) - 1 /\ Len(aaqjqc') + 1 = Len(aaqjqc)
        <3>1. \A n \in Nat \ {0, 1} : n # 2 => n - 1 \in 2 .. n - 1 /\ (n - 1) + 1 = n
            OBVIOUS
        <3> QED BY <1>2, <2>4, <3>1, Zenon
    <2>6. G[Len(aaqjqc')] = g[Len(aaqjqc)] - 1
        BY <1>5, <2>5
    <2>7. F[i + 1] = f[i + 1] - 1
        BY <1>3, <2>2
    <2>8. F[i + 1] < G[Len(aaqjqc')]
        BY <2>1, <2>3, <2>6, <2>7
    <2>9. Len(aaqjqc') > 1
        BY <1>2, <2>5
    <2> QED BY <2>1, <2>8, <2>9
<1> QED BY <1>6, OrderedPlaces

\* A write of a usage that is not below the charge: no cache needs its event.
LEMMA ArqCommitted ==
    ASSUME TypeOK, UsageBeforeUnlock, TotalOrder, NEW u \in Nat, WriteArq(u),
           ~Current(aaqjqc).locked => UsageNow <= u /\ UsageNow <= Current(arq),
           UNCHANGED aaqjqc, UsageNow' = UsageNow
    PROVE  UsageBeforeUnlock'
<1>1. PICK f \in Places("arq", Len(arq), order), g \in Places("aaqjqc", Len(aaqjqc), order) :
          Ordered(f, g)
    BY OrderedPlaces
<1>2. /\ order \in Seq({"pods", "arq", "aaqjqc"}) /\ order' = Append(order, "arq")
      /\ Len(arq) \in Nat \ {0} /\ Len(aaqjqc) \in Nat \ {0} /\ Len(arq') = Len(arq) + 1
      /\ Current(arq') = u /\ \A i \in 1 .. Len(arq) : arq'[i] = arq[i]
    BY AppendVersion DEF TypeOK, WriteArq, Commit
<1>3. PICK F \in Places("arq", Len(arq'), order') :
          F = [i \in 2 .. Len(arq) + 1 |-> IF i = Len(arq) + 1 THEN Len(order) + 1 ELSE f[i]]
    BY <1>2, PlacesAppend
<1>4. g \in Places("aaqjqc", Len(aaqjqc'), order')
    <2>1. "aaqjqc" \in {"pods", "arq", "aaqjqc"} /\ "arq" \in {"pods", "arq", "aaqjqc"} /\ "arq" # "aaqjqc"
        OBVIOUS
    <2>2. g \in Places("aaqjqc", Len(aaqjqc), Append(order, "arq"))
        BY <1>2, <2>1, PlacesAppendOther
    <2> QED BY <1>2, <2>2
<1>5. Ordered(F, g)'
    <2> SUFFICES ASSUME ~Current(aaqjqc).locked, NEW i \in 1 .. Len(arq'), arq'[i] < UsageNow
                 PROVE  i < Len(arq') /\ Len(aaqjqc) > 1 /\ F[i + 1] < g[Len(aaqjqc)]
        BY DEF Ordered
    <2>1. i \in 1 .. Len(arq)
        <3>1. i # Len(arq')
            <4> SUFFICES ASSUME i = Len(arq') PROVE FALSE
                OBVIOUS
            <4>1. arq'[i] = u
                BY <1>2 DEF Current
            <4> QED BY <4>1, Shapes
        <3> QED BY <1>2, <3>1
    <2>2. i < Len(arq) /\ Len(aaqjqc) > 1 /\ f[i + 1] < g[Len(aaqjqc)]
        BY <1>1, <1>2, <2>1 DEF Ordered
    <2>3. i + 1 \in 2 .. Len(arq) + 1 /\ i + 1 # Len(arq) + 1
        BY <1>2, <2>1, <2>2
    <2> QED BY <1>2, <1>3, <2>1, <2>2, <2>3
<1> QED BY <1>4, <1>5, OrderedPlaces

\* A write of the job queue: a new lock asks for nothing; one that is cleared,
\* or a new queue, comes after every usage, of which the last is enough.
LEMMA AaqjqcCommitted ==
    ASSUME TypeOK, UsageBeforeUnlock, TotalOrder, NEW q \in SUBSET Pods, NEW l \in BOOLEAN,
           WriteAaqjqc(q, l), ~l => UsageNow <= Current(arq),
           UNCHANGED arq, UsageNow' = UsageNow
    PROVE  UsageBeforeUnlock'
<1>1. PICK f \in Places("arq", Len(arq), order), g \in Places("aaqjqc", Len(aaqjqc), order) :
          Ordered(f, g)
    BY OrderedPlaces
<1>2. /\ order \in Seq({"pods", "arq", "aaqjqc"}) /\ order' = Append(order, "aaqjqc")
      /\ Len(arq) \in Nat \ {0} /\ Len(aaqjqc) \in Nat \ {0} /\ Len(aaqjqc') = Len(aaqjqc) + 1
      /\ Current(aaqjqc').locked = l
    <2>1. [exists |-> TRUE, queue |-> q, locked |-> l] \in JobQueues
        BY DEF JobQueues
    <2> QED BY <2>1, AppendVersion DEF TypeOK, WriteAaqjqc, Commit
<1>3. f \in Places("arq", Len(arq'), order')
    BY <1>2, PlacesAppendOther
<1>4. PICK G \in Places("aaqjqc", Len(aaqjqc'), order') :
          G = [i \in 2 .. Len(aaqjqc) + 1 |-> IF i = Len(aaqjqc) + 1 THEN Len(order) + 1 ELSE g[i]]
    BY <1>2, PlacesAppend
<1>5. Ordered(f, G)'
    <2> SUFFICES ASSUME ~l, NEW i \in 1 .. Len(arq), arq[i] < UsageNow
                 PROVE  i < Len(arq) /\ Len(aaqjqc') > 1 /\ f[i + 1] < G[Len(aaqjqc')]
        BY <1>2 DEF Ordered
    <2>1. i < Len(arq)
        <3>1. i # Len(arq)
            BY Shapes DEF Current
        <3> QED BY <1>2, <3>1
    <2>2. i + 1 \in 2 .. Len(arq)
        BY <1>2, <2>1
    <2>3. f[i + 1] <= Len(order) /\ f[i + 1] \in Nat /\ Len(order) \in Nat
        BY <1>2, <2>2, PlacesRange
    <2>4. G[Len(aaqjqc')] = Len(order) + 1
        BY <1>2, <1>4
    <2> QED BY <1>2, <2>1, <2>3, <2>4
<1> QED BY <1>3, <1>5, OrderedPlaces

\* With every cache at the server's version there is no event to wait for.
LEMMA NothingUnderway ==
    ASSUME Len(arq) = 1, Len(aaqjqc) = 1, order = <<>>,
           ~Current(aaqjqc).locked => UsageNow <= Current(arq),
           UsageNow \in Nat, Current(arq) \in Nat
    PROVE  UsageBeforeUnlock
<1>1. \A k : [i \in 2 .. 1 |-> 0] \in Places(k, 1, <<>>)
    BY DEF Places
<1>2. \A i \in 1 .. Len(arq) : arq[i] = Current(arq)
    BY DEF Current
<1>3. Ordered([i \in 2 .. 1 |-> 0], [i \in 2 .. 1 |-> 0])
    BY <1>2 DEF Ordered
<1> QED BY <1>1, <1>3, OrderedPlaces

-----------------------------------------------------------------------------
(* The steps.                                                               *)

\* A new pod that passes the check of AdmitPods, with all the others of its
\* batch, fits what the counted usage has left.
LEMMA BatchFits ==
    ASSUME TypeOK, UsageNow <= gate.used,
           NEW S \in SUBSET Pods, gate.used + Usage[S] <= Hard
    PROVE  Usage[Charged(Current(pods)) \cup S] <= Hard
<1>1. /\ Charged(Current(pods)) \in SUBSET Pods /\ gate.used \in Nat /\ Hard \in Nat
      /\ Charged(Current(pods)) \cup S \in SUBSET Pods
    BY Shapes, ConstantsAssumption DEF TypeOK, GateStates
<1>2. /\ Usage[Charged(Current(pods)) \cup S] \in Nat /\ Usage[S] \in Nat
      /\ UsageNow \in Nat /\ UsageNow = Usage[Charged(Current(pods))]
    BY <1>1, Shapes, UsageAssumption DEF UsageNow
<1>3. Usage[Charged(Current(pods)) \cup S] <= UsageNow + Usage[S]
    BY <1>1, <1>2, UsageUnion
<1> QED BY <1>1, <1>2, <1>3

\* The gate controller's execute.
LEMMA QuotaGate ==
    ASSUME TotalOrder, TypeOK, TypeOK', Parts, QuotaParts, Gate \/ GateError
    PROVE  QuotaParts'
<1>0. gate \in GateStates /\ nsw \in NsStates /\ keyw \in KeyStates
    BY DEF TypeOK
<1>a. ~Current(aaqjqc).locked /\ Len(aaqjqc) = 1 => UsageNow <= Cached(arq)
    BY Shapes DEF QuotaParts, UsageBeforeUnlock, Cached
<1>1. CASE GetAaqjqc
    <2>1. CASE ~Cached(aaqjqc).exists
        <3>1. /\ WriteAaqjqc({}, FALSE) /\ UNCHANGED <<pods, arq>> /\ ~Current(aaqjqc).exists
              /\ gate' = [gate EXCEPT !.pc = "quota", !.current = TRUE]
              /\ nsw' = [nsw EXCEPT !.current = FALSE]
              /\ keyw' = keyw
            BY <1>1, <2>1 DEF GetAaqjqc
        <3>2. Len(aaqjqc) = 1 /\ ~Current(aaqjqc).locked
            <4>1. Current(aaqjqc) = NoJobQueue
                BY <3>1, Shapes DEF Parts, QueuesHandled, Current
            <4> QED BY <3>1, <4>1 DEF QuotaParts, Reserved, NoJobQueue
        <3>3. Current(aaqjqc') = [exists |-> TRUE, queue |-> {}, locked |-> FALSE]
            <4>1. [exists |-> TRUE, queue |-> {}, locked |-> FALSE] \in JobQueues
                BY DEF JobQueues
            <4> QED BY <3>1, <4>1, AppendVersion DEF WriteAaqjqc, TypeOK
        <3>4. UNCHANGED <<UsageNow, UsageSeen>> /\ OpenBatch = {} /\ OpenBatch' = {}
            BY <3>1, <3>2, <3>3 DEF UsageNow, UsageSeen, OpenBatch
        <3>5. UsageNow <= Current(arq)
            BY <3>2 DEF QuotaParts, Reserved
        <3>6. UsageBeforeUnlock'
            BY <3>1, <3>4, <3>5, AaqjqcCommitted DEF QuotaParts
        <3>7. PodsGrow' /\ UsageGrows'
            BY <3>1, <3>4 DEF QuotaParts, PodsGrow, UsageGrows
        <3>8. Reserved'
            BY <3>1, <3>2, <3>3, <3>4 DEF QuotaParts, Reserved
        <3>9. GateCounts'
            BY <1>0, <1>a, <3>1, <3>2, <3>4 DEF GateCounts, GateStates
        <3>10. ArqCounts'
            BY <1>0, <3>1, <3>4 DEF QuotaParts, ArqCounts, NsStates
        <3> QED BY <3>6, <3>7, <3>8, <3>9, <3>10 DEF QuotaParts
    <2>2. CASE Cached(aaqjqc).exists
        <3>1. /\ UNCHANGED <<pods, arq, aaqjqc, order, nsw, keyw>>
              /\ \/ gate' = [gate EXCEPT !.pc = "release", !.todo = Cached(aaqjqc).queue, !.again = TRUE]
                 \/ /\ gate' = [gate EXCEPT !.pc = "quota", !.current = UpToDate(aaqjqc)]
                    /\ ~Cached(aaqjqc).locked
            BY <1>1, <2>2 DEF GetAaqjqc
        <3>2. \/ gate'.pc = "release"
              \/ gate'.pc = "quota" /\ (gate'.current => Len(aaqjqc) = 1 /\ ~Current(aaqjqc).locked)
            <4>1. Len(aaqjqc) = 1 /\ ~Cached(aaqjqc).locked => ~Current(aaqjqc).locked
                BY DEF Cached, Current
            <4> QED BY <1>0, <3>1, <4>1 DEF GateStates, UpToDate
        <3>3. gate'.current /\ gate'.pc = "quota" => UsageNow <= Cached(arq)
            BY <1>a, <3>2
        <3>4. GateCounts'
            BY <3>1, <3>2, <3>3 DEF GateCounts, UsageNow
        <3> QED BY <3>1, <3>4, ApiStill DEF QuotaParts, api
    <2> QED BY <2>1, <2>2
<1>2. CASE GetArtificialRqs
    <2>1. /\ gate.pc = "quota" /\ gate' = [gate EXCEPT !.pc = "admit", !.used = Cached(arq)]
          /\ UNCHANGED api /\ UNCHANGED <<nsw, keyw>>
        BY <1>2 DEF GetArtificialRqs
    <2>2. gate'.pc = "admit" /\ gate'.current = gate.current /\ gate'.used = Cached(arq)
        BY <1>0, <2>1 DEF GateStates
    <2>3. GateCounts'
        BY <2>1, <2>2 DEF QuotaParts, GateCounts, UsageNow, api
    <2> QED BY <2>1, <2>3, ApiStill DEF QuotaParts
<1>3. CASE AdmitPods
    <2>1. gate.pc = "admit" /\ UNCHANGED api /\ UNCHANGED <<nsw, keyw>>
        BY <1>3 DEF AdmitPods
    <2>2. PICK S \in SUBSET {p \in Pods : OnlyAAQGate(Cached(pods)[p])} :
              /\ S # {} => gate.used + Usage[S] <= Hard
              /\ gate' = IF S = {} THEN GateIdle
                         ELSE [gate EXCEPT !.pc = "record", !.todo = S, !.used = 0]
        BY <1>3 DEF AdmitPods, CheckRequests
    <2>3. CASE S = {}
        BY <2>1, <2>2, <2>3, ApiStill DEF QuotaParts, GateCounts, GateIdle
    <2>4. CASE S # {}
        <3>1. gate'.pc = "record" /\ gate'.todo = S /\ gate'.current = gate.current
            BY <1>0, <2>2, <2>4 DEF GateStates
        <3>2. \A p \in S : WasGated(Cached(pods)[p])
            BY DEF OnlyAAQGate, WasGated
        <3>3. gate.current => Usage[Charged(Current(pods)) \cup S] <= Hard
            BY <2>1, <2>2, <2>4, BatchFits DEF QuotaParts, GateCounts
        <3>4. GateCounts'
            BY <2>1, <3>1, <3>2, <3>3 DEF GateCounts, api
        <3> QED BY <2>1, <3>4, ApiStill DEF QuotaParts
    <2> QED BY <2>3, <2>4
<1>4. CASE UpdateAaqjqc
    <2>1. CASE gate.current
        <3>1. /\ WriteAaqjqc(gate.todo, TRUE) /\ UNCHANGED <<pods, arq>> /\ gate.pc = "record"
              /\ gate' = [gate EXCEPT !.pc = "release", !.current = FALSE]
              /\ nsw' = [nsw EXCEPT !.current = FALSE]
              /\ keyw' = keyw
            BY <1>4, <2>1 DEF UpdateAaqjqc
        <3>2. gate.todo \in SUBSET Pods /\ ~Current(aaqjqc).locked
            BY <1>0, <2>1 DEF Parts, GateDiscipline, GateStates
        <3>3. Current(aaqjqc') = [exists |-> TRUE, queue |-> gate.todo, locked |-> TRUE]
            <4>1. [exists |-> TRUE, queue |-> gate.todo, locked |-> TRUE] \in JobQueues
                BY <3>2 DEF JobQueues
            <4> QED BY <3>1, <4>1, AppendVersion DEF WriteAaqjqc, TypeOK
        <3>4. UNCHANGED <<UsageNow, UsageSeen>> /\ OpenBatch = {} /\ OpenBatch' = gate.todo
            BY <3>1, <3>2, <3>3 DEF UsageNow, UsageSeen, OpenBatch
        <3>5. UsageBeforeUnlock'
            BY <3>1, <3>2, <3>4, AaqjqcCommitted DEF QuotaParts
        <3>6. PodsGrow' /\ UsageGrows'
            BY <3>1, <3>4 DEF QuotaParts, PodsGrow, UsageGrows
        <3>7. Reserved'
            BY <2>1, <3>1, <3>3, <3>4 DEF QuotaParts, Reserved, GateCounts
        <3>8. GateCounts'
            BY <1>0, <3>1 DEF GateCounts, GateStates
        <3>9. ArqCounts'
            BY <1>0, <3>1, <3>4 DEF QuotaParts, ArqCounts, NsStates
        <3> QED BY <3>5, <3>6, <3>7, <3>8, <3>9 DEF QuotaParts
    <2>2. CASE ~gate.current
        BY <1>4, <2>2, ApiStill DEF QuotaParts, UpdateAaqjqc, GateCounts, GateIdle
    <2> QED BY <2>1, <2>2
<1>5. ASSUME NEW p \in Pods, ReleasePod(p) PROVE QuotaParts'
    <2>0. gate.pc = "release" /\ p \in gate.todo /\ UNCHANGED <<nsw, keyw>>
        BY <1>5 DEF ReleasePod
    <2>1. gate' = GateIdle \/ gate' = [gate EXCEPT !.todo = @ \ {p}]
        BY <1>5 DEF ReleasePod
    <2>2. gate'.pc # "quota" /\ gate'.pc # "admit" /\ gate'.pc # "record"
        BY <1>0, <2>0, <2>1 DEF GateStates, GateIdle
    <2>3. GateCounts'
        BY <2>2 DEF GateCounts
    <2>4. CASE UNCHANGED api
        BY <2>0, <2>3, <2>4, ApiStill DEF QuotaParts
    <2>5. CASE /\ OnlyAAQGate(Cached(pods)[p]) /\ PodUpToDate(p) /\ WritePod(p, "free")
               /\ UNCHANGED <<arq, aaqjqc>>
        <3>1. Current(pods)[p] = "gated"
            BY <2>5, Shapes DEF PodUpToDate, OnlyAAQGate, Current
        <3>2. /\ PodsGrow' /\ Cached(pods') = Cached(pods)
              /\ Current(pods') = [Current(pods) EXCEPT ![p] = "free"]
            BY <2>5, <3>1, PodsGrowWrite DEF QuotaParts, WasGated, Released, PodStates
        <3>3. Current(aaqjqc).locked /\ p \in Current(aaqjqc).queue
            BY <2>0, <3>1 DEF Parts, GateDiscipline, Handled, Released
        <3>4. /\ OpenBatch' = OpenBatch /\ p \in OpenBatch /\ UsageSeen' = UsageSeen
              /\ Charged(Current(pods')) = Charged(Current(pods)) \cup {p}
            BY <2>5, <3>2, <3>3, Shapes DEF OpenBatch, UsageSeen, Charged
        <3>5. UsageBeforeUnlock'
            BY <2>5, <3>3, PodCommitted DEF QuotaParts, WritePod
        <3>6. UsageGrows'
            BY <2>5, <3>4 DEF QuotaParts, UsageGrows
        <3>7. Reserved'
            <4>1. Charged(Current(pods')) \cup OpenBatch = Charged(Current(pods)) \cup OpenBatch
                BY <3>4
            <4>2. Charged(Current(pods')) \ OpenBatch = Charged(Current(pods)) \ OpenBatch
                BY <3>4
            <4> QED BY <2>5, <3>2, <3>3, <3>4, <4>1, <4>2 DEF QuotaParts, Reserved
        <3>8. ~(nsw.locked /\ nsw.current)
            BY <3>1, <3>3 DEF Parts, NsDiscipline, Released
        <3>9. ArqCounts'
            BY <2>0, <2>5, <3>4, <3>8 DEF QuotaParts, ArqCounts
        <3> QED BY <2>3, <3>2, <3>5, <3>6, <3>7, <3>9 DEF QuotaParts
    <2> QED BY <1>5, <2>4, <2>5 DEF ReleasePod
<1>6. CASE GateReturn \/ GateError
    BY <1>6, ApiStill DEF QuotaParts, GateReturn, GateError, GateCounts, GateIdle
<1> QED BY <1>1, <1>2, <1>3, <1>4, <1>5, <1>6 DEF Gate

\* A write of the usage the pod cache shows, by a worker whose copy is current.
LEMMA ArqWrite ==
    ASSUME TotalOrder, TypeOK, QuotaParts, NEW u \in Nat, WriteArq(u),
           UNCHANGED <<pods, aaqjqc, gate>>, Current(arq) <= u, u <= UsageSeen
    PROVE  /\ PodsGrow' /\ UsageGrows' /\ Reserved' /\ GateCounts' /\ UsageBeforeUnlock'
           /\ Current(arq') = u
<1>1. /\ Len(arq') = Len(arq) + 1 /\ Current(arq') = u /\ Cached(arq') = Cached(arq)
      /\ \A i \in 1 .. Len(arq) : arq'[i] = arq[i]
    BY AppendVersion DEF TypeOK, WriteArq
<1>2. UNCHANGED <<UsageNow, UsageSeen, OpenBatch>>
    BY DEF UsageNow, UsageSeen, OpenBatch
<1>3. UsageNow \in Nat /\ Current(arq) \in Nat /\ UsageSeen \in Nat
    BY Shapes
<1>4. UsageGrows'
    <2>1. ASSUME NEW i \in 1 .. Len(arq'), NEW j \in 1 .. Len(arq'), i <= j
          PROVE  arq'[i] <= arq'[j]
        <3>1. CASE j \in 1 .. Len(arq)
            <4>1. i \in 1 .. Len(arq)
                BY <2>1, <3>1
            <4> QED BY <1>1, <2>1, <3>1, <4>1 DEF QuotaParts, UsageGrows
        <3>2. CASE j = Len(arq') /\ i \in 1 .. Len(arq)
            <4>1. arq[i] <= Current(arq) /\ arq[i] \in Nat
                <5>1. i \in 1 .. Len(arq) /\ Len(arq) \in 1 .. Len(arq) /\ i <= Len(arq)
                    BY <3>2, Shapes
                <5>2. arq[i] <= arq[Len(arq)]
                    BY <5>1 DEF QuotaParts, UsageGrows
                <5> QED BY <5>1, <5>2 DEF Current, TypeOK
            <4>2. arq'[i] = arq[i] /\ arq'[j] = u
                BY <1>1, <3>2 DEF Current
            <4> QED BY <1>3, <4>1, <4>2
        <3>3. CASE j = Len(arq') /\ i = Len(arq')
            <4>1. arq'[i] = u /\ arq'[j] = u
                BY <1>1, <3>3 DEF Current
            <4> QED BY <4>1
        <3> QED BY <1>1, <2>1, <3>1, <3>2, <3>3 DEF TypeOK
    <2> QED BY <1>1, <1>2, <2>1 DEF UsageGrows
<1>5. PodsGrow'
    BY DEF QuotaParts, PodsGrow
<1>6. ~Current(aaqjqc).locked => UsageNow <= Current(arq) /\ UsageNow <= u
    BY <1>3 DEF QuotaParts, Reserved
<1>7. Reserved'
    BY <1>1, <1>2, <1>6 DEF QuotaParts, Reserved
<1>8. GateCounts'
    BY <1>1, <1>2 DEF QuotaParts, GateCounts
<1>9. UsageBeforeUnlock'
    BY <1>2, <1>6, ArqCommitted DEF QuotaParts
<1> QED BY <1>1, <1>4, <1>5, <1>7, <1>8, <1>9

\* A worker that finds the recorded pods ungated in its cache, and the open batch
\* in its copy, has seen all that is charged.
LEMMA BatchSeen ==
    ASSUME TypeOK, QuotaParts, Cached(aaqjqc).locked, Cached(aaqjqc) = Current(aaqjqc),
           VerifyPodsWithOutSchedulingGates(Cached(aaqjqc).queue)
    PROVE  Charged(Current(pods)) \subseteq Charged(Cached(pods))
<1>1. OpenBatch = Cached(aaqjqc).queue /\ OpenBatch \in SUBSET Pods
    BY Shapes DEF OpenBatch
<1>2. \A p \in OpenBatch : WasGated(Cached(pods)[p]) /\ Cached(pods)[p] # "gone"
    BY <1>1, CacheBehind DEF QuotaParts, Reserved
<1>3. \A p \in OpenBatch : Present(Cached(pods)[p])
    BY <1>2 DEF WasGated, Present
<1>4. \A p \in OpenBatch : ~HasGates(Cached(pods)[p])
    BY <1>1, <1>3 DEF VerifyPodsWithOutSchedulingGates
<1>5. OpenBatch \subseteq Charged(Cached(pods))
    BY <1>1, <1>2, <1>4 DEF WasGated, HasGates, Charged
<1> QED BY <1>5 DEF QuotaParts, Reserved

\* The ARQ controller's two workers, their failures and enqueueAll.
LEMMA QuotaArq ==
    ASSUME TotalOrder, TypeOK, TypeOK', Parts, QuotaParts,
           NsWorker \/ KeyWorker \/ EnqueueAll \/ NsError \/ KeyError
    PROVE  QuotaParts'
<1>0. /\ nsw \in NsStates /\ keyw \in KeyStates /\ gate \in GateStates
      /\ Current(arq) \in Nat /\ UsageNow \in Nat /\ UsageSeen \in Nat
    BY Shapes DEF TypeOK
<1>a. CalculateUsage = UsageSeen /\ Current(arq) <= UsageSeen
    BY DEF CalculateUsage, UsageSeen, QuotaParts, UsageGrows
<1>b. Charged(Current(pods)) \subseteq Charged(Cached(pods)) => UsageNow <= UsageSeen
    BY Shapes, UsageMonotone DEF UsageNow, UsageSeen
<1>c. Cached(arq) <= Current(arq)
    <2>1. 1 \in 1 .. Len(arq) /\ Len(arq) \in 1 .. Len(arq) /\ 1 <= Len(arq)
        BY DEF TypeOK
    <2> QED BY <2>1 DEF QuotaParts, UsageGrows, Cached, Current
<1>d. UNCHANGED api => UNCHANGED <<UsageNow, UsageSeen>>
    BY DEF api, UsageNow, UsageSeen
<1>1. CASE GetLockedQueue
    <2>1. /\ UNCHANGED api /\ UNCHANGED <<gate, keyw>>
          /\ Cached(aaqjqc).locked => VerifyPodsWithOutSchedulingGates(Cached(aaqjqc).queue)
          /\ nsw' = [nsw EXCEPT !.pc = "list", !.locked = Cached(aaqjqc).locked,
                                !.queue = Cached(aaqjqc).queue, !.current = UpToDate(aaqjqc)]
        BY <1>1 DEF GetLockedQueue
    <2>2. /\ nsw'.pc = "list" /\ nsw'.locked = Cached(aaqjqc).locked
          /\ nsw'.current => Cached(aaqjqc) = Current(aaqjqc)
        BY <1>0, <2>1 DEF NsStates, UpToDate, Cached, Current
    <2>3. nsw'.locked /\ nsw'.current => Charged(Current(pods)) \subseteq Charged(Cached(pods))
        BY <2>1, <2>2, BatchSeen
    <2>4. ArqCounts'
        BY <1>d, <2>1, <2>2, <2>3 DEF QuotaParts, ArqCounts, api
    <2> QED BY <2>1, <2>4, ApiStill DEF QuotaParts
<1>2. CASE ListArqs
    <2>1. /\ UNCHANGED api /\ UNCHANGED <<gate, keyw>> /\ nsw.pc = "list"
          /\ nsw' = [nsw EXCEPT !.pc = "sync", !.used = Cached(arq), !.arqCurrent = UpToDate(arq)]
        BY <1>2 DEF ListArqs
    <2>2. /\ nsw'.pc = "sync" /\ nsw'.used = Cached(arq)
          /\ nsw'.locked = nsw.locked /\ nsw'.current = nsw.current
        BY <1>0, <2>1 DEF NsStates
    <2>3. ArqCounts'
        BY <1>c, <1>d, <2>1, <2>2 DEF QuotaParts, ArqCounts, api
    <2> QED BY <2>1, <2>3, ApiStill DEF QuotaParts
<1>3. CASE SyncResourceQuota
    <2>1. /\ UNCHANGED api /\ UNCHANGED <<gate, keyw>> /\ nsw.pc = "sync"
          /\ nsw' = IF CalculateUsage = nsw.used
                    THEN [nsw EXCEPT !.pc = "unlock", !.used = 0, !.arqCurrent = FALSE]
                    ELSE [nsw EXCEPT !.pc = "write", !.used = CalculateUsage]
        BY <1>3 DEF SyncResourceQuota
    <2>2. nsw'.locked = nsw.locked /\ nsw'.current = nsw.current
        BY <1>0, <2>1 DEF NsStates
    <2>3. \/ nsw'.pc = "unlock" /\ UsageSeen = nsw.used
          \/ nsw'.pc = "write" /\ nsw'.used = UsageSeen
        BY <1>0, <1>a, <2>1 DEF NsStates
    <2>4. nsw.used <= Current(arq)
        BY <2>1 DEF QuotaParts, ArqCounts
    <2>5. nsw'.locked /\ nsw'.current =>
              Charged(Current(pods)) \subseteq Charged(Cached(pods)) /\ UsageNow <= UsageSeen
        BY <1>b, <2>1, <2>2 DEF QuotaParts, ArqCounts
    <2>6. CASE nsw'.pc = "unlock" /\ UsageSeen = nsw.used
        <3>1. nsw'.locked /\ nsw'.current => UsageNow <= Current(arq)
            BY <1>0, <2>4, <2>5, <2>6
        <3>2. ArqCounts'
            BY <1>d, <2>1, <2>5, <2>6, <3>1 DEF QuotaParts, ArqCounts, api
        <3> QED BY <2>1, <3>2, ApiStill DEF QuotaParts
    <2>7. CASE nsw'.pc = "write" /\ nsw'.used = UsageSeen
        <3>1. ArqCounts'
            BY <1>0, <1>a, <1>d, <2>1, <2>5, <2>7 DEF QuotaParts, ArqCounts, api
        <3> QED BY <2>1, <3>1, ApiStill DEF QuotaParts
    <2> QED BY <2>3, <2>6, <2>7
<1>4. CASE UpdateArqStatus
    <2>1. CASE nsw.arqCurrent
        <3>1. /\ nsw.pc = "write" /\ WriteArq(nsw.used) /\ UNCHANGED <<pods, aaqjqc, gate>>
              /\ nsw' = [nsw EXCEPT !.pc = "unlock", !.used = 0, !.arqCurrent = FALSE]
              /\ keyw' = [keyw EXCEPT !.arqCurrent = FALSE]
            BY <1>4, <2>1 DEF UpdateArqStatus
        <3>2. nsw.used \in Nat /\ Current(arq) <= nsw.used /\ nsw.used <= UsageSeen
            BY <1>0, <2>1, <3>1 DEF QuotaParts, ArqCounts, NsStates
        <3>3. /\ PodsGrow' /\ UsageGrows' /\ Reserved' /\ GateCounts' /\ UsageBeforeUnlock'
              /\ Current(arq') = nsw.used
            BY <3>1, <3>2, ArqWrite
        <3>4. /\ nsw'.pc = "unlock" /\ ~nsw'.arqCurrent /\ ~keyw'.arqCurrent
              /\ nsw'.locked = nsw.locked /\ nsw'.current = nsw.current
            BY <1>0, <3>1 DEF NsStates, KeyStates
        <3>5. UsageNow' = UsageNow
            BY <3>1 DEF UsageNow
        <3>6. ArqCounts'
            BY <3>1, <3>3, <3>4, <3>5 DEF QuotaParts, ArqCounts
        <3> QED BY <3>3, <3>6 DEF QuotaParts
    <2>2. CASE ~nsw.arqCurrent
        <3>1. UNCHANGED api /\ UNCHANGED <<gate, keyw>> /\ nsw' = NsIdle
            BY <1>4, <2>2 DEF UpdateArqStatus
        <3>2. ArqCounts'
            BY <1>d, <3>1 DEF QuotaParts, ArqCounts, NsIdle, api
        <3> QED BY <3>1, <3>2, ApiStill DEF QuotaParts
    <2> QED BY <2>1, <2>2
<1>5. CASE Unlock
    <2>1. nsw' = NsIdle /\ keyw' = keyw /\ nsw.pc = "unlock"
        BY <1>5 DEF Unlock
    <2>2. CASE UNCHANGED api /\ UNCHANGED gate
        <3>1. ArqCounts'
            BY <1>d, <2>1, <2>2 DEF QuotaParts, ArqCounts, NsIdle, api
        <3> QED BY <2>1, <2>2, <3>1, ApiStill DEF QuotaParts
    <2>3. CASE nsw.locked /\ nsw.current /\ WriteAaqjqc(nsw.queue, FALSE) /\ UNCHANGED <<pods, arq>>
               /\ gate' = [gate EXCEPT !.current = FALSE]
        <3>1. nsw.queue \in SUBSET Pods
            BY <1>0 DEF NsStates
        <3>2. Current(aaqjqc') = [exists |-> TRUE, queue |-> nsw.queue, locked |-> FALSE]
            <4>1. [exists |-> TRUE, queue |-> nsw.queue, locked |-> FALSE] \in JobQueues
                BY <3>1 DEF JobQueues
            <4> QED BY <2>3, <4>1, AppendVersion DEF WriteAaqjqc, TypeOK
        <3>3. UNCHANGED <<UsageNow, UsageSeen>> /\ OpenBatch' = {}
            BY <2>3, <3>2 DEF UsageNow, UsageSeen, OpenBatch
        <3>4. /\ Charged(Current(pods)) \subseteq Charged(Cached(pods))
              /\ UsageNow <= Current(arq)
            BY <2>1, <2>3 DEF QuotaParts, ArqCounts
        <3>5. UsageBeforeUnlock'
            BY <2>3, <3>1, <3>3, <3>4, AaqjqcCommitted DEF QuotaParts
        <3>6. PodsGrow' /\ UsageGrows'
            BY <2>3, <3>3 DEF QuotaParts, PodsGrow, UsageGrows
        <3>7. Usage[Charged(Current(pods)) \cup {}] <= Hard
            <4>1. /\ Charged(Current(pods)) \cup {} \in SUBSET Pods
                  /\ Charged(Current(pods)) \cup OpenBatch \in SUBSET Pods
                BY Shapes
            <4>2. Usage[Charged(Current(pods)) \cup {}] <= Usage[Charged(Current(pods)) \cup OpenBatch]
                  /\ Usage[Charged(Current(pods)) \cup {}] \in Nat
                  /\ Usage[Charged(Current(pods)) \cup OpenBatch] \in Nat
                BY <4>1, UsageMonotone
            <4> QED BY <4>2, ConstantsAssumption DEF QuotaParts, Reserved
        <3>8. Reserved'
            BY <2>3, <3>2, <3>3, <3>4, <3>7 DEF Reserved
        <3>9. GateCounts'
            BY <1>0, <2>3, <3>3 DEF QuotaParts, GateCounts, GateStates
        <3>10. ArqCounts'
            BY <2>1, <2>3, <3>3 DEF QuotaParts, ArqCounts, NsIdle
        <3> QED BY <3>5, <3>6, <3>8, <3>9, <3>10 DEF QuotaParts
    <2> QED BY <1>5, <2>2, <2>3 DEF Unlock
<1>6. CASE SyncFromKey
    <2>1. /\ UNCHANGED api /\ UNCHANGED <<gate, nsw>> /\ keyw'.pc = "sync"
        BY <1>6 DEF SyncFromKey
    <2>2. ArqCounts'
        BY <1>d, <2>1 DEF QuotaParts, ArqCounts, api
    <2> QED BY <2>1, <2>2, ApiStill DEF QuotaParts
<1>7. CASE SyncKeyQuota
    <2>1. /\ UNCHANGED api /\ UNCHANGED <<gate, nsw>>
          /\ keyw' = IF CalculateUsage = keyw.used THEN KeyIdle
                     ELSE [keyw EXCEPT !.pc = "write", !.used = CalculateUsage]
        BY <1>7 DEF SyncKeyQuota
    <2>2. keyw'.pc # "write" \/ keyw'.used = UsageSeen
        BY <1>0, <1>a, <2>1 DEF KeyStates, KeyIdle
    <2>3. ArqCounts'
        BY <1>0, <1>a, <1>d, <2>1, <2>2 DEF QuotaParts, ArqCounts, api
    <2> QED BY <2>1, <2>3, ApiStill DEF QuotaParts
<1>8. CASE UpdateArqStatusFromKey
    <2>1. CASE keyw.arqCurrent
        <3>1. /\ keyw.pc = "write" /\ WriteArq(keyw.used) /\ UNCHANGED <<pods, aaqjqc, gate>>
              /\ nsw' = [nsw EXCEPT !.arqCurrent = FALSE] /\ keyw' = KeyIdle
            BY <1>8, <2>1 DEF UpdateArqStatusFromKey
        <3>2. keyw.used \in Nat /\ Current(arq) <= keyw.used /\ keyw.used <= UsageSeen
            BY <1>0, <2>1, <3>1 DEF QuotaParts, ArqCounts, KeyStates
        <3>3. /\ PodsGrow' /\ UsageGrows' /\ Reserved' /\ GateCounts' /\ UsageBeforeUnlock'
              /\ Current(arq') = keyw.used
            BY <3>1, <3>2, ArqWrite
        <3>4. /\ ~nsw'.arqCurrent /\ nsw'.pc = nsw.pc /\ nsw'.used = nsw.used /\ nsw.used \in Nat
              /\ nsw'.locked = nsw.locked /\ nsw'.current = nsw.current /\ keyw'.pc # "write"
            BY <1>0, <3>1 DEF NsStates, KeyIdle
        <3>5. UsageNow' = UsageNow
            BY <3>1 DEF UsageNow
        <3>6. nsw.pc = "sync" => nsw.used <= keyw.used
            BY <1>0, <3>2, <3>4 DEF QuotaParts, ArqCounts
        <3>7. UsageNow <= Current(arq) => UsageNow <= keyw.used
            BY <1>0, <3>2
        <3>8. ArqCounts'
            BY <3>1, <3>3, <3>4, <3>5, <3>6, <3>7 DEF QuotaParts, ArqCounts
        <3> QED BY <3>3, <3>8 DEF QuotaParts
    <2>2. CASE ~keyw.arqCurrent
        <3>1. UNCHANGED api /\ UNCHANGED <<gate, nsw>> /\ keyw' = KeyIdle
            BY <1>8, <2>2 DEF UpdateArqStatusFromKey
        <3>2. ArqCounts'
            BY <1>d, <3>1 DEF QuotaParts, ArqCounts, KeyIdle, api
        <3> QED BY <3>1, <3>2, ApiStill DEF QuotaParts
    <2> QED BY <2>1, <2>2
<1>9. CASE EnqueueAll \/ NsError \/ KeyError
    <2>1. /\ UNCHANGED api /\ UNCHANGED gate
          /\ nsw' = nsw \/ nsw' = NsIdle
          /\ keyw' = keyw \/ keyw' = KeyIdle
        BY <1>9 DEF EnqueueAll, NsError, KeyError
    <2>2. ArqCounts'
        BY <1>d, <2>1 DEF QuotaParts, ArqCounts, NsIdle, KeyIdle, api
    <2> QED BY <2>1, <2>2, ApiStill DEF QuotaParts
<1> QED BY <1>1, <1>2, <1>3, <1>4, <1>5, <1>6, <1>7, <1>8, <1>9 DEF NsWorker, KeyWorker

\* Users who delete nothing, informers and restarts.
LEMMA QuotaEnvironment ==
    ASSUME TotalOrder, Deletable = {}, TypeOK, TypeOK', Parts, QuotaParts,
           Informers \/ Users \/ Restart
    PROVE  QuotaParts'
<1>1. ASSUME NEW p \in Pods, CreatePod(p) \/ RemoveForeignGate(p) \/ DeletePod(p)
      PROVE  QuotaParts'
    <2>1. PICK s \in {"held", "gated"} :
              /\ UserWrites(p, s) /\ Current(pods)[p] \in {"new", "held"}
              /\ WasGated(Current(pods)[p]) => WasGated(s)
              /\ Released(Current(pods)[p]) => Released(s)
        BY <1>1, CacheBehind
        DEF QuotaParts, CreatePod, RemoveForeignGate, DeletePod, Creatable, WasGated, Released
    <2>2. WritePod(p, s) /\ UNCHANGED <<arq, aaqjqc, gate, nsw, keyw>> /\ Commit("pods")
        BY <2>1 DEF UserWrites, WritePod
    <2>3. /\ PodsGrow' /\ Cached(pods') = Cached(pods)
          /\ Current(pods') = [Current(pods) EXCEPT ![p] = s]
        BY <2>1, <2>2, PodsGrowWrite DEF QuotaParts, PodStates
    <2>4. Charged(Current(pods')) = Charged(Current(pods))
        BY <2>1, <2>3, Shapes DEF Charged
    <2>5. UsageGrows' /\ Reserved' /\ GateCounts' /\ ArqCounts' /\ UsageNow' = UsageNow
        BY <2>2, <2>3, <2>4, PodsMove
    <2>6. UsageBeforeUnlock'
        BY <2>2, <2>5, PodCommitted DEF QuotaParts
    <2> QED BY <2>3, <2>5, <2>6 DEF QuotaParts
<1>2. CASE PodEvent
    <2>1. /\ Len(pods) > 1 /\ pods' = Tail(pods)
          /\ order # <<>> /\ Head(order) = "pods" /\ order' = Tail(order)
          /\ UNCHANGED <<arq, aaqjqc, gate, nsw, keyw>>
        BY <1>2 DEF PodEvent, Next1
    <2>2. /\ Current(pods') = Current(pods) /\ Len(pods') = Len(pods) - 1 /\ Len(pods) \in Nat
          /\ \A i \in 1 .. Len(pods') : i + 1 \in 1 .. Len(pods) /\ pods'[i] = pods[i + 1]
        BY <2>1, TailVersion DEF TypeOK
    <2>3. PodsGrow'
        <3>1. \A i, j \in 1 .. Len(pods') : i <= j =>
                  i + 1 \in 1 .. Len(pods) /\ j + 1 \in 1 .. Len(pods) /\ i + 1 <= j + 1
            BY <2>2
        <3> QED BY <2>2, <3>1 DEF QuotaParts, PodsGrow
    <2>4. /\ \A p \in Pods : WasGated(Cached(pods)[p]) => WasGated(Cached(pods')[p])
          /\ \A p \in Pods : Released(Cached(pods)[p]) => Released(Cached(pods')[p])
          /\ \A p \in Pods : Cached(pods')[p] # "gone"
        <3>1. Cached(pods') = pods[2]
            BY <2>1, <2>2 DEF Cached
        <3>2. 1 \in 1 .. Len(pods) /\ 2 \in 1 .. Len(pods) /\ 1 <= 2 /\ 2 <= 2
            BY <2>1, <2>2
        <3> QED BY <3>1, <3>2 DEF QuotaParts, PodsGrow, Cached
    <2>5. Charged(Cached(pods)) \subseteq Charged(Cached(pods'))
        BY <2>4 DEF Charged, Released
    <2>6. Charged(Current(pods')) = Charged(Current(pods))
        BY <2>2
    <2>7. UsageGrows' /\ Reserved' /\ GateCounts' /\ ArqCounts' /\ UsageNow' = UsageNow
        BY <2>1, <2>4, <2>5, <2>6, PodsMove
    <2>8. UsageBeforeUnlock'
        BY <2>1, <2>7, PodDelivered DEF QuotaParts
    <2> QED BY <2>3, <2>7, <2>8 DEF QuotaParts
<1>3. CASE ArqEvent
    <2>1. /\ Len(arq) > 1 /\ arq' = Tail(arq)
          /\ order # <<>> /\ Head(order) = "arq" /\ order' = Tail(order)
          /\ UNCHANGED <<pods, aaqjqc, gate, nsw, keyw>>
        BY <1>3 DEF ArqEvent, Next1
    <2>2. /\ Current(arq') = Current(arq) /\ Len(arq') = Len(arq) - 1 /\ Len(arq) \in Nat
          /\ \A i \in 1 .. Len(arq') : i + 1 \in 1 .. Len(arq) /\ arq'[i] = arq[i + 1]
        BY <2>1, TailVersion DEF TypeOK
    <2>3. UNCHANGED <<UsageNow, UsageSeen, OpenBatch>>
        BY <2>1 DEF UsageNow, UsageSeen, OpenBatch
    <2>4. Cached(arq) <= Cached(arq') /\ Cached(arq') \in Nat
        <3>1. Cached(arq') = arq[2]
            BY <2>1, <2>2 DEF Cached
        <3>2. 1 \in 1 .. Len(arq) /\ 2 \in 1 .. Len(arq) /\ 1 <= 2
            BY <2>1, <2>2
        <3> QED BY <3>1, <3>2 DEF QuotaParts, UsageGrows, Cached, TypeOK
    <2>5. UsageGrows'
        <3>1. \A i, j \in 1 .. Len(arq') : i <= j =>
                  i + 1 \in 1 .. Len(arq) /\ j + 1 \in 1 .. Len(arq) /\ i + 1 <= j + 1
            BY <2>2
        <3> QED BY <2>2, <2>3, <3>1 DEF QuotaParts, UsageGrows
    <2>6. PodsGrow' /\ Reserved'
        BY <2>1, <2>2, <2>3 DEF QuotaParts, PodsGrow, Reserved
    <2>7. UsageNow \in Nat /\ Cached(arq) \in Nat /\ (UsageNow <= Cached(arq) => UsageNow <= Cached(arq'))
        BY <2>4, Shapes
    <2>8. GateCounts'
        BY <2>1, <2>3, <2>7 DEF QuotaParts, GateCounts
    <2>9. ArqCounts'
        BY <2>1, <2>2, <2>3 DEF QuotaParts, ArqCounts
    <2>10. UsageBeforeUnlock'
        BY <2>1, <2>3, ArqDelivered DEF QuotaParts
    <2> QED BY <2>5, <2>6, <2>8, <2>9, <2>10 DEF QuotaParts
<1>4. CASE AaqjqcEvent
    <2>1. /\ Len(aaqjqc) > 1 /\ aaqjqc' = Tail(aaqjqc)
          /\ order # <<>> /\ Head(order) = "aaqjqc" /\ order' = Tail(order)
          /\ UNCHANGED <<pods, arq, gate, nsw, keyw>>
        BY <1>4 DEF AaqjqcEvent, Next1
    <2>2. Current(aaqjqc') = Current(aaqjqc)
        BY <2>1, TailVersion DEF TypeOK
    <2>3. UNCHANGED <<UsageNow, UsageSeen, OpenBatch>>
        BY <2>1, <2>2 DEF UsageNow, UsageSeen, OpenBatch
    <2>4. Current(aaqjqc).exists
        <3>1. Len(aaqjqc) # 1
            <4>1. \A n \in Nat : n > 1 => n # 1
                OBVIOUS
            <4>2. Len(aaqjqc) \in Nat
                BY DEF TypeOK
            <4> QED BY <2>1, <4>1, <4>2, Zenon
        <3> QED BY <3>1 DEF QuotaParts, Reserved
    <2>5. Reserved'
        BY <2>1, <2>2, <2>3, <2>4 DEF QuotaParts, Reserved
    <2>6. PodsGrow' /\ UsageGrows' /\ GateCounts' /\ ArqCounts'
        BY <2>1, <2>3 DEF QuotaParts, PodsGrow, UsageGrows, GateCounts, ArqCounts
    <2>7. UsageBeforeUnlock'
        BY <2>1, <2>3, AaqjqcDelivered DEF QuotaParts
    <2> QED BY <2>5, <2>6, <2>7 DEF QuotaParts
<1>5. CASE InformerResync
    BY <1>5, ApiStill DEF QuotaParts, InformerResync
<1>6. CASE Restart
    <2>1. /\ pods' = <<Current(pods)>> /\ arq' = <<Current(arq)>> /\ aaqjqc' = <<Current(aaqjqc)>>
          /\ order' = <<>> /\ gate' = GateIdle /\ nsw' = NsIdle /\ keyw' = KeyIdle
        BY <1>6 DEF Restart
    <2>2. /\ Len(pods') = 1 /\ Current(pods') = Current(pods) /\ Cached(pods') = Current(pods)
          /\ \A i \in 1 .. Len(pods') : pods'[i] = Current(pods)
          /\ Len(arq') = 1 /\ Current(arq') = Current(arq) /\ Cached(arq') = Current(arq)
          /\ \A i \in 1 .. Len(arq') : arq'[i] = Current(arq)
          /\ Len(aaqjqc') = 1 /\ Current(aaqjqc') = Current(aaqjqc)
        <3>1. \A v : Len(<<v>>) = 1 /\ \A i \in 1 .. Len(<<v>>) : <<v>>[i] = v
            OBVIOUS
        <3>2. \A v : Current(<<v>>) = v /\ Cached(<<v>>) = v
            BY <3>1 DEF Current, Cached
        <3> QED BY <2>1, <3>1, <3>2
    <2>3. UsageNow' = UsageNow /\ UsageSeen' = UsageNow /\ OpenBatch' = OpenBatch
        BY <2>2 DEF UsageNow, UsageSeen, OpenBatch
    <2>4. UsageNow \in Nat /\ UsageSeen \in Nat /\ Current(arq) \in Nat /\ UsageSeen <= UsageNow
        BY Shapes, CacheBehind DEF QuotaParts
    <2>5. PodsGrow'
        BY <2>2, CacheBehind DEF QuotaParts, PodsGrow
    <2>6. UsageGrows'
        BY <2>2, <2>3, <2>4 DEF QuotaParts, UsageGrows
    <2>7. \A p \in OpenBatch : WasGated(Current(pods)[p])
        BY Shapes DEF Parts, QueuesHandled, OpenBatch, Current
    <2>8. Reserved'
        BY <2>2, <2>3, <2>7 DEF QuotaParts, Reserved
    <2>9. GateCounts' /\ ArqCounts'
        BY <2>1 DEF GateCounts, ArqCounts, GateIdle, NsIdle, KeyIdle
    <2>10. UsageBeforeUnlock'
        <3>1. ~Current(aaqjqc).locked => UsageNow <= Current(arq)
            BY DEF QuotaParts, Reserved
        <3>2. Ordered([i \in 2 .. 1 |-> 0], [i \in 2 .. 1 |-> 0])'
            BY <2>2, <2>3, <2>4, <3>1 DEF Ordered
        <3>3. \A k : [i \in 2 .. 1 |-> 0] \in Places(k, 1, <<>>)
            BY DEF Places
        <3> QED BY <2>1, <2>2, <3>2, <3>3, OrderedPlaces
    <2> QED BY <2>5, <2>6, <2>8, <2>9, <2>10 DEF QuotaParts
<1> QED BY <1>1, <1>2, <1>3, <1>4, <1>5, <1>6 DEF Informers, Users

-----------------------------------------------------------------------------
\* Where pods are never deleted and the watches keep the order of commits, in
\* every reachable state an open batch is paid for as a whole, what is charged
\* outside of it is in the pod cache, the status never falls behind once the
\* lock is cleared, and no cache sees the lock cleared before the usage: the
\* inductive invariant of the next theorem.
THEOREM QuotaInvariant ==
    ASSUME TotalOrder, Deletable = {}
    PROVE  Spec => []QuotaInv
<1>1. Init => Parts /\ QuotaParts
    <2> SUFFICES ASSUME Init PROVE Parts /\ QuotaParts
        OBVIOUS
    <2>0. /\ Len(pods) = 1 /\ Len(arq) = 1 /\ Len(aaqjqc) = 1
          /\ \A i \in 1 .. Len(pods) : pods[i] = Current(pods)
          /\ \A i \in 1 .. Len(arq) : arq[i] = 0
          /\ \A i \in 1 .. Len(aaqjqc) : aaqjqc[i] = NoJobQueue
          /\ Cached(pods) = Current(pods) /\ Current(pods) = [p \in Pods |-> "new"]
          /\ Current(arq) = 0 /\ Current(aaqjqc) = NoJobQueue
        BY DEF Init, Current, Cached
    <2>1. ~NoJobQueue.locked /\ NoJobQueue.queue = {} /\ ~NoJobQueue.exists
        BY DEF NoJobQueue
    <2>2. Charged(Current(pods)) = {} /\ OpenBatch = {}
        BY <2>0, <2>1 DEF Charged, OpenBatch
    <2>3. UsageNow = 0 /\ UsageSeen = 0 /\ Usage[{}] = 0
        <3>1. {} \in SUBSET Pods /\ {} \cap {} = {} /\ {} \cup {} = {}
            OBVIOUS
        <3>2. Usage[{}] = Usage[{}] + Usage[{}] /\ Usage[{}] \in Nat
            BY <3>1, UsageAssumption
        <3>3. Usage[{}] = 0
            <4>1. \A n \in Nat : n = n + n => n = 0
                OBVIOUS
            <4> QED BY <3>2, <4>1, Zenon
        <3> QED BY <2>0, <2>2, <3>3 DEF UsageNow, UsageSeen
    <2>4. Parts
        BY <2>0, <2>1 DEF Init, Parts, PodsMonotone, QueuesHandled, GateDiscipline, NsDiscipline,
                          GateIdle, NsIdle
    <2>5. PodsGrow /\ UsageGrows
        BY <2>0, <2>3 DEF PodsGrow, UsageGrows
    <2>6. Reserved
        BY <2>0, <2>1, <2>2, <2>3, ConstantsAssumption DEF Reserved
    <2>7. GateCounts /\ ArqCounts
        BY DEF Init, GateCounts, ArqCounts, GateIdle, NsIdle, KeyIdle
    <2>8. UsageBeforeUnlock
        BY <2>0, <2>3, NothingUnderway DEF Init
    <2> QED BY <2>4, <2>5, <2>6, <2>7, <2>8 DEF QuotaParts
<1>2. TypeOK /\ TypeOK' /\ Parts /\ QuotaParts /\ [Next]_vars => Parts' /\ QuotaParts'
    <2> SUFFICES ASSUME TypeOK, TypeOK', Parts, QuotaParts, [Next]_vars
                 PROVE  Parts' /\ QuotaParts'
        OBVIOUS
    <2>1. CASE Gate \/ GateError
        BY <2>1, InvGate, QuotaGate
    <2>2. CASE NsWorker \/ KeyWorker \/ EnqueueAll \/ NsError \/ KeyError
        BY <2>2, InvArq, QuotaArq
    <2>3. CASE Informers \/ Users \/ Restart
        <3>1. \A p \in Pods : Current(pods)[p] # "gone"
            BY CacheBehind DEF QuotaParts
        <3> QED BY <2>3, <3>1, InvEnvironment, QuotaEnvironment
    <2>4. CASE UNCHANGED vars
        <3>1. Parts'
            BY <2>4 DEF Parts, PodsMonotone, QueuesHandled, Handled, GateDiscipline, NsDiscipline, vars
        <3>2. UNCHANGED api /\ UNCHANGED <<gate, nsw, keyw>>
            BY <2>4 DEF vars, api
        <3> QED BY <3>1, <3>2, ApiStill DEF QuotaParts
    <2> QED BY <2>1, <2>2, <2>3, <2>4 DEF Next, Faults
<1>3. TypeOK /\ Parts /\ QuotaParts => QuotaInv
    BY DEF Parts, QuotaParts, QuotaInv, AdmissionInv
<1> QED BY <1>1, <1>2, <1>3, TypeCorrect, PTL DEF Spec

\* Where pods are never deleted and the watches keep the order of commits, the
\* ungated pods never use more than the quota's hard limit: with any staleness
\* of the caches that keeps that order, any errors and any restarts of the
\* controller, and two workers that write the status concurrently.
THEOREM QuotaKept ==
    ASSUME TotalOrder, Deletable = {}
    PROVE  Spec => []QuotaNeverExceeded
<1>1. QuotaInv => QuotaNeverExceeded
    <2> SUFFICES ASSUME QuotaInv PROVE QuotaNeverExceeded
        OBVIOUS
    <2>1. TypeOK /\ Usage[Charged(Current(pods)) \cup OpenBatch] <= Hard
        BY DEF QuotaInv, AdmissionInv, Reserved
    <2>2. /\ Charged(Current(pods)) \in SUBSET Pods
          /\ Charged(Current(pods)) \cup OpenBatch \in SUBSET Pods
        BY <2>1, Shapes
    <2>3. /\ Usage[Charged(Current(pods))] <= Usage[Charged(Current(pods)) \cup OpenBatch]
          /\ Usage[Charged(Current(pods))] \in Nat
          /\ Usage[Charged(Current(pods)) \cup OpenBatch] \in Nat
        BY <2>2, UsageMonotone
    <2> QED BY <2>1, <2>3, ConstantsAssumption DEF QuotaNeverExceeded
<1> QED BY <1>1, QuotaInvariant, PTL

-----------------------------------------------------------------------------
(* No lost wake-up, whatever users do with pods and names.                  *)

Pursued == BatchPursued /\ FittingPodNoticed /\ QueuesExist /\ GateAttends

\* A step that leaves the gate worker and the job queue alone and takes nothing
\* from the queues keeps the invariant, unless the caches change unnoticed.
LEMMA PursuitStable ==
    ASSUME Pursued,
           Current(aaqjqc') = Current(aaqjqc), Len(aaqjqc') = Len(aaqjqc),
           UpdateComing => UpdateComing',
           gate' = gate, gateQ => gateQ', nsQ => nsQ',
           nsw.locked => nsw'.locked \/ nsQ',
           nsw'.locked /\ nsw'.current => nsw.locked /\ nsw.current,
           \A p \in Pods : OnlyAAQGate(Cached(pods')[p]) => gateQ' \/ OnlyAAQGate(Cached(pods)[p]),
           gateQ' \/ Cached(arq') = Cached(arq)
    PROVE  Pursued'
<1>1. BatchPursued'
    BY DEF Pursued, BatchPursued
<1>2. FittingPodNoticed'
    <2>1. CASE gateQ'
        BY <2>1 DEF FittingPodNoticed
    <2>2. CASE ~gateQ'
        BY <2>2 DEF Pursued, FittingPodNoticed
    <2> QED BY <2>1, <2>2
<1>3. QueuesExist'
    BY DEF Pursued, QueuesExist
<1>4. GateAttends'
    BY DEF Pursued, GateAttends
<1> QED BY <1>1, <1>2, <1>3, <1>4 DEF Pursued

\* A write of the job queue is an update if there was one before.
LEMMA QueueAppended ==
    ASSUME TypeOK, NEW q \in SUBSET Pods, NEW l \in BOOLEAN, WriteAaqjqc(q, l)
    PROVE  /\ Len(aaqjqc') > 1
           /\ Current(aaqjqc').exists /\ Current(aaqjqc').locked = l
           /\ UpdateComing' <=> Current(aaqjqc).exists
<1> DEFINE e == [exists |-> TRUE, queue |-> q, locked |-> l]
<1>1. e \in JobQueues /\ aaqjqc' = Append(aaqjqc, e)
    BY DEF JobQueues, WriteAaqjqc
<1>2. e.exists /\ e.locked = l
    OBVIOUS
<1> HIDE DEF e
<1>3. /\ Len(aaqjqc') = Len(aaqjqc) + 1 /\ Current(aaqjqc') = e
      /\ \A i \in 1 .. Len(aaqjqc) : aaqjqc'[i] = aaqjqc[i]
    BY <1>1, AppendVersion DEF TypeOK
<1>4. Len(aaqjqc) \in Nat /\ Len(aaqjqc) >= 1
    BY DEF TypeOK
<1>5. Len(aaqjqc') > 1 /\ Len(aaqjqc') - 1 = Len(aaqjqc) /\ Len(aaqjqc) \in 1 .. Len(aaqjqc)
    BY <1>3, <1>4
<1> QED BY <1>2, <1>3, <1>5 DEF UpdateComing, Current

LEMMA PursuitGate ==
    ASSUME TypeOK, Pursued, Gate \/ GateError
    PROVE  Pursued'
<1>0. GateIdle.pc = "idle" /\ ~GateIdle.again /\ ~GateIdle.current
    BY DEF GateIdle
<1>1. CASE GetAaqjqc
    <2>0. gate.pc = "idle" /\ ~gateQ' /\ nsQ' = nsQ /\ UNCHANGED <<pods, arq>>
        BY <1>1 DEF GetAaqjqc
    <2>1. CASE /\ ~Cached(aaqjqc).exists /\ ~Current(aaqjqc).exists
               /\ WriteAaqjqc({}, FALSE)
               /\ gate' = [gate EXCEPT !.pc = "quota", !.current = TRUE]
               /\ nsw' = [nsw EXCEPT !.current = FALSE]
        <3>1. Current(aaqjqc').exists /\ ~Current(aaqjqc').locked
            BY <2>1, QueueAppended
        <3>2. gate'.pc = "quota" /\ gate'.again = gate.again /\ ~nsw'.current
            BY <2>1 DEF TypeOK, GateStates, NsStates
        <3>3. ~gate.again
            BY <2>0 DEF Pursued, GateAttends
        <3> QED BY <3>1, <3>2, <3>3
                DEF Pursued, BatchPursued, FittingPodNoticed, QueuesExist, GateAttends
    <2>2. CASE /\ Cached(aaqjqc).exists /\ Cached(aaqjqc).locked
               /\ gate' = [gate EXCEPT !.pc = "release", !.todo = Cached(aaqjqc).queue, !.again = TRUE]
               /\ UNCHANGED <<aaqjqc, order, nsw>>
        <3>1. gate'.pc = "release" /\ gate'.again /\ gate'.current = gate.current
            BY <2>2 DEF TypeOK, GateStates
        <3>2. UpdateComing' = UpdateComing
            BY <2>2 DEF UpdateComing
        <3> QED BY <2>0, <2>2, <3>1, <3>2
                DEF Pursued, BatchPursued, FittingPodNoticed, QueuesExist, GateAttends
    <2>3. CASE /\ Cached(aaqjqc).exists /\ ~Cached(aaqjqc).locked
               /\ gate' = [gate EXCEPT !.pc = "quota", !.current = UpToDate(aaqjqc)]
               /\ UNCHANGED <<aaqjqc, order, nsw>>
        <3>1. gate'.pc = "quota" /\ gate'.current = UpToDate(aaqjqc) /\ gate'.again = gate.again
            BY <2>3 DEF TypeOK, GateStates
        <3>2. UpdateComing' = UpdateComing
            BY <2>3 DEF UpdateComing
        <3>3. UpToDate(aaqjqc) => Cached(aaqjqc) = Current(aaqjqc)
            BY DEF UpToDate, Cached, Current
        <3>4. ~UpToDate(aaqjqc) => Len(aaqjqc) > 1
            <4>1. Len(aaqjqc) \in Nat /\ Len(aaqjqc) >= 1
                BY DEF TypeOK
            <4>2. \A k \in Nat : k >= 1 /\ k # 1 => k > 1
                OBVIOUS
            <4> QED BY <4>1, <4>2, Zenon DEF UpToDate
        <3>5. ~gate.again
            BY <2>0 DEF Pursued, GateAttends
        <3>6. Current(aaqjqc).locked => Len(aaqjqc) > 1
            BY <2>3, <3>3, <3>4
        <3>7. BatchPursued' /\ FittingPodNoticed'
            BY <2>3, <3>1, <3>6 DEF BatchPursued, FittingPodNoticed
        <3>8. QueuesExist'
            BY <2>3, <3>1, <3>2, <3>3 DEF Pursued, QueuesExist
        <3>9. GateAttends'
            BY <3>1, <3>5 DEF GateAttends
        <3> QED BY <3>7, <3>8, <3>9 DEF Pursued
    <2> QED BY <1>1, <2>1, <2>2, <2>3 DEF GetAaqjqc
<1>2. CASE GetArtificialRqs
    <2>1. gate.pc = "quota" /\ gate' = [gate EXCEPT !.pc = "admit", !.used = Cached(arq)]
          /\ UNCHANGED <<pods, arq, aaqjqc, gateQ, nsw, nsQ>>
        BY <1>2 DEF GetArtificialRqs, api
    <2>2. gate'.pc = "admit" /\ gate'.used = Cached(arq) /\ gate'.again = gate.again
          /\ gate'.current = gate.current
        BY <2>1 DEF TypeOK, GateStates
    <2>3. ~gate.again /\ UpdateComing' = UpdateComing
        BY <2>1 DEF Pursued, GateAttends, UpdateComing
    <2> QED BY <2>1, <2>2, <2>3
            DEF Pursued, BatchPursued, FittingPodNoticed, QueuesExist, GateAttends
<1>3. CASE AdmitPods
    <2> DEFINE gated == {p \in Pods : OnlyAAQGate(Cached(pods)[p])}
    <2>1. PICK S \in CheckRequests(gated, gate.used) :
              gate' = IF S = {} THEN GateIdle
                      ELSE [gate EXCEPT !.pc = "record", !.todo = S, !.used = 0]
        BY <1>3 DEF AdmitPods
    <2>2. gate.pc = "admit" /\ UNCHANGED <<pods, arq, aaqjqc, gateQ, nsw, nsQ>>
        BY <1>3 DEF AdmitPods, api
    <2>3. ~gate.again /\ UpdateComing' = UpdateComing /\ (gateQ \/ gate.used = Cached(arq))
        BY <2>2 DEF Pursued, GateAttends, UpdateComing
    <2>4. CASE S = {}
        <3>1. gate' = GateIdle
            BY <2>1, <2>4
        <3>2. ASSUME NEW p \in Pods, OnlyAAQGate(Cached(pods)[p]), Cached(arq) + Usage[{p}] <= Hard
              PROVE  gateQ
            <4>1. p \in gated \ S /\ S \cup {p} = {p}
                BY <2>4, <3>2
            <4>2. gate.used + Usage[{p}] > Hard
                BY <2>1, <4>1 DEF CheckRequests
            <4>3. Cached(arq) \in Nat /\ Usage[{p}] \in Nat /\ Hard \in Nat
                BY VersionTypes, UsageAssumption, ConstantsAssumption DEF TypeOK
            <4> QED BY <2>3, <3>2, <4>2, <4>3
        <3>3. FittingPodNoticed'
            BY <2>2, <3>2 DEF FittingPodNoticed
        <3> QED BY <1>0, <2>2, <2>3, <3>1, <3>3
                DEF Pursued, BatchPursued, QueuesExist, GateAttends
    <2>5. CASE S # {}
        <3>1. gate'.pc = "record" /\ gate'.again = gate.again /\ gate'.current = gate.current
            <4>1. gate' = [gate EXCEPT !.pc = "record", !.todo = S, !.used = 0]
                BY <2>1, <2>5
            <4> QED BY <4>1 DEF TypeOK, GateStates
        <3> QED BY <2>2, <2>3, <3>1
                DEF Pursued, BatchPursued, FittingPodNoticed, QueuesExist, GateAttends
    <2> QED BY <2>4, <2>5
<1>4. CASE UpdateAaqjqc
    <2>1. CASE gate.current
        <3>1. /\ WriteAaqjqc(gate.todo, TRUE) /\ nsQ' = nsQ
              /\ gate' = [gate EXCEPT !.pc = "release", !.current = FALSE]
              /\ nsw' = [nsw EXCEPT !.current = FALSE]
              /\ gate.pc = "record"
            BY <1>4, <2>1 DEF UpdateAaqjqc
        <3>2. gate.todo \in SUBSET Pods
            BY DEF TypeOK, GateStates
        <3>3. Len(aaqjqc') > 1 /\ Current(aaqjqc').exists /\ Current(aaqjqc').locked /\ UpdateComing'
            BY <2>1, <3>1, <3>2, QueueAppended DEF Pursued, QueuesExist
        <3>4. gate'.pc = "release" /\ ~gate'.current /\ ~nsw'.current
            BY <3>1 DEF TypeOK, GateStates, NsStates
        <3> QED BY <3>3, <3>4 DEF Pursued, BatchPursued, FittingPodNoticed, QueuesExist, GateAttends
    <2>2. CASE ~gate.current
        <3>1. gate' = GateIdle /\ gateQ' /\ UNCHANGED <<aaqjqc, nsw, nsQ>> /\ gate.pc = "record"
            BY <1>4, <2>2 DEF UpdateAaqjqc, api
        <3>2. UpdateComing' = UpdateComing
            BY <3>1 DEF UpdateComing
        <3> QED BY <1>0, <3>1, <3>2
                DEF Pursued, BatchPursued, FittingPodNoticed, QueuesExist, GateAttends
    <2> QED BY <2>1, <2>2
<1>5. ASSUME NEW p \in Pods, ReleasePod(p) PROVE Pursued'
    <2>1. gate.pc = "release" /\ UNCHANGED <<arq, aaqjqc, nsw, nsQ>>
        BY <1>5 DEF ReleasePod, api
    <2>2. UpdateComing' = UpdateComing
        BY <2>1 DEF UpdateComing
    <2>3. CASE gate' = [gate EXCEPT !.todo = gate.todo \ {p}] /\ gateQ' = gateQ
        <3>1. gate'.pc = gate.pc /\ gate'.again = gate.again /\ gate'.current = gate.current
            BY <2>3 DEF TypeOK, GateStates
        <3> QED BY <2>1, <2>2, <2>3, <3>1
                DEF Pursued, BatchPursued, FittingPodNoticed, QueuesExist, GateAttends
    <2>4. CASE gate' = GateIdle /\ gateQ'
        BY <1>0, <2>1, <2>2, <2>4
           DEF Pursued, BatchPursued, FittingPodNoticed, QueuesExist, GateAttends
    <2> QED BY <1>5, <2>3, <2>4 DEF ReleasePod
<1>6. CASE GateReturn
    <2>1. gate.pc = "release" /\ gate' = GateIdle /\ gateQ' = (gateQ \/ gate.again)
          /\ UNCHANGED <<pods, arq, aaqjqc, nsw, nsQ>>
        BY <1>6 DEF GateReturn, api
    <2>2. UpdateComing' = UpdateComing
        BY <2>1 DEF UpdateComing
    <2> QED BY <1>0, <2>1, <2>2
            DEF Pursued, BatchPursued, FittingPodNoticed, QueuesExist, GateAttends
<1>7. CASE GateError
    <2>1. gate' = GateIdle /\ gateQ' /\ UNCHANGED <<aaqjqc, nsw, nsQ>>
        BY <1>7 DEF GateError, api
    <2>2. UpdateComing' = UpdateComing
        BY <2>1 DEF UpdateComing
    <2> QED BY <1>0, <2>1, <2>2
            DEF Pursued, BatchPursued, FittingPodNoticed, QueuesExist, GateAttends
<1> QED BY <1>1, <1>2, <1>3, <1>4, <1>5, <1>6, <1>7 DEF Gate

LEMMA PursuitArq ==
    ASSUME TypeOK, Pursued, NsWorker \/ KeyWorker \/ EnqueueAll \/ NsError \/ KeyError
    PROVE  Pursued'
<1>0. NsIdle.locked = FALSE /\ NsIdle.current = FALSE
    BY DEF NsIdle
<1>1. CASE GetLockedQueue
    <2>1. /\ nsw' = [nsw EXCEPT !.pc = "list", !.locked = Cached(aaqjqc).locked,
                                !.queue = Cached(aaqjqc).queue, !.current = UpToDate(aaqjqc)]
          /\ UNCHANGED <<pods, arq, aaqjqc, gate, gateQ>>
        BY <1>1 DEF GetLockedQueue, api
    <2>2. nsw'.locked = Cached(aaqjqc).locked /\ nsw'.current = UpToDate(aaqjqc)
        BY <2>1 DEF TypeOK, NsStates
    <2>3. UpToDate(aaqjqc) => Cached(aaqjqc) = Current(aaqjqc)
        BY DEF UpToDate, Cached, Current
    <2>4. ~UpToDate(aaqjqc) => Len(aaqjqc) > 1
        <3>1. Len(aaqjqc) \in Nat /\ Len(aaqjqc) >= 1
            BY DEF TypeOK
        <3>2. \A k \in Nat : k >= 1 /\ k # 1 => k > 1
            OBVIOUS
        <3> QED BY <3>1, <3>2, Zenon DEF UpToDate
    <2>5. UpdateComing' = UpdateComing
        BY <2>1 DEF UpdateComing
    <2>6. BatchPursued'
        BY <2>1, <2>2, <2>3, <2>4 DEF Pursued, BatchPursued
    <2>7. QueuesExist'
        BY <2>1, <2>2, <2>3, <2>5 DEF Pursued, QueuesExist
    <2> QED BY <2>1, <2>5, <2>6, <2>7 DEF Pursued, FittingPodNoticed, GateAttends
<1>2. CASE ListArqs \/ SyncResourceQuota
    <2>1. UNCHANGED <<pods, arq, aaqjqc, gate, gateQ, nsQ>>
        BY <1>2 DEF ListArqs, SyncResourceQuota, api
    <2>2. nsw'.locked = nsw.locked /\ nsw'.current = nsw.current
        <3>1. CASE ListArqs
            BY <3>1 DEF ListArqs, TypeOK, NsStates
        <3>2. CASE SyncResourceQuota
            <4>1. \/ nsw' = [nsw EXCEPT !.pc = "unlock", !.used = 0, !.arqCurrent = FALSE]
                  \/ nsw' = [nsw EXCEPT !.pc = "write", !.used = CalculateUsage]
                BY <3>2 DEF SyncResourceQuota
            <4> QED BY <4>1 DEF TypeOK, NsStates
        <3> QED BY <1>2, <3>1, <3>2
    <2>3. UpdateComing' = UpdateComing
        BY <2>1 DEF UpdateComing
    <2> QED BY <2>1, <2>2, <2>3, PursuitStable
<1>3. CASE UpdateArqStatus
    <2>1. CASE nsw.arqCurrent
        <3>1. /\ WriteArq(nsw.used) /\ UNCHANGED <<pods, aaqjqc, gate, gateQ, nsQ>>
              /\ nsw' = [nsw EXCEPT !.pc = "unlock", !.used = 0, !.arqCurrent = FALSE]
            BY <1>3, <2>1 DEF UpdateArqStatus
        <3>2. nsw'.locked = nsw.locked /\ nsw'.current = nsw.current /\ nsw.used \in Nat
            BY <3>1 DEF TypeOK, NsStates
        <3>3. Cached(arq') = Cached(arq)
            BY <3>1, <3>2, AppendVersion DEF WriteArq, TypeOK
        <3>4. UpdateComing' = UpdateComing
            BY <3>1 DEF UpdateComing
        <3> QED BY <3>1, <3>2, <3>3, <3>4, PursuitStable
    <2>2. CASE ~nsw.arqCurrent
        <3>1. nsw' = NsIdle /\ nsQ' /\ UNCHANGED <<pods, arq, aaqjqc, gate, gateQ>>
            BY <1>3, <2>2 DEF UpdateArqStatus, api
        <3>2. UpdateComing' = UpdateComing
            BY <3>1 DEF UpdateComing
        <3> QED BY <1>0, <3>1, <3>2, PursuitStable
    <2> QED BY <2>1, <2>2
<1>4. CASE Unlock
    <2>0. nsw' = NsIdle /\ gateQ' = gateQ
        BY <1>4 DEF Unlock
    <2>1. CASE ~nsw.locked /\ UNCHANGED <<pods, arq, aaqjqc, gate, nsQ>>
        <3>1. UpdateComing' = UpdateComing
            BY <2>1 DEF UpdateComing
        <3> QED BY <1>0, <2>0, <2>1, <3>1, PursuitStable
    <2>2. CASE /\ nsw.locked /\ nsw.current /\ WriteAaqjqc(nsw.queue, FALSE)
               /\ gate' = [gate EXCEPT !.current = FALSE] /\ UNCHANGED <<pods, arq, nsQ>>
        <3>1. nsw.queue \in SUBSET Pods
            BY DEF TypeOK, NsStates
        <3>2. Len(aaqjqc') > 1 /\ ~Current(aaqjqc').locked /\ UpdateComing'
            BY <2>2, <3>1, QueueAppended DEF Pursued, QueuesExist
        <3>3. gate'.pc = gate.pc /\ ~gate'.current /\ gate'.again = gate.again /\ gate'.used = gate.used
            BY <2>2 DEF TypeOK, GateStates
        <3> QED BY <1>0, <2>0, <2>2, <3>2, <3>3
                DEF Pursued, BatchPursued, FittingPodNoticed, QueuesExist, GateAttends
    <2>3. CASE nsQ' /\ UNCHANGED <<pods, arq, aaqjqc, gate>>
        <3>1. UpdateComing' = UpdateComing
            BY <2>3 DEF UpdateComing
        <3> QED BY <1>0, <2>0, <2>3, <3>1, PursuitStable
    <2> QED BY <1>4, <2>1, <2>2, <2>3 DEF Unlock, api
<1>5. CASE NsError
    <2>1. nsw' = NsIdle /\ nsQ' /\ UNCHANGED <<pods, arq, aaqjqc, gate, gateQ>>
        BY <1>5 DEF NsError, api
    <2>2. UpdateComing' = UpdateComing
        BY <2>1 DEF UpdateComing
    <2> QED BY <1>0, <2>1, <2>2, PursuitStable
<1>6. CASE SyncFromKey \/ SyncKeyQuota \/ EnqueueAll \/ KeyError
    <2>1. UNCHANGED <<pods, arq, aaqjqc, gate, gateQ, nsw, nsQ>>
        BY <1>6 DEF SyncFromKey, SyncKeyQuota, EnqueueAll, KeyError, api
    <2>2. UpdateComing' = UpdateComing
        BY <2>1 DEF UpdateComing
    <2> QED BY <2>1, <2>2, PursuitStable
<1>7. CASE UpdateArqStatusFromKey
    <2>1. UNCHANGED <<pods, aaqjqc, gate, gateQ, nsQ>>
        BY <1>7 DEF UpdateArqStatusFromKey, api
    <2>2. nsw'.locked = nsw.locked /\ nsw'.current = nsw.current
        <3>1. nsw' = nsw \/ nsw' = [nsw EXCEPT !.arqCurrent = FALSE]
            BY <1>7 DEF UpdateArqStatusFromKey
        <3> QED BY <3>1 DEF TypeOK, NsStates
    <2>3. Cached(arq') = Cached(arq)
        <3>1. keyw.used \in Nat
            BY DEF TypeOK, KeyStates
        <3>2. WriteArq(keyw.used) \/ arq' = arq
            BY <1>7 DEF UpdateArqStatusFromKey, api
        <3>3. CASE arq' = Append(arq, keyw.used)
            BY <3>1, <3>3, AppendVersion DEF TypeOK
        <3>4. CASE arq' = arq
            BY <3>4
        <3> QED BY <3>2, <3>3, <3>4 DEF WriteArq
    <2>4. UpdateComing' = UpdateComing
        BY <2>1 DEF UpdateComing
    <2> QED BY <2>1, <2>2, <2>3, <2>4, PursuitStable
<1> QED BY <1>1, <1>2, <1>3, <1>4, <1>5, <1>6, <1>7 DEF NsWorker, KeyWorker

LEMMA PursuitEnvironment ==
    ASSUME TypeOK, Pursued, Informers \/ Users \/ Restart
    PROVE  Pursued'
<1>1. CASE PodEvent
    <2>1. /\ pods' = Tail(pods) /\ Len(pods) > 1
          /\ gateQ' = (gateQ \/ GateWantsPods(pods[1], pods[2]))
          /\ nsQ => nsQ'
          /\ UNCHANGED <<arq, aaqjqc, gate, nsw>>
        BY <1>1, Zenon DEF PodEvent, Next1
    <2>2. Cached(pods') = pods[2] /\ Cached(pods) = pods[1]
        BY <2>1 DEF Cached, TypeOK
    <2>3. ASSUME NEW p \in Pods, OnlyAAQGate(Cached(pods')[p])
          PROVE  gateQ' \/ OnlyAAQGate(Cached(pods)[p])
        <3>1. CASE Cached(pods)[p] = Cached(pods')[p]
            BY <2>3, <3>1
        <3>2. CASE Cached(pods)[p] # Cached(pods')[p]
            <4>1. GateWantsPods(pods[1], pods[2])
                BY <2>2, <2>3, <3>2 DEF GateWantsPods
            <4> QED BY <2>1, <4>1
        <3> QED BY <3>1, <3>2
    <2>4. UpdateComing' = UpdateComing
        BY <2>1 DEF UpdateComing
    <2>5. gateQ => gateQ'
        BY <2>1
    <2> QED BY <2>1, <2>3, <2>4, <2>5, PursuitStable
<1>2. CASE ArqEvent \/ InformerResync
    <2>1. gateQ' /\ UNCHANGED <<pods, aaqjqc, gate, nsw>>
        BY <1>2 DEF ArqEvent, InformerResync, api
    <2>2. nsQ => nsQ'
        BY <1>2, Zenon DEF ArqEvent, InformerResync
    <2>3. UpdateComing' = UpdateComing
        BY <2>1 DEF UpdateComing
    <2> QED BY <2>1, <2>2, <2>3, PursuitStable
<1>3. CASE AaqjqcEvent
    <2>1. /\ aaqjqc' = Tail(aaqjqc) /\ Len(aaqjqc) > 1
          /\ gateQ' = (gateQ \/ aaqjqc[1].exists)
          /\ nsQ' = (nsQ \/ aaqjqc[2].locked)
          /\ UNCHANGED <<pods, arq, gate, nsw>>
        BY <1>3 DEF AaqjqcEvent, Next1, GateWantsAaqjqc, NsWantsAaqjqc
    <2>2. /\ Current(aaqjqc') = Current(aaqjqc) /\ Len(aaqjqc') = Len(aaqjqc) - 1
          /\ Len(aaqjqc') \in Nat /\ Len(aaqjqc') >= 1
          /\ \A i \in 1 .. Len(aaqjqc') : aaqjqc'[i] = aaqjqc[i + 1]
        <3>1. Len(aaqjqc) \in Nat
            BY DEF TypeOK
        <3> QED BY <2>1, <3>1, TailVersion DEF TypeOK
    <2>3. UpdateComing => UpdateComing' \/ gateQ'
        <3>1. CASE Len(aaqjqc') = 1
            BY <2>1, <2>2, <3>1 DEF UpdateComing
        <3>2. CASE Len(aaqjqc') > 1
            <4>1. Len(aaqjqc') - 1 \in 1 .. Len(aaqjqc') /\ (Len(aaqjqc') - 1) + 1 = Len(aaqjqc) - 1
                BY <2>2, <3>2
            <4>2. aaqjqc'[Len(aaqjqc') - 1] = aaqjqc[Len(aaqjqc) - 1]
                BY <2>2, <4>1
            <4> QED BY <3>2, <4>2 DEF UpdateComing
        <3>3. \A k \in Nat : k >= 1 => k = 1 \/ k > 1
            OBVIOUS
        <3> QED BY <2>2, <3>1, <3>2, <3>3
    <2>4. UpdateComing /\ Len(aaqjqc') > 1 => UpdateComing'
        <3> SUFFICES ASSUME UpdateComing, Len(aaqjqc') > 1 PROVE UpdateComing'
            OBVIOUS
        <3>1. Len(aaqjqc') - 1 \in 1 .. Len(aaqjqc') /\ (Len(aaqjqc') - 1) + 1 = Len(aaqjqc) - 1
            BY <2>2
        <3>2. aaqjqc'[Len(aaqjqc') - 1] = aaqjqc[Len(aaqjqc) - 1]
            BY <2>2, <3>1
        <3> QED BY <3>2 DEF UpdateComing
    <2>5. Current(aaqjqc).locked => UpdateComing
        BY <2>1 DEF Pursued, QueuesExist
    <2>6. BatchPursued'
        <3>1. CASE Len(aaqjqc') = 1
            <4>1. Len(aaqjqc) = 2
                <5>1. Len(aaqjqc) \in Nat
                    BY DEF TypeOK
                <5>2. \A k \in Nat : k - 1 = 1 => k = 2
                    OBVIOUS
                <5>3. Len(aaqjqc) - 1 = 1
                    BY <2>2, <3>1, Zenon
                <5> QED BY <5>1, <5>2, <5>3, Zenon
            <4>2. Current(aaqjqc) = aaqjqc[2] /\ (UpdateComing => aaqjqc[1].exists)
                <5>1. 2 - 1 = 1
                    OBVIOUS
                <5> QED BY <4>1, <5>1, Zenon DEF Current, UpdateComing
            <4>3. Current(aaqjqc).locked => gateQ' /\ nsQ'
                BY <2>1, <2>5, <4>2
            <4> QED BY <2>2, <4>3 DEF BatchPursued
        <3>2. CASE Len(aaqjqc') > 1
            BY <3>2 DEF BatchPursued
        <3>3. \A k \in Nat : k >= 1 => k = 1 \/ k > 1
            OBVIOUS
        <3> QED BY <2>2, <3>1, <3>2, <3>3
    <2>7. FittingPodNoticed'
        <3>1. CASE gateQ'
            BY <3>1 DEF FittingPodNoticed
        <3>2. CASE ~gateQ'
            BY <2>1, <2>2, <2>3, <3>2 DEF Pursued, FittingPodNoticed
        <3> QED BY <3>1, <3>2
    <2>8. QueuesExist'
        BY <2>1, <2>2, <2>4, <2>5 DEF Pursued, QueuesExist
    <2>9. GateAttends'
        BY <2>1, <2>3 DEF Pursued, GateAttends
    <2> QED BY <2>6, <2>7, <2>8, <2>9 DEF Pursued
<1>4. ASSUME NEW p \in Pods, CreatePod(p) \/ RemoveForeignGate(p) \/ DeletePod(p)
      PROVE  Pursued'
    <2>1. PICK s \in PodStates : UserWrites(p, s)
        BY <1>4 DEF CreatePod, RemoveForeignGate, DeletePod, PodStates
    <2>2. WritePod(p, s) /\ UNCHANGED <<arq, aaqjqc, gate, gateQ, nsw, nsQ>>
        BY <2>1 DEF UserWrites
    <2>3. [Current(pods) EXCEPT ![p] = s] \in [Pods -> PodStates]
        <3>1. Current(pods) \in [Pods -> PodStates]
            BY VersionTypes DEF TypeOK
        <3> QED BY <3>1
    <2>4. Cached(pods') = Cached(pods)
        BY <2>2, <2>3, AppendVersion DEF WritePod, TypeOK
    <2>5. UpdateComing' = UpdateComing
        BY <2>2 DEF UpdateComing
    <2> QED BY <2>2, <2>4, <2>5, PursuitStable
<1>5. CASE Restart
    <2>1. /\ gate' = GateIdle /\ nsw' = NsIdle /\ gateQ'
          /\ Current(aaqjqc).locked => nsQ'
        BY <1>5 DEF Restart, NsWantsAaqjqc
    <2>2. Current(aaqjqc') = Current(aaqjqc) /\ Len(aaqjqc') = 1
        BY <1>5, VersionTypes DEF Restart, TypeOK
    <2> QED BY <2>1, <2>2 DEF Pursued, BatchPursued, FittingPodNoticed, QueuesExist, GateAttends,
                              GateIdle, NsIdle
<1> QED BY <1>1, <1>2, <1>3, <1>4, <1>5 DEF Informers, Users

\* For every use of names and deletions, any lag of the watches and any faults: a
\* worker that is about to go idle without being queued again has decided on what
\* the caches still show, and every later change of them enqueues the namespace.
THEOREM PursuitInvariant == Spec => []PursuitInv
<1>1. Init => Pursued
    <2> SUFFICES ASSUME Init PROVE Pursued
        OBVIOUS
    <2>1. ~Current(aaqjqc).locked /\ gateQ
        BY DEF Init, Current, NoJobQueue
    <2> QED BY <2>1 DEF Init, Pursued, BatchPursued, FittingPodNoticed, QueuesExist, GateAttends,
                        GateIdle, NsIdle
<1>2. TypeOK /\ Pursued /\ [Next]_vars => Pursued'
    <2>1. ASSUME Pursued, UNCHANGED vars PROVE Pursued'
        <3>1. UNCHANGED <<pods, arq, aaqjqc, gate, gateQ, nsw, nsQ>>
            BY <2>1 DEF vars
        <3>2. UpdateComing' = UpdateComing
            BY <3>1 DEF UpdateComing
        <3> QED BY <2>1, <3>1, <3>2, PursuitStable
    <2> QED BY <2>1, PursuitGate, PursuitArq, PursuitEnvironment DEF Next, Faults
<1>3. TypeOK /\ Pursued => PursuitInv
    BY DEF Pursued, PursuitInv
<1> QED BY <1>1, <1>2, <1>3, TypeCorrect, PTL DEF Spec

\* While a job queue is locked, neither controller forgets it: the event that says
\* so is on its way, or both have the namespace queued or in work.  With the
\* fairness of the workers this is why the lock is released in the end.
THEOREM LockNeverForgotten == Spec => []BatchPursued
<1>1. PursuitInv => BatchPursued
    BY DEF PursuitInv
<1> QED BY <1>1, PursuitInvariant, PTL

\* There is no lost wake-up: a gated pod the cache shows and the cached status
\* leaves room for has the gate controller's attention, queued, in work or coming.
THEOREM NoLostWakeup == Spec => []FittingPodNoticed
<1>1. PursuitInv => FittingPodNoticed
    BY DEF PursuitInv
<1> QED BY <1>1, PursuitInvariant, PTL

=============================================================================
