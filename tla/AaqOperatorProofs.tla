-------------------------- MODULE AaqOperatorProofs --------------------------
(***************************************************************************)
(* Proofs about the operator, for every set of names, number of replicas   *)
(* and bounds: type correctness, and that only the AAQ that holds the      *)
(* aaq-config config map has objects.                                      *)
(***************************************************************************)
EXTENDS AaqOperator, TLAPS

Workers == [pc : Steps, name : Names \cup {NoName}, cr : Crs, on : BOOLEAN,
            todo : SUBSET (Deployments \cup {"hooks"}), failed : BOOLEAN]

\* The constant records are of the types of their variables.
LEMMA ConstantTypes ==
    /\ NoCr \in Crs /\ NoCr.uid = 0 /\ Nobody \in Owners /\ Idle \in Workers /\ Down \in Workers
    /\ NoHooks \in [owner : Owners, on : BOOLEAN]
    /\ NoDeployment \in [owner : Owners, gated : 0..Replicas, up : 0..Replicas]
    /\ Idle.pc = "idle" /\ Down.pc = "down"
<1>1. Replicas \in Nat /\ MaxUids \in Nat
    BY OperatorAssumption
<1>2. NoCr \in Crs /\ NoCr.uid = 0 /\ Nobody \in Owners
    BY <1>1 DEF NoCr, Crs, Phases, Nobody, Owners
<1>3. Idle \in Workers /\ Idle.pc = "idle"
    BY <1>2 DEF Idle, Workers, Steps
<1>4. Down \in Workers /\ Down.pc = "down"
    BY <1>3 DEF Down, Idle, Workers, Steps
<1>5. NoHooks \in [owner : Owners, on : BOOLEAN]
    BY <1>2 DEF NoHooks
<1>6. NoDeployment \in [owner : Owners, gated : 0..Replicas, up : 0..Replicas]
    BY <1>1, <1>2 DEF NoDeployment
<1> QED BY <1>2, <1>3, <1>4, <1>5, <1>6

\* The worker is one of Workers, and its copy, when it has one, names an owner.
LEMMA WorkerFacts ==
    ASSUME TypeOK
    PROVE  /\ w \in Workers /\ w.cr \in Crs /\ w.pc \in Steps
           /\ w.name \in Names => OwnerOf(w.name, w.cr) \in Owners
    BY DEF TypeOK, Workers, OwnerOf, Owners, Crs

\* Where the decisions of a reconcile can lead.
LEMMA Decisions ==
    ASSUME NEW n, NEW c
    PROVE  /\ AfterUpgrade(c) \in {"down", "apply", "finish", "requeue"}
           /\ CheckSanity(n, c) \in {"down", "upgrade", "apply", "finish", "requeue", "error"}
           /\ Reconcile(n, c) \in {"idle", "down", "delete", "create", "upgrade", "apply",
                                   "finish", "requeue", "error"}
<1>1. AfterUpgrade(c) \in {"down", "apply", "finish", "requeue"}
    BY DEF AfterUpgrade
<1>2. CheckSanity(n, c) \in {"down", "upgrade", "apply", "finish", "requeue", "error"}
    BY <1>1 DEF CheckSanity
<1>3. Reconcile(n, c) \in {"idle", "down", "delete", "create", "upgrade", "apply",
                           "finish", "requeue", "error"}
    BY <1>2 DEF Reconcile
<1> QED BY <1>1, <1>2, <1>3

LEMMA GotoTypes ==
    ASSUME TypeOK, w.name \in Names, NEW pc \in Steps \cup {"requeue"}, Goto(pc)
    PROVE  w' \in Workers /\ queue' \subseteq Names
<1>1. ToApply \subseteq Deployments \cup {"hooks"}
    BY DEF ToApply
<1>2. queue' \subseteq Names
    BY DEF Goto, TypeOK
<1>3. CASE pc \in {"idle", "requeue", "down"}
    BY <1>2, <1>3, ConstantTypes DEF Goto
<1>4. CASE pc \notin {"idle", "requeue", "down"}
    <2>1. w' = [w EXCEPT !.pc = pc, !.on = (pc = "apply" /\ IncludeHooks),
                         !.todo = IF pc = "apply" THEN ToApply ELSE {}]
        BY <1>4 DEF Goto
    <2>2. (pc = "apply" /\ IncludeHooks) \in BOOLEAN
        OBVIOUS
    <2> HIDE DEF Goto
    <2>3. w' \in Workers
        BY <1>1, <1>4, <2>1, <2>2, WorkerFacts DEF Workers
    <2> QED BY <1>2, <2>3
<1> QED BY <1>3, <1>4

LEMMA UpdateTypes ==
    ASSUME TypeOK, w.name \in Names, NEW c \in Crs, NEW pc \in Steps, UpdateCr(c, pc)
    PROVE  w' \in Workers /\ queue' \subseteq Names /\ cr' \in [Names -> Crs]
<1>1. CASE cr' = [cr EXCEPT ![w.name] = c] /\ UNCHANGED queue
           /\ w' = IF pc = "idle" THEN Idle ELSE [w EXCEPT !.pc = pc, !.cr = c]
    <2>1. w' \in Workers
        BY <1>1, WorkerFacts, ConstantTypes DEF Workers
    <2> QED BY <1>1, <2>1 DEF TypeOK
<1>2. CASE Goto("requeue") /\ UNCHANGED cr
    BY <1>2, GotoTypes DEF TypeOK
<1> QED BY <1>1, <1>2 DEF UpdateCr

LEMMA AppliedTypes ==
    ASSUME TypeOK, NEW k, NEW ok \in BOOLEAN, Applied(k, ok)
    PROVE  w' \in Workers /\ queue' \subseteq Names
<1>1. w' = [w EXCEPT !.todo = w.todo \ {k}, !.failed = @ \/ ~ok,
                     !.pc = IF w.todo \ {k} = {} THEN "finish" ELSE "apply"]
    BY DEF Applied
<1>2. (w.failed \/ ~ok) \in BOOLEAN
    OBVIOUS
<1>3. w' \in Workers
    BY <1>1, <1>2, WorkerFacts DEF Workers, Steps
<1> QED BY <1>3 DEF Applied, TypeOK


-----------------------------------------------------------------------------
(* Types.                                                                   *)

\* A worker's step that touches no object but its AAQ.
LEMMA TypeMove ==
    ASSUME TypeOK, UNCHANGED <<cm, cluster, seen, watching>>,
           w' \in Workers, queue' \subseteq Names, cr' \in [Names -> Crs],
           used' \in [uids : 0..MaxUids, faults : 0..MaxFaults]
    PROVE  TypeOK'
    BY DEF TypeOK, Workers, cluster

LEMMA TypeWorker ==
    ASSUME TypeOK, UidsKnown, WorkerStep \/ CallFails
    PROVE  TypeOK'
<1>0. /\ w.pc \notin {"idle", "down"} =>
            w.name \in Names /\ OwnerOf(w.name, w.cr) \in Owners /\ w.cr \in Crs
      /\ cr \in [Names -> Crs] /\ used \in [uids : 0..MaxUids, faults : 0..MaxFaults]
    BY WorkerFacts DEF UidsKnown, TypeOK
<1>1. CASE PreCreate
    <2>1. w.name \in Names /\ OwnerOf(w.name, w.cr) \in Owners
        BY <1>0, <1>1 DEF PreCreate
    <2>2. cm' \in Owners
        BY <1>1, <2>1 DEF PreCreate, TypeOK
    <2>3. PICK pc \in Steps \cup {"requeue"} : Goto(pc)
        BY <1>1 DEF PreCreate, Steps
    <2>4. w' \in Workers /\ queue' \subseteq Names
        BY <2>1, <2>3, GotoTypes
    <2> QED BY <1>1, <2>2, <2>4 DEF PreCreate, TypeOK, Workers, cluster, env
<1>2. CASE CrInit \/ ReconcileError \/ CheckUpgrade \/ ReconcileDelete
    <2>1. /\ w.pc \notin {"idle", "down"} /\ UNCHANGED <<cm, cluster, seen, watching, used>>
          /\ \/ \E c \in Crs, pc \in Steps : UpdateCr(c, pc)
             \/ UNCHANGED cr /\ \E pc \in Steps \cup {"requeue"} : Goto(pc)
        <3>1. \A c \in Crs, ph \in Phases : [c EXCEPT !.phase = ph] \in Crs /\ [c EXCEPT !.fin = TRUE] \in Crs
            BY DEF Crs
        <3>2. {"", "Deploying", "Upgrading", "Error", "Deleting", "Deleted"} \subseteq Phases
              /\ {"finalizer", "sanity", "idle", "render", "callbacks", "release", "down"} \subseteq Steps
            BY DEF Phases, Steps
        <3>3. /\ AfterUpgrade(w.cr) \in Steps \cup {"requeue"}
              /\ CheckSanity(w.name, w.cr) \in Steps \cup {"requeue"}
            BY Decisions DEF Steps
        <3>4. CASE CrInit
            BY <1>0, <3>1, <3>2, <3>3, <3>4 DEF CrInit, env
        <3>5. CASE ReconcileError
            BY <1>0, <3>1, <3>2, <3>5 DEF ReconcileError, env
        <3>6. CASE CheckUpgrade
            BY <1>0, <3>1, <3>2, <3>3, <3>6 DEF CheckUpgrade, env
        <3>7. CASE ReconcileDelete
            BY <1>0, <3>1, <3>2, <3>7, ConstantTypes DEF ReconcileDelete, env
        <3> QED BY <1>2, <3>4, <3>5, <3>6, <3>7
    <2>2. w' \in Workers /\ queue' \subseteq Names /\ cr' \in [Names -> Crs]
        <3>1. CASE \E c \in Crs, pc \in Steps : UpdateCr(c, pc)
            BY <1>0, <2>1, <3>1, UpdateTypes
        <3>2. CASE UNCHANGED cr /\ \E pc \in Steps \cup {"requeue"} : Goto(pc)
            BY <1>0, <2>1, <3>2, GotoTypes
        <3> QED BY <2>1, <3>1, <3>2
    <2> QED BY <1>0, <2>1, <2>2, TypeMove
<1>3. CASE Finish
    <2>1. /\ w.pc = "finish" /\ UNCHANGED <<cm, cluster, seen, watching, used>>
          /\ \E pc \in Steps \cup {"requeue"} : Goto(pc)
          /\ \/ cr' = [cr EXCEPT ![w.name].phase = "Deployed", ![w.name].observed = TRUE]
             \/ cr' = cr
        BY <1>3 DEF Finish, Steps, env
    <2>2. w' \in Workers /\ queue' \subseteq Names
        BY <1>0, <2>1, GotoTypes
    <2>3. cr' \in [Names -> Crs]
        <3>1. \A c \in Crs : [[c EXCEPT !.phase = "Deployed"] EXCEPT !.observed = TRUE] \in Crs
            BY DEF Crs, Phases
        <3>2. CASE cr' = [cr EXCEPT ![w.name].phase = "Deployed", ![w.name].observed = TRUE]
            <4>1. cr' = [cr EXCEPT ![w.name] = [[cr[w.name] EXCEPT !.phase = "Deployed"] EXCEPT !.observed = TRUE]]
                BY <1>0, <2>1, <3>2
            <4> QED BY <1>0, <2>1, <3>1, <4>1
        <3> QED BY <1>0, <2>1, <3>2
    <2> QED BY <1>0, <2>1, <2>2, <2>3, TypeMove
<1>4. ASSUME NEW d \in Deployments, ApplyDeployment(d) PROVE TypeOK'
    <2>1. /\ w.pc = "apply" /\ UNCHANGED <<cr, cm, hooks, seen, watching, used>>
          /\ \E ok \in BOOLEAN : Applied(d, ok)
          /\ dep' = dep \/ dep' = [dep EXCEPT ![d].owner = OwnerOf(w.name, w.cr)]
        <3>1. Exists(seen.deps[d].owner) \in BOOLEAN
            BY DEF Exists
        <3> QED BY <1>4, <3>1 DEF ApplyDeployment, env
    <2>2. w' \in Workers /\ queue' \subseteq Names
        BY <2>1, AppliedTypes
    <2>3. /\ dep' \in [Deployments -> [owner : Owners, gated : 0..Replicas, up : 0..Replicas]]
          /\ \A e \in Deployments : dep'[e].gated + dep'[e].up =< Replicas
        BY <1>0, <2>1 DEF TypeOK
    <2> QED BY <2>1, <2>2, <2>3 DEF TypeOK, Workers
<1>5. CASE ApplyHooks
    <2>1. /\ w.pc = "apply" /\ UNCHANGED <<cr, cm, dep, seen, watching, used>>
          /\ \E ok \in BOOLEAN : Applied("hooks", ok)
          /\ \/ hooks' = [owner |-> OwnerOf(w.name, w.cr), on |-> w.on]
             \/ hooks' = [hooks EXCEPT !.on = w.on]
             \/ hooks' = hooks
        <3>1. (hooks = seen.hooks) \in BOOLEAN
            OBVIOUS
        <3> QED BY <1>5, <3>1 DEF ApplyHooks, env
    <2>2. w' \in Workers /\ queue' \subseteq Names
        BY <2>1, AppliedTypes
    <2>3. hooks' \in [owner : Owners, on : BOOLEAN]
        BY <1>0, <2>1, WorkerFacts DEF TypeOK, Workers
    <2> QED BY <2>1, <2>2, <2>3 DEF TypeOK, Workers
<1>6. CASE CallFails
    <2>1. used' \in [uids : 0..MaxUids, faults : 0..MaxFaults]
        BY <1>0, <1>6, OperatorAssumption DEF CallFails
    <2>2. UNCHANGED <<cr, cm, cluster, seen, watching>>
        BY <1>6 DEF CallFails
    <2>3. w' \in Workers /\ queue' \subseteq Names
        <3>1. CASE w.pc \in Steps \ {"idle", "down", "sanity", "render", "apply"} /\ Goto("requeue")
            BY <1>0, <3>1, GotoTypes
        <3>2. CASE \E k : Applied(k, FALSE)
            BY <3>2, AppliedTypes
        <3> QED BY <1>6, <3>1, <3>2 DEF CallFails
    <2> QED BY <1>0, <2>1, <2>2, <2>3, TypeMove
<1> QED BY <1>1, <1>2, <1>3, <1>4, <1>5, <1>6 DEF WorkerStep

\* What the caches may show.
Views == [cr : [Names -> Crs], cm : Owners, hooks : [owner : Owners, on : BOOLEAN],
          deps : [Deployments -> [owner : Owners, up : 0..Replicas]]]

LEMMA LiveTypes ==
    ASSUME TypeOK
    PROVE  Live \in Views
<1>1. [d \in Deployments |-> [owner |-> dep[d].owner, up |-> dep[d].up]]
          \in [Deployments -> [owner : Owners, up : 0..Replicas]]
    BY DEF TypeOK
<1> QED BY <1>1 DEF Live, Views, TypeOK

\* A worker that begins a reconcile is a worker.
LEMMA BegunTypes ==
    ASSUME NEW pc \in Steps, NEW n \in Names, NEW c \in Crs, NEW on \in BOOLEAN,
           NEW todo \in SUBSET (Deployments \cup {"hooks"})
    PROVE  [Idle EXCEPT !.pc = pc, !.name = n, !.cr = c, !.on = on, !.todo = todo] \in Workers
<1>1. Idle \in Workers
    BY ConstantTypes
<1> QED BY <1>1 DEF Workers

LEMMA TypeProcess ==
    ASSUME TypeOK, (\E n \in Names : Begin(n)) \/ Restart \/ Crash \/ \E part \in Parts : Deliver(part)
    PROVE  TypeOK'
<1>1. ASSUME NEW n \in Names, Begin(n) PROVE TypeOK'
    <2> DEFINE c == seen.cr[n]
               pc == Reconcile(n, c)
    <2>1. c \in Crs /\ pc \in Steps \cup {"requeue"}
        BY Decisions DEF TypeOK, Steps
    <2>2. queue' \subseteq Names /\ watching' \in BOOLEAN
        <3>1. queue' \subseteq queue \/ queue' = queue
            BY <1>1 DEF Begin
        <3>2. watching' \in BOOLEAN
            BY <1>1, Zenon DEF Begin
        <3> QED BY <3>1, <3>2 DEF TypeOK
    <2>3. w' \in Workers
        <3>1. ToApply \subseteq Deployments \cup {"hooks"}
            BY DEF ToApply
        <3>2. \/ w' = Down \/ w' = Idle
              \/ /\ pc # "requeue"
                 /\ w' = [Idle EXCEPT !.pc = pc, !.name = n, !.cr = c,
                                      !.on = (pc = "apply" /\ IncludeHooks),
                                      !.todo = IF pc = "apply" THEN ToApply ELSE {}]
            BY <1>1 DEF Begin
        <3>3. (pc = "apply" /\ IncludeHooks) \in BOOLEAN
            OBVIOUS
        <3> HIDE DEF pc, c
        <3>4. CASE w' = Down \/ w' = Idle
            BY <3>4, ConstantTypes
        <3>5. CASE /\ pc # "requeue"
                   /\ w' = [Idle EXCEPT !.pc = pc, !.name = n, !.cr = c,
                                        !.on = (pc = "apply" /\ IncludeHooks),
                                        !.todo = IF pc = "apply" THEN ToApply ELSE {}]
            <4>1. PICK todo \in SUBSET (Deployments \cup {"hooks"}) :
                      todo = IF pc = "apply" THEN ToApply ELSE {}
                BY <3>1
            <4>2. PICK on \in BOOLEAN : on = (pc = "apply" /\ IncludeHooks)
                BY <3>3, Zenon
            <4>3. pc \in Steps /\ c \in Crs
                BY <2>1, <3>5
            <4>4. w' = [Idle EXCEPT !.pc = pc, !.name = n, !.cr = c, !.on = on, !.todo = todo]
                BY <3>5, <4>1, <4>2, Zenon
            <4> QED BY <4>3, <4>4, BegunTypes, Zenon
        <3> QED BY <3>2, <3>4, <3>5
    <2>4. UNCHANGED <<cr, cm, dep, hooks, seen, used>>
        BY <1>1 DEF Begin, cluster
    <2> HIDE DEF c, pc
    <2> QED BY <2>2, <2>3, <2>4 DEF TypeOK, Workers
<1>2. CASE Restart
    BY <1>2, ConstantTypes, LiveTypes DEF TypeOK, Restart, cluster, Workers, Views
<1>3. CASE Crash
    <2>1. used' \in [uids : 0..MaxUids, faults : 0..MaxFaults]
        BY <1>3, OperatorAssumption DEF Crash, TypeOK
    <2> QED BY <1>3, <2>1, ConstantTypes DEF TypeOK, Crash, cluster, Workers
<1>4. ASSUME NEW part \in Parts, Deliver(part) PROVE TypeOK'
    <2>1. seen' \in Views
        <3>1. seen \in Views /\ seen' = [seen EXCEPT ![part] = Live[part]]
            BY <1>4 DEF TypeOK, Views, Deliver
        <3> QED BY <3>1, LiveTypes DEF Views, Parts
    <2>2. queue' \subseteq Names
        <3>1. Wakes(part) \subseteq Names
            BY DEF Wakes
        <3> QED BY <1>4, <3>1 DEF Deliver, TypeOK
    <2> QED BY <1>4, <2>1, <2>2 DEF TypeOK, Deliver, cluster, Views
<1> QED BY <1>1, <1>2, <1>3, <1>4

LEMMA TypeWorld ==
    ASSUME TypeOK,
           \/ Collect
           \/ \E n \in Names : CreateCr(n) \/ DeleteCr(n)
           \/ \E d \in Deployments : CreatePod(d) \/ ReleasePod(d) \/ LosePod(d)
    PROVE  TypeOK'
<1> USE OperatorAssumption
<1>1. CASE Collect
    <2>1. cm' = cm \/ cm' = Nobody
        BY <1>1 DEF Collect, cluster
    <2>2. hooks' = hooks \/ hooks' = NoHooks
        BY <1>1 DEF Collect, cluster
    <2>3. dep' = dep \/ \E d \in Deployments : dep' = [dep EXCEPT ![d] = NoDeployment]
        BY <1>1 DEF Collect, cluster
    <2>4. /\ dep' \in [Deployments -> [owner : Owners, gated : 0..Replicas, up : 0..Replicas]]
          /\ \A d \in Deployments : dep'[d].gated + dep'[d].up =< Replicas
        <3>1. NoDeployment.gated = 0 /\ NoDeployment.up = 0 /\ 0 + 0 =< Replicas
            BY DEF NoDeployment
        <3>2. /\ dep \in [Deployments -> [owner : Owners, gated : 0..Replicas, up : 0..Replicas]]
              /\ \A d \in Deployments : dep[d].gated + dep[d].up =< Replicas
            BY DEF TypeOK
        <3>3. ASSUME NEW d \in Deployments, dep' = [dep EXCEPT ![d] = NoDeployment]
              PROVE  /\ dep' \in [Deployments -> [owner : Owners, gated : 0..Replicas, up : 0..Replicas]]
                     /\ \A e \in Deployments : dep'[e].gated + dep'[e].up =< Replicas
            <4>1. dep' \in [Deployments -> [owner : Owners, gated : 0..Replicas, up : 0..Replicas]]
                BY <3>2, <3>3, ConstantTypes
            <4>2. \A e \in Deployments : dep'[e] = NoDeployment \/ dep'[e] = dep[e]
                BY <3>2, <3>3
            <4> QED BY <3>1, <3>2, <4>1, <4>2
        <3> QED BY <2>3, <3>2, <3>3
    <2>5. UNCHANGED <<cr, used, seen, queue, watching, w>>
        BY <1>1 DEF Collect, world
    <2> QED BY <2>1, <2>2, <2>4, <2>5, ConstantTypes DEF TypeOK
<1>2. ASSUME NEW n \in Names, CreateCr(n) \/ DeleteCr(n) PROVE TypeOK'
    <2>1. CASE CreateCr(n)
        <3>1. used' \in [uids : 0..MaxUids, faults : 0..MaxFaults] /\ used.uids + 1 \in 0..MaxUids
            BY <2>1 DEF CreateCr, TypeOK
        <3>2. [NoCr EXCEPT !.uid = used.uids + 1] \in Crs
            BY <3>1, ConstantTypes DEF Crs
        <3> QED BY <2>1, <3>1, <3>2 DEF CreateCr, TypeOK, cluster, world
    <2>2. CASE DeleteCr(n)
        <3>1. [cr[n] EXCEPT !.deleting = TRUE] \in Crs
            <4>1. cr[n] \in Crs
                BY DEF TypeOK
            <4> QED BY <4>1 DEF Crs
        <3>2. UNCHANGED <<cm, dep, hooks, seen, queue, watching, w, used>>
            BY <2>2 DEF DeleteCr, cluster, world
        <3>3. cr' \in [Names -> Crs]
            BY <2>2, <3>1, ConstantTypes DEF DeleteCr, TypeOK
        <3> QED BY <3>2, <3>3 DEF TypeOK
    <2> QED BY <1>2, <2>1, <2>2
<1>3. ASSUME NEW d \in Deployments, CreatePod(d) \/ ReleasePod(d) \/ LosePod(d) PROVE TypeOK'
    <2>1. /\ dep' \in [Deployments -> [owner : Owners, gated : 0..Replicas, up : 0..Replicas]]
          /\ \A e \in Deployments : dep'[e].gated + dep'[e].up =< Replicas
        <3>1. /\ dep[d] \in [owner : Owners, gated : 0..Replicas, up : 0..Replicas]
              /\ dep[d].gated + dep[d].up =< Replicas
            BY DEF TypeOK
        <3>2. ASSUME NEW g \in 0..Replicas, NEW u \in 0..Replicas, g + u =< Replicas,
                     dep' = [dep EXCEPT ![d] = [dep[d] EXCEPT !.gated = g, !.up = u]]
              PROVE  /\ dep' \in [Deployments -> [owner : Owners, gated : 0..Replicas, up : 0..Replicas]]
                     /\ \A e \in Deployments : dep'[e].gated + dep'[e].up =< Replicas
            <4> DEFINE r == [dep[d] EXCEPT !.gated = g, !.up = u]
            <4>1. /\ dep \in [Deployments -> [owner : Owners, gated : 0..Replicas, up : 0..Replicas]]
                  /\ \A e \in Deployments : dep[e].gated + dep[e].up =< Replicas
                BY DEF TypeOK
            <4>2. r \in [owner : Owners, gated : 0..Replicas, up : 0..Replicas] /\ r.gated = g /\ r.up = u
                BY <3>1
            <4>3. dep' = [dep EXCEPT ![d] = r]
                BY <3>2
            <4> HIDE DEF r
            <4>4. \A e \in Deployments : dep'[e] = IF e = d THEN r ELSE dep[e]
                BY <4>1, <4>3
            <4> QED BY <3>2, <4>1, <4>2, <4>3, <4>4
        <3>3. \A g, u : /\ g = dep[d].gated => [dep[d] EXCEPT !.up = u] = [dep[d] EXCEPT !.gated = g, !.up = u]
                        /\ u = dep[d].up => [dep[d] EXCEPT !.gated = g] = [dep[d] EXCEPT !.gated = g, !.up = u]
            BY <3>1
        <3>4. /\ dep[d].gated \in 0..Replicas /\ dep[d].up \in 0..Replicas
              /\ dep[d].gated + dep[d].up =< Replicas /\ Replicas \in Nat
            BY <3>1, ConstantTypes
        <3>5. CASE CreatePod(d)
            <4>1. dep[d].gated + dep[d].up < Replicas
                BY <3>5 DEF CreatePod
            <4>2. CASE dep' = [dep EXCEPT ![d].up = @ + 1]
                <5>1. dep[d].up + 1 \in 0..Replicas /\ dep[d].gated + (dep[d].up + 1) =< Replicas
                    BY <3>4, <4>1
                <5>2. dep' = [dep EXCEPT ![d] = [dep[d] EXCEPT !.gated = dep[d].gated, !.up = dep[d].up + 1]]
                    BY <3>3, <4>2
                <5> QED BY <3>2, <3>4, <5>1, <5>2
            <4>3. CASE dep' = [dep EXCEPT ![d].gated = @ + 1]
                <5>1. dep[d].gated + 1 \in 0..Replicas /\ (dep[d].gated + 1) + dep[d].up =< Replicas
                    BY <3>4, <4>1
                <5>2. dep' = [dep EXCEPT ![d] = [dep[d] EXCEPT !.gated = dep[d].gated + 1, !.up = dep[d].up]]
                    BY <3>3, <4>3
                <5> QED BY <3>2, <3>4, <5>1, <5>2
            <4> QED BY <3>5, <4>2, <4>3 DEF CreatePod
        <3>6. CASE ReleasePod(d)
            <4>1. /\ dep' = [dep EXCEPT ![d].gated = @ - 1, ![d].up = @ + 1]
                  /\ dep[d].gated > 0
                BY <3>6 DEF ReleasePod
            <4>2. /\ dep[d].gated - 1 \in 0..Replicas /\ dep[d].up + 1 \in 0..Replicas
                  /\ (dep[d].gated - 1) + (dep[d].up + 1) =< Replicas
                BY <3>4, <4>1
            <4>3. dep' = [dep EXCEPT ![d] = [dep[d] EXCEPT !.gated = dep[d].gated - 1, !.up = dep[d].up + 1]]
                BY <4>1 DEF TypeOK
            <4> QED BY <3>2, <4>2, <4>3
        <3>7. CASE LosePod(d)
            <4>1. dep' = [dep EXCEPT ![d].up = @ - 1] /\ dep[d].up > 0
                BY <3>4, <3>7 DEF LosePod
            <4>2. dep[d].up - 1 \in 0..Replicas /\ dep[d].gated + (dep[d].up - 1) =< Replicas
                BY <3>4, <4>1
            <4>3. dep' = [dep EXCEPT ![d] = [dep[d] EXCEPT !.gated = dep[d].gated, !.up = dep[d].up - 1]]
                BY <3>3, <4>1
            <4> QED BY <3>2, <3>4, <4>2, <4>3
        <3> QED BY <1>3, <3>5, <3>6, <3>7
    <2>2. used' \in [uids : 0..MaxUids, faults : 0..MaxFaults]
        <3>0. used \in [uids : 0..MaxUids, faults : 0..MaxFaults]
            BY DEF TypeOK
        <3>1. CASE used' = used
            BY <3>0, <3>1
        <3>2. CASE LosePod(d)
            <4>1. used.faults < MaxFaults /\ used' = [used EXCEPT !.faults = used.faults + 1]
                BY <3>2 DEF LosePod
            <4>2. used.faults + 1 \in 0..MaxFaults
                BY <3>0, <4>1, ConstantTypes
            <4> QED BY <3>0, <4>1, <4>2
        <3> QED BY <1>3, <3>1, <3>2 DEF CreatePod, ReleasePod
    <2>3. UNCHANGED <<cr, cm, hooks, seen, queue, watching, w>>
        BY <1>3 DEF CreatePod, ReleasePod, LosePod, world
    <2> QED BY <2>1, <2>2, <2>3 DEF TypeOK
<1> QED BY <1>1, <1>2, <1>3

-----------------------------------------------------------------------------
(* The invariant.                                                           *)

\* The owners of the objects, and where a reconcile relies on the config map.
Objects == {hooks.owner} \cup {dep[d].owner : d \in Deployments}
Late == {"init", "finalizer", "sanity", "upgrade", "render", "apply", "finish"}

LEMMA ConfigFacts ==
    /\ OwnerHoldsConfig <=> \A o \in Objects : Alive(o) => cm = o
    /\ ConfigStays <=> /\ Alive(seen.cm) => cm = seen.cm
                       /\ w.pc \in Late /\ cr[w.name].uid = w.cr.uid => cm = OwnerOf(w.name, w.cr)
    /\ UidsKnown <=>
          /\ \A n \in Names : /\ cr[n] = NoCr \/ cr[n].uid \in 1..used.uids
                              /\ seen.cr[n] = NoCr \/ seen.cr[n].uid \in 1..used.uids
          /\ \A o \in {cm, seen.cm} \cup Objects :
                Exists(o) => o.name \in Names /\ o.uid \in 1..used.uids
          /\ w.pc \notin {"idle", "down"} => w.name \in Names /\ w.cr.uid \in 1..used.uids
    BY DEF OwnerHoldsConfig, ConfigStays, UidsKnown, Objects, Late

\* An AAQ that is gone does not come back: its uid is not given out again.
LEMMA StillAlive ==
    ASSUME TypeOK, NEW o, Exists(o) => o.name \in Names /\ o.uid \in 1..used.uids,
           \A n \in Names : cr'[n].uid \in {cr[n].uid, 0, used.uids + 1},
           Alive(o)'
    PROVE  Alive(o)
<1>1. Exists(o) /\ cr'[o.name].uid = o.uid
    BY DEF Alive, Exists
<1>2. used.uids \in Nat
    BY OperatorAssumption DEF TypeOK
<1> QED BY <1>1, <1>2 DEF Alive

\* What every step keeps to: it brings back no uid, takes the config map from no
\* living AAQ, makes objects for no AAQ but the one being applied, and carries no
\* reconcile that far without the config map.
Lawful ==
    /\ used'.uids \in {used.uids, used.uids + 1}
    /\ \A n \in Names : /\ cr'[n].uid \in {cr[n].uid, 0, used.uids + 1}
                        /\ cr'[n] = NoCr \/ cr'[n].uid \in 1..used'.uids
                        /\ seen'.cr[n] \in {seen.cr[n], cr[n]}
    /\ seen'.cm \in {seen.cm, cm}
    /\ \/ cm' = cm
       \/ cm' = Nobody /\ ~Alive(cm)
       \/ cm = Nobody /\ w.pc = "create" /\ cm' = OwnerOf(w.name, w.cr)
    /\ \A o \in Objects' :
          o \in Objects \/ o = Nobody \/ (w.pc = "apply" /\ o = OwnerOf(w.name, w.cr))
    /\ w'.pc \notin {"idle", "down"} => w'.name \in Names /\ w'.cr.uid \in 1..used.uids
    /\ w'.pc \in Late => \/ w.pc \in Late /\ w'.name = w.name /\ w'.cr.uid = w.cr.uid
                        \/ cm' = OwnerOf(w'.name, w'.cr)
                        \/ seen.cm = OwnerOf(w'.name, w'.cr)

LEMMA OwnerStep ==
    ASSUME OwnerInv, Lawful
    PROVE  UidsKnown' /\ ConfigStays' /\ OwnerHoldsConfig'
<1> DEFINE Known(o) == Exists(o) => o.name \in Names /\ o.uid \in 1..used.uids
<1> USE DEF Lawful
<1>1. used.uids \in Nat /\ 1..used.uids \subseteq 1..used'.uids
    BY OperatorAssumption DEF OwnerInv, TypeOK
<1>2. /\ OwnerHoldsConfig /\ ConfigStays /\ UidsKnown /\ TypeOK
      /\ \A o \in {cm, seen.cm} \cup Objects : Known(o)
    BY ConfigFacts DEF OwnerInv
<1>3. ASSUME NEW n, NEW c, n \in Names, c.uid \in 1..used.uids
      PROVE  /\ OwnerOf(n, c).name = n /\ OwnerOf(n, c).uid = c.uid /\ Exists(OwnerOf(n, c))
             /\ Known(OwnerOf(n, c))
    BY <1>3 DEF OwnerOf, Exists, Nobody
<1>4. \A o : Alive(o) => Exists(o)
    BY DEF Alive
<1>5. ~Exists(Nobody)
    BY DEF Exists
<1>6. Alive(cm) => cm' = cm
    BY <1>4, <1>5
<1>7. w.pc \in {"create", "apply"} \cup Late =>
          w.name \in Names /\ w.cr.uid \in 1..used.uids
    BY <1>2, ConfigFacts DEF Late
<1>8. ASSUME NEW o, Known(o), Alive(o)' PROVE Alive(o)
    BY <1>2, <1>8, StillAlive
<1>9. UidsKnown'
    <2>1. \A n \in Names : /\ cr'[n] = NoCr \/ cr'[n].uid \in 1..used'.uids
                           /\ seen'.cr[n] = NoCr \/ seen'.cr[n].uid \in 1..used'.uids
        BY <1>1, <1>2, ConfigFacts
    <2>2. \A o \in {cm', seen'.cm} \cup Objects' : Known(o)
        BY <1>2, <1>3, <1>5, <1>7
    <2>3. \A o \in {cm', seen'.cm} \cup Objects' :
              Exists(o) => o.name \in Names /\ o.uid \in 1..used'.uids
        BY <1>1, <2>2
    <2>4. w'.pc \notin {"idle", "down"} => w'.name \in Names /\ w'.cr.uid \in 1..used'.uids
        BY <1>1
    <2> QED BY <2>1, <2>3, <2>4, ConfigFacts DEF UidsKnown, Objects, Exists
<1>10. ConfigStays'
    <2>1. ASSUME Alive(seen.cm)' PROVE cm' = seen'.cm
        <3>1. PICK o : o = seen'.cm
            OBVIOUS
        <3>2. Alive(o)' /\ Known(o)
            BY <1>2, <2>1, <3>1 DEF Alive, Exists
        <3>3. Alive(o)
            BY <1>8, <3>2
        <3> QED BY <1>2, <1>6, <3>1, <3>3, ConfigFacts
    <2>2. ASSUME w'.pc \in Late, cr'[w'.name].uid = w'.cr.uid PROVE cm' = OwnerOf(w'.name, w'.cr)
        <3>1. w'.name \in Names /\ w'.cr.uid \in 1..used.uids
            BY <2>2 DEF Late
        <3>2. Alive(OwnerOf(w'.name, w'.cr))
            <4>1. cr[w'.name].uid = w'.cr.uid
                BY <1>1, <2>2, <3>1
            <4> QED BY <1>3, <3>1, <4>1 DEF Alive
        <3>3. CASE w.pc \in Late /\ w'.name = w.name /\ w'.cr.uid = w.cr.uid
            <4>1. OwnerOf(w'.name, w'.cr) = OwnerOf(w.name, w.cr) /\ cr[w.name].uid = w.cr.uid
                BY <1>1, <2>2, <3>1, <3>3 DEF OwnerOf
            <4>2. cm = OwnerOf(w.name, w.cr)
                BY <1>2, <3>3, <4>1, ConfigFacts
            <4> QED BY <1>6, <3>2, <4>1, <4>2
        <3>4. CASE seen.cm = OwnerOf(w'.name, w'.cr)
            BY <1>2, <1>6, <3>2, <3>4, ConfigFacts
        <3> QED BY <2>2, <3>3, <3>4
    <2> QED BY <2>1, <2>2 DEF ConfigStays, Late, OwnerOf
<1>11. OwnerHoldsConfig'
    <2>1. ASSUME NEW o \in Objects', Alive(o)' PROVE cm' = o
        <3>1. CASE o \in Objects
            BY <1>2, <1>6, <1>8, <2>1, <3>1, ConfigFacts
        <3>2. CASE o = Nobody
            BY <1>5, <2>1, <3>2 DEF Alive, Exists
        <3>3. CASE w.pc = "apply" /\ o = OwnerOf(w.name, w.cr)
            <4>1. Alive(o)
                BY <1>3, <1>7, <1>8, <2>1, <3>3
            <4>2. cr[w.name].uid = w.cr.uid
                BY <1>3, <1>7, <3>3, <4>1 DEF Alive
            <4>3. cm = o
                BY <1>2, <3>3, <4>2, ConfigFacts DEF Late
            <4> QED BY <1>6, <4>1, <4>3
        <3> QED BY <2>1, <3>1, <3>2, <3>3
    <2> QED BY <2>1 DEF OwnerHoldsConfig, Objects, Alive, Exists
<1> QED BY <1>9, <1>10, <1>11

\* A step that leaves the objects and the caches alone, and the worker idle or
\* with the AAQ it has.
LEMMA LawfulMove ==
    ASSUME OwnerInv, used'.uids = used.uids, UNCHANGED <<cm, dep, hooks, seen>>,
           \A n \in Names : cr'[n] = cr[n] \/ cr'[n] = NoCr
                            \/ (cr'[n].uid = cr[n].uid /\ cr[n].uid \in 1..used.uids),
           \/ w'.pc \in {"idle", "down"}
           \/ /\ w.pc \notin {"idle", "down"} /\ w'.name = w.name /\ w'.cr.uid = w.cr.uid
              /\ w'.pc \in Late => w.pc \in Late
    PROVE  Lawful
<1>1. /\ \A n \in Names : cr[n] = NoCr \/ cr[n].uid \in 1..used.uids
      /\ w.pc \notin {"idle", "down"} => w.name \in Names /\ w.cr.uid \in 1..used.uids
    BY ConfigFacts DEF OwnerInv
<1>2. Objects' = Objects
    BY DEF Objects
<1>3. NoCr.uid = 0
    BY ConstantTypes
<1> QED BY <1>1, <1>2, <1>3 DEF Lawful, Late

\* Goto keeps the worker's AAQ or ends the reconcile.
LEMMA GotoKeeps ==
    ASSUME TypeOK, NEW pc, Goto(pc)
    PROVE  \/ w'.pc \in {"idle", "down"}
           \/ w'.pc = pc /\ w'.name = w.name /\ w'.cr = w.cr
<1>1. CASE pc \in {"idle", "requeue", "down"}
    BY <1>1, ConstantTypes DEF Goto
<1>2. CASE pc \notin {"idle", "requeue", "down"}
    BY <1>2, WorkerFacts DEF Goto, Workers
<1> QED BY <1>1, <1>2

\* An update of the AAQ keeps its uid, or removes it at the end.
LEMMA UpdateKeeps ==
    ASSUME OwnerInv, w.pc \notin {"idle", "down"}, NEW c, NEW pc, UpdateCr(c, pc),
           (c = NoCr /\ pc = "idle") \/ c.uid = w.cr.uid
    PROVE  /\ \A n \in Names : cr'[n] = cr[n] \/ cr'[n] = NoCr
                               \/ (cr'[n].uid = cr[n].uid /\ cr[n].uid \in 1..used.uids)
           /\ \/ w'.pc \in {"idle", "down"}
              \/ w'.pc = pc /\ w'.name = w.name /\ w'.cr.uid = w.cr.uid
<1>0. TypeOK /\ w.name \in Names /\ w.cr.uid \in 1..used.uids
    BY DEF OwnerInv, UidsKnown
<1>1. CASE /\ cr[w.name] = w.cr /\ cr' = [cr EXCEPT ![w.name] = c]
           /\ w' = IF pc = "idle" THEN Idle ELSE [w EXCEPT !.pc = pc, !.cr = c]
    <2>1. \A n \in Names : cr'[n] = IF n = w.name THEN c ELSE cr[n]
        BY <1>0, <1>1 DEF TypeOK
    <2>2. pc = "idle" => w'.pc = "idle"
        BY <1>1, ConstantTypes
    <2>3. pc # "idle" => w'.pc = pc /\ w'.name = w.name /\ w'.cr = c
        BY <1>0, <1>1, WorkerFacts DEF Workers
    <2> QED BY <1>0, <1>1, <2>1, <2>2, <2>3
<1>2. CASE Goto("requeue") /\ UNCHANGED cr
    <2>1. w'.pc = "idle"
        BY <1>2, ConstantTypes DEF Goto
    <2> QED BY <1>2, <2>1
<1> QED BY <1>1, <1>2 DEF UpdateCr

LEMMA AppliedKeeps ==
    ASSUME TypeOK, w.pc = "apply", NEW k, NEW ok, Applied(k, ok)
    PROVE  w'.pc \in Late /\ w'.name = w.name /\ w'.cr = w.cr
    BY WorkerFacts DEF Applied, Workers, Late

LEMMA LawfulWorker ==
    ASSUME OwnerInv, WorkerStep \/ CallFails
    PROVE  Lawful
<1>0. /\ TypeOK /\ w.cr \in Crs
      /\ w.pc \notin {"idle", "down"} => w.name \in Names /\ w.cr.uid \in 1..used.uids
    BY WorkerFacts DEF OwnerInv, UidsKnown
<1>1. CASE PreCreate
    <2>1. /\ w.pc = "create" /\ UNCHANGED <<cr, dep, hooks, seen, used>>
          /\ cm' = IF cm = Nobody THEN OwnerOf(w.name, w.cr) ELSE cm
          /\ Goto(IF cm = Nobody THEN "init" ELSE "requeue")
        BY <1>1 DEF PreCreate, cluster, env
    <2>2. CASE cm = Nobody
        <3>1. w'.pc \in {"idle", "down"} \/ (w'.pc = "init" /\ w'.name = w.name /\ w'.cr = w.cr)
            BY <1>0, <2>1, <2>2, GotoKeeps
        <3>2. Objects' = Objects
            BY <2>1 DEF Objects
        <3>3. \A n \in Names : cr[n] = NoCr \/ cr[n].uid \in 1..used.uids
            BY ConfigFacts DEF OwnerInv
        <3> QED BY <1>0, <2>1, <2>2, <3>1, <3>2, <3>3 DEF Lawful, Late
    <2>3. CASE cm # Nobody
        <3>1. w'.pc = "idle"
            BY <2>1, <2>3, ConstantTypes DEF Goto
        <3> QED BY <2>1, <2>3, <3>1, LawfulMove
    <2> QED BY <2>2, <2>3
<1>2. CASE CrInit \/ ReconcileError \/ CheckUpgrade \/ ReconcileDelete
    <2>1. /\ w.pc \notin {"idle", "down"} /\ UNCHANGED <<cm, dep, hooks, seen, used>>
          /\ \E pc : /\ pc \in Late => w.pc \in Late
                     /\ \/ UNCHANGED cr /\ Goto(pc)
                        \/ \E c : /\ UpdateCr(c, pc)
                                  /\ (c = NoCr /\ pc = "idle") \/ c.uid = w.cr.uid
        <3>1. \A ph : /\ [w.cr EXCEPT !.phase = ph].uid = w.cr.uid
                      /\ [w.cr EXCEPT !.fin = TRUE].uid = w.cr.uid
            BY <1>0 DEF Crs
        <3>2. {"finalizer", "render"} \subseteq Late
              /\ \A pc \in {"idle", "callbacks", "release", "down"} : pc \notin Late
              /\ {"init", "finalizer", "sanity", "upgrade", "render"} \subseteq Late
            BY DEF Late
        <3>3. CASE CrInit
            BY <3>1, <3>2, <3>3 DEF CrInit, env, cluster
        <3>4. CASE ReconcileError
            BY <3>1, <3>2, <3>4 DEF ReconcileError, env, cluster
        <3>5. CASE CheckUpgrade
            BY <3>1, <3>2, <3>5 DEF CheckUpgrade, env, cluster
        <3>6. CASE ReconcileDelete
            BY <3>1, <3>2, <3>6 DEF ReconcileDelete, env, cluster
        <3> QED BY <1>2, <3>3, <3>4, <3>5, <3>6
    <2>2. PICK pc : /\ pc \in Late => w.pc \in Late
                    /\ \/ UNCHANGED cr /\ Goto(pc)
                       \/ \E c : /\ UpdateCr(c, pc)
                                 /\ (c = NoCr /\ pc = "idle") \/ c.uid = w.cr.uid
        BY <2>1
    <2>3. CASE UNCHANGED cr /\ Goto(pc)
        <3>1. w'.pc \in {"idle", "down"} \/ (w'.pc = pc /\ w'.name = w.name /\ w'.cr = w.cr)
            BY <1>0, <2>3, GotoKeeps
        <3> QED BY <2>1, <2>2, <2>3, <3>1, LawfulMove
    <2>4. ASSUME NEW c, UpdateCr(c, pc), (c = NoCr /\ pc = "idle") \/ c.uid = w.cr.uid PROVE Lawful
        <3>1. /\ \A n \in Names : cr'[n] = cr[n] \/ cr'[n] = NoCr
                               \/ (cr'[n].uid = cr[n].uid /\ cr[n].uid \in 1..used.uids)
              /\ \/ w'.pc \in {"idle", "down"}
                 \/ w'.pc = pc /\ w'.name = w.name /\ w'.cr.uid = w.cr.uid
            BY <2>1, <2>4, UpdateKeeps
        <3> QED BY <2>1, <2>2, <3>1, LawfulMove
    <2> QED BY <2>2, <2>3, <2>4
<1>3. CASE Finish
    <2>1. /\ w.pc = "finish" /\ UNCHANGED <<cm, dep, hooks, seen, used>>
          /\ Goto("down") \/ Goto("requeue")
          /\ \/ cr[w.name] = w.cr
                /\ cr' = [cr EXCEPT ![w.name].phase = "Deployed", ![w.name].observed = TRUE]
             \/ cr' = cr
        BY <1>3 DEF Finish, env, cluster
    <2>2. w'.pc \in {"idle", "down"}
        BY <2>1, ConstantTypes DEF Goto
    <2>3. \A n \in Names : cr'[n] = cr[n] \/ (cr'[n].uid = cr[n].uid /\ cr[n].uid \in 1..used.uids)
        <3>1. CASE cr[w.name] = w.cr
                   /\ cr' = [cr EXCEPT ![w.name].phase = "Deployed", ![w.name].observed = TRUE]
            <4>1. cr' = [cr EXCEPT ![w.name] = [[cr[w.name] EXCEPT !.phase = "Deployed"] EXCEPT !.observed = TRUE]]
                BY <1>0, <2>1, <3>1 DEF TypeOK
            <4>2. [[w.cr EXCEPT !.phase = "Deployed"] EXCEPT !.observed = TRUE].uid = w.cr.uid
                BY <1>0 DEF Crs
            <4> QED BY <1>0, <2>1, <3>1, <4>1, <4>2 DEF TypeOK
        <3> QED BY <2>1, <3>1
    <2> QED BY <2>1, <2>2, <2>3, LawfulMove
<1>4. ASSUME NEW d \in Deployments, ApplyDeployment(d) PROVE Lawful
    <2>1. /\ w.pc = "apply" /\ UNCHANGED <<cr, cm, hooks, seen, used>>
          /\ \E ok : Applied(d, ok)
          /\ dep' = dep \/ dep' = [dep EXCEPT ![d].owner = OwnerOf(w.name, w.cr)]
        BY <1>4 DEF ApplyDeployment, env
    <2>2. w'.pc \in Late /\ w'.name = w.name /\ w'.cr = w.cr
        BY <1>0, <2>1, AppliedKeeps
    <2>3. \A o \in Objects' : o \in Objects \/ o = OwnerOf(w.name, w.cr)
        <3>1. \A e \in Deployments : dep'[e].owner = dep[e].owner \/ dep'[e].owner = OwnerOf(w.name, w.cr)
            BY <1>0, <2>1 DEF TypeOK
        <3> QED BY <2>1, <3>1 DEF Objects
    <2>4. \A n \in Names : cr[n] = NoCr \/ cr[n].uid \in 1..used.uids
        BY ConfigFacts DEF OwnerInv
    <2> QED BY <1>0, <2>1, <2>2, <2>3, <2>4 DEF Lawful, Late
<1>5. CASE ApplyHooks
    <2>1. /\ w.pc = "apply" /\ UNCHANGED <<cr, cm, dep, seen, used>>
          /\ \E ok : Applied("hooks", ok)
          /\ \/ hooks' = [owner |-> OwnerOf(w.name, w.cr), on |-> w.on]
             \/ hooks' = [hooks EXCEPT !.on = w.on]
             \/ hooks' = hooks
        BY <1>5 DEF ApplyHooks, env
    <2>2. w'.pc \in Late /\ w'.name = w.name /\ w'.cr = w.cr
        BY <1>0, <2>1, AppliedKeeps
    <2>3. \A o \in Objects' : o \in Objects \/ o = OwnerOf(w.name, w.cr)
        <3>1. hooks'.owner = hooks.owner \/ hooks'.owner = OwnerOf(w.name, w.cr)
            BY <1>0, <2>1 DEF TypeOK
        <3> QED BY <2>1, <3>1 DEF Objects
    <2>4. \A n \in Names : cr[n] = NoCr \/ cr[n].uid \in 1..used.uids
        BY ConfigFacts DEF OwnerInv
    <2> QED BY <1>0, <2>1, <2>2, <2>3, <2>4 DEF Lawful, Late
<1>6. CASE CallFails
    <2>1. UNCHANGED <<cr, cm, dep, hooks, seen>> /\ used'.uids = used.uids
        BY <1>0, <1>6 DEF CallFails, cluster, TypeOK
    <2>2. CASE Goto("requeue")
        <3>1. w'.pc = "idle"
            BY <2>2, ConstantTypes DEF Goto
        <3> QED BY <2>1, <3>1, LawfulMove
    <2>3. CASE w.pc = "apply" /\ \E k : Applied(k, FALSE)
        <3>1. w'.pc \in Late /\ w'.name = w.name /\ w'.cr = w.cr
            BY <1>0, <2>3, AppliedKeeps
        <3> QED BY <2>1, <2>3, <3>1, LawfulMove DEF Late
    <2> QED BY <1>6, <2>2, <2>3 DEF CallFails
<1> QED BY <1>1, <1>2, <1>3, <1>4, <1>5, <1>6 DEF WorkerStep

LEMMA LawfulProcess ==
    ASSUME OwnerInv,
           (\E n \in Names : Begin(n)) \/ Restart \/ Crash \/ \E part \in Parts : Deliver(part)
    PROVE  Lawful
<1>0. /\ TypeOK
      /\ \A n \in Names : cr[n] = NoCr \/ cr[n].uid \in 1..used.uids
      /\ \A n \in Names : seen.cr[n] = NoCr \/ seen.cr[n].uid \in 1..used.uids
      /\ w.pc \notin {"idle", "down"} => w.name \in Names /\ w.cr.uid \in 1..used.uids
    BY ConfigFacts DEF OwnerInv
<1>1. ASSUME NEW n \in Names, Begin(n) PROVE Lawful
    <2> DEFINE c == seen.cr[n]
               pc == Reconcile(n, c)
    <2>1. UNCHANGED <<cr, cm, dep, hooks, seen, used>> /\ Objects' = Objects
        BY <1>1 DEF Begin, cluster, Objects
    <2>2. pc \in Late => seen.cm = OwnerOf(n, c)
        <3>1. AfterUpgrade(c) \in {"down", "apply", "finish", "requeue"}
            BY Decisions
        <3>2. CheckSanity(n, c) \in Late => seen.cm = OwnerOf(n, c)
            BY <3>1 DEF CheckSanity, Late
        <3> QED BY <3>2 DEF Reconcile, Late
    <2>3. pc \notin {"idle", "requeue", "down"} => c # NoCr
        <3>1. ~NoCr.deleting
            BY DEF NoCr
        <3> QED BY <3>1 DEF Reconcile
    <2>4. \/ w'.pc \in {"idle", "down"}
          \/ /\ pc \notin {"idle", "requeue", "down"}
             /\ w'.pc = pc /\ w'.name = n /\ w'.cr = c
        <3>1. \/ w' = Down \/ w' = Idle
              \/ /\ pc \notin {"idle", "requeue", "down"}
                 /\ w' = [Idle EXCEPT !.pc = pc, !.name = n, !.cr = c,
                                      !.on = (pc = "apply" /\ IncludeHooks),
                                      !.todo = IF pc = "apply" THEN ToApply ELSE {}]
            BY <1>1 DEF Begin
        <3> HIDE DEF pc, c
        <3> QED BY <3>1, ConstantTypes DEF Workers
    <2> HIDE DEF pc
    <2>5. ASSUME w'.pc \notin {"idle", "down"}
          PROVE  w'.name = n /\ w'.cr = c /\ c.uid \in 1..used.uids
        BY <1>0, <2>3, <2>4, <2>5
    <2>6. w'.pc \in Late => seen.cm = OwnerOf(w'.name, w'.cr)
        BY <2>2, <2>4, <2>5 DEF Late
    <2> HIDE DEF c
    <2> QED BY <1>0, <2>1, <2>5, <2>6 DEF Lawful
<1>2. CASE Restart
    <2>1. /\ w' = Idle /\ UNCHANGED <<cr, cm, dep, hooks, used>>
          /\ seen'.cr = cr /\ seen'.cm = cm
        BY <1>2 DEF Restart, cluster, Live
    <2> QED BY <1>0, <2>1, ConstantTypes DEF Lawful, Objects, Late
<1>3. CASE Crash
    <2>1. w'.pc = "down" /\ UNCHANGED <<cr, cm, dep, hooks, seen>> /\ used'.uids = used.uids
        BY <1>0, <1>3, ConstantTypes DEF Crash, cluster, TypeOK
    <2> QED BY <2>1, LawfulMove
<1>4. ASSUME NEW part \in Parts, Deliver(part) PROVE Lawful
    <2>1. UNCHANGED <<cr, cm, dep, hooks, used, w>> /\ seen' = [seen EXCEPT ![part] = Live[part]]
        BY <1>4 DEF Deliver, cluster
    <2>2. seen'.cr \in {seen.cr, cr} /\ seen'.cm \in {seen.cm, cm}
        <3>1. seen \in Views
            BY <1>0 DEF TypeOK, Views
        <3> QED BY <2>1, <3>1 DEF Views, Live, Parts
    <2> QED BY <1>0, <2>1, <2>2 DEF Lawful, Objects, Late
<1> QED BY <1>1, <1>2, <1>3, <1>4

LEMMA LawfulWorld ==
    ASSUME OwnerInv,
           \/ Collect
           \/ \E n \in Names : CreateCr(n) \/ DeleteCr(n)
           \/ \E d \in Deployments : CreatePod(d) \/ ReleasePod(d) \/ LosePod(d)
    PROVE  Lawful
<1>0. /\ TypeOK /\ used.uids \in Nat
      /\ \A n \in Names : cr[n] = NoCr \/ cr[n].uid \in 1..used.uids
      /\ w.pc \notin {"idle", "down"} => w.name \in Names /\ w.cr.uid \in 1..used.uids
    BY ConfigFacts, OperatorAssumption DEF OwnerInv, TypeOK
<1>1. CASE Collect
    <2>1. UNCHANGED <<cr, used, seen, w>>
        BY <1>1 DEF Collect, world
    <2>2. cm' = cm \/ (cm' = Nobody /\ ~Alive(cm))
        BY <1>1 DEF Collect, cluster
    <2>3. hooks' = hooks \/ hooks'.owner = Nobody
        BY <1>1 DEF Collect, cluster, NoHooks
    <2>4. \A d \in Deployments : dep'[d] = dep[d] \/ dep'[d].owner = Nobody
        BY <1>0, <1>1 DEF Collect, cluster, NoDeployment, TypeOK
    <2>5. \A o \in Objects' : o \in Objects \/ o = Nobody
        BY <2>3, <2>4 DEF Objects
    <2> QED BY <1>0, <2>1, <2>2, <2>5 DEF Lawful, Late
<1>2. ASSUME NEW n \in Names, CreateCr(n) \/ DeleteCr(n) PROVE Lawful
    <2>1. UNCHANGED <<cm, dep, hooks, seen, w>> /\ Objects' = Objects
        BY <1>2 DEF CreateCr, DeleteCr, cluster, world, Objects
    <2>2. CASE CreateCr(n)
        <3>1. /\ used'.uids = used.uids + 1
              /\ cr' = [cr EXCEPT ![n] = [NoCr EXCEPT !.uid = used.uids + 1]]
            BY <1>0, <2>2 DEF CreateCr, TypeOK
        <3>2. [NoCr EXCEPT !.uid = used.uids + 1].uid = used.uids + 1
            BY DEF NoCr
        <3>3. \A m \in Names : cr'[m] = cr[m] \/ cr'[m].uid = used.uids + 1
            BY <1>0, <3>1, <3>2 DEF TypeOK
        <3> QED BY <1>0, <2>1, <3>1, <3>3 DEF Lawful, Late
    <2>3. CASE DeleteCr(n)
        <3>1. used' = used /\ cr' = [cr EXCEPT ![n] = IF cr[n].fin THEN [cr[n] EXCEPT !.deleting = TRUE] ELSE NoCr]
              /\ cr[n] # NoCr
            BY <2>3 DEF DeleteCr
        <3>2. [cr[n] EXCEPT !.deleting = TRUE].uid = cr[n].uid
            BY <1>0 DEF TypeOK, Crs
        <3>3. \A m \in Names : cr'[m] = cr[m] \/ cr'[m] = NoCr
                               \/ (cr'[m].uid = cr[m].uid /\ cr[m].uid \in 1..used.uids)
            BY <1>0, <3>1, <3>2 DEF TypeOK
        <3> QED BY <2>1, <3>1, <3>3, LawfulMove
    <2> QED BY <1>2, <2>2, <2>3
<1>3. ASSUME NEW d \in Deployments, CreatePod(d) \/ ReleasePod(d) \/ LosePod(d) PROVE Lawful
    <2>1. UNCHANGED <<cr, cm, hooks, seen, w>> /\ used'.uids = used.uids
        BY <1>0, <1>3 DEF CreatePod, ReleasePod, LosePod, world, TypeOK
    <2>2. \A e \in Deployments : dep'[e].owner = dep[e].owner
        <3>1. \/ dep' = [dep EXCEPT ![d].up = @ + 1]
              \/ dep' = [dep EXCEPT ![d].gated = @ + 1]
              \/ dep' = [dep EXCEPT ![d].gated = @ - 1, ![d].up = @ + 1]
              \/ dep' = [dep EXCEPT ![d].up = @ - 1]
            BY <1>3 DEF CreatePod, ReleasePod, LosePod
        <3>2. dep \in [Deployments -> [owner : Owners, gated : 0..Replicas, up : 0..Replicas]]
            BY <1>0 DEF TypeOK
        <3> QED BY <3>1, <3>2
    <2>3. Objects' = Objects
        BY <2>1, <2>2 DEF Objects
    <2> QED BY <1>0, <2>1, <2>3 DEF Lawful, Late
<1> QED BY <1>1, <1>2, <1>3

-----------------------------------------------------------------------------
(* The theorems.                                                            *)

LEMMA OwnerInit == Init => OwnerInv
<1> SUFFICES ASSUME Init PROVE OwnerInv
    OBVIOUS
<1>1. /\ cr = [n \in Names |-> NoCr] /\ cm = Nobody /\ hooks = NoHooks /\ w = Idle
      /\ dep = [d \in Deployments |-> NoDeployment] /\ queue = {} /\ watching = FALSE
      /\ used = [uids |-> 0, faults |-> 0] /\ seen = Live
    BY DEF Init
<1>2. /\ cr \in [Names -> Crs] /\ cm \in Owners /\ hooks \in [owner : Owners, on : BOOLEAN]
      /\ dep \in [Deployments -> [owner : Owners, gated : 0..Replicas, up : 0..Replicas]]
    BY <1>1, ConstantTypes
<1>3. \A d \in Deployments : dep[d].gated + dep[d].up =< Replicas
    BY <1>1, OperatorAssumption DEF NoDeployment
<1>4. /\ seen.cr = cr /\ seen.cm = cm /\ seen.hooks = hooks
      /\ seen.deps = [d \in Deployments |-> [owner |-> dep[d].owner, up |-> dep[d].up]]
      /\ seen = [cr |-> seen.cr, cm |-> seen.cm, hooks |-> seen.hooks, deps |-> seen.deps]
    BY <1>1 DEF Live
<1>5. [d \in Deployments |-> [owner |-> dep[d].owner, up |-> dep[d].up]]
          \in [Deployments -> [owner : Owners, up : 0..Replicas]]
    BY <1>2
<1>6. TypeOK
    <2>1. seen \in [cr : [Names -> Crs], cm : Owners, hooks : [owner : Owners, on : BOOLEAN],
                    deps : [Deployments -> [owner : Owners, up : 0..Replicas]]]
        BY <1>2, <1>4, <1>5
    <2>2. used \in [uids : 0..MaxUids, faults : 0..MaxFaults]
        BY <1>1, OperatorAssumption
    <2>3. w \in Workers
        BY <1>1, ConstantTypes
    <2> QED BY <1>1, <1>2, <1>3, <2>1, <2>2, <2>3 DEF TypeOK, Workers
<1>7. \A o \in {cm, seen.cm} \cup Objects : o = Nobody
    BY <1>1, <1>4 DEF Objects, NoHooks, NoDeployment
<1>8. ~Exists(Nobody)
    BY DEF Exists
<1>9. UidsKnown
    BY <1>1, <1>4, <1>7, <1>8, ConstantTypes, ConfigFacts
<1>10. ConfigStays /\ OwnerHoldsConfig
    <2>1. ~Alive(seen.cm) /\ w.pc \notin Late
        BY <1>1, <1>7, <1>8, ConstantTypes DEF Alive, Late
    <2> QED BY <1>7, <1>8, <2>1, ConfigFacts DEF Alive
<1> QED BY <1>6, <1>9, <1>10 DEF OwnerInv

LEMMA OwnerNext == OwnerInv /\ [Next]_vars => OwnerInv'
<1> SUFFICES ASSUME OwnerInv, [Next]_vars PROVE OwnerInv'
    OBVIOUS
<1>0. TypeOK /\ UidsKnown
    BY DEF OwnerInv
<1>1. CASE WorkerStep \/ CallFails
    <2>1. TypeOK'
        BY <1>0, <1>1, TypeWorker
    <2>2. Lawful
        BY <1>1, LawfulWorker
    <2> QED BY <2>1, <2>2, OwnerStep DEF OwnerInv
<1>2. CASE (\E n \in Names : Begin(n)) \/ Restart \/ Crash \/ \E part \in Parts : Deliver(part)
    <2>1. TypeOK'
        BY <1>0, <1>2, TypeProcess
    <2>2. Lawful
        BY <1>2, LawfulProcess
    <2> QED BY <2>1, <2>2, OwnerStep DEF OwnerInv
<1>3. CASE \/ Collect
           \/ \E n \in Names : CreateCr(n) \/ DeleteCr(n)
           \/ \E d \in Deployments : CreatePod(d) \/ ReleasePod(d) \/ LosePod(d)
    <2>1. TypeOK'
        BY <1>0, <1>3, TypeWorld
    <2>2. Lawful
        BY <1>3, LawfulWorld
    <2> QED BY <2>1, <2>2, OwnerStep DEF OwnerInv
<1>4. CASE UNCHANGED vars
    BY <1>4 DEF vars, OwnerInv, TypeOK, UidsKnown, ConfigStays, OwnerHoldsConfig, Exists, Alive,
                OwnerOf
<1> QED BY <1>1, <1>2, <1>3, <1>4 DEF Next, Operator, Kubernetes, Environment

\* Every step of the worker, the caches, the users, the garbage collector, the
\* pods and the faults preserves the operator's invariant: uids are not given
\* out twice, and a config map an AAQ holds stays its own while it lives.
THEOREM OperatorInvariant == Spec => []OwnerInv
<1>1. Init => OwnerInv
    BY OwnerInit
<1>2. OwnerInv /\ [Next]_vars => OwnerInv'
    BY OwnerNext
<1> QED BY <1>1, <1>2, PTL DEF Spec

\* The operator's state keeps its types, whatever its caches, its faults and
\* the number of its AAQs and replicas.
THEOREM OperatorTypeCorrect == Spec => []TypeOK
<1>1. OwnerInv => TypeOK
    BY DEF OwnerInv
<1> QED BY <1>1, OperatorInvariant, PTL

\* An object of a living AAQ means that AAQ holds aaq-config: two AAQs never
\* manage AAQ's objects at once (checkSanity, CheckForOrphans, preCreate).
THEOREM OneOwner == Spec => []OwnerHoldsConfig
<1>1. OwnerInv => OwnerHoldsConfig
    BY DEF OwnerInv
<1> QED BY <1>1, OperatorInvariant, PTL

=============================================================================
