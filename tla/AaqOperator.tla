---------------------------- MODULE AaqOperator ----------------------------
(***************************************************************************)
(* The AAQ operator: one worker reconciles the cluster-scoped AAQ custom   *)
(* resources into AAQ's own objects.  The first AAQ claims the aaq-config  *)
(* config map; its reconciles then create the two deployments and the      *)
(* webhook configurations, and put the webhooks into the latter only while *)
(* the caches show a ready server and a ready controller, since the        *)
(* webhooks gate every new pod, AAQ's own included.                        *)
(*                                                                         *)
(* Reads come from informer caches, one per kind of object, each behind    *)
(* the API by its own lag; writes go to the API and conflict when the      *)
(* cached copy was not the current one.  A nil dereference ends the        *)
(* process, as controller-runtime does not recover from it here.           *)
(* Certificates (module CertRotation), RBAC, services and CRDs are left    *)
(* out: the sdk creates and repairs them by the same loop.                 *)
(***************************************************************************)
EXTENDS Naturals, FiniteSets

CONSTANTS Names,       \* names users give their AAQ resources
          Replicas,    \* replicas of each deployment
          MaxUids,     \* bound: AAQ resources ever created
          MaxFaults,   \* bound: pods lost, crashes of the operator and failed calls
          MaxLag       \* bound: caches behind the API when a user or a fault acts

ASSUME OperatorAssumption ==
    /\ Replicas \in Nat \ {0}
    /\ {MaxUids, MaxFaults, MaxLag} \subseteq Nat

Deployments == {"server", "controller"}
Phases == {"", "Deploying", "Deployed", "Upgrading", "Error", "Deleting", "Deleted"}
Parts == {"cr", "cm", "deps", "hooks"}   \* kinds of objects cached separately

VARIABLES cr,        \* the AAQ resources in the API
          cm,        \* owner of the aaq-config config map
          dep,       \* the deployments: owner, pods gated and pods ready
          hooks,     \* the webhook configurations: owner, and whether they hold webhooks
          seen,      \* the operator's caches
          queue,     \* names to reconcile
          watching,  \* the dependent kinds are watched
          w,         \* the worker
          used       \* what was used of each bound

vars == <<cr, cm, dep, hooks, seen, queue, watching, w, used>>
cluster == <<dep, hooks>>
env == <<seen, watching, used>>

NoName == "none"
NoCr == [uid |-> 0, phase |-> "", fin |-> FALSE, deleting |-> FALSE, observed |-> FALSE]
Nobody == [name |-> NoName, uid |-> 0]
NoDeployment == [owner |-> Nobody, gated |-> 0, up |-> 0]
NoHooks == [owner |-> Nobody, on |-> FALSE]
Idle == [pc |-> "idle", name |-> NoName, cr |-> NoCr, on |-> FALSE, todo |-> {}, failed |-> FALSE]
Down == [Idle EXCEPT !.pc = "down"]

OwnerOf(n, c) == [name |-> n, uid |-> c.uid]
Exists(o) == o # Nobody
Alive(o) == Exists(o) /\ cr[o.name].uid = o.uid
Gating == Exists(hooks.owner) /\ hooks.on

\* What a cache shows once it has caught up with the API.
Live == [cr |-> cr, cm |-> cm, hooks |-> hooks,
         deps |-> [d \in Deployments |-> [owner |-> dep[d].owner, up |-> dep[d].up]]]

Crs == [uid : 0..MaxUids, phase : Phases, fin : BOOLEAN, deleting : BOOLEAN, observed : BOOLEAN]
Owners == [name : Names \cup {NoName}, uid : 0..MaxUids]
Steps == {"idle", "down", "create", "init", "finalizer", "sanity", "upgrade", "render",
          "apply", "finish", "error", "delete", "callbacks", "release"}

TypeOK ==
    /\ cr \in [Names -> Crs]
    /\ cm \in Owners
    /\ dep \in [Deployments -> [owner : Owners, gated : 0..Replicas, up : 0..Replicas]]
    /\ \A d \in Deployments : dep[d].gated + dep[d].up =< Replicas
    /\ hooks \in [owner : Owners, on : BOOLEAN]
    /\ seen \in [cr : [Names -> Crs], cm : Owners, hooks : [owner : Owners, on : BOOLEAN],
                 deps : [Deployments -> [owner : Owners, up : 0..Replicas]]]
    /\ queue \subseteq Names
    /\ watching \in BOOLEAN
    /\ w \in [pc : Steps, name : Names \cup {NoName}, cr : Crs, on : BOOLEAN,
              todo : SUBSET (Deployments \cup {"hooks"}), failed : BOOLEAN]
    /\ used \in [uids : 0..MaxUids, faults : 0..MaxFaults]

Init ==
    /\ cr = [n \in Names |-> NoCr]
    /\ cm = Nobody
    /\ dep = [d \in Deployments |-> NoDeployment]
    /\ hooks = NoHooks
    /\ seen = Live
    /\ queue = {}
    /\ watching = FALSE
    /\ w = Idle
    /\ used = [uids |-> 0, faults |-> 0]

----------------------------------------------------------------------------
(* What the reconciles read. *)

\* util.GetActiveAAQ: the AAQs not in phase Error.  The factory of the webhook
\* configurations hands a nil object on unless there is exactly one, and its
\* validation dereferences it: so does every GetAllResources.
ActiveAAQ == {n \in Names : seen.cr[n] # NoCr /\ seen.cr[n].phase # "Error"}
CanListResources == Cardinality(ActiveAAQ) = 1

\* Mutant: a ready server is enough.
IncludeHooksForServer ==
    Exists(seen.deps["server"].owner) /\ seen.deps["server"].up >= 1

\* The webhooks are asked for once a server and a controller are ready.
IncludeHooks ==
    \A d \in Deployments : Exists(seen.deps[d].owner) /\ seen.deps[d].up >= 1

Orphans == Exists(seen.hooks.owner) \/ \E d \in Deployments : Exists(seen.deps[d].owner)

\* configMapOwnerDeleted: the AAQ that owns the config map is gone or going.
ConfigMapOwnerDeleted ==
    LET owner == seen.cr[seen.cm.name]
    IN  owner = NoCr \/ owner.deleting \/ owner.uid # seen.cm.uid

\* The objects a reconcile would create or change.
ToApply ==
    {d \in Deployments : ~Exists(seen.deps[d].owner)} \cup
    {k \in {"hooks"} : ~Exists(seen.hooks.owner) \/ seen.hooks.on # IncludeHooks}

\* CheckDegraded: a deployment whose replicas are not all ready.
Degraded == \E d \in Deployments : seen.deps[d].up # Replicas

\* ShouldTakeUpdatePath: not being deployed, and never seen deployed by this version.
Upgrades(c) == c.phase \notin {"Deploying", "Upgrading"} /\ ~c.observed

----------------------------------------------------------------------------
(* Where a reconcile of the copy c goes from what it reads; the reads of a   *)
(* reconcile between two of its writes are taken together.                   *)

AfterUpgrade(c) ==
    CASE ~CanListResources -> "down"
      [] CanListResources /\ ToApply # {} -> "apply"
      [] CanListResources /\ ToApply = {} /\ c.phase # "Deployed" /\ ~Degraded -> "finish"
      [] OTHER -> "requeue"

\* Mutant: any AAQ is reconciled once the config map exists.
CheckSanityExists(n, c) ==
    IF seen.cm = Nobody THEN "down" ELSE IF Upgrades(c) THEN "upgrade" ELSE AfterUpgrade(c)

\* checkSanity: only the config map's owner is reconciled; a config map the
\* cache does not show yet is a nil dereference.
CheckSanity(n, c) ==
    CASE seen.cm = Nobody -> "down"
      [] seen.cm = OwnerOf(n, c) -> IF Upgrades(c) THEN "upgrade" ELSE AfterUpgrade(c)
      [] OTHER -> IF ConfigMapOwnerDeleted THEN "requeue" ELSE "error"

\* The watches, when they are not registered yet, and the orphan check of a
\* creating reconcile list all resources.
Reconcile(n, c) ==
    LET creating == ~Exists(seen.cm)
    IN  CASE c = NoCr -> "idle"
          [] c # NoCr /\ ~watching /\ ~CanListResources -> "down"
          [] c.deleting /\ (watching \/ CanListResources) -> IF c.fin THEN "delete" ELSE "idle"
          [] OTHER -> IF ~creating THEN CheckSanity(n, c)
                      ELSE IF c.phase # "" THEN "error"
                      ELSE IF ~CanListResources THEN "down"
                      ELSE IF Orphans THEN "requeue" ELSE "create"

\* Goes on at pc, or ends; what is applied is what was rendered here.
Goto(pc) ==
    LET ends == pc \in {"idle", "requeue", "down"}
    IN  /\ w' = IF pc = "down" THEN Down ELSE IF ends THEN Idle
                ELSE [w EXCEPT !.pc = pc, !.on = pc = "apply" /\ IncludeHooks,
                               !.todo = IF pc = "apply" THEN ToApply ELSE {}]
        /\ queue' = IF pc = "down" THEN {} ELSE IF pc = "requeue" THEN queue \cup {w.name} ELSE queue

\* An update of the AAQ from the worker's copy; it conflicts when the copy is not current.
UpdateCr(c, pc) ==
    \/ /\ cr[w.name] = w.cr
       /\ cr' = [cr EXCEPT ![w.name] = c]
       /\ w' = IF pc = "idle" THEN Idle ELSE [w EXCEPT !.pc = pc, !.cr = c]
       /\ UNCHANGED queue
    \/ /\ cr[w.name] # w.cr
       /\ Goto("requeue")
       /\ UNCHANGED cr

----------------------------------------------------------------------------
(* The reconcile. *)

\* Bound: a reconcile does not begin on a copy older than the AAQ's phase Error.
\* It would list the resources once the cache shows no active AAQ, and the
\* operator would never start again.
ErrorIsSeen(n) == cr[n].phase = "Error" => seen.cr[n] = cr[n]

\* Reconcile up to its first write.
Begin(n) ==
    LET c == seen.cr[n]
        pc == Reconcile(n, c)
    IN  /\ w.pc = "idle" /\ n \in queue /\ ErrorIsSeen(n)
        /\ w' = CASE pc = "down" -> Down
                  [] pc \in {"idle", "requeue"} -> Idle
                  [] OTHER -> [Idle EXCEPT !.pc = pc, !.name = n, !.cr = c,
                                !.on = pc = "apply" /\ IncludeHooks,
                                !.todo = IF pc = "apply" THEN ToApply ELSE {}]
        /\ queue' = CASE pc = "down" -> {} [] pc = "requeue" -> queue [] OTHER -> queue \ {n}
        /\ watching' = (watching \/ (c # NoCr /\ pc # "down"))
        /\ UNCHANGED <<cr, cm, cluster, seen, used>>

\* preCreate claims the config map; a second create is refused.
PreCreate ==
    /\ w.pc = "create"
    /\ cm' = IF cm = Nobody THEN OwnerOf(w.name, w.cr) ELSE cm
    /\ Goto(IF cm = Nobody THEN "init" ELSE "requeue")
    /\ UNCHANGED <<cr, cluster, env>>

\* CrInit: the phase, then the finalizer; the reconcile goes on with checkSanity.
CrInit ==
    /\ \/ /\ w.pc = "init"
          /\ UpdateCr([w.cr EXCEPT !.phase = "Deploying"], "finalizer")
       \/ /\ w.pc = "finalizer"
          /\ UpdateCr([w.cr EXCEPT !.fin = TRUE], "sanity")
       \/ /\ w.pc = "sanity"
          /\ Goto(CheckSanity(w.name, w.cr))
          /\ UNCHANGED cr
    /\ UNCHANGED <<cm, cluster, env>>

ReconcileError ==
    /\ w.pc = "error"
    /\ UpdateCr([w.cr EXCEPT !.phase = "Error"], "idle")
    /\ UNCHANGED <<cm, cluster, env>>

CheckUpgrade ==
    /\ \/ /\ w.pc = "upgrade"
          /\ UpdateCr([w.cr EXCEPT !.phase = "Upgrading"], "render")
       \/ /\ w.pc = "render"
          /\ Goto(AfterUpgrade(w.cr))
          /\ UNCHANGED cr
    /\ UNCHANGED <<cm, cluster, env>>

\* One object of ReconcileUpdate's loop is done, with or without an error.
Applied(k, ok) ==
    LET left == w.todo \ {k}
    IN  /\ w' = [w EXCEPT !.todo = left, !.failed = @ \/ ~ok,
                          !.pc = IF left = {} THEN "finish" ELSE "apply"]
        /\ UNCHANGED queue

\* The deployments come before the webhook configurations; their own order,
\* random in the code, is fixed.
ApplyDeployment(d) ==
    /\ w.pc = "apply" /\ d \in w.todo
    /\ (d = "controller" => "server" \notin w.todo)
    /\ IF Exists(seen.deps[d].owner) \/ Exists(dep[d].owner)
       THEN Applied(d, Exists(seen.deps[d].owner)) /\ UNCHANGED dep
       ELSE /\ dep' = [dep EXCEPT ![d].owner = OwnerOf(w.name, w.cr)]
            /\ Applied(d, TRUE)
    /\ UNCHANGED <<cr, cm, hooks, env>>

\* Create, or update when the cached object differs from the desired one.
ApplyHooks ==
    /\ w.pc = "apply" /\ w.todo = {"hooks"}
    /\ \/ /\ ~Exists(seen.hooks.owner)
          /\ ~Exists(hooks.owner)
          /\ hooks' = [owner |-> OwnerOf(w.name, w.cr), on |-> w.on]
          /\ Applied("hooks", TRUE)
       \/ /\ ~Exists(seen.hooks.owner)
          /\ Exists(hooks.owner)
          /\ Applied("hooks", FALSE)
          /\ UNCHANGED hooks
       \/ /\ Exists(seen.hooks.owner)
          /\ seen.hooks.on = w.on
          /\ Applied("hooks", TRUE)
          /\ UNCHANGED hooks
       \/ /\ Exists(seen.hooks.owner)
          /\ seen.hooks.on # w.on
          /\ hooks' = IF hooks = seen.hooks THEN [hooks EXCEPT !.on = w.on] ELSE hooks
          /\ Applied("hooks", hooks = seen.hooks)
    /\ UNCHANGED <<cr, cm, dep, env>>

\* CheckDegraded lists the resources again; then the move to Deployed
\* (completeUpgrade when upgrading).
Finish ==
    /\ w.pc = "finish"
    /\ IF ~w.failed /\ CanListResources /\ ~Degraded /\ cr[w.name] = w.cr
       THEN cr' = [cr EXCEPT ![w.name].phase = "Deployed", ![w.name].observed = TRUE]
       ELSE UNCHANGED cr
    /\ Goto(IF ~w.failed /\ ~CanListResources THEN "down" ELSE "requeue")
    /\ UNCHANGED <<cm, cluster, env>>

\* Mutant: an AAQ already in phase Deleting is left to whoever put it there.
ReconcileDeleteOnce ==
    /\ \/ /\ w.pc = "delete"
          /\ IF w.cr.phase = "Deleting" THEN Goto("idle") /\ UNCHANGED cr
             ELSE UpdateCr([w.cr EXCEPT !.phase = "Deleting"], "callbacks")
       \/ /\ w.pc = "callbacks"
          /\ IF CanListResources THEN UpdateCr([w.cr EXCEPT !.phase = "Deleted"], "release")
             ELSE Goto("down") /\ UNCHANGED cr
       \/ /\ w.pc = "release"
          /\ UpdateCr(NoCr, "idle")
    /\ UNCHANGED <<cm, cluster, env>>

\* ReconcileDelete: phase Deleting, the callbacks, phase Deleted, the finalizer.
ReconcileDelete ==
    /\ \/ /\ w.pc = "delete"
          /\ UpdateCr([w.cr EXCEPT !.phase = "Deleting"], "callbacks")
       \/ /\ w.pc = "callbacks"
          /\ IF CanListResources THEN UpdateCr([w.cr EXCEPT !.phase = "Deleted"], "release")
             ELSE Goto("down") /\ UNCHANGED cr
       \/ /\ w.pc = "release"
          /\ UpdateCr(NoCr, "idle")
    /\ UNCHANGED <<cm, cluster, env>>

\* A call to the API fails: the reconcile ends with an error and is retried, but
\* after a failed create or update of an object it first goes on with the others.
CallFails ==
    /\ used.faults < MaxFaults
    /\ used' = [used EXCEPT !.faults = @ + 1]
    /\ \/ w.pc \in Steps \ {"idle", "down", "sanity", "render", "apply"} /\ Goto("requeue")
       \/ w.pc = "apply" /\ Applied(IF w.todo = {"hooks"} THEN "hooks" ELSE
                                    CHOOSE d \in w.todo : d # "hooks", FALSE)
    /\ UNCHANGED <<cr, cm, cluster, seen, watching>>

----------------------------------------------------------------------------
(* The operator process. *)

Restart ==
    /\ w.pc = "down"
    /\ w' = Idle
    /\ watching' = FALSE
    /\ seen' = Live
    /\ queue' = {n \in Names : cr[n] # NoCr}
    /\ UNCHANGED <<cr, cm, cluster, used>>

Crash ==
    /\ w.pc # "down" /\ used.faults < MaxFaults
    /\ used' = [used EXCEPT !.faults = @ + 1]
    /\ w' = Down /\ queue' = {}
    /\ UNCHANGED <<cr, cm, cluster, seen, watching>>

\* The AAQs whose reconcile an event of a part asks for: the changed AAQs, and
\* for a dependent object, once its kind is watched, its owner before or after.
Wakes(part) ==
    IF part = "cr" THEN {n \in Names : seen.cr[n] # cr[n]}
    ELSE IF ~watching THEN {}
    ELSE Names \cap
         CASE part = "cm" -> {seen.cm.name, cm.name}
           [] part = "hooks" -> {seen.hooks.owner.name, hooks.owner.name}
           [] part = "deps" -> {v[d].owner.name : v \in {seen.deps, Live.deps},
                                d \in {e \in Deployments : seen.deps[e] # Live.deps[e]}}

Deliver(part) ==
    /\ w.pc # "down"
    /\ seen[part] # Live[part]
    /\ seen' = [seen EXCEPT ![part] = Live[part]]
    /\ queue' = queue \cup Wakes(part)
    /\ UNCHANGED <<cr, cm, cluster, watching, w, used>>

----------------------------------------------------------------------------
(* Users, the garbage collector and the deployments' pods. *)

world == <<seen, queue, watching, w>>

\* Bound: a name is used again once no reconcile holds a copy of its former AAQ.
CreateCr(n) ==
    /\ cr[n] = NoCr /\ used.uids < MaxUids /\ w.name # n
    /\ used' = [used EXCEPT !.uids = @ + 1]
    /\ cr' = [cr EXCEPT ![n] = [NoCr EXCEPT !.uid = used.uids + 1]]
    /\ UNCHANGED <<cm, cluster, world>>

DeleteCr(n) ==
    /\ cr[n] # NoCr /\ ~cr[n].deleting
    /\ cr' = [cr EXCEPT ![n] = IF cr[n].fin THEN [cr[n] EXCEPT !.deleting = TRUE] ELSE NoCr]
    /\ UNCHANGED <<cm, cluster, used, world>>

\* An object whose owner is gone is removed, a deployment with its pods.
Collect ==
    /\ \/ /\ Exists(cm) /\ ~Alive(cm)
          /\ cm' = Nobody
          /\ UNCHANGED cluster
       \/ /\ Exists(hooks.owner) /\ ~Alive(hooks.owner)
          /\ hooks' = NoHooks
          /\ UNCHANGED <<cm, dep>>
       \/ \E d \in Deployments :
          /\ Exists(dep[d].owner) /\ ~Alive(dep[d].owner)
          /\ dep' = [dep EXCEPT ![d] = NoDeployment]
          /\ UNCHANGED <<cm, hooks>>
    /\ UNCHANGED <<cr, used, world>>

\* While webhooks are on, a pod's creation needs a server to answer, and gates the pod.
CreatePod(d) ==
    /\ Exists(dep[d].owner) /\ dep[d].gated + dep[d].up < Replicas
    /\ \/ /\ ~Gating
          /\ dep' = [dep EXCEPT ![d].up = @ + 1]
       \/ /\ Gating /\ dep["server"].up >= 1
          /\ dep' = [dep EXCEPT ![d].gated = @ + 1]
    /\ UNCHANGED <<cr, cm, hooks, used, world>>

\* The controller takes the gate off the pods of AAQ's namespace, which has no quota.
ReleasePod(d) ==
    /\ dep[d].gated > 0 /\ dep["controller"].up >= 1
    /\ dep' = [dep EXCEPT ![d].gated = @ - 1, ![d].up = @ + 1]
    /\ UNCHANGED <<cr, cm, hooks, used, world>>

\* Bound: the last running controller pod is not lost.
LosePod(d) ==
    /\ used.faults < MaxFaults
    /\ dep[d].up > IF d = "controller" THEN 1 ELSE 0
    /\ used' = [used EXCEPT !.faults = @ + 1]
    /\ dep' = [dep EXCEPT ![d].up = @ - 1]
    /\ UNCHANGED <<cr, cm, hooks, world>>

----------------------------------------------------------------------------
WorkerStep ==
    \/ PreCreate \/ CrInit \/ ReconcileError \/ CheckUpgrade
    \/ (\E d \in Deployments : ApplyDeployment(d)) \/ ApplyHooks
    \/ Finish \/ ReconcileDelete

Operator ==
    \/ \E n \in Names : Begin(n)
    \/ WorkerStep
    \/ Restart
    \/ \E part \in Parts : Deliver(part)

\* Bound: the caches behind the API when something else than the operator acts.
LagBound == Cardinality({part \in Parts : seen[part] # Live[part]}) =< MaxLag

Kubernetes == LagBound /\ (Collect \/ \E d \in Deployments : CreatePod(d) \/ ReleasePod(d))

Environment ==
    \/ CallFails
    \/ /\ LagBound
       /\ \/ Crash
          \/ \E n \in Names : CreateCr(n) \/ DeleteCr(n)
          \/ \E d \in Deployments : LosePod(d)

Next == Operator \/ Kubernetes \/ Environment

Spec == Init /\ [][Next]_vars

\* The operator's worker and caches keep running (its pod restarts it), and so
\* do the garbage collector and the deployments' controllers.
Fairness ==
    /\ \A n \in Names : WF_vars(Begin(n))
    /\ WF_vars(WorkerStep)
    /\ WF_vars(Restart)
    /\ \A part \in Parts : WF_vars(Deliver(part))
    /\ SF_vars(LagBound /\ Collect)
    /\ \A d \in Deployments : SF_vars(LagBound /\ CreatePod(d)) /\ SF_vars(LagBound /\ ReleasePod(d))

FairSpec == Spec /\ Fairness

----------------------------------------------------------------------------
(* Properties. *)

\* Only the AAQ that holds aaq-config has objects: an object of a live AAQ
\* means the config map names that AAQ, through crashes, stale caches and a
\* re-created AAQ of the same name (checkSanity, CheckForOrphans).
OwnerHoldsConfig ==
    \A o \in {hooks.owner} \cup {dep[d].owner : d \in Deployments} : Alive(o) => cm = o

(* Why it does, as an inductive invariant.                                   *)

\* No uid is ahead of those given out, and what exists or is worked on has one.
UidsKnown ==
    /\ \A n \in Names, c \in {cr, seen.cr} : c[n] = NoCr \/ c[n].uid \in 1..used.uids
    /\ \A o \in {cm, seen.cm, hooks.owner} \cup {dep[d].owner : d \in Deployments} :
          Exists(o) => o.name \in Names /\ o.uid \in 1..used.uids
    /\ w.pc \notin {"idle", "down"} => w.name \in Names /\ w.cr.uid \in 1..used.uids

\* A config map the cache shows is the API's for as long as its AAQ lives, and
\* so is the one a reconcile has claimed or found on its way to the objects.
ConfigStays ==
    /\ Alive(seen.cm) => cm = seen.cm
    /\ /\ w.pc \in {"init", "finalizer", "sanity", "upgrade", "render", "apply", "finish"}
       /\ cr[w.name].uid = w.cr.uid
       => cm = OwnerOf(w.name, w.cr)

OwnerInv == TypeOK /\ UidsKnown /\ ConfigStays /\ OwnerHoldsConfig

\* An AAQ that stays gets both deployments ready, the webhooks on and phase
\* Deployed for good, although the webhooks gate AAQ's own pods and refuse
\* pods while no server answers (createGatingMutatingWebhook).
Serving ==
    /\ Gating
    /\ \A d \in Deployments : Exists(dep[d].owner) /\ dep[d].up = Replicas
DeploymentServes ==
    \A n \in Names :
        <>[](cr[n] # NoCr /\ ~cr[n].deleting) => <>[](Serving /\ cr[n].phase = "Deployed")

\* Once every AAQ was deleted, the finalizer is released and nothing is left
\* behind: no config map, deployment or webhook configuration (ReconcileDelete).
Removed ==
    /\ \A n \in Names : cr[n] = NoCr
    /\ ~Exists(cm) /\ ~Exists(hooks.owner) /\ \A d \in Deployments : ~Exists(dep[d].owner)
RemovalCompletes ==
    <>[](\A n \in Names : cr[n] = NoCr \/ cr[n].deleting) => <>[]Removed

\* "should be an error when creating another AAQ instance" (operator_test.go:269):
\* an AAQ that is not the one holding aaq-config ends in phase Error.
AnotherIsAnError ==
    \A n \in Names :
        <>[](cr[n] # NoCr /\ cm # OwnerOf(n, cr[n]) /\ Alive(cm) /\ ~cr[cm.name].deleting)
            => <>(cr[n].phase = "Error")
============================================================================
