------------------------- MODULE AaqGateController --------------------------
(***************************************************************************)
(* The gate controller's work on one namespace (execute): read the         *)
(* namespace's job queue; while it is locked, only finish releasing the    *)
(* recorded pods; otherwise admit gated pods against the quota's cached    *)
(* status, record them with the lock set, and release them one by one.     *)
(***************************************************************************)
EXTENDS AaqApi

\* Mutant: each pod is checked against the status read, without the pods let in
\* before it.
CheckRequestsNoReservation(gated, used) ==
    {{p \in gated : used + Usage[{p}] <= Hard}}

\* The gated pods CheckRequest lets through, one after the other in the
\* cache's order, each adding its usage to the running total.  Over all orders
\* these are the subsets that fit and that no rejected pod would still fit.
CheckRequests(gated, used) ==
    {S \in SUBSET gated :
        /\ S # {} => used + Usage[S] <= Hard
        /\ \A p \in gated \ S : used + Usage[S \cup {p}] > Hard}

\* createAndGetAaqjqc: the cached job queue, or a new one; a locked one means
\* that the pods it records are released and the namespace is queued again.
GetAaqjqc ==
    /\ gate.pc = "idle" /\ gateQ
    /\ LET jq == Cached(aaqjqc) IN
       \/ /\ ~jq.exists /\ ~Current(aaqjqc).exists
          /\ WriteAaqjqc({}, FALSE)
          /\ gate' = [gate EXCEPT !.pc = "quota", !.current = TRUE]
          /\ nsw' = [nsw EXCEPT !.current = FALSE]
          /\ gateQ' = FALSE
          /\ UNCHANGED <<pods, arq>>
       \/ /\ jq.exists /\ jq.locked
          /\ gate' = [gate EXCEPT !.pc = "release", !.todo = jq.queue, !.again = TRUE]
          /\ gateQ' = FALSE
          /\ UNCHANGED <<pods, arq, aaqjqc, order, nsw>>
       \/ /\ jq.exists /\ ~jq.locked
          /\ gate' = [gate EXCEPT !.pc = "quota", !.current = UpToDate(aaqjqc)]
          /\ gateQ' = FALSE
          /\ UNCHANGED <<pods, arq, aaqjqc, order, nsw>>
    /\ UNCHANGED <<nsQ, keyw, arqQ, faults>>

\* getArtificialRqsForGateController: the cached status of the ARQ.
GetArtificialRqs ==
    /\ gate.pc = "quota"
    /\ gate' = [gate EXCEPT !.pc = "admit", !.used = Cached(arq)]
    /\ UNCHANGED <<api, gateQ, nsw, nsQ, keyw, arqQ, faults>>

\* The loop over the cached pods: those behind the AAQ gate alone are checked.
\* Nothing admitted: the worker is done and the job queue is left as it is.
AdmitPods ==
    /\ gate.pc = "admit"
    /\ \E S \in CheckRequests({p \in Pods : OnlyAAQGate(Cached(pods)[p])}, gate.used) :
          gate' = IF S = {} THEN GateIdle
                  ELSE [gate EXCEPT !.pc = "record", !.todo = S, !.used = 0]
    /\ UNCHANGED <<api, gateQ, nsw, nsQ, keyw, arqQ, faults>>

\* Mutant: the admitted pods are released without being recorded first.
UpdateAaqjqcSkipped ==
    /\ gate.pc = "record"
    /\ gate' = [gate EXCEPT !.pc = "release", !.current = FALSE]
    /\ UNCHANGED <<api, gateQ, nsw, nsQ, keyw, arqQ, faults>>

\* UpdateStatus of the job queue: the admitted pods and the lock, or a conflict.
UpdateAaqjqc ==
    /\ gate.pc = "record"
    /\ IF gate.current
       THEN /\ WriteAaqjqc(gate.todo, TRUE)
            /\ gate' = [gate EXCEPT !.pc = "release", !.current = FALSE]
            /\ nsw' = [nsw EXCEPT !.current = FALSE]
            /\ UNCHANGED <<pods, arq, gateQ>>
       ELSE /\ gate' = GateIdle
            /\ gateQ' = TRUE
            /\ UNCHANGED <<api, nsw>>
    /\ UNCHANGED <<nsQ, keyw, arqQ, faults>>

\* releasePods, one pod: skipped when the cache no longer shows it behind the
\* AAQ gate alone, otherwise updated without the gate; a conflict ends the run.
ReleasePod(p) ==
    /\ gate.pc = "release" /\ p \in gate.todo
    /\ \/ /\ ~OnlyAAQGate(Cached(pods)[p])
          /\ gate' = [gate EXCEPT !.todo = @ \ {p}]
          /\ UNCHANGED <<api, gateQ>>
       \/ /\ OnlyAAQGate(Cached(pods)[p]) /\ PodUpToDate(p)
          /\ WritePod(p, "free")
          /\ gate' = [gate EXCEPT !.todo = @ \ {p}]
          /\ UNCHANGED <<arq, aaqjqc, gateQ>>
       \/ /\ OnlyAAQGate(Cached(pods)[p]) /\ ~PodUpToDate(p)
          /\ gate' = GateIdle
          /\ gateQ' = TRUE
          /\ UNCHANGED api
    /\ UNCHANGED <<nsw, nsQ, keyw, arqQ, faults>>

\* Mutant: a namespace whose job queue was locked is forgotten like any other.
GateReturnForget ==
    /\ gate.pc = "release" /\ gate.todo = {}
    /\ gate' = GateIdle
    /\ UNCHANGED <<api, gateQ, nsw, nsQ, keyw, arqQ, faults>>

\* The end of execute: forgotten, or Immediate after a locked job queue.
GateReturn ==
    /\ gate.pc = "release" /\ gate.todo = {}
    /\ gate' = GateIdle
    /\ gateQ' = (gateQ \/ gate.again)
    /\ UNCHANGED <<api, nsw, nsQ, keyw, arqQ, faults>>

\* An API call of execute fails (or commits and loses its answer): Immediate.
GateError ==
    /\ gate.pc # "idle"
    /\ faults < MaxFaults
    /\ faults' = faults + 1
    /\ gate' = GateIdle
    /\ gateQ' = TRUE
    /\ UNCHANGED <<api, nsw, nsQ, keyw, arqQ>>

-----------------------------------------------------------------------------
\* addPod, updatePod: pods behind the AAQ gate alone enqueue the namespace.
GateWantsPods(old, new) ==
    \E p \in Pods : new[p] # old[p] /\ OnlyAAQGate(new[p])

\* updateAaqjqc: there is no handler for an added job queue.
GateWantsAaqjqc(old) == old.exists

=============================================================================
