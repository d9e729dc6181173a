--------------------------- MODULE ArqController ----------------------------
(***************************************************************************)
(* The ARQ controller's work on one namespace and its quota.  The nsQueue  *)
(* worker (execute) waits until every pod of a locked job queue is         *)
(* ungated, recomputes the quota's usage and clears the lock.  The         *)
(* arqQueue worker (syncResourceQuotaFromKey) recomputes the usage on its  *)
(* own, concurrently with it.                                              *)
(***************************************************************************)
EXTENDS AaqApi

\* Mutant: the lock is cleared without waiting for the pods' gates to be removed.
VerifySkipped(names) == TRUE

\* VerifyPodsWithOutSchedulingGates: by the cache, or by an API list when a
\* pod is missing from the cache.  (A gated cached pod may also end the scan
\* before a missing one is met: the worker then tries again.)
VerifyPodsWithOutSchedulingGates(names) ==
    IF \A p \in names : Present(Cached(pods)[p])
    THEN \A p \in names : ~HasGates(Cached(pods)[p])
    ELSE \A p \in names : ~HasGates(Current(pods)[p])

\* quota.CalculateUsage over the cached pods.
CalculateUsage == Usage[Charged(Cached(pods))]

\* Mutant: a failed check is Forget, leaving it to the pods' events to try again.
GetLockedQueueForget ==
    /\ nsw.pc = "idle" /\ nsQ
    /\ LET jq == Cached(aaqjqc) IN
       nsw' = IF jq.locked /\ ~VerifyPodsWithOutSchedulingGates(jq.queue) THEN NsIdle
              ELSE [nsw EXCEPT !.pc = "list", !.locked = jq.locked, !.queue = jq.queue,
                               !.current = UpToDate(aaqjqc)]
    /\ nsQ' = FALSE
    /\ UNCHANGED <<api, gate, gateQ, keyw, arqQ, faults>>

\* execute: the cached job queue, and if it is locked the check of its pods.
\* A failed check is Immediate, with nothing changed.
GetLockedQueue ==
    /\ nsw.pc = "idle" /\ nsQ
    /\ LET jq == Cached(aaqjqc) IN
       /\ jq.locked => VerifyPodsWithOutSchedulingGates(jq.queue)
       /\ nsw' = [nsw EXCEPT !.pc = "list", !.locked = jq.locked, !.queue = jq.queue,
                             !.current = UpToDate(aaqjqc)]
    /\ nsQ' = FALSE
    /\ UNCHANGED <<api, gate, gateQ, keyw, arqQ, faults>>

\* The namespace's ARQ is copied from the cache.
ListArqs ==
    /\ nsw.pc = "list"
    /\ nsw' = [nsw EXCEPT !.pc = "sync", !.used = Cached(arq), !.arqCurrent = UpToDate(arq)]
    /\ UNCHANGED <<api, gate, gateQ, nsQ, keyw, arqQ, faults>>

\* syncResourceQuota on the copy: usage is written only if it differs from the
\* usage in the copy.
SyncResourceQuota ==
    /\ nsw.pc = "sync"
    /\ nsw' = IF CalculateUsage = nsw.used
              THEN [nsw EXCEPT !.pc = "unlock", !.used = 0, !.arqCurrent = FALSE]
              ELSE [nsw EXCEPT !.pc = "write", !.used = CalculateUsage]
    /\ UNCHANGED <<api, gate, gateQ, nsQ, keyw, arqQ, faults>>

\* UpdateStatus of the ARQ, or a conflict.
UpdateArqStatus ==
    /\ nsw.pc = "write"
    /\ IF nsw.arqCurrent
       THEN /\ WriteArq(nsw.used)
            /\ nsw' = [nsw EXCEPT !.pc = "unlock", !.used = 0, !.arqCurrent = FALSE]
            /\ keyw' = [keyw EXCEPT !.arqCurrent = FALSE]
            /\ UNCHANGED <<pods, aaqjqc, nsQ>>
       ELSE /\ nsw' = NsIdle
            /\ nsQ' = TRUE
            /\ UNCHANGED <<api, keyw>>
    /\ UNCHANGED <<gate, gateQ, arqQ, faults>>

\* The end of execute: the lock is cleared if the copy was locked.
Unlock ==
    /\ nsw.pc = "unlock"
    /\ nsw' = NsIdle
    /\ \/ /\ ~nsw.locked
          /\ UNCHANGED <<api, gate, nsQ>>
       \/ /\ nsw.locked /\ nsw.current
          /\ WriteAaqjqc(nsw.queue, FALSE)
          /\ gate' = [gate EXCEPT !.current = FALSE]
          /\ UNCHANGED <<pods, arq, nsQ>>
       \/ /\ nsw.locked /\ ~nsw.current
          /\ nsQ' = TRUE
          /\ UNCHANGED <<api, gate>>
    /\ UNCHANGED <<gateQ, keyw, arqQ, faults>>

\* An API call of execute fails (or commits and loses its answer): Immediate.
NsError ==
    /\ nsw.pc \in {"write", "unlock"}
    /\ faults < MaxFaults
    /\ faults' = faults + 1
    /\ nsw' = NsIdle
    /\ nsQ' = TRUE
    /\ UNCHANGED <<api, gate, gateQ, keyw, arqQ>>

-----------------------------------------------------------------------------
\* The arqQueue worker: syncResourceQuotaFromKey copies the cached ARQ.
SyncFromKey ==
    /\ keyw.pc = "idle" /\ arqQ
    /\ arqQ' = FALSE
    /\ keyw' = [pc |-> "sync", used |-> Cached(arq), arqCurrent |-> UpToDate(arq)]
    /\ UNCHANGED <<api, gate, gateQ, nsw, nsQ, faults>>

\* syncResourceQuota on its copy.
SyncKeyQuota ==
    /\ keyw.pc = "sync"
    /\ keyw' = IF CalculateUsage = keyw.used THEN KeyIdle
               ELSE [keyw EXCEPT !.pc = "write", !.used = CalculateUsage]
    /\ UNCHANGED <<api, gate, gateQ, nsw, nsQ, arqQ, faults>>

\* Its UpdateStatus, or a conflict: AddRateLimited.
UpdateArqStatusFromKey ==
    /\ keyw.pc = "write"
    /\ keyw' = KeyIdle
    /\ IF keyw.arqCurrent
       THEN /\ WriteArq(keyw.used)
            /\ nsw' = [nsw EXCEPT !.arqCurrent = FALSE]
            /\ UNCHANGED <<pods, aaqjqc, arqQ>>
       ELSE /\ arqQ' = TRUE
            /\ UNCHANGED <<api, nsw>>
    /\ UNCHANGED <<gate, gateQ, nsQ, faults>>

\* Its UpdateStatus fails: AddRateLimited.
KeyError ==
    /\ keyw.pc = "write"
    /\ faults < MaxFaults
    /\ faults' = faults + 1
    /\ keyw' = KeyIdle
    /\ arqQ' = TRUE
    /\ UNCHANGED <<api, gate, gateQ, nsw, nsQ>>

\* enqueueAll: every resyncPeriod the cached ARQs go to the arqQueue.
EnqueueAll ==
    /\ FullResync /\ ~arqQ
    /\ arqQ' = TRUE
    /\ UNCHANGED <<api, gate, gateQ, nsw, nsQ, keyw, faults>>

-----------------------------------------------------------------------------
\* addPod, deletePod, updatePod: an update counts only between ungated pods.
NsWantsPods(old, new) ==
    \E p \in Pods : Present(old[p]) # Present(new[p])

\* addAaqjqc, updateAaqjqc.
NsWantsAaqjqc(new) == new.locked


=============================================================================
