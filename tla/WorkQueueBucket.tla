-------------------------- MODULE WorkQueueBucket ---------------------------
(***************************************************************************)
(* The bucketing work queue of the cluster quota controller: data is added *)
(* for a key (the namespaces to recompute for a quota), and the worker     *)
(* that gets the key gets the data gathered for it.  The keys go through a *)
(* client-go work queue, which hands a key to one worker at a time and     *)
(* hands it out again if it was added meanwhile.                           *)
(*                                                                         *)
(* The queue's lock is not held between queue.Get and the taking of the    *)
(* work, so anything may happen between the two.                           *)
(***************************************************************************)
CONSTANTS
    Keys,      \* quota names
    Data,      \* work items
    Workers    \* worker goroutines

VARIABLES
    dirty,       \* the client-go queue: keys that need processing
    processing,  \* the client-go queue: keys handed out and not done
    delayed,     \* keys waiting for their rate limiter to add them
    work,        \* the data for a key's next worker
    dirtyWork,   \* the data added while the key is in progress
    inProgress,  \* the keys some worker has taken the work of
    worker       \* what each worker is doing

queueVars == <<dirty, processing, delayed>>
bucketVars == <<work, dirtyWork, inProgress>>
vars == <<queueVars, bucketVars, worker>>

WorkerStates == [pc : {"idle", "got", "sync", "done"}, key : Keys \cup {"none"}, data : SUBSET Data]
Idle == [pc |-> "idle", key |-> "none", data |-> {}]

TypeOK ==
    /\ dirty \subseteq Keys /\ processing \subseteq Keys /\ delayed \subseteq Keys
    /\ work \in [Keys -> SUBSET Data] /\ dirtyWork \in [Keys -> SUBSET Data]
    /\ inProgress \subseteq Keys
    /\ worker \in [Workers -> WorkerStates]

Init ==
    /\ dirty = {} /\ processing = {} /\ delayed = {}
    /\ work = [k \in Keys |-> {}] /\ dirtyWork = [k \in Keys |-> {}]
    /\ inProgress = {}
    /\ worker = [w \in Workers |-> Idle]

-----------------------------------------------------------------------------
\* Mutant: data always goes to the list the next worker takes.
BucketWorkOnly(k, D) ==
    /\ work' = [work EXCEPT ![k] = @ \cup D]
    /\ UNCHANGED dirtyWork

\* Data added while the key is in progress waits in the dirty list.
Bucket(k, D) ==
    IF k \in inProgress
    THEN /\ dirtyWork' = [dirtyWork EXCEPT ![k] = @ \cup D]
         /\ UNCHANGED work
    ELSE /\ work' = [work EXCEPT ![k] = @ \cup D]
         /\ UNCHANGED dirtyWork

\* Mutant: the key of a worker that is busy with it is not added again.
AddWithDataNoKey(k, D) ==
    /\ dirty' = dirty \cup ({k} \ inProgress)
    /\ Bucket(k, D)
    /\ UNCHANGED <<processing, delayed, inProgress, worker>>

AddWithData(k, D) ==
    /\ dirty' = dirty \cup {k}
    /\ Bucket(k, D)
    /\ UNCHANGED <<processing, delayed, inProgress, worker>>

\* The client-go queue: a rate limited key's time has come.
DelayOver(k) ==
    /\ k \in delayed
    /\ delayed' = delayed \ {k}
    /\ dirty' = dirty \cup {k}
    /\ UNCHANGED <<processing, bucketVars, worker>>

\* queue.Get, before the lock: the key is handed out.
GetKey(w) ==
    /\ worker[w].pc = "idle"
    /\ \E k \in dirty \ processing :
          /\ dirty' = dirty \ {k}
          /\ processing' = processing \cup {k}
          /\ worker' = [worker EXCEPT ![w] = [pc |-> "got", key |-> k, data |-> {}]]
    /\ UNCHANGED <<delayed, bucketVars>>

\* The rest of GetWithData, under the lock: the key's work is taken.
GetWithData(w) ==
    /\ worker[w].pc = "got"
    /\ LET k == worker[w].key IN
       /\ worker' = [worker EXCEPT ![w].pc = "sync", ![w].data = work[k]]
       /\ work' = [work EXCEPT ![k] = {}]
       /\ dirtyWork' = [dirtyWork EXCEPT ![k] = {}]
       /\ inProgress' = inProgress \cup {k}
    /\ UNCHANGED queueVars

\* The sync succeeded, or the quota is gone: Forget.
SyncDone(w) ==
    /\ worker[w].pc = "sync"
    /\ worker' = [worker EXCEPT ![w].pc = "done", ![w].data = {}]
    /\ UNCHANGED <<queueVars, bucketVars>>

\* Mutant: the items to retry are kept, but the key is not added for them.
SyncFailedNoKey(w) ==
    /\ worker[w].pc = "sync"
    /\ \E retry \in SUBSET worker[w].data : Bucket(worker[w].key, retry)
    /\ worker' = [worker EXCEPT ![w].pc = "done", ![w].data = {}]
    /\ UNCHANGED <<queueVars, inProgress>>

\* The sync of some of the items failed: AddWithDataRateLimited.
SyncFailed(w) ==
    /\ worker[w].pc = "sync"
    /\ \E retry \in SUBSET worker[w].data : Bucket(worker[w].key, retry)
    /\ delayed' = delayed \cup {worker[w].key}
    /\ worker' = [worker EXCEPT ![w].pc = "done", ![w].data = {}]
    /\ UNCHANGED <<dirty, processing, inProgress>>

\* Mutant: what was added meanwhile is dropped.
DoneDropsDirty(w) ==
    /\ worker[w].pc = "done"
    /\ LET k == worker[w].key IN
       /\ processing' = processing \ {k}
       /\ dirtyWork' = [dirtyWork EXCEPT ![k] = {}]
       /\ inProgress' = inProgress \ {k}
    /\ worker' = [worker EXCEPT ![w] = Idle]
    /\ UNCHANGED <<dirty, delayed, work>>

\* Done: what was added meanwhile becomes the work.
Done(w) ==
    /\ worker[w].pc = "done"
    /\ LET k == worker[w].key IN
       /\ processing' = processing \ {k}
       /\ work' = [work EXCEPT ![k] = dirtyWork[k]]
       /\ dirtyWork' = [dirtyWork EXCEPT ![k] = {}]
       /\ inProgress' = inProgress \ {k}
    /\ worker' = [worker EXCEPT ![w] = Idle]
    /\ UNCHANGED <<dirty, delayed>>

-----------------------------------------------------------------------------
Adds == \E k \in Keys, D \in SUBSET Data : AddWithData(k, D)
Work(w) == GetKey(w) \/ GetWithData(w) \/ SyncDone(w) \/ SyncFailed(w) \/ Done(w)

Next == Adds \/ (\E k \in Keys : DelayOver(k)) \/ (\E w \in Workers : Work(w))

Spec == Init /\ [][Next]_vars

\* Workers run on, and delays end.  A key that is waiting is handed out before
\* the keys added after it, so a worker does not pass one over for ever.
Fairness ==
    /\ \A k \in Keys : WF_vars(DelayOver(k))
    /\ \A w \in Workers : WF_vars(Work(w))
    /\ \A k \in Keys : SF_vars(\E w \in Workers : GetKey(w) /\ k \in processing' \ processing)

FairSpec == Spec /\ Fairness

-----------------------------------------------------------------------------
Owed(k) == work[k] \cup dirtyWork[k]
InHand(k) == {d \in Data : \E w \in Workers :
                 worker[w].pc = "sync" /\ worker[w].key = k /\ d \in worker[w].data}

\* The queue keeps what the abstract queue promises: a worker is handed all the
\* data added for its key so far, none is dropped when a worker is done, and a
\* key is never worked on twice at the same time.
Buckets == INSTANCE WorkBuckets
    WITH pending <- [k \in Keys |-> Owed(k)], busy <- inProgress,
         hand <- [k \in Keys |-> InHand(k)]
ImplementsBuckets == Buckets!Spec

\* Data for a key is never left without the key coming up: it waits in the
\* client-go queue or for its rate limiter, or a worker is about to take it.
NeverStranded ==
    \A k \in Keys : Owed(k) # {} =>
        \/ k \in dirty \cup delayed
        \/ \E w \in Workers : worker[w].pc = "got" /\ worker[w].key = k

\* Every item added is taken by a worker in the end.
WorkTaken == \A k \in Keys, d \in Data : d \in Owed(k) ~> d \notin Owed(k)

\* A worker past queue.Get has its key to itself, which is in progress from the
\* taking of the work to Done; only data of a key in progress is dirty.
Exclusive ==
    /\ \A w \in Workers : worker[w].pc # "idle" =>
          /\ worker[w].key \in processing
          /\ worker[w].pc = "got" <=> worker[w].key \notin inProgress
          /\ \A v \in Workers \ {w} : worker[v].pc # "idle" => worker[v].key # worker[w].key
    /\ \A k \in inProgress : \E w \in Workers : worker[w].pc \in {"sync", "done"} /\ worker[w].key = k
    /\ \A k \in Keys : IF k \in inProgress THEN work[k] = {} ELSE dirtyWork[k] = {}

BucketInv == TypeOK /\ Exclusive /\ NeverStranded

=============================================================================
