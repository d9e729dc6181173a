----------------------- MODULE WorkQueueBucketProofs ------------------------
(***************************************************************************)
(* Proofs about the bucketing work queue, for every set of keys, items and *)
(* workers: no data is stranded or dropped, and a key is worked on by one  *)
(* worker at a time.                                                       *)
(***************************************************************************)
EXTENDS WorkQueueBucket, TLAPS

\* A busy worker's key and what the worker's step makes of the worker.
LEMMA WorkerFacts ==
    ASSUME TypeOK, Exclusive, NEW w \in Workers
    PROVE  /\ worker[w] \in WorkerStates
           /\ worker[w].pc # "idle" => worker[w].key \in Keys
    BY DEF TypeOK, Exclusive

\* Every step of the queue and of its workers keeps the types.
LEMMA TypeStep ==
    ASSUME TypeOK, Exclusive, [Next]_vars
    PROVE  TypeOK'
<1>1. ASSUME NEW k \in Keys, NEW D \in SUBSET Data, AddWithData(k, D) PROVE TypeOK'
    BY <1>1 DEF TypeOK, AddWithData, Bucket
<1>2. ASSUME NEW k \in Keys, DelayOver(k) PROVE TypeOK'
    BY <1>2 DEF TypeOK, DelayOver, bucketVars
<1>3. ASSUME NEW w \in Workers, Work(w) PROVE TypeOK'
    <2>0. worker[w] \in WorkerStates /\ (worker[w].pc # "idle" => worker[w].key \in Keys)
        BY WorkerFacts
    <2>1. CASE GetKey(w)
        BY <2>0, <2>1 DEF TypeOK, GetKey, WorkerStates, bucketVars
    <2>2. CASE GetWithData(w)
        <3> DEFINE k == worker[w].key
        <3>1. k \in Keys /\ work[k] \in SUBSET Data
            BY <2>0, <2>2 DEF TypeOK, GetWithData
        <3>2. worker' = [worker EXCEPT ![w].pc = "sync", ![w].data = work[k]]
            BY <2>2 DEF GetWithData
        <3>3. worker' \in [Workers -> WorkerStates]
            BY <2>0, <3>1, <3>2 DEF TypeOK, WorkerStates
        <3> QED BY <2>2, <3>1, <3>3 DEF TypeOK, GetWithData, queueVars
    <2>3. CASE SyncDone(w)
        BY <2>0, <2>3 DEF TypeOK, SyncDone, WorkerStates, queueVars, bucketVars
    <2>4. CASE SyncFailed(w)
        <3>1. worker[w].key \in Keys /\ worker[w].data \in SUBSET Data
            BY <2>0, <2>4 DEF SyncFailed, WorkerStates
        <3>2. work' \in [Keys -> SUBSET Data] /\ dirtyWork' \in [Keys -> SUBSET Data]
            BY <2>4, <3>1 DEF TypeOK, SyncFailed, Bucket
        <3>3. worker' \in [Workers -> WorkerStates]
            BY <2>0, <2>4 DEF TypeOK, SyncFailed, WorkerStates
        <3> QED BY <2>4, <3>1, <3>2, <3>3 DEF TypeOK, SyncFailed
    <2>5. CASE Done(w)
        BY <2>0, <2>5 DEF TypeOK, Done, WorkerStates, Idle
    <2> QED BY <1>3, <2>1, <2>2, <2>3, <2>4, <2>5 DEF Work
<1>4. CASE UNCHANGED vars
    BY <1>4 DEF TypeOK, vars, queueVars, bucketVars
<1> QED BY <1>1, <1>2, <1>3, <1>4 DEF Next, Adds

-----------------------------------------------------------------------------
LEMMA ExclusiveStep ==
    ASSUME TypeOK, Exclusive, [Next]_vars
    PROVE  Exclusive'
<1>1. ASSUME NEW k \in Keys, NEW D \in SUBSET Data, AddWithData(k, D) PROVE Exclusive'
    BY <1>1 DEF TypeOK, Exclusive, AddWithData, Bucket
<1>2. ASSUME NEW k \in Keys, DelayOver(k) PROVE Exclusive'
    BY <1>2 DEF Exclusive, DelayOver, bucketVars
<1>3. ASSUME NEW w \in Workers, Work(w) PROVE Exclusive'
    <2>0. worker[w] \in WorkerStates /\ (worker[w].pc # "idle" => worker[w].key \in Keys)
        BY WorkerFacts
    <2>1. CASE GetKey(w)
        <3>1. PICK k \in dirty \ processing :
                  /\ processing' = processing \cup {k}
                  /\ worker' = [worker EXCEPT ![w] = [pc |-> "got", key |-> k, data |-> {}]]
            BY <2>1 DEF GetKey
        <3>2. /\ worker'[w].pc = "got" /\ worker'[w].key = k
              /\ \A v \in Workers \ {w} : worker'[v] = worker[v]
            BY <3>1 DEF TypeOK
        <3>3. UNCHANGED <<work, dirtyWork, inProgress>> /\ worker[w].pc = "idle"
            BY <2>1 DEF GetKey, bucketVars
        <3>4. k \notin inProgress
            BY <3>1 DEF Exclusive
        <3> QED BY <3>1, <3>2, <3>3, <3>4 DEF Exclusive
    <2>2. CASE GetWithData(w)
        <3> DEFINE k == worker[w].key
        <3>1. /\ worker'[w].pc = "sync" /\ worker'[w].key = k
              /\ \A v \in Workers \ {w} : worker'[v] = worker[v]
            BY <2>0, <2>2 DEF TypeOK, GetWithData, WorkerStates
        <3>2. /\ worker[w].pc = "got" /\ k \in Keys
              /\ inProgress' = inProgress \cup {k}
              /\ work'[k] = {} /\ dirtyWork'[k] = {}
              /\ \A j \in Keys \ {k} : work'[j] = work[j] /\ dirtyWork'[j] = dirtyWork[j]
              /\ UNCHANGED processing
            BY <2>0, <2>2 DEF TypeOK, GetWithData, queueVars
        <3> QED BY <3>1, <3>2 DEF Exclusive
    <2>3. CASE SyncDone(w) \/ SyncFailed(w)
        <3> DEFINE k == worker[w].key
        <3>1. /\ worker'[w].pc = "done" /\ worker'[w].key = k
              /\ \A v \in Workers \ {w} : worker'[v] = worker[v]
            BY <2>0, <2>3 DEF TypeOK, SyncDone, SyncFailed, WorkerStates
        <3>2. /\ worker[w].pc = "sync" /\ UNCHANGED <<inProgress, processing>>
              /\ k \in Keys
            BY <2>0, <2>3 DEF SyncDone, SyncFailed, queueVars, bucketVars
        <3>3. k \in inProgress
            BY <3>2 DEF Exclusive
        <3>4. UNCHANGED work /\ \A j \in Keys \ {k} : dirtyWork'[j] = dirtyWork[j]
            BY <2>3, <3>2, <3>3 DEF TypeOK, SyncDone, SyncFailed, Bucket, bucketVars
        <3> QED BY <3>1, <3>2, <3>3, <3>4 DEF Exclusive
    <2>4. CASE Done(w)
        <3> DEFINE k == worker[w].key
        <3>1. /\ worker'[w].pc = "idle"
              /\ \A v \in Workers \ {w} : worker'[v] = worker[v]
            BY <2>4 DEF TypeOK, Done, Idle
        <3>2. /\ worker[w].pc = "done" /\ k \in Keys
              /\ inProgress' = inProgress \ {k} /\ processing' = processing \ {k}
              /\ dirtyWork'[k] = {}
              /\ \A j \in Keys \ {k} : work'[j] = work[j] /\ dirtyWork'[j] = dirtyWork[j]
            BY <2>0, <2>4 DEF TypeOK, Done
        <3> QED BY <3>1, <3>2 DEF Exclusive
    <2> QED BY <1>3, <2>1, <2>2, <2>3, <2>4 DEF Work
<1>4. CASE UNCHANGED vars
    BY <1>4 DEF Exclusive, vars, queueVars, bucketVars
<1> QED BY <1>1, <1>2, <1>3, <1>4 DEF Next, Adds
-----------------------------------------------------------------------------
LEMMA StrandedStep ==
    ASSUME TypeOK, Exclusive, NeverStranded, [Next]_vars
    PROVE  NeverStranded'
<1>1. ASSUME NEW k \in Keys, NEW D \in SUBSET Data, AddWithData(k, D) PROVE NeverStranded'
    <2>1. \A j \in Keys \ {k} : Owed(j)' = Owed(j)
        BY <1>1 DEF TypeOK, AddWithData, Bucket, Owed
    <2> QED BY <1>1, <2>1 DEF NeverStranded, AddWithData
<1>2. ASSUME NEW k \in Keys, DelayOver(k) PROVE NeverStranded'
    BY <1>2 DEF NeverStranded, DelayOver, Owed, bucketVars
<1>3. ASSUME NEW w \in Workers, Work(w) PROVE NeverStranded'
    <2>0. worker[w] \in WorkerStates /\ (worker[w].pc # "idle" => worker[w].key \in Keys)
        BY WorkerFacts
    <2>1. CASE GetKey(w)
        <3>1. PICK k \in dirty \ processing :
                  /\ dirty' = dirty \ {k}
                  /\ worker' = [worker EXCEPT ![w] = [pc |-> "got", key |-> k, data |-> {}]]
            BY <2>1 DEF GetKey
        <3>2. /\ worker'[w].pc = "got" /\ worker'[w].key = k /\ worker[w].pc = "idle"
              /\ \A v \in Workers \ {w} : worker'[v] = worker[v]
            BY <2>1, <3>1 DEF TypeOK, GetKey
        <3>3. UNCHANGED delayed /\ \A j : Owed(j)' = Owed(j)
            BY <2>1 DEF GetKey, bucketVars, Owed
        <3> QED BY <3>1, <3>2, <3>3 DEF NeverStranded
    <2>2. CASE GetWithData(w)
        <3>0. PICK k \in Keys : k = worker[w].key
            BY <2>0, <2>2 DEF GetWithData
        <3>1. UNCHANGED <<dirty, delayed>>
              /\ \A v \in Workers \ {w} : worker'[v] = worker[v]
            BY <2>0, <2>2 DEF TypeOK, GetWithData, queueVars
        <3>2. Owed(k)' = {} /\ \A j \in Keys \ {k} : Owed(j)' = Owed(j)
            BY <2>2, <3>0 DEF TypeOK, GetWithData, Owed
        <3> QED BY <3>0, <3>1, <3>2 DEF NeverStranded
    <2>3. CASE SyncDone(w) \/ SyncFailed(w)
        <3>0. PICK k \in Keys : k = worker[w].key
            BY <2>0, <2>3 DEF SyncDone, SyncFailed
        <3>1. /\ worker[w].pc = "sync" /\ UNCHANGED dirty
              /\ \A v \in Workers \ {w} : worker'[v] = worker[v]
            BY <2>0, <2>3 DEF TypeOK, SyncDone, SyncFailed, queueVars
        <3>2. CASE SyncDone(w)
            <4>1. UNCHANGED delayed /\ \A j : Owed(j)' = Owed(j)
                BY <3>2 DEF SyncDone, Owed, queueVars, bucketVars
            <4> QED BY <3>1, <4>1 DEF NeverStranded
        <3>3. CASE SyncFailed(w)
            <4>1. k \in delayed' /\ delayed \subseteq delayed'
                BY <3>0, <3>3 DEF SyncFailed
            <4>2. \A j \in Keys \ {k} : Owed(j)' = Owed(j)
                BY <3>0, <3>3 DEF TypeOK, SyncFailed, Bucket, Owed
            <4> QED BY <3>1, <4>1, <4>2 DEF NeverStranded
        <3> QED BY <2>3, <3>2, <3>3
    <2>4. CASE Done(w)
        <3>0. PICK k \in Keys : k = worker[w].key
            BY <2>0, <2>4 DEF Done
        <3>1. /\ worker[w].pc = "done" /\ UNCHANGED <<dirty, delayed>>
              /\ \A v \in Workers \ {w} : worker'[v] = worker[v]
            BY <2>0, <2>4 DEF TypeOK, Done
        <3>2. Owed(k)' \subseteq Owed(k) /\ \A j \in Keys \ {k} : Owed(j)' = Owed(j)
            BY <2>4, <3>0 DEF TypeOK, Done, Owed
        <3> QED BY <3>0, <3>1, <3>2 DEF NeverStranded, Exclusive
    <2> QED BY <1>3, <2>1, <2>2, <2>3, <2>4 DEF Work
<1>4. CASE UNCHANGED vars
    BY <1>4 DEF NeverStranded, Owed, vars, queueVars, bucketVars
<1> QED BY <1>1, <1>2, <1>3, <1>4 DEF Next, Adds

\* In every reachable state a key's worker has it to itself, and data that no
\* worker has taken belongs to a key that will come up again.
THEOREM BucketInvariant == Spec => []BucketInv
<1>1. Init => BucketInv
    BY DEF Init, BucketInv, TypeOK, Exclusive, NeverStranded, Owed, WorkerStates, Idle
<1>2. BucketInv /\ [Next]_vars => BucketInv'
    BY TypeStep, ExclusiveStep, StrandedStep DEF BucketInv
<1> QED BY <1>1, <1>2, PTL DEF Spec

\* Data added for a key is never left in a bucket nobody will be woken for.
COROLLARY NothingStranded == Spec => []NeverStranded
<1>1. BucketInv => NeverStranded
    BY DEF BucketInv
<1> QED BY <1>1, BucketInvariant, PTL

\* No key is ever with two workers of the ACRQ controller, and while one is at a
\* key, what is added for it goes to the dirty work and nowhere else (GetWithData,
\* AddWithData, Done).
COROLLARY KeysExclusive == Spec => []Exclusive
<1>1. BucketInv => Exclusive
    BY DEF BucketInv
<1> QED BY <1>1, BucketInvariant, PTL

-----------------------------------------------------------------------------
\* The worker of a key is the one that has its data in hand.
LEMMA HandOfWorker ==
    ASSUME TypeOK, Exclusive, NEW w \in Workers, worker[w].pc # "idle"
    PROVE  InHand(worker[w].key) = IF worker[w].pc = "sync" THEN worker[w].data ELSE {}
<1>1. worker[w].data \subseteq Data
    BY DEF TypeOK, WorkerStates
<1>2. \A v \in Workers : worker[v].pc = "sync" /\ worker[v].key = worker[w].key => v = w
    BY DEF Exclusive
<1> QED BY <1>1, <1>2 DEF InHand

\* A step of the queue is a step of the abstract queue or stutters.
LEMMA StepRefines ==
    ASSUME BucketInv, [Next]_vars
    PROVE  [Buckets!Next]_(Buckets!bvars)
<1> DEFINE pend == [k \in Keys |-> Owed(k)]
           hnd == [k \in Keys |-> InHand(k)]
<1>0. TypeOK /\ Exclusive /\ TypeOK' /\ Exclusive'
    BY TypeStep, ExclusiveStep DEF BucketInv
<1>1. ASSUME pend' = pend, hnd' = hnd, inProgress' = inProgress
      PROVE  [Buckets!Next]_(Buckets!bvars)
    BY <1>1 DEF Buckets!bvars
<1>2. ASSUME NEW k \in Keys, NEW D \in SUBSET Data, AddWithData(k, D)
      PROVE  [Buckets!Next]_(Buckets!bvars)
    <2>1. pend' = [pend EXCEPT ![k] = @ \cup D]
        BY <1>0, <1>2 DEF TypeOK, AddWithData, Bucket, Owed
    <2>2. hnd' = hnd /\ inProgress' = inProgress
        BY <1>2 DEF AddWithData, InHand
    <2>3. Buckets!Add(k, D)
        BY <2>1, <2>2 DEF Buckets!Add
    <2> QED BY <2>3 DEF Buckets!Next
<1>3. ASSUME NEW k \in Keys, DelayOver(k)
      PROVE  [Buckets!Next]_(Buckets!bvars)
    BY <1>1, <1>3 DEF DelayOver, bucketVars, Owed, InHand
<1>4. ASSUME NEW w \in Workers, Work(w)
      PROVE  [Buckets!Next]_(Buckets!bvars)
    <2> DEFINE k == worker[w].key
    <2>0. worker[w] \in WorkerStates /\ (worker[w].pc # "idle" => k \in Keys)
        BY <1>0, WorkerFacts
    <2>1. ASSUME \A v \in Workers \ {w} : worker'[v] = worker[v],
                 worker'[w].pc = "sync" => worker'[w].key = k,
                 worker[w].pc # "idle"
          PROVE  \A j \in Keys \ {k} : InHand(j)' = InHand(j)
        BY <2>1 DEF InHand
    <2>2. CASE GetKey(w)
        <3>1. \A j : InHand(j)' = InHand(j)
            <4>1. worker[w].pc = "idle" /\ worker'[w].pc = "got"
                  /\ \A v \in Workers \ {w} : worker'[v] = worker[v]
                BY <1>0, <2>2 DEF TypeOK, GetKey
            <4> QED BY <4>1 DEF InHand
        <3> QED BY <1>1, <2>2, <3>1 DEF GetKey, bucketVars, Owed
    <2>3. CASE GetWithData(w)
        <3>1. /\ worker[w].pc = "got" /\ k \in Keys
              /\ \A v \in Workers \ {w} : worker'[v] = worker[v]
              /\ worker'[w].pc = "sync" /\ worker'[w].key = k /\ worker'[w].data = work[k]
            BY <1>0, <2>0, <2>3 DEF TypeOK, GetWithData, WorkerStates
        <3>2. k \notin inProgress /\ Owed(k) = work[k]
            BY <1>0, <3>1 DEF Exclusive, Owed
        <3>3. InHand(k)' = work[k]
            <4>1. \A v \in Workers : worker'[v].pc = "sync" /\ worker'[v].key = k => v = w
                BY <1>0, <3>1 DEF Exclusive
            <4>2. work[k] \subseteq Data
                BY <1>0, <3>1 DEF TypeOK
            <4> QED BY <3>1, <4>1, <4>2 DEF InHand
        <3>4. hnd' = [hnd EXCEPT ![k] = pend[k]]
            BY <2>1, <3>1, <3>2, <3>3
        <3>5. pend' = [pend EXCEPT ![k] = {}]
            <4>1. Owed(k)' = {} /\ \A j \in Keys \ {k} : Owed(j)' = Owed(j)
                BY <1>0, <2>3, <3>1 DEF TypeOK, GetWithData, Owed
            <4> QED BY <3>1, <4>1
        <3>6. inProgress' = inProgress \cup {k}
            BY <2>3 DEF GetWithData
        <3>7. Buckets!Take(k)
            BY <3>2, <3>4, <3>5, <3>6 DEF Buckets!Take
        <3> QED BY <3>1, <3>7 DEF Buckets!Next
    <2>4. CASE SyncDone(w) \/ SyncFailed(w)
        <3>1. /\ worker[w].pc = "sync" /\ k \in Keys /\ inProgress' = inProgress
              /\ \A v \in Workers \ {w} : worker'[v] = worker[v]
              /\ worker'[w].pc = "done" /\ worker'[w].key = k
            BY <1>0, <2>0, <2>4 DEF TypeOK, SyncDone, SyncFailed, WorkerStates, bucketVars
        <3>2. k \in inProgress /\ InHand(k) = worker[w].data
            BY <1>0, <3>1, HandOfWorker DEF Exclusive
        <3>3. InHand(k)' = {}
            BY <1>0, <3>1 DEF Exclusive, InHand
        <3>4. hnd' = [hnd EXCEPT ![k] = {}]
            BY <2>1, <3>1, <3>3
        <3>5. PICK R \in SUBSET worker[w].data : pend' = [pend EXCEPT ![k] = @ \cup R]
            <4>1. CASE SyncDone(w)
                <5>1. pend' = [pend EXCEPT ![k] = @ \cup {}]
                    BY <3>1, <4>1 DEF SyncDone, bucketVars, Owed
                <5> QED BY <5>1
            <4>2. CASE SyncFailed(w)
                <5>1. PICK R \in SUBSET worker[w].data : Bucket(k, R)
                    BY <4>2 DEF SyncFailed
                <5>2. pend' = [pend EXCEPT ![k] = @ \cup R]
                    BY <1>0, <3>1, <5>1 DEF TypeOK, Bucket, Owed
                <5> QED BY <5>2
            <4> QED BY <2>4, <4>1, <4>2
        <3>6. R \in SUBSET Data
            BY <2>0 DEF WorkerStates
        <3>7. Buckets!Finish(k, R)
            BY <3>1, <3>2, <3>4, <3>5 DEF Buckets!Finish
        <3> QED BY <3>1, <3>6, <3>7 DEF Buckets!Next
    <2>5. CASE Done(w)
        <3>1. /\ worker[w].pc = "done" /\ k \in Keys /\ inProgress' = inProgress \ {k}
              /\ \A v \in Workers \ {w} : worker'[v] = worker[v]
              /\ worker'[w].pc = "idle"
            BY <1>0, <2>0, <2>5 DEF TypeOK, Done, Idle
        <3>2. k \in inProgress /\ work[k] = {} /\ InHand(k) = {}
            BY <1>0, <3>1, HandOfWorker DEF Exclusive
        <3>3. hnd' = hnd
            BY <3>1 DEF InHand
        <3>4. pend' = pend
            BY <1>0, <2>5, <3>1, <3>2 DEF TypeOK, Done, Owed
        <3>5. Buckets!Release(k)
            BY <3>1, <3>2, <3>3, <3>4 DEF Buckets!Release
        <3> QED BY <3>1, <3>5 DEF Buckets!Next
    <2> QED BY <1>4, <2>2, <2>3, <2>4, <2>5 DEF Work
<1>5. CASE UNCHANGED vars
    BY <1>1, <1>5 DEF vars, queueVars, bucketVars, Owed, InHand
<1> QED BY <1>2, <1>3, <1>4, <1>5 DEF Next, Adds

\* The bucketing work queue hands a key's worker everything added for the key,
\* drops nothing and never hands a key to two workers, however additions,
\* failures and delays interleave with the workers.
THEOREM BucketsRefined == Spec => ImplementsBuckets
<1>1. Init => Buckets!Init
    BY DEF Init, Buckets!Init, Owed, InHand, Idle
<1>2. BucketInv /\ [Next]_vars => [Buckets!Next]_(Buckets!bvars)
    BY StepRefines
<1> QED BY <1>1, <1>2, BucketInvariant, PTL DEF Spec, ImplementsBuckets, Buckets!Spec

=============================================================================
