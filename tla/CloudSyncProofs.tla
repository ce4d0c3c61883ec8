-------------------------- MODULE CloudSyncProofs ---------------------------
(***************************************************************************)
(* Proofs about CloudSync, for every set of jobs, every quota and every      *)
(* bound.  The invariants the runs check are not inductive on their own:     *)
(* IInv adds how the stages, the queue, the tasks and the lock tie together, *)
(* AccountInv when a clip has been stored and by which plan another goes,    *)
(* and OvershootInv what every copy of the index holds.  The quota is a sum: *)
(* what is needed of sums over finite sets is proved by induction over the   *)
(* subsets of a set (SubsetInduction).                                       *)
(***************************************************************************)
EXTENDS CloudSync, FiniteSetTheorems, TLAPS

\* An attempt that is under way, or can still be made, is one that was left.
AttemptsLeft ==
    \A j \in Jobs : stage[j] \in {"new", "queued"} \cup Busy => attempts[j] < MaxAttempts

\* The queue lists the queued jobs, each once.
QueueLists ==
    /\ \A n \in 1..Len(queue) : stage[queue[n]] = "queued"
    /\ \A m, n \in 1..Len(queue) : queue[m] = queue[n] => m = n
    /\ \A j \in Jobs : stage[j] = "queued" => \E n \in 1..Len(queue) : queue[n] = j
    /\ worker = "asking" => queue # <<>>

\* A job being handled has a task, started for its present attempt.
TasksRun == \A j \in Jobs : stage[j] \in Busy => <<j, attempts[j]>> \in inflight

\* The lock is held by the job asking the recorder, for as long as it asks.
LockIsHeld == \A j \in Jobs : stage[j] \in Calling <=> lock = j

\* A syncer that is not running has nothing in hand.
DownIsIdle == ~up => \A j \in Jobs : stage[j] \notin Busy \cup {"queued"}

\* What the code between two awaits does to one job's place.
WorkInv == AttemptsLeft /\ QueueLists /\ TasksRun

IInv == TypeOK /\ WorkInv /\ LockIsHeld /\ DownIsIdle /\ IndexWasUploaded

LEMMA InflightFinite == TypeOK => IsFiniteSet(inflight)
<1>1. MaxAttempts \in Nat /\ IsFiniteSet(Jobs)
  BY SyncAssumption
<1>2. IsFiniteSet(0..MaxAttempts)
  BY <1>1, FS_Interval
<1>3. IsFiniteSet(Jobs \X (0..MaxAttempts))
  BY <1>1, <1>2, FS_Product
<1>. QED
  BY <1>3, FS_Subset DEF TypeOK

LEMMA InitIInv == Init => IInv
<1>. SUFFICES ASSUME Init PROVE IInv
  OBVIOUS
<1>. USE SyncAssumption DEF Init, Stages, Busy, Calling, Ended
<1>0. MaxAttempts \in Nat \ {0} /\ MaxLooks \in Nat \ {0} /\ MaxStarts \in Nat \ {0}
  OBVIOUS
<1>1. TypeOK
  <2>1. /\ stage \in [Jobs -> Stages]
        /\ attempts \in [Jobs -> 0..MaxAttempts]
        /\ looks \in [Jobs -> 0..MaxLooks]
        /\ doomed \in [Jobs -> SUBSET Jobs]
    BY <1>0
  <2>2. /\ queue \in Seq(Jobs) /\ worker \in {"off", "waiting", "asking"}
        /\ inflight \subseteq Jobs \X (0..MaxAttempts)
        /\ seen \in Nat /\ starts \in 1..MaxStarts
    BY <1>0
  <2>. QED
    BY <2>1, <2>2 DEF TypeOK
<1>2. WorkInv
  BY DEF WorkInv, AttemptsLeft, QueueLists, TasksRun
<1>3. LockIsHeld /\ DownIsIdle /\ IndexWasUploaded
  BY DEF LockIsHeld, DownIsIdle, IndexWasUploaded
<1>. QED
  BY <1>1, <1>2, <1>3 DEF IInv

-----------------------------------------------------------------------------
(* A task's step keeps every job in its place, whether it goes on or fails.  *)

LEMMA GoesKeepsWork ==
    ASSUME TypeOK, WorkInv, NEW j \in Jobs, stage[j] \in Busy,
           NEW to \in Busy \cup Ended, Goes(j, to), UNCHANGED flow
    PROVE  WorkInv'
<1>. USE DEF TypeOK, WorkInv, Goes, flow
<1>1. AttemptsLeft'
  BY DEF AttemptsLeft, Ended, Busy, Calling
<1>2. QueueLists'
  <2>1. \A n \in 1..Len(queue) : queue[n] \in Jobs /\ queue[n] # j
    BY DEF QueueLists, Busy, Calling
  <2>2. \A k \in Jobs : stage'[k] = "queued" => stage[k] = "queued"
    BY DEF Busy, Calling, Ended
  <2>. QED
    BY <2>1, <2>2 DEF QueueLists
<1>3. TasksRun'
  BY DEF TasksRun
<1>. QED
  BY <1>1, <1>2, <1>3

LEMMA FailsKeepsWork ==
    ASSUME TypeOK, WorkInv, NEW j \in Jobs, stage[j] \in Busy, Fails(j), UNCHANGED flow
    PROVE  /\ WorkInv'
           /\ stage' \in [Jobs -> Stages]
           /\ attempts' \in [Jobs -> 0..MaxAttempts]
           /\ doomed' \in [Jobs -> SUBSET Jobs]
           /\ queue' \in Seq(Jobs)
           /\ stage'[j] \in {"queued", "failed"}
           /\ \A k \in Jobs \ {j} : stage'[k] = stage[k]
<1>0. /\ MaxAttempts \in Nat
      /\ attempts[j] \in 0..MaxAttempts
      /\ attempts[j] < MaxAttempts
  BY SyncAssumption DEF TypeOK, WorkInv, AttemptsLeft
<1>1. /\ attempts' = [attempts EXCEPT ![j] = attempts[j] + 1]
      /\ doomed' = [doomed EXCEPT ![j] = {}]
      /\ \/ /\ attempts[j] + 1 < MaxAttempts
            /\ stage' = [stage EXCEPT ![j] = "queued"]
            /\ queue' = Append(queue, j)
         \/ stage' = [stage EXCEPT ![j] = "failed"] /\ queue' = queue
  BY DEF Fails
<1>2. /\ attempts' \in [Jobs -> 0..MaxAttempts]
      /\ doomed' \in [Jobs -> SUBSET Jobs]
  BY <1>0, <1>1 DEF TypeOK
<1>3. /\ stage' \in [Jobs -> Stages]
      /\ queue' \in Seq(Jobs)
      /\ stage'[j] \in {"queued", "failed"}
      /\ \A k \in Jobs \ {j} : stage'[k] = stage[k]
  <2>1. "queued" \in Stages /\ "failed" \in Stages
    BY DEF Stages, Ended
  <2>2. Append(queue, j) \in Seq(Jobs)
    BY DEF TypeOK
  <2>. QED
    BY <1>1, <2>1, <2>2 DEF TypeOK
<1>4. AttemptsLeft'
  BY <1>0, <1>1 DEF AttemptsLeft, WorkInv, Busy, Calling, TypeOK
<1>5. QueueLists'
  <2>1. \A n \in 1..Len(queue) : queue[n] \in Jobs /\ queue[n] # j
    <3>1. stage[j] # "queued"
      BY DEF Busy, Calling
    <3>. QED
      BY <3>1 DEF QueueLists, WorkInv, TypeOK
  <2>2. worker' = worker
    BY DEF flow
  <2>3. CASE stage' = [stage EXCEPT ![j] = "queued"] /\ queue' = Append(queue, j)
    <3>1. /\ Len(queue') = Len(queue) + 1
          /\ queue'[Len(queue) + 1] = j
          /\ \A n \in 1..Len(queue) : queue'[n] = queue[n]
          /\ queue' # <<>>
          /\ Len(queue) \in Nat
      BY <2>3 DEF TypeOK
    <3>2. \A n \in 1..Len(queue') : n \in 1..Len(queue) \/ n = Len(queue) + 1
      BY <3>1
    <3>3. \A k \in Jobs : stage'[k] = "queued" => stage[k] = "queued" \/ k = j
      BY <1>3
    <3>4. \A k \in Jobs : stage'[k] = "queued" => \E n \in 1..Len(queue') : queue'[n] = k
      BY <3>1, <3>3 DEF QueueLists, WorkInv
    <3>5. \A n \in 1..Len(queue') : stage'[queue'[n]] = "queued"
      BY <2>1, <2>3, <3>1, <3>2 DEF QueueLists, WorkInv, TypeOK
    <3>6. \A m, n \in 1..Len(queue') : queue'[m] = queue'[n] => m = n
      BY <2>1, <3>1, <3>2 DEF QueueLists, WorkInv
    <3>. QED
      BY <3>1, <3>4, <3>5, <3>6 DEF QueueLists
  <2>4. CASE stage' = [stage EXCEPT ![j] = "failed"] /\ queue' = queue
    BY <2>1, <2>2, <2>4 DEF QueueLists, WorkInv, TypeOK
  <2>. QED
    BY <1>1, <2>3, <2>4
<1>6. TasksRun'
  <2>1. inflight' = inflight
    BY DEF flow
  <2>2. \A k \in Jobs \ {j} : attempts'[k] = attempts[k]
    BY <1>1 DEF TypeOK
  <2>3. stage'[j] \notin Busy
    BY <1>3 DEF Busy, Calling
  <2>. QED
    BY <1>3, <2>1, <2>2, <2>3 DEF TasksRun, WorkInv
<1>. QED
  BY <1>2, <1>3, <1>4, <1>5, <1>6 DEF WorkInv

\* What is known of the queue and the stages after either kind of step of j.
Moved(j) ==
    /\ stage' \in [Jobs -> Stages]
    /\ attempts' \in [Jobs -> 0..MaxAttempts]
    /\ queue' \in Seq(Jobs)
    /\ \A k \in Jobs \ {j} : stage'[k] = stage[k]
    /\ WorkInv'

LEMMA GoesMoves ==
    ASSUME IInv, NEW j \in Jobs, stage[j] \in Busy,
           NEW to \in Busy \cup Ended, Goes(j, to), UNCHANGED flow
    PROVE  Moved(j) /\ stage'[j] = to
<1>1. to \in Stages
  BY DEF Stages
<1>2. WorkInv'
  BY GoesKeepsWork DEF IInv
<1>. QED
  BY <1>1, <1>2 DEF Moved, Goes, IInv, TypeOK

LEMMA FailsMoves ==
    ASSUME IInv, NEW j \in Jobs, stage[j] \in Busy, Fails(j), UNCHANGED flow
    PROVE  /\ Moved(j)
           /\ stage'[j] \in {"queued", "failed"}
           /\ doomed' \in [Jobs -> SUBSET Jobs]
  BY FailsKeepsWork DEF IInv, Moved

\* The lock follows the job's calls: taken, released or left alone.
LEMMA LockFollows ==
    ASSUME IInv, NEW j \in Jobs, Moved(j),
           \/ lock' = lock /\ stage[j] \notin Calling /\ stage'[j] \notin Calling
           \/ lock = NoJob /\ lock' = j /\ stage'[j] \in Calling
           \/ lock = j /\ lock' = NoJob /\ stage'[j] \notin Calling
    PROVE  LockIsHeld' /\ lock' \in Jobs \cup {NoJob}
<1>1. NoJob \notin Jobs
  BY SyncAssumption
<1>2. \A k \in Jobs : stage[k] \in Calling <=> lock = k
  BY DEF IInv, LockIsHeld
<1>3. \A k \in Jobs \ {j} : stage'[k] = stage[k]
  BY DEF Moved
<1>4. ASSUME NEW k \in Jobs PROVE stage'[k] \in Calling <=> lock' = k
  BY <1>1, <1>2, <1>3, <1>4
<1>. QED
  BY <1>4 DEF LockIsHeld, IInv, TypeOK

\* What a task's step leaves of the index, and of the syncer being up.
LEMMA IndexFollows ==
    ASSUME IInv, NEW j \in Jobs, stage[j] \in Busy, Moved(j),
           \A k \in index' : k \in index \/ (k = j /\ stage'[j] = "uploaded"),
           UNCHANGED <<up, saved, late>>
    PROVE  DownIsIdle' /\ IndexWasUploaded'
<1>1. up'
  BY DEF IInv, DownIsIdle
<1>2. \A k \in index \cup saved \cup UNION late : k # j /\ k \in Jobs
  BY DEF IInv, IndexWasUploaded, TypeOK, Busy, Calling
<1>3. \A k \in index \cup saved \cup UNION late : stage'[k] = "uploaded"
  BY <1>2 DEF IInv, IndexWasUploaded, Moved
<1>. QED
  BY <1>1, <1>3 DEF DownIsIdle, IndexWasUploaded

LEMMA DecidingKeeps ==
    ASSUME IInv, NEW j \in Jobs, Wanted(j) \/ Unwanted(j)
    PROVE  IInv'
<1>0. MaxLooks \in Nat
  BY SyncAssumption
<1>1. stage[j] \in Busy /\ stage[j] \notin Calling /\ UNCHANGED <<flow, store, life, lock, doomed>>
  BY DEF Wanted, Unwanted, Busy, Calling, flow, store, life
<1>2. Moved(j) /\ stage'[j] \in {"looking", "unwanted"}
  <2>1. CASE Goes(j, "looking")
    BY <1>1, <2>1, GoesMoves DEF Busy
  <2>2. CASE Goes(j, "unwanted")
    BY <1>1, <2>2, GoesMoves DEF Ended
  <2>. QED
    BY <2>1, <2>2 DEF Wanted, Unwanted
<1>3. looks' \in [Jobs -> 0..MaxLooks]
  <2>1. looks \in [Jobs -> 0..MaxLooks] /\ 0 \in 0..MaxLooks
    BY <1>0 DEF IInv, TypeOK
  <2>2. looks' = looks \/ looks' = [looks EXCEPT ![j] = 0]
    BY DEF Wanted, Unwanted
  <2>. QED
    BY <2>1, <2>2
<1>4. LockIsHeld' /\ lock' \in Jobs \cup {NoJob}
  BY <1>1, <1>2, LockFollows DEF Calling
<1>5. DownIsIdle' /\ IndexWasUploaded'
  BY <1>1, <1>2, IndexFollows DEF store, life
<1>6. TypeOK'
  BY <1>1, <1>2, <1>3, <1>4 DEF Moved, IInv, TypeOK, flow, store, life
<1>. QED
  BY <1>2, <1>4, <1>5, <1>6 DEF IInv, Moved

LEMMA LookingKeeps ==
    ASSUME IInv, NEW j \in Jobs, Search(j) \/ Searched(j) \/ Fetch(j)
    PROVE  IInv'
<1>0. MaxLooks \in Nat
  BY SyncAssumption
<1>1. stage[j] \in Busy /\ UNCHANGED <<flow, store, life, doomed>>
  BY DEF Search, Searched, Fetch, Busy, Calling, flow, store, life
<1>2. CASE Search(j) \/ Fetch(j)
  <2>1. lock = NoJob /\ lock' = j /\ UNCHANGED looks
    BY <1>2 DEF Search, Fetch
  <2>2. Moved(j) /\ stage'[j] \in Calling
    <3>1. CASE Goes(j, "searching")
      BY <1>1, <3>1, GoesMoves DEF Busy, Calling
    <3>2. CASE Goes(j, "fetching")
      BY <1>1, <3>2, GoesMoves DEF Busy, Calling
    <3>. QED
      BY <1>2, <3>1, <3>2 DEF Search, Fetch
  <2>3. LockIsHeld' /\ lock' \in Jobs \cup {NoJob}
    BY <2>1, <2>2, LockFollows
  <2>4. DownIsIdle' /\ IndexWasUploaded'
    BY <1>1, <2>2, IndexFollows DEF store, life
  <2>5. TypeOK'
    BY <1>1, <2>1, <2>2, <2>3 DEF Moved, IInv, TypeOK, flow, store, life
  <2>. QED
    BY <2>2, <2>3, <2>4, <2>5 DEF IInv, Moved
<1>3. CASE Searched(j)
  <2>1. stage[j] = "searching" /\ lock' = NoJob
    BY <1>3 DEF Searched
  <2>2. lock = j
    BY <2>1 DEF IInv, LockIsHeld, Calling
  <2>3. Moved(j) /\ stage'[j] \in {"found", "looking"}
    <3>1. CASE Goes(j, "found")
      BY <1>1, <3>1, GoesMoves DEF Busy
    <3>2. CASE Goes(j, "looking")
      BY <1>1, <3>2, GoesMoves DEF Busy
    <3>. QED
      BY <1>3, <3>1, <3>2 DEF Searched
  <2>4. looks' \in [Jobs -> 0..MaxLooks]
    <3>1. looks \in [Jobs -> 0..MaxLooks] /\ looks[j] \in 0..MaxLooks
      BY DEF IInv, TypeOK
    <3>2. \/ looks' = looks
          \/ looks[j] + 1 < MaxLooks /\ looks' = [looks EXCEPT ![j] = looks[j] + 1]
      BY <1>3 DEF Searched
    <3>3. looks[j] + 1 < MaxLooks => looks[j] + 1 \in 0..MaxLooks
      BY <1>0, <3>1
    <3>. QED
      BY <3>1, <3>2, <3>3
  <2>5. LockIsHeld' /\ lock' \in Jobs \cup {NoJob}
    BY <2>1, <2>2, <2>3, LockFollows DEF Calling
  <2>6. DownIsIdle' /\ IndexWasUploaded'
    BY <1>1, <2>3, IndexFollows DEF store, life
  <2>7. TypeOK'
    BY <1>1, <2>3, <2>4, <2>5 DEF Moved, IInv, TypeOK, flow, store, life
  <2>. QED
    BY <2>3, <2>5, <2>6, <2>7 DEF IInv, Moved
<1>. QED
  BY <1>2, <1>3

\* The check of the quota either lets the upload start or fails the attempt.
LEMMA StoresOrFails ==
    ASSUME IInv, NEW j \in Jobs, stage[j] \in Busy, UNCHANGED flow,
           (Goes(j, "storing") /\ doomed' = [doomed EXCEPT ![j] = {}]) \/ Fails(j)
    PROVE  /\ Moved(j)
           /\ stage'[j] \in {"storing", "queued", "failed"}
           /\ doomed' \in [Jobs -> SUBSET Jobs]
<1>1. CASE Goes(j, "storing") /\ doomed' = [doomed EXCEPT ![j] = {}]
  <2>1. Moved(j) /\ stage'[j] = "storing"
    BY <1>1, GoesMoves DEF Busy
  <2>. QED
    BY <1>1, <2>1 DEF IInv, TypeOK
<1>2. CASE Fails(j)
  BY <1>2, FailsMoves
<1>. QED
  BY <1>1, <1>2

LEMMA FetchedKeeps ==
    ASSUME IInv, NEW j \in Jobs, Fetched(j)
    PROVE  IInv'
<1>1. stage[j] \in Busy /\ UNCHANGED <<flow, store, life, looks>>
  BY DEF Fetched, Busy, Calling, flow, store, life
<1>2. lock = j /\ lock' = NoJob
  BY DEF Fetched, IInv, LockIsHeld, Calling
<1>3. /\ Moved(j)
      /\ stage'[j] \in {"storing", "queued", "failed", "evicting"}
      /\ doomed' \in [Jobs -> SUBSET Jobs]
  <2>. DEFINE plan == PlanEviction(index, Size[j])
  <2>1. plan \subseteq Jobs
    BY DEF PlanEviction, IInv, TypeOK
  <2>2. CASE plan = {}
    <3>1. StoresIfItFits(j, index)
      BY <2>2 DEF Fetched
    <3>. QED
      BY <1>1, <3>1, StoresOrFails DEF StoresIfItFits
  <2>3. CASE plan # {}
    <3>1. Goes(j, "evicting") /\ doomed' = [doomed EXCEPT ![j] = plan]
      BY <2>3 DEF Fetched
    <3>2. Moved(j) /\ stage'[j] = "evicting"
      BY <1>1, <3>1, GoesMoves DEF Busy
    <3>. QED
      BY <2>1, <3>1, <3>2 DEF IInv, TypeOK
  <2>. QED
    BY <2>2, <2>3
<1>4. LockIsHeld' /\ lock' \in Jobs \cup {NoJob}
  BY <1>2, <1>3, LockFollows DEF Calling
<1>5. DownIsIdle' /\ IndexWasUploaded'
  BY <1>1, <1>3, IndexFollows DEF store, life
<1>6. TypeOK'
  BY <1>1, <1>3, <1>4 DEF Moved, IInv, TypeOK, flow, store, life
<1>. QED
  BY <1>3, <1>4, <1>5, <1>6 DEF IInv, Moved

LEMMA EvictedKeeps ==
    ASSUME IInv, NEW j \in Jobs, Evicted(j)
    PROVE  IInv'
<1>1. stage[j] = "deleted" /\ UNCHANGED <<flow, cloud, life, looks, lock>>
  BY DEF Evicted
<1>2. stage[j] \in Busy /\ stage[j] \notin Calling
  BY <1>1 DEF Busy, Calling
<1>. DEFINE gone == Oldest(doomed[j])
            rest == doomed[j] \ {gone}
<1>3. index' = index \ {gone}
  BY DEF Evicted
<1>4. /\ Moved(j)
      /\ stage'[j] \in {"storing", "queued", "failed", "evicting"}
      /\ doomed' \in [Jobs -> SUBSET Jobs]
  <2>1. CASE rest = {}
    <3>1. StoresIfItFits(j, index')
      BY <2>1 DEF Evicted
    <3>. QED
      BY <1>1, <1>2, <3>1, StoresOrFails DEF StoresIfItFits
  <2>2. CASE rest # {}
    <3>1. Goes(j, "evicting") /\ doomed' = [doomed EXCEPT ![j] = rest]
      BY <2>2 DEF Evicted
    <3>2. Moved(j) /\ stage'[j] = "evicting"
      BY <1>1, <1>2, <3>1, GoesMoves DEF Busy
    <3>. QED
      BY <3>1, <3>2 DEF IInv, TypeOK
  <2>. QED
    BY <2>1, <2>2
<1>5. LockIsHeld' /\ lock' \in Jobs \cup {NoJob}
  BY <1>1, <1>2, <1>4, LockFollows DEF Calling
<1>6. DownIsIdle' /\ IndexWasUploaded'
  BY <1>1, <1>2, <1>3, <1>4, IndexFollows DEF life
<1>7. TypeOK'
  BY <1>1, <1>3, <1>4, <1>5 DEF Moved, IInv, TypeOK, flow, life
<1>. QED
  BY <1>4, <1>5, <1>6, <1>7 DEF IInv, Moved

LEMMA CloudKeeps ==
    ASSUME IInv, NEW j \in Jobs, DeleteOnCloud(j) \/ StoreOnCloud(j) \/ Uploaded(j)
    PROVE  IInv'
<1>1. /\ stage[j] \in Busy /\ stage[j] \notin Calling
      /\ UNCHANGED <<flow, looks, doomed, lock, up, starts, saved, late>>
  BY DEF DeleteOnCloud, StoreOnCloud, Uploaded, Busy, Calling, life
<1>2. Moved(j) /\ stage'[j] \in {"deleted", "stored", "uploaded"}
  <2>1. CASE Goes(j, "deleted")
    BY <1>1, <2>1, GoesMoves DEF Busy
  <2>2. CASE Goes(j, "stored")
    BY <1>1, <2>2, GoesMoves DEF Busy
  <2>3. CASE Goes(j, "uploaded")
    BY <1>1, <2>3, GoesMoves DEF Ended
  <2>. QED
    BY <2>1, <2>2, <2>3 DEF DeleteOnCloud, StoreOnCloud, Uploaded
<1>3. /\ cloud' \subseteq Jobs
      /\ dirty' \in BOOLEAN
      /\ index' = index \/ (index' = index \cup {j} /\ stage'[j] = "uploaded")
  <2>1. CASE DeleteOnCloud(j) \/ StoreOnCloud(j)
    BY <2>1 DEF DeleteOnCloud, StoreOnCloud, life, IInv, TypeOK
  <2>2. CASE Uploaded(j)
    BY <2>2 DEF Uploaded, Goes, IInv, TypeOK
  <2>. QED
    BY <2>1, <2>2
<1>4. LockIsHeld' /\ lock' \in Jobs \cup {NoJob}
  BY <1>1, <1>2, LockFollows DEF Calling
<1>5. DownIsIdle' /\ IndexWasUploaded'
  BY <1>1, <1>2, <1>3, IndexFollows
<1>6. TypeOK'
  BY <1>1, <1>2, <1>3, <1>4 DEF Moved, IInv, TypeOK, flow
<1>. QED
  BY <1>2, <1>4, <1>5, <1>6 DEF IInv, Moved

LEMMA CallFailsKeeps ==
    ASSUME IInv, NEW j \in Jobs, CallFails(j)
    PROVE  IInv'
<1>1. stage[j] \in Busy /\ UNCHANGED <<flow, store, life, looks>>
  BY DEF CallFails, Busy, Calling, flow, store, life
<1>2. /\ Moved(j)
      /\ stage'[j] \in {"queued", "failed"}
      /\ doomed' \in [Jobs -> SUBSET Jobs]
  BY <1>1, FailsMoves DEF CallFails
<1>3. stage[j] \in Calling <=> lock = j
  BY DEF IInv, LockIsHeld
<1>4. LockIsHeld' /\ lock' \in Jobs \cup {NoJob}
  <2>1. CASE lock = j
    BY <1>2, <2>1, LockFollows DEF CallFails, Calling
  <2>2. CASE lock # j
    BY <1>2, <1>3, <2>2, LockFollows DEF CallFails, Calling
  <2>. QED
    BY <2>1, <2>2
<1>5. DownIsIdle' /\ IndexWasUploaded'
  BY <1>1, <1>2, IndexFollows DEF store, life
<1>6. TypeOK'
  BY <1>1, <1>2, <1>4 DEF Moved, IInv, TypeOK, flow, store, life
<1>. QED
  BY <1>2, <1>4, <1>5, <1>6 DEF IInv, Moved

LEMMA StepKeeps ==
    ASSUME IInv, NEW j \in Jobs, Step(j)
    PROVE  IInv'
  BY DecidingKeeps, LookingKeeps, FetchedKeeps, EvictedKeeps, CloudKeeps, CallFailsKeeps DEF Step

-----------------------------------------------------------------------------
(* The worker, and the syncer's life.                                       *)

\* An action that leaves the jobs, the queue and the tasks alone disturbs nothing
\* as long as the worker is not set asking for slots with nothing queued.
LEMMA WorkAlone ==
    ASSUME IInv, UNCHANGED <<work, inflight>>, worker' = "asking" => queue # <<>>
    PROVE  WorkInv'
  BY DEF work, IInv, WorkInv, AttemptsLeft, QueueLists, TasksRun

LEMMA ArriveKeeps ==
    ASSUME IInv, NEW j \in Jobs, Arrive(j)
    PROVE  IInv'
<1>1. /\ up /\ stage[j] = "new"
      /\ stage' = [stage EXCEPT ![j] = "queued"]
      /\ queue' = Append(queue, j)
      /\ wake' = TRUE
      /\ UNCHANGED <<attempts, looks, doomed, inflight, worker, seen, lock, store, life>>
  BY DEF Arrive
<1>2. "queued" \in Stages /\ Append(queue, j) \in Seq(Jobs)
  BY DEF Stages, IInv, TypeOK
<1>3. TypeOK'
  BY <1>1, <1>2 DEF IInv, TypeOK, store, life
<1>4. QueueLists'
  <2>1. \A n \in 1..Len(queue) : queue[n] \in Jobs /\ queue[n] # j
    BY <1>1 DEF IInv, TypeOK, WorkInv, QueueLists
  <2>2. /\ Len(queue') = Len(queue) + 1
        /\ queue'[Len(queue) + 1] = j
        /\ \A n \in 1..Len(queue) : queue'[n] = queue[n]
        /\ queue' # <<>>
        /\ Len(queue) \in Nat
    BY <1>1 DEF IInv, TypeOK
  <2>3. \A n \in 1..Len(queue') : n \in 1..Len(queue) \/ n = Len(queue) + 1
    BY <2>2
  <2>4. \A k \in Jobs : stage'[k] = "queued" => stage[k] = "queued" \/ k = j
    BY <1>1 DEF IInv, TypeOK
  <2>5. \A k \in Jobs : stage'[k] = "queued" => \E n \in 1..Len(queue') : queue'[n] = k
    BY <2>2, <2>4 DEF IInv, QueueLists, WorkInv
  <2>6. \A n \in 1..Len(queue') : stage'[queue'[n]] = "queued"
    BY <1>1, <2>1, <2>2, <2>3 DEF IInv, QueueLists, WorkInv, TypeOK
  <2>7. \A m, n \in 1..Len(queue') : queue'[m] = queue'[n] => m = n
    BY <2>1, <2>2, <2>3 DEF IInv, QueueLists, WorkInv
  <2>. QED
    BY <2>2, <2>5, <2>6, <2>7 DEF QueueLists
<1>5. AttemptsLeft' /\ TasksRun'
  BY <1>1 DEF IInv, TypeOK, WorkInv, AttemptsLeft, TasksRun, Busy, Calling
<1>6. LockIsHeld'
  BY <1>1 DEF IInv, TypeOK, LockIsHeld, Calling
<1>7. DownIsIdle' /\ IndexWasUploaded'
  <2>1. \A k \in index \cup saved \cup UNION late : k # j /\ k \in Jobs
    BY <1>1 DEF IInv, IndexWasUploaded, TypeOK
  <2>. QED
    BY <1>1, <2>1 DEF IInv, TypeOK, DownIsIdle, IndexWasUploaded, store, life
<1>. QED
  BY <1>3, <1>4, <1>5, <1>6, <1>7 DEF IInv, WorkInv

LEMMA WaitingKeeps ==
    ASSUME IInv,
           \/ WorkerWakes
           \/ \E slots \in 1..MaxSlots : Declines(slots)
    PROVE  IInv'
<1>1. UNCHANGED <<work, inflight, lock, store, life>>
  BY DEF WorkerWakes, Declines
<1>2. /\ worker' \in {"off", "waiting", "asking"} /\ seen' \in Nat /\ wake' \in BOOLEAN
      /\ worker' = "asking" => queue # <<>>
  <2>1. CASE WorkerWakes
    <3>1. Cardinality(inflight) \in Nat /\ wake \in BOOLEAN
      BY InflightFinite, FS_CardinalityType DEF IInv, TypeOK
    <3>2. LoopHead(queue, inflight)
      BY <2>1 DEF WorkerWakes
    <3>3. /\ worker' = "waiting" \/ (worker' = "asking" /\ queue # <<>>)
          /\ seen' = 0 \/ seen' = Cardinality(inflight)
          /\ wake' = FALSE \/ wake' = wake
      BY <3>2, Zenon DEF LoopHead
    <3>4. seen' \in Nat
      BY <3>1, <3>3
    <3>5. wake' \in BOOLEAN
      BY <3>1, <3>3
    <3>. QED
      BY <3>3, <3>4, <3>5
  <2>2. CASE \E slots \in 1..MaxSlots : Declines(slots)
    <3>1. worker' = "waiting" /\ seen' = 0 /\ wake' = FALSE
      BY <2>2 DEF Declines
    <3>. QED
      BY <3>1
  <2>. QED
    BY <2>1, <2>2
<1>3. TypeOK'
  BY <1>1, <1>2 DEF IInv, TypeOK, work, store, life
<1>4. WorkInv'
  BY <1>1, <1>2, WorkAlone
<1>5. LockIsHeld' /\ DownIsIdle' /\ IndexWasUploaded'
  BY <1>1 DEF IInv, LockIsHeld, DownIsIdle, IndexWasUploaded, work, store, life
<1>. QED
  BY <1>3, <1>4, <1>5 DEF IInv

LEMMA FinishedKeeps ==
    ASSUME IInv, NEW task \in inflight, Finished(task)
    PROVE  IInv'
<1>1. /\ inflight' = inflight \ {task} /\ ~Runs(task) /\ wake' = TRUE
      /\ UNCHANGED <<work, worker, seen, lock, store, life>>
  BY DEF Finished
<1>2. TypeOK'
  BY <1>1 DEF IInv, TypeOK, work, store, life
<1>3. AttemptsLeft' /\ QueueLists'
  BY <1>1 DEF IInv, WorkInv, AttemptsLeft, QueueLists, work
<1>4. TasksRun'
  <2>1. \A j \in Jobs : stage[j] \in Busy => <<j, attempts[j]>> # task
    BY <1>1 DEF Runs
  <2>. QED
    BY <1>1, <2>1 DEF IInv, WorkInv, TasksRun, work
<1>5. LockIsHeld' /\ DownIsIdle' /\ IndexWasUploaded'
  BY <1>1 DEF IInv, LockIsHeld, DownIsIdle, IndexWasUploaded, work, store, life
<1>. QED
  BY <1>2, <1>3, <1>4, <1>5 DEF IInv, WorkInv

LEMMA AdmitsKeeps ==
    ASSUME IInv, NEW slots \in 1..MaxSlots, Admits(slots)
    PROVE  IInv'
<1>. DEFINE j == Head(queue)
<1>1. /\ worker = "asking"
      /\ stage' = [stage EXCEPT ![j] = "deciding"]
      /\ inflight' = inflight \cup {<<j, attempts[j]>>}
      /\ queue' = Tail(queue)
      /\ LoopHead(queue', inflight')
      /\ UNCHANGED <<attempts, looks, doomed, lock, store, life>>
  BY DEF Admits
<1>2. /\ queue \in Seq(Jobs) /\ queue # <<>>
      /\ Len(queue) \in Nat \ {0} /\ j = queue[1] /\ j \in Jobs
  BY <1>1 DEF IInv, TypeOK, WorkInv, QueueLists
<1>3. /\ Len(queue') = Len(queue) - 1
      /\ \A n \in 1..Len(queue') : queue'[n] = queue[n + 1] /\ n + 1 \in 1..Len(queue)
      /\ queue' \in Seq(Jobs)
  BY <1>1, <1>2
<1>4. stage[j] = "queued" /\ stage[j] \notin Calling /\ stage[j] \notin Busy
  BY <1>2 DEF IInv, WorkInv, QueueLists, Calling, Busy
<1>5. /\ stage' \in [Jobs -> Stages] /\ stage'[j] = "deciding"
      /\ \A k \in Jobs \ {j} : stage'[k] = stage[k]
  BY <1>1, <1>2 DEF IInv, TypeOK, Stages, Busy
<1>6. inflight' \subseteq Jobs \X (0..MaxAttempts)
  BY <1>1, <1>2 DEF IInv, TypeOK
<1>7. /\ worker' \in {"off", "waiting", "asking"} /\ seen' \in Nat /\ wake' \in BOOLEAN
      /\ worker' = "asking" => queue' # <<>>
  <2>1. IsFiniteSet(inflight')
    BY <1>1, InflightFinite, FS_AddElement DEF IInv
  <2>2. Cardinality(inflight') \in Nat /\ wake \in BOOLEAN
    BY <2>1, FS_CardinalityType DEF IInv, TypeOK
  <2>3. /\ worker' = "waiting" \/ (worker' = "asking" /\ queue' # <<>>)
        /\ seen' = 0 \/ seen' = Cardinality(inflight')
        /\ wake' = FALSE \/ wake' = wake
    BY <1>1, Zenon DEF LoopHead
  <2>4. seen' \in Nat
    BY <2>2, <2>3
  <2>5. wake' \in BOOLEAN
    BY <2>2, <2>3
  <2>. QED
    BY <2>3, <2>4, <2>5
<1>8. TypeOK'
  BY <1>1, <1>3, <1>5, <1>6, <1>7 DEF IInv, TypeOK, store, life
<1>9. QueueLists'
  <2>1. \A m, n \in 1..Len(queue) : queue[m] = queue[n] => m = n
    BY DEF IInv, WorkInv, QueueLists
  <2>2. \A n \in 1..Len(queue') : queue'[n] # j /\ queue'[n] \in Jobs
    BY <1>2, <1>3, <2>1
  <2>3. \A n \in 1..Len(queue') : stage'[queue'[n]] = "queued"
    BY <1>3, <1>5, <2>2 DEF IInv, WorkInv, QueueLists
  <2>4. \A m, n \in 1..Len(queue') : queue'[m] = queue'[n] => m = n
    BY <1>3, <2>1
  <2>5. ASSUME NEW k \in Jobs, stage'[k] = "queued"
        PROVE  \E n \in 1..Len(queue') : queue'[n] = k
    <3>1. k # j /\ stage[k] = "queued"
      BY <1>5, <2>5
    <3>2. PICK n \in 1..Len(queue) : queue[n] = k
      BY <3>1 DEF IInv, WorkInv, QueueLists
    <3>3. n # 1 /\ n - 1 \in 1..Len(queue')
      BY <1>2, <1>3, <3>1, <3>2
    <3>4. queue'[n - 1] = queue[(n - 1) + 1] /\ (n - 1) + 1 = n
      BY <1>3, <3>2, <3>3
    <3>. QED
      BY <3>2, <3>3, <3>4
  <2>. QED
    BY <1>7, <2>3, <2>4, <2>5 DEF QueueLists
<1>10. AttemptsLeft' /\ TasksRun'
  BY <1>1, <1>2, <1>4, <1>5 DEF IInv, WorkInv, AttemptsLeft, TasksRun
<1>11. LockIsHeld'
  BY <1>1, <1>4, <1>5 DEF IInv, LockIsHeld, Calling
<1>12. DownIsIdle' /\ IndexWasUploaded'
  <2>1. up
    BY <1>2, <1>4 DEF IInv, DownIsIdle
  <2>2. \A k \in index \cup saved \cup UNION late : k # j /\ k \in Jobs
    BY <1>4 DEF IInv, IndexWasUploaded, TypeOK
  <2>. QED
    BY <1>1, <1>5, <2>1, <2>2 DEF IInv, DownIsIdle, IndexWasUploaded, store, life
<1>. QED
  BY <1>8, <1>9, <1>10, <1>11, <1>12 DEF IInv, WorkInv

LEMMA AbandonKeeps ==
    ASSUME IInv, Stop \/ Crash
    PROVE  IInv'
<1>1. Abandon /\ dirty' \in BOOLEAN /\ late' \subseteq late
  BY DEF Stop, Crash
<1>2. /\ up /\ up' = FALSE
      /\ stage' = [j \in Jobs |-> IF stage[j] \in Busy \cup {"queued"} THEN "lost" ELSE stage[j]]
      /\ queue' = <<>> /\ doomed' = [j \in Jobs |-> {}] /\ inflight' = {}
      /\ worker' = "off" /\ seen' = 0 /\ wake' = FALSE /\ lock' = NoJob
      /\ UNCHANGED <<attempts, looks, index, starts, saved>>
  BY <1>1 DEF Abandon
<1>3. cloud' \subseteq Jobs
  <2>1. PICK stored \in SUBSET {j \in Jobs : stage[j] = "storing"},
             deleted \in SUBSET {Oldest(doomed[j]) : j \in {k \in Jobs : stage[k] = "evicting"}} :
                 cloud' = (cloud \ deleted) \cup stored
    BY <1>1 DEF Abandon
  <2>. QED
    BY <2>1 DEF IInv, TypeOK
<1>4. /\ stage' \in [Jobs -> Stages]
      /\ \A j \in Jobs : stage'[j] \notin Busy \cup {"queued"}
      /\ \A j \in Jobs : stage[j] = "uploaded" => stage'[j] = "uploaded"
      /\ \A j \in Jobs : stage'[j] = "new" => stage[j] = "new"
  BY <1>2 DEF IInv, TypeOK, Stages, Busy, Calling, Ended
<1>5. TypeOK'
  <2>1. queue' \in Seq(Jobs) /\ doomed' \in [Jobs -> SUBSET Jobs]
    BY <1>2
  <2>2. wake' \in BOOLEAN /\ up' \in BOOLEAN /\ late' \subseteq SUBSET Jobs
    BY <1>1, <1>2 DEF IInv, TypeOK
  <2>. QED
    BY <1>1, <1>2, <1>3, <1>4, <2>1, <2>2 DEF IInv, TypeOK
<1>6. WorkInv'
  BY <1>2, <1>4 DEF IInv, WorkInv, AttemptsLeft, QueueLists, TasksRun
<1>7. LockIsHeld'
  <2>1. NoJob \notin Jobs
    BY SyncAssumption
  <2>. QED
    BY <1>2, <1>4, <2>1 DEF LockIsHeld, Busy
<1>8. DownIsIdle'
  BY <1>4 DEF DownIsIdle
<1>9. IndexWasUploaded'
  <2>1. \A k \in index \cup saved \cup UNION late : stage[k] = "uploaded" /\ k \in Jobs
    BY DEF IInv, IndexWasUploaded, TypeOK
  <2>. QED
    BY <1>1, <1>2, <1>4, <2>1 DEF IndexWasUploaded
<1>. QED
  BY <1>5, <1>6, <1>7, <1>8, <1>9 DEF IInv

LEMMA SaveKeeps ==
    ASSUME IInv, Save \/ \E old \in late : LateSave(old)
    PROVE  IInv'
<1>1. UNCHANGED <<work, flow, lock, store, up, starts>>
  BY DEF Save, LateSave
<1>2. dirty' \in BOOLEAN /\ late' \subseteq late /\ (saved' = index \/ saved' \in late)
  <2>1. CASE Save
    BY <2>1 DEF Save
  <2>2. CASE \E old \in late : LateSave(old)
    BY <2>2 DEF LateSave, IInv, TypeOK
  <2>. QED
    BY <2>1, <2>2
<1>3. TypeOK'
  <2>1. saved' \subseteq Jobs /\ late' \subseteq SUBSET Jobs
    BY <1>2 DEF IInv, TypeOK
  <2>. QED
    BY <1>1, <1>2, <2>1 DEF IInv, TypeOK, work, flow, store
<1>4. WorkInv'
  BY <1>1, WorkAlone DEF IInv, WorkInv, QueueLists, work, flow
<1>5. LockIsHeld' /\ DownIsIdle'
  BY <1>1 DEF IInv, LockIsHeld, DownIsIdle, work
<1>6. IndexWasUploaded'
  BY <1>1, <1>2 DEF IInv, IndexWasUploaded, work, store
<1>. QED
  BY <1>3, <1>4, <1>5, <1>6 DEF IInv

LEMMA StartKeeps ==
    ASSUME IInv, Start
    PROVE  IInv'
<1>1. /\ ~up /\ starts < MaxStarts /\ up' = TRUE /\ starts' = starts + 1
      /\ worker' = "waiting"
      /\ UNCHANGED <<work, inflight, seen, wake, lock, cloud, saved>>
  BY DEF Start
<1>2. index' \subseteq saved /\ dirty' \in BOOLEAN
  BY DEF Start
<1>3. late' \subseteq late \cup {index}
  BY DEF Start
<1>4. TypeOK'
  <2>1. index' \subseteq Jobs /\ late' \subseteq SUBSET Jobs
    BY <1>2, <1>3 DEF IInv, TypeOK
  <2>2. starts' \in 1..MaxStarts
    BY <1>1, SyncAssumption DEF IInv, TypeOK
  <2>3. up' \in BOOLEAN /\ worker' \in {"off", "waiting", "asking"}
    BY <1>1
  <2>. QED
    BY <1>1, <1>2, <2>1, <2>2, <2>3 DEF IInv, TypeOK, work
<1>5. WorkInv'
  BY <1>1, WorkAlone
<1>6. LockIsHeld' /\ DownIsIdle'
  BY <1>1 DEF IInv, LockIsHeld, DownIsIdle, work
<1>7. IndexWasUploaded'
  BY <1>1, <1>2, <1>3 DEF IInv, IndexWasUploaded, work
<1>. QED
  BY <1>4, <1>5, <1>6, <1>7 DEF IInv

LEMMA NextIInv == IInv /\ [Next]_vars => IInv'
<1>. SUFFICES ASSUME IInv, [Next]_vars PROVE IInv'
  OBVIOUS
<1>1. ASSUME NEW j \in Jobs, Arrive(j) \/ Step(j) PROVE IInv'
  BY <1>1, ArriveKeeps, StepKeeps
<1>2. CASE WorkerWakes
  BY <1>2, WaitingKeeps
<1>3. ASSUME NEW slots \in 1..MaxSlots, Admits(slots) \/ Declines(slots) PROVE IInv'
  BY <1>3, AdmitsKeeps, WaitingKeeps
<1>4. ASSUME NEW task \in inflight, Finished(task) PROVE IInv'
  BY <1>4, FinishedKeeps
<1>5. CASE Stop \/ Crash
  BY <1>5, AbandonKeeps
<1>6. CASE Save \/ \E old \in late : LateSave(old)
  BY <1>6, SaveKeeps
<1>7. CASE Start
  BY <1>7, StartKeeps
<1>8. CASE UNCHANGED vars
  BY <1>8 DEF vars, work, flow, store, life, IInv, TypeOK, WorkInv, AttemptsLeft, QueueLists,
              TasksRun, LockIsHeld, DownIsIdle, IndexWasUploaded
<1>. QED
  BY <1>1, <1>2, <1>3, <1>4, <1>5, <1>6, <1>7, <1>8 DEF Next

LEMMA IInvHolds == Spec => []IInv
  BY InitIInv, NextIInv, PTL DEF Spec

-----------------------------------------------------------------------------

\* Every variable keeps to its type, whatever the constants: attempts and looks
\* never pass their limits (engine.py 550-564, 677-740).
THEOREM CloudSyncTypeOK == Spec => []TypeOK
<1>1. IInv => TypeOK
  BY DEF IInv
<1>. QED
  BY <1>1, IInvHolds, PTL

\* The recorder is asked by one clip at a time (engine.py 10-11, 103-108), however
\* many clips are in flight: whoever asks holds the lock.
THEOREM RecorderIsAskedOnce == Spec => []RecorderAskedOnce
<1>1. IInv => RecorderAskedOnce
  BY DEF IInv, LockIsHeld, RecorderAskedOnce
<1>. QED
  BY <1>1, IInvHolds, PTL

\* A job is queued once or handled by one task, never both, and the worker never
\* pops an empty queue (engine.py 474-564).
THEOREM EachJobIsInOnePlace == Spec => []EachJobInOnePlace
<1>1. ASSUME IInv PROVE EachJobInOnePlace
  <2>1. DOMAIN queue = 1..Len(queue) /\ \A n \in DOMAIN queue : queue[n] \in Jobs
    BY <1>1 DEF IInv, TypeOK
  <2>2. \A j \in Jobs : stage[j] = "queued" <=> \E n \in DOMAIN queue : queue[n] = j
    BY <1>1, <2>1 DEF IInv, WorkInv, QueueLists
  <2>3. \A j \in Jobs : stage[j] \in Busy <=> \E task \in inflight : task[1] = j /\ Runs(task)
    <3>1. ASSUME NEW j \in Jobs, stage[j] \in Busy
          PROVE  \E task \in inflight : task[1] = j /\ Runs(task)
      <4>1. <<j, attempts[j]>> \in inflight
        BY <1>1, <3>1 DEF IInv, WorkInv, TasksRun
      <4>2. <<j, attempts[j]>>[1] = j /\ Runs(<<j, attempts[j]>>)
        BY <3>1 DEF Runs
      <4>. QED
        BY <4>1, <4>2
    <3>. QED
      BY <3>1 DEF Runs
  <2>4. \A m, n \in DOMAIN queue : queue[m] = queue[n] => m = n
    BY <1>1, <2>1 DEF IInv, WorkInv, QueueLists
  <2>5. worker = "asking" => queue # <<>>
    BY <1>1 DEF IInv, WorkInv, QueueLists
  <2>. QED
    BY <2>2, <2>3, <2>4, <2>5 DEF EachJobInOnePlace
<1>. QED
  BY <1>1, IInvHolds, PTL

\* The index counts only clips that were uploaded, in memory, on disk and in the
\* saves that are still to come, through any number of restarts (engine.py 249-320).
THEOREM IndexIsOfUploads == Spec => []IndexWasUploaded
<1>1. IInv => IndexWasUploaded
  BY DEF IInv
<1>. QED
  BY <1>1, IInvHolds, PTL

-----------------------------------------------------------------------------
(* CloudSync keeps the promise of ClipDelivery.                             *)

Status == [j \in Jobs |-> StatusOf(stage[j])]

\* A step that touches one job changes the status of that job alone.
LEMMA StatusMoves ==
    ASSUME NEW j \in Jobs, \A k \in Jobs \ {j} : stage'[k] = stage[k]
    PROVE  Status' = [Status EXCEPT ![j] = StatusOf(stage'[j])]
  BY DEF Status

LEMMA BusyIsPending ==
    ASSUME NEW j \in Jobs, stage[j] \in Busy \cup {"queued"}
    PROVE  Status[j] = "pending" /\ StatusOf(stage[j]) = "pending"
  BY DEF Status, StatusOf, Busy, Calling

\* The steps of a task, but for an eviction, keep its clip pending, keep it, let
\* it go or give it up, and touch the index only in keeping it.
LEMMA StepDelivers ==
    ASSUME IInv, NEW j \in Jobs, Step(j), ~Evicted(j), ~Uploaded(j)
    PROVE  \/ UNCHANGED <<Status, index, up>>
           \/ Delivery!Decline(j)
           \/ Delivery!GiveUp(j)
<1>1. /\ stage[j] \in Busy
      /\ UNCHANGED <<index, up>>
  BY DEF Step, Wanted, Unwanted, Search, Searched, Fetch, Fetched, DeleteOnCloud, StoreOnCloud,
         CallFails, Busy, Calling, store, life
<1>2. up
  BY <1>1 DEF IInv, DownIsIdle
<1>3. Status \in [Jobs -> {StatusOf(st) : st \in Stages}]
  BY DEF Status, IInv, TypeOK
<1>4. CASE \E to \in Busy : Goes(j, to)
  <2>1. PICK to \in Busy : stage' = [stage EXCEPT ![j] = to]
    BY <1>4 DEF Goes
  <2>2. Status' = [Status EXCEPT ![j] = "pending"]
    BY <2>1, StatusMoves DEF IInv, TypeOK, StatusOf, Busy, Calling
  <2>3. Status[j] = "pending"
    BY <1>1, BusyIsPending
  <2>. QED
    BY <1>1, <1>3, <2>2, <2>3
<1>5. CASE Unwanted(j)
  <2>1. stage' = [stage EXCEPT ![j] = "unwanted"] /\ j \notin Ordinary
    BY <1>5 DEF Unwanted, Goes
  <2>2. Status' = [Status EXCEPT ![j] = "declined"]
    BY <2>1, StatusMoves DEF IInv, TypeOK, StatusOf
  <2>3. Status[j] = "pending"
    BY <1>1, BusyIsPending
  <2>. QED
    BY <1>1, <1>2, <2>1, <2>2, <2>3 DEF Delivery!Decline, Delivery!Becomes, Status
<1>6. CASE Fails(j)
  <2>1. \/ stage' = [stage EXCEPT ![j] = "queued"]
        \/ stage' = [stage EXCEPT ![j] = "failed"]
    BY <1>6 DEF Fails
  <2>2. Status[j] = "pending"
    BY <1>1, BusyIsPending
  <2>3. CASE stage' = [stage EXCEPT ![j] = "queued"]
    <3>1. Status' = [Status EXCEPT ![j] = "pending"]
      BY <2>3, StatusMoves DEF IInv, TypeOK, StatusOf, Busy, Calling
    <3>. QED
      BY <1>1, <1>3, <2>2, <3>1
  <2>4. CASE stage' = [stage EXCEPT ![j] = "failed"]
    <3>1. Status' = [Status EXCEPT ![j] = "abandoned"]
      BY <2>4, StatusMoves DEF IInv, TypeOK, StatusOf
    <3>. QED
      BY <1>1, <1>2, <2>2, <3>1 DEF Delivery!GiveUp, Delivery!Becomes, Status
  <2>. QED
    BY <2>1, <2>3, <2>4
<1>7. (\E to \in Busy : Goes(j, to)) \/ Unwanted(j) \/ Fails(j)
  <2>1. CASE Fetched(j)
    BY <2>1 DEF Fetched, StoresIfItFits, Busy
  <2>. QED
    BY <2>1 DEF Step, Wanted, Search, Searched, Fetch, DeleteOnCloud, StoreOnCloud, CallFails,
                Busy, Calling
<1>. QED
  BY <1>4, <1>5, <1>6, <1>7

LEMMA UploadedDelivers ==
    ASSUME IInv, NEW j \in Jobs, Uploaded(j)
    PROVE  Delivery!Keep(j)
<1>1. /\ stage[j] \in Busy /\ up' = up /\ index' = index \cup {j}
      /\ stage' = [stage EXCEPT ![j] = "uploaded"]
  BY DEF Uploaded, Goes, Busy
<1>2. up
  BY <1>1 DEF IInv, DownIsIdle
<1>3. Status' = [Status EXCEPT ![j] = "kept"]
  BY <1>1, StatusMoves DEF IInv, TypeOK, StatusOf
<1>4. Status[j] = "pending"
  BY <1>1, BusyIsPending
<1>. QED
  BY <1>1, <1>2, <1>3, <1>4 DEF Delivery!Keep, Delivery!Becomes, Status

LEMMA EvictedDelivers ==
    ASSUME IInv, NEW j \in Jobs, Evicted(j)
    PROVE  Delivery!MakeRoom(j)
<1>. DEFINE gone == Oldest(doomed[j])
<1>1. /\ stage[j] = "deleted" /\ stage[j] \in Busy
      /\ up' = up /\ index' = index \ {gone}
  BY DEF Evicted, Busy, life
<1>2. up
  BY <1>1 DEF IInv, DownIsIdle
<1>3. \E to \in {"pending", "abandoned"} : Status' = [Status EXCEPT ![j] = to]
  <2>1. \E to \in {"evicting", "storing", "queued", "failed"} : stage' = [stage EXCEPT ![j] = to]
    BY DEF Evicted, StoresIfItFits, Goes, Fails
  <2>2. PICK to \in {"evicting", "storing", "queued", "failed"} : stage' = [stage EXCEPT ![j] = to]
    BY <2>1
  <2>3. Status' = [Status EXCEPT ![j] = StatusOf(to)]
    BY <2>2, StatusMoves DEF IInv, TypeOK
  <2>. QED
    BY <2>3 DEF StatusOf
<1>4. Status[j] = "pending"
  BY <1>1, BusyIsPending
<1>5. \E k \in Jobs : index' = index \ {k}
  <2>1. CASE gone \in Jobs
    BY <1>1, <2>1
  <2>2. CASE gone \notin Jobs
    <3>1. index' = index /\ j \notin index
      BY <1>1, <2>2 DEF IInv, TypeOK, IndexWasUploaded
    <3>. QED
      BY <3>1
  <2>. QED
    BY <2>1, <2>2
<1>. QED
  BY <1>1, <1>2, <1>3, <1>4, <1>5 DEF Delivery!MakeRoom, Delivery!Becomes, Status

LEMMA NextDelivers == IInv /\ [Next]_vars => [Delivery!DNext]_Delivery!dvars
<1>. SUFFICES ASSUME IInv, [Next]_vars
              PROVE  Delivery!DNext \/ UNCHANGED <<Status, index, up>>
  BY DEF Delivery!dvars, Status
<1>1. ASSUME NEW j \in Jobs, Arrive(j) PROVE Delivery!Accept(j)
  <2>1. up /\ stage[j] = "new" /\ stage' = [stage EXCEPT ![j] = "queued"] /\ UNCHANGED <<index, up>>
    BY <1>1 DEF Arrive, store, life
  <2>2. Status' = [Status EXCEPT ![j] = "pending"]
    BY <2>1, StatusMoves DEF IInv, TypeOK, StatusOf
  <2>3. Status[j] = "expected"
    BY <2>1 DEF Status, StatusOf
  <2>. QED
    BY <2>1, <2>2, <2>3 DEF Delivery!Accept, Delivery!Becomes, Status
<1>2. ASSUME NEW j \in Jobs, Step(j)
      PROVE  Delivery!DNext \/ UNCHANGED <<Status, index, up>>
  BY <1>2, StepDelivers, UploadedDelivers, EvictedDelivers DEF Delivery!DNext
<1>3. ASSUME NEW slots \in 1..MaxSlots, Admits(slots)
      PROVE  UNCHANGED <<Status, index, up>>
  <2>. DEFINE j == Head(queue)
  <2>1. /\ stage' = [stage EXCEPT ![j] = "deciding"] /\ UNCHANGED <<index, up>> /\ queue # <<>>
    BY <1>3 DEF Admits, store, life, IInv, WorkInv, QueueLists
  <2>2. j \in Jobs /\ j = queue[1] /\ 1 \in 1..Len(queue)
    BY <2>1 DEF IInv, TypeOK
  <2>3. stage[j] = "queued"
    BY <2>2 DEF IInv, WorkInv, QueueLists
  <2>4. \A k \in Jobs : stage'[k] = IF k = j THEN "deciding" ELSE stage[k]
    BY <2>1 DEF IInv, TypeOK
  <2>5. \A k \in Jobs : StatusOf(stage'[k]) = StatusOf(stage[k])
    BY <2>3, <2>4 DEF StatusOf
  <2>. QED
    BY <2>1, <2>5 DEF Status
<1>4. CASE Stop \/ Crash
  <2>1. /\ up /\ up' = FALSE /\ index' = index
        /\ stage' = [j \in Jobs |-> IF stage[j] \in Busy \cup {"queued"} THEN "lost" ELSE stage[j]]
    BY <1>4 DEF Stop, Crash, Abandon
  <2>2. ASSUME NEW j \in Jobs
        PROVE  StatusOf(stage'[j]) =
                   IF StatusOf(stage[j]) = "pending" THEN "abandoned" ELSE StatusOf(stage[j])
    <3>1. stage[j] \in Stages
      BY DEF IInv, TypeOK
    <3>. QED
      BY <2>1, <3>1 DEF StatusOf, Stages, Busy, Calling, Ended
  <2>. QED
    BY <2>1, <2>2 DEF Delivery!DNext, Delivery!Interrupt, Status
<1>5. CASE Start
  <2>1. ~up /\ up' = TRUE /\ index' \subseteq saved /\ stage' = stage
    BY <1>5 DEF Start, work
  <2>2. index' \subseteq {j \in Jobs : StatusOf(stage[j]) = "kept"}
    BY <2>1 DEF IInv, TypeOK, IndexWasUploaded, StatusOf
  <2>. QED
    BY <2>1, <2>2 DEF Delivery!DNext, Delivery!Resume, Status
<1>6. CASE \/ WorkerWakes
           \/ \E slots \in 1..MaxSlots : Declines(slots)
           \/ \E task \in inflight : Finished(task)
           \/ Save
           \/ \E old \in late : LateSave(old)
           \/ UNCHANGED vars
  <2>1. UNCHANGED <<stage, index, up>>
    BY <1>6 DEF WorkerWakes, Declines, Finished, Save, LateSave, vars, work, store, life
  <2>. QED
    BY <2>1 DEF Status
<1>. QED
  BY <1>1, <1>2, <1>3, <1>4, <1>5, <1>6 DEF Next, Delivery!DNext

\* The syncer keeps ClipDelivery's promise: each window is accepted once and ends
\* once, an ordinary clip is never declined, and the archive gains a clip only by
\* its upload and loses one only to make room or over a restart
\* (engine.py 249-320, 474-618).
THEOREM SyncDelivers == Spec => Delivers
<1>1. Init => Delivery!DInit
  BY DEF Init, Delivery!DInit, StatusOf
<1>. QED
  BY <1>1, IInvHolds, NextDelivers, PTL DEF Spec, Delivers, Delivery!DSpec

-----------------------------------------------------------------------------
(* How many clips are in flight.                                            *)

\* The count the worker compares is stale when the slots are answered, but never too
\* low: only the worker itself starts a task.
SlotsInv ==
    /\ SlotsRespected
    /\ worker = "asking" => Cardinality(inflight) <= seen

\* The worker at the head of its loop counts the tasks there are.
LEMMA LoopHeadCounts ==
    ASSUME NEW q, NEW tasks, LoopHead(q, tasks), Cardinality(tasks) <= MaxSlots, inflight' = tasks,
           Cardinality(tasks) \in Nat
    PROVE  SlotsInv'
<1>. QED
  BY DEF LoopHead, SlotsInv, SlotsRespected

LEMMA SlotsKept ==
    ASSUME IInv, SlotsInv, [Next]_vars
    PROVE  SlotsInv'
<1>0. IsFiniteSet(inflight) /\ Cardinality(inflight) \in Nat /\ seen \in Nat /\ MaxSlots \in Nat
  BY InflightFinite, FS_CardinalityType, SyncAssumption DEF IInv, TypeOK
<1>1. ASSUME UNCHANGED flow PROVE SlotsInv'
  BY <1>1 DEF flow, SlotsInv, SlotsRespected
<1>2. ASSUME NEW j \in Jobs, Arrive(j) PROVE SlotsInv'
  BY <1>2 DEF Arrive, SlotsInv, SlotsRespected
<1>3. ASSUME NEW j \in Jobs, Step(j) PROVE SlotsInv'
  BY <1>1, <1>3 DEF Step, Wanted, Unwanted, Search, Searched, Fetch, Fetched, DeleteOnCloud,
     Evicted, StoreOnCloud, Uploaded, CallFails
<1>4. CASE WorkerWakes
  BY <1>0, <1>4, LoopHeadCounts DEF WorkerWakes, SlotsInv, SlotsRespected
<1>5. ASSUME NEW slots \in 1..MaxSlots, Admits(slots) PROVE SlotsInv'
  <2>. DEFINE task == <<Head(queue), attempts[Head(queue)]>>
  <2>1. /\ seen < slots /\ Cardinality(inflight) <= seen
        /\ inflight' = inflight \cup {task}
        /\ LoopHead(queue', inflight')
    BY <1>5 DEF Admits, SlotsInv
  <2>2. Cardinality(inflight') \in Nat /\ Cardinality(inflight') <= Cardinality(inflight) + 1
    BY <1>0, <2>1, FS_AddElement
  <2>3. Cardinality(inflight') <= MaxSlots
    BY <1>0, <2>1, <2>2
  <2>. QED
    BY <2>1, <2>2, <2>3, LoopHeadCounts
<1>6. ASSUME NEW slots \in 1..MaxSlots, Declines(slots) PROVE SlotsInv'
  BY <1>6 DEF Declines, SlotsInv, SlotsRespected
<1>7. ASSUME NEW task \in inflight, Finished(task) PROVE SlotsInv'
  <2>1. inflight' = inflight \ {task} /\ UNCHANGED <<worker, seen>>
    BY <1>7 DEF Finished
  <2>2. Cardinality(inflight') \in Nat /\ Cardinality(inflight') <= Cardinality(inflight)
    BY <1>0, <2>1, FS_Subset, FS_CardinalityType
  <2>. QED
    BY <1>0, <2>1, <2>2 DEF SlotsInv, SlotsRespected
<1>8. CASE Stop \/ Crash
  <2>1. inflight' = {} /\ worker' = "off"
    BY <1>8 DEF Stop, Crash, Abandon
  <2>. QED
    BY <1>0, <2>1, FS_EmptySet DEF SlotsInv, SlotsRespected
<1>9. CASE Start
  BY <1>9 DEF Start, SlotsInv, SlotsRespected
<1>10. CASE Save \/ \E old \in late : LateSave(old)
  BY <1>1, <1>10 DEF Save, LateSave
<1>11. CASE UNCHANGED vars
  BY <1>1, <1>11 DEF vars
<1>. QED
  BY <1>2, <1>3, <1>4, <1>5, <1>6, <1>7, <1>8, <1>9, <1>10, <1>11 DEF Next

\* No more clips are held in memory than the most the machine was ever granted, though
\* the worker counts them before it asks for the slots (engine.py 522-548).
THEOREM SlotsAreRespected == Spec => []SlotsRespected
<1>1. Init => SlotsInv
  BY FS_EmptySet, SyncAssumption DEF Init, SlotsInv, SlotsRespected
<1>2. IInv /\ SlotsInv /\ [Next]_vars => SlotsInv'
  BY SlotsKept
<1>3. SlotsInv => SlotsRespected
  BY DEF SlotsInv
<1>. QED
  BY <1>1, <1>2, <1>3, IInvHolds, PTL DEF Spec

-----------------------------------------------------------------------------
(* What the destination holds and the index does not know of.               *)

\* Induction over the subsets of a finite set, smaller ones first.
LEMMA SubsetInduction ==
  ASSUME NEW S, IsFiniteSet(S), NEW Good \in SUBSET (SUBSET S),
         ASSUME NEW T \in SUBSET S, \A U \in SUBSET T : U # T => U \in Good
         PROVE  T \in Good
  PROVE \A T \in SUBSET S : T \in Good
<1>. DEFINE Bad == (SUBSET S) \ Good
<1>1. SUFFICES ASSUME Bad # {} PROVE FALSE
  OBVIOUS
<1>2. IsWellFoundedOn(StrictSubsetOrdering(S), SUBSET S)
  BY FS_StrictSubsetOrderingWellFounded, FS_FiniteSubsetsOfFinite
<1>3. PICK T \in Bad : \A U \in Bad : <<U, T>> \notin StrictSubsetOrdering(S)
  <2>1. Bad \subseteq SUBSET S
    OBVIOUS
  <2>. HIDE DEF Bad
  <2>. QED
    BY <1>1, <1>2, <2>1, WFMin
<1>4. \A U \in SUBSET T : U # T => U \in Good
  BY <1>3 DEF StrictSubsetOrdering
<1>. QED
  BY <1>3, <1>4


\* Among finitely many things one is least.
LEMMA LeastIsOne ==
    ASSUME NEW S, IsFiniteSet(S), NEW f \in [S -> Int]
    PROVE  \A T \in SUBSET S : T # {} => \E k \in T : \A l \in T : f[k] <= f[l]
<1>. DEFINE least(T, k) == k \in T /\ \A l \in T : f[k] <= f[l]
            Good == {T \in SUBSET S : T # {} => \E k \in T : least(T, k)}
<1>1. ASSUME NEW T \in SUBSET S, \A U \in SUBSET T : U # T => U \in Good
      PROVE  T \in Good
  <2>1. SUFFICES ASSUME NEW k \in T PROVE \E l \in T : least(T, l)
    OBVIOUS
  <2>2. CASE T \ {k} = {}
    BY <2>2
  <2>3. CASE T \ {k} # {}
    <3>1. T \ {k} \in Good
      <4>. HIDE DEF Good
      <4>. QED
        BY <1>1
    <3>2. PICK l \in T \ {k} : \A m \in T \ {k} : f[l] <= f[m]
      BY <2>3, <3>1
    <3>3. \A m \in T : f[m] \in Int
      OBVIOUS
    <3>4. CASE f[l] <= f[k]
      BY <3>2, <3>4
    <3>5. CASE f[k] <= f[l]
      <4>1. \A m \in T : f[k] <= f[m]
        BY <3>2, <3>3, <3>5
      <4>. QED
        BY <4>1
    <3>. QED
      BY <3>3, <3>4, <3>5
  <2>. QED
    BY <2>2, <2>3
<1>2. \A T \in SUBSET S : T \in Good
  <2>1. Good \in SUBSET (SUBSET S)
    OBVIOUS
  <2>. HIDE DEF Good
  <2>. QED
    BY <1>1, <2>1, SubsetInduction
<1>. QED
  BY <1>2

\* Of the clips of a plan one was recorded first.
LEMMA OldestIsOne == \A clips \in SUBSET Jobs : clips # {} => Oldest(clips) \in clips
<1>1. IsFiniteSet(Jobs) /\ Recorded \in [Jobs -> Int]
  BY SyncAssumption
<1>. QED
  BY <1>1, LeastIsOne DEF Oldest

\* What an eviction plan still has to delete was uploaded, and a clip the destination
\* has just deleted is not back by the time the index forgets it.
AccountInv ==
    /\ \A j \in Jobs : \A k \in doomed[j] : stage[k] = "uploaded"
    /\ \A j \in Jobs : stage[j] \in {"evicting", "deleted"} => doomed[j] # {}
    /\ starts = 1 =>
           /\ UploadedIsAccounted
           /\ \A j \in Jobs : stage[j] = "deleted" => Oldest(doomed[j]) \notin cloud

\* A step of a task moves its own plan only, and a plan is drawn up from the index.
LEMMA PlansAreOfUploads ==
    ASSUME IInv, AccountInv, NEW j \in Jobs, Step(j)
    PROVE  /\ \A i \in Jobs : \A k \in doomed'[i] : stage'[k] = "uploaded"
           /\ \A i \in Jobs : stage'[i] \in {"evicting", "deleted"} => doomed'[i] # {}
<1>1. /\ \A k \in Jobs \ {j} : stage'[k] = stage[k] /\ doomed'[k] = doomed[k]
      /\ stage[j] \in Busy /\ stage[j] # "uploaded"
  BY DEF Step, Wanted, Unwanted, Search, Searched, Fetch, Fetched, DeleteOnCloud, Evicted,
     StoreOnCloud, Uploaded, CallFails, StoresIfItFits, Fails, Goes, IInv, TypeOK, Busy, Calling
<1>2. /\ \A k \in doomed'[j] : k \in doomed[j] \/ k \in index
      /\ stage'[j] \in {"evicting", "deleted"} => doomed'[j] # {}
  <2>1. doomed \in [Jobs -> SUBSET Jobs] /\ stage \in [Jobs -> Stages]
    BY DEF IInv, TypeOK
  <2>2. CASE Fetched(j)
    <3>1. PlanEviction(index, Size[j]) \subseteq index
      BY DEF PlanEviction
    <3>. QED
      BY <2>1, <2>2, <3>1 DEF Fetched, StoresIfItFits, Goes, Fails
  <2>3. CASE Evicted(j)
    BY <2>1, <2>3 DEF Evicted, StoresIfItFits, Goes, Fails
  <2>4. CASE DeleteOnCloud(j)
    BY <2>1, <2>4 DEF DeleteOnCloud, Goes, AccountInv
  <2>5. CASE CallFails(j)
    BY <2>1, <2>5 DEF CallFails, Fails
  <2>. QED
    BY <2>1, <2>2, <2>3, <2>4, <2>5
    DEF Step, Wanted, Unwanted, Search, Searched, Fetch, StoreOnCloud, Uploaded, Goes
<1>3. \A i \in Jobs : \A k \in doomed'[i] : stage[k] = "uploaded" /\ k \in Jobs
  BY <1>1, <1>2 DEF AccountInv, IInv, IndexWasUploaded, TypeOK
<1>. QED
  BY <1>1, <1>2, <1>3 DEF AccountInv

LEMMA StepAccounts ==
    ASSUME IInv, AccountInv, NEW j \in Jobs, Step(j), starts = 1
    PROVE  /\ UploadedIsAccounted'
           /\ \A i \in Jobs : stage'[i] = "deleted" => Oldest(doomed'[i]) \notin cloud'
<1>1. /\ UploadedIsAccounted
      /\ \A i \in Jobs : stage[i] = "deleted" => Oldest(doomed[i]) \notin cloud
      /\ \A i \in Jobs : \A k \in doomed[i] : stage[k] = "uploaded"
      /\ \A i \in Jobs : stage[i] \in {"evicting", "deleted"} => doomed[i] # {}
      /\ doomed \in [Jobs -> SUBSET Jobs] /\ stage \in [Jobs -> Stages]
  BY DEF AccountInv, IInv, TypeOK
<1>2. \A k \in Jobs \ {j} : stage'[k] = stage[k] /\ doomed'[k] = doomed[k]
  BY <1>1 DEF Step, Wanted, Unwanted, Search, Searched, Fetch, Fetched, DeleteOnCloud, Evicted,
     StoreOnCloud, Uploaded, CallFails, StoresIfItFits, Fails, Goes
<1>3. \A i \in Jobs : stage[i] = "deleted" =>
          Oldest(doomed[i]) \in Jobs /\ stage[Oldest(doomed[i])] = "uploaded"
  BY <1>1, OldestIsOne
<1>4. CASE DeleteOnCloud(j)
  <2>1. /\ cloud' = cloud \ {Oldest(doomed[j])} /\ UNCHANGED <<index, doomed>>
        /\ stage' = [stage EXCEPT ![j] = "deleted"]
    BY <1>4 DEF DeleteOnCloud, Goes
  <2>. QED
    BY <1>1, <2>1 DEF UploadedIsAccounted
<1>5. CASE Evicted(j)
  <2>1. /\ index' = index \ {Oldest(doomed[j])} /\ cloud' = cloud /\ stage[j] = "deleted"
        /\ stage'[j] \in {"evicting", "storing", "queued", "failed"}
    BY <1>1, <1>5 DEF Evicted, StoresIfItFits, Goes, Fails
  <2>. QED
    BY <1>1, <1>2, <2>1 DEF UploadedIsAccounted
<1>6. CASE StoreOnCloud(j)
  <2>1. /\ cloud' = cloud \cup {j} /\ UNCHANGED <<index, doomed>>
        /\ stage[j] = "storing" /\ stage' = [stage EXCEPT ![j] = "stored"]
    BY <1>6 DEF StoreOnCloud, Goes
  <2>. QED
    BY <1>1, <1>2, <1>3, <2>1 DEF UploadedIsAccounted
<1>7. CASE Uploaded(j)
  <2>1. /\ index' = index \cup {j} /\ UNCHANGED <<cloud, doomed>>
        /\ stage' = [stage EXCEPT ![j] = "uploaded"]
    BY <1>7 DEF Uploaded, Goes
  <2>. QED
    BY <1>1, <2>1 DEF UploadedIsAccounted
<1>8. CASE ~DeleteOnCloud(j) /\ ~Evicted(j) /\ ~StoreOnCloud(j) /\ ~Uploaded(j)
  <2>1. UNCHANGED <<index, cloud>> /\ stage'[j] \notin {"uploaded", "deleted"}
    BY <1>1, <1>8 DEF Step, Wanted, Unwanted, Search, Searched, Fetch, Fetched, CallFails,
       StoresIfItFits, Fails, Goes, store
  <2>. QED
    BY <1>1, <1>2, <2>1 DEF UploadedIsAccounted
<1>. QED
  BY <1>4, <1>5, <1>6, <1>7, <1>8

LEMMA AccountKept ==
    ASSUME IInv, AccountInv, [Next]_vars
    PROVE  AccountInv'
<1>1. ASSUME NEW j \in Jobs, Step(j) PROVE AccountInv'
  <2>1. starts' = starts
    BY <1>1 DEF Step, Wanted, Unwanted, Search, Searched, Fetch, Fetched, DeleteOnCloud, Evicted,
       StoreOnCloud, Uploaded, CallFails, life
  <2>. QED
    BY <1>1, <2>1, PlansAreOfUploads, StepAccounts DEF AccountInv
<1>2. ASSUME UNCHANGED <<doomed, index, cloud>>, starts' = starts \/ starts' # 1,
             \A k \in Jobs : stage[k] = "uploaded" <=> stage'[k] = "uploaded",
             \A k \in Jobs : stage'[k] \in {"evicting", "deleted"} => stage'[k] = stage[k]
      PROVE  AccountInv'
  <2>1. \A j \in Jobs : \A k \in doomed[j] : k \in Jobs
    BY DEF IInv, TypeOK
  <2>. QED
    BY <1>2, <2>1 DEF AccountInv, UploadedIsAccounted
<1>3. ASSUME NEW j \in Jobs, Arrive(j) PROVE AccountInv'
  <2>1. /\ stage[j] = "new" /\ stage' = [stage EXCEPT ![j] = "queued"]
        /\ UNCHANGED <<doomed, index, cloud, starts>> /\ stage \in [Jobs -> Stages]
    BY <1>3 DEF Arrive, store, life, IInv, TypeOK
  <2>. QED
    BY <1>2, <2>1
<1>4. ASSUME NEW slots \in 1..MaxSlots, Admits(slots) PROVE AccountInv'
  <2>1. /\ stage' = [stage EXCEPT ![Head(queue)] = "deciding"]
        /\ UNCHANGED <<doomed, index, cloud, starts>> /\ stage \in [Jobs -> Stages]
    BY <1>4 DEF Admits, store, life, IInv, TypeOK
  <2>2. stage[Head(queue)] = "queued"
    BY <1>4 DEF Admits, IInv, TypeOK, WorkInv, QueueLists
  <2>. QED
    BY <1>2, <2>1, <2>2
<1>5. CASE Stop \/ Crash
  <2>1. /\ stage' = [j \in Jobs |-> IF stage[j] \in Busy \cup {"queued"} THEN "lost" ELSE stage[j]]
        /\ doomed' = [j \in Jobs |-> {}]
        /\ UNCHANGED <<index, starts>>
        /\ \A k \in cloud' : k \in cloud \/ stage[k] = "storing"
    BY <1>5 DEF Stop, Crash, Abandon
  <2>2. \A k \in Jobs : /\ stage'[k] \notin {"evicting", "deleted"}
                        /\ stage'[k] = "uploaded" => stage[k] = "uploaded"
    BY <2>1 DEF Busy
  <2>. QED
    BY <2>1, <2>2 DEF AccountInv, UploadedIsAccounted
<1>6. CASE Start
  <2>1. starts' # 1 /\ UNCHANGED <<stage, doomed>>
    BY <1>6 DEF Start, work, IInv, TypeOK
  <2>. QED
    BY <2>1 DEF AccountInv
<1>7. CASE \/ WorkerWakes
           \/ \E slots \in 1..MaxSlots : Declines(slots)
           \/ \E task \in inflight : Finished(task)
           \/ Save
           \/ \E old \in late : LateSave(old)
           \/ UNCHANGED vars
  <2>1. UNCHANGED <<stage, doomed, index, cloud, starts>>
    BY <1>7 DEF WorkerWakes, Declines, Finished, Save, LateSave, vars, work, store, life
  <2>. QED
    BY <1>2, <2>1
<1>. QED
  BY <1>1, <1>3, <1>4, <1>5, <1>6, <1>7 DEF Next

\* Until it is first restarted, the syncer counts every clip it has uploaded and the
\* destination still holds: evictions delete before they forget, and no upload brings
\* back a clip being evicted (engine.py 592-618).  A restart may load an older index.
THEOREM UploadsAreAccounted == Spec => [](starts = 1 => UploadedIsAccounted)
<1>1. Init => AccountInv
  BY DEF Init, AccountInv, UploadedIsAccounted
<1>2. IInv /\ AccountInv /\ [Next]_vars => AccountInv'
  BY AccountKept
<1>3. AccountInv => (starts = 1 => UploadedIsAccounted)
  BY DEF AccountInv
<1>. QED
  BY <1>1, <1>2, <1>3, IInvHolds, PTL DEF Spec

-----------------------------------------------------------------------------
(* Sums over finite sets of clips, by induction over their subsets.         *)

\* `MapThenSumSet` of a function: what Used is of Size.
SumOf(f, S) == MapThenSumSet(LAMBDA k : f[k], S)

First(S) == CHOOSE x \in S : TRUE

\* g sums f over every subset of T.
Sums(g, f, T) ==
    g = [S \in SUBSET T |-> IF S = {} THEN 0 ELSE f[First(S)] + g[S \ {First(S)}]]

\* The sums over a set's subsets are the same in whatever set they are taken.
LEMMA SumsAgree ==
    ASSUME NEW T, IsFiniteSet(T), NEW f, NEW g, Sums(g, f, T),
           NEW U \in SUBSET T, NEW h, Sums(h, f, U)
    PROVE  \A S \in SUBSET U : g[S] = h[S]
<1>. DEFINE Good == {S \in SUBSET U : g[S] = h[S]}
<1>1. IsFiniteSet(U)
  BY FS_Subset
<1>2. ASSUME NEW S \in SUBSET U, \A V \in SUBSET S : V # S => V \in Good
      PROVE  S \in Good
  <2>1. CASE S = {}
    BY <2>1 DEF Sums
  <2>2. CASE S # {}
    <3>1. First(S) \in S
      BY <2>2 DEF First
    <3>2. S \ {First(S)} \in Good
      BY <1>2, <3>1
    <3>3. g[S] = f[First(S)] + g[S \ {First(S)}] /\ h[S] = f[First(S)] + h[S \ {First(S)}]
      BY <2>2 DEF Sums
    <3>. QED
      BY <3>2, <3>3
  <2>. QED
    BY <2>1, <2>2
<1>3. Good \in SUBSET (SUBSET U)
  OBVIOUS
<1>4. \A S \in SUBSET U : S \in Good
  <2>. HIDE DEF Good
  <2>. QED
    BY <1>1, <1>2, <1>3, SubsetInduction
<1>. QED
  BY <1>4

\* The recursion ends, for every finite set.
LEMMA SumsExist ==
    ASSUME NEW T, IsFiniteSet(T), NEW f
    PROVE  \E g : Sums(g, f, T)
<1>. DEFINE Good == {S \in SUBSET T : \E g : Sums(g, f, S)}
<1>1. ASSUME NEW S \in SUBSET T, \A V \in SUBSET S : V # S => V \in Good
      PROVE  S \in Good
  <2>. DEFINE below(V) == CHOOSE g : Sums(g, f, V)
              total(V) == IF V = {} THEN 0 ELSE f[First(V)] + below(V \ {First(V)})[V \ {First(V)}]
              g == [V \in SUBSET S |-> total(V)]
  <2>1. \A V \in SUBSET S : V # S => Sums(below(V), f, V)
    BY <1>1
  <2>2. \A V \in SUBSET S : V # {} => /\ First(V) \in V
                                     /\ V \ {First(V)} \in SUBSET S /\ V \ {First(V)} # S
    BY DEF First
  <2>3. ASSUME NEW V \in SUBSET S, V # S PROVE g[V] = below(V)[V]
    <3>1. CASE V = {}
      <4>1. Sums(below(V), f, V)
        BY <2>1, <2>3
      <4>2. below(V)[V] = 0
        <5>. HIDE DEF below
        <5>. QED
          BY <3>1, <4>1 DEF Sums
      <4>3. g[V] = 0
        BY <3>1
      <4>. QED
        BY <4>2, <4>3
    <3>2. CASE V # {}
      <4>. DEFINE W == V \ {First(V)}
      <4>1. W \in SUBSET V /\ W \in SUBSET S /\ W # S /\ IsFiniteSet(V)
        BY <2>2, <3>2, FS_Subset
      <4>2. Sums(below(V), f, V) /\ Sums(below(W), f, W)
        BY <2>1, <2>3, <4>1
      <4>3. below(V)[W] = below(W)[W]
        <5>. HIDE DEF below, W
        <5>. QED
          BY <4>1, <4>2, SumsAgree
      <4>4. below(V)[V] = f[First(V)] + below(V)[W]
        <5>. HIDE DEF below
        <5>. QED
          BY <3>2, <4>2 DEF Sums
      <4>5. g[V] = f[First(V)] + below(W)[W]
        BY <3>2
      <4>. QED
        BY <4>3, <4>4, <4>5
    <3>. QED
      BY <3>1, <3>2
  <2>4. \A V \in SUBSET S : g[V] = IF V = {} THEN 0 ELSE f[First(V)] + g[V \ {First(V)}]
    <3>1. \A V \in SUBSET S : V # {} => g[V \ {First(V)}] = below(V \ {First(V)})[V \ {First(V)}]
      <4>. HIDE DEF below, g
      <4>. QED
        BY <2>2, <2>3
    <3>. HIDE DEF below
    <3>. QED
      BY <3>1
  <2>5. Sums(g, f, S)
    <3>1. g = [V \in SUBSET S |-> g[V]]
      OBVIOUS
    <3>. HIDE DEF g
    <3>. QED
      BY <2>4, <3>1 DEF Sums
  <2>. QED
    BY <2>5
<1>2. \A S \in SUBSET T : S \in Good
  <2>1. Good \in SUBSET (SUBSET T)
    OBVIOUS
  <2>. HIDE DEF Good
  <2>. QED
    BY <1>1, <2>1, SubsetInduction
<1>. QED
  BY <1>2

\* The fold is that recursion.
LEMMA SumIs ==
    ASSUME NEW T, IsFiniteSet(T), NEW f
    PROVE  \E g : Sums(g, f, T) /\ SumOf(f, T) = g[T]
<1>. DEFINE g == CHOOSE h : Sums(h, f, T)
<1>1. Sums(g, f, T)
  BY SumsExist
<1>2. SumOf(f, T) = g[T]
  BY DEF SumOf, MapThenSumSet, MapThenFoldSet, First, Sums
<1>. QED
  BY <1>1, <1>2

LEMMA SumEmpty == \A f : SumOf(f, {}) = 0
<1>. TAKE f
<1>1. PICK g : Sums(g, f, {}) /\ SumOf(f, {}) = g[{}]
  BY SumIs, FS_EmptySet
<1>. QED
  BY <1>1 DEF Sums

LEMMA SumFirst ==
    ASSUME NEW T, IsFiniteSet(T), T # {}, NEW f
    PROVE  SumOf(f, T) = f[First(T)] + SumOf(f, T \ {First(T)})
<1>. DEFINE U == T \ {First(T)}
<1>1. U \in SUBSET T /\ IsFiniteSet(U)
  BY FS_Subset
<1>2. PICK g : Sums(g, f, T) /\ SumOf(f, T) = g[T]
  BY SumIs
<1>3. PICK h : Sums(h, f, U) /\ SumOf(f, U) = h[U]
  BY <1>1, SumIs
<1>4. g[U] = h[U]
  BY <1>1, <1>2, <1>3, SumsAgree
<1>5. g[T] = f[First(T)] + g[U]
  BY <1>2 DEF Sums
<1>. QED
  BY <1>2, <1>3, <1>4, <1>5

\* Sums of sizes are sizes.
LEMMA SumType ==
    ASSUME NEW S, IsFiniteSet(S), NEW f \in [S -> Nat]
    PROVE  \A T \in SUBSET S : SumOf(f, T) \in Nat
<1>. DEFINE Good == {T \in SUBSET S : SumOf(f, T) \in Nat}
<1>1. ASSUME NEW T \in SUBSET S, \A U \in SUBSET T : U # T => U \in Good
      PROVE  T \in Good
  <2>1. CASE T = {}
    BY <2>1, SumEmpty
  <2>2. CASE T # {}
    <3>1. First(T) \in T /\ IsFiniteSet(T)
      BY <2>2, FS_Subset DEF First
    <3>2. SumOf(f, T \ {First(T)}) \in Nat
      BY <1>1, <3>1
    <3>3. SumOf(f, T) = f[First(T)] + SumOf(f, T \ {First(T)})
      BY <2>2, <3>1, SumFirst
    <3>. QED
      BY <3>1, <3>2, <3>3
  <2>. QED
    BY <2>1, <2>2
<1>2. Good \in SUBSET (SUBSET S)
  OBVIOUS
<1>3. \A T \in SUBSET S : T \in Good
  <2>. HIDE DEF Good
  <2>. QED
    BY <1>1, <1>2, SubsetInduction
<1>. QED
  BY <1>3

\* Whichever element is taken first, the sum is the same.
LEMMA SumRemove ==
    ASSUME NEW S, IsFiniteSet(S), NEW f \in [S -> Nat]
    PROVE  \A T \in SUBSET S : \A x \in T : SumOf(f, T) = f[x] + SumOf(f, T \ {x})
<1>. DEFINE Good == {T \in SUBSET S : \A x \in T : SumOf(f, T) = f[x] + SumOf(f, T \ {x})}
<1>1. ASSUME NEW T \in SUBSET S, \A U \in SUBSET T : U # T => U \in Good
      PROVE  T \in Good
  <2>1. SUFFICES ASSUME NEW x \in T PROVE SumOf(f, T) = f[x] + SumOf(f, T \ {x})
    OBVIOUS
  <2>. DEFINE y == First(T)
  <2>2. y \in T /\ IsFiniteSet(T)
    BY FS_Subset DEF First
  <2>3. SumOf(f, T) = f[y] + SumOf(f, T \ {y})
    BY <2>2, SumFirst
  <2>4. CASE x = y
    BY <2>3, <2>4
  <2>5. CASE x # y
    <3>1. T \ {y} \in Good /\ x \in T \ {y} /\ T \ {x} \in Good /\ y \in T \ {x}
      BY <1>1, <2>2, <2>5
    <3>2. (T \ {y}) \ {x} = (T \ {x}) \ {y}
      OBVIOUS
    <3>. DEFINE rest == SumOf(f, (T \ {x}) \ {y})
    <3>3. SumOf(f, T \ {y}) = f[x] + rest
      BY <3>1, <3>2
    <3>4. SumOf(f, T \ {x}) = f[y] + rest
      BY <3>1
    <3>5. rest \in Nat /\ f[x] \in Nat /\ f[y] \in Nat
      BY <2>2, SumType
    <3>. HIDE DEF rest, y
    <3>. QED
      BY <2>3, <3>3, <3>4, <3>5
  <2>. QED
    BY <2>4, <2>5
<1>2. Good \in SUBSET (SUBSET S)
  OBVIOUS
<1>3. \A T \in SUBSET S : T \in Good
  <2>. HIDE DEF Good
  <2>. QED
    BY <1>1, <1>2, SubsetInduction
<1>. QED
  BY <1>3

\* One more clip adds its size ...
LEMMA SumAdd ==
    ASSUME NEW S, IsFiniteSet(S), NEW f \in [S -> Nat], NEW T \in SUBSET S, NEW x \in S \ T
    PROVE  SumOf(f, T \cup {x}) = SumOf(f, T) + f[x]
<1>1. (T \cup {x}) \ {x} = T
  OBVIOUS
<1>2. T \cup {x} \in SUBSET S /\ x \in T \cup {x}
  OBVIOUS
<1>3. SumOf(f, T \cup {x}) = f[x] + SumOf(f, T)
  BY <1>1, <1>2, SumRemove
<1>4. SumOf(f, T) \in Nat /\ f[x] \in Nat
  BY SumType
<1>. QED
  BY <1>3, <1>4

\* ... more clips never weigh less ...
LEMMA SumMonotone ==
    ASSUME NEW S, IsFiniteSet(S), NEW f \in [S -> Nat], NEW U \in SUBSET S
    PROVE  \A T \in SUBSET U : SumOf(f, T) <= SumOf(f, U)
<1>. DEFINE Good == {V \in SUBSET U : \A T \in SUBSET V : SumOf(f, T) <= SumOf(f, V)}
<1>1. ASSUME NEW V \in SUBSET U, \A W \in SUBSET V : W # V => W \in Good
      PROVE  V \in Good
  <2>1. SUFFICES ASSUME NEW T \in SUBSET V, T # V PROVE SumOf(f, T) <= SumOf(f, V)
    <3>1. SumOf(f, V) \in Nat
      BY SumType
    <3>. QED
      BY <3>1
  <2>2. PICK x \in V : x \notin T
    BY <2>1
  <2>3. SumOf(f, V) = f[x] + SumOf(f, V \ {x})
    BY <2>2, SumRemove
  <2>4. SumOf(f, T) <= SumOf(f, V \ {x})
    BY <1>1, <2>2
  <2>5. SumOf(f, T) \in Nat /\ SumOf(f, V \ {x}) \in Nat /\ f[x] \in Nat
    BY SumType
  <2>. QED
    BY <2>3, <2>4, <2>5
<1>2. Good \in SUBSET (SUBSET U) /\ IsFiniteSet(U)
  BY FS_Subset
<1>3. \A V \in SUBSET U : V \in Good
  <2>. HIDE DEF Good
  <2>. QED
    BY <1>1, <1>2, SubsetInduction
<1>. QED
  BY <1>3

\* ... and no more than so many of the largest.
LEMMA SumBound ==
    ASSUME NEW S, IsFiniteSet(S), NEW f \in [S -> Nat], NEW m \in Nat, \A x \in S : f[x] <= m
    PROVE  \A T \in SUBSET S : SumOf(f, T) <= Cardinality(T) * m
<1>. DEFINE Good == {T \in SUBSET S : SumOf(f, T) <= Cardinality(T) * m}
<1>1. ASSUME NEW T \in SUBSET S, \A U \in SUBSET T : U # T => U \in Good
      PROVE  T \in Good
  <2>1. CASE T = {}
    BY <2>1, SumEmpty, FS_EmptySet
  <2>2. CASE T # {}
    <3>1. PICK x \in T : TRUE
      BY <2>2
    <3>. DEFINE U == T \ {x}
    <3>2. IsFiniteSet(T) /\ IsFiniteSet(U)
      BY FS_Subset
    <3>3. Cardinality(T) \in Nat /\ Cardinality(U) \in Nat /\ Cardinality(U) = Cardinality(T) - 1
      BY <3>2, FS_CardinalityType, FS_RemoveElement
    <3>4. SumOf(f, T) = f[x] + SumOf(f, U)
      BY SumRemove
    <3>5. SumOf(f, U) <= Cardinality(U) * m
      BY <1>1
    <3>6. SumOf(f, U) \in Nat /\ f[x] \in Nat /\ f[x] <= m
      BY SumType
    <3>7. Cardinality(T) * m = Cardinality(U) * m + m
      BY <3>3
    <3>8. Cardinality(U) * m \in Nat
      BY <3>3
    <3>. HIDE DEF U
    <3>. QED
      BY <3>4, <3>5, <3>6, <3>7, <3>8
  <2>. QED
    BY <2>1, <2>2
<1>2. Good \in SUBSET (SUBSET S)
  OBVIOUS
<1>3. \A T \in SUBSET S : T \in Good
  <2>. HIDE DEF Good
  <2>. QED
    BY <1>1, <1>2, SubsetInduction
<1>. QED
  BY <1>3

LEMMA UsedIsSum == \A clips : Used(clips) = SumOf(Size, clips)
  BY DEF Used, SumOf

\* The facts about sums of sizes that the quota's proof needs.
LEMMA UsedFacts ==
    /\ Used({}) = 0
    /\ \A clips \in SUBSET Jobs : Used(clips) \in Nat
    /\ \A clips \in SUBSET Jobs : \A fewer \in SUBSET clips : Used(fewer) <= Used(clips)
    /\ \A clips \in SUBSET Jobs : \A j \in Jobs \ clips : Used(clips \cup {j}) = Used(clips) + Size[j]
<1>1. IsFiniteSet(Jobs) /\ Size \in [Jobs -> Nat]
  BY SyncAssumption
<1>2. Used({}) = 0
  BY SumEmpty, UsedIsSum
<1>3. \A clips \in SUBSET Jobs : Used(clips) \in Nat
  BY <1>1, SumType, UsedIsSum
<1>4. \A clips \in SUBSET Jobs : \A fewer \in SUBSET clips : Used(fewer) <= Used(clips)
  BY <1>1, SumMonotone, UsedIsSum
<1>5. \A clips \in SUBSET Jobs : \A j \in Jobs \ clips : Used(clips \cup {j}) = Used(clips) + Size[j]
  <2>. SUFFICES ASSUME NEW clips \in SUBSET Jobs, NEW j \in Jobs \ clips
                PROVE  Used(clips \cup {j}) = Used(clips) + Size[j]
    OBVIOUS
  <2>1. SumOf(Size, clips \cup {j}) = SumOf(Size, clips) + Size[j]
    BY <1>1, SumAdd
  <2>. QED
    BY <2>1, UsedIsSum
<1>. QED
  BY <1>2, <1>3, <1>4, <1>5

Largest == Max({Size[j] : j \in Jobs})

\* There is a largest clip, if there is any.
LEMMA LargestIsOne == Jobs # {} => Largest \in Nat /\ \A j \in Jobs : Size[j] <= Largest
<1>. SUFFICES ASSUME Jobs # {} PROVE Largest \in Nat /\ \A j \in Jobs : Size[j] <= Largest
  OBVIOUS
<1>. DEFINE less == [j \in Jobs |-> 0 - Size[j]]
<1>1. IsFiniteSet(Jobs) /\ Size \in [Jobs -> Nat] /\ less \in [Jobs -> Int]
  BY SyncAssumption
<1>2. PICK k \in Jobs : \A l \in Jobs : less[k] <= less[l]
  <2>. HIDE DEF less
  <2>. QED
    BY <1>1, LeastIsOne
<1>3. \A l \in Jobs : Size[k] >= Size[l]
  BY <1>1, <1>2
<1>4. /\ Largest \in {Size[j] : j \in Jobs}
      /\ \A y \in {Size[j] : j \in Jobs} : Largest >= y
  <2>1. Size[k] \in {Size[j] : j \in Jobs} /\ \A y \in {Size[j] : j \in Jobs} : Size[k] >= y
    BY <1>3
  <2>. QED
    BY <2>1 DEF Largest, Max
<1>5. Largest \in Nat /\ \A j \in Jobs : Size[j] \in Nat
  BY <1>1, <1>4
<1>. QED
  BY <1>4, <1>5

-----------------------------------------------------------------------------
(* How far the quota can be passed.                                         *)

Limit == Quota + (MaxSlots - 1) * Largest

\* Not only the index in memory: what is on disk, or may yet be written there, can
\* come back at a restart.
OvershootInv ==
    /\ Used(index) + Used(Uploading) <= Limit
    /\ Used(saved) <= Limit
    /\ \A old \in late : Used(old) <= Limit

LEMMA TimesMonotone == \A a, b, c \in Nat : a <= b => a * c <= b * c
<1>. SUFFICES ASSUME NEW a \in Nat, NEW b \in Nat, NEW c \in Nat, a <= b
              PROVE  a * c <= b * c
  OBVIOUS
<1>. DEFINE d == b - a
<1>1. d \in Nat /\ b = a + d
  OBVIOUS
<1>2. a * c \in Nat /\ d * c \in Nat
  BY <1>1
<1>3. (a + d) * c = a * c + d * c
  BY <1>1
<1>4. b * c = a * c + d * c
  BY <1>1, <1>3
<1>. HIDE DEF d
<1>. QED
  BY <1>2, <1>4

\* The clips uploading while another is in hand leave it one of the slots.
LEMMA OthersUploading ==
    ASSUME IInv, SlotsInv, Jobs # {}, NEW j \in Jobs, stage[j] \in Busy, j \notin Uploading
    PROVE  Used(Uploading) <= (MaxSlots - 1) * Largest
<1>. DEFINE task == [k \in Uploading \cup {j} |-> <<k, attempts[k]>>]
<1>1. /\ Uploading \in SUBSET Jobs /\ Uploading \cup {j} \in SUBSET Jobs
      /\ \A k \in Uploading \cup {j} : stage[k] \in Busy
  BY DEF Uploading, Busy
<1>2. task \in Injection(Uploading \cup {j}, inflight)
  <2>1. \A k \in Uploading \cup {j} : <<k, attempts[k]>> \in inflight
    BY <1>1 DEF IInv, WorkInv, TasksRun
  <2>2. task \in [Uploading \cup {j} -> inflight]
    BY <2>1
  <2>3. \A a, b \in Uploading \cup {j} : task[a] = task[b] => a = b
    OBVIOUS
  <2>. HIDE DEF task
  <2>. QED
    BY <2>2, <2>3 DEF Injection, IsInjective
<1>3. /\ IsFiniteSet(inflight) /\ IsFiniteSet(Uploading)
      /\ Cardinality(inflight) <= MaxSlots
      /\ Cardinality(Uploading) \in Nat
      /\ MaxSlots \in Nat /\ MaxSlots - 1 \in Nat
  BY <1>1, InflightFinite, FS_Subset, FS_CardinalityType, SyncAssumption
  DEF IInv, SlotsInv, SlotsRespected
<1>4. Cardinality(Uploading \cup {j}) <= Cardinality(inflight)
  <2>. HIDE DEF task
  <2>. QED
    BY <1>2, <1>3, FS_Injection
<1>5. Cardinality(Uploading) <= MaxSlots - 1
  <2>1. Cardinality(Uploading \cup {j}) = Cardinality(Uploading) + 1
    BY <1>3, FS_AddElement
  <2>2. Cardinality(inflight) \in Nat
    BY <1>3, FS_CardinalityType
  <2>. QED
    BY <1>3, <1>4, <2>1, <2>2
<1>6. Used(Uploading) <= Cardinality(Uploading) * Largest
  <2>1. Largest \in Nat /\ \A k \in Jobs : Size[k] <= Largest
    BY LargestIsOne
  <2>2. IsFiniteSet(Jobs) /\ Size \in [Jobs -> Nat]
    BY SyncAssumption
  <2>3. \A clips \in SUBSET Jobs : SumOf(Size, clips) <= Cardinality(clips) * Largest
    <3>. HIDE DEF Largest
    <3>. QED
      BY <2>1, <2>2, SumBound
  <2>. QED
    BY <1>1, <2>3, UsedIsSum
<1>7. Cardinality(Uploading) * Largest <= (MaxSlots - 1) * Largest
  BY <1>3, <1>5, LargestIsOne, TimesMonotone
<1>8. Used(Uploading) \in Nat /\ MaxSlots - 1 \in Nat /\ Largest \in Nat
  BY <1>1, <1>3, <1>5, UsedFacts, LargestIsOne
<1>9. Cardinality(Uploading) * Largest \in Nat /\ (MaxSlots - 1) * Largest \in Nat
  BY <1>3, <1>8
<1>. QED
  BY <1>6, <1>7, <1>8, <1>9

LEMMA LimitIsRoom == Jobs # {} => Limit \in Nat /\ Quota \in Nat /\ Quota <= Limit
<1>. SUFFICES ASSUME Jobs # {} PROVE Limit \in Nat /\ Quota \in Nat /\ Quota <= Limit
  OBVIOUS
<1>1. Largest \in Nat /\ MaxSlots - 1 \in Nat /\ Quota \in Nat
  BY LargestIsOne, SyncAssumption
<1>2. (MaxSlots - 1) * Largest \in Nat
  BY <1>1
<1>. QED
  BY <1>1, <1>2 DEF Limit

\* The last look at the quota counts the clip in, beside those being uploaded.
LEMMA StoresWithinLimit ==
    ASSUME IInv, SlotsInv, Jobs # {}, NEW j \in Jobs, stage[j] \in Busy, j \notin Uploading,
           NEW clips \in SUBSET index, StoresIfItFits(j, clips), index' = clips,
           Used(index) + Used(Uploading) <= Limit
    PROVE  Used(index') + Used(Uploading') <= Limit
<1>1. /\ Uploading \in SUBSET Jobs /\ index \in SUBSET Jobs /\ clips \in SUBSET Jobs
      /\ Used(clips) \in Nat /\ Used(index) \in Nat /\ Used(Uploading) \in Nat
      /\ Used(clips) <= Used(index)
      /\ Size[j] \in Nat
  BY UsedFacts, SyncAssumption DEF Uploading, IInv, TypeOK
<1>2. stage \in [Jobs -> Stages]
  BY DEF IInv, TypeOK
<1>3. CASE Used(clips) + Size[j] > Quota
  <2>1. stage' = [stage EXCEPT ![j] = "queued"] \/ stage' = [stage EXCEPT ![j] = "failed"]
    BY <1>3 DEF StoresIfItFits, Fails
  <2>2. Uploading' = Uploading
    BY <1>2, <2>1 DEF Uploading
  <2>. QED
    BY <1>1, <2>2, LimitIsRoom
<1>4. CASE ~(Used(clips) + Size[j] > Quota)
  <2>1. stage' = [stage EXCEPT ![j] = "storing"]
    BY <1>4 DEF StoresIfItFits, Goes
  <2>2. Uploading' = Uploading \cup {j}
    BY <1>2, <2>1 DEF Uploading
  <2>3. Used(Uploading') = Used(Uploading) + Size[j]
    BY <1>1, <2>2, UsedFacts
  <2>4. Used(Uploading) <= (MaxSlots - 1) * Largest
    BY OthersUploading
  <2>5. (MaxSlots - 1) * Largest \in Int /\ Quota \in Nat
    BY LargestIsOne, SyncAssumption
  <2>. QED
    BY <1>1, <1>4, <2>3, <2>4, <2>5 DEF Limit
<1>. QED
  BY <1>3, <1>4

LEMMA StepWithinLimit ==
    ASSUME IInv, SlotsInv, Jobs # {}, NEW j \in Jobs, Step(j),
           Used(index) + Used(Uploading) <= Limit
    PROVE  Used(index') + Used(Uploading') <= Limit
<1>1. /\ Uploading \in SUBSET Jobs /\ index \in SUBSET Jobs
      /\ Used(index) \in Nat /\ Used(Uploading) \in Nat
  BY UsedFacts DEF Uploading, IInv, TypeOK
<1>2. stage \in [Jobs -> Stages]
  BY DEF IInv, TypeOK
<1>3. ASSUME index' \subseteq index, Uploading' \subseteq Uploading
      PROVE  Used(index') + Used(Uploading') <= Limit
  <2>1. /\ Used(index') <= Used(index) /\ Used(Uploading') <= Used(Uploading)
        /\ Used(index') \in Nat /\ Used(Uploading') \in Nat
    BY <1>1, <1>3, UsedFacts
  <2>. QED
    BY <1>1, <2>1, LimitIsRoom
<1>4. CASE Fetched(j)
  <2>1. stage[j] = "fetching" /\ index' = index
    BY <1>4 DEF Fetched, store
  <2>2. stage[j] \in Busy /\ j \notin Uploading
    BY <2>1 DEF Busy, Calling, Uploading
  <2>3. CASE PlanEviction(index, Size[j]) = {}
    <3>1. StoresIfItFits(j, index)
      BY <1>4, <2>3 DEF Fetched
    <3>. QED
      BY <2>1, <2>2, <3>1, StoresWithinLimit
  <2>4. CASE PlanEviction(index, Size[j]) # {}
    <3>1. stage' = [stage EXCEPT ![j] = "evicting"]
      BY <1>4, <2>4 DEF Fetched, Goes
    <3>. QED
      BY <1>2, <1>3, <2>1, <3>1 DEF Uploading
  <2>. QED
    BY <2>3, <2>4
<1>5. CASE Evicted(j)
  <2>. DEFINE gone == Oldest(doomed[j])
  <2>1. stage[j] = "deleted" /\ index' = index \ {gone}
    BY <1>5 DEF Evicted
  <2>2. stage[j] \in Busy /\ j \notin Uploading
    BY <2>1 DEF Busy, Uploading
  <2>3. CASE doomed[j] \ {gone} = {}
    <3>1. StoresIfItFits(j, index') /\ index' \in SUBSET index
      BY <1>5, <2>1, <2>3 DEF Evicted
    <3>. QED
      BY <2>2, <3>1, StoresWithinLimit
  <2>4. CASE doomed[j] \ {gone} # {}
    <3>1. stage' = [stage EXCEPT ![j] = "evicting"]
      BY <1>5, <2>4 DEF Evicted, Goes
    <3>. QED
      BY <1>2, <1>3, <2>1, <3>1 DEF Uploading
  <2>. QED
    BY <2>3, <2>4
<1>6. CASE Uploaded(j)
  <2>1. /\ stage[j] = "stored" /\ index' = index \cup {j}
        /\ stage' = [stage EXCEPT ![j] = "uploaded"]
    BY <1>6 DEF Uploaded, Goes
  <2>2. j \notin index
    BY <2>1 DEF IInv, IndexWasUploaded
  <2>3. j \notin Uploading' /\ Uploading = Uploading' \cup {j} /\ Uploading' \in SUBSET Jobs
    BY <1>2, <2>1 DEF Uploading
  <2>4. Used(index') = Used(index) + Size[j]
    BY <1>1, <2>1, <2>2, UsedFacts
  <2>5. Used(Uploading) = Used(Uploading') + Size[j]
    BY <2>3, UsedFacts
  <2>6. Size[j] \in Nat /\ Used(Uploading') \in Nat
    BY <2>3, UsedFacts, SyncAssumption
  <2>. QED
    BY <1>1, <2>4, <2>5, <2>6
<1>7. CASE ~Fetched(j) /\ ~Evicted(j) /\ ~Uploaded(j)
  <2>1. index' = index
    BY <1>7 DEF Step, Wanted, Unwanted, Search, Searched, Fetch, DeleteOnCloud, StoreOnCloud,
       CallFails, store
  <2>2. Uploading' \subseteq Uploading
    BY <1>2, <1>7 DEF Step, Wanted, Unwanted, Search, Searched, Fetch, DeleteOnCloud, StoreOnCloud,
       CallFails, Goes, Fails, Uploading
  <2>. QED
    BY <1>3, <2>1, <2>2
<1>. QED
  BY <1>4, <1>5, <1>6, <1>7

LEMMA OvershootKept ==
    ASSUME IInv, SlotsInv, Jobs # {}, OvershootInv, [Next]_vars
    PROVE  OvershootInv'
<1>1. /\ Uploading \in SUBSET Jobs /\ index \in SUBSET Jobs /\ saved \in SUBSET Jobs
      /\ Used(index) \in Nat /\ Used(Uploading) \in Nat
      /\ Limit \in Nat
  BY UsedFacts, LimitIsRoom DEF Uploading, IInv, TypeOK
<1>2. Used(index) <= Limit
  BY <1>1 DEF OvershootInv
<1>3. ASSUME index' = index, Uploading' \subseteq Uploading,
             saved' = saved \/ saved' = index \/ saved' \in late, late' \subseteq late \cup {index}
      PROVE  OvershootInv'
  <2>1. Used(Uploading') <= Used(Uploading) /\ Used(Uploading') \in Nat
    BY <1>1, <1>3, UsedFacts
  <2>2. Used(index') + Used(Uploading') <= Limit
    BY <1>1, <1>3, <2>1 DEF OvershootInv
  <2>3. Used(saved') <= Limit /\ \A old \in late' : Used(old) <= Limit
    BY <1>2, <1>3 DEF OvershootInv
  <2>. QED
    BY <2>2, <2>3 DEF OvershootInv, Limit
<1>4. ASSUME NEW j \in Jobs, Step(j) PROVE OvershootInv'
  <2>1. UNCHANGED <<saved, late>>
    BY <1>4 DEF Step, Wanted, Unwanted, Search, Searched, Fetch, Fetched, DeleteOnCloud, Evicted,
       StoreOnCloud, Uploaded, CallFails, life
  <2>2. Used(index') + Used(Uploading') <= Limit
    BY <1>4, StepWithinLimit DEF OvershootInv
  <2>. QED
    BY <2>1, <2>2 DEF OvershootInv, Limit
<1>5. ASSUME NEW j \in Jobs, Arrive(j) PROVE OvershootInv'
  <2>1. stage' = [stage EXCEPT ![j] = "queued"] /\ UNCHANGED <<index, saved, late>>
    BY <1>5 DEF Arrive, store, life
  <2>2. Uploading' \subseteq Uploading
    BY <2>1 DEF Uploading, IInv, TypeOK
  <2>. QED
    BY <1>3, <2>1, <2>2
<1>6. ASSUME NEW slots \in 1..MaxSlots, Admits(slots) PROVE OvershootInv'
  <2>1. stage' = [stage EXCEPT ![Head(queue)] = "deciding"] /\ UNCHANGED <<index, saved, late>>
    BY <1>6 DEF Admits, store, life
  <2>2. Uploading' \subseteq Uploading
    BY <2>1 DEF Uploading, IInv, TypeOK
  <2>. QED
    BY <1>3, <2>1, <2>2
<1>7. CASE Stop \/ Crash
  <2>1. /\ stage' = [j \in Jobs |-> IF stage[j] \in Busy \cup {"queued"} THEN "lost" ELSE stage[j]]
        /\ UNCHANGED <<index, saved>> /\ late' \subseteq late
    BY <1>7 DEF Stop, Crash, Abandon
  <2>2. Uploading' \subseteq Uploading
    BY <2>1 DEF Uploading
  <2>. QED
    BY <1>3, <2>1, <2>2
<1>8. CASE Start
  <2>1. /\ ~up /\ index' \subseteq saved /\ UNCHANGED <<stage, saved>>
        /\ late' \subseteq late \cup {index}
    BY <1>8 DEF Start, work
  <2>2. Uploading' = {}
    BY <2>1 DEF Uploading, IInv, DownIsIdle, Busy
  <2>3. Used(index') <= Used(saved) /\ Used(index') \in Nat /\ Used(saved) \in Nat /\ Used({}) = 0
    BY <1>1, <2>1, UsedFacts
  <2>4. Used(index') + Used(Uploading') <= Limit
    BY <1>1, <2>2, <2>3 DEF OvershootInv
  <2>5. \A old \in late' : Used(old) <= Limit
    BY <1>2, <2>1 DEF OvershootInv
  <2>. QED
    BY <2>1, <2>4, <2>5 DEF OvershootInv, Limit
<1>9. CASE \/ WorkerWakes
           \/ \E slots \in 1..MaxSlots : Declines(slots)
           \/ \E task \in inflight : Finished(task)
           \/ Save
           \/ \E old \in late : LateSave(old)
           \/ UNCHANGED vars
  <2>1. /\ UNCHANGED <<stage, index>> /\ late' \subseteq late
        /\ saved' = saved \/ saved' = index \/ saved' \in late
    BY <1>9 DEF WorkerWakes, Declines, Finished, Save, LateSave, vars, work, store, life
  <2>2. Uploading' = Uploading
    BY <2>1 DEF Uploading
  <2>. QED
    BY <1>3, <2>1, <2>2
<1>. QED
  BY <1>4, <1>5, <1>6, <1>7, <1>8, <1>9 DEF Next

\* What the index counts and what is being uploaded pass the quota by no more than the
\* other slots' clips, however many uploads, retries and restarts there are: each clip
\* is checked against an index that lacks only what is in flight (engine.py 583-618,
\* index.py 139-167).  (Of no clips at all there is no largest.)
THEOREM OvershootBounded ==
    ASSUME Jobs # {}
    PROVE  Spec => []OvershootIsBounded
<1>1. Init => OvershootInv
  <2>1. Init => Uploading = {}
    BY DEF Init, Uploading
  <2>. QED
    BY <2>1, UsedFacts, LimitIsRoom DEF Init, OvershootInv
<1>2. Init => SlotsInv
  BY FS_EmptySet, SyncAssumption DEF Init, SlotsInv, SlotsRespected
<1>3. IInv /\ SlotsInv /\ [Next]_vars => SlotsInv'
  BY SlotsKept
<1>4. IInv /\ SlotsInv /\ OvershootInv /\ [Next]_vars => OvershootInv'
  BY OvershootKept
<1>5. OvershootInv => OvershootIsBounded
  BY DEF OvershootInv, OvershootIsBounded, Limit, Largest
<1>. QED
  BY <1>1, <1>2, <1>3, <1>4, <1>5, IInvHolds, PTL DEF Spec

\* So with one clip at a time the quota is a quota (index.py 5-6), through retries and
\* restarts: what breaks it (engine.py 598) takes a second slot.
COROLLARY OneSlotKeepsQuota ==
    ASSUME Jobs # {}, MaxSlots = 1
    PROVE  Spec => []QuotaHolds
<1>1. IInv /\ OvershootIsBounded => QuotaHolds
  <2>1. SUFFICES ASSUME IInv, OvershootIsBounded PROVE QuotaHolds
    OBVIOUS
  <2>2. Used(index) \in Nat /\ Used(Uploading) \in Nat
    BY <2>1, UsedFacts DEF IInv, TypeOK, Uploading
  <2>3. Largest \in Int
    BY LargestIsOne
  <2>4. Used(index) + Used(Uploading) <= Quota + (MaxSlots - 1) * Largest
    BY <2>1 DEF OvershootIsBounded, Largest
  <2>. QED
    BY <2>2, <2>3, <2>4, SyncAssumption DEF QuotaHolds
<1>. QED
  BY <1>1, OvershootBounded, IInvHolds, PTL
=============================================================================
