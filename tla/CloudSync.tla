----------------------------- MODULE CloudSync -----------------------------
(***************************************************************************)
(* From a finished window to a clip in the cloud: the queue, the worker and *)
(* the clip tasks of one `NvrSyncer` (cloud/engine.py), the index of what   *)
(* it has uploaded (cloud/index.py), and what survives a restart.           *)
(*                                                                          *)
(* One event loop runs the worker, one task per clip in flight and the      *)
(* done-callbacks of those tasks.  A stretch of code between two awaits is  *)
(* one action; every await is a point where another task may run.  A clip   *)
(* is named by its job: its path is made of the window's start and camera,  *)
(* so a retry writes the same file.  The bytes, names and dates are left    *)
(* out; sizes, the order of recording and what the destination holds stay.  *)
(***************************************************************************)
EXTENDS Integers, Sequences, FiniteSets, FiniteSetsExt

CONSTANTS
    Jobs,        \* the windows that finish, one clip each
    Ordinary,    \* those admitted for a synced kind: uploaded without being scored
    Size,        \* Size[j]: the bytes of j's clip
    Recorded,    \* Recorded[j]: when it was recorded, the order of the index
    Quota,
    MaxSlots,    \* SYNC_MAX_CONCURRENT_CLIPS, the ceiling of capacity.slots
    MaxAttempts, \* MAX_ATTEMPTS
    MaxLooks,    \* STABLE_ATTEMPTS
    MaxStarts,   \* bound: how often the syncer is started
    NoJob

ASSUME SyncAssumption ==
    /\ IsFiniteSet(Jobs)
    /\ Ordinary \subseteq Jobs
    /\ Size \in [Jobs -> Nat]
    /\ Recorded \in [Jobs -> Nat]
    /\ \A j, k \in Jobs : Recorded[j] = Recorded[k] => j = k
    /\ Quota \in Nat
    /\ MaxSlots \in Nat \ {0} /\ MaxAttempts \in Nat \ {0} /\ MaxLooks \in Nat \ {0}
    /\ MaxStarts \in Nat \ {0}
    /\ NoJob \notin Jobs

VARIABLES
    stage,     \* where each job is
    attempts,  \* `SyncJob.attempts`
    looks,     \* the searches made for it so far in this attempt
    doomed,    \* the clips its eviction plan has still to delete
    queue,     \* `_queue`
    inflight,  \* `_inflight`: tasks, each a job and the attempt it was started for
    worker,    \* "off", "waiting" on `_wake`, or "asking" for the slots
    seen,      \* len(self._inflight) as the worker read it, before it asked
    wake,      \* `_wake`
    lock,      \* the job holding the recorder's lock, or NoJob
    index,     \* `_index`
    cloud,     \* what the destination holds of ours
    up,        \* between `async_start` and `async_stop`
    starts,
    saved,     \* the index on disk
    dirty,     \* this syncer has a delayed save pending
    late       \* the indexes that replaced instances' delayed saves will still write

work == <<stage, attempts, looks, doomed, queue>>
flow == <<inflight, worker, seen, wake>>
store == <<index, cloud>>
life == <<up, starts, saved, dirty, late>>
vars == <<work, flow, lock, store, life>>

Calling == {"searching", "fetching"}          \* the recorder is being asked
Busy == {"deciding", "looking", "found", "evicting", "deleted", "storing", "stored"}
            \cup Calling
Ended == {"uploaded", "unwanted", "failed", "lost"}
Stages == {"new", "queued"} \cup Busy \cup Ended

TypeOK ==
    /\ stage \in [Jobs -> Stages]
    /\ attempts \in [Jobs -> 0..MaxAttempts]
    /\ looks \in [Jobs -> 0..MaxLooks]
    /\ doomed \in [Jobs -> SUBSET Jobs]
    /\ queue \in Seq(Jobs)
    /\ inflight \subseteq Jobs \X (0..MaxAttempts)
    /\ worker \in {"off", "waiting", "asking"}
    /\ seen \in Nat
    /\ wake \in BOOLEAN
    /\ lock \in Jobs \cup {NoJob}
    /\ index \subseteq Jobs
    /\ cloud \subseteq Jobs
    /\ up \in BOOLEAN
    /\ starts \in 1..MaxStarts
    /\ saved \subseteq Jobs
    /\ dirty \in BOOLEAN
    /\ late \subseteq SUBSET Jobs

Init ==
    /\ stage = [j \in Jobs |-> "new"]
    /\ attempts = [j \in Jobs |-> 0]
    /\ looks = [j \in Jobs |-> 0]
    /\ doomed = [j \in Jobs |-> {}]
    /\ queue = <<>>
    /\ inflight = {}
    /\ worker = "waiting"
    /\ seen = 0
    /\ wake = FALSE
    /\ lock = NoJob
    /\ index = {}
    /\ cloud = {}
    /\ up = TRUE
    /\ starts = 1
    /\ saved = {}
    /\ dirty = FALSE
    /\ late = {}

-----------------------------------------------------------------------------
(* The index.                                                               *)

Used(clips) == MapThenSumSet(LAMBDA k : Size[k], clips)

\* `plan_eviction`: oldest first and no further than needed, so a clip goes
\* exactly when what is no older than it leaves no room; nothing goes for a
\* clip that could not fit in an empty store.
PlanEviction(clips, incoming) ==
    IF incoming > Quota THEN {}
    ELSE {k \in clips :
             Used({l \in clips : Recorded[l] >= Recorded[k]}) + incoming > Quota}

Oldest(clips) == CHOOSE k \in clips : \A l \in clips : Recorded[k] <= Recorded[l]

-----------------------------------------------------------------------------
(* The worker.                                                              *)

\* `_enqueue`.
Arrive(j) ==
    /\ up
    /\ stage[j] = "new"
    /\ stage' = [stage EXCEPT ![j] = "queued"]
    /\ queue' = Append(queue, j)
    /\ wake' = TRUE
    /\ UNCHANGED <<attempts, looks, doomed, inflight, worker, seen, lock, store, life>>

\* The head of the worker's loop, reached with queue `q` and tasks `tasks`: with
\* something queued it counts the tasks and then awaits the slots; with nothing
\* queued it clears `_wake` and waits.
LoopHead(q, tasks) ==
    IF q = <<>>
    THEN /\ worker' = "waiting"
         /\ wake' = FALSE
         /\ seen' = 0
    ELSE /\ worker' = "asking"
         /\ seen' = Cardinality(tasks)
         /\ UNCHANGED wake

WorkerWakes ==
    /\ worker = "waiting"
    /\ wake
    /\ LoopHead(queue, inflight)
    /\ UNCHANGED <<work, inflight, lock, store, life>>

\* (A definition whose name ends in Slip is a plausible mistake in the one that
\* follows it; the model never uses it.  See the README.)
\* One clip too many.
AdmitsSlip(slots) ==
    /\ worker = "asking"
    /\ seen <= slots
    /\ stage' = [stage EXCEPT ![Head(queue)] = "deciding"]
    /\ inflight' = inflight \cup {<<Head(queue), attempts[Head(queue)]>>}
    /\ queue' = Tail(queue)
    /\ LoopHead(queue', inflight')
    /\ UNCHANGED <<attempts, looks, doomed, lock, store, life>>

\* The clip is looked at but not taken off the queue.
AdmitsTwiceSlip(slots) ==
    /\ worker = "asking"
    /\ seen < slots
    /\ stage' = [stage EXCEPT ![Head(queue)] = "deciding"]
    /\ inflight' = inflight \cup {<<Head(queue), attempts[Head(queue)]>>}
    /\ LoopHead(queue, inflight')
    /\ UNCHANGED <<queue, attempts, looks, doomed, lock, store, life>>

\* `_async_slots` answers `slots`, against the count read before it was asked:
\* there is room, so the next clip becomes a task ...
Admits(slots) ==
    /\ worker = "asking"
    /\ seen < slots
    /\ LET j == Head(queue) IN
       /\ stage' = [stage EXCEPT ![j] = "deciding"]
       /\ inflight' = inflight \cup {<<j, attempts[j]>>}
    /\ queue' = Tail(queue)
    /\ LoopHead(queue', inflight')
    /\ UNCHANGED <<attempts, looks, doomed, lock, store, life>>

\* ... or there is not, and the worker clears `_wake` and waits.
Declines(slots) ==
    /\ worker = "asking"
    /\ seen >= slots
    /\ worker' = "waiting"
    /\ wake' = FALSE
    /\ seen' = 0
    /\ UNCHANGED <<work, inflight, lock, store, life>>

Runs(task) == stage[task[1]] \in Busy /\ attempts[task[1]] = task[2]

\* `_async_finished`: the done-callback of a task, some time after its last step.
Finished(task) ==
    /\ task \in inflight
    /\ ~Runs(task)
    /\ inflight' = inflight \ {task}
    /\ wake' = TRUE
    /\ UNCHANGED <<work, worker, seen, lock, store, life>>

-----------------------------------------------------------------------------
(* One clip's task (`_async_run` around `_async_handle`).                   *)

\* Move a job on without it failing.
Goes(j, to) ==
    /\ stage' = [stage EXCEPT ![j] = to]
    /\ UNCHANGED <<attempts, queue>>

\* One attempt too many.
FailsSlip(j) ==
    /\ attempts' = [attempts EXCEPT ![j] = @ + 1]
    /\ IF attempts[j] + 1 <= MaxAttempts
       THEN stage' = [stage EXCEPT ![j] = "queued"] /\ queue' = Append(queue, j)
       ELSE stage' = [stage EXCEPT ![j] = "failed"] /\ UNCHANGED queue
    /\ doomed' = [doomed EXCEPT ![j] = {}]

\* `_async_run` catches whatever the attempt raised: requeued while attempts last.
Fails(j) ==
    /\ attempts' = [attempts EXCEPT ![j] = @ + 1]
    /\ IF attempts[j] + 1 < MaxAttempts
       THEN /\ stage' = [stage EXCEPT ![j] = "queued"]
            /\ queue' = Append(queue, j)
       ELSE /\ stage' = [stage EXCEPT ![j] = "failed"]
            /\ UNCHANGED queue
    /\ doomed' = [doomed EXCEPT ![j] = {}]

\* `_async_wanted`: an ordinary clip always is; another only if scored unusual.
Wanted(j) ==
    /\ stage[j] = "deciding"
    /\ looks' = [looks EXCEPT ![j] = 0]
    /\ Goes(j, "looking")
    /\ UNCHANGED <<doomed, flow, lock, store, life>>

Unwanted(j) ==
    /\ stage[j] = "deciding"
    /\ j \notin Ordinary
    /\ Goes(j, "unwanted")
    /\ UNCHANGED <<looks, doomed, flow, lock, store, life>>

\* `async with _nvr_lock(...)`, for a search (after whatever sleep is due) ...
Search(j) ==
    /\ stage[j] = "looking"
    /\ lock = NoJob
    /\ lock' = j
    /\ Goes(j, "searching")
    /\ UNCHANGED <<looks, doomed, flow, store, life>>

\* ... which finds a recording that reaches far enough or has stopped growing,
\* or none yet with a look left.  Out of looks is a FetchError: see CallFails.
Searched(j) ==
    /\ stage[j] = "searching"
    /\ lock' = NoJob
    /\ \/ /\ Goes(j, "found")
          /\ UNCHANGED looks
       \/ /\ looks[j] + 1 < MaxLooks
          /\ looks' = [looks EXCEPT ![j] = @ + 1]
          /\ Goes(j, "looking")
    /\ UNCHANGED <<doomed, flow, store, life>>

\* The bytes are read without the lock.
FetchSlip(j) ==
    /\ stage[j] = "found"
    /\ lock' = j
    /\ Goes(j, "fetching")
    /\ UNCHANGED <<looks, doomed, flow, store, life>>

\* ... and for reading the bytes.
Fetch(j) ==
    /\ stage[j] = "found"
    /\ lock = NoJob
    /\ lock' = j
    /\ Goes(j, "fetching")
    /\ UNCHANGED <<looks, doomed, flow, store, life>>

\* The last look at the quota before the upload, on the index as it now is.
StoresIfItFits(j, clips) ==
    IF Used(clips) + Size[j] > Quota
    THEN Fails(j)
    ELSE Goes(j, "storing") /\ doomed' = [doomed EXCEPT ![j] = {}]

\* The bytes are in memory: plan the eviction once, from the index as it is now.
Fetched(j) ==
    /\ stage[j] = "fetching"
    /\ lock' = NoJob
    /\ LET plan == PlanEviction(index, Size[j]) IN
       IF plan = {}
       THEN StoresIfItFits(j, index)
       ELSE /\ Goes(j, "evicting")
            /\ doomed' = [doomed EXCEPT ![j] = plan]
    /\ UNCHANGED <<looks, flow, store, life>>

\* Forgotten first, deleted afterwards.
DeleteOnCloudSlip(j) ==
    /\ stage[j] = "evicting"
    /\ index' = index \ {Oldest(doomed[j])}
    /\ Goes(j, "deleted")
    /\ UNCHANGED <<looks, doomed, flow, lock, cloud, life>>

\* The destination deletes the next doomed clip (quietly, if it is gone) ...
DeleteOnCloud(j) ==
    /\ stage[j] = "evicting"
    /\ cloud' = cloud \ {Oldest(doomed[j])}
    /\ Goes(j, "deleted")
    /\ UNCHANGED <<looks, doomed, flow, lock, index, life>>

\* ... and, once it has said so, the index forgets it.
Evicted(j) ==
    /\ stage[j] = "deleted"
    /\ LET gone == Oldest(doomed[j])
           rest == doomed[j] \ {gone}
       IN /\ index' = index \ {gone}
          /\ IF rest = {}
             THEN StoresIfItFits(j, index')
             ELSE /\ Goes(j, "evicting")
                  /\ doomed' = [doomed EXCEPT ![j] = rest]
    /\ UNCHANGED <<looks, flow, lock, cloud, life>>

\* Counted before it is confirmed.
StoreOnCloudSlip(j) ==
    /\ stage[j] = "storing"
    /\ cloud' = cloud \cup {j}
    /\ index' = index \cup {j}
    /\ Goes(j, "stored")
    /\ UNCHANGED <<looks, doomed, flow, lock, life>>

\* The upload takes effect at the destination ...
StoreOnCloud(j) ==
    /\ stage[j] = "storing"
    /\ cloud' = cloud \cup {j}
    /\ Goes(j, "stored")
    /\ UNCHANGED <<looks, doomed, flow, lock, index, life>>

\* ... and is confirmed: the index has it, and a save is due in five seconds.
Uploaded(j) ==
    /\ stage[j] = "stored"
    /\ index' = index \cup {j}
    /\ dirty' = TRUE
    /\ Goes(j, "uploaded")
    /\ UNCHANGED <<looks, doomed, flow, lock, cloud, up, starts, saved, late>>

\* The lock is not released when the call raises.
CallFailsSlip(j) ==
    /\ \/ stage[j] = "deciding" /\ j \notin Ordinary
       \/ stage[j] \in Calling \cup {"evicting", "deleted", "storing", "stored"}
    /\ Fails(j)
    /\ UNCHANGED <<looks, flow, lock, store, life>>

\* Any call can raise instead, before or after it took effect; a lock held
\* around it is released.
CallFails(j) ==
    /\ \/ stage[j] = "deciding" /\ j \notin Ordinary
       \/ stage[j] \in Calling \cup {"evicting", "deleted", "storing", "stored"}
    /\ Fails(j)
    /\ lock' = IF lock = j THEN NoJob ELSE lock
    /\ UNCHANGED <<looks, flow, store, life>>

-----------------------------------------------------------------------------
(* Stopping, dying, saving and starting again.                              *)

\* Everything held in memory goes.  A request cut short may have reached the
\* destination all the same.
Abandon ==
    /\ up
    /\ up' = FALSE
    /\ stage' = [j \in Jobs |-> IF stage[j] \in Busy \cup {"queued"} THEN "lost" ELSE stage[j]]
    /\ queue' = <<>>
    /\ doomed' = [j \in Jobs |-> {}]
    /\ inflight' = {}
    /\ worker' = "off"
    /\ seen' = 0
    /\ wake' = FALSE
    /\ lock' = NoJob
    /\ \E stored \in SUBSET {j \in Jobs : stage[j] = "storing"},
          deleted \in SUBSET {Oldest(doomed[j]) : j \in {k \in Jobs : stage[k] = "evicting"}} :
              cloud' = (cloud \ deleted) \cup stored
    /\ UNCHANGED <<attempts, looks, index, starts, saved>>

\* `async_stop`: cancel the worker and the tasks, then ask for a delayed save.
Stop ==
    /\ Abandon
    /\ dirty' = TRUE
    /\ UNCHANGED late

\* The process dies: the delayed saves go with it.
Crash ==
    /\ Abandon
    /\ dirty' = FALSE
    /\ late' = {}

\* The delayed save of the running syncer, or of one that has just stopped.
Save ==
    /\ dirty
    /\ saved' = index
    /\ dirty' = FALSE
    /\ UNCHANGED <<work, flow, lock, store, up, starts, late>>

\* The same, of an instance that has meanwhile been replaced.
LateSave(old) ==
    /\ old \in late
    /\ saved' = old
    /\ late' = late \ {old}
    /\ UNCHANGED <<work, flow, lock, store, up, starts, dirty>>

\* Whatever the destination lists is taken to be ours.
StartSlip ==
    /\ ~up
    /\ starts < MaxStarts
    /\ up' = TRUE
    /\ starts' = starts + 1
    /\ index' = cloud
    /\ worker' = "waiting"
    /\ UNCHANGED <<work, inflight, seen, wake, lock, cloud, saved, dirty, late>>

\* `async_start` of a new instance: load what is on disk, then forget whatever
\* the destination does not list -- unless it could not be listed.
Start ==
    /\ ~up
    /\ starts < MaxStarts
    /\ up' = TRUE
    /\ starts' = starts + 1
    /\ late' = IF dirty THEN late \cup {index} ELSE late
    /\ index' \in {saved, saved \cap cloud}
    /\ dirty' = (index' # saved)
    /\ worker' = "waiting"
    /\ UNCHANGED <<work, inflight, seen, wake, lock, cloud, saved>>

-----------------------------------------------------------------------------

Step(j) ==
    \/ Wanted(j) \/ Unwanted(j)
    \/ Search(j) \/ Searched(j) \/ Fetch(j) \/ Fetched(j)
    \/ DeleteOnCloud(j) \/ Evicted(j) \/ StoreOnCloud(j) \/ Uploaded(j)
    \/ CallFails(j)

Next ==
    \/ \E j \in Jobs : Arrive(j) \/ Step(j)
    \/ WorkerWakes
    \/ \E slots \in 1..MaxSlots : Admits(slots) \/ Declines(slots)
    \/ \E task \in inflight : Finished(task)
    \/ Stop \/ Crash \/ Save \/ Start
    \/ \E old \in late : LateSave(old)

Spec == Init /\ [][Next]_vars

\* The event loop runs every callback and task that is ready, and a call to a
\* device or a service returns or raises; asyncio.Lock serves its waiters in
\* turn, so taking the lock is strongly fair.  Nothing makes windows finish, and
\* nothing stops or restarts the syncer.
Fairness ==
    /\ WF_vars(WorkerWakes)
    /\ WF_vars(\E slots \in 1..MaxSlots : Admits(slots) \/ Declines(slots))
    /\ WF_vars(\E task \in inflight : Finished(task))
    /\ \A j \in Jobs : WF_vars(Step(j)) /\ SF_vars(Search(j)) /\ SF_vars(Fetch(j))

FairSpec == Spec /\ Fairness
-----------------------------------------------------------------------------
(* Properties.                                                              *)

\* "The device is never asked two things at once" (engine.py 10-11), however
\* many clips are in flight and however their attempts fail.
RecorderAskedOnce ==
    \A j, k \in Jobs : stage[j] \in Calling /\ stage[k] \in Calling => j = k

\* No more clips are held in memory than the most the machine was ever granted:
\* the count the worker compares is stale by the time it is answered, but only
\* ever too high (engine.py 522-548).
SlotsRespected == Cardinality(inflight) <= MaxSlots

\* A job is queued exactly once or being handled by exactly one task, never both,
\* and the worker never pops an empty queue: a requeue, a stale task waiting for
\* its done-callback and a restart do not duplicate or drop it.
EachJobInOnePlace ==
    /\ \A m, n \in DOMAIN queue : queue[m] = queue[n] => m = n
    /\ \A j \in Jobs :
           /\ stage[j] = "queued" <=> \E n \in DOMAIN queue : queue[n] = j
           /\ stage[j] \in Busy <=> \E task \in inflight : task[1] = j /\ Runs(task)
    /\ worker = "asking" => queue # <<>>

\* While the syncer runs, an uploaded clip the destination still holds is counted
\* against the quota: evictions delete before they forget (engine.py 592-608).
UploadedIsAccounted ==
    \A k \in Jobs : stage[k] = "uploaded" /\ k \in cloud => k \in index

\* The index, in memory and on disk, counts only clips that were uploaded: an
\* upload that was never confirmed is in none of them, through any restart.
IndexWasUploaded ==
    \A k \in index \cup saved \cup UNION late : stage[k] = "uploaded"

\* The clips that have passed their check of the quota and are not yet counted.
Uploading == {j \in Jobs : stage[j] \in {"storing", "stored"}}

\* Checking and counting are an upload apart, so the quota can be passed -- but
\* never by more than the other slots' clips, however many uploads there are.
OvershootIsBounded ==
    LET largest == Max({Size[j] : j \in Jobs})
    IN Used(index) + Used(Uploading) <= Quota + (MaxSlots - 1) * largest

\* docs/cloud-sync.md 35, of the storage quota: "When it is full, the oldest
\* clips are deleted to make room"; index.py 5-6: "15 GB should mean 15 GB of its
\* clips".  What the index counts never exceeds it.
QuotaHolds == Used(index) <= Quota

\* engine.py 316, of `_async_save`: "so a restart resumes where it left off".  A
\* stop that was followed by a start forgets no clip the destination still has.
ResumesWhereItLeftOff ==
    [][(~up /\ up' /\ dirty) => index \cap cloud \subseteq index']_vars

\* A clip that is taken up is let go of: uploaded, refused, given up or queued
\* again; no wait for the recorder or the destination is for ever.
TaskEnds == \A j \in Jobs : stage[j] \in Busy ~> stage[j] \notin Busy

\* engine.py 537, of the done-callback: "Frees the slot and wakes this loop,
\* whichever way the job ended".  A queued clip is eventually taken up.
QueuedIsTaken == \A j \in Jobs : stage[j] = "queued" ~> stage[j] # "queued"

\* engine.py 284, of `async_stop`: "Anything mid-event is queued rather than
\* dropped, then persisted for next time".  Stopping cleanly loses no clip.
StoppingLosesNothing ==
    [][(up /\ ~up' /\ dirty') => \A j \in Jobs : stage[j] # "lost" => stage'[j] # "lost"]_vars

-----------------------------------------------------------------------------
(* The promise this keeps.  Queued, retried and in hand are all "pending".   *)

StatusOf(st) ==
    CASE st = "new" -> "expected"
      [] st = "uploaded" -> "kept"
      [] st = "unwanted" -> "declined"
      [] st \in {"failed", "lost"} -> "abandoned"
      [] OTHER -> "pending"

Delivery == INSTANCE ClipDelivery WITH
    status <- [j \in Jobs |-> StatusOf(stage[j])],
    archive <- index,
    running <- up

\* Each clip is accepted once and ends once, ordinary clips are never declined,
\* and the archive changes only as ClipDelivery allows.
Delivers == Delivery!DSpec
=============================================================================
