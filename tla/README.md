# Reolink Stamina, modelled, checked and proved

Reolink Stamina is a Home Assistant integration: it lists the recordings that Reolink recorders and
cameras hold, plays them, and copies the ones that matter to a cloud drive. This directory holds a
formal model of the parts of it where things happen at the same time, fail half way, or have to
survive a restart. TLC checks the models on small instances; TLAPS proves the theorems for every
value of the constants. Paths below are relative to `src/custom_components/reolink_stamina/`.

## 1. The system

Everything runs on one asyncio event loop inside Home Assistant. A stretch of code between two
`await`s is never interrupted, so it is one action of a model; every `await` is a point where any
other task, timer or callback may run. Nothing here uses threads except short jobs handed to an
executor, which are awaited.

| Part | State it keeps | Operations | Correct when |
| --- | --- | --- | --- |
| Detection windows (`cloud/windows.py`) | one open window per camera: first and last detection, sensors still on, kinds, admission | `record_on`, `record_off`, `collect`, `flush`, `next_due` | no detection falls between two clips; one visit is one clip; admission is decided once |
| Cloud syncer (`cloud/engine.py`) | sensors watched, switch, timers, queue, tasks in flight, wake-up event, index, lock per recorder | state changes, timers, sweep, worker, one task per clip, start, stop, delayed save | each clip handled once, the recorder asked one thing at a time, memory and quota bounded, nothing counted that was not uploaded |
| Clip index (`cloud/index.py`) | clips uploaded, oldest first, against a quota | `add`, `remove`, `plan_eviction`, `reconcile` | evicts oldest first, no more than needed |
| Capacity (`cloud/capacity.py`) | none | `slots` from free memory and the sizes seen | at least one slot, never more than memory allows |
| Destinations (`cloud/destinations/`) | tokens, folder ids | `store`, `delete`, `list_owned` over OAuth, WebDAV, SFTP | a call takes effect once or raises |
| Recording cache (`cache.py`) | days and calendars by key, tasks in flight, device that serves a paired camera, listeners | `async_ensure_day`, searches, `_finish`, `async_shutdown`, storage | an answer at once, refreshed once, never lost by a failure, its watchers told |
| Recorder search (`vod.py`, `detections.py`, `recorder_zone.py`) | none | search a day, tell the convention of its times, cut, count detections, drop | a row leads to its moment in its recording, and nothing seen is dropped or counted twice |
| Websocket API (`api/`) | one listener per subscription | subscribe to events and calendars, resolve, check, download | what the panel shows is what the cache holds |
| Adaptive playback (`restream/`) | the one conversion that has the slot, the encoder in use, encoders known to fail | choose, probe, start, claim, serve, diagnose, stop | one conversion at a time, no ffmpeg and no directory left without somebody who will end it, as long as no client goes away, an encoder blamed for its own failures only |
| Playback routes (`playback_route.py`, `flv_proxy.py`) | the route each recorder answers on | measure, remember, use, forget | somebody seeks exactly once; a file is what is expected where a file comes |
| Relevance journal (`relevance/journal.py`, `watcher.py`, `backfill.py`) | sqlite table of transitions, a buffer before it, what was imported and stamped | record, flush, import, stamp, close, delete | no transition lost or counted twice, none kept after a removal |
| Relevance model (`relevance/events.py`, `rates.py`, `score.py`, `shapes.py`, `analysis.py`) | rates learned in the night | derive events, learn, score, mark | a window of the journal says what the whole of it says; only the tail is marked |
| Device registry look-ups (`reolink_registry.py`) | none | discover, offer, pair | a camera listed twice is offered once, and never lost |
| Set-up, unload, forms (`__init__.py`, `config_flow.py`, `backup.py`) | what the entry owns, the options, the form under way | set up, unload, reload on an edit, remove, the pages of the forms | nothing outlives the entry, and what runs is what is saved |
| Panel (`frontend/`) | subscriptions, filters, player | resubscribe, patch, choose a source | no message of an old subscription applied |
| Entities and helpers | none of their own | publishing | outside the model |

How they interact. Home Assistant's state changes call the syncer, which feeds the windows; finished
windows become jobs in the syncer's queue; its worker turns each job into a task that searches and
fetches through the Reolink integration (one request at a time per recorder, by a lock shared by all
syncers of the process), makes room by deleting from the destination, uploads, and counts the clip in
the index; the index is saved five seconds after it changed. The panel subscribes over a websocket:
the subscription answers from the cache, starts background searches, and registers a listener that
the cache calls when a search lands. A row of the panel is played by asking for a path to the recording, or by a
conversion; both measure the recorder's routes and share what is remembered of them. Detections are
also written to the relevance journal, by a watcher of its own. An edit reloads the entry:
conversions, journal, syncers and cache are stopped in that order and built anew.

What is hard here, and drives the choice of properties: callbacks that run some time after what they
report (a task's done-callback, a one-shot timer), state read before an `await` and used after it
(the number of tasks in flight, the quota, the device that serves a camera, the route of a recorder), failure between two
effects that belong together (delete and forget, upload and count), and restarts while writes are
delayed. PROJECT.json lists each at its line under `hazards`.

## 2. The modules

| Module | Models | State and actions |
| --- | --- | --- |
| `SyncWindows` | `cloud/windows.py` and the half of `cloud/engine.py` that drives it | a clock, sensors, the switch, a window per camera, the one-shot timer the syncer holds and those it lost track of, the sweep. Actions: `SensorOn`, `SensorOff`, `SensorRemoved`, `DueFires`, `StrayFires`, `Sweep`, `Resolve`, `SetAccepting`, `Stop`, `Advance` |
| `CloudSync` | the other half of `cloud/engine.py`, `cloud/index.py`, and what it uses of capacity, fetching and destinations | where each job is, queue, tasks, worker, wake-up, lock, index, the destination's contents, saves on their way. The worker's loop is `WorkerWakes`, `Admits`, `Declines`; a task is `Wanted` ... `Uploaded`, with `CallFails` at any call; life is `Stop`, `Crash`, `Save`, `LateSave`, `Start` |
| `ClipDelivery` | what a syncer promises, without queue, tasks, lock and retries | a window is accepted once and ends once; the archive changes only by an upload, to make room, or over a restart |
| `VodCache` | `cache.py` for camera-days, `ws_events` of `api/browse.py`, the look-ups of `api/playback.py` | records, registered and running fetches, each fetch's search of each device, the remembered device, listeners and what each panel was last told. Actions: `Subscribe`, `Unsubscribe`, `LookUp`, `Begin`, `Search`, `Answer`, `Land`, `Done`, `Repair`, `Shutdown`, `Tick` |
| `Restream` | `restream/sessions.py`, `runner.py`, `views.py`, `encoders.py` | each request's step, its ffmpeg, its directory and its watchdog, the playlist's readers, the slot, the chosen encoder and its probe. Actions: `RequestMp4`, `RequestHls`, `ChooseKnown`, `Probe`, `Tested`, `Spawn`, `Claim`, `Claimed`, ..., `Poll...`, `Watchdog...`, `Disconnect`, `PollDisconnects`, `Sweep`, `Exits`, `Unload` |
| `Diagnosis` | `restream/diagnosis.py` | pure: what a dead ffmpeg's last words are taken for. `Restream` extends it |
| `Journal` | `relevance/journal.py`, `watcher.py`, `backfill.py`, the start of `relevance/__init__.py` | the buffer, its timer and the flushes that wait for the lock, the write under way, the table, the catch-up task (import, stamps, model) step by step, and the life of the entry with crashes |
| `RecorderSearch` | `vod.py`, `detections.py`, `recorder_zone.py`, the composing of rows in `api/browse.py` | a recorder, its clock, what it filmed, what the sensors said, and the answer stored last, which the panel composes at any later moment; the search is one operator, since it works on one answer and keeps nothing of its own |
| `DetectionEvents` | `relevance/events.py`, predecessors of `rates.py` | pure: transitions folded into runs and events |
| `Relevance` | `relevance/rates.py`, `score.py`, `shapes.py`, `analysis.py` | the journal, how much of it was learned from, and the window asked for. It extends `DetectionEvents` |
| `Registry` | `reolink_registry.py` | the state of each entry and the disabled places; pure operators for what is offered and paired |
| `PlaybackRoutes` | `playback_route.py`, `flv_proxy.py`, the questions of `api/playback.py` and the conversions' use of both | requests in flight, what is remembered of each device, a reload, changes at home. It extends `Registry`, whose pairing decides which device is addressed |
| `Lifecycle` | `__init__.py`, `config_flow.py` | the config entry's steps, what each attempt to set up has at work, delayed saves, files, the pages of the forms |
| `MC...` | small instances for TLC | constants only |
| `SyncWindowsProofs`, `CloudSyncProofs`, `VodCacheProofs`, `RestreamProofs`, `RelevanceProofs` (of `Journal` and `Relevance`), `RecorderSearchProofs`, `PlaybackRoutesProofs`, `LifecycleProofs` | theorems | |

`CloudSync` and `SyncWindows` meet in `_enqueue`: a window that `SyncWindows` hands over is a job that
`Arrive`s in `CloudSync`, at any time and in any order. `CloudSync` implements `ClipDelivery` under
the mapping at its end. `Lifecycle` starts and stops, as wholes, the parts that the other modules
look into: a syncer (`CloudSync` has stops, crashes and starts of its own), the journal (`Journal`)
and the cache, whose delayed save it follows past the end of the entry. `Relevance` reads the
transitions that `Journal` keeps, and `RecorderSearch` is what a search of `VodCache` returns.

Choices worth knowing:

- A clip is named by its job. Its path is made of the window's start and the camera, so a retry
  writes the same file (`cloud/naming.py`).
- The destination's call and its answer are two actions (`StoreOnCloud`, `Uploaded`), so that a call
  can take effect and still raise.
- `LoopHead` reads the number of tasks before the slots are awaited, as the worker's condition does
  (`cloud/engine.py` 531); `Admits` and `Declines` use that count.
- A task's last step and its done-callback are two actions, in both `CloudSync` (`Finished`) and
  `VodCache` (`Done`); asyncio runs the callback later, and a request may be served in between.
- In `VodCache` a record is reduced to the device that lists files for the day (or none), the moment
  it was asked, the moment the record was written and whether it is marked failed.
- A panel in `VodCache` keeps what it was last told when the cache is shut down. Whether a browser
  that shows it is torn down by the unload is Home Assistant's business, so what panels are promised
  is promised while they listen.
- `Repair` is the user disabling or enabling the recorder's copy of a camera
  (`async_paired_channel`, `reolink_registry.py` 498).
- In `Restream` the slot's lock is never held across an `await`, so taking the slot and killing the
  ffmpeg of whoever had it is one step; waiting for the killed process and removing its directory
  are later ones, by the task that stopped it (`stoppers`). An encoder is chosen once and remembered;
  it may have failed in the field while it was being probed, and is then chosen all the same.
- A client of `Restream` may go away at any moment, and Home Assistant then cancels its request
  (`Disconnect`, `PollDisconnects`). Only the streaming itself is under a `try/finally`
  (`restream/views.py` 113-161: the `except Exception` at 140 does not catch `CancelledError`), so a request
  cancelled between the claim and the video just ends, `abandoned`, and one cancelled while it stops a stream leaves that
  stream `deserted`, its directory unremoved and its watchdog cancelled before. An HLS session is
  started by a WebSocket command, which Home Assistant does not cancel. `Sweep`, of a later set-up, is
  what remains to remove such a directory; its age is left out, since a directory nobody stops only grows older.
- In `Journal` a task holds the lock only while the executor writes; what looks at the database
  without writing waits for it to be free and is one step. Rows are numbered as they happened, and
  all that is said of one is whether it carries a snapshot of the signals.
- In `RecorderSearch` footage, edges and the clock are instants, and the recorder answers in wall-clock
  times of its own, which are set back once when summer time ends. It is assumed that Home Assistant
  is in the recorder's zone, as the code is. After summer time ends the code has an hour of which the
  names come out one hour late, since `astimezone` is not told which of the two hours is meant
  (`vod.py`, no `fold`); the properties except it, by `Unsettled` and `Doubtful`.
- An answer of `RecorderSearch` is kept while the clock goes on and the camera films, and is composed by
  the clock of the moment it is composed at, as `api/browse.py` 126-127 does. `found` and `at`, what was
  found and when, are kept beside it for the properties only.
- In `Relevance` probabilities are integers out of `Scale`, the kernel and the floors are small
  integers, and a surprisal, a logarithm in the code, is a straight line that falls as the
  probability rises: the properties compare and count, and use no logarithm. There is one signal, and
  one rebuild. Rows are at distinct times, as are then events, which are put in order by how many began
  earlier. An event that was cut at its greatest length is shown as still open, as the code does.
- In `Lifecycle` an attempt to set up is known by its number, and what it started is kept under it,
  so that something left running by an attempt that failed is seen. Home Assistant does not unload
  an entry whose set-up raised.
- A definition whose name ends in `Slip` is a plausible mistake in the definition after it: a
  dropped guard, an off-by-one, a swapped order. No specification uses them. Putting one in the
  place of the right definition must make TLC find a property violated; PROJECT.json (`mutants`) says
  which. A property that survives every such mistake would say nothing about the code.

## 3. What TLC checks

Runs that pass:

| Run | Instance | What it shows |
| --- | --- | --- |
| `windows_one` | one camera, two sensors of different kinds, five moments, rule off | `DetectionsCovered`: every detection taken on is in the open window or in a clip; `OneVisitOneClip`: clips of a camera are apart by a settle unless cut short; `GathersOnlyWhenAsked` |
| `windows_timers` | two cameras, nine moments, a settle of 2, a maximum of 4, a sweep of 3, rule on, recorder unreachable at times | `QuietHasTimer`: a quiet window always has a timer set for it; `WindowsAreBounded`: no window outlives the maximum by more than a sweep; `AdmissionDecidedOnce` |
| `sync_core` | three clips of sizes 2, 2, 1, a quota of 2, two slots, two attempts, two looks | `RecorderAskedOnce`, `SlotsRespected`, `EachJobInOnePlace`, `UploadedIsAccounted`, `OvershootIsBounded` |
| `sync_restart` | two clips, a quota for one, three lives | `IndexWasUploaded` through stops, crashes and late saves; `Delivers`: CloudSync implements ClipDelivery; `TaskEnds`: a task never waits for ever |
| `cache_core` | a paired camera, two devices, one search at a time each, two searches of a day that may overlap, one panel | `PanelsSeeTheCache`, `FailureKeepsFiles`, `UpdatingEnds` |
| `restream_core` | a phone on HLS with two requests for its playlist, a browser on MP4, one hardware encoder and libx264, clients that go away at any moment | `OnlyDisconnectsLeak`: no ffmpeg and no directory is without somebody who will end it, but by a client that went away between the claim and the video or in the middle of a stop; `BlameIsDeserved`: only real failures are recorded, and no encoder loses its place for another's; `EverythingEnds`, with the same exception |
| `journal_core` | two transitions, two lives, chunks of one row, with or without a signal | `NothingSlipsAway` between buffer, write and table; `BufferIsAttended`: what is buffered has a timer, a flush or a reader coming; `RemovedStaysRemoved`; `TransitionsAreWritten` |
| `search_core` | fourteen recorders, three recordings, one edge, a day of three units and the eve of it | `RowsLeadToTheirMoment` and `NothingSeenIsDropped` of the answer stored, and `PanelAgreesWithSearch` of what is composed of it, then or later |
| `relevance_core` | three sensors on two cameras, four transitions in nine moments, four bins, windows that begin and end anywhere, long past ones included | `WindowAgreesWithHistory`, `OnlyTheTailIsMarked`, `RatesAreConserved` |
| `routes_core` | a recorder, a hub and a camera both may have as a channel, two requests of any sort, one change | `EachCameraIsOfferedOnce`, `SeekOnceUnlessRemeasured`, `FilesAreFiles` |
| `lifecycle_core` | two recorders, two set-ups, an edit, a change at home | `OnlyFailuresLeak`, `LoadedIsCurrent` |

The one run that must find a violation, `lifecycle_removed`, checks `RemovedLeavesNothing`. It is the last row of the following table.

### Known divergences

Where the code is at odds with what it says of itself; `findings` in PROJECT.json quotes both sides.
Each can be seen with `tlc -config <configuration> <module>`:

| Configuration, module | Property | What happens |
| --- | --- | --- |
| `CloudSync_quota.cfg`, `MCCloudSync` | `QuotaHolds` | two clips pass their check of the quota before either is counted |
| `CloudSync_wakeup.cfg`, `MCCloudSync` | `QueuedIsTaken` | a wake-up sent while the worker awaits the slots is cleared on a stale count, and the queue waits with nothing in flight |
| `CloudSync_resume.cfg`, `MCCloudSync` | `ResumesWhereItLeftOff` | a reload loads the index before the stopped syncer's delayed save is written |
| `CloudSync_persist.cfg`, `MCCloudSync` | `StoppingLosesNothing` | what is queued when the syncer stops is not in what it saves |
| `VodCache_one.cfg`, `MCVodCache` | `OneFetchPerDay` | the callback of an ended fetch retires its successor, and a third request searches again |
| `VodCache_midnight.cfg`, `MCVodCache` | `FreshMeansComplete` | a listing made before midnight is trusted for a week after it |
| `VodCache_source.cfg`, `MCVodCache` | `SourceIsRemembered` | days searched at once settle on different devices, one after the other |
| `PlaybackRoutes_seek.cfg`, `MCPlaybackRoutes` | `SeekAppliedOnce` | another request measures between a conversion's URL and its seek: both seek, or nobody |
| `Relevance_lost.cfg`, `MCRelevance` | `EveryDetectionCounts` | the `on` that cuts an overlong run is consumed by the cut and opens no event |
| `Journal_said.cfg`, `MCJournal` | `StampsKeepWhatWasSaid` | stamping rewrites a snapshot taken live with "unknown" |
| (none) | `Journal!MarkedMeansImported` | the import is marked done though reading the history failed |
| `Restream_swept.cfg`, `MCRestream` | `SweepFindsNothing` | a client goes away while its request stops another session: the directory waits for the sweep of a later set-up |
| `Restream_pulling.cfg`, `MCRestream` | `NoneIsLeftPulling` | a client goes away after its ffmpeg took the slot and before there is video: the ffmpeg is killed by the next claim or an unload only |
| `RecorderSearch_remeasured.cfg`, `MCRecorderSearch` | `JudgementIsKept` | a stored day from which nothing was dropped is measured anew, by the clock of the moment it is composed |
| `Lifecycle_removed.cfg`, `MCLifecycle` | `RemovedLeavesNothing` | the delayed save of the cache lands after the removal deleted its file |

Also noticed, and in the models, but contradicting nothing the code says of itself unless a line is quoted:

- Detection windows and cache. A sweep forgets an armed one-shot timer without cancelling it
  (`cloud/engine.py` 469, `stray` in `SyncWindows`), so it can fire after the syncer has stopped,
  where it does nothing. A window whose sensor is no longer among those watched is dropped as it is
  handed over (`cloud/engine.py` 488), and nothing is said of it: `DetectionsCovered` counts it as handed over. A panel is told `updating: false` of the days its own subscription makes the
  cache search (`api/browse.py` 176 and 229), because the snapshot is composed first. The recorder's
  answer for a paired camera waits for the camera's (`cache.py` 493), as `gather` does.
- Adaptive playback. A conversion claims the slot after its ffmpeg has started, so one that was
  started before an unload and claims after it runs on: `Restream!UnloadStopsConversions` states what
  `__init__.py` 346 promises, and does not hold. `sessions.py` 318-320 says that a reload does not
  stop a session that is playing, which `__init__.py` 348 does. A playlist can be read after its
  session was evicted, and the request then fails. A probe of `-encoders` that takes too long leaves
  its process behind.
- Syncer. Tasks that plan an eviction at once each make room for themselves, from an index in which the
  others' plans are not yet carried out; the overshoot is bounded, that no more than needed is
  evicted is not stated. A destination retries a call inside itself (`cloud/destinations/base.py` 53): the
  models see one call.
- Journal. `async_purge` has no caller, so the journal is never shortened.
- Recorder search. A recorder without PlaybackTime whose recording is cut by midnight has the part
  that lies in the day taken for the whole recording.
- Playback routes. A remembered route has no fallback: a conversion or the panel goes on using one
  that has stopped answering until a reload or a pass-through view measures it again, whatever
  `playback_route.py` 194-196 says of its order. `download` measured while a recorder was busy is
  kept like any other answer. `recording_status` asks the device that is said to hold the file, and
  of a pair the other may hold it (`api/playback.py` 427).
- Set-up and forms. An attempt that fails leaves its syncers and its journal at work
  (`OnlyFailuresLeak` excepts exactly that); once the panel was registered every later attempt raises.
  An edit saved while an entry is being set up is not noticed, since the update listener is registered last (`missed`).
  A form copies the options on its first page and saves them on its last: what another form saved in
  between is overwritten. The signals page is keyed by the recorders' names, so the signals of a recorder that has become
  unavailable or was renamed, or that shares its name with another, are dropped. The store of a syncer's index is not deleted with the entry.
- A clock that is set back (`cloud/engine.py` 414: windows are dated with naive local time) makes
  quiet and overdue windows wait an hour longer than they should, and lets a clip begin before the
  end of its predecessor. The clock of `SyncWindows` only goes forward.

### Bounds

Every bound is a CONSTANT whose name begins with `Max`, `Eve`, how long before the day the world of `RecorderSearch` begins, and
`MaySearchAgain` (below). `MaxAttempts` and `MaxLooks`
are the code's own limits, made small. They are large enough for what they are for:

- `windows_one` has time for a clip, a settle and the start of the next window on the same camera;
  `windows_timers` for a window that reaches its maximum, the sweep after it, and another.
- `sync_core` has one clip more than slots, so that the worker must decline, and a quota that holds
  one of the larger clips, so that every second upload evicts; two attempts let each failure be
  retried and be final. `sync_restart` has three lives, so that a replaced syncer's save can land
  over its successor's.
- `cache_core` allows two fetches of a day, so that a fetch and its replacement overlap in every
  phase; two moments, so that records go stale. `cache_one` needs three.
- `restream_core` has two conversions that compete for the slot, two readers of one playlist, so that
  they fail together, and a hardware encoder whose probe and whose use may fail, with libx264 behind it.
  `Restream_two.cfg` has a second hardware encoder, so that their order matters; it holds as well
  (397,358 states) and is kept out of the runs for its time.
- `journal_core` has a buffer that is full at two rows, so that a flush by the timer and a flush by
  fullness both happen, two chunks to import, and a second life after a stop, a crash or a removal.
- `search_core` chooses one of fourteen recorders: each convention of PlaybackTime, each side of UTC,
  by more than a recording and by less, cut or whole recordings, and the ways a day can meet a change
  of the clock, one of them on a recorder that does not cut and one on a recorder that is at UTC but in
  summer. Three recordings let one run into the day and two begin in it, which is when the vote on PlaybackTime's zone can tie and
  when it cannot; the day is short enough that the clock passes its end with an answer stored. One answer is stored and
  kept (`MaySearchAgain` is FALSE; the theorems are for either): nothing depends on an answer, so a search that
  replaces one stores what it would have stored had it been the first, and the same states are reached.
- `relevance_core` lets windows begin and end anywhere in a journal of four transitions, the past included and one unit of what is to come, with a lead-in that
  covers the longest lag; the model is learned on one of the nights and then goes stale. One window is
  asked for between two changes: asking changes nothing.
- `routes_core` gives the recorder a route that seeks and one that does not, and the hub only the
  latter; two requests are enough for one to remeasure under the other. Reloads and changes at home
  share a bound of one.
- `lifecycle_core` has a second attempt, so that what the first left is seen; an edit may be saved at
  any step of either. Nothing in it depends on a third.
- `windows_timers` hides the clips already handed over and the history variable from the fingerprint
  (`VIEW Watching`): no action reads them, and a clip that is new cannot be in `queue` yet, since the
  windows of a camera do not overlap.

Deadlock is not checked where the system may stop: a stopped syncer, a day with no more detections, a
cache nobody asks anything of, conversions that have all ended, a removed entry, and a world whose
clock or journal has reached its bound (`search_core`, `relevance_core`). It is checked in
`routes_core`, where a request can always be made.

### Fairness

`CloudSync!Fairness` and `VodCache!Fairness` assume that the event loop runs what is ready, that a
call to a device or a service returns or raises (all of them have timeouts), and that `asyncio.Lock`
and `asyncio.Semaphore` serve their waiters in turn, which is strong fairness of taking the lock. They
do not assume that windows finish, that anybody subscribes, or that anything is stopped or restarted.

`Restream!Fairness` assumes that a request's own task goes on for as long as its client stays (its calls
have timeouts or end with the recording; a client that goes away makes it end, by `Disconnect`, which is
never required), that the encoders' lock serves its waiters in turn (`SF` of choosing), that a
watchdog gets to its limit and that a playlist's reader is answered; it does not assume that ffmpeg
ends by itself, that a client asks or stays, that the entry is unloaded, or that a later set-up sweeps. `Journal!FairSpec` assumes that a
timer fires, that the executor's write ends, and that the lock serves flush, catch-up and close in
turn; it does not assume that anything happens at home, that the recorder answers, or that the entry
is ever stopped.

## 4. What is proved

From the assumptions on the constants (`WindowsAssumption`, `SyncAssumption`, `VodAssumption`,
`RegistryAssumption`, `OwnEntryAssumption`, `RoutesAssumption`, `LifecycleAssumption`, `TimesAssumption`: finite
sets, positive limits, sentinel values outside the sets they extend; `RecordersAssumption`, below) and nothing else:

| Theorem | States |
| --- | --- |
| `SyncWindowsProofs!WindowsTypeOK` | `Spec => []TypeOK` |
| `SyncWindowsProofs!DetectionsAreAlwaysCovered` | `Spec => []DetectionsCovered` |
| `SyncWindowsProofs!AlwaysOneVisitOneClip` | `Spec => []OneVisitOneClip` |
| `SyncWindowsProofs!QuietAlwaysHasTimer` | `Spec => []QuietHasTimer` |
| `SyncWindowsProofs!WindowsAreAlwaysBounded` | `Spec => []WindowsAreBounded` |
| `SyncWindowsProofs!AlwaysGathersOnlyWhenAsked` | `Spec => []GathersOnlyWhenAsked` |
| `SyncWindowsProofs!AdmissionIsDecidedOnce` | `Spec => AdmissionDecidedOnce` |
| `CloudSyncProofs!CloudSyncTypeOK` | `Spec => []TypeOK` |
| `CloudSyncProofs!RecorderIsAskedOnce` | `Spec => []RecorderAskedOnce` |
| `CloudSyncProofs!EachJobIsInOnePlace` | `Spec => []EachJobInOnePlace` |
| `CloudSyncProofs!IndexIsOfUploads` | `Spec => []IndexWasUploaded` |
| `CloudSyncProofs!SlotsAreRespected` | `Spec => []SlotsRespected` |
| `CloudSyncProofs!SyncDelivers` | `Spec => Delivers`: the syncer implements ClipDelivery |
| `CloudSyncProofs!UploadsAreAccounted` | `Spec => [](starts = 1 => UploadedIsAccounted)` |
| `CloudSyncProofs!OvershootBounded` | `Jobs # {}` gives `Spec => []OvershootIsBounded` |
| `CloudSyncProofs!OneSlotKeepsQuota` | with one slot, `Spec => []QuotaHolds` |
| `VodCacheProofs!VodCacheTypeOK` | `Spec => []TypeOK` |
| `VodCacheProofs!PanelsAlwaysSeeTheCache` | `Spec => []PanelsSeeTheCache` |
| `VodCacheProofs!FailureAlwaysKeepsFiles` | `Spec => FailureKeepsFiles` |
| `RestreamProofs!RestreamTypeOK` | `Spec => []TypeOK` |
| `RestreamProofs!OnlyDisconnectsEverLeak` | `Spec => []OnlyDisconnectsLeak` |
| `RestreamProofs!BlameIsAlwaysDeserved` | `Spec => BlameIsDeserved` |
| `RelevanceProofs!JournalTypeOK` | `Spec => []TypeOK` |
| `RelevanceProofs!NothingEverSlipsAway` | `Spec => []NothingSlipsAway` |
| `RelevanceProofs!BufferIsAlwaysAttended` | `Spec => []BufferIsAttended` |
| `RelevanceProofs!RemovedAlwaysStaysRemoved` | `Spec => []RemovedStaysRemoved` |
| `RelevanceProofs!RatesAreAlwaysConserved` | `AnalysisSpec => []RatesAreConserved` |
| `RelevanceProofs!WindowsAlwaysAgree` | `AnalysisSpec => []WindowAgreesWithHistory` |
| `RelevanceProofs!OnlyTheTailIsEverMarked` | `AnalysisSpec => []OnlyTheTailIsMarked` |
| `RecorderSearchProofs!RowsAlwaysLeadBack` | `Spec => []RowsLeadToTheirMoment` |
| `RecorderSearchProofs!TwoRecordingsAlwaysTell` | `Spec => []TwoRecordingsTell`: two recordings that began in the day settle the zone |
| `RecorderSearchProofs!NothingSeenIsEverDropped` | `Spec => []NothingSeenIsDropped` |
| `RecorderSearchProofs!PanelAlwaysAgrees` | `Spec => []PanelAgreesWithSearch` |
| `PlaybackRoutesProofs!RoutesTypeOK` | `Spec => []TypeOK` |
| `PlaybackRoutesProofs!EachCameraIsAlwaysOfferedOnce` | `Spec => []EachCameraIsOfferedOnce` |
| `PlaybackRoutesProofs!AlwaysSeekOnceUnlessRemeasured` | `Spec => []SeekOnceUnlessRemeasured` |
| `PlaybackRoutesProofs!FilesAreAlwaysFiles` | `Spec => []FilesAreFiles` |
| `LifecycleProofs!LifecycleTypeOK` | `Spec => []TypeOK` |
| `LifecycleProofs!OnlyFailuresEverLeak` | `Spec => []OnlyFailuresLeak` |
| `LifecycleProofs!LoadedIsAlwaysCurrent` | `Spec => []LoadedIsCurrent` |

The argument for `SyncWindows`. The clips only stay apart because, while the syncer runs, each of them
already lies a settle in the past (`ClipsArePast`): so a window may open at any moment. That a quiet
window is collected in time (`QuietIsRecent`) and that its timer is armed (`QuietHasTimer`) need one
another across the clock's steps; that the timer is the earliest of the dues rests on
`ScheduleIsTimely`, and that on the natural numbers being well founded. The maximum holds because the
next sweep is never further than a period past it (`SweepIsSoon`), which a sweep re-establishes for
what it leaves open. The rest of `IInv` is that stopping closes every window (`StoppedIsClosed`) and
that windows and clips are not reversed (`WindowsOrdered`, `ClipsOrdered`). Everything a hand-over
must keep is proved once (`HandOverKeeps...`), for a tick and for the flush of a stop alike. The
assumptions allow a padding of zero and a settle longer than the maximum; neither needs an exception.

The argument for `CloudSync`. None of the invariants is inductive alone. That the recorder is asked
once needs that whoever asks holds the lock (`LockIsHeld`). That a job is in one place needs that the
queue lists exactly the queued jobs, once each (`QueueLists`), that a job being handled has a task for
its present attempt (`TasksRun`), and that a job not yet given up has attempts left (`AttemptsLeft`,
without which a requeue and a stale task could be confused). That a stop leaves nothing in hand is
`DownIsIdle`. `IInv` is their conjunction with `TypeOK`; one lemma per group of actions shows that it
is kept, over lemmas about what moving one job does (`GoesMoves`, `FailsMoves`, `LockFollows`,
`IndexFollows`). That the slots are respected rests on the worker's stale count never being too low
(`SlotsInv`): only the worker itself starts a task. The refinement uses `IInv` and one lemma per action: it is a step of `ClipDelivery`
or leaves its variables alone.

What was uploaded is accounted for in one life of the syncer (`starts = 1`: over a restart it is not,
which is the finding `ResumesWhereItLeftOff`). `AccountInv` adds what each task still has to evict: a
plan is of uploaded clips only (`PlansAreOfUploads`), so nothing uploads one of them anew, and what was just deleted, the
plan's oldest clip, is gone from the destination when the index forgets it (that a finite plan has
an oldest is `OldestIsOne`). The overshoot is about sums: `OvershootInv` says of every copy of the index, in memory, on disk and in
saves still to come, that it is within the limit, and of the one in memory that it is so together
with what is being uploaded; a clip passes its check beside at most the other slots' clips
(`OthersUploading`, from `SlotsInv`), each of which is at most the largest. Since what breaks the quota is
those others, one slot keeps it (`OneSlotKeepsQuota`): the finding `QuotaHolds` takes two. Sums over a finite set are
recursive in the library; that the recursion exists, that it does not depend on the order, and that
it grows with the set is proved by induction over the subsets of a set, from the library's theorem
that the strict subsets of a finite set are well founded (`SubsetInduction`).

The argument for `VodCache`. What a panel sees is inductive together with `RegisteredIsInFlight`:
what is registered for a key has its last step still before it, so a snapshot that says "updating" is
followed by a landing that tells the panel otherwise. The done-callback may retire a later fetch than
its own, and the invariant survives it because it never asks that what runs be registered, only the
converse. `FailureKeepsFiles` follows from `LandedRecord`, the lemma about what a landing makes of the
record it finds.

The argument for `Restream`. The slot is taken and the ffmpeg of whoever had it killed with no `await`
between; so an ffmpeg that runs has the slot or is about to take it (`RunningHasSlot`), and a directory has
the slot or somebody in the middle of removing it (`DirectoryHasOwner`). Who has the slot is attended
to unless its client went away before the video (`HolderIsAttended`), and only sessions, whose start is not
cancelled, have directories (`DirectoriesOfSessions`): `OnlyDisconnectsLeak` follows. Lemmas say what releasing,
removing a directory, claiming and a client's going away leave of it. `BlameIsDeserved` rests on who can have the slot
(`SlotIsAlive`): a stream whose ffmpeg was started, that nobody has killed and that has not failed
before. That needs what is known of a request before it claims (`NotYetClaimed`), and that readers and
watchdogs are those of a session that took the slot (`OnlySessionsAreRead`). Any number of requests,
readers and encoders is covered.

The argument for `Journal`. Nothing slips away because the buffer is swapped as the lock is taken, and
because the connection outlives the watcher, so there is never a buffer without a connection
(`LifeFits`); that whoever holds the lock writes the batch, or writes with the batch empty, is
`LockFits`. That buffer and batch have nothing in common needs that both are of what has happened
(`Happened`). `BufferIsAttended` is not inductive: a reader who is about to flush attends to the
buffer only until he has the lock, after which what is buffered needs somebody else (`Attended`). That
a removal is final needs that the entry is unloaded with the lock free and the importer gone.

The argument for the clock tables of `Relevance`. A table is folded out of a set of events; whatever the
order, it is four sums over that set (`ClockIsTable`), by induction over its subsets, since a fold over a
set is a recursion over them (`SubsetInduction`, `FoldsAgree`). Tables of disjoint sets of events
therefore merge into the table of both. An observation gives all of the kernel away, each of its two sides
to bins of its own, because the kernel reaches less than half round the clock (`RatesAssumption`; in
`rates.py` 18 bins of 288): so the bins add up to the total, by exchanging the two sums. A bin gets
weight of exactly the observations within the kernel's reach, and `nearby` counts those, as being near
is symmetric on a circle; nothing that was seen weighs nothing, which is true of the code's real numbers
and assumed of the model's rounded ones (`RecencyAssumption`). All of that needs that the events
are finitely many and one per place in the sequence, that is, that a run begins at a row and rows
come at distinct times (`RunsFit`, `DeriveIs`, `LogFits`).

The argument for the windows of `Relevance`. What is read of the journal is folded like all of it, but
from a later row on. Two runs under way are alike as seen from a time of quiet (`Alike`) when both had
ended by then, or both have begun since, at the same row, and have yielded the same runs since. Nothing
that is on at no sensor is still under way (`OldWhenOff`: whoever opened the run has reported since that it
is not on, and that ends it, which needs what is known of a run and its rows, `Known`), so at the
quiet the two are alike, and each further row keeps them so (`AlikeStep`): an `on` comes too late to reopen
what ended before, which is why `Settled` asks for longer than the merging window. What began after the quiet is
therefore the same (`LeadInSuffices`); what was over by then is too long ago to precede anything the window
shows, being further off than the last edge of the lags (`LongAgo`, which needs that the edges ascend,
now in `EventsAssumption`), so the labels agree too (`LabelsAgree`). A window may have ended long before it
is asked for: the rows after its end are not read, and taking away one such row after another
changes no run that was over by then, nor is it what told that it was (`OneRowLater`, `OverWithout`, and
`OverIsOver` by induction on how many there are). Rows in order make the part that is read one stretch of the journal
(`OlderIs`).

The argument for the marks of `Relevance`. A score is a number (`TotalIs`: nothing is divided by zero,
since smoothing and back-off are positive in `const.py`, as `RatesAssumption` now says) and counts what preceded the event
by its label only (`TotalByLabel`). By `WindowsAlwaysAgree` a window that reaches to now therefore scores an
event as calibrating did, so what it marks are places of the history above the threshold
(`MarkedIsTail`). At most a share of a sample is above its nearest-rank quantile (`TailIs`), whatever
the rank is rounded to (`RankIs`). A camera without a threshold is one that is not active, and has
nothing marked (`MarkedIsActive`).

The argument for `RecorderSearch`. A step either asks anew (`Fresh`) or leaves the answer, and what it was
made of, as they are (`Lasting`; `AskedOrLasting`). Recordings follow one another (`FilmsInv`) and what
the sensors said is a finite history (`EdgesInv`); so what holds of an answer when it is made
(`FreshRowsLead`, `FreshTwoTell`, `FreshCounts`, `FreshStored`) lasts, since recordings are only ever added behind those it
names (`NamedLast`, `TellsLasts`, `StoredLasts`). The rest is about one search, for any recorder,
offset, day and recordings.
- The vote on PlaybackTime's zone is right wherever the rows can tell. The earliest row of a recording begins
  where it does, or where the day does (`StartIs`). A recording that began in the day, at an offset, votes
  for the zone the recorder uses (`MeasurableVote`); a vote for the other is of a recording that runs into the
  day and began exactly an offset before it (`WrongVote`, `Misleading`). The code takes the majority, so it is right where
  the former outnumber the latter (`Tells`, `VoteIsRight`). No offset is excluded: one longer than every
  recording has nothing that misleads, and with any offset, one hour of UTC+1 included, one recording at
  most runs into the day, so that two that began in it are enough (`TwoRecordingsTell`). Where the rows cannot tell, and the two zones
  differ on the recording, the property says nothing: the code guesses, and may be wrong.
  `RecordersAssumption` is what `vod.py` 262-264 says of the library: a recorder that states no time
  has nothing cut.
- A stored answer composed later: the clock has only gone forward, and the rows add up to what they did.
  So the share of the day they fill can only have fallen (`JudgedAgain`), which is why the panel may forget
  that a day was continuous, and never invents it; what was dropped settles it for good.
- A row shares time with its own recording only (`OverlapsOwn`), since from and to a wall clock that is
  not doubtful the recorder's clock only goes forward (`WallAdvances`, `WallAdvanced`, `WallStaysAhead`);
  so its twin in the other resolution is the same recording, whatever was filmed since the search (`TwinIsOwn`). The proof showed what the model had not
  been made to try: a recorder that does not cut, in the night its clock is set back, can name a recording
  that ends before it begins, which overlaps nothing and has no twin. `PanelAgreesWithSearch` excepts it,
  and the recorder is now among those of `search_core`.
- The rows of a search meet neither on the wall nor as instants (`RowsApart`, `MultiplesApart`,
  `InstantsOrdered`), so their counts add up to the detections in any of them (`CountsAddUp`, by
  induction over the subsets of the files); and what is dropped has counted nothing.

The argument for `PlaybackRoutes`. What is offered follows from the look-ups alone (`HomeIsInOrder`), for
any home: the one thing that takes an argument is that the first of several recorders that have a camera
disabled exists, by the order of the entries and of the channels. It needs `OwnEntryAssumption`, that a camera's own entry is
one camera: the code compares its first channel only with what is on the recorders. That somebody
seeks once rests on `BuildsWell`: from settling on a route to reading the seek, a conversion finds
its route still remembered or was overtaken; on `MeasuresWell` and `HubsAreKnown`: nothing but a
stream is ever asked of a hub, so a hub's route is never remembered; and on `FilesAreProved`. The order in which
routes are tried matters only in that it offers none that is not allowed (`RouteOrderIsAllowed`).

The argument for `Lifecycle`. Each step of a set-up and of an unload hands something on to the next,
so the invariant says of each step what the earlier ones have done: `StepFits`, `SetupHasDone`,
`UnloadStops` (an unload closes the journal before it stops the syncers, and those before the cache)
and `FutureIsIdle` (an attempt that has not begun has nothing at work, without which a new attempt
could inherit something). That what is loaded is what is saved needs that nobody listens before the last
step (`ListensWhenLoaded`), so that an edit during the set-up is recorded as missed, and that up to it
the syncers started, skipped and still to do are together those configured (`SetupIsCurrent`). Any
number of recorders, attempts and edits is covered.

Only model-checked: the liveness properties `TaskEnds`, `UpdatingEnds`, `EverythingEnds` and
`TransitionsAreWritten`, since liveness under fairness is beyond the proof system. Every safety property of
a passing run is stated by one of the theorems; `UploadedIsAccounted` for the syncer's first life, as its
survival of a restart is what `ResumesWhereItLeftOff` refutes.

## 5. What is not modelled

- Formatting, naming, translation, logging, HTTP dialects and ffmpeg command lines (`restream/runner.py`
  `build_args`, `cloud/destinations/`, `cloud/naming.py`, `fragments.py`): data, or calls that succeed or raise.
- Logarithms and the sun's position (`relevance/score.py`, `rates.py`): floating point. The syncer sees a
  clip that is not ordinary as wanted or not, either way.
- Clocks that step, but for the recorder's own in `RecorderSearch`.
- Calendars: in the cache they take the same path as days (`cache.py` 546-592) with a month for a
  key; their search on the recorder is a simpler one than a day's. Pruning of the cache, and what a
  reload restores of it.
- In the search, what Home Assistant's history itself does not return (`NothingSeenIsDropped` is of what it
  did); recordings that begin before their first detection (pre-roll) and the joining of fragments.
- In the journal, migrations of the schema, its checkpoint on closing, and reading coverage.
- In adaptive playback, Home Assistant dying under a running ffmpeg: that process is the operating
  system's then. What it leaves on disk is swept like what a deserted session leaves.
- In the forms, fields, validation and the OAuth dance; backups (`backup.py` only waits) and the
  check of compatibility at set-up.
- Capacity's arithmetic in megabytes: the models grant any number of slots that it may grant.
- The panel's JavaScript. Its store, which re-subscribes with a generation number, would be worth a
  model against `VodCache`; the rendering would not.
- Entities (`switch.py`, `sensor.py`), which publish what the syncers hold, and the helpers, which keep no state.
- `scripts/`, a preview of the panel for developers, and the tests.

## 6. Plan

The first modules, and then the order of what it would cost to be wrong, led here: windows, syncer and
cache with their proofs; adaptive playback; the journal; the search; the model of relevance; routes and registry;
set-up and forms with their proof. What is left:

1. Proofs: what survives a restart of the syncer of `UploadedIsAccounted`.
2. Abstract specifications for the journal (a table with a loss) and the slot (one conversion or none), and the refinements.
3. `PanelStore`: the panel's subscriptions and generations against `VodCache`, and what it shows as updating.
4. Capacity's arithmetic and the joining of fragments against reference definitions over bounded inputs.
