------------------------------ MODULE Restream ------------------------------
(***************************************************************************)
(* Adaptive playback (restream/): recordings converted by an ffmpeg each,    *)
(* for a browser that cannot play what the recorder sends.  One slot for the *)
(* whole integration (`RestreamManager`, sessions.py); two ways to be served *)
(* (views.py): `mp4`, one request that lives as long as its conversion, and  *)
(* `hls`, a session with a directory, a watchdog and a request per file; and *)
(* one choice of encoder, probed once and remembered (encoders.py).          *)
(*                                                                          *)
(* A stretch of code between two awaits is one action.  The slot's lock is   *)
(* never held across an await, so taking the slot and killing the ffmpeg of  *)
(* whoever had it are one step; waiting for it and removing its directory    *)
(* are later ones, by the task that stopped it.                              *)
(***************************************************************************)
EXTENDS Naturals, Sequences, FiniteSets, Diagnosis

CONSTANTS
    Streams,      \* the conversions asked for, each by one request
    Hls,          \* those served as an HLS session; the others as fragmented MP4
    Encode,       \* those that re-encode; the others only repackage
    Viewers,      \* the concurrent requests for a session's playlist
    Hardware,     \* the hardware encoders, in the order they are tried
    Software,     \* libx264
    Watchdog,     \* a session's own task that stops it
    Unloader,     \* the task that unloads the integration
    NoStream, NoEncoder

HardwareSet == {Hardware[i] : i \in DOMAIN Hardware}
Encoders == HardwareSet \cup {Software}

\* The tasks that can be in the middle of stopping a stream.
Tasks == Streams \cup Viewers \cup {Watchdog, Unloader}

ASSUME RestreamAssumption ==
    /\ IsFiniteSet(Streams)
    /\ Hls \subseteq Streams /\ Encode \subseteq Streams
    /\ Hardware \in Seq(HardwareSet)
    /\ Software \notin HardwareSet
    /\ NoEncoder \notin Encoders
    /\ NoStream \notin Streams
    /\ Streams \cap Viewers = {}
    /\ Watchdog \notin Streams \cup Viewers
    /\ Unloader \notin Streams \cup Viewers \cup {Watchdog}

VARIABLES
    step,      \* step[s]: where the request of s is
    proc,      \* proc[s]: its ffmpeg
    with,      \* with[s]: the encoder it was given
    dir,       \* dir[s]: its directory exists
    watched,   \* watched[s]: its watchdog is alive
    stoppers,  \* stoppers[s]: the tasks in the middle of stopping it
    polls,     \* polls[s][v]: where a request for its playlist is
    current,   \* `_current`: who has the slot
    encoder,   \* `manager.encoder`
    failed,    \* `failed_encoders`
    prober,    \* who holds `encoder_lock`
    trying,    \* the encoder the prober is testing
    left,      \* those it has still to consider
    noted,     \* noted[s]: whom the recorded failure of s blames
    unload,    \* "none", "stopping" or "done"
    deserted   \* the streams that a task was stopping when its client went away

probe == <<prober, trying, left>>
vars == <<step, proc, with, dir, watched, stoppers, polls, current, encoder, failed,
          prober, trying, left, noted, unload, deserted>>

Steps == {"new", "choosing", "probing", "spawning", "spawned", "claiming", "starting",
          "diagnosing", "streaming", "serving", "releasing", "gone", "abandoned"}

\* Whom a diagnosis blames: ffmpeg gone, the encoder by name, or something else.
Blames == {"stopped_early", "encoder_unavailable", "other"}
BlameOf(code) == IF code \in Blames THEN code ELSE "other"

TypeOK ==
    /\ step \in [Streams -> Steps]
    /\ proc \in [Streams -> {"none", "running", "exited", "killed"}]
    /\ with \in [Streams -> Encoders \cup {NoEncoder}]
    /\ dir \in [Streams -> BOOLEAN]
    /\ watched \in [Streams -> BOOLEAN]
    /\ stoppers \in [Streams -> SUBSET Tasks]
    /\ polls \in [Streams -> [Viewers -> {"none", "waiting", "reading", "diagnosing", "releasing"}]]
    /\ current \in Streams \cup {NoStream}
    /\ encoder \in Encoders \cup {NoEncoder}
    /\ failed \subseteq HardwareSet
    /\ prober \in Streams \cup {NoStream}
    /\ trying \in HardwareSet \cup {NoEncoder}
    /\ left \subseteq HardwareSet
    /\ noted \in [Streams -> Blames \cup {NoFault}]
    /\ unload \in {"none", "stopping", "done"}
    /\ deserted \subseteq Streams

Init ==
    /\ step = [s \in Streams |-> "new"]
    /\ proc = [s \in Streams |-> "none"]
    /\ with = [s \in Streams |-> NoEncoder]
    /\ dir = [s \in Streams |-> FALSE]
    /\ watched = [s \in Streams |-> FALSE]
    /\ stoppers = [s \in Streams |-> {}]
    /\ polls = [s \in Streams |-> [v \in Viewers |-> "none"]]
    /\ current = NoStream
    /\ encoder = NoEncoder
    /\ failed = {}
    /\ prober = NoStream /\ trying = NoEncoder /\ left = {}
    /\ noted = [s \in Streams |-> NoFault]
    /\ unload = "none"
    /\ deserted = {}

-----------------------------------------------------------------------------
(* Stopping a stream (`async_stop`).                                        *)

\* Up to its first await: the watchdog is cancelled, unless this is it, and ffmpeg
\* is killed if it still runs.  What is left to `task` is waiting for ffmpeg and
\* removing the directory.
Stop(s, task) ==
    /\ proc' = [proc EXCEPT ![s] = IF @ = "running" THEN "killed" ELSE @]
    /\ stoppers' = [stoppers EXCEPT ![s] = (IF task = Watchdog THEN @ ELSE @ \ {Watchdog})
                                               \cup {task}]
    /\ watched' = [watched EXCEPT ![s] = @ /\ task = Watchdog]

\* `async_release`.
Release(s, task) ==
    /\ current' = IF current = s THEN NoStream ELSE current
    /\ Stop(s, task)

\* The task returns from `async_stop`.
Cleaned(s, task) ==
    /\ task \in stoppers[s]
    /\ dir' = [dir EXCEPT ![s] = FALSE]
    /\ stoppers' = [stoppers EXCEPT ![s] = @ \ {task}]

-----------------------------------------------------------------------------
(* Starting one (runner.py, and the first half of the MP4 view).            *)

\* Where a request goes on once the recording's source is known: only a re-encode has
\* an encoder to choose.
Opened(s) ==
    /\ step' = [step EXCEPT ![s] = IF s \in Encode THEN "choosing" ELSE "spawning"]
    /\ with' = [with EXCEPT ![s] = IF s \in Encode THEN NoEncoder ELSE Software]

Refused(s) == step' = [step EXCEPT ![s] = "gone"] /\ UNCHANGED with

\* The MP4 view is asked, and finds the recording's source or answers that it cannot.
RequestMp4(s) ==
    /\ step[s] = "new" /\ s \notin Hls
    /\ Opened(s) \/ Refused(s)
    /\ UNCHANGED <<proc, dir, watched, stoppers, polls, current, encoder, failed, probe, noted, unload, deserted>>

\* `async_start_hls`: the same, and a directory for the session.
RequestHls(s) ==
    /\ step[s] = "new" /\ s \in Hls
    /\ \/ Opened(s) /\ dir' = [dir EXCEPT ![s] = TRUE]
       \/ Refused(s) /\ UNCHANGED dir
    /\ UNCHANGED <<proc, watched, stoppers, polls, current, encoder, failed, probe, noted, unload, deserted>>

\* `async_choose_encoder` under its lock: what was chosen before, if anything was.
ChooseKnown(s) ==
    /\ step[s] = "choosing" /\ prober = NoStream
    /\ encoder # NoEncoder
    /\ with' = [with EXCEPT ![s] = encoder]
    /\ step' = [step EXCEPT ![s] = "spawning"]
    /\ UNCHANGED <<proc, dir, watched, stoppers, polls, current, encoder, failed, probe, noted, unload, deserted>>

\* The one of some candidates that is tried first.
IsFirst(e, candidates) ==
    \E i \in DOMAIN Hardware :
        Hardware[i] = e /\ \A j \in 1..(i - 1) : Hardware[j] \notin candidates

\* The next candidate not known to fail is put to the test; with none left it is
\* software.
Consider(s, candidates, broken) ==
    LET usable == candidates \ broken IN
    \/ \E e \in usable :
           /\ IsFirst(e, usable)
           /\ trying' = e /\ left' = usable \ {e} /\ prober' = s
           /\ step' = [step EXCEPT ![s] = "probing"]
           /\ UNCHANGED <<with, encoder>>
    \/ /\ usable = {}
       /\ trying' = NoEncoder /\ left' = {} /\ prober' = NoStream
       /\ step' = [step EXCEPT ![s] = "spawning"]
       /\ with' = [with EXCEPT ![s] = Software]
       /\ encoder' = Software

\* Nothing chosen: what ffmpeg lists, and has a device for, is tested in turn.
Probe(s) ==
    /\ step[s] = "choosing" /\ prober = NoStream
    /\ encoder = NoEncoder
    /\ \E listed \in SUBSET HardwareSet : Consider(s, listed, failed)
    /\ UNCHANGED <<proc, dir, watched, stoppers, polls, current, failed, noted, unload, deserted>>

\* A failed test ends the request, and the lock is never given back.
TestedSlip(s) ==
    /\ prober = s /\ step[s] = "probing"
    /\ \/ /\ encoder' = trying
          /\ with' = [with EXCEPT ![s] = trying]
          /\ prober' = NoStream /\ trying' = NoEncoder /\ left' = {}
          /\ step' = [step EXCEPT ![s] = "spawning"]
          /\ UNCHANGED failed
       \/ /\ failed' = failed \cup {trying}
          /\ step' = [step EXCEPT ![s] = "gone"]
          /\ UNCHANGED <<with, encoder, prober, trying, left>>
    /\ UNCHANGED <<proc, dir, watched, stoppers, polls, current, noted, unload, deserted>>

\* A test's verdict (`_async_encoder_works`); an encoder that fails it is remembered.
Tested(s) ==
    /\ prober = s /\ step[s] = "probing"
    /\ \/ /\ encoder' = trying
          /\ with' = [with EXCEPT ![s] = trying]
          /\ prober' = NoStream /\ trying' = NoEncoder /\ left' = {}
          /\ step' = [step EXCEPT ![s] = "spawning"]
          /\ UNCHANGED failed
       \/ /\ failed' = failed \cup {trying}
          /\ Consider(s, left, failed')
    /\ UNCHANGED <<proc, dir, watched, stoppers, polls, current, noted, unload, deserted>>

\* ffmpeg starts; the request hears of it later.
Spawn(s) ==
    /\ step[s] = "spawning"
    /\ proc' = [proc EXCEPT ![s] = "running"]
    /\ step' = [step EXCEPT ![s] = "spawned"]
    /\ UNCHANGED <<with, dir, watched, stoppers, polls, current, encoder, failed, probe, noted, unload, deserted>>

\* Or it does not, and what was made for it is removed before the request is refused.
SpawnFails(s) ==
    /\ step[s] = "spawning"
    /\ step' = [step EXCEPT ![s] = "releasing"]
    /\ stoppers' = [stoppers EXCEPT ![s] = @ \cup {s}]
    /\ UNCHANGED <<proc, with, dir, watched, polls, current, encoder, failed, probe, noted, unload, deserted>>

\* Where a request goes on once it has the slot.
Begun(s) == IF s \in Hls THEN "serving" ELSE "starting"

\* The slot is taken from whoever had it, and that is all.
ClaimSlip(s) ==
    /\ step[s] = "spawned"
    /\ current' = s
    /\ watched' = [watched EXCEPT ![s] = s \in Hls]
    /\ step' = [step EXCEPT ![s] = Begun(s)]
    /\ UNCHANGED <<proc, stoppers>>
    /\ UNCHANGED <<with, dir, polls, encoder, failed, probe, noted, unload, deserted>>

\* `async_claim`: whoever starts a stream gets the slot, and whoever had it loses it.
Claim(s) ==
    /\ step[s] = "spawned"
    /\ current' = s
    /\ IF current = NoStream
       THEN /\ step' = [step EXCEPT ![s] = Begun(s)]
            /\ watched' = [watched EXCEPT ![s] = s \in Hls]
            /\ UNCHANGED <<proc, stoppers>>
       ELSE /\ step' = [step EXCEPT ![s] = "claiming"]
            /\ proc' = [proc EXCEPT ![current] = IF @ = "running" THEN "killed" ELSE @]
            /\ stoppers' = [stoppers EXCEPT ![current] = (@ \ {Watchdog}) \cup {s}]
            /\ watched' = [watched EXCEPT ![current] = FALSE, ![s] = s \in Hls]
    /\ UNCHANGED <<with, dir, polls, encoder, failed, probe, noted, unload, deserted>>

\* The one it replaced is gone.
Claimed(s) ==
    /\ step[s] = "claiming"
    /\ \E t \in Streams \ {s} : Cleaned(t, s)
    /\ step' = [step EXCEPT ![s] = Begun(s)]
    /\ UNCHANGED <<proc, with, watched, polls, current, encoder, failed, probe, noted, unload, deserted>>

-----------------------------------------------------------------------------
(* When a conversion produces nothing (`note_failure`).                     *)

\* What is diagnosed of a stream: whatever ffmpeg may have said, with what is known of
\* the process and, for a session, of the header it writes first.
Diagnoses(s) ==
    {BlameOf(CodeOf(said, proc[s] # "running", opened, load)) :
        said \in FaultCodes \cup {NoFault},
        opened \in IF s \in Hls THEN {"yes", "no"} ELSE {"unknown"},
        load \in {"busy", "idle", "unknown"}}

\* Any failure disables the encoder, the software one included.
NoteSlip(s) ==
    IF current = s
    THEN \E code \in Diagnoses(s) :
             /\ noted' = [noted EXCEPT ![s] = code]
             /\ failed' = failed \cup {with[s]}
             /\ encoder' = NoEncoder
    ELSE UNCHANGED <<noted, encoder, failed>>

\* Recorded whoever has the slot.
NoteEvictedSlip(s) ==
    \E code \in Diagnoses(s) :
        /\ noted' = [noted EXCEPT ![s] = code]
        /\ UNCHANGED <<encoder, failed>>

\* An evicted stream produced nothing because it was killed, so it is not recorded;
\* a diagnosis that names its encoder costs a hardware encoder its place.
Note(s) ==
    IF current = s
    THEN \E code \in Diagnoses(s) :
             /\ noted' = [noted EXCEPT ![s] = code]
             /\ IF with[s] \in HardwareSet /\ FaultOf(code, TRUE)
                THEN failed' = failed \cup {with[s]} /\ encoder' = NoEncoder
                ELSE UNCHANGED <<encoder, failed>>
    ELSE UNCHANGED <<noted, encoder, failed>>

-----------------------------------------------------------------------------
(* The MP4 view.                                                            *)

FirstOutput(s) ==
    /\ step[s] = "starting"
    /\ step' = [step EXCEPT ![s] = "streaming"]
    /\ UNCHANGED <<proc, with, dir, watched, stoppers, polls, current, encoder, failed, probe, noted, unload, deserted>>

\* ffmpeg ended, or the time for it to say anything did.
NoOutput(s) ==
    /\ step[s] = "starting"
    /\ step' = [step EXCEPT ![s] = "diagnosing"]
    /\ UNCHANGED <<proc, with, dir, watched, stoppers, polls, current, encoder, failed, probe, noted, unload, deserted>>

Diagnosed(s) ==
    /\ step[s] = "diagnosing"
    /\ Note(s)
    /\ Release(s, s)
    /\ step' = [step EXCEPT ![s] = "releasing"]
    /\ UNCHANGED <<with, dir, polls, probe, unload, deserted>>

\* The recording ends, or the client goes away.
StreamEnds(s) ==
    /\ step[s] = "streaming"
    /\ Release(s, s)
    /\ step' = [step EXCEPT ![s] = "releasing"]
    /\ UNCHANGED <<with, dir, polls, encoder, failed, probe, noted, unload, deserted>>

Released(s) ==
    /\ step[s] = "releasing"
    /\ Cleaned(s, s)
    /\ step' = [step EXCEPT ![s] = "gone"]
    /\ UNCHANGED <<proc, with, watched, polls, current, encoder, failed, probe, noted, unload, deserted>>

-----------------------------------------------------------------------------
(* The HLS view and the session's watchdog.                                 *)

\* A request for the playlist of the session that has the slot.
Poll(s, v) ==
    /\ s \in Hls /\ current = s /\ step[s] = "serving"
    /\ polls[s][v] = "none"
    /\ polls' = [polls EXCEPT ![s][v] = "waiting"]
    /\ UNCHANGED <<step, proc, with, dir, watched, stoppers, current, encoder, failed, probe, noted, unload, deserted>>

\* Enough segments, or one from a converter that has stopped, while there are files.
PollReady(s, v) ==
    /\ polls[s][v] = "waiting"
    /\ dir[s]
    /\ polls' = [polls EXCEPT ![s][v] = "reading"]
    /\ UNCHANGED <<step, proc, with, dir, watched, stoppers, current, encoder, failed, probe, noted, unload, deserted>>

\* The playlist is read, or it has gone by now and the request fails.
PollServed(s, v) ==
    /\ polls[s][v] = "reading"
    /\ polls' = [polls EXCEPT ![s][v] = "none"]
    /\ UNCHANGED <<step, proc, with, dir, watched, stoppers, current, encoder, failed, probe, noted, unload, deserted>>

\* Too few segments when ffmpeg stopped, or when the time was up.
PollFails(s, v) ==
    /\ polls[s][v] = "waiting"
    /\ polls' = [polls EXCEPT ![s][v] = "diagnosing"]
    /\ UNCHANGED <<step, proc, with, dir, watched, stoppers, current, encoder, failed, probe, noted, unload, deserted>>

PollDiagnosed(s, v) ==
    /\ polls[s][v] = "diagnosing"
    /\ Note(s)
    /\ Release(s, v)
    /\ polls' = [polls EXCEPT ![s][v] = "releasing"]
    /\ UNCHANGED <<step, with, dir, probe, unload, deserted>>

PollReleased(s, v) ==
    /\ polls[s][v] = "releasing"
    /\ Cleaned(s, v)
    /\ polls' = [polls EXCEPT ![s][v] = "none"]
    /\ UNCHANGED <<step, proc, with, watched, current, encoder, failed, probe, noted, unload, deserted>>

\* Nobody has read for a minute, or the session has lasted an hour.
WatchdogStops(s) ==
    /\ watched[s] /\ Watchdog \notin stoppers[s]
    /\ Release(s, Watchdog)
    /\ UNCHANGED <<step, with, dir, polls, encoder, failed, probe, noted, unload, deserted>>

WatchdogDone(s) ==
    /\ Cleaned(s, Watchdog)
    /\ watched' = [watched EXCEPT ![s] = FALSE]
    /\ UNCHANGED <<step, proc, with, polls, current, encoder, failed, probe, noted, unload, deserted>>

-----------------------------------------------------------------------------
(* Clients that go away.                                                     *)

\* Home Assistant cancels a request when its client disconnects, wherever it waits.  (An
\* HLS session is started by a command of the WebSocket API, which is not cancelled.)
\* While it is starting an ffmpeg the lock and the ffmpeg are given back; once it has
\* claimed the slot, only the streaming itself is under a `finally` (StreamEnds): before
\* that it just ends, and leaves its ffmpeg in the slot and unfinished what it was stopping.
Disconnect(s) ==
    /\ s \notin Hls
    /\ \/ /\ step[s] \in {"choosing", "probing", "spawning", "spawned"}
          /\ step' = [step EXCEPT ![s] = "gone"]
          /\ proc' = [proc EXCEPT ![s] = IF @ = "running" THEN "killed" ELSE @]
          /\ IF prober = s THEN prober' = NoStream /\ trying' = NoEncoder /\ left' = {}
                           ELSE UNCHANGED probe
          /\ UNCHANGED <<stoppers, deserted>>
       \/ /\ step[s] \in {"claiming", "starting", "diagnosing", "releasing"}
          /\ step' = [step EXCEPT ![s] = IF @ = "releasing" THEN "gone" ELSE "abandoned"]
          /\ stoppers' = [t \in Streams |-> stoppers[t] \ {s}]
          /\ deserted' = deserted \cup {t \in Streams : s \in stoppers[t]}
          /\ UNCHANGED <<proc, probe>>
    /\ UNCHANGED <<with, dir, watched, polls, current, encoder, failed, noted, unload>>

\* So is a request for the playlist, which has more to undo only while it stops the session.
PollDisconnects(s, v) ==
    /\ polls[s][v] # "none"
    /\ polls' = [polls EXCEPT ![s][v] = "none"]
    /\ stoppers' = [stoppers EXCEPT ![s] = @ \ {v}]
    /\ deserted' = IF v \in stoppers[s] THEN deserted \cup {s} ELSE deserted
    /\ UNCHANGED <<step, proc, with, dir, watched, current, encoder, failed, probe, noted, unload>>

\* A later set-up removes directories too old to be of a session that still runs.
Sweep(s) ==
    /\ s \in deserted /\ stoppers[s] = {} /\ dir[s]
    /\ dir' = [dir EXCEPT ![s] = FALSE]
    /\ UNCHANGED <<step, proc, with, watched, stoppers, polls, current, encoder, failed, probe, noted,
                   unload, deserted>>

-----------------------------------------------------------------------------
(* The rest of the world.                                                   *)

\* ffmpeg ends by itself.
Exits(s) ==
    /\ proc[s] = "running"
    /\ proc' = [proc EXCEPT ![s] = "exited"]
    /\ UNCHANGED <<step, with, dir, watched, stoppers, polls, current, encoder, failed, probe, noted, unload, deserted>>

\* The manager's `async_stop`, as the integration is unloaded.
Unload ==
    /\ unload = "none"
    /\ IF current = NoStream
       THEN unload' = "done" /\ UNCHANGED <<proc, stoppers, watched, current>>
       ELSE unload' = "stopping" /\ Release(current, Unloader)
    /\ UNCHANGED <<step, with, dir, polls, encoder, failed, probe, noted, deserted>>

Unloaded ==
    /\ unload = "stopping"
    /\ \E s \in Streams : Cleaned(s, Unloader)
    /\ unload' = "done"
    /\ UNCHANGED <<step, proc, with, watched, polls, current, encoder, failed, probe, noted, deserted>>

\* What the request's own task does next, other than wait for the encoders' lock.
Handles(s) ==
    \/ Tested(s) \/ Spawn(s) \/ SpawnFails(s) \/ Claim(s) \/ Claimed(s)
    \/ FirstOutput(s) \/ NoOutput(s) \/ Diagnosed(s) \/ StreamEnds(s) \/ Released(s)

Chooses(s) == ChooseKnown(s) \/ Probe(s)

Polled(s, v) ==
    PollReady(s, v) \/ PollServed(s, v) \/ PollFails(s, v) \/ PollDiagnosed(s, v) \/ PollReleased(s, v)

Watches(s) == WatchdogStops(s) \/ WatchdogDone(s)

Next ==
    \/ \E s \in Streams :
           \/ RequestMp4(s) \/ RequestHls(s) \/ Chooses(s) \/ Handles(s) \/ Exits(s) \/ Watches(s)
           \/ Disconnect(s) \/ Sweep(s)
           \/ \E v \in Viewers : Poll(s, v) \/ Polled(s, v) \/ PollDisconnects(s, v)
    \/ Unload
    \/ Unloaded

Spec == Init /\ [][Next]_vars

\* Requests are handled and calls return (each has a timeout, or ends with the
\* recording) for as long as their clients stay; a lock serves its waiters in turn; a
\* watchdog gets to its limit.  Nothing is assumed of clients, nor of a later set-up.
Fairness ==
    /\ \A s \in Streams :
           WF_vars(Handles(s)) /\ SF_vars(Chooses(s)) /\ WF_vars(Watches(s))
    /\ \A s \in Streams, v \in Viewers : WF_vars(Polled(s, v))
    /\ WF_vars(Unloaded)

FairSpec == Spec /\ Fairness

-----------------------------------------------------------------------------
(* Properties.                                                              *)

\* Somebody will end the stream: the request that serves it, or its watchdog.
Attended(s) ==
    step[s] \in {"claiming", "starting", "diagnosing", "streaming"} \/ watched[s]

\* Every ffmpeg that runs belongs to a request that is about to take the slot, or has the
\* slot and somebody who will end it, unless its client went away before there was video.
ProcessesAreOwned ==
    \A s \in Streams : proc[s] = "running" =>
        step[s] = "spawned" \/ (current = s /\ (Attended(s) \/ step[s] = "abandoned"))

\* A directory whose session no longer has the slot is in the hands of somebody who
\* will remove it, unless it was and their client went away.
DirectoriesAreOwned ==
    \A s \in Streams : dir[s] =>
        \/ current = s /\ watched[s]
        \/ step[s] \in {"choosing", "probing", "spawning", "spawned"}
        \/ stoppers[s] # {}
        \/ s \in deserted

\* However starts, evictions, failures, watchdogs, clients that go away and an unload
\* interleave, a process or a directory is left without somebody who will end it only by
\* a client that went away between the claim and the video, or in the middle of a stop
\* (restream/sessions.py 106-123, 218-232; restream/runner.py 51-97; views.py 129-161, 225).
\* And what it left in the slot ends when somebody else claims it, or at an unload.
OnlyDisconnectsLeak == ProcessesAreOwned /\ DirectoriesAreOwned

\* A hardware encoder that loses its place had it coming: it failed its own test, or
\* a conversion that held the slot, with that encoder, died by itself or said so.
LostFairly(e) ==
    \/ trying = e
    \/ \E s \in Streams :
           /\ with[s] = e /\ current = s
           /\ noted'[s] \in {"encoder_unavailable", "stopped_early"}
           /\ noted'[s] = "stopped_early" => proc[s] = "exited"

\* What is recorded is a failure: never of a stream that was killed ("produced nothing
\* because it was killed ... must not be recorded"), no more than one of each, and a
\* slow recorder or machine never costs a working encoder ("blaming it for every
\* failure is how a slow recorder ends up permanently costing a working GPU").
BlameIsDeserved ==
    [][/\ \A s \in Streams : noted'[s] # noted[s] => proc[s] # "killed" /\ noted[s] = NoFault
       /\ \A e \in failed' \ failed : LostFairly(e)]_vars

\* Every conversion ends and leaves nothing on disk, and every request is answered,
\* those that wait for another's probe of the encoders included, whether or not the one
\* that probes stays: except what a client that went away had claimed, or was removing.
EverythingEnds ==
    \A s \in Streams :
        /\ (proc[s] = "running") ~> (proc[s] # "running" \/ step[s] = "abandoned")
        /\ dir[s] ~> (~dir[s] \/ s \in deserted)
        /\ (step[s] = "choosing") ~> (step[s] \in {"serving", "streaming", "gone", "abandoned"})

\* "Each session removes its own directory as it ends, so in a healthy installation this
\* finds nothing" (sessions.py 348), of the sweep at set-up.
SweepFindsNothing ==
    \A s \in deserted : dir[s] => stoppers[s] # {}

\* "An ffmpeg left pulling from a recorder is exactly the failure this integration was
\* built to avoid" (__init__.py 346).
NoneIsLeftPulling == \A s \in Streams : (proc[s] = "running") ~> (proc[s] # "running")

\* "Whatever adaptive playback was converting stops here": what ran when the
\* integration was unloaded does not run afterwards.
UnloadStopsConversions == [][(unload' = "done" /\ unload # "done") =>
                      \A s \in Streams : proc'[s] # "running"]_vars
=============================================================================
