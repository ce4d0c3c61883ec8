---------------------------- MODULE SyncWindows ----------------------------
(***************************************************************************)
(* Detections in, clips out: the part of one cloud syncer that runs before  *)
(* anything is fetched.  `WindowCollector` (cloud/windows.py) gathers the   *)
(* edges of a camera's detection sensors into one window per camera;        *)
(* `NvrSyncer` (cloud/engine.py) feeds it from Home Assistant's state       *)
(* changes, decides admission from the switch, and looks again whenever its *)
(* one-shot timer or its periodic sweep fires.                              *)
(*                                                                          *)
(* Everything here runs on one event loop and no handler awaits, so every   *)
(* handler is one action.  Time is an integer clock; a timer never fires    *)
(* early and the clock does not pass an armed timer (the unit is much       *)
(* coarser than the loop's latency).                                        *)
(***************************************************************************)
EXTENDS Integers, FiniteSets

CONSTANTS
    Cameras,      \* the cameras of this syncer's recorder (the window keys)
    Sensors,      \* their detection sensors, as Home Assistant entities
    CameraOf,     \* CameraOf[s]: the camera a sensor belongs to
    Kinds, KindOf, \* KindOf[s]: what a sensor detects
    Resolutions,  \* the sensor sets a re-resolution can find ({}: recorder not ok)
    Unusual,      \* the "upload unusual events" rule is on for this recorder
    Lead, Tail,   \* the padding of a clip
    Settle,       \* how long quiet means finished
    Maximum,      \* the hard ceiling on a window
    SweepEvery,   \* the period of the sweep (TICK)
    MaxTime,      \* bound: the last moment the model considers
    NoWindow, NoTimer, NoDetection

Moments == 0..MaxTime

Window == [first: Moments, last: Moments, active: SUBSET Sensors,
           kinds: SUBSET Kinds, admitted: BOOLEAN]

ClipWindow == [camera: Cameras, start: Int, end: Int, kinds: SUBSET Kinds,
               truncated: BOOLEAN, admitted: BOOLEAN]

Detection == [camera: Cameras, kind: Kinds, at: Moments]

ASSUME WindowsAssumption ==
    /\ CameraOf \in [Sensors -> Cameras]
    /\ KindOf \in [Sensors -> Kinds]
    /\ Resolutions \subseteq SUBSET Sensors
    /\ Unusual \in BOOLEAN
    /\ Lead \in Nat /\ Tail \in Nat
    /\ Settle \in Nat \ {0} /\ Maximum \in Nat \ {0} /\ SweepEvery \in Nat \ {0}
    /\ MaxTime \in Nat
    /\ NoWindow \notin Window
    /\ NoTimer \notin Int
    /\ NoDetection \notin Detection

VARIABLES
    now,        \* the clock
    on,         \* the sensors Home Assistant currently reports "on"
    watched,    \* `_sensors`: the sensors resolved and subscribed to
    accepting,  \* the switch
    open,       \* `_open`: the window gathering on each camera, or NoWindow
    due,        \* `_due`: the moment of the timer the syncer still has a handle to
    stray,      \* the moments of armed timers the syncer has no handle to any more
    nextSweep,  \* when the interval timer next runs the sweep
    running,    \* between `async_start` and `async_stop`
    queue,      \* the finished windows that became jobs
    lost,       \* the finished windows no watched sensor could be found for
    marked      \* history: one detection the collector took on, whichever it was

vars == <<now, on, watched, accepting, open, due, stray, nextSweep, running,
          queue, lost, marked>>

TypeOK ==
    /\ now \in Moments
    /\ on \subseteq Sensors
    /\ watched \subseteq Sensors
    /\ accepting \in BOOLEAN
    /\ open \in [Cameras -> Window \cup {NoWindow}]
    /\ due \in Int \cup {NoTimer}
    /\ stray \subseteq Int
    /\ nextSweep \in Int
    /\ running \in BOOLEAN
    /\ queue \subseteq ClipWindow
    /\ lost \subseteq ClipWindow
    /\ marked \in Detection \cup {NoDetection}

Init ==
    /\ now = 0
    /\ on = {}
    /\ watched \in Resolutions
    /\ accepting \in BOOLEAN
    /\ open = [c \in Cameras |-> NoWindow]
    /\ due = NoTimer
    /\ stray = {}
    /\ nextSweep = SweepEvery
    /\ running = TRUE
    /\ queue = {}
    /\ lost = {}
    /\ marked = NoDetection

-----------------------------------------------------------------------------
(* The collector: what each of its methods makes of one camera's window.    *)

Least(a, b) == IF a <= b THEN a ELSE b
Greatest(a, b) == IF a >= b THEN a ELSE b

IsOpen(c) == open[c] # NoWindow

\* (A definition whose name ends in Slip is a plausible mistake in the one that
\* follows it; the model never uses it.  See the README.)
TakesSlip(c) == IsOpen(c) \/ accepting \/ TRUE

\* What `record_on` returns: a window is only *opened* while accepting.
Takes(c) == IsOpen(c) \/ accepting \/ Unusual

\* The moment of a later detection is not taken into account.
RecordOnStaleSlip(w, s) ==
    IF w = NoWindow
    THEN [first |-> now, last |-> now, active |-> {s}, kinds |-> {KindOf[s]},
          admitted |-> accepting]
    ELSE [w EXCEPT !.active = @ \cup {s}, !.kinds = @ \cup {KindOf[s]}]

\* The switch coming on admits what is already gathering.
RecordOnAdmitsSlip(w, s) ==
    IF w = NoWindow
    THEN [first |-> now, last |-> now, active |-> {s}, kinds |-> {KindOf[s]},
          admitted |-> accepting]
    ELSE [w EXCEPT !.last = now, !.active = @ \cup {s}, !.kinds = @ \cup {KindOf[s]},
                   !.admitted = @ \/ accepting]

\* The sensor and its kind change places.
RecordOnSwappedSlip(w, s) ==
    [first |-> now, last |-> now, active |-> {KindOf[s]}, kinds |-> {s},
     admitted |-> accepting]

\* `record_on`: the window opens with the switch as it stands, or widens.
RecordOn(w, s) ==
    LET base == IF w = NoWindow
                THEN [first |-> now, last |-> now, active |-> {}, kinds |-> {},
                      admitted |-> accepting]
                ELSE w
    IN [base EXCEPT !.first = Least(@, now),
                    !.last = Greatest(@, now),
                    !.active = @ \cup {s},
                    !.kinds = @ \cup {KindOf[s]}]

\* `record_off`: the sensor leaves and the tail begins (again).
RecordOff(w, s) ==
    IF w = NoWindow THEN w
    ELSE [w EXCEPT !.active = @ \ {s}, !.last = Greatest(@, now)]

OverdueSlip(w) == now - w.last >= Maximum
Overdue(w) == now - w.first >= Maximum
QuietSlip(w) == w.active = {} /\ now - w.first >= Settle
Quiet(w) == w.active = {} /\ now - w.last >= Settle

Clip(c, finish, truncated) ==
    [camera |-> c, start |-> open[c].first - Lead, end |-> finish + Tail,
     kinds |-> open[c].kinds, truncated |-> truncated, admitted |-> open[c].admitted]

\* The cameras whose window `collect` hands over, and the clip each becomes.
Ready == {c \in Cameras : IsOpen(c) /\ (Overdue(open[c]) \/ Quiet(open[c]))}

Collected(c) ==
    Clip(c,
         IF Overdue(open[c]) /\ open[c].active # {} THEN now ELSE open[c].last,
         Overdue(open[c]))

\* What `flush` makes of a window, whatever its state.
Flushed(c) == Clip(c, Greatest(open[c].last, now), open[c].active # {})

\* `next_due`: when a window could first become collectable.
DueOf(w) == IF w.active = {} THEN w.last + Settle ELSE w.first + Maximum

\* The latest moment instead of the earliest.
ScheduleSlip(opened) ==
    LET dues == {DueOf(opened[c]) : c \in {k \in Cameras : opened[k] # NoWindow}}
    IN IF dues = {} THEN NoTimer
       ELSE Greatest(now, CHOOSE m \in dues : \A n \in dues : m >= n)

\* `_async_schedule_collect`: the earliest of the windows `opened`, never in the past.
Schedule(opened) ==
    LET dues == {DueOf(opened[c]) : c \in {k \in Cameras : opened[k] # NoWindow}}
    IN IF dues = {} THEN NoTimer
       ELSE Greatest(now, CHOOSE m \in dues : \A n \in dues : m <= n)

\* `_enqueue`: a clip becomes a job through any watched sensor of its camera
\* (`clipOf`: the finished cameras' clips).
Known(c) == \E s \in watched : CameraOf[s] = c

Enqueue(clipOf) ==
    LET finished == DOMAIN clipOf IN
    /\ queue' = queue \cup {clipOf[c] : c \in {k \in finished : Known(k)}}
    /\ lost' = lost \cup {clipOf[c] : c \in {k \in finished : ~Known(k)}}
    /\ open' = [c \in Cameras |-> IF c \in finished THEN NoWindow ELSE open[c]]

-----------------------------------------------------------------------------
(* The syncer's handlers.  Once stopped it has unsubscribed from everything  *)
(* but the timers it lost sight of, so only those and the clock go on.       *)

Armed == IF due = NoTimer THEN {} ELSE {due}

\* A watched sensor turns on (`_async_state_changed`).
SensorOn(s) ==
    /\ running
    /\ s \notin on
    /\ on' = on \cup {s}
    /\ IF s \in watched /\ Takes(CameraOf[s])
       THEN /\ open' = [open EXCEPT ![CameraOf[s]] = RecordOn(@, s)]
            /\ \/ UNCHANGED marked
               \/ /\ marked = NoDetection
                  /\ marked' = [camera |-> CameraOf[s], kind |-> KindOf[s], at |-> now]
       ELSE UNCHANGED <<open, marked>>
    /\ UNCHANGED <<now, watched, accepting, due, stray, nextSweep, running, queue, lost>>

\* A sensor clears, or becomes unavailable: either way it stops reading "on".
SensorOff(s) ==
    /\ running
    /\ s \in on
    /\ on' = on \ {s}
    /\ IF s \in watched
       THEN /\ open' = [open EXCEPT ![CameraOf[s]] = RecordOff(@, s)]
            /\ due' = Schedule(open')
       ELSE UNCHANGED <<open, due>>
    /\ UNCHANGED <<now, watched, accepting, stray, nextSweep, running, queue, lost, marked>>

\* A sensor's state is removed altogether: the handler returns early, so a window
\* it was holding open goes on waiting for it.
SensorRemoved(s) ==
    /\ running
    /\ s \in on
    /\ on' = on \ {s}
    /\ UNCHANGED <<now, watched, accepting, open, due, stray, nextSweep, running, queue,
                   lost, marked>>

\* `_async_tick`, however it came to run; `strays` are the timers left without a handle.
Tick(strays) ==
    /\ stray' = strays
    /\ Enqueue([c \in Ready |-> Collected(c)])
    /\ due' = Schedule(open')
    /\ UNCHANGED <<now, on, watched, accepting, running, marked>>

\* The one-shot timer runs it.
DueFires ==
    /\ due # NoTimer
    /\ due <= now
    /\ Tick(stray)
    /\ UNCHANGED nextSweep

\* The periodic sweep runs it: `_due` is forgotten without being cancelled.
Sweep ==
    /\ running
    /\ nextSweep <= now
    /\ nextSweep' = now + SweepEvery
    /\ Tick(stray \cup Armed)

\* So does a timer that was forgotten.
StrayFires(m) ==
    /\ m \in stray
    /\ m <= now
    /\ Tick((stray \ {m}) \cup Armed)
    /\ UNCHANGED nextSweep

\* `_async_watch_sensors`: the watched set is replaced by whatever is found now.
Resolve(found) ==
    /\ running
    /\ watched' = found
    /\ UNCHANGED <<now, on, accepting, open, due, stray, nextSweep, running, queue, lost, marked>>

\* `async_set_accepting`.
SetAccepting ==
    /\ running
    /\ accepting' = ~accepting
    /\ UNCHANGED <<now, on, watched, open, due, stray, nextSweep, running, queue, lost, marked>>

\* `async_stop`, up to its first await: unsubscribe, cancel the timer, flush.
Stop ==
    /\ running
    /\ running' = FALSE
    /\ due' = NoTimer
    /\ Enqueue([c \in {k \in Cameras : IsOpen(k)} |-> Flushed(c)])
    /\ UNCHANGED <<now, on, watched, accepting, stray, nextSweep, marked>>

\* The clock, which does not pass a timer that is armed.
Advance ==
    /\ now < MaxTime
    /\ \A m \in stray \cup Armed : now < m
    /\ running => now < nextSweep
    /\ now' = now + 1
    /\ UNCHANGED <<on, watched, accepting, open, due, stray, nextSweep, running, queue, lost, marked>>

Next ==
    \/ \E s \in Sensors : SensorOn(s) \/ SensorOff(s) \/ SensorRemoved(s)
    \/ DueFires
    \/ Sweep
    \/ \E m \in stray : StrayFires(m)
    \/ \E found \in Resolutions : Resolve(found)
    \/ SetAccepting
    \/ Stop
    \/ Advance

Spec == Init /\ [][Next]_vars

-----------------------------------------------------------------------------
(* Properties.                                                              *)

Clips == queue \cup lost

\* Every detection the collector took on is inside the window still gathering
\* on its camera, or inside a clip that was handed over, and its kind is listed
\* there: no interleaving of edges, timers, the switch and a shutdown leaves a
\* gap in the footage asked for (windows.py: `record_on`, `collect`, `flush`).
Gathering(d) ==
    /\ IsOpen(d.camera)
    /\ open[d.camera].first <= d.at /\ d.at <= open[d.camera].last
    /\ d.kind \in open[d.camera].kinds

Holds(k, d) ==
    /\ k.camera = d.camera
    /\ k.start + Lead <= d.at /\ d.at <= k.end - Tail
    /\ d.kind \in k.kinds

DetectionsCovered ==
    marked # NoDetection => Gathering(marked) \/ \E k \in Clips : Holds(k, marked)

\* One visit is one clip: what follows a clip on the same camera begins no
\* sooner than it ended, and a full settle later unless the clip was cut short.
Separated(k, first) ==
    k.end - Tail + (IF k.truncated THEN 0 ELSE Settle) <= first

OneVisitOneClip ==
    \A k \in Clips :
        /\ \A l \in Clips :
               (k.camera = l.camera /\ k.start < l.start) => Separated(k, l.start + Lead)
        /\ IsOpen(k.camera) => Separated(k, open[k.camera].first)

\* The timer never oversleeps: while anything on a camera has gone quiet, a
\* timer the syncer still holds is set no later than the moment it settles
\* (engine.py: `_async_schedule_collect` "always set to the earliest").
QuietHasTimer ==
    running => \A c \in Cameras :
        (IsOpen(c) /\ open[c].active = {}) =>
            due # NoTimer /\ due <= open[c].last + Settle

\* So a quiet window is never kept past its settle, and no window, however
\* stuck its sensors, outlives the maximum by more than one sweep.
WindowsAreBounded ==
    \A c \in Cameras : IsOpen(c) =>
        /\ now - open[c].first <= Maximum + SweepEvery
        /\ open[c].active = {} => now - open[c].last <= Settle

\* Admission is decided as the window opens, from the switch as it stands, and
\* never revisited: not while it gathers, and not when it becomes a clip.
AdmissionDecidedOnce ==
    [][/\ \A c \in Cameras :
              (open'[c] # NoWindow) =>
                  (open'[c].admitted = IF IsOpen(c) THEN open[c].admitted ELSE accepting)
       /\ \A k \in (queue' \cup lost') \ Clips :
              IsOpen(k.camera) /\ k.admitted = open[k.camera].admitted]_vars

\* A recorder without the unusual rule gathers nothing while the switch is off.
GathersOnlyWhenAsked ==
    ~Unusual => /\ \A c \in Cameras : IsOpen(c) => open[c].admitted
                /\ \A k \in Clips : k.admitted
=============================================================================
