-------------------------- MODULE DetectionEvents --------------------------
(***************************************************************************)
(* Raw transitions folded into the events a person would recognise           *)
(* (relevance/events.py), and what preceded each of them (rates.py).         *)
(*                                                                          *)
(* A transition is [sensor, at, on]; `on` is FALSE for everything that is    *)
(* not `on` (cleared, unavailable, unknown).  Rows are given oldest first    *)
(* and at distinct times.                                                    *)
(***************************************************************************)
EXTENDS Integers, SequencesExt, FiniteSets

CONSTANTS
    Sensors,
    CameraOf,       \* CameraOf[s], the camera it is on
    KindOf,         \* KindOf[s], what it detects
    RecorderOf,     \* RecorderOf[c], the config entry of a camera
    Scope,          \* which cameras share a pool: "together", "recorder", "camera"
    MergeWindow,    \* EVENT_MERGE_SECONDS
    LongestRun,     \* EVENT_MAX_SECONDS
    LagEdges,       \* SCORE_LAG_BUCKETS, ascending
    Open            \* no end yet, or no start

ASSUME EventsAssumption ==
    /\ MergeWindow \in Nat /\ LongestRun \in Nat \ {0}
    /\ LagEdges \in Seq(Nat) /\ LagEdges # <<>>
    /\ \A i, j \in DOMAIN LagEdges : i < j => LagEdges[i] < LagEdges[j]
    /\ Scope \in {"together", "recorder", "camera"}
    /\ Open \notin Nat

Cameras == {CameraOf[s] : s \in Sensors}
Groups == {<<CameraOf[s], KindOf[s]>> : s \in Sensors}
Everything == "*"
-----------------------------------------------------------------------------
(* One run of detection (`_runs`).                                           *)

NoRun(out) == [from |-> Open, until |-> Open, opener |-> Open, out |-> out]
Yielded(run, until) == Append(run.out, [from |-> run.from, until |-> until])

\* Quiet for longer than the window: the run before it really did finish.
Finished(run, row) ==
    IF row.on /\ run.from # Open /\ run.until # Open /\ row.at - run.until > MergeWindow
    THEN NoRun(Yielded(run, run.until)) ELSE run

\* An `on` opens a run, or reopens one for the sensor that opened it.
Opened(run, row) ==
    IF run.from = Open
    THEN [run EXCEPT !.from = row.at, !.until = Open, !.opener = row.sensor]
    ELSE IF row.sensor = run.opener THEN [run EXCEPT !.until = Open] ELSE run

\* The first clear of the sensor that opened it ends it.
Cleared(run, row) ==
    IF run.from # Open /\ run.until = Open /\ row.sensor = run.opener
    THEN [run EXCEPT !.until = row.at] ELSE run

\* A run that has lasted too long is cut at the limit, and nothing is open after it.
Cut(run, row) ==
    LET ended == IF run.until # Open THEN run.until ELSE row.at
        limit == run.from + LongestRun
    IN IF run.from # Open /\ row.at - run.from >= LongestRun
       THEN NoRun(Yielded(run, IF ended < limit THEN ended ELSE limit)) ELSE run

\* What a row does to the run under way of its own camera and kind; other rows do nothing.
Folded(g, run, row) ==
    LET before == Finished(run, row)
    IN IF <<CameraOf[row.sensor], KindOf[row.sensor]>> # g THEN run
       ELSE Cut(IF row.on THEN Opened(before, row) ELSE Cleared(before, row), row)

FoldedAll(g, rows) == FoldLeft(LAMBDA run, row : Folded(g, run, row), NoRun(<<>>), rows)

\* The runs of one camera and kind, the one under way among them.
Runs(g, rows) ==
    LET last == FoldedAll(g, rows)
    IN IF last.from = Open THEN last.out ELSE Yielded(last, last.until)

\* Events that began at distinct times, oldest first.
InOrder(events) ==
    [i \in 1..Cardinality(events) |->
        CHOOSE e \in events : Cardinality({f \in events : f.from < e.from}) = i - 1]

\* `derive`: every camera's every kind on its own, then all of them oldest first.
Derive(rows) ==
    InOrder(UNION {{[camera |-> g[1], kind |-> g[2], from |-> run.from, until |-> run.until] :
                        run \in ToSet(Runs(g, rows))} : g \in Groups})
-----------------------------------------------------------------------------
(* What preceded an event.                                                   *)

\* `group_key`.
GroupKey(camera) ==
    CASE Scope = "together" -> Everything
      [] Scope = "camera" -> camera
      [] Scope = "recorder" -> RecorderOf[camera]

\* `preceded`: the event before it in its own pool.
Previous(events, i) ==
    LET before == {j \in 1..(i - 1) : GroupKey(events[j].camera) = GroupKey(events[i].camera)}
    IN IF before = {} THEN Open ELSE events[Max(before)]

\* `gap`: from the end of the one before, or from its start while it has no end.
Gap(event, previous) ==
    LET finished == IF previous.until = Open THEN previous.from ELSE previous.until
    IN IF event.from < finished THEN 0 ELSE event.from - finished

\* `lag_bucket`: the first edge it is within, or none.
LagBucket(gap) == {i \in DOMAIN LagEdges : gap <= LagEdges[i]
                                             /\ \A j \in 1..(i - 1) : gap > LagEdges[j]}

\* `predecessor_label`.
PredecessorLabel(event, previous) ==
    IF previous = Open \/ LagBucket(Gap(event, previous)) = {} THEN <<"none">>
    ELSE <<previous.camera, LagBucket(Gap(event, previous))>>
=============================================================================
