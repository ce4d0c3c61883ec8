--------------------------- MODULE RecorderSearch ---------------------------
(***************************************************************************)
(* The search of one camera-day (vod.py) with what it leans on: the         *)
(* recorder's zone (recorder_zone.py) and the detections Home Assistant      *)
(* remembers (detections.py).                                                *)
(*                                                                          *)
(* The world is footage, sensor edges and a clock of instants; the recorder  *)
(* keeps a wall clock of its own, which is set back once when summer time     *)
(* ends, and answers a search in wall-clock times.  The library in between   *)
(* cuts long recordings into rows, copying the time the recording is found   *)
(* by.  What the code has to get back from the rows is the recording, the    *)
(* place in it, and whether anything was seen there.                          *)
(*                                                                          *)
(* A recorder is a record: `std` its offset from UTC, `summer` the wall       *)
(* clocks at which summer time begins and ends, `states` whether it answers   *)
(* with PlaybackTime and `keepsUtc` whether that is in UTC, `split` the       *)
(* length rows are cut to (Whole: not cut).                                   *)
(***************************************************************************)
EXTENDS Integers, SequencesExt

CONSTANTS
    Recorders,      \* the recorders to consider
    Sensors,        \* binary sensors of the config entry
    ChannelOf,      \* ChannelOf[s]: the channel its unique id resolves to
    KeyOf,          \* KeyOf[s]: its Reolink key, in segments
    Subjects,       \* the keys that have a kind, each as its segments |-> kind
    Camera,         \* the channel that is searched
    DayEnd,         \* the last wall clock of the day, which begins at 0
    Lookback,       \* how far before the window the history is read
    Longest,        \* the longest recording
    Covered,        \* continuous is <<n, d>>: n/d of the time elapsed
    Meaningful,     \* the overlap that always identifies a row
    SummerHour,     \* what summer time adds
    Flags, Timer,   \* the triggers a recorder may give a recording; `timer` is one
    Eve, MaxTime, MaxFilms, MaxEdges,      \* bounds
    MaySearchAgain, \* whether a later search may replace an answer (bound)
    NoKind, None, Whole

ASSUME TimesAssumption ==
    /\ DayEnd \in Nat \ {0} /\ Longest \in Nat \ {0} /\ Lookback \in Nat
    /\ Eve \in Nat /\ MaxTime \in Nat /\ MaxFilms \in Nat /\ MaxEdges \in Nat
    /\ Meaningful \in Nat \ {0}
    /\ Covered[1] \in Nat /\ Covered[2] \in Nat \ {0}
    /\ SummerHour \in Nat \ {0} /\ MaySearchAgain \in BOOLEAN
    /\ Timer \in Flags
    /\ None \notin Int /\ Whole \notin Int
\* "The same library rule that makes the field absent on a hub is the rule that stops a
\* hub being split" (vod.py 262-263): what states no time is not cut.
ASSUME RecordersAssumption ==
    /\ Recorders \subseteq [std : Int, changes : BOOLEAN, begins : Int, ends : Int,
                            states : BOOLEAN, keepsUtc : BOOLEAN, split : (Nat \ {0}) \cup {Whole}]
    /\ \A r \in Recorders : r.states \/ r.split = Whole

VARIABLES
    recorder,   \* the recorder the camera is on
    now,        \* the instant
    films,      \* what it has recorded, oldest first: [from, until, flags]
    edges,      \* what the sensors said: [sensor, at, state], oldest first
    answer      \* what the last search found, kept while the world moves on; None before it

vars == <<recorder, now, films, edges, answer>>
-----------------------------------------------------------------------------
(* The recorder's zone.                                                      *)

\* `_in_summer`, of a wall clock, between two yearly rules in either order.
InSummer(r, wall) ==
    /\ r.changes
    /\ IF r.begins <= r.ends THEN r.begins <= wall /\ wall < r.ends
                             ELSE wall >= r.begins \/ wall < r.ends

\* `utcoffset`: what the code takes a wall clock's offset to be.
UtcOffset(r, wall) == r.std + IF InSummer(r, wall) THEN SummerHour ELSE 0

\* The rule at an instant rather than at a wall clock, which is what the recorder's own
\* clock follows: it turns at `begins` of standard time and at `ends` of summer time.
SummerAt(r, instant) ==
    LET from == r.begins - r.std
        until == r.ends - (r.std + SummerHour)
    IN /\ r.changes
       /\ IF r.begins <= r.ends THEN from <= instant /\ instant < until
                                ELSE instant >= from \/ instant < until
Wall(r, instant) == instant + r.std + IF SummerAt(r, instant) THEN SummerHour ELSE 0

\* `as_utc` of a wall clock in the zone, and `astimezone` of an instant into it: the
\* default `tzinfo.fromutc`, which asks for the summer time of the standard wall clock.
AsUtc(r, wall) == wall - UtcOffset(r, wall)
FromUtc(r, instant) == instant + UtcOffset(r, instant + r.std)

\* The walls a conversion may get wrong: those that happen twice, and those skipped.
Doubtful(r, wall) ==
    r.changes /\ \/ r.ends - SummerHour <= wall /\ wall < r.ends + SummerHour
                 \/ r.begins - SummerHour <= wall /\ wall < r.begins + SummerHour
-----------------------------------------------------------------------------
(* What the recorder and the library answer a search with.                   *)

\* The cuts of one recording, clipped to the day and then to `split`.  A recording is
\* named by its place in `films`, and cutting copies PlaybackTime and the name.
RowsOf(r, i) ==
    LET from == Wall(r, films[i].from)
        until == Wall(r, films[i].until)
        first == IF from < 0 THEN 0 ELSE from
        last == IF until > DayEnd THEN DayEnd ELSE until
        starts == IF r.split = Whole THEN {first}
                  ELSE {w \in first..last : (w - first) % r.split = 0 /\ w < last}
        ends(w) == IF r.split = Whole \/ w + r.split > last THEN last ELSE w + r.split
        stated == IF ~ r.states THEN None
                  ELSE IF r.keepsUtc THEN films[i].from ELSE from
    IN IF until <= 0 \/ from >= DayEnd THEN {}
       ELSE {[start |-> w, end |-> ends(w), stated |-> stated, name |-> i,
              flags |-> films[i].flags] : w \in starts}

Found(r) == UNION {RowsOf(r, i) : i \in DOMAIN films}
-----------------------------------------------------------------------------
(* Which zone PlaybackTime is in.                                            *)

\* A single row votes, whatever became of its start.
AlwaysUtcSlip(r, rows) == TRUE

\* `playback_time_is_utc`: of the rows that share a PlaybackTime the earliest votes, by
\* how far its start is from it; a tie, or no vote, is the library's own assumption.
PlaybackIsUtc(r, rows) ==
    LET stated == {row.stated : row \in {x \in rows : x.stated # None}}
        start(p) == Min({row.start : row \in {x \in rows : x.stated = p}})
        offset(p) == UtcOffset(r, start(p))
        votes == {p \in stated : offset(p) # 0}
        asUtc == {p \in votes : start(p) - p = offset(p)}
        asLocal == {p \in votes \ asUtc : start(p) = p}
    IN ~ Cardinality(asLocal) > Cardinality(asUtc)

\* `_derived_playback_time`: what the recorder would have stated.
Derived(r, row, isUtc) == IF isUtc THEN AsUtc(r, row.start) ELSE row.start

\* `serialize_file`: where the recording begins and how far into it the row does.
Serialized(r, row, isUtc) ==
    LET playback == IF row.stated = None THEN Derived(r, row, isUtc) ELSE row.stated
        fileStart == IF row.stated = None THEN row.start
                     ELSE IF isUtc THEN FromUtc(r, row.stated) ELSE row.stated
        into == row.start - fileStart
    IN [start |-> row.start, end |-> row.end, name |-> row.name,
        fileStart |-> fileStart, playback |-> playback, derived |-> row.stated = None,
        offset |-> IF into < 0 THEN 0 ELSE into,
        duration |-> IF row.end < row.start THEN 0 ELSE row.end - row.start,
        flags |-> row.flags,
        counts |-> <<>>, segments |-> None]  \* filled in once the search is counted
-----------------------------------------------------------------------------
(* What Home Assistant saw.                                                  *)

\* `_kind_for_key`: the key's own kind, or that of its last segment.
KindForKey(key) ==
    IF key \in DOMAIN Subjects THEN Subjects[key]
    ELSE IF <<Last(key)>> \in DOMAIN Subjects THEN Subjects[<<Last(key)>>] ELSE NoKind

\* `async_detection_entities`: the sensors of this camera, and what each detects.
Detectors(channel) ==
    {s \in Sensors : ChannelOf[s] = channel /\ KindForKey(KeyOf[s]) # NoKind}

Kinds == {Subjects[k] : k \in DOMAIN Subjects}

StateBefore(s, i) ==
    LET earlier == {j \in 1..(i - 1) : edges[j].sensor = s}
    IN IF earlier = {} THEN "off" ELSE edges[Max(earlier)].state

\* `async_detections_in_window`: the turns into `on`, from a little before the window.
Detections(channel, from, until) ==
    {[kind |-> KindForKey(KeyOf[edges[i].sensor]), at |-> edges[i].at, edge |-> i] :
        i \in {j \in DOMAIN edges :
                 /\ edges[j].sensor \in Detectors(channel)
                 /\ edges[j].state = "on" /\ StateBefore(edges[j].sensor, j) # "on"
                 /\ from - Lookback <= edges[j].at /\ edges[j].at <= until}}

\* A detection at the very end of a row counts for it too.
InclusiveSlip(r, file, seen) ==
    [k \in Kinds |-> Cardinality({d \in seen :
        d.kind = k /\ AsUtc(r, file.start) <= d.at /\ d.at <= AsUtc(r, file.end)})]

\* `_async_classify`, of one row: how often each kind began inside it.
Counts(r, file, seen) ==
    [k \in Kinds |-> Cardinality({d \in seen :
        d.kind = k /\ AsUtc(r, file.start) <= d.at /\ d.at < AsUtc(r, file.end)})]
-----------------------------------------------------------------------------
(* The search.                                                               *)

\* The rows alone decide, whatever was dropped from them.
ContinuousSlip(files, dropped, wall) ==
    LET recorded == FoldSet(LAMBDA f, t : t + f.duration, 0, files)
        elapsed == IF wall < DayEnd THEN wall ELSE DayEnd
    IN elapsed > 0 /\ recorded * Covered[2] >= elapsed * Covered[1]

\* `is_continuous_day`: asked with the wall clock of now; a day that has not begun is not.
IsContinuousDay(files, dropped, wall) ==
    LET recorded == FoldSet(LAMBDA f, t : t + f.duration, 0, files)
        elapsed == IF wall < DayEnd THEN wall ELSE DayEnd
    IN \/ dropped > 0
       \/ elapsed > 0 /\ recorded * Covered[2] >= elapsed * Covered[1]

Filler(file) == file.flags = {} /\ \A k \in Kinds : file.counts[k] = 0

\* `async_search_day`: serialise, classify, measure and count over everything found, and
\* only then drop the filler of a camera that records all day.  `found` and `at` are what it
\* was made of, for the properties: the code keeps neither, nor the judgement itself.
Search(r, rows, seen, wall, includeUnlabelled) ==
    LET isUtc == PlaybackIsUtc(r, rows)
        plain == {Serialized(r, row, isUtc) : row \in rows}
        all == {[f EXCEPT !.counts = Counts(r, f, seen),
                          !.segments = Cardinality({g \in plain : g.name = f.name})] : f \in plain}
        continuous == IsContinuousDay(all, 0, wall)
        dropped == IF continuous /\ ~ includeUnlabelled THEN {f \in all : Filler(f)} ELSE {}
    IN [files |-> all \ dropped, dropped |-> Cardinality(dropped),
        continuous |-> continuous, seen |-> seen, found |-> rows, at |-> wall]
-----------------------------------------------------------------------------
(* The rows of the panel.                                                    *)

\* `_overlap_seconds`.
Overlap(f, g) ==
    LET from == IF f.start > g.start THEN f.start ELSE g.start
        until == IF f.end < g.end THEN f.end ELSE g.end
    IN IF until < from THEN 0 ELSE until - from

\* The row of another stream that is the same moment: the one with the longest overlap,
\* if that is long enough (`min(2.0, max(duration, 1.0) / 2)`).
Twins(file, others) ==
    {g \in others :
        /\ \A h \in others : Overlap(file, h) <= Overlap(file, g)
        /\ LET length == IF file.duration > 1 THEN file.duration ELSE 1
               half == IF 2 * Meaningful < length THEN 2 * Meaningful ELSE length
           IN Overlap(file, g) > 0 /\ 2 * Overlap(file, g) >= half}

\* `_kinds_for`: the sensors' verdict and `timer`, which they cannot give, or else the
\* recorder's own triggers.
KindsFor(file) ==
    LET detected == {k \in Kinds : file.counts[k] > 0}
    IN IF detected = {} THEN file.flags ELSE detected \cup (file.flags \cap {Timer})

\* `build_events`, of one camera-day, from a stored answer: whether the day is continuous is
\* decided again, by what was dropped or else by the clock of the moment it is composed.
Events(stored, others, wall) ==
    {[file |-> f, twins |-> Twins(f, others), kinds |-> KindsFor(f),
      whole |-> f.segments = 1,
      continuous |-> IsContinuousDay(stored.files, stored.dropped, wall)] : f \in stored.files}
-----------------------------------------------------------------------------
(* The world.                                                                *)

Init ==
    /\ recorder \in Recorders
    /\ now = -Eve - recorder.std
    /\ films = <<>> /\ edges = <<>> /\ answer = None

Ends == MaxTime - recorder.std

\* The camera records for d.
Film(d, flags) ==
    /\ Len(films) < MaxFilms /\ now + d <= Ends
    /\ films' = Append(films, [from |-> now, until |-> now + d, flags |-> flags])
    /\ now' = now + d
    /\ UNCHANGED <<recorder, edges, answer>>

Idle ==
    /\ now < Ends /\ now' = now + 1
    /\ UNCHANGED <<recorder, films, edges, answer>>

\* A sensor turned now or a moment ago, while the camera may have been recording.
Turn(s, at) ==
    /\ Len(edges) < MaxEdges
    /\ at <= now /\ \A i \in DOMAIN edges : edges[i].at <= at
    /\ edges' = Append(edges, [sensor |-> s, at |-> at,
                               state |-> IF StateBefore(s, Len(edges) + 1) = "on"
                                         THEN "off" ELSE "on"])
    /\ UNCHANGED <<recorder, now, films, answer>>

\* The day is searched, and the answer stored in place of the last one; the history may be
\* gone, or the recorder component off.  Nothing in the world and no later search depends on
\* what was answered: with one search already, every state is reached (MaySearchAgain).
Ask(includeUnlabelled, remembered) ==
    LET seen == IF remembered
                THEN Detections(Camera, AsUtc(recorder, 0), AsUtc(recorder, DayEnd))
                ELSE {}
    IN /\ answer = None \/ MaySearchAgain
       /\ answer' = Search(recorder, Found(recorder), seen, Wall(recorder, now),
                           includeUnlabelled)
       /\ UNCHANGED <<recorder, now, films, edges>>

Next ==
    \/ \E d \in 1..Longest, flags \in SUBSET Flags : Film(d, flags)
    \/ Idle
    \/ \E s \in Sensors :
         \E at \in {now - 1, now} : Turn(s, at)
    \/ \E include \in BOOLEAN, remembered \in BOOLEAN : Ask(include, remembered)

Spec == Init /\ [][Next]_vars
-----------------------------------------------------------------------------
(* Properties.                                                               *)

\* The wall clock a recording began at.
Begins(i) == Wall(recorder, films[i].from)

\* Footage filmed while the clock was changed, or named by a wall clock that happens twice.
Unsettled(f) ==
    LET film == films[f.name]
    IN \/ SummerAt(recorder, film.from) # SummerAt(recorder, film.until)
       \/ \E w \in {f.start, f.end, Begins(f.name)} : Doubtful(recorder, w)

Answered == answer # None

\* The recordings the answer has rows of.
Named == {row.name : row \in answer.found}

\* Those the recorder answered from their beginning, at an offset: what can be measured.
Measurable ==
    {i \in Named : /\ Begins(i) \in 0..(DayEnd - 1) /\ ~ Doubtful(recorder, Begins(i))
                  /\ UtcOffset(recorder, Begins(i)) # 0}

\* Those whose first row is as far from its PlaybackTime as the other convention would have
\* it: one that runs into the day and began exactly an offset before it.
Misleading ==
    {i \in Named :
        LET start == IF Begins(i) < 0 THEN 0 ELSE Begins(i)
            offset == UtcOffset(recorder, start)
        IN /\ offset # 0
           /\ IF recorder.keepsUtc THEN start = films[i].from ELSE start - Begins(i) = offset}

\* The rows say which zone PlaybackTime is in.
Tells == Cardinality(Misleading) < Cardinality(Measurable)

\* What a recorder that states the time of some rows only would have stated of this one.
StatedAs(f) ==
    IF f.derived \/ recorder.keepsUtc THEN films[f.name].from ELSE Begins(f.name)

\* Whichever zone the recorder states PlaybackTime in, however it cuts its recordings and
\* whether or not the day began in the middle of one, what is asked for is the recording
\* the row lies in, and the row's place in it is the row's own moment: wherever the rows can
\* tell the zone, or the two agree on the recording.  (A row of a device that states no time
\* at all is asked in UTC, and taken for a whole recording: one cut by midnight is not.)
RowsLeadToTheirMoment ==
    Answered =>
        \A f \in answer.files :
            \/ Unsettled(f) \/ (f.derived /\ Begins(f.name) < 0)
            \/ ~ (Tells \/ f.derived \/ Begins(f.name) = films[f.name].from)
            \/ /\ f.fileStart = Begins(f.name) /\ f.fileStart + f.offset = f.start
               /\ f.playback = StatedAs(f)

\* Every detection the history remembered that began inside a recording of the day is
\* counted, for one row, and that row is in the answer whatever the recorder calls it.
NothingSeenIsDropped ==
    Answered /\ (\A f \in answer.found : ~ Unsettled(f)) =>
        \A k \in Kinds :
            FoldSet(LAMBDA f, t : t + f.counts[k], 0, answer.files)
              = Cardinality({d \in answer.seen : d.kind = k /\
                    \E f \in answer.found : AsUtc(recorder, f.start) <= d.at
                                            /\ d.at < AsUtc(recorder, f.end)})

\* What the panel composes now of the day as it is stored, beside the other stream as it is.
Composed ==
    LET uncut == {Serialized(recorder, g, TRUE) :
                    g \in UNION {RowsOf([recorder EXCEPT !.split = Whole], i) :
                                    i \in DOMAIN films}}
    IN Events(answer, uncut, Wall(recorder, now))

\* The part of the day that had passed, at a wall clock in it or after it.
Elapsed(wall) == IF wall < DayEnd THEN wall ELSE DayEnd

\* However much later the panel composes a stored answer, and whatever was filmed since, it
\* never calls a day continuous that the search did not; it forgets one that the search
\* did call continuous only where nothing was dropped from it and more of the day has passed.
\* And its rows keep to what was found: one that claims the size of its recording is the
\* only one of it, and the recording it offers in another resolution, which is not cut
\* into rows, is the same one (unless the clock was changed under it).
PanelAgreesWithSearch ==
    Answered =>
        \A e \in Composed :
            /\ e.continuous /\ 0 < answer.at /\ answer.at <= Wall(recorder, now)
                  => answer.continuous
            /\ answer.continuous /\ ~ e.continuous
                  => /\ answer.dropped = 0
                     /\ \/ Elapsed(answer.at) < Elapsed(Wall(recorder, now))
                        \/ Wall(recorder, now) <= 0
            /\ e.whole <=> \A g \in answer.found : g.name = e.file.name
                                                  => g.start = e.file.start
            /\ Unsettled(e.file) \/ {g.name : g \in e.twins} = {e.file.name}

\* "Derived from what is cached rather than re-measured: the search already made this
\* judgement" (browse.py 123-124).
JudgementIsKept ==
    Answered => \A e \in Composed : e.continuous = answer.continuous
=============================================================================
