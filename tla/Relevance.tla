------------------------------ MODULE Relevance ------------------------------
(***************************************************************************)
(* What each camera normally sees, and how unusual an event is               *)
(* (relevance/rates.py, score.py, shapes.py, analysis.py).                   *)
(*                                                                          *)
(* The model is learned from the whole journal at night and asked about a    *)
(* window of it at any time; the window is read from the journal as it is    *)
(* then, with a lead-in before it.  A variable keeps how much of the journal *)
(* the model was learned from: the tables are a function of that.            *)
(*                                                                          *)
(* Probabilities are integers out of Scale, rounded down; kernel, floor and  *)
(* smoothing are small integers; and the surprisal, a logarithm in the code, *)
(* is a straight line that falls as the probability rises.  A category's     *)
(* weight and count are those of the events that carry its label.            *)
(***************************************************************************)
EXTENDS DetectionEvents, FiniteSets, FiniteSetsExt

CONSTANTS
    LeadIn,         \* _LEAD_IN
    Bins, BinLength,\* RATE_BINS and their length
    Kernel,         \* half a kernel, Kernel[1] the centre
    Fresh,          \* the weight of an event of today
    HalfLife,       \* RATE_HALF_LIFE_DAYS
    Day,            \* the length of a day
    Backoff,        \* RATE_BACKOFF_WEIGHT
    Smoothing, Floor, Scale,
    MinEvents, MinDays,     \* when a camera is ready
    Quantile,       \* SCORE_QUANTILE as <<n, d>>
    MarkFloor,      \* the floor of the sensitivity
    Signal(_),      \* what the configured signal reads at a time, or Unknown
    BandCount, BandMin, \* SIGNAL_BANDS, SIGNAL_BAND_MIN
    Unknown, NotBuilt,
    MaxChanges, MaxTime

ASSUME RatesAssumption ==
    /\ LeadIn \in Nat /\ Bins \in Nat \ {0} /\ BinLength \in Nat \ {0} /\ Day = Bins * BinLength
    /\ Kernel \in Seq(Nat \ {0}) /\ Kernel # <<>>
    \* The kernel does not meet itself on the other side of the day.
    /\ 2 * (Len(Kernel) - 1) < Bins
    /\ Backoff \in Nat \ {0} /\ Smoothing \in Nat \ {0} /\ Floor \in Nat /\ Scale \in Nat
    /\ Fresh \in Nat \ {0} /\ HalfLife \in Nat \ {0}
    /\ Quantile[1] \in Nat /\ Quantile[2] \in Nat \ {0} /\ Quantile[1] <= Quantile[2]
    /\ NotBuilt \notin Nat
    /\ MaxTime \in Nat

VARIABLES
    time,
    log,        \* the journal: transitions, oldest first
    built,      \* how many of them the model was learned from, or NotBuilt
    builtAt,    \* when
    shown       \* the window that was just asked for, or Open

analysisVars == <<time, log, built, builtAt, shown>>
-----------------------------------------------------------------------------
(* The circular rate.                                                        *)

Reach == Len(Kernel) - 1
BinOf(minute) == (minute \div BinLength) % Bins
Empty == [weights |-> [b \in 0..(Bins - 1) |-> 0], counts |-> [b \in 0..(Bins - 1) |-> 0],
          total |-> 0, observations |-> 0]

KernelSum == SumFunction(Kernel)

\* The kernel stops at midnight.
AddSlip(rate, minute, weight) ==
    LET centre == BinOf(minute)
        share(b) == LET d == IF b < centre THEN centre - b ELSE b - centre
                    IN IF d <= Reach THEN Kernel[d + 1] ELSE 0
    IN [weights |-> [b \in DOMAIN rate.weights |-> rate.weights[b] + weight * share(b)],
        counts |-> [rate.counts EXCEPT ![centre] = @ + 1],
        total |-> rate.total + weight * (2 * KernelSum - Kernel[1]),
        observations |-> rate.observations + 1]

\* What a bin gets of an observation: the kernel at every offset that leads to it, once
\* where both sides lead to the same bin.
Share(centre, b) ==
    SumFunctionOnSet(Kernel, {k \in DOMAIN Kernel :
                                 b \in {(centre + k - 1) % Bins, (centre - k + 1) % Bins}})

\* `CircularRate.add`.
Add(rate, minute, weight) ==
    LET centre == BinOf(minute)
    IN [weights |-> [b \in DOMAIN rate.weights |->
                        rate.weights[b] + weight * Share(centre, b)],
        counts |-> [rate.counts EXCEPT ![centre] = @ + 1],
        total |-> rate.total + weight * (2 * KernelSum - Kernel[1]),
        observations |-> rate.observations + 1]

\* `CircularRate.probability`.
ClockProbability(rate, minute) ==
    IF rate.total = 0 THEN Scale \div Bins
    ELSE ((rate.weights[BinOf(minute)] + Floor) * Scale) \div (rate.total + Floor * Bins)

\* `CircularRate.nearby`: how many really were near, for the sentence.
Nearby(rate, minute) ==
    SumFunctionOnSet(rate.counts, {(BinOf(minute) + o) % Bins : o \in -Reach..Reach})

\* `_merge`, of two clocks.
Merged(r, q) ==
    [weights |-> [b \in DOMAIN r.weights |-> r.weights[b] + q.weights[b]],
     counts |-> [b \in DOMAIN r.counts |-> r.counts[b] + q.counts[b]],
     total |-> r.total + q.total, observations |-> r.observations + q.observations]
-----------------------------------------------------------------------------
(* What is learned.                                                          *)

\* `quantile`, nearest rank: the least value that a share of the sample is not above.
QuantileOf(values, share) ==
    LET n == Cardinality(DOMAIN values)
        rank == (share[1] * n + share[2] - 1) \div share[2]
        index == IF rank < 1 THEN 1 ELSE IF rank > n THEN n ELSE rank
        below(v) == Cardinality({i \in DOMAIN values : values[i] <= v})
    IN Min({v \in ToSet(values) : below(v) >= index})

\* `bands`: the cuts that make equal groups of what was read, if there are enough.
Bands(values) ==
    LET cuts == [i \in 1..(BandCount - 1) |-> QuantileOf(values, <<i, BandCount>>)]
    IN IF Len(values) < BandCount * BandMin \/ ~ IsInjective(cuts) THEN <<>> ELSE cuts

\* `signal_value` and `band_label`: the band as its place among the cuts.
SignalValue(reading, cuts) ==
    IF cuts = <<>> \/ reading = Unknown THEN <<reading>>
    ELSE <<"band", Cardinality({i \in DOMAIN cuts : cuts[i] <= reading})>>

\* `duration_bucket`: the power of two at or below it.
DurationBucket(event) ==
    IF event.until = Open THEN <<"open">>
    ELSE IF event.until = event.from THEN <<"instant">>
    ELSE <<"about", Max({p \in {2^k : k \in 0..10} : p <= event.until - event.from})>>

\* `recency`.
Recency(age) == Fresh \div (2 ^ ((IF age < 0 THEN 0 ELSE age) \div HalfLife))

\* A weight is a real number that never reaches zero: here, not within the bound on time.
ASSUME RecencyAssumption == \A age \in 0..(MaxTime \div Day) : Recency(age) \in Nat \ {0}

MinuteOfDay(event) == event.from % Day
DayOfWeek(event) == (event.from \div Day) % 7
IsWeekend(event) == DayOfWeek(event) >= 5

\* `build`: the events with, for each, everything that is counted of it.
Build(events, at) ==
    LET readings == SelectSeq([i \in DOMAIN events |-> Signal(events[i].from)],
                              LAMBDA v : v # Unknown)
        cuts == IF readings = <<>> THEN <<>> ELSE Bands(readings)
        learned(i) ==
            LET e == events[i]
            IN [event |-> e, weight |-> Recency((at - e.from) \div Day),
                kind |-> e.kind, duration |-> DurationBucket(e),
                predecessor |-> PredecessorLabel(e, Previous(events, i)),
                weekend |-> IsWeekend(e), day |-> DayOfWeek(e),
                signal |-> SignalValue(Signal(e.from), cuts)]
    IN [seen |-> [i \in DOMAIN events |-> learned(i)], cuts |-> cuts]

\* A profile is what was learned of a set of events: of a camera and kind, of a kind in
\* a pool, of a camera, of a pool.
Profile(model, camera, kind) ==
    {i \in DOMAIN model.seen : model.seen[i].event.camera = camera /\ model.seen[i].kind = kind}
PerKind(model, camera, kind) ==
    {i \in DOMAIN model.seen : model.seen[i].kind = kind
        /\ GroupKey(model.seen[i].event.camera) = GroupKey(camera)}
PerCamera(model, camera) == {i \in DOMAIN model.seen : model.seen[i].event.camera = camera}
Pooled(model, camera) ==
    {i \in DOMAIN model.seen : GroupKey(model.seen[i].event.camera) = GroupKey(camera)}

WeightOf(model, profile) ==
    SumFunctionOnSet([i \in DOMAIN model.seen |-> model.seen[i].weight], profile)
Clock(model, profile) ==
    FoldSet(LAMBDA i, r : Add(r, MinuteOfDay(model.seen[i].event), model.seen[i].weight),
            Empty, profile)

Labelled(model, profile, field, label) ==
    {i \in profile : model.seen[i][field] = label}
Labels(model, profile, field) == {model.seen[i][field] : i \in profile}

\* `Categorical.probability`.
Probability(model, profile, field, label, categories) ==
    LET kinds == Cardinality(Labels(model, profile, field))
        seen == Max({kinds, categories, 1})
    IN ((WeightOf(model, Labelled(model, profile, field, label)) + Smoothing) * Scale)
         \div (WeightOf(model, profile) + Smoothing * seen)

\* `Profile.days`: between the first event seen and the last.
DaysOf(model, profile) ==
    IF profile = {} THEN 0
    ELSE (model.seen[Max(profile)].event.from - model.seen[Min(profile)].event.from) \div Day

\* `ready`.
Ready(model, camera) ==
    LET profile == PerCamera(model, camera)
    IN Cardinality(profile) >= MinEvents /\ DaysOf(model, profile) >= MinDays
-----------------------------------------------------------------------------
(* How unusual an event is.                                                  *)

\* `interpolate`.
Interpolate(specific, broader, weight) ==
    (weight * specific + Backoff * broader) \div (weight + Backoff)

Surprisal(probability, categories) == Scale - probability * categories

\* `_terms`: what each signal contributes, for an event and the one before it.
Terms(event, previous, model) ==
    LET specific == Profile(model, event.camera, event.kind)
        broader == PerKind(model, event.camera, event.kind)
        overall == Pooled(model, event.camera)
        own == PerCamera(model, event.camera)
        blend(s, b, o) == Interpolate(s, Interpolate(b, o, WeightOf(model, broader)),
                                      WeightOf(model, specific))
        many(field, profiles) ==
            Max({2} \cup {Cardinality(Labels(model, p, field)) : p \in profiles})
        category(field, label, categories) ==
            blend(Probability(model, specific, field, label, categories),
                  Probability(model, broader, field, label, categories),
                  Probability(model, overall, field, label, categories))
        minute == MinuteOfDay(event)
        label == PredecessorLabel(event, previous)
        value == SignalValue(Signal(event.from), model.cuts)
        kinds == many("kind", {own, overall})
        durations == many("duration", {specific, overall})
        predecessors == many("predecessor", {specific, overall})
        signals == many("signal", {specific})
    IN [kind |-> IF Cardinality(Labels(model, own, "kind")) <= 1 THEN 0
                 ELSE Surprisal(Interpolate(
                         Probability(model, own, "kind", event.kind, kinds),
                         Probability(model, overall, "kind", event.kind, kinds),
                         WeightOf(model, own)), kinds),
        clock |-> Surprisal(blend(ClockProbability(Clock(model, specific), minute),
                                  ClockProbability(Clock(model, broader), minute),
                                  ClockProbability(Clock(model, overall), minute)), Bins),
        duration |-> Surprisal(category("duration", DurationBucket(event), durations),
                               durations),
        predecessor |-> Surprisal(category("predecessor", label, predecessors), predecessors),
        \* Days and weekends as ratios to what is expected of them.
        weekend |-> Scale - Interpolate(
                        7 * category("day", DayOfWeek(event), 7),
                        (7 * category("weekend", IsWeekend(event), 2))
                            \div (IF IsWeekend(event) THEN 2 ELSE 5),
                        WeightOf(model, specific) \div 7),
        \* A signal that only ever read unknown is none.
        signal |-> IF specific # {} /\ Labels(model, specific, "signal") = {<<Unknown>>} THEN 0
                   ELSE Surprisal(category("signal", value, signals), signals)]

\* `total`.
Total(event, previous, model) ==
    LET sum(t) == t.kind + t.clock + t.duration + t.predecessor + t.weekend + t.signal
    IN sum(Terms(event, previous, model))

\* `calibrate`: a threshold for every camera that is ready.
Thresholds(model) ==
    LET events == [i \in DOMAIN model.seen |-> model.seen[i].event]
        scores(c) ==
            [i \in PerCamera(model, c) |-> Total(events[i], Previous(events, i), model)]
    IN [c \in {x \in Cameras : PerCamera(model, x) # {} /\ Ready(model, x)} |->
            QuantileOf(scores(c), Quantile)]

\* An event at the threshold is past it.
UnusualSlip(total, camera, thresholds) ==
    camera \in DOMAIN thresholds /\ total >= thresholds[camera]

\* `score`: past its camera's threshold and past the floor.
Unusual(total, camera, thresholds) ==
    /\ camera \in DOMAIN thresholds
    /\ total > thresholds[camera] /\ total > MarkFloor
-----------------------------------------------------------------------------
(* Learning and asking (`Analysis`).                                         *)

ModelNow ==
    IF built = NotBuilt THEN Build(<<>>, 0)
    ELSE Build(Derive(SubSeq(log, 1, built)), builtAt)

\* `state`: what the panel says of a camera.
StateOf(model, camera) ==
    LET profile == PerCamera(model, camera)
    IN IF profile = {} THEN "collecting"
       ELSE IF Ready(model, camera) THEN "active"
       ELSE IF DaysOf(model, profile) < 2 * MinDays THEN "collecting" ELSE "too_few_events"

\* How many rows are older than a time: as they are in order, those from one place on are
\* not older than it.
Older(t) == Cardinality({i \in DOMAIN log : log[i].at < t})

\* The window is read from where it begins.
ReadSlip(since, until) == SubSeq(log, Older(since) + 1, Older(until))

\* What is read for a window: from a lead-in before it.
Read(since, until) == SubSeq(log, Older(since - LeadIn) + 1, Older(until))

\* `async_window`: the events that began in it, scored against the model as it is.
Window(since, until) ==
    LET events == Derive(Read(since, until))
        model == ModelNow
        thresholds == Thresholds(model)
        row(i, total) == [event |-> events[i],
                          label |-> PredecessorLabel(events[i], Previous(events, i)),
                          total |-> total,
                          unusual |-> Unusual(total, events[i].camera, thresholds)]
        inside == {j \in DOMAIN events : since <= events[j].from /\ events[j].from < until}
    IN {row(i, Total(events[i], Previous(events, i), model)) : i \in inside}

AnalysisInit == time = 0 /\ log = <<>> /\ built = NotBuilt /\ builtAt = 0 /\ shown = Open

\* A sensor turns on, or reports that it is not on, as often as it likes.
IsOn(s, t) ==
    LET mine == {i \in DOMAIN log : log[i].sensor = s /\ log[i].at <= t}
    IN mine # {} /\ log[Max(mine)].on

Change(s, on, after) ==
    /\ Len(log) < MaxChanges /\ time + after <= MaxTime
    /\ on => ~ IsOn(s, time)
    /\ ~ on => \E i \in DOMAIN log : log[i].sensor = s
    /\ log' = Append(log, [sensor |-> s, at |-> time + after, on |-> on])
    /\ time' = time + after /\ shown' = Open
    /\ UNCHANGED <<built, builtAt>>

\* `async_rebuild`, on one of the nights (bound).
Rebuild ==
    /\ built = NotBuilt /\ log # <<>>
    /\ built' = Len(log) /\ builtAt' = time /\ shown' = Open
    /\ UNCHANGED <<time, log>>

\* Asking changes nothing, so one answer between two changes is as good as many (bound).
Ask(since, until) ==
    /\ shown = Open
    /\ shown' = [since |-> since, until |-> until, rows |-> Window(since, until)]
    /\ UNCHANGED <<time, log, built, builtAt>>

AnalysisNext ==
    \/ \E s \in Sensors, on \in BOOLEAN, after \in 1..(MergeWindow + 1) : Change(s, on, after)
    \/ Rebuild
    \* Windows that begin within the first lead-in are read like those that begin at 0.
    \/ \E since \in {0} \cup (LeadIn + 1)..time : \E until \in since..(time + 1) : Ask(since, until)

AnalysisSpec == AnalysisInit /\ [][AnalysisNext]_analysisVars
-----------------------------------------------------------------------------
(* Properties.                                                               *)

History == Derive(log)
LastLag == LagEdges[Len(LagEdges)]

\* In the lead-in everything was off for longer than the window that merges, and early
\* enough that nothing before it can have preceded what the window shows.
Settled(since) ==
    \/ since <= LeadIn
    \/ \E q \in (since - LeadIn)..(since - LastLag - 1) :
         /\ \A s \in Sensors : ~ IsOn(s, q)
         /\ \A i \in DOMAIN log : log[i].on => log[i].at <= q \/ log[i].at > q + MergeWindow

\* Wherever a window begins, it shows the events that the whole history derives to: the
\* lead-in is long enough for the runs under way and for the cameras that fired before.
\* Of a window that reaches to now that is so of every event, its end and what preceded
\* it; of one that ended earlier, of those that were over as it ended.
WindowAgreesWithHistory ==
    shown # Open /\ Settled(shown.since) =>
        LET over(e) == /\ e.until # Open /\ e.until + MergeWindow < shown.until
                       /\ \E i \in DOMAIN log :
                            /\ CameraOf[log[i].sensor] = e.camera
                            /\ KindOf[log[i].sensor] = e.kind
                            /\ e.until <= log[i].at /\ log[i].at < shown.until
            began == {j \in DOMAIN History : shown.since <= History[j].from
                                             /\ History[j].from < shown.until}
        IN /\ {e \in {r.event : r \in shown.rows} : over(e)}
                = {e \in {History[j] : j \in began} : over(e)}
           /\ shown.until > time =>
                {[event |-> r.event, label |-> r.label] : r \in shown.rows}
                    = {[event |-> History[j],
                        label |-> PredecessorLabel(History[j], Previous(History, j))] :
                            j \in began}

\* Of the history a model was learned from, no more than the tail above the quantile is
\* marked on any camera, when the panel asks for all of it after the night's rebuild; and
\* nothing on a camera the panel calls anything but active.
OnlyTheTailIsMarked ==
    shown # Open /\ built = Len(log) =>
        \A c \in Cameras :
            LET marked == {r \in shown.rows : r.event.camera = c /\ r.unusual}
                n == Cardinality(PerCamera(ModelNow, c))
            IN /\ Settled(shown.since) /\ shown.until > time =>
                    Cardinality(marked) * Quantile[2] <= n * (Quantile[2] - Quantile[1])
               /\ marked # {} => StateOf(ModelNow, c) = "active"

\* The clock tables lose nothing and invent nothing, at midnight either: the bins add up to
\* the total, a bin has weight exactly when something was seen near it, and the overview of
\* several cameras is what one camera that had seen all of it would have learned.
RatesAreConserved ==
    built # NotBuilt =>
        LET model == ModelNow
        IN /\ \A c \in Cameras :
                LET rate == Clock(model, PerCamera(model, c))
                IN /\ SumFunction(rate.weights) = rate.total
                   /\ \A b \in DOMAIN rate.weights :
                        (rate.weights[b] > 0) = (Nearby(rate, b * BinLength) > 0)
           /\ \A c, d \in Cameras :
                c # d => Merged(Clock(model, PerCamera(model, c)), Clock(model, PerCamera(model, d)))
                         = Clock(model, PerCamera(model, c) \cup PerCamera(model, d))

\* Whatever a sensor reports is in an event of its camera and kind, or follows one so
\* closely that it is the same.  (const.py: a bounce "is under three seconds and anything
\* longer is a separate thing happening".)
EveryDetectionCounts ==
    \A i \in DOMAIN log :
        log[i].on => \E j \in DOMAIN History :
            /\ History[j].camera = CameraOf[log[i].sensor]
            /\ History[j].kind = KindOf[log[i].sensor]
            /\ History[j].from <= log[i].at
            /\ History[j].until = Open \/ log[i].at <= History[j].until + MergeWindow
=============================================================================
