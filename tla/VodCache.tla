----------------------------- MODULE VodCache ------------------------------
(***************************************************************************)
(* The cache of recording searches (cache.py) and the panels that subscribe *)
(* to it (api/browse.py `ws_events`, and the look-ups of api/playback.py).  *)
(*                                                                          *)
(* A camera-day is answered from the cache at once and searched again in    *)
(* the background when it is stale.  Everything runs on one event loop: a   *)
(* websocket command is one action, and so is each stretch of a fetch       *)
(* between two awaits.  A task's done-callback runs some time after its     *)
(* last step.  One resolution and one "unlabelled" setting are in use, so a *)
(* camera and a date are a key.  What a device lists for a day is left out: *)
(* only whether it lists anything, which device it is and when it said so.  *)
(***************************************************************************)
EXTENDS Integers, FiniteSets

CONSTANTS
    Cameras,
    Devices,        \* what can be asked: cameras of their own and recorders
    Own,            \* Own[c]: the device c is set up as
    Partner,        \* Partner[c]: the recorder c may also be a channel of, or NoDevice
    Dates,          \* days, counted from the first the model looks at
    DayLength,      \* the moments in a day
    Concurrent,     \* MAX_CONCURRENT_SEARCHES
    TtlToday, TtlPast, TtlError,
    Panels,         \* the websocket subscriptions
    MaxTime,        \* bound: the last moment
    MaxFetches,     \* bound: the fetches of one camera-day
    NoDevice, NoRecord, NotTold

Moments == 0..MaxTime
Keys == Cameras \X Dates
Fetches == Keys \X (1..MaxFetches)

\* `DayRecord`: `from` lists its files (nobody: it has none), as they were at `asOf`.
Record == [from: Devices \cup {NoDevice}, asOf: Moments, fetchedAt: Moments, error: BOOLEAN]

\* What the panel is told of a camera-day.
Told == [record: Record \cup {NoRecord}, updating: BOOLEAN]

ASSUME VodAssumption ==
    /\ NoDevice \notin Devices
    /\ Own \in [Cameras -> Devices]
    /\ Partner \in [Cameras -> Devices \cup {NoDevice}]
    /\ \A c \in Cameras : Partner[c] # Own[c]
    /\ Dates \subseteq Nat
    /\ DayLength \in Nat \ {0} /\ Concurrent \in Nat \ {0}
    /\ TtlToday \in Nat /\ TtlPast \in Nat /\ TtlError \in Nat
    /\ MaxTime \in Nat /\ MaxFetches \in Nat \ {0}
    /\ NoRecord \notin Record
    /\ NotTold \notin Told

VARIABLES
    now,
    days,     \* `_days`
    tasks,    \* `_tasks`: which fetch of a key is registered, 0 for none
    begun,    \* how many fetches of a key there have been
    phase,    \* of each fetch: "none", "created", "asking", "ended", "over"
    asks,     \* what has become of each fetch's search of each device
    heard,    \* when that device answered
    sources,  \* `_sources`: the device remembered for a camera
    paired,   \* the recorder's copy of a camera is disabled, so either may serve it
    listeners, \* `_listeners`: the panels that are told of updates
    told,     \* what each panel was last told of each camera-day
    up        \* until `async_shutdown`

fetching == <<begun, phase, asks, heard>>
vars == <<now, days, tasks, fetching, sources, paired, listeners, told, up>>

Phases == {"none", "created", "asking", "ended", "over"}
Answers == {"files", "empty", "failed"}
Asked == {"no", "waiting", "searching"} \cup Answers

TypeOK ==
    /\ now \in Moments
    /\ days \in [Keys -> Record \cup {NoRecord}]
    /\ tasks \in [Keys -> 0..MaxFetches]
    /\ begun \in [Keys -> 0..MaxFetches]
    /\ phase \in [Fetches -> Phases]
    /\ asks \in [Fetches -> [Devices -> Asked]]
    /\ heard \in [Fetches -> [Devices -> Moments]]
    /\ sources \in [Cameras -> Devices \cup {NoDevice}]
    /\ paired \in [Cameras -> BOOLEAN]
    /\ listeners \in SUBSET Panels
    /\ told \in [Panels -> [Keys -> Told \cup {NotTold}]]
    /\ up \in BOOLEAN

Init ==
    /\ now = 0
    /\ days = [k \in Keys |-> NoRecord]
    /\ tasks = [k \in Keys |-> 0]
    /\ begun = [k \in Keys |-> 0]
    /\ phase = [f \in Fetches |-> "none"]
    /\ asks = [f \in Fetches |-> [d \in Devices |-> "no"]]
    /\ heard = [f \in Fetches |-> [d \in Devices |-> 0]]
    /\ sources = [c \in Cameras |-> NoDevice]
    /\ paired \in [Cameras -> BOOLEAN]
    /\ \A c \in Cameras : paired[c] => Partner[c] # NoDevice
    /\ listeners = {}
    /\ told = [p \in Panels |-> [k \in Keys |-> NotTold]]
    /\ up = TRUE

-----------------------------------------------------------------------------
(* Reading.                                                                 *)

Today == now \div DayLength

\* `_ttl_for`.
Ttl(k) == IF days[k].error THEN TtlError
          ELSE IF k[2] >= Today THEN TtlToday ELSE TtlPast

\* `is_day_fresh`.
Fresh(k) == days[k] # NoRecord /\ now - days[k].fetchedAt < Ttl(k)

\* `_compose`, given the record and the registered task.
Compose(record, task) == [record |-> record, updating |-> task # 0]

\* The fetches of a key that have not come to their last step.
InFlight(k) == {n \in 1..MaxFetches : phase[<<k, n>>] \in {"created", "asking"}}

-----------------------------------------------------------------------------
(* Requests.                                                                *)

\* `async_ensure_day` for each of `wanted`: what is registered is shared, what is
\* fresh is left alone, the rest becomes a task that has yet to run.
EnsureDay(wanted, force) ==
    LET started == {k \in wanted : tasks[k] = 0 /\ (force \/ ~Fresh(k))} IN
    /\ \A k \in started : begun[k] < MaxFetches
    /\ begun' = [k \in Keys |-> IF k \in started THEN begun[k] + 1 ELSE begun[k]]
    /\ tasks' = [k \in Keys |-> IF k \in started THEN begun[k] + 1 ELSE tasks[k]]
    /\ phase' = [f \in Fetches |->
                    IF f[1] \in started /\ f[2] = begun[f[1]] + 1 THEN "created" ELSE phase[f]]
    /\ UNCHANGED <<asks, heard>>

\* The camera-days a client can ask for.
Reachable == {k \in Keys : k[2] <= Today}

\* `ws_events`: the snapshot is composed and sent, then the fetches are started.
Subscribe(p, wanted, force) ==
    /\ up
    /\ listeners' = listeners \cup {p}
    /\ told' = [told EXCEPT ![p] =
                   [k \in Keys |-> IF k \in wanted THEN Compose(days[k], tasks[k]) ELSE NotTold]]
    /\ EnsureDay(wanted, force)
    /\ UNCHANGED <<now, days, sources, paired, up>>

\* The panel unsubscribes, or its connection is closed: its listener is removed.
Unsubscribe(p) ==
    /\ listeners' = listeners \ {p}
    /\ told' = [told EXCEPT ![p] = [k \in Keys |-> NotTold]]
    /\ UNCHANGED <<now, days, tasks, fetching, sources, paired, up>>

\* Looking a recording up for playback asks for its day without subscribing.
LookUp(k, force) ==
    /\ up
    /\ EnsureDay({k}, force)
    /\ UNCHANGED <<now, days, sources, paired, listeners, told, up>>

-----------------------------------------------------------------------------
(* One fetch.                                                               *)

\* `_async_search_targets`: the camera, or whichever of the two is remembered, or both.
Targets(c) ==
    IF ~paired[c] THEN {Own[c]}
    ELSE IF sources[c] # NoDevice THEN {sources[c]}
    ELSE {Own[c], Partner[c]}

\* The task runs: every target is to be asked; an unpaired camera's source is forgotten.
Begin(f) ==
    LET c == f[1][1] IN
    /\ phase[f] = "created"
    /\ phase' = [phase EXCEPT ![f] = "asking"]
    /\ asks' = [asks EXCEPT ![f] =
                   [d \in Devices |-> IF d \in Targets(c) THEN "waiting" ELSE "no"]]
    /\ sources' = IF paired[c] THEN sources ELSE [sources EXCEPT ![c] = NoDevice]
    /\ UNCHANGED <<now, days, tasks, begun, heard, paired, listeners, told, up>>

Searching(d) == {f \in Fetches : asks[f][d] = "searching"}

\* `async with self._semaphore(target_entry)`.
Search(f, d) ==
    /\ asks[f][d] = "waiting"
    /\ Cardinality(Searching(d)) < Concurrent
    /\ asks' = [asks EXCEPT ![f][d] = "searching"]
    /\ UNCHANGED <<now, days, tasks, begun, phase, heard, sources, paired, listeners, told, up>>

\* The device answers, or `_async_search_one` turns what went wrong into an outcome.
Answer(f, d) ==
    /\ asks[f][d] = "searching"
    /\ \E what \in Answers : asks' = [asks EXCEPT ![f][d] = what]
    /\ heard' = [heard EXCEPT ![f][d] = now]
    /\ UNCHANGED <<now, days, tasks, begun, phase, sources, paired, listeners, told, up>>

\* Of the devices that answered as `what`, the recorder's listing is preferred and
\* the camera's own emptiness or failure.
Saying(f, what) == {d \in Devices : asks[f][d] = what}

Chosen(f) ==
    LET own == Own[f[1][1]]
        listing == Saying(f, "files")
        usable == Saying(f, "empty")
    IN IF listing # {} THEN CHOOSE d \in listing : listing # {own} => d # own
       ELSE IF usable # {} THEN CHOOSE d \in usable : own \in usable => d = own
       ELSE NoDevice

\* (A definition whose name ends in Slip is a plausible mistake in the one that
\* follows it; the model never uses it.  See the README.)
\* The outcome is stored in place of the device.
LandedMixedSlip(f, old) ==
    [from |-> IF Chosen(f) = NoDevice THEN "failed" ELSE asks[f][Chosen(f)], asOf |-> now,
     fetchedAt |-> now, error |-> Chosen(f) = NoDevice]

\* A failure starts a new record.
LandedBlankSlip(f, old) ==
    [from |-> Chosen(f), asOf |-> now, fetchedAt |-> now, error |-> Chosen(f) = NoDevice]

\* What the fetch makes of the record it finds: a failure keeps the files there were.
Landed(f, old) ==
    LET d == Chosen(f) IN
    IF d # NoDevice
    THEN [from |-> IF asks[f][d] = "files" THEN d ELSE NoDevice, asOf |-> heard[f][d],
          fetchedAt |-> now, error |-> FALSE]
    ELSE IF old = NoRecord
    THEN [from |-> NoDevice, asOf |-> now, fetchedAt |-> now, error |-> TRUE]
    ELSE [old EXCEPT !.fetchedAt = now, !.error = TRUE]

\* The panels are told before the fetch is retired.
LandSlip(f) ==
    LET k == f[1] IN
    /\ phase[f] = "asking"
    /\ \A d \in Devices : asks[f][d] \notin {"waiting", "searching"}
    /\ phase' = [phase EXCEPT ![f] = "ended"]
    /\ days' = [days EXCEPT ![k] = Landed(f, @)]
    /\ told' = [p \in Panels |->
                   IF p \notin listeners \/ told[p][k] = NotTold THEN told[p]
                   ELSE [told[p] EXCEPT ![k] = Compose(days'[k], tasks[k])]]
    /\ tasks' = [tasks EXCEPT ![k] = 0]
    /\ UNCHANGED <<now, begun, asks, heard, sources, paired, listeners, up>>

\* Every target has answered (`gather`): record it, retire whatever is registered
\* for the key, then tell the panels (`_finish`).
Land(f) ==
    LET k == f[1]
        c == k[1]
    IN
    /\ phase[f] = "asking"
    /\ \A d \in Devices : asks[f][d] \notin {"waiting", "searching"}
    /\ phase' = [phase EXCEPT ![f] = "ended"]
    /\ days' = [days EXCEPT ![k] = Landed(f, @)]
    /\ sources' = IF Saying(f, "files") # {} /\ Cardinality(Devices \ Saying(f, "no")) > 1
                  THEN [sources EXCEPT ![c] = Chosen(f)]
                  ELSE sources
    /\ tasks' = [tasks EXCEPT ![k] = 0]
    /\ told' = [p \in Panels |->
                   IF p \notin listeners \/ told[p][k] = NotTold THEN told[p]
                   ELSE [told[p] EXCEPT ![k] = Compose(days'[k], tasks'[k])]]
    /\ UNCHANGED <<now, begun, asks, heard, paired, listeners, up>>

\* The done-callback removes whatever is registered for the key by now.
Done(f) ==
    /\ phase[f] = "ended"
    /\ phase' = [phase EXCEPT ![f] = "over"]
    /\ tasks' = [tasks EXCEPT ![f[1]] = 0]
    /\ UNCHANGED <<now, days, begun, asks, heard, sources, paired, listeners, told, up>>

-----------------------------------------------------------------------------

\* The user disables the recorder's copy of a camera, or takes it back into use.
Repair(c) ==
    /\ Partner[c] # NoDevice
    /\ paired' = [paired EXCEPT ![c] = ~@]
    /\ UNCHANGED <<now, days, tasks, fetching, sources, listeners, told, up>>

\* `async_shutdown`: cancel what is registered, and forget the listeners, which are
\* told nothing any more.
Shutdown ==
    LET cancelled == {f \in Fetches : tasks[f[1]] = f[2]} IN
    /\ up
    /\ up' = FALSE
    /\ phase' = [f \in Fetches |-> IF f \in cancelled THEN "over" ELSE phase[f]]
    /\ asks' = [f \in Fetches |-> IF f \in cancelled THEN [d \in Devices |-> "no"] ELSE asks[f]]
    /\ tasks' = [k \in Keys |-> 0]
    /\ listeners' = {}
    /\ UNCHANGED <<now, days, begun, heard, sources, paired, told>>

Tick ==
    /\ now < MaxTime
    /\ now' = now + 1
    /\ UNCHANGED <<days, tasks, fetching, sources, paired, listeners, told, up>>

Step(f) ==
    \/ Begin(f)
    \/ \E d \in Devices : Search(f, d) \/ Answer(f, d)
    \/ Land(f)
    \/ Done(f)

Next ==
    \/ \E p \in Panels, wanted \in SUBSET Reachable \ {{}}, force \in BOOLEAN :
           Subscribe(p, wanted, force)
    \/ \E p \in Panels : Unsubscribe(p)
    \/ \E k \in Reachable, force \in BOOLEAN : LookUp(k, force)
    \/ \E f \in Fetches : Step(f)
    \/ \E c \in Cameras : Repair(c)
    \/ Shutdown
    \/ Tick

Spec == Init /\ [][Next]_vars

\* A task that can run does, and a search that was let in returns or raises;
\* asyncio.Semaphore serves its waiters in turn.
Fairness ==
    /\ \A f \in Fetches : WF_vars(Step(f))
    /\ \A f \in Fetches, d \in Devices : SF_vars(Search(f, d))

FairSpec == Spec /\ Fairness
-----------------------------------------------------------------------------
(* Properties.                                                              *)

\* While it listens, what a panel shows of a camera-day is what the cache holds,
\* whoever refreshed it; and it is never told "updating" without a fetch on its way that will tell
\* it otherwise (cache.py 280-285, browse.py 201-218).
PanelsSeeTheCache ==
    \A p \in listeners, k \in Keys : told[p][k] # NotTold =>
        /\ told[p][k].record = days[k]
        /\ told[p][k].updating => InFlight(k) # {}

\* "A failed refresh never discards good cached data" (cache.py 8), however many
\* refreshes of the key overlap.
FailureKeepsFiles ==
    [][\A k \in Keys : (days[k] # NoRecord /\ days'[k] # days[k] /\ days'[k].error) =>
           /\ days'[k].from = days[k].from
           /\ days'[k].asOf = days[k].asOf]_vars

\* The "Updating..." pill goes away, unless the panel stops listening or the
\* integration is unloaded (cache.py 282-285).
UpdatingEnds ==
    \A p \in Panels, k \in Keys :
        (p \in listeners /\ told[p][k] # NotTold /\ told[p][k].updating)
            ~> (p \notin listeners \/ told[p][k] = NotTold \/ ~told[p][k].updating)

\* cache.py 9: "Identical concurrent requests share one fetch".
OneFetchPerDay == \A k \in Keys : Cardinality(InFlight(k)) <= 1

\* cache.py 11: "A day in the past is immutable once recorded, so it is cached for
\* a week".  What is trusted for a past day was listed when that day was over.
FreshMeansComplete ==
    \A k \in Keys : (k[2] < Today /\ Fresh(k) /\ ~days[k].error) =>
        days[k].asOf >= (k[2] + 1) * DayLength

\* cache.py 420-421: "Both are asked until one of them answers with recordings, and
\* that one is then remembered for the rest of the session".
SourceIsRemembered ==
    [][\A c \in Cameras : (sources[c] # NoDevice /\ paired[c]) => sources'[c] = sources[c]]_vars
=============================================================================
