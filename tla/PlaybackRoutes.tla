-------------------------- MODULE PlaybackRoutes ---------------------------
(***************************************************************************)
(* How a recording is reached (playback_route.py), and who reaches for it:  *)
(* the panel asking for a path (`ws_stream_url` of api/playback.py), the    *)
(* view that pipes a stream (flv_proxy.py), and the conversions, which hand *)
(* ffmpeg a URL (restream/views.py, restream/runner.py, cloud/engine.py).   *)
(*                                                                          *)
(* A recorder has up to three endpoints.  Two seek by themselves, the third *)
(* sends the whole file, and then whoever reads it has to seek.  Which one  *)
(* answers is measured once and remembered for every request to come; the   *)
(* requests share that memory and each of them awaits in the middle.  An    *)
(* action is a stretch between two awaits.  Every request wants to start    *)
(* part-way into its recording; URLs, credentials and bytes are left out.   *)
(***************************************************************************)
EXTENDS Registry

CONSTANTS
    Serves,      \* Serves[e]: the endpoints e has; a busy device may not answer on them
    Requests,
    MaxChanges,  \* bound: reloads of the integration, and changes at home
    NoRoute, NoEntry

Routes == {"playback", "flv", "download"}
ROUTE_ORDER == <<"playback", "flv", "download">>
ROUTE_ORDER_REALTIME == <<"playback", "flv">>

\* `_BUILDERS`: the URLs of two of the endpoints carry where to start, the whole file's
\* carries nothing.
SeeksItself(r) == r # "download"

\* The panel's question, the pass-through view, and a conversion.
Kinds == {"panel", "pipe", "convert"}

Hubs == {e \in Entries : KindOf[e] = "hub"}

ASSUME RoutesAssumption ==
    /\ Serves \in [Entries -> SUBSET Routes]
    /\ \A e \in Hubs : Serves[e] = {"download"}
    /\ MaxChanges \in Nat
    /\ NoRoute \notin Routes
    /\ NoEntry \notin Entries

VARIABLES
    remembered,  \* `_ROUTES_KEY`: the route each device was last seen to answer on
    kind,        \* what each request is
    phase,       \* and how far it is
    order,       \* the routes a measuring request has yet to try
    device,      \* the entry it addresses
    via,         \* the route it settled on
    given,       \* a panel's answer: "file" or "stream"
    soughtHere,  \* a conversion's ffmpeg is told to seek
    remeasured,  \* history: others changed what is remembered while it held a route
    proved,      \* history: the devices that have answered Download
    changes

asking == <<kind, phase, order, device, via, given, soughtHere>>
vars == <<home, remembered, asking, remeasured, proved, changes>>

Phases == {"idle", "resolving", "refetching", "measuring", "building", "making",
           "done", "refused"}

TypeOK ==
    /\ HomeTypeOK
    /\ remembered \in [Entries -> Routes \cup {NoRoute}]
    /\ kind \in [Requests -> Kinds]
    /\ phase \in [Requests -> Phases]
    /\ order \in [Requests -> Seq(Routes)]
    /\ device \in [Requests -> Entries \cup {NoEntry}]
    /\ via \in [Requests -> Routes \cup {NoRoute}]
    /\ given \in [Requests -> {"nothing", "file", "stream"}]
    /\ soughtHere \in [Requests -> BOOLEAN]
    /\ remeasured \in [Requests -> BOOLEAN]
    /\ proved \in SUBSET Entries
    /\ changes \in 0..MaxChanges

Init ==
    /\ HomeInit
    /\ remembered = [e \in Entries |-> NoRoute]
    /\ kind = [q \in Requests |-> "panel"]
    /\ phase = [q \in Requests |-> "idle"]
    /\ order = [q \in Requests |-> <<>>]
    /\ device = [q \in Requests |-> NoEntry]
    /\ via = [q \in Requests |-> NoRoute]
    /\ given = [q \in Requests |-> "nothing"]
    /\ soughtHere = [q \in Requests |-> FALSE]
    /\ remeasured = [q \in Requests |-> FALSE]
    /\ proved = {}
    /\ changes = 0

-----------------------------------------------------------------------------
(* The order of the routes, and the memory.                                 *)

\* The routes a request of this sort can use (`routes`).
Allowed(what) == IF what = "pipe" THEN ROUTE_ORDER_REALTIME ELSE ROUTE_ORDER

\* `_async_route_order`: what is remembered, or known of a hub, comes first; the
\* routes that are not allowed are stepped over.
RouteOrder(d, what) ==
    LET routes == Allowed(what)
        first == IF remembered[d] # NoRoute THEN remembered[d]
                 ELSE IF d \in Hubs THEN "download" ELSE NoRoute
        at == CHOOSE i \in DOMAIN routes : routes[i] = first
    IN IF first \notin ToSet(routes) THEN routes
       ELSE [i \in DOMAIN routes |->
                IF i = 1 THEN first ELSE IF i <= at THEN routes[i - 1] ELSE routes[i]]

\* The requests whose route was settled before `d` was remembered as `r`.
Unsettled(q, d, r) ==
    [p \in Requests |->
        remeasured[p] \/ (p # q /\ device[p] = d /\ via[p] # NoRoute
                              /\ phase[p] \in {"building", "making"} /\ r # remembered[d])]

\* The answer is used and not remembered.
RememberSlip(q, d, r) ==
    /\ UNCHANGED remembered
    /\ remeasured' = Unsettled(q, d, r)

\* `async_remember_route`.
Remember(q, d, r) ==
    /\ remembered' = [remembered EXCEPT ![d] = r]
    /\ remeasured' = Unsettled(q, d, r)

\* `async_playback_input_seek`: read from what is remembered by then.
InputSeek(d) == remembered[d] = "download" \/ d \in Hubs

-----------------------------------------------------------------------------
(* A request begins.                                                        *)

\* Whether a file was handed out (`result["file"]`).
Hand(q, asFile) == given' = [given EXCEPT ![q] = IF asFile THEN "file" ELSE "stream"]

\* `_async_playback_target`: the camera, unless the row names the very channel the
\* camera is paired to now.
Target(camera, claim) ==
    IF claim # NoPlace /\ PairedChannel(camera) = claim THEN claim[1] ELSE camera[1]

\* `async_playback_route`: a hub is known, a remembered route is used, anything else is
\* measured.  A panel's question ends there; a conversion goes on to build its URL.
\* A device that cannot be read ends the others and leaves the panel with a stream's path.
Choose(q, what, e) ==
    LET known == IF e \in Hubs THEN "download" ELSE remembered[e]
        measure == what = "pipe" \/ known = NoRoute
    IN
    /\ device' = [device EXCEPT ![q] = e]
    /\ kind' = [kind EXCEPT ![q] = what]
    /\ \/ /\ ~HasHost(e)
          /\ phase' = [phase EXCEPT ![q] = IF what = "panel" THEN "done" ELSE "refused"]
          /\ IF what = "panel" THEN Hand(q, FALSE) ELSE UNCHANGED given
          /\ UNCHANGED <<order, via>>
       \/ /\ HasHost(e) /\ measure
          /\ phase' = [phase EXCEPT ![q] = "measuring"]
          /\ order' = [order EXCEPT ![q] = RouteOrder(e, what)]
          /\ UNCHANGED <<via, given>>
       \/ /\ HasHost(e) /\ ~measure
          /\ phase' = [phase EXCEPT ![q] = IF what = "panel" THEN "done" ELSE "building"]
          /\ via' = [via EXCEPT ![q] = known]
          /\ IF what = "panel" THEN Hand(q, known = "download") ELSE UNCHANGED given
          /\ UNCHANGED order

\* The row is played from its camera or from where it says the footage is.
Play(q) ==
    \E camera \in Places, claim \in Places \cup {NoPlace} :
        Choose(q, "panel", Target(camera, claim))

\* `ws_stream_url`: a row that carries everything is played; another resolution of it
\* has to be looked up first.
Ask(q) ==
    /\ phase[q] = "idle"
    /\ \/ Play(q)
       \/ /\ phase' = [phase EXCEPT ![q] = "resolving"]
          /\ kind' = [kind EXCEPT ![q] = "panel"]
          /\ UNCHANGED <<order, device, via, given>>
    /\ UNCHANGED <<home, remembered, soughtHere, remeasured, proved, changes>>

\* `_async_resolve_playback_fields`: the day is searched, and searched again if what it
\* holds overlaps nothing or lacks what playback needs.
Resolve(q) ==
    /\ phase[q] \in {"resolving", "refetching"}
    /\ \/ Play(q)
       \/ /\ phase' = [phase EXCEPT ![q] =
                          IF phase[q] = "resolving" THEN "refetching" ELSE "refused"]
          /\ UNCHANGED <<kind, order, device, via, given>>
    /\ UNCHANGED <<home, remembered, soughtHere, remeasured, proved, changes>>

\* A view is asked for a path handed out earlier, or a conversion is wanted.
Open(q) ==
    /\ phase[q] = "idle"
    /\ \E what \in {"pipe", "convert"}, e \in Entries : Choose(q, what, e)
    /\ UNCHANGED <<home, remembered, soughtHere, remeasured, proved, changes>>

-----------------------------------------------------------------------------
(* Measuring (`async_open_playback_stream`).                                *)

\* A deadline that has passed is taken for an answer.
LateSlip(q) ==
    /\ phase[q] = "measuring"
    /\ kind[q] = "panel"
    /\ phase' = [phase EXCEPT ![q] = "done"]
    /\ Hand(q, TRUE)
    /\ UNCHANGED <<home, remembered, kind, order, device, via, soughtHere, remeasured, proved, changes>>

\* MEASURE_SECONDS have passed: the panel is handed the stream's path unmeasured.
Late(q) ==
    /\ phase[q] = "measuring"
    /\ kind[q] = "panel"
    /\ phase' = [phase EXCEPT ![q] = "done"]
    /\ Hand(q, FALSE)
    /\ UNCHANGED <<home, remembered, kind, order, device, via, soughtHere, remeasured, proved, changes>>

\* The URL cannot be built, the device says nothing for PROBE_SECONDS, drops the
\* connection or answers anything but 200: the next route is tried.
Miss(q) ==
    /\ phase[q] = "measuring"
    /\ order[q] # <<>>
    /\ order' = [order EXCEPT ![q] = Tail(@)]
    /\ UNCHANGED <<home, remembered, kind, phase, device, via, given, soughtHere, remeasured,
                   proved, changes>>

\* 200: the route is remembered and used.  A panel or a conversion closes the
\* connection, the pass-through view pipes it.
Hit(q) ==
    LET d == device[q]
        r == Head(order[q])
    IN
    /\ phase[q] = "measuring"
    /\ order[q] # <<>>
    /\ r \in Serves[d]
    /\ Remember(q, d, r)
    /\ order' = [order EXCEPT ![q] = <<>>]
    /\ via' = [via EXCEPT ![q] = r]
    /\ proved' = IF r = "download" THEN proved \cup {d} ELSE proved
    /\ phase' = [phase EXCEPT ![q] = IF kind[q] \in {"panel", "pipe"} THEN "done" ELSE "building"]
    /\ IF kind[q] = "panel" THEN Hand(q, r = "download") ELSE UNCHANGED given
    /\ UNCHANGED <<home, kind, device, soughtHere, changes>>

\* PlaybackRouteError, or the device cannot be read at all: a panel is handed the
\* stream's path all the same, the others fail.
Refuse(q) ==
    /\ phase[q] = "measuring"
    /\ order[q] = <<>>
    /\ IF kind[q] = "panel"
       THEN phase' = [phase EXCEPT ![q] = "done"] /\ Hand(q, FALSE)
       ELSE phase' = [phase EXCEPT ![q] = "refused"] /\ UNCHANGED given
    /\ UNCHANGED <<home, remembered, kind, order, device, via, soughtHere, remeasured, proved, changes>>

-----------------------------------------------------------------------------
(* A conversion.                                                            *)

\* ffmpeg's input seek is read, which a device that cannot be read any more may refuse.
ReadSeek(q) ==
    LET e == device[q] IN
    \/ /\ remembered[e] = "download" \/ HasHost(e)
       /\ phase' = [phase EXCEPT ![q] = "done"]
       /\ soughtHere' = [soughtHere EXCEPT ![q] = InputSeek(e)]
    \/ /\ remembered[e] # "download" /\ ~HasHost(e)
       /\ phase' = [phase EXCEPT ![q] = "refused"]
       /\ UNCHANGED soughtHere

\* `async_playback_source` returns the URL, and the input seek is read at once: except
\* for HLS, whose directory is made in between.  Building the URL may fail.
Build(q) ==
    /\ phase[q] = "building"
    /\ \/ phase' = [phase EXCEPT ![q] = "refused"] /\ UNCHANGED soughtHere
       \/ phase' = [phase EXCEPT ![q] = "making"] /\ UNCHANGED soughtHere
       \/ ReadSeek(q)
    /\ UNCHANGED <<home, remembered, kind, order, device, via, given, remeasured, proved, changes>>

\* `async_start_hls` has its directory.
Made(q) ==
    /\ phase[q] = "making"
    /\ ReadSeek(q)
    /\ UNCHANGED <<home, remembered, kind, order, device, via, given, remeasured, proved, changes>>

\* The request has ended; another one of its kind may come.
Finish(q) ==
    /\ phase[q] \in {"done", "refused"}
    /\ phase' = [phase EXCEPT ![q] = "idle"]
    /\ order' = [order EXCEPT ![q] = <<>>]
    /\ device' = [device EXCEPT ![q] = NoEntry]
    /\ via' = [via EXCEPT ![q] = NoRoute]
    /\ given' = [given EXCEPT ![q] = "nothing"]
    /\ soughtHere' = [soughtHere EXCEPT ![q] = FALSE]
    /\ remeasured' = [remeasured EXCEPT ![q] = FALSE]
    /\ UNCHANGED <<home, kind, remembered, proved, changes>>

-----------------------------------------------------------------------------

\* `async_forget_routes`, when the integration is unloaded.  A request under way goes on.
Reload ==
    /\ changes < MaxChanges
    /\ changes' = changes + 1
    /\ remembered' = [e \in Entries |-> NoRoute]
    /\ remeasured' = [q \in Requests |->
                         remeasured[q] \/ (phase[q] \in {"building", "making"}
                                               /\ remembered[device[q]] # NoRoute)]
    /\ UNCHANGED <<home, asking, proved>>

\* The Reolink integration or the device registry changes.
HomeChanges ==
    /\ changes < MaxChanges
    /\ changes' = changes + 1
    /\ \/ \E e \in Entries : EntryChanges(e)
       \/ \E p \in Places : CameraChanges(p)
    /\ UNCHANGED <<remembered, asking, remeasured, proved>>

Step(q) ==
    \/ Ask(q) \/ Resolve(q) \/ Open(q)
    \/ Late(q) \/ Miss(q) \/ Hit(q) \/ Refuse(q)
    \/ Build(q) \/ Made(q)
    \/ Finish(q)

Next ==
    \/ \E q \in Requests : Step(q)
    \/ Reload
    \/ HomeChanges

Spec == Init /\ [][Next]_vars

-----------------------------------------------------------------------------
(* Properties.                                                              *)

Converted(q) == phase[q] = "done" /\ kind[q] = "convert"

\* The recorder seeks or ffmpeg does.
SeeksOnce(q) == soughtHere[q] <=> ~SeeksItself(via[q])

\* A conversion starts where it was asked to: the recorder seeks or ffmpeg does, never
\* both and never neither, whoever else measures the recorder: the one exception is
\* another request, or a reload, that changes what is remembered after the
\* conversion has settled on its route, and never on a hub (playback_route.py 389-441).
SeekOnceUnlessRemeasured ==
    \A q \in Requests : Converted(q) =>
        \/ SeeksOnce(q)
        \/ remeasured[q] /\ device[q] \notin Hubs

\* The panel is told to expect a whole file only of a device that is known to send
\* one, and the view that pipes never opens one (playback.py 300-335, flv_proxy.py
\* 99-105), whatever was remembered, measured, missed or given up in between.
FilesAreFiles ==
    \A q \in Requests :
        /\ given[q] = "file" => device[q] \in proved \cup Hubs
        /\ (kind[q] = "pipe" /\ phase[q] = "done") => SeeksItself(via[q])

\* "Where the recorder can seek, ffmpeg must not seek again on top of it"
\* (tests/test_playback_route.py 380), and "Nothing seeks a Download, so the offset has
\* to be applied locally" (369).
SeekAppliedOnce == \A q \in Requests : Converted(q) => SeeksOnce(q)
=============================================================================
