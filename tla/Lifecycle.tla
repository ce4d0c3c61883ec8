----------------------------- MODULE Lifecycle ------------------------------
(***************************************************************************)
(* The life of the integration's config entry (__init__.py) and the forms    *)
(* that change it (config_flow.py): set up step by step, reloaded whenever   *)
(* an option or a syncer is changed, unloaded, removed.                      *)
(*                                                                          *)
(* A set-up awaits many times, and any of those steps may raise: Home        *)
(* Assistant then gives the attempt up without unloading what it had         *)
(* started.  The user may edit at any moment, a form takes several pages,    *)
(* and recorders come and go meanwhile.  An attempt to set up is known by    *)
(* its number; what it started is kept under that number, so that something  *)
(* left running is seen.  What the started parts do is in their own modules. *)
(***************************************************************************)
EXTENDS Naturals

CONSTANTS
    Nvrs,        \* the recorders that cloud sync may be set up for
    MaxSetups,   \* bound: attempts to set up
    MaxEdits,    \* bound: edits that are saved
    MaxHome      \* bound: changes at home

Attempts == 1..MaxSetups

ASSUME LifecycleAssumption == MaxSetups \in Nat /\ MaxEdits \in Nat /\ MaxHome \in Nat

VARIABLES
    entry,       \* how far the config entry is
    step,        \* the step of a set-up, an unload or a removal that comes next
    attempt,     \* the latest attempt
    failed,      \* history: the attempts that raised, or whose unload did
    todo,        \* the syncers the attempt has yet to start
    caching,     \* the attempts whose cache is in use
    pending,     \* the attempts whose cache has a delayed save
    syncing,     \* the syncers each attempt has running
    skipped,     \* the syncers it could not honour
    recording,   \* the attempts whose relevance journal is open
    applied,     \* the options each attempt was given
    panel,       \* the sidebar has the panel
    platforms,   \* the switches and sensors are set up
    listening,   \* the update listener is registered
    wantReload,  \* a reload has been asked for
    missed,      \* history: an edit was saved during this set-up
    files,       \* what is on disk: "cache", "journal"
    options,     \* what is saved: `rest`, and the recorders that have `signals`
    configured,  \* the subentries: the recorders that have a syncer
    form,        \* the page of the options form that is shown
    answers,     \* `_pending`: the answers so far
    shown,       \* what each recorder was called on the signals page
    listed,      \* what discovery says of each recorder: by name, as unavailable, not at all
    there,       \* the recorders that exist and whose destination does
    edits, homes

running == <<caching, syncing, recording>>
edited == <<options, configured, form, answers, shown>>
home == <<listed, there>>
vars == <<entry, step, attempt, failed, todo, running, pending, skipped, applied, panel,
          platforms, listening, wantReload, missed, files, edited, home, edits, homes>>

Options == [rest: 0..MaxEdits, signals: SUBSET Nvrs]
NoOptions == [rest |-> 0, signals |-> {}]
Listings == {"named", "unavailable", "absent"}

WorkTypeOK ==
    /\ entry \in {"none", "out", "setup", "loaded", "unload", "failed", "stuck", "removing"}
    /\ step \in {"", "load", "sync", "serve", "forward", "listen",
                 "relevance", "platforms", "stop", "cache", "delete"}
    /\ attempt \in 0..MaxSetups
    /\ failed \in SUBSET Attempts
    /\ todo \in SUBSET Nvrs
    /\ caching \in SUBSET Attempts /\ pending \in SUBSET Attempts
    /\ syncing \in [Attempts -> SUBSET Nvrs]
    /\ skipped \in SUBSET Nvrs
    /\ recording \in SUBSET Attempts
    /\ panel \in BOOLEAN /\ platforms \in BOOLEAN /\ listening \in BOOLEAN
    /\ wantReload \in BOOLEAN /\ missed \in BOOLEAN
    /\ files \in SUBSET {"cache", "journal"}

EditTypeOK ==
    /\ applied \in Options /\ options \in Options /\ answers \in Options
    /\ configured \in SUBSET Nvrs
    /\ form \in {"", "init", "player", "signals", "marking"}
    /\ shown \in [Nvrs -> Listings] /\ listed \in [Nvrs -> Listings]
    /\ there \in SUBSET Nvrs
    /\ edits \in 0..MaxEdits /\ homes \in 0..MaxHome

TypeOK == WorkTypeOK /\ EditTypeOK

\* Home Assistant has started: with nothing set up yet, or with what was saved before.
Init ==
    /\ \/ entry = "none" /\ configured = {} /\ files = {}
       \/ entry = "out" /\ configured \in SUBSET Nvrs /\ files = {"cache", "journal"}
    /\ step = "" /\ attempt = 0 /\ failed = {} /\ todo = {}
    /\ caching = {} /\ pending = {} /\ recording = {} /\ skipped = {}
    /\ syncing = [a \in Attempts |-> {}]
    /\ applied = NoOptions
    /\ panel = FALSE /\ platforms = FALSE /\ listening = FALSE
    /\ wantReload = FALSE /\ missed = FALSE
    /\ options = NoOptions /\ answers = NoOptions
    /\ form = ""
    /\ shown = [n \in Nvrs |-> "absent"]
    /\ listed = [n \in Nvrs |-> "named"]
    /\ there = Nvrs
    /\ edits = 0 /\ homes = 0

-----------------------------------------------------------------------------
(* The config entry.                                                        *)

\* `async_step_user`, or `async_step_dhcp` once a recorder is at work: there is one entry.
AddEntry ==
    /\ entry = "none"
    /\ entry' = "out"
    /\ options' = NoOptions
    /\ configured' = {}
    /\ UNCHANGED <<step, attempt, failed, todo, running, pending, skipped, applied, panel, platforms,
                   listening, wantReload, missed, files, form, answers, shown, home, edits, homes>>

\* `async_setup_entry` begins: the options are read.
BeginSetup ==
    /\ entry = "out"
    /\ attempt < MaxSetups
    /\ entry' = "setup"
    /\ step' = "load"
    /\ attempt' = attempt + 1
    /\ applied' = options
    /\ wantReload' = FALSE
    /\ missed' = FALSE
    /\ UNCHANGED <<failed, todo, running, pending, skipped, panel, platforms, listening, files,
                   edited, home, edits, homes>>

\* `cache.async_load` has returned: the cache is in use, and the syncers are gone through
\* (`_async_start_syncers`) as they are configured now.
LoadCache ==
    /\ entry = "setup" /\ step = "load"
    /\ step' = "sync"
    /\ caching' = caching \cup {attempt}
    /\ todo' = configured
    /\ skipped' = {}
    /\ UNCHANGED <<entry, attempt, failed, pending, syncing, recording, applied, panel, platforms,
                   listening, wantReload, missed, files, edited, home, edits, homes>>

\* One syncer: skipped if its recorder or its destination is gone, or started.
StartSyncer(n) ==
    /\ entry = "setup" /\ step = "sync"
    /\ n \in todo
    /\ todo' = todo \ {n}
    /\ IF n \in there
       THEN syncing' = [syncing EXCEPT ![attempt] = @ \cup {n}] /\ UNCHANGED skipped
       ELSE skipped' = skipped \cup {n} /\ UNCHANGED syncing
    /\ UNCHANGED <<entry, step, attempt, failed, caching, recording, pending, applied, panel, platforms,
                   listening, wantReload, missed, files, edited, home, edits, homes>>

\* All of them have been gone through, and the journal is opened (`async_start_relevance`).
OpenJournal ==
    /\ entry = "setup" /\ step = "sync" /\ todo = {}
    /\ step' = "serve"
    /\ recording' = recording \cup {attempt}
    /\ files' = files \cup {"journal"}
    /\ UNCHANGED <<entry, attempt, failed, todo, caching, syncing, pending, skipped, applied, panel,
                   platforms, listening, wantReload, missed, edited, home, edits, homes>>

\* What an earlier run left is swept, the views and the static files are served, and the
\* panel is registered; registering it over itself raises, see GiveUp.
RegisterPanel ==
    /\ entry = "setup" /\ step = "serve"
    /\ ~panel
    /\ panel' = TRUE
    /\ step' = "forward"
    /\ UNCHANGED <<entry, attempt, failed, todo, running, pending, skipped, applied, platforms,
                   listening, wantReload, missed, files, edited, home, edits, homes>>

\* The platforms are forwarded to if there are syncers for them.
Forward ==
    /\ entry = "setup" /\ step = "forward"
    /\ platforms' = (syncing[attempt] # {})
    /\ step' = "listen"
    /\ UNCHANGED <<entry, attempt, failed, todo, running, pending, skipped, applied, panel, listening,
                   wantReload, missed, files, edited, home, edits, homes>>

\* The listener is registered only where there is something to reload.
ListenSlip ==
    /\ entry = "setup" /\ step = "listen"
    /\ entry' = "loaded"
    /\ step' = ""
    /\ listening' = platforms
    /\ UNCHANGED <<attempt, failed, todo, running, pending, skipped, applied, panel, platforms,
                   wantReload, missed, files, edited, home, edits, homes>>

\* The update listener is registered, and the entry is loaded.
Listen ==
    /\ entry = "setup" /\ step = "listen"
    /\ entry' = "loaded"
    /\ step' = ""
    /\ listening' = TRUE
    /\ UNCHANGED <<attempt, failed, todo, running, pending, skipped, applied, panel, platforms,
                   wantReload, missed, files, edited, home, edits, homes>>

\* A step of the set-up raises: Home Assistant gives the attempt up.
GiveUp ==
    /\ entry = "setup" /\ step # "listen"
    /\ entry' = "failed"
    /\ step' = ""
    /\ failed' = failed \cup {attempt}
    /\ todo' = {}
    /\ UNCHANGED <<attempt, running, pending, skipped, applied, panel, platforms, listening,
                   wantReload, missed, files, edited, home, edits, homes>>

\* A failed entry is reloaded: there is nothing Home Assistant would unload.
Retry ==
    /\ entry = "failed"
    /\ entry' = "out"
    /\ UNCHANGED <<step, attempt, failed, todo, running, pending, skipped, applied, panel, platforms,
                   listening, wantReload, missed, files, edited, home, edits, homes>>

-----------------------------------------------------------------------------
(* Unloading (`async_unload_entry`), for a reload, a removal or at the user's wish. *)

\* The panel goes, and the conversions are stopped.
BeginUnload ==
    /\ entry = "loaded"
    /\ entry' = "unload"
    /\ step' = "relevance"
    /\ panel' = FALSE
    /\ UNCHANGED <<attempt, failed, todo, running, pending, skipped, applied, platforms, listening,
                   wantReload, missed, files, edited, home, edits, homes>>

\* The syncers are gone through as they are configured by now, and a deleted one is not.
CloseJournalSlip ==
    /\ entry = "unload" /\ step = "relevance"
    /\ step' = IF syncing[attempt] \cap configured # {} THEN "platforms" ELSE "cache"
    /\ recording' = recording \ {attempt}
    /\ UNCHANGED <<entry, attempt, failed, todo, caching, syncing, pending, skipped, applied, panel,
                   platforms, listening, wantReload, missed, files, edited, home, edits, homes>>

\* What was buffered is written and the journal closed, before anything else may fail.
CloseJournal ==
    /\ entry = "unload" /\ step = "relevance"
    /\ step' = IF syncing[attempt] # {} THEN "platforms" ELSE "cache"
    /\ recording' = recording \ {attempt}
    /\ UNCHANGED <<entry, attempt, failed, todo, caching, syncing, pending, skipped, applied, panel,
                   platforms, listening, wantReload, missed, files, edited, home, edits, homes>>

\* The switches and sensors go first.
UnloadPlatforms ==
    /\ entry = "unload" /\ step = "platforms"
    /\ step' = "stop"
    /\ platforms' = FALSE
    /\ UNCHANGED <<entry, attempt, failed, todo, running, pending, skipped, applied, panel, listening,
                   wantReload, missed, files, edited, home, edits, homes>>

\* Each syncer is stopped, whatever is configured by now.
StopSyncer(n) ==
    /\ entry = "unload" /\ step = "stop"
    /\ n \in syncing[attempt]
    /\ syncing' = [syncing EXCEPT ![attempt] = @ \ {n}]
    /\ step' = IF syncing[attempt] = {n} THEN "cache" ELSE step
    /\ UNCHANGED <<entry, attempt, failed, todo, caching, recording, pending, skipped, applied, panel,
                   platforms, listening, wantReload, missed, files, edited, home, edits, homes>>

\* The measured routes are forgotten and the cache is shut down: its searches are
\* cancelled, its delayed save is not.  Home Assistant then lets go of the listener.
Unloaded ==
    /\ entry = "unload" /\ step = "cache"
    /\ entry' = "out"
    /\ step' = ""
    /\ caching' = caching \ {attempt}
    /\ listening' = FALSE
    /\ UNCHANGED <<attempt, failed, todo, syncing, recording, pending, skipped, applied, panel,
                   platforms, wantReload, missed, files, edited, home, edits, homes>>

\* A step of the unload raises: the entry cannot be set up again in this run.
Stick ==
    /\ entry = "unload"
    /\ entry' = "stuck"
    /\ step' = ""
    /\ failed' = failed \cup {attempt}
    /\ UNCHANGED <<attempt, todo, running, pending, skipped, applied, panel, platforms,
                   listening, wantReload, missed, files, edited, home, edits, homes>>

\* `async_remove_entry`: a cache of its own deletes the file, then a journal does.
BeginRemoval ==
    /\ entry \in {"out", "failed", "stuck"}
    /\ entry' = "removing"
    /\ step' = "delete"
    /\ files' = files \ {"cache"}
    /\ UNCHANGED <<attempt, failed, todo, running, pending, skipped, applied, panel, platforms,
                   listening, wantReload, missed, edited, home, edits, homes>>

Removed ==
    /\ entry = "removing"
    /\ entry' = "none"
    /\ step' = ""
    /\ files' = files \ {"journal"}
    /\ listening' = FALSE
    /\ wantReload' = FALSE
    /\ UNCHANGED <<attempt, failed, todo, running, pending, skipped, applied, panel, platforms,
                   missed, edited, home, edits, homes>>

\* A search lands in a cache, which is to be saved soon.  The first set-up registers what
\* can be asked to search once the journal is open; it stays registered.
Cached(a) ==
    /\ a \in caching \ pending
    /\ attempt = 1 /\ entry \in {"setup", "failed"} => recording # {}
    /\ pending' = pending \cup {a}
    /\ UNCHANGED <<entry, step, attempt, failed, todo, running, skipped, applied, panel, platforms,
                   listening, wantReload, missed, files, edited, home, edits, homes>>

\* The delayed save of a cache is written.
SaveLands(a) ==
    /\ a \in pending
    /\ pending' = pending \ {a}
    /\ files' = files \cup {"cache"}
    /\ UNCHANGED <<entry, step, attempt, failed, todo, running, skipped, applied, panel, platforms,
                   listening, wantReload, missed, edited, home, edits, homes>>

-----------------------------------------------------------------------------
(* The forms.                                                               *)

\* An edit is saved: whoever listens has the entry reloaded (`_async_options_updated`).
Saved ==
    /\ edits < MaxEdits
    /\ edits' = edits + 1
    /\ wantReload' = (wantReload \/ listening)
    /\ missed' = (missed \/ (entry = "setup" /\ ~listening))

formOnly == <<entry, step, attempt, failed, todo, running, pending, skipped, applied, panel,
              platforms, listening, wantReload, missed, files, configured, home, edits, homes>>

OpenForm ==
    /\ form = "" /\ entry # "none"
    /\ edits < MaxEdits
    /\ form' = "init"
    /\ UNCHANGED <<formOnly, options, answers, shown>>

\* `async_step_init`: the options are copied with the first answers; `async_step_player`
\* adds its own.
Answer ==
    /\ \/ /\ form = "init"
          /\ form' = "player"
          /\ \E r \in {options.rest, edits + 1} \cap (0..MaxEdits) :
                 answers' = [options EXCEPT !.rest = r]
          /\ UNCHANGED shown
       \/ /\ form = "player"
          /\ IF \E n \in Nvrs : listed[n] # "absent"
             THEN form' = "signals" /\ shown' = listed
             ELSE form' = "marking" /\ UNCHANGED shown
          /\ UNCHANGED answers
    /\ UNCHANGED <<formOnly, options>>

\* `async_step_signals`: the answers are taken under the names that recorders have by
\* now; a recorder that is called otherwise, or not listed, has no signals left.
PickSignals ==
    /\ form = "signals"
    /\ form' = "marking"
    /\ \E picked \in SUBSET {n \in Nvrs : shown[n] # "absent"} :
           answers' = [answers EXCEPT !.signals = {n \in picked : listed[n] = shown[n]}]
    /\ shown' = [n \in Nvrs |-> "absent"]
    /\ UNCHANGED <<formOnly, options>>

FormGone ==
    /\ form' = ""
    /\ answers' = NoOptions
    /\ shown' = [n \in Nvrs |-> "absent"]

\* `async_step_marking`: everything is saved at once.
SaveForm ==
    /\ form = "marking"
    /\ entry # "none"
    /\ FormGone
    /\ options' = answers
    /\ Saved
    /\ UNCHANGED <<entry, step, attempt, failed, todo, running, pending, skipped, applied, panel,
                   platforms, listening, files, configured, home, homes>>

\* The form is closed, or its entry has gone.
CloseForm ==
    /\ form # ""
    /\ FormGone
    /\ UNCHANGED <<formOnly, options>>

\* The subentry form: one syncer for each recorder, of those that are offered
\* (`_unsynced_nvrs`).  A syncer is deleted, or its settings changed, at any time.
EditSyncers ==
    /\ entry \notin {"none", "removing"}
    /\ \E n \in Nvrs :
           \/ listed[n] # "absent" /\ n \notin configured /\ configured' = configured \cup {n}
           \/ n \in configured /\ configured' \in {configured, configured \ {n}}
    /\ Saved
    /\ UNCHANGED <<entry, step, attempt, failed, todo, running, pending, skipped, applied, panel,
                   platforms, listening, files, options, form, answers, shown, home, homes>>

\* A recorder or a destination comes, goes, or is renamed by being (un)available.
HomeChanges ==
    /\ homes < MaxHome
    /\ homes' = homes + 1
    /\ \/ \E n \in Nvrs, l \in Listings : listed' = [listed EXCEPT ![n] = l] /\ UNCHANGED there
       \/ \E n \in Nvrs : there' = there \ {n} /\ n \in there /\ UNCHANGED listed
    /\ UNCHANGED <<entry, step, attempt, failed, todo, running, pending, skipped, applied, panel,
                   platforms, listening, wantReload, missed, files, edited, edits>>

-----------------------------------------------------------------------------

SettingUp ==
    \/ AddEntry \/ BeginSetup \/ LoadCache
    \/ \E n \in Nvrs : StartSyncer(n)
    \/ OpenJournal \/ RegisterPanel \/ Forward \/ Listen \/ GiveUp \/ Retry

Unloading ==
    \/ BeginUnload \/ CloseJournal \/ UnloadPlatforms
    \/ \E n \in Nvrs : StopSyncer(n)
    \/ Unloaded \/ Stick \/ BeginRemoval \/ Removed

Editing ==
    \/ OpenForm \/ Answer \/ PickSignals \/ SaveForm \/ CloseForm
    \/ EditSyncers \/ HomeChanges

Next ==
    \/ SettingUp
    \/ Unloading
    \/ \E a \in Attempts : Cached(a) \/ SaveLands(a)
    \/ Editing

Spec == Init /\ [][Next]_vars

-----------------------------------------------------------------------------
(* Properties.                                                              *)

\* What runs was started by the attempt that is current, while the entry is set up,
\* loaded or being unloaded.  Only an attempt that raised, or an unload that did, leaves
\* syncers, a journal or a cache at work behind it, so that without such a failure
\* no recorder is ever watched twice (__init__.py 206-369).
OnlyFailuresLeak ==
    \A a \in Attempts :
        (syncing[a] # {} \/ a \in recording \cup caching) =>
            \/ a = attempt /\ entry \in {"setup", "loaded", "unload"}
            \/ a \in failed

\* Once loaded and not about to be reloaded, what runs is what is saved: the options and
\* exactly the syncers that are configured and could be honoured, each shown by its
\* entities; unless an edit was saved while the entry was being set up
\* (__init__.py 279-281, 384-390).
LoadedIsCurrent ==
    (entry = "loaded" /\ ~wantReload /\ ~missed) =>
        /\ applied = options
        /\ syncing[attempt] \cup skipped = configured
        /\ platforms <=> syncing[attempt] # {}
        /\ panel /\ attempt \in recording \cap caching

\* "The cached search results are a convenience; the journal is a record of when a
\* household is in and out. Neither should survive somebody removing the integration"
\* (__init__.py 375-377): once it is gone nothing puts them back.
RemovedLeavesNothing == entry = "none" => files = {}
=============================================================================
