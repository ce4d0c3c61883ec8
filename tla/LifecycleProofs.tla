-------------------------- MODULE LifecycleProofs ---------------------------
(***************************************************************************)
(* Proofs about Lifecycle, for any recorders and bounds.  That an attempt    *)
(* leaves nothing behind rests on the order in which an unload stops things; *)
(* that what is loaded is what is saved rests on what each step of the       *)
(* set-up has done by then, and on nobody listening before the last.         *)
(***************************************************************************)
EXTENDS Lifecycle, TLAPS

Active == {"setup", "loaded", "unload"}

\* An attempt that has not begun has nothing at work.
FutureIsIdle ==
    \A a \in Attempts : a > attempt =>
        syncing[a] = {} /\ a \notin recording /\ a \notin caching

\* An entry that is at work has an attempt, and the step that comes next fits.
StepFits ==
    /\ entry \in Active => attempt \in Attempts
    /\ entry = "setup" => step \in {"load", "sync", "serve", "forward", "listen"}
    /\ entry = "unload" => step \in {"relevance", "platforms", "stop", "cache"}

\* How far an unload has come.
UnloadStops ==
    entry = "unload" =>
        /\ step # "relevance" => attempt \notin recording
        /\ step = "cache" => syncing[attempt] = {}

\* Nobody listens until an entry is loaded, and then somebody does.
ListensWhenLoaded ==
    /\ entry \in {"none", "out", "setup", "failed"} => ~listening
    /\ entry = "loaded" => listening

\* What a set-up has done when it comes to a step.
SetupHasDone ==
    entry = "setup" =>
        /\ step = "load" => syncing[attempt] = {}
        /\ step # "load" => attempt \in caching
        /\ step \in {"serve", "forward", "listen"} => attempt \in recording
        /\ step \in {"forward", "listen"} => panel
        /\ step = "listen" => (platforms <=> syncing[attempt] # {})

\* What it has set up is what is saved, unless that changed meanwhile.
SetupIsCurrent ==
    entry = "setup" /\ ~missed =>
        /\ applied = options
        /\ step = "sync" => todo \cup syncing[attempt] \cup skipped = configured
        /\ step \in {"serve", "forward", "listen"} => syncing[attempt] \cup skipped = configured

IInv ==
    /\ TypeOK /\ FutureIsIdle /\ StepFits /\ UnloadStops /\ OnlyFailuresLeak
    /\ ListensWhenLoaded /\ SetupHasDone /\ SetupIsCurrent /\ LoadedIsCurrent

LEMMA NoOptionsAreOptions == NoOptions \in Options
  BY LifecycleAssumption DEF NoOptions, Options

LEMMA InitIInv == Init => IInv
<1>. SUFFICES ASSUME Init PROVE IInv
  OBVIOUS
<1>1. WorkTypeOK
  <2>1. entry \in {"none", "out"} /\ files \in SUBSET {"cache", "journal"} /\ attempt = 0
    BY DEF Init
  <2>2. syncing \in [Attempts -> SUBSET Nvrs]
    BY DEF Init
  <2>3. attempt \in 0..MaxSetups
    BY <2>1, LifecycleAssumption
  <2>. QED
    BY <2>1, <2>2, <2>3 DEF WorkTypeOK, Init
<1>2. EditTypeOK
  <2>1. configured \in SUBSET Nvrs
    BY DEF Init
  <2>2. shown \in [Nvrs -> Listings] /\ listed \in [Nvrs -> Listings]
    BY DEF Init, Listings
  <2>3. applied \in Options /\ options \in Options /\ answers \in Options
    BY NoOptionsAreOptions DEF Init
  <2>4. edits = 0 /\ homes = 0
    BY DEF Init
  <2>5. edits \in 0..MaxEdits /\ homes \in 0..MaxHome
    BY <2>4, LifecycleAssumption
  <2>. QED
    BY <2>1, <2>2, <2>3, <2>5 DEF EditTypeOK, Init
<1>3. FutureIsIdle /\ StepFits /\ UnloadStops /\ OnlyFailuresLeak
  BY DEF Init, FutureIsIdle, StepFits, UnloadStops, OnlyFailuresLeak, Active
<1>4. ListensWhenLoaded /\ SetupHasDone /\ SetupIsCurrent /\ LoadedIsCurrent
  BY DEF Init, ListensWhenLoaded, SetupHasDone, SetupIsCurrent, LoadedIsCurrent
<1>. QED
  BY <1>1, <1>2, <1>3, <1>4 DEF IInv, TypeOK

-----------------------------------------------------------------------------
(* The state keeps its type.                                                *)

LEMMA AnotherAttempt ==
    ASSUME NEW n \in 0..MaxSetups, n < MaxSetups
    PROVE  n + 1 \in 0..MaxSetups /\ n + 1 \in Attempts /\ n + 1 > n
  BY LifecycleAssumption DEF Attempts

LEMMA AnotherEdit ==
    ASSUME NEW n \in 0..MaxEdits, n < MaxEdits
    PROVE  n + 1 \in 0..MaxEdits
  BY LifecycleAssumption

LEMMA AnotherChange ==
    ASSUME NEW n \in 0..MaxHome, n < MaxHome
    PROVE  n + 1 \in 0..MaxHome
  BY LifecycleAssumption

LEMMA AnswersAreOptions ==
    ASSUME NEW o \in Options, NEW r \in 0..MaxEdits
    PROVE  [o EXCEPT !.rest = r] \in Options
  BY DEF Options

LEMMA SignalsAreOptions ==
    ASSUME NEW o \in Options, NEW picked \in SUBSET Nvrs
    PROVE  [o EXCEPT !.signals = picked] \in Options
  BY DEF Options

\* What the forms, the home and a delayed save leave alone.
busy == <<entry, step, attempt, failed, todo, caching, syncing, recording, skipped, panel, platforms,
          listening, wantReload, missed>>

LEMMA OnlySavesMove ==
    ASSUME WorkTypeOK, UNCHANGED busy,
           pending' \in SUBSET Attempts, files' \in SUBSET {"cache", "journal"}
    PROVE  WorkTypeOK'
<1>1. /\ entry' = entry /\ step' = step /\ attempt' = attempt /\ failed' = failed /\ todo' = todo
      /\ caching' = caching /\ syncing' = syncing /\ recording' = recording /\ skipped' = skipped
  BY DEF busy
<1>2. /\ panel' \in BOOLEAN /\ platforms' \in BOOLEAN /\ listening' \in BOOLEAN
      /\ wantReload' \in BOOLEAN /\ missed' \in BOOLEAN
  BY DEF WorkTypeOK, busy
<1>. QED
  BY <1>1, <1>2 DEF WorkTypeOK

LEMMA WorkTypeKept ==
    ASSUME TypeOK, StepFits, [Next]_vars
    PROVE  WorkTypeOK'
<1>0. entry \in Active => attempt \in Attempts
  BY DEF StepFits
<1>. USE DEF TypeOK, WorkTypeOK, running
<1>1. CASE SettingUp
  <2>1. CASE AddEntry
    BY <2>1 DEF AddEntry
  <2>2. CASE BeginSetup
    <3>1. attempt \in 0..MaxSetups /\ attempt < MaxSetups /\ attempt' = attempt + 1
      BY <2>2 DEF BeginSetup
    <3>. QED
      BY <2>2, <3>1, AnotherAttempt DEF BeginSetup
  <2>3. CASE LoadCache
    BY <1>0, <2>3 DEF LoadCache, EditTypeOK, Active
  <2>4. ASSUME NEW n \in Nvrs, StartSyncer(n) PROVE WorkTypeOK'
    BY <1>0, <2>4 DEF StartSyncer, Active
  <2>5. CASE OpenJournal
    BY <1>0, <2>5 DEF OpenJournal, Active
  <2>6. CASE RegisterPanel
    BY <2>6 DEF RegisterPanel
  <2>7. CASE Forward
    BY <2>7 DEF Forward
  <2>8. CASE Listen
    BY <2>8 DEF Listen
  <2>9. CASE GiveUp
    BY <1>0, <2>9 DEF GiveUp, Active
  <2>10. CASE Retry
    BY <2>10 DEF Retry
  <2>. QED
    BY <1>1, <2>1, <2>2, <2>3, <2>4, <2>5, <2>6, <2>7, <2>8, <2>9, <2>10 DEF SettingUp
<1>2. CASE Unloading
  <2>1. CASE BeginUnload
    BY <2>1 DEF BeginUnload
  <2>2. CASE CloseJournal
    BY <2>2 DEF CloseJournal
  <2>3. CASE UnloadPlatforms
    BY <2>3 DEF UnloadPlatforms
  <2>4. ASSUME NEW n \in Nvrs, StopSyncer(n) PROVE WorkTypeOK'
    BY <1>0, <2>4 DEF StopSyncer, Active
  <2>5. CASE Unloaded
    BY <2>5 DEF Unloaded
  <2>6. CASE Stick
    BY <1>0, <2>6 DEF Stick, Active
  <2>7. CASE BeginRemoval
    BY <2>7 DEF BeginRemoval
  <2>8. CASE Removed
    BY <2>8 DEF Removed
  <2>. QED
    BY <1>2, <2>1, <2>2, <2>3, <2>4, <2>5, <2>6, <2>7, <2>8 DEF Unloading
<1>3. ASSUME NEW a \in Attempts, Cached(a) \/ SaveLands(a) PROVE WorkTypeOK'
  <2>1. UNCHANGED busy
    BY <1>3 DEF Cached, SaveLands, busy
  <2>2. pending' \in SUBSET Attempts
    BY <1>3 DEF Cached, SaveLands
  <2>3. files' \in SUBSET {"cache", "journal"}
    BY <1>3 DEF Cached, SaveLands
  <2>. QED
    BY <2>1, <2>2, <2>3, OnlySavesMove
<1>4. CASE Editing
  <2>1. CASE OpenForm \/ CloseForm \/ Answer \/ PickSignals
    <3>1. UNCHANGED busy /\ UNCHANGED <<pending, files>>
      BY <2>1 DEF OpenForm, CloseForm, Answer, PickSignals, formOnly, busy
    <3>. QED
      BY <3>1, OnlySavesMove
  <2>2. CASE SaveForm
    BY <2>2 DEF SaveForm, Saved
  <2>3. CASE EditSyncers
    BY <2>3 DEF EditSyncers, Saved
  <2>4. CASE HomeChanges
    <3>1. UNCHANGED busy /\ UNCHANGED <<pending, files>>
      BY <2>4 DEF HomeChanges, busy
    <3>. QED
      BY <3>1, OnlySavesMove
  <2>. QED
    BY <1>4, <2>1, <2>2, <2>3, <2>4 DEF Editing
<1>5. CASE UNCHANGED vars
  <2>1. UNCHANGED busy /\ UNCHANGED <<pending, files>>
    BY <1>5 DEF vars, busy
  <2>. QED
    BY <2>1, OnlySavesMove
<1>. QED
  BY <1>1, <1>2, <1>3, <1>4, <1>5 DEF Next

LEMMA EditTypeKept ==
    ASSUME TypeOK, [Next]_vars
    PROVE  EditTypeOK'
<1>. USE LifecycleAssumption DEF TypeOK, EditTypeOK, edited, home
<1>1. CASE SettingUp
  <2>1. CASE AddEntry
    BY <2>1, NoOptionsAreOptions DEF AddEntry
  <2>2. CASE BeginSetup
    BY <2>2 DEF BeginSetup
  <2>3. CASE LoadCache
    BY <2>3 DEF LoadCache
  <2>4. ASSUME NEW n \in Nvrs, StartSyncer(n) PROVE EditTypeOK'
    BY <2>4 DEF StartSyncer
  <2>5. CASE OpenJournal
    BY <2>5 DEF OpenJournal
  <2>6. CASE RegisterPanel
    BY <2>6 DEF RegisterPanel
  <2>7. CASE Forward
    BY <2>7 DEF Forward
  <2>8. CASE Listen
    BY <2>8 DEF Listen
  <2>9. CASE GiveUp
    BY <2>9 DEF GiveUp
  <2>10. CASE Retry
    BY <2>10 DEF Retry
  <2>. QED
    BY <1>1, <2>1, <2>2, <2>3, <2>4, <2>5, <2>6, <2>7, <2>8, <2>9, <2>10 DEF SettingUp
<1>2. CASE Unloading
  <2>1. CASE BeginUnload \/ CloseJournal \/ UnloadPlatforms
    BY <2>1 DEF BeginUnload, CloseJournal, UnloadPlatforms
  <2>2. ASSUME NEW n \in Nvrs, StopSyncer(n) PROVE EditTypeOK'
    BY <2>2 DEF StopSyncer
  <2>3. CASE Unloaded \/ Stick \/ BeginRemoval \/ Removed
    BY <2>3 DEF Unloaded, Stick, BeginRemoval, Removed
  <2>. QED
    BY <1>2, <2>1, <2>2, <2>3 DEF Unloading
<1>3. ASSUME NEW a \in Attempts, Cached(a) \/ SaveLands(a) PROVE EditTypeOK'
  BY <1>3 DEF Cached, SaveLands
<1>4. CASE Editing
  <2>1. CASE OpenForm
    BY <2>1 DEF OpenForm, formOnly
  <2>2. CASE CloseForm
    <3>1. shown' \in [Nvrs -> Listings]
      BY <2>2 DEF CloseForm, FormGone, Listings
    <3>. QED
      BY <2>2, <3>1, NoOptionsAreOptions DEF CloseForm, FormGone, formOnly
  <2>3. CASE Answer
    <3>1. answers' \in Options
      BY <2>3, AnswersAreOptions DEF Answer
    <3>2. shown' \in [Nvrs -> Listings] /\ form' \in {"player", "signals", "marking"}
      BY <2>3 DEF Answer
    <3>. QED
      BY <2>3, <3>1, <3>2 DEF Answer, formOnly
  <2>4. CASE PickSignals
    <3>1. answers' \in Options
      BY <2>4, SignalsAreOptions DEF PickSignals
    <3>2. shown' \in [Nvrs -> Listings] /\ form' = "marking"
      BY <2>4 DEF PickSignals, Listings
    <3>. QED
      BY <2>4, <3>1, <3>2 DEF PickSignals, formOnly
  <2>5. CASE SaveForm
    <3>1. shown' \in [Nvrs -> Listings]
      BY <2>5 DEF SaveForm, FormGone, Listings
    <3>2. edits' \in 0..MaxEdits
      BY <2>5, AnotherEdit DEF SaveForm, Saved
    <3>. QED
      BY <2>5, <3>1, <3>2, NoOptionsAreOptions DEF SaveForm, FormGone
  <2>6. CASE EditSyncers
    <3>1. edits' \in 0..MaxEdits
      BY <2>6, AnotherEdit DEF EditSyncers, Saved
    <3>2. configured' \in SUBSET Nvrs
      BY <2>6 DEF EditSyncers
    <3>. QED
      BY <2>6, <3>1, <3>2 DEF EditSyncers
  <2>7. CASE HomeChanges
    <3>1. homes' \in 0..MaxHome
      BY <2>7, AnotherChange DEF HomeChanges
    <3>2. listed' \in [Nvrs -> Listings] /\ there' \in SUBSET Nvrs
      BY <2>7 DEF HomeChanges
    <3>. QED
      BY <2>7, <3>1, <3>2 DEF HomeChanges
  <2>. QED
    BY <1>4, <2>1, <2>2, <2>3, <2>4, <2>5, <2>6, <2>7 DEF Editing
<1>5. CASE UNCHANGED vars
  BY <1>5 DEF vars
<1>. QED
  BY <1>1, <1>2, <1>3, <1>4, <1>5 DEF Next

-----------------------------------------------------------------------------
(* Nothing is left behind but by a failure.                                  *)

LEMMA NothingLeftKept ==
    ASSUME TypeOK, StepFits, FutureIsIdle, UnloadStops, OnlyFailuresLeak, [Next]_vars
    PROVE  FutureIsIdle' /\ StepFits' /\ UnloadStops' /\ OnlyFailuresLeak'
<1>. USE DEF FutureIsIdle, StepFits, UnloadStops, OnlyFailuresLeak, Active, running
<1>0. /\ attempt \in 0..MaxSetups /\ syncing \in [Attempts -> SUBSET Nvrs]
      /\ recording \in SUBSET Attempts /\ caching \in SUBSET Attempts
      /\ failed \in SUBSET Attempts
  BY DEF TypeOK, WorkTypeOK
<1>1. CASE AddEntry \/ Retry \/ BeginRemoval \/ Removed
  BY <1>1 DEF AddEntry, Retry, BeginRemoval, Removed
<1>2. CASE BeginSetup
  <2>1. attempt < MaxSetups /\ attempt' = attempt + 1
    BY <1>2 DEF BeginSetup
  <2>2. attempt' \in Attempts /\ attempt' > attempt
    BY <1>0, <2>1, AnotherAttempt
  <2>3. \A a \in Attempts : a > attempt' => a > attempt
    BY <1>0, <2>1, LifecycleAssumption DEF Attempts
  <2>4. \A a \in Attempts : (syncing[a] # {} \/ a \in recording \cup caching) => a \in failed
    <3>1. entry = "out"
      BY <1>2 DEF BeginSetup
    <3>. QED
      BY <3>1
  <2>5. FutureIsIdle'
    <3>1. syncing' = syncing /\ recording' = recording /\ caching' = caching
      BY <1>2 DEF BeginSetup
    <3>. QED
      BY <2>3, <3>1
  <2>6. StepFits' /\ UnloadStops'
    BY <1>2, <2>2 DEF BeginSetup
  <2>7. OnlyFailuresLeak'
    BY <1>2, <2>4 DEF BeginSetup
  <2>. QED
    BY <2>5, <2>6, <2>7
<1>3. CASE LoadCache
  BY <1>0, <1>3 DEF LoadCache
<1>4. ASSUME NEW n \in Nvrs, StartSyncer(n) PROVE FutureIsIdle' /\ StepFits' /\ UnloadStops' /\ OnlyFailuresLeak'
  BY <1>0, <1>4 DEF StartSyncer
<1>5. CASE OpenJournal
  BY <1>0, <1>5 DEF OpenJournal
<1>6. CASE RegisterPanel \/ Forward \/ Listen \/ GiveUp
  BY <1>0, <1>6 DEF RegisterPanel, Forward, Listen, GiveUp
<1>7. CASE BeginUnload
  BY <1>0, <1>7 DEF BeginUnload
<1>8. CASE CloseJournal
  BY <1>0, <1>8 DEF CloseJournal
<1>9. CASE UnloadPlatforms
  BY <1>0, <1>9 DEF UnloadPlatforms
<1>10. ASSUME NEW n \in Nvrs, StopSyncer(n) PROVE FutureIsIdle' /\ StepFits' /\ UnloadStops' /\ OnlyFailuresLeak'
  BY <1>0, <1>10 DEF StopSyncer
<1>11. CASE Unloaded \/ Stick
  BY <1>0, <1>11 DEF Unloaded, Stick
<1>12. ASSUME NEW a \in Attempts, Cached(a) \/ SaveLands(a)
       PROVE  FutureIsIdle' /\ StepFits' /\ UnloadStops' /\ OnlyFailuresLeak'
  BY <1>12 DEF Cached, SaveLands
<1>13. CASE Editing
  BY <1>13 DEF Editing, OpenForm, CloseForm, Answer, PickSignals, SaveForm, EditSyncers, HomeChanges, formOnly
<1>14. CASE UNCHANGED vars
  BY <1>14 DEF vars
<1>. QED
  BY <1>1, <1>2, <1>3, <1>4, <1>5, <1>6, <1>7, <1>8, <1>9, <1>10, <1>11, <1>12, <1>13, <1>14
     DEF Next, SettingUp, Unloading

-----------------------------------------------------------------------------
(* What is loaded is what is saved.                                          *)

Currency == ListensWhenLoaded /\ SetupHasDone /\ SetupIsCurrent /\ LoadedIsCurrent

LEMMA CurrencyKept ==
    ASSUME TypeOK, StepFits, FutureIsIdle, Currency, [Next]_vars
    PROVE  Currency'
<1>. USE DEF Currency, ListensWhenLoaded, SetupHasDone, SetupIsCurrent, LoadedIsCurrent, StepFits,
             Active, running, edited
<1>0. /\ attempt \in 0..MaxSetups /\ syncing \in [Attempts -> SUBSET Nvrs]
      /\ panel \in BOOLEAN /\ platforms \in BOOLEAN /\ listening \in BOOLEAN
      /\ wantReload \in BOOLEAN /\ missed \in BOOLEAN
  BY DEF TypeOK, WorkTypeOK
<1>1. CASE AddEntry \/ Retry
  BY <1>1 DEF AddEntry, Retry
<1>2. CASE BeginSetup
  <2>1. attempt' \in Attempts /\ attempt' > attempt
    BY <1>0, <1>2, AnotherAttempt DEF BeginSetup
  <2>2. syncing[attempt'] = {}
    BY <2>1 DEF FutureIsIdle
  <2>. QED
    BY <1>2, <2>2 DEF BeginSetup
<1>3. CASE LoadCache
  BY <1>3 DEF LoadCache
<1>4. ASSUME NEW n \in Nvrs, StartSyncer(n) PROVE Currency'
  <2>1. entry = "setup" /\ step = "sync" /\ attempt \in Attempts
    BY <1>4 DEF StartSyncer
  <2>2. todo' \cup syncing'[attempt] \cup skipped' = todo \cup syncing[attempt] \cup skipped
    BY <1>0, <1>4, <2>1 DEF StartSyncer
  <2>. QED
    BY <1>4, <2>1, <2>2 DEF StartSyncer
<1>5. CASE OpenJournal
  BY <1>5 DEF OpenJournal
<1>6. CASE RegisterPanel
  BY <1>6 DEF RegisterPanel
<1>7. CASE Forward
  BY <1>7 DEF Forward
<1>8. CASE Listen
  BY <1>8 DEF Listen
<1>9. CASE GiveUp
  BY <1>9 DEF GiveUp
<1>10. CASE BeginUnload \/ CloseJournal \/ UnloadPlatforms
  BY <1>10 DEF BeginUnload, CloseJournal, UnloadPlatforms
<1>11. ASSUME NEW n \in Nvrs, StopSyncer(n) PROVE Currency'
  BY <1>11 DEF StopSyncer
<1>12. CASE Unloaded \/ Stick \/ BeginRemoval \/ Removed
  BY <1>12 DEF Unloaded, Stick, BeginRemoval, Removed
<1>13. ASSUME NEW a \in Attempts, Cached(a) \/ SaveLands(a) PROVE Currency'
  BY <1>13 DEF Cached, SaveLands
<1>14. CASE OpenForm \/ CloseForm \/ Answer \/ PickSignals
  <2>1. UNCHANGED <<entry, step, attempt, syncing, recording, caching, todo, skipped, applied, panel,
                   platforms, listening, wantReload, missed, options, configured>>
    BY <1>14 DEF OpenForm, CloseForm, Answer, PickSignals, formOnly
  <2>. QED
    BY <2>1
<1>15. CASE SaveForm
  BY <1>15 DEF SaveForm, Saved
<1>16. CASE EditSyncers
  BY <1>16 DEF EditSyncers, Saved
<1>17. CASE HomeChanges
  BY <1>17 DEF HomeChanges
<1>18. CASE UNCHANGED vars
  BY <1>18 DEF vars
<1>. QED
  BY <1>1, <1>2, <1>3, <1>4, <1>5, <1>6, <1>7, <1>8, <1>9, <1>10, <1>11, <1>12, <1>13, <1>14,
     <1>15, <1>16, <1>17, <1>18 DEF Next, SettingUp, Unloading, Editing

-----------------------------------------------------------------------------

LEMMA NextIInv == IInv /\ [Next]_vars => IInv'
<1>. SUFFICES ASSUME IInv, [Next]_vars PROVE IInv'
  OBVIOUS
<1>1. TypeOK'
  BY WorkTypeKept, EditTypeKept DEF IInv, TypeOK
<1>2. FutureIsIdle' /\ StepFits' /\ UnloadStops' /\ OnlyFailuresLeak'
  BY NothingLeftKept DEF IInv
<1>3. Currency'
  BY CurrencyKept DEF IInv, Currency
<1>. QED
  BY <1>1, <1>2, <1>3 DEF IInv, Currency

LEMMA AlwaysIInv == Spec => []IInv
<1>. QED
  BY InitIInv, NextIInv, PTL DEF Spec

\* The state has its type, for any recorders and bounds.
THEOREM LifecycleTypeOK == Spec => []TypeOK
<1>1. IInv => TypeOK
  BY DEF IInv
<1>. QED
  BY <1>1, AlwaysIInv, PTL

\* Only an attempt that raised, or an unload that did, leaves anything at work (__init__.py
\* 206-369): however edits, removals and changes at home fall between the steps.
THEOREM OnlyFailuresEverLeak == Spec => []OnlyFailuresLeak
<1>1. IInv => OnlyFailuresLeak
  BY DEF IInv
<1>. QED
  BY <1>1, AlwaysIInv, PTL

\* A loaded entry that is not about to be reloaded runs what is saved, unless it was edited
\* while it was being set up (__init__.py 279-281, 384-390).
THEOREM LoadedIsAlwaysCurrent == Spec => []LoadedIsCurrent
<1>1. IInv => LoadedIsCurrent
  BY DEF IInv
<1>. QED
  BY <1>1, AlwaysIInv, PTL
=============================================================================
