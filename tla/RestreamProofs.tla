--------------------------- MODULE RestreamProofs ---------------------------
(***************************************************************************)
(* Proofs about Restream, for any requests, readers and encoders.  What runs *)
(* has the slot because the slot is taken and the ffmpeg of whoever had it   *)
(* killed in one step (HaveOwners); who has the slot is attended to, or was   *)
(* abandoned, because a watchdog is cancelled only where the slot is given   *)
(* up (Held).  That blame is deserved rests on who can have the slot: a       *)
(* request that started its ffmpeg, that nobody has killed, and that has not  *)
(* failed before (Slot).                                                      *)
(***************************************************************************)
EXTENDS Restream, TLAPS

Unstarted == {"new", "choosing", "probing", "spawning"}

\* The encoder being tested is a hardware one.
ProbeTestsHardware == prober \in Streams => trying \in HardwareSet

\* Before it takes the slot, a request has an ffmpeg only once it was started, which
\* nobody has killed, and nothing is recorded of it.
NotYetClaimed ==
    \A s \in Streams :
        /\ step[s] \in Unstarted => proc[s] = "none" /\ noted[s] = NoFault
        /\ step[s] = "spawned" => proc[s] \in {"running", "exited"} /\ noted[s] = NoFault

\* Who has the slot has started its ffmpeg, has not been killed and has not failed.
SlotIsAlive ==
    \A s \in Streams : current = s =>
        /\ step[s] \notin Unstarted \cup {"spawned"}
        /\ proc[s] \in {"running", "exited"}
        /\ noted[s] = NoFault

\* Watchdogs and readers are those of a session that took the slot.
OnlySessionsAreRead ==
    \A s \in Streams :
        /\ watched[s] => s \in Hls /\ step[s] \in {"claiming", "serving"}
        /\ \A v \in Viewers : polls[s][v] # "none" => step[s] = "serving"

Slot == ProbeTestsHardware /\ NotYetClaimed /\ SlotIsAlive /\ OnlySessionsAreRead

\* What runs is about to take the slot, or has it.
RunningHasSlot ==
    \A s \in Streams : proc[s] = "running" => current = s \/ step[s] = "spawned"

\* A directory is of the session that has the slot, or of one that is starting, or of one
\* that somebody stops, or did until their client went away.
DirectoryHasOwner ==
    \A s \in Streams : dir[s] =>
        \/ current = s
        \/ step[s] \in {"choosing", "probing", "spawning", "spawned"}
        \/ stoppers[s] # {}
        \/ s \in deserted

HaveOwners == RunningHasSlot /\ DirectoryHasOwner

\* Who has the slot is not being stopped, and somebody will, or would have if the client
\* had stayed; directories are of sessions.
HolderIsAttended ==
    \A s \in Streams : current = s =>
        \/ s \in Hls /\ watched[s]
        \/ s \notin Hls
            /\ step[s] \in {"claiming", "starting", "diagnosing", "streaming", "abandoned"}
HolderIsNotStopped ==
    \A s \in Streams : current = s \/ step[s] \in Unstarted \cup {"spawned"} => stoppers[s] = {}
DirectoriesOfSessions == \A s \in Streams : dir[s] => s \in Hls

Held == HolderIsAttended /\ HolderIsNotStopped /\ DirectoriesOfSessions

IInv == TypeOK /\ HaveOwners /\ Slot /\ Held

LEMMA InitIInv == Init => IInv
<1>. SUFFICES ASSUME Init PROVE IInv
  OBVIOUS
<1>1. TypeOK
  BY DEF Init, TypeOK, Steps, Encoders
<1>2. HaveOwners
  BY DEF Init, HaveOwners, RunningHasSlot, DirectoryHasOwner
<1>3. Slot
  BY RestreamAssumption DEF Init, Slot, ProbeTestsHardware, NotYetClaimed, SlotIsAlive,
     OnlySessionsAreRead
<1>4. Held
  BY RestreamAssumption DEF Init, Held, HolderIsAttended, HolderIsNotStopped,
     DirectoriesOfSessions
<1>. QED
  BY <1>1, <1>2, <1>3, <1>4 DEF IInv

-----------------------------------------------------------------------------
(* What the actions are made of.                                            *)

\* Stopping a stream keeps the types.
LEMMA StopKeepsTypes ==
    ASSUME TypeOK, NEW s \in Streams, NEW task \in Tasks, Stop(s, task)
    PROVE  /\ proc' \in [Streams -> {"none", "running", "exited", "killed"}]
           /\ stoppers' \in [Streams -> SUBSET Tasks]
           /\ watched' \in [Streams -> BOOLEAN]
<1>1. proc' \in [Streams -> {"none", "running", "exited", "killed"}]
  BY DEF TypeOK, Stop
<1>2. stoppers' \in [Streams -> SUBSET Tasks]
  BY DEF TypeOK, Stop
<1>3. watched' \in [Streams -> BOOLEAN]
  <2>1. (watched[s] /\ task = Watchdog) \in BOOLEAN
    OBVIOUS
  <2>. QED
    BY <2>1 DEF TypeOK, Stop
<1>. QED
  BY <1>1, <1>2, <1>3

LEMMA CleanedKeepsTypes ==
    ASSUME TypeOK, NEW s \in Streams, NEW task, Cleaned(s, task)
    PROVE  /\ dir' \in [Streams -> BOOLEAN]
           /\ stoppers' \in [Streams -> SUBSET Tasks]
<1>. QED
  BY DEF TypeOK, Cleaned

\* Noting a failure keeps the types, and touches only what is recorded of the stream and
\* of a hardware encoder it was given.
LEMMA NoteKeepsTypes ==
    ASSUME TypeOK, NEW s \in Streams, Note(s)
    PROVE  /\ noted' \in [Streams -> Blames \cup {NoFault}]
           /\ failed' \subseteq HardwareSet
           /\ encoder' \in Encoders \cup {NoEncoder}
<1>1. CASE current = s
  <2>1. PICK code \in Diagnoses(s) :
            /\ noted' = [noted EXCEPT ![s] = code]
            /\ IF with[s] \in HardwareSet /\ FaultOf(code, TRUE)
               THEN failed' = failed \cup {with[s]} /\ encoder' = NoEncoder
               ELSE UNCHANGED <<encoder, failed>>
    BY <1>1 DEF Note
  <2>2. code \in Blames
    BY DEF Diagnoses, BlameOf, Blames
  <2>. QED
    BY <2>1, <2>2 DEF TypeOK
<1>2. CASE current # s
  BY <1>2 DEF Note, TypeOK
<1>. QED
  BY <1>1, <1>2

\* Wherever the choice of an encoder takes a request, it has no ffmpeg yet.
LEMMA ConsiderMovesOne ==
    ASSUME TypeOK, NEW s \in Streams, NEW candidates, NEW broken,
           Consider(s, candidates, broken)
    PROVE  \E to \in {"probing", "spawning"} : step' = [step EXCEPT ![s] = to]
<1>. QED
  BY DEF Consider

LEMMA ConsiderKeepsTypes ==
    ASSUME TypeOK, NEW s \in Streams, NEW candidates \in SUBSET HardwareSet, NEW broken,
           Consider(s, candidates, broken)
    PROVE  /\ trying' \in HardwareSet \cup {NoEncoder}
           /\ left' \subseteq HardwareSet
           /\ prober' \in Streams \cup {NoStream}
           /\ prober' \in Streams => trying' \in HardwareSet
           /\ step' \in [Streams -> Steps]
           /\ with' \in [Streams -> Encoders \cup {NoEncoder}]
           /\ encoder' \in Encoders \cup {NoEncoder}
<1>1. step' \in [Streams -> Steps]
  BY ConsiderMovesOne DEF TypeOK, Steps
<1>2. \/ trying' \in HardwareSet /\ prober' = s /\ UNCHANGED <<with, encoder>>
      \/ /\ trying' = NoEncoder /\ prober' = NoStream
         /\ with' = [with EXCEPT ![s] = Software] /\ encoder' = Software
  BY DEF Consider
<1>3. left' \subseteq HardwareSet
  BY DEF Consider
<1>4. NoStream \notin Streams
  BY RestreamAssumption
<1>. QED
  BY <1>1, <1>2, <1>3, <1>4 DEF TypeOK, Encoders

\* What a client that goes away before its stream has begun changes.
LEMMA DisconnectMoves ==
    ASSUME TypeOK, NEW s \in Streams, Disconnect(s)
    PROVE  \E to \in {"gone", "abandoned"} :
               /\ step' = [step EXCEPT ![s] = to]
               /\ to = "abandoned" <=> step[s] \in {"claiming", "starting", "diagnosing"}
               /\ step[s] \in {"choosing", "probing", "spawning", "spawned"} => proc'[s] # "running"
               /\ step[s] \notin {"choosing", "probing", "spawning", "spawned"} => proc' = proc
               /\ proc' \in [Streams -> {"none", "running", "exited", "killed"}]
               /\ \A t \in Streams \ {s} : proc'[t] = proc[t]
               /\ stoppers' \in [Streams -> SUBSET Tasks] /\ deserted' \subseteq Streams
               /\ \A t \in Streams :
                      /\ stoppers'[t] \subseteq stoppers[t]
                      /\ stoppers'[t] = {} => stoppers[t] = {} \/ t \in deserted'
                      /\ t \in deserted => t \in deserted'
<1>1. CASE step[s] \in {"choosing", "probing", "spawning", "spawned"}
  BY <1>1 DEF Disconnect, TypeOK
<1>2. CASE step[s] \in {"claiming", "starting", "diagnosing", "releasing"}
  <2>1. /\ step' = [step EXCEPT ![s] = IF step[s] = "releasing" THEN "gone" ELSE "abandoned"]
        /\ stoppers' = [t \in Streams |-> stoppers[t] \ {s}]
        /\ deserted' = deserted \cup {t \in Streams : s \in stoppers[t]}
        /\ proc' = proc
    BY <1>2 DEF Disconnect, TypeOK
  <2>2. stoppers' \in [Streams -> SUBSET Tasks] /\ deserted' \subseteq Streams
    BY <2>1 DEF TypeOK
  <2>3. \A t \in Streams :
            /\ stoppers'[t] \subseteq stoppers[t]
            /\ stoppers'[t] = {} => stoppers[t] = {} \/ t \in deserted'
            /\ t \in deserted => t \in deserted'
    BY <2>1
  <2>4. CASE step[s] = "releasing"
    BY <2>1, <2>2, <2>3, <2>4 DEF TypeOK
  <2>5. CASE step[s] # "releasing"
    BY <1>2, <2>1, <2>2, <2>3, <2>5 DEF TypeOK
  <2>. QED
    BY <2>4, <2>5
<1>. QED
  BY <1>1, <1>2 DEF Disconnect

LEMMA PollDisconnectMoves ==
    ASSUME TypeOK, NEW s \in Streams, NEW v \in Viewers, PollDisconnects(s, v)
    PROVE  /\ polls' \in [Streams -> [Viewers -> {"none", "waiting", "reading", "diagnosing", "releasing"}]]
           /\ \A t \in Streams, w \in Viewers : polls'[t][w] # "none" => polls[t][w] # "none"
           /\ stoppers' \in [Streams -> SUBSET Tasks] /\ deserted' \subseteq Streams
           /\ \A t \in Streams :
                  /\ stoppers'[t] \subseteq stoppers[t]
                  /\ stoppers'[t] = {} => stoppers[t] = {} \/ t \in deserted'
                  /\ t \in deserted => t \in deserted'
<1>1. polls' = [polls EXCEPT ![s][v] = "none"] /\ stoppers' = [stoppers EXCEPT ![s] = stoppers[s] \ {v}]
  BY DEF PollDisconnects, TypeOK
<1>2. deserted' = IF v \in stoppers[s] THEN deserted \cup {s} ELSE deserted
  BY DEF PollDisconnects
<1>. QED
  BY <1>1, <1>2 DEF TypeOK

-----------------------------------------------------------------------------
(* Types.                                                                    *)

LEMMA TypesKept ==
    ASSUME IInv, [Next]_vars
    PROVE  TypeOK' /\ ProbeTestsHardware'
<1>. USE RestreamAssumption DEF IInv, Slot
<1>. DEFINE Goal == TypeOK' /\ ProbeTestsHardware'
<1>1. ASSUME NEW s \in Streams, RequestMp4(s) \/ RequestHls(s) PROVE Goal
  <2>1. PICK to \in {"choosing", "spawning", "gone"} : step' = [step EXCEPT ![s] = to]
    BY <1>1 DEF RequestMp4, RequestHls, Opened, Refused
  <2>2. with' \in [Streams -> Encoders \cup {NoEncoder}]
    BY <1>1 DEF RequestMp4, RequestHls, Opened, Refused, TypeOK, Encoders
  <2>3. dir' \in [Streams -> BOOLEAN]
    BY <1>1 DEF RequestMp4, RequestHls, TypeOK
  <2>4. UNCHANGED <<proc, watched, stoppers, polls, current, encoder, failed, prober, trying,
                    left, noted, unload, deserted>>
    BY <1>1 DEF RequestMp4, RequestHls, probe
  <2>5. step' \in [Streams -> Steps]
    BY <2>1 DEF TypeOK, Steps
  <2>. QED
    BY <2>2, <2>3, <2>4, <2>5 DEF TypeOK, ProbeTestsHardware
<1>2. ASSUME NEW s \in Streams, ChooseKnown(s) PROVE Goal
  BY <1>2 DEF ChooseKnown, TypeOK, ProbeTestsHardware, probe, Steps
<1>3. ASSUME NEW s \in Streams, Probe(s) PROVE Goal
  <2>1. PICK listed \in SUBSET HardwareSet : Consider(s, listed, failed)
    BY <1>3 DEF Probe
  <2>. QED
    BY <1>3, <2>1, ConsiderKeepsTypes DEF Probe, TypeOK, ProbeTestsHardware
<1>4. ASSUME NEW s \in Streams, Tested(s) PROVE Goal
  <2>1. trying \in HardwareSet
    BY <1>4 DEF Tested, ProbeTestsHardware
  <2>2. CASE /\ encoder' = trying
             /\ with' = [with EXCEPT ![s] = trying]
             /\ prober' = NoStream /\ trying' = NoEncoder /\ left' = {}
             /\ step' = [step EXCEPT ![s] = "spawning"]
             /\ UNCHANGED failed
    BY <1>4, <2>1, <2>2 DEF Tested, TypeOK, ProbeTestsHardware, Steps, Encoders
  <2>3. CASE failed' = failed \cup {trying} /\ Consider(s, left, failed')
    <3>1. left \subseteq HardwareSet
      BY DEF TypeOK
    <3>. QED
      BY <1>4, <2>1, <2>3, <3>1, ConsiderKeepsTypes DEF Tested, TypeOK, ProbeTestsHardware
  <2>. QED
    BY <1>4, <2>2, <2>3 DEF Tested
<1>5. ASSUME NEW s \in Streams, Spawn(s) PROVE Goal
  BY <1>5 DEF Spawn, TypeOK, ProbeTestsHardware, probe, Steps
<1>6. ASSUME NEW s \in Streams, SpawnFails(s) PROVE Goal
  BY <1>6 DEF SpawnFails, TypeOK, ProbeTestsHardware, probe, Steps, Tasks
<1>7. ASSUME NEW s \in Streams, Claim(s) PROVE Goal
  <2>1. (s \in Hls) \in BOOLEAN
    OBVIOUS
  <2>2. CASE current = NoStream
    <3>1. watched' \in [Streams -> BOOLEAN]
      BY <1>7, <2>1, <2>2 DEF Claim, TypeOK
    <3>2. step' \in [Streams -> Steps]
      BY <1>7, <2>2 DEF Claim, Begun, TypeOK, Steps
    <3>. QED
      BY <1>7, <2>2, <3>1, <3>2 DEF Claim, TypeOK, ProbeTestsHardware, probe
  <2>3. CASE current # NoStream
    <3>1. proc' \in [Streams -> {"none", "running", "exited", "killed"}]
      <4>1. proc' = [proc EXCEPT ![current] = IF @ = "running" THEN "killed" ELSE @]
        BY <1>7, <2>3 DEF Claim
      <4>. QED
        BY <4>1 DEF TypeOK
    <3>2. stoppers' \in [Streams -> SUBSET Tasks]
      <4>1. stoppers' = [stoppers EXCEPT ![current] = (@ \ {Watchdog}) \cup {s}]
        BY <1>7, <2>3 DEF Claim
      <4>2. s \in Tasks /\ stoppers \in [Streams -> SUBSET Tasks]
        BY DEF Tasks, TypeOK
      <4>. QED
        BY <4>1, <4>2
    <3>3. watched' \in [Streams -> BOOLEAN]
      <4>1. watched' = [watched EXCEPT ![current] = FALSE, ![s] = s \in Hls]
        BY <1>7, <2>3 DEF Claim
      <4>. DEFINE lost == [watched EXCEPT ![current] = FALSE]
      <4>2. lost \in [Streams -> BOOLEAN]
        BY DEF TypeOK
      <4>3. watched' = [lost EXCEPT ![s] = s \in Hls]
        BY <4>1
      <4>. HIDE DEF lost
      <4>. QED
        BY <2>1, <4>2, <4>3
    <3>. QED
      BY <1>7, <2>3, <3>1, <3>2, <3>3 DEF Claim, TypeOK, ProbeTestsHardware, probe, Steps
  <2>. QED
    BY <2>2, <2>3
<1>8. ASSUME NEW s \in Streams, Claimed(s) PROVE Goal
  <2>1. PICK t \in Streams \ {s} : Cleaned(t, s)
    BY <1>8 DEF Claimed
  <2>. QED
    BY <1>8, <2>1, CleanedKeepsTypes DEF Claimed, Begun, TypeOK, ProbeTestsHardware, probe, Steps
<1>9. ASSUME NEW s \in Streams, FirstOutput(s) \/ NoOutput(s) PROVE Goal
  <2>1. PICK to \in {"streaming", "diagnosing"} : step' = [step EXCEPT ![s] = to]
    BY <1>9 DEF FirstOutput, NoOutput
  <2>2. UNCHANGED <<proc, with, dir, watched, stoppers, polls, current, encoder, failed, prober,
                    trying, left, noted, unload, deserted>>
    BY <1>9 DEF FirstOutput, NoOutput, probe
  <2>3. step' \in [Streams -> Steps]
    BY <2>1 DEF TypeOK, Steps
  <2>. QED
    BY <2>2, <2>3 DEF TypeOK, ProbeTestsHardware
<1>10. ASSUME NEW s \in Streams, Diagnosed(s) \/ StreamEnds(s) PROVE Goal
  <2>1. s \in Tasks /\ Stop(s, s)
    BY <1>10 DEF Tasks, Diagnosed, StreamEnds, Release
  <2>2. /\ noted' \in [Streams -> Blames \cup {NoFault}]
        /\ failed' \subseteq HardwareSet
        /\ encoder' \in Encoders \cup {NoEncoder}
    BY <1>10, NoteKeepsTypes DEF Diagnosed, StreamEnds, TypeOK
  <2>. QED
    BY <1>10, <2>1, <2>2, StopKeepsTypes DEF Diagnosed, StreamEnds, Release, TypeOK,
       ProbeTestsHardware, probe, Steps
<1>11. ASSUME NEW s \in Streams, Released(s) PROVE Goal
  BY <1>11, CleanedKeepsTypes DEF Released, TypeOK, ProbeTestsHardware, probe, Steps
<1>12. ASSUME NEW s \in Streams, NEW v \in Viewers,
              Poll(s, v) \/ PollReady(s, v) \/ PollServed(s, v) \/ PollFails(s, v)
       PROVE  Goal
  <2>1. polls' \in [Streams -> [Viewers -> {"none", "waiting", "reading", "diagnosing", "releasing"}]]
    <3>1. PICK to \in {"none", "waiting", "reading", "diagnosing"} :
              polls' = [polls EXCEPT ![s][v] = to]
      BY <1>12 DEF Poll, PollReady, PollServed, PollFails
    <3>. QED
      BY <3>1 DEF TypeOK
  <2>2. UNCHANGED <<step, proc, with, dir, watched, stoppers, current, encoder, failed, prober, trying,
                    left, noted, unload, deserted>>
    BY <1>12 DEF Poll, PollReady, PollServed, PollFails, probe
  <2>. QED
    BY <2>1, <2>2 DEF TypeOK, ProbeTestsHardware
<1>13. ASSUME NEW s \in Streams, NEW v \in Viewers, PollDiagnosed(s, v) PROVE Goal
  <2>1. v \in Tasks /\ Stop(s, v)
    BY <1>13 DEF Tasks, PollDiagnosed, Release
  <2>2. polls' \in [Streams -> [Viewers -> {"none", "waiting", "reading", "diagnosing", "releasing"}]]
    BY <1>13 DEF PollDiagnosed, TypeOK
  <2>. QED
    BY <1>13, <2>1, <2>2, StopKeepsTypes, NoteKeepsTypes DEF PollDiagnosed, Release, TypeOK,
       ProbeTestsHardware, probe
<1>14. ASSUME NEW s \in Streams, NEW v \in Viewers, PollReleased(s, v) PROVE Goal
  BY <1>14, CleanedKeepsTypes DEF PollReleased, TypeOK, ProbeTestsHardware, probe
<1>15. ASSUME NEW s \in Streams, WatchdogStops(s) PROVE Goal
  <2>1. Watchdog \in Tasks /\ Stop(s, Watchdog)
    BY <1>15 DEF Tasks, WatchdogStops, Release
  <2>. QED
    BY <1>15, <2>1, StopKeepsTypes DEF WatchdogStops, Release, TypeOK, ProbeTestsHardware, probe
<1>16. ASSUME NEW s \in Streams, WatchdogDone(s) PROVE Goal
  BY <1>16, CleanedKeepsTypes DEF WatchdogDone, TypeOK, ProbeTestsHardware, probe
<1>17. ASSUME NEW s \in Streams, Exits(s) PROVE Goal
  BY <1>17 DEF Exits, TypeOK, ProbeTestsHardware, probe
<1>18. CASE Unload
  <2>1. CASE current = NoStream
    BY <1>18, <2>1 DEF Unload, TypeOK, ProbeTestsHardware, probe
  <2>2. CASE current # NoStream
    <3>1. current \in Streams /\ Unloader \in Tasks /\ Stop(current, Unloader)
      BY <1>18, <2>2 DEF Tasks, Unload, Release, TypeOK
    <3>. QED
      BY <1>18, <2>2, <3>1, StopKeepsTypes DEF Unload, Release, TypeOK, ProbeTestsHardware, probe
  <2>. QED
    BY <2>1, <2>2
<1>19. CASE Unloaded
  <2>1. PICK s \in Streams : Cleaned(s, Unloader)
    BY <1>19 DEF Unloaded
  <2>. QED
    BY <1>19, <2>1, CleanedKeepsTypes DEF Unloaded, TypeOK, ProbeTestsHardware, probe
<1>20. ASSUME NEW s \in Streams, Disconnect(s) PROVE Goal
  <2>1. PICK to \in {"gone", "abandoned"} : step' = [step EXCEPT ![s] = to]
    BY <1>20, DisconnectMoves
  <2>2. step' \in [Streams -> Steps]
    BY <2>1 DEF TypeOK, Steps
  <2>3. /\ proc' \in [Streams -> {"none", "running", "exited", "killed"}]
        /\ stoppers' \in [Streams -> SUBSET Tasks] /\ deserted' \subseteq Streams
    BY <1>20, DisconnectMoves
  <2>4. \/ prober' = NoStream /\ trying' = NoEncoder /\ left' = {}
        \/ UNCHANGED <<prober, trying, left>>
    BY <1>20 DEF Disconnect, probe
  <2>5. UNCHANGED <<with, dir, watched, polls, current, encoder, failed, noted, unload>>
    BY <1>20 DEF Disconnect
  <2>. QED
    BY <2>2, <2>3, <2>4, <2>5 DEF TypeOK, ProbeTestsHardware
<1>21. ASSUME NEW s \in Streams, NEW v \in Viewers, PollDisconnects(s, v) PROVE Goal
  BY <1>21, PollDisconnectMoves DEF PollDisconnects, probe, TypeOK, ProbeTestsHardware
<1>22. ASSUME NEW s \in Streams, Sweep(s) PROVE Goal
  BY <1>22 DEF Sweep, probe, TypeOK, ProbeTestsHardware
<1>23. CASE UNCHANGED vars
  BY <1>23 DEF vars, probe, TypeOK, ProbeTestsHardware
<1>. QED
  BY <1>1, <1>2, <1>3, <1>4, <1>5, <1>6, <1>7, <1>8, <1>9, <1>10, <1>11, <1>12, <1>13, <1>14,
     <1>15, <1>16, <1>17, <1>18, <1>19, <1>20, <1>21, <1>22, <1>23
     DEF Next, Chooses, Handles, Watches, Polled

-----------------------------------------------------------------------------
(* Nothing without an owner.                                                *)

\* Giving the slot up leaves nothing of the stream behind.
LEMMA ReleaseKeepsOwners ==
    ASSUME TypeOK, HaveOwners, NEW s \in Streams, NEW task \in Tasks, Release(s, task),
           dir' = dir, deserted' = deserted,
           \A t \in Streams \ {s} : step'[t] = step[t]
    PROVE  HaveOwners'
<1>1. \A t \in Streams : proc'[t] = "running" => proc[t] = "running" /\ t # s
  BY DEF TypeOK, Release, Stop
<1>2. \A t \in Streams \ {s} : current = t => current' = t
  BY DEF Release
<1>3. task \in stoppers'[s] /\ \A t \in Streams \ {s} : stoppers'[t] = stoppers[t]
  BY DEF TypeOK, Release, Stop
<1>. QED
  BY <1>1, <1>2, <1>3 DEF HaveOwners, RunningHasSlot, DirectoryHasOwner

\* Nor does removing its directory, by whoever was about to.
LEMMA CleanedKeepsOwners ==
    ASSUME TypeOK, HaveOwners, NEW s \in Streams, NEW task, Cleaned(s, task),
           proc' = proc, current' = current, deserted' = deserted,
           \A t \in Streams : step'[t] = step[t] \/ step[t] \in {"claiming", "releasing"}
    PROVE  HaveOwners'
<1>1. ~dir'[s] /\ \A t \in Streams \ {s} : dir'[t] = dir[t] /\ stoppers'[t] = stoppers[t]
  BY DEF TypeOK, Cleaned
<1>. QED
  BY <1>1 DEF HaveOwners, RunningHasSlot, DirectoryHasOwner

LEMMA OwnersKept ==
    ASSUME IInv, [Next]_vars
    PROVE  HaveOwners'
<1>. USE RestreamAssumption DEF IInv
<1>. DEFINE Owners == HaveOwners'
<1>1. ASSUME NEW s \in Streams, RequestMp4(s) \/ RequestHls(s) PROVE Owners
  <2>1. PICK to \in {"choosing", "spawning", "gone"} : step' = [step EXCEPT ![s] = to]
    BY <1>1 DEF RequestMp4, RequestHls, Opened, Refused
  <2>2. dir' = dir \/ (dir' = [dir EXCEPT ![s] = TRUE] /\ to # "gone")
    BY <1>1, <2>1 DEF RequestMp4, RequestHls, Opened, Refused, TypeOK
  <2>3. step[s] = "new" /\ UNCHANGED <<proc, stoppers, current, deserted>>
    BY <1>1 DEF RequestMp4, RequestHls
  <2>4. RunningHasSlot'
    BY <2>1, <2>3 DEF TypeOK, HaveOwners, RunningHasSlot
  <2>5. DirectoryHasOwner'
    BY <2>1, <2>2, <2>3 DEF TypeOK, HaveOwners, DirectoryHasOwner
  <2>. QED
    BY <2>4, <2>5 DEF HaveOwners
<1>2. ASSUME NEW s \in Streams, ChooseKnown(s) PROVE Owners
  BY <1>2 DEF ChooseKnown, TypeOK, HaveOwners, RunningHasSlot, DirectoryHasOwner
<1>3. ASSUME NEW s \in Streams, Probe(s) \/ Tested(s) PROVE Owners
  <2>1. PICK to \in {"probing", "spawning"} : step' = [step EXCEPT ![s] = to]
    BY <1>3, ConsiderMovesOne DEF Probe, Tested
  <2>2. step[s] \in {"choosing", "probing"} /\ UNCHANGED <<proc, dir, stoppers, current, deserted>>
    BY <1>3 DEF Probe, Tested
  <2>. QED
    BY <2>1, <2>2 DEF TypeOK, HaveOwners, RunningHasSlot, DirectoryHasOwner
<1>4. ASSUME NEW s \in Streams, Spawn(s) PROVE Owners
  BY <1>4 DEF Spawn, TypeOK, HaveOwners, RunningHasSlot, DirectoryHasOwner
<1>5. ASSUME NEW s \in Streams, SpawnFails(s) PROVE Owners
  BY <1>5 DEF SpawnFails, TypeOK, HaveOwners, RunningHasSlot, DirectoryHasOwner
<1>6. ASSUME NEW s \in Streams, Claim(s) PROVE Owners
  <2>1. CASE current = NoStream
    BY <1>6, <2>1 DEF Claim, Begun, TypeOK, HaveOwners, RunningHasSlot,
       DirectoryHasOwner
  <2>2. CASE current # NoStream
    <3>1. \A t \in Streams : proc'[t] = "running" => proc[t] = "running" /\ t # current
      BY <1>6, <2>2 DEF Claim, TypeOK
    <3>2. s \in stoppers'[current] /\ \A t \in Streams \ {current} : stoppers'[t] = stoppers[t]
      BY <1>6, <2>2 DEF Claim, TypeOK
    <3>3. \A t \in Streams \ {s} : step'[t] = step[t]
      BY <1>6, <2>2 DEF Claim, TypeOK
    <3>. QED
      BY <1>6, <3>1, <3>2, <3>3 DEF Claim, HaveOwners, RunningHasSlot,
         DirectoryHasOwner
  <2>. QED
    BY <2>1, <2>2
<1>7. ASSUME NEW s \in Streams, Claimed(s) PROVE Owners
  <2>1. PICK t \in Streams \ {s} : Cleaned(t, s)
    BY <1>7 DEF Claimed
  <2>. QED
    BY <1>7, <2>1, CleanedKeepsOwners DEF Claimed, TypeOK
<1>8. ASSUME NEW s \in Streams, FirstOutput(s) \/ NoOutput(s) PROVE Owners
  <2>1. PICK to \in {"streaming", "diagnosing"} : step' = [step EXCEPT ![s] = to]
    BY <1>8 DEF FirstOutput, NoOutput
  <2>2. step[s] = "starting" /\ UNCHANGED <<proc, dir, stoppers, current, deserted>>
    BY <1>8 DEF FirstOutput, NoOutput
  <2>. QED
    BY <2>1, <2>2 DEF TypeOK, HaveOwners, RunningHasSlot, DirectoryHasOwner
<1>9. ASSUME NEW s \in Streams, Diagnosed(s) \/ StreamEnds(s) PROVE Owners
  <2>1. s \in Tasks /\ Release(s, s) /\ dir' = dir /\ deserted' = deserted
    BY <1>9 DEF Tasks, Diagnosed, StreamEnds
  <2>2. \A t \in Streams \ {s} : step'[t] = step[t]
    BY <1>9 DEF Diagnosed, StreamEnds, TypeOK
  <2>. QED
    BY <2>1, <2>2, ReleaseKeepsOwners
<1>10. ASSUME NEW s \in Streams, Released(s) PROVE Owners
  BY <1>10, CleanedKeepsOwners DEF Released, TypeOK
<1>11. ASSUME NEW s \in Streams, NEW v \in Viewers,
              Poll(s, v) \/ PollReady(s, v) \/ PollServed(s, v) \/ PollFails(s, v)
       PROVE  Owners
  BY <1>11 DEF Poll, PollReady, PollServed, PollFails, HaveOwners, RunningHasSlot,
     DirectoryHasOwner
<1>12. ASSUME NEW s \in Streams, NEW v \in Viewers, PollDiagnosed(s, v) PROVE Owners
  BY <1>12, ReleaseKeepsOwners DEF Tasks, PollDiagnosed
<1>13. ASSUME NEW s \in Streams, NEW v \in Viewers, PollReleased(s, v) PROVE Owners
  BY <1>13, CleanedKeepsOwners DEF PollReleased
<1>14. ASSUME NEW s \in Streams, WatchdogStops(s) PROVE Owners
  BY <1>14, ReleaseKeepsOwners DEF Tasks, WatchdogStops
<1>15. ASSUME NEW s \in Streams, WatchdogDone(s) PROVE Owners
  BY <1>15, CleanedKeepsOwners DEF WatchdogDone
<1>16. ASSUME NEW s \in Streams, Exits(s) PROVE Owners
  BY <1>16 DEF Exits, TypeOK, HaveOwners, RunningHasSlot, DirectoryHasOwner
<1>17. CASE Unload
  <2>1. CASE current = NoStream
    BY <1>17, <2>1 DEF Unload, HaveOwners, RunningHasSlot, DirectoryHasOwner
  <2>2. CASE current # NoStream
    <3>1. current \in Streams /\ Unloader \in Tasks /\ Release(current, Unloader)
      BY <1>17, <2>2 DEF Tasks, Unload, TypeOK
    <3>2. dir' = dir /\ step' = step /\ deserted' = deserted
      BY <1>17 DEF Unload
    <3>. QED
      BY <3>1, <3>2, ReleaseKeepsOwners
  <2>. QED
    BY <2>1, <2>2
<1>18. CASE Unloaded
  BY <1>18, CleanedKeepsOwners DEF Unloaded
<1>19. ASSUME NEW s \in Streams, Disconnect(s) PROVE Owners
  <2>1. PICK to \in {"gone", "abandoned"} :
            /\ step' = [step EXCEPT ![s] = to]
            /\ step[s] \in {"choosing", "probing", "spawning", "spawned"} => proc'[s] # "running"
            /\ step[s] \notin {"choosing", "probing", "spawning", "spawned"} => proc' = proc
            /\ \A t \in Streams \ {s} : proc'[t] = proc[t]
            /\ \A t \in Streams :
                   /\ stoppers'[t] = {} => stoppers[t] = {} \/ t \in deserted'
                   /\ t \in deserted => t \in deserted'
    BY <1>19, DisconnectMoves
  <2>2. s \notin Hls /\ UNCHANGED <<current, dir>>
    BY <1>19 DEF Disconnect
  <2>3. RunningHasSlot'
    BY <2>1, <2>2 DEF HaveOwners, RunningHasSlot, TypeOK
  <2>4. ~dir[s]
    BY <2>2 DEF Held, DirectoriesOfSessions
  <2>5. DirectoryHasOwner'
    BY <2>1, <2>2, <2>4 DEF HaveOwners, DirectoryHasOwner, TypeOK
  <2>. QED
    BY <2>3, <2>5 DEF HaveOwners
<1>20. ASSUME NEW s \in Streams, NEW v \in Viewers, PollDisconnects(s, v) PROVE Owners
  <2>1. \A t \in Streams :
            /\ stoppers'[t] = {} => stoppers[t] = {} \/ t \in deserted'
            /\ t \in deserted => t \in deserted'
    BY <1>20, PollDisconnectMoves
  <2>. QED
    BY <1>20, <2>1 DEF PollDisconnects, HaveOwners, RunningHasSlot, DirectoryHasOwner
<1>21. ASSUME NEW s \in Streams, Sweep(s) PROVE Owners
  BY <1>21 DEF Sweep, TypeOK, HaveOwners, RunningHasSlot, DirectoryHasOwner
<1>22. CASE UNCHANGED vars
  BY <1>22 DEF vars, HaveOwners, RunningHasSlot, DirectoryHasOwner
<1>. QED
  BY <1>1, <1>2, <1>3, <1>4, <1>5, <1>6, <1>7, <1>8, <1>9, <1>10, <1>11, <1>12, <1>13, <1>14,
     <1>15, <1>16, <1>17, <1>18, <1>19, <1>20, <1>21, <1>22
     DEF Next, Chooses, Handles, Watches, Polled

-----------------------------------------------------------------------------
(* Who can have the slot.                                                   *)

Turns == NotYetClaimed /\ SlotIsAlive /\ OnlySessionsAreRead

\* What giving the slot up may do to a stream that once had it.
LEMMA ReleaseKeepsTurns ==
    ASSUME TypeOK, Turns, NEW s \in Streams, NEW task \in Tasks, Release(s, task),
           step[s] \notin Unstarted \cup {"spawned"},
           step'[s] \notin Unstarted \cup {"spawned"},
           \A t \in Streams \ {s} : step'[t] = step[t] /\ noted'[t] = noted[t] /\ polls'[t] = polls[t],
           watched[s] \/ (\E v \in Viewers : polls'[s][v] # "none") => step'[s] = step[s],
           \A v \in Viewers : polls'[s][v] # "none" => step[s] = "serving"
    PROVE  Turns'
<1>1. \A t \in Streams \ {s} : proc'[t] = proc[t] /\ watched'[t] = watched[t]
  BY DEF TypeOK, Release, Stop
<1>2. watched'[s] => watched[s]
  BY DEF TypeOK, Release, Stop
<1>3. current' # s /\ \A t \in Streams : current' = t => current = t
  BY RestreamAssumption DEF Release
<1>4. NotYetClaimed'
  BY <1>1 DEF Turns, NotYetClaimed
<1>5. SlotIsAlive'
  BY <1>1, <1>3 DEF Turns, SlotIsAlive
<1>6. OnlySessionsAreRead'
  BY <1>1, <1>2 DEF Turns, OnlySessionsAreRead
<1>. QED
  BY <1>4, <1>5, <1>6 DEF Turns

\* A step that touches none of this.
LEMMA UndisturbedTurns ==
    ASSUME Turns, UNCHANGED <<step, proc, watched, polls, current, noted>>
    PROVE  Turns'
<1>. QED
  BY DEF Turns, NotYetClaimed, SlotIsAlive, OnlySessionsAreRead

\* A request goes from one step before its ffmpeg to another.
LEMMA UnstartedKeepsTurns ==
    ASSUME TypeOK, Turns, NEW s \in Streams, NEW to \in Unstarted \cup {"releasing", "gone"},
           step[s] \in Unstarted, step' = [step EXCEPT ![s] = to],
           UNCHANGED <<proc, watched, polls, current, noted>>
    PROVE  Turns'
<1>1. NotYetClaimed'
  BY DEF TypeOK, Turns, NotYetClaimed, Unstarted
<1>2. SlotIsAlive'
  BY DEF TypeOK, Turns, SlotIsAlive
<1>3. OnlySessionsAreRead'
  BY DEF TypeOK, Turns, OnlySessionsAreRead, Unstarted
<1>. QED
  BY <1>1, <1>2, <1>3 DEF Turns

\* Noting a failure of a stream says nothing of another.
LEMMA NoteIsOfOne ==
    ASSUME TypeOK, NEW s \in Streams, Note(s)
    PROVE  \A t \in Streams \ {s} : noted'[t] = noted[t]
<1>. QED
  BY DEF TypeOK, Note

LEMMA TurnsKept ==
    ASSUME IInv, [Next]_vars
    PROVE  Turns'
<1>. USE RestreamAssumption
<1>0. TypeOK /\ Turns
  BY DEF IInv, Slot, Turns
<1>1. ASSUME NEW s \in Streams, RequestMp4(s) \/ RequestHls(s) PROVE Turns'
  <2>1. PICK to \in {"choosing", "spawning", "gone"} : step' = [step EXCEPT ![s] = to]
    BY <1>1 DEF RequestMp4, RequestHls, Opened, Refused
  <2>2. step[s] = "new" /\ UNCHANGED <<proc, watched, polls, current, noted>>
    BY <1>1 DEF RequestMp4, RequestHls
  <2>. QED
    BY <1>0, <2>1, <2>2, UnstartedKeepsTurns DEF Unstarted
<1>2. ASSUME NEW s \in Streams, ChooseKnown(s) PROVE Turns'
  BY <1>0, <1>2, UnstartedKeepsTurns DEF Unstarted, ChooseKnown
<1>3. ASSUME NEW s \in Streams, Probe(s) \/ Tested(s) PROVE Turns'
  <2>1. PICK to \in {"probing", "spawning"} : step' = [step EXCEPT ![s] = to]
    BY <1>0, <1>3, ConsiderMovesOne DEF Probe, Tested
  <2>2. step[s] \in {"choosing", "probing"} /\ UNCHANGED <<proc, watched, polls, current, noted>>
    BY <1>3 DEF Probe, Tested
  <2>. QED
    BY <1>0, <2>1, <2>2, UnstartedKeepsTurns DEF Unstarted
<1>4. ASSUME NEW s \in Streams, Spawn(s) PROVE Turns'
  <2>1. NotYetClaimed'
    BY <1>0, <1>4 DEF Spawn, TypeOK, Turns, NotYetClaimed, Unstarted
  <2>2. SlotIsAlive' /\ OnlySessionsAreRead'
    BY <1>0, <1>4 DEF Spawn, TypeOK, Turns, SlotIsAlive, OnlySessionsAreRead, Unstarted
  <2>. QED
    BY <2>1, <2>2 DEF Turns
<1>5. ASSUME NEW s \in Streams, SpawnFails(s) PROVE Turns'
  BY <1>0, <1>5, UnstartedKeepsTurns DEF Unstarted, SpawnFails
<1>6. ASSUME NEW s \in Streams, Claim(s) PROVE Turns'
  <2>1. PICK to \in {"claiming", "serving", "starting"} :
            step' = [step EXCEPT ![s] = to] /\ (s \in Hls => to \in {"claiming", "serving"})
    BY <1>6 DEF Claim, Begun
  <2>2. current # s /\ step[s] = "spawned" /\ current' = s /\ UNCHANGED <<polls, noted>>
    BY <1>0, <1>6 DEF Claim, Turns, SlotIsAlive
  <2>3. \A t \in Streams : proc'[t] # proc[t] => t = current
    BY <1>0, <1>6 DEF Claim, TypeOK
  <2>4. watched'[s] => s \in Hls
    <3>1. \/ watched' = [watched EXCEPT ![s] = s \in Hls]
          \/ watched' = [watched EXCEPT ![current] = FALSE, ![s] = s \in Hls]
      BY <1>6 DEF Claim
    <3>2. DOMAIN watched = Streams
      BY <1>0 DEF TypeOK
    <3>. QED
      BY <3>1, <3>2, Zenon
  <2>5. ASSUME NEW t \in Streams \ {s}, watched'[t] PROVE watched[t]
    <3>1. CASE current = NoStream
      BY <1>0, <1>6, <2>5, <3>1 DEF Claim, TypeOK
    <3>2. CASE current # NoStream
      <4>1. watched' = [watched EXCEPT ![current] = FALSE, ![s] = s \in Hls]
        BY <1>6, <3>2 DEF Claim
      <4>2. CASE t = current
        BY <1>0, <2>5, <4>1, <4>2 DEF TypeOK
      <4>3. CASE t # current
        BY <1>0, <2>5, <4>1, <4>3 DEF TypeOK
      <4>. QED
        BY <4>2, <4>3
    <3>. QED
      BY <3>1, <3>2
  <2>6. NotYetClaimed'
    BY <1>0, <2>1, <2>2, <2>3 DEF TypeOK, Turns, NotYetClaimed, SlotIsAlive, Unstarted
  <2>7. SlotIsAlive'
    BY <1>0, <2>1, <2>2, <2>3 DEF TypeOK, Turns, NotYetClaimed, SlotIsAlive, Unstarted
  <2>8. OnlySessionsAreRead'
    BY <1>0, <2>1, <2>2, <2>4, <2>5 DEF TypeOK, Turns, OnlySessionsAreRead
  <2>. QED
    BY <2>6, <2>7, <2>8 DEF Turns
<1>7. ASSUME NEW s \in Streams, Claimed(s) PROVE Turns'
  <2>1. NotYetClaimed' /\ SlotIsAlive'
    BY <1>0, <1>7 DEF Claimed, Begun, TypeOK, Turns, NotYetClaimed, SlotIsAlive, Unstarted
  <2>2. OnlySessionsAreRead'
    BY <1>0, <1>7 DEF Claimed, Begun, TypeOK, Turns, OnlySessionsAreRead
  <2>. QED
    BY <2>1, <2>2 DEF Turns
<1>8. ASSUME NEW s \in Streams, FirstOutput(s) \/ NoOutput(s) PROVE Turns'
  <2>1. PICK to \in {"streaming", "diagnosing"} : step' = [step EXCEPT ![s] = to]
    BY <1>8 DEF FirstOutput, NoOutput
  <2>2. step[s] = "starting" /\ UNCHANGED <<proc, watched, polls, current, noted>>
    BY <1>8 DEF FirstOutput, NoOutput
  <2>3. NotYetClaimed' /\ SlotIsAlive'
    BY <1>0, <2>1, <2>2 DEF TypeOK, Turns, NotYetClaimed, SlotIsAlive, Unstarted
  <2>4. OnlySessionsAreRead'
    BY <1>0, <2>1, <2>2 DEF TypeOK, Turns, OnlySessionsAreRead
  <2>. QED
    BY <2>3, <2>4 DEF Turns
<1>9. ASSUME NEW s \in Streams, Diagnosed(s) \/ StreamEnds(s) PROVE Turns'
  <2>1. s \in Tasks /\ Release(s, s) /\ step[s] \in {"diagnosing", "streaming"} /\ UNCHANGED polls
    BY <1>9 DEF Tasks, Diagnosed, StreamEnds
  <2>2. step' = [step EXCEPT ![s] = "releasing"]
    BY <1>9 DEF Diagnosed, StreamEnds
  <2>3. \A t \in Streams \ {s} : noted'[t] = noted[t]
    BY <1>0, <1>9, NoteIsOfOne DEF Diagnosed, StreamEnds
  <2>4. ~watched[s] /\ \A v \in Viewers : polls[s][v] = "none"
    BY <1>0, <2>1 DEF Turns, OnlySessionsAreRead
  <2>5. step'[s] = "releasing" /\ \A t \in Streams \ {s} : step'[t] = step[t]
    BY <1>0, <2>2 DEF TypeOK
  <2>. QED
    BY <1>0, <2>1, <2>3, <2>4, <2>5, ReleaseKeepsTurns DEF Unstarted
<1>10. ASSUME NEW s \in Streams, Released(s) PROVE Turns'
  <2>1. step[s] = "releasing" /\ step' = [step EXCEPT ![s] = "gone"]
        /\ UNCHANGED <<proc, watched, polls, current, noted>>
    BY <1>10 DEF Released
  <2>2. NotYetClaimed' /\ SlotIsAlive'
    BY <1>0, <2>1 DEF TypeOK, Turns, NotYetClaimed, SlotIsAlive, Unstarted
  <2>3. OnlySessionsAreRead'
    BY <1>0, <2>1 DEF TypeOK, Turns, OnlySessionsAreRead
  <2>. QED
    BY <2>2, <2>3 DEF Turns
<1>11. ASSUME NEW s \in Streams, NEW v \in Viewers, Poll(s, v) \/ Polled(s, v) PROVE Turns'
  <2>1. step[s] = "serving" /\ step' = step
    <3>1. polls[s][v] # "none" \/ step[s] = "serving"
      BY <1>11 DEF Poll, Polled, PollReady, PollServed, PollFails, PollDiagnosed, PollReleased
    <3>. QED
      BY <1>0, <1>11, <3>1 DEF Poll, Polled, PollReady, PollServed, PollFails, PollDiagnosed,
         PollReleased, Turns, OnlySessionsAreRead
  <2>2. \A t \in Streams \ {s} : polls'[t] = polls[t]
    BY <1>0, <1>11 DEF Poll, Polled, PollReady, PollServed, PollFails, PollDiagnosed,
       PollReleased, TypeOK
  <2>3. CASE PollDiagnosed(s, v)
    <3>1. v \in Tasks /\ Release(s, v) /\ \A t \in Streams \ {s} : noted'[t] = noted[t]
      BY <1>0, <2>3, NoteIsOfOne DEF PollDiagnosed, Tasks
    <3>. QED
      BY <1>0, <2>1, <2>2, <3>1, ReleaseKeepsTurns DEF Unstarted
  <2>4. CASE ~PollDiagnosed(s, v)
    <3>1. UNCHANGED <<proc, watched, current, noted>>
      BY <1>11, <2>4 DEF Poll, Polled, PollReady, PollServed, PollFails, PollReleased
    <3>. QED
      BY <1>0, <2>1, <2>2, <3>1 DEF Turns, NotYetClaimed, SlotIsAlive, OnlySessionsAreRead
  <2>. QED
    BY <2>3, <2>4
<1>12. ASSUME NEW s \in Streams, WatchdogStops(s) PROVE Turns'
  <2>1. Watchdog \in Tasks /\ Release(s, Watchdog) /\ UNCHANGED <<step, polls, noted>> /\ watched[s]
    BY <1>12 DEF Tasks, WatchdogStops
  <2>. QED
    BY <1>0, <2>1, ReleaseKeepsTurns DEF Turns, OnlySessionsAreRead, Unstarted
<1>13. ASSUME NEW s \in Streams, WatchdogDone(s) PROVE Turns'
  <2>1. \A t \in Streams : watched'[t] => watched[t]
    BY <1>0, <1>13 DEF WatchdogDone, TypeOK
  <2>. QED
    BY <1>0, <1>13, <2>1 DEF WatchdogDone, Turns, NotYetClaimed, SlotIsAlive, OnlySessionsAreRead
<1>14. ASSUME NEW s \in Streams, Exits(s) PROVE Turns'
  <2>1. NotYetClaimed' /\ SlotIsAlive'
    BY <1>0, <1>14 DEF Exits, TypeOK, Turns, NotYetClaimed, SlotIsAlive, Unstarted
  <2>2. OnlySessionsAreRead'
    BY <1>0, <1>14 DEF Exits, Turns, OnlySessionsAreRead
  <2>. QED
    BY <2>1, <2>2 DEF Turns
<1>15. CASE Unload
  <2>1. CASE current = NoStream
    BY <1>0, <1>15, <2>1, UndisturbedTurns DEF Unload
  <2>2. CASE current # NoStream
    <3>1. current \in Streams /\ Unloader \in Tasks /\ Release(current, Unloader)
          /\ UNCHANGED <<step, polls, noted>>
      BY <1>0, <1>15, <2>2 DEF Tasks, Unload, TypeOK
    <3>. QED
      BY <1>0, <3>1, ReleaseKeepsTurns DEF Turns, SlotIsAlive, OnlySessionsAreRead
  <2>. QED
    BY <2>1, <2>2
<1>16. CASE Unloaded \/ (\E s \in Streams : Sweep(s)) \/ UNCHANGED vars
  BY <1>0, <1>16, UndisturbedTurns DEF Unloaded, Sweep, vars
<1>17. ASSUME NEW s \in Streams, Disconnect(s) PROVE Turns'
  <2>1. PICK to \in {"gone", "abandoned"} :
            /\ step' = [step EXCEPT ![s] = to]
            /\ step[s] \notin {"choosing", "probing", "spawning", "spawned"} => proc' = proc
            /\ \A t \in Streams \ {s} : proc'[t] = proc[t]
    BY <1>0, <1>17, DisconnectMoves
  <2>2. s \notin Hls /\ step[s] \notin {"new", "serving"} /\ UNCHANGED <<watched, polls, current, noted>>
    BY <1>17 DEF Disconnect
  <2>3. current = s => step[s] \notin {"choosing", "probing", "spawning", "spawned"}
    BY <1>0 DEF Turns, SlotIsAlive, Unstarted
  <2>4. NotYetClaimed' /\ SlotIsAlive'
    BY <1>0, <2>1, <2>2, <2>3 DEF TypeOK, Turns, NotYetClaimed, SlotIsAlive, Unstarted
  <2>5. OnlySessionsAreRead'
    BY <1>0, <2>1, <2>2 DEF TypeOK, Turns, OnlySessionsAreRead
  <2>. QED
    BY <2>4, <2>5 DEF Turns
<1>18. ASSUME NEW s \in Streams, NEW v \in Viewers, PollDisconnects(s, v) PROVE Turns'
  BY <1>0, <1>18, PollDisconnectMoves DEF PollDisconnects, Turns, NotYetClaimed, SlotIsAlive,
     OnlySessionsAreRead
<1>. QED
  BY <1>1, <1>2, <1>3, <1>4, <1>5, <1>6, <1>7, <1>8, <1>9, <1>10, <1>11, <1>12, <1>13, <1>14,
     <1>15, <1>16, <1>17, <1>18
     DEF Next, Chooses, Handles, Watches

-----------------------------------------------------------------------------
(* Who attends to the slot.                                                 *)

\* Giving the slot up: nobody has to attend to the stream any more.
LEMMA ReleaseKeepsHeld ==
    ASSUME TypeOK, Held, NEW s \in Streams, NEW task \in Tasks, Release(s, task), dir' = dir,
           step'[s] \notin Unstarted \cup {"spawned"},
           \A t \in Streams \ {s} : step'[t] = step[t]
    PROVE  Held'
<1>1. \A t \in Streams \ {s} : stoppers'[t] = stoppers[t] /\ watched'[t] = watched[t]
  BY DEF TypeOK, Release, Stop
<1>2. current' # s /\ \A t \in Streams : current' = t => current = t
  BY RestreamAssumption DEF Release
<1>. QED
  BY <1>1, <1>2 DEF Held, HolderIsAttended, HolderIsNotStopped, DirectoriesOfSessions

\* A step of one request that leaves the slot, the watchdogs and those who stop alone, and
\* takes no request back.
LEMMA StepKeepsHeld ==
    ASSUME TypeOK, Held, NEW s \in Streams, NEW to \in Steps, step' = [step EXCEPT ![s] = to],
           to \in Unstarted \cup {"spawned"} => step[s] \in Unstarted,
           s \in Hls \/ current # s
             \/ to \in {"claiming", "starting", "diagnosing", "streaming", "abandoned"},
           \A t \in Streams : stoppers'[t] \subseteq stoppers[t],
           \A t \in Streams : dir'[t] => t \in Hls,
           UNCHANGED <<watched, current>>
    PROVE  Held'
<1>1. \A t \in Streams : step'[t] = IF t = s THEN to ELSE step[t]
  BY DEF TypeOK
<1>2. HolderIsAttended'
  BY <1>1 DEF Held, HolderIsAttended
<1>3. HolderIsNotStopped'
  BY <1>1 DEF Held, HolderIsNotStopped
<1>. QED
  BY <1>2, <1>3 DEF Held, DirectoriesOfSessions

\* A step that moves no request.
LEMMA QuietKeepsHeld ==
    ASSUME Held, \A t \in Streams : stoppers'[t] \subseteq stoppers[t],
           \A t \in Streams : dir'[t] => dir[t],
           \A t \in Streams : current = t => watched'[t] = watched[t],
           UNCHANGED <<step, current>>
    PROVE  Held'
<1>. QED
  BY DEF Held, HolderIsAttended, HolderIsNotStopped, DirectoriesOfSessions

LEMMA HeldKept ==
    ASSUME IInv, [Next]_vars
    PROVE  Held'
<1>. USE RestreamAssumption
<1>0. /\ TypeOK /\ Held /\ Turns
      /\ \A t \in Streams : dir[t] => t \in Hls
      /\ \A t \in Streams : current = t => step[t] \notin Unstarted \cup {"spawned"}
  BY DEF IInv, Slot, Turns, Held, DirectoriesOfSessions, SlotIsAlive
<1>1. ASSUME NEW s \in Streams, RequestMp4(s) \/ RequestHls(s) PROVE Held'
  <2>1. PICK to \in {"choosing", "spawning", "gone"} : step' = [step EXCEPT ![s] = to]
    BY <1>1 DEF RequestMp4, RequestHls, Opened, Refused
  <2>2. \A t \in Streams : dir'[t] => t \in Hls
    BY <1>0, <1>1 DEF RequestMp4, RequestHls, TypeOK
  <2>3. step[s] = "new" /\ UNCHANGED <<watched, stoppers, current>>
    BY <1>1 DEF RequestMp4, RequestHls
  <2>4. current # s
    BY <1>0, <2>3 DEF Unstarted
  <2>. QED
    BY <1>0, <2>1, <2>2, <2>3, <2>4, StepKeepsHeld DEF Steps, Unstarted
<1>2. ASSUME NEW s \in Streams, Chooses(s) \/ Tested(s) \/ Spawn(s) PROVE Held'
  <2>1. PICK to \in {"probing", "spawning", "spawned"} : step' = [step EXCEPT ![s] = to]
    BY <1>0, <1>2, ConsiderMovesOne DEF Chooses, ChooseKnown, Probe, Tested, Spawn
  <2>2. step[s] \in Unstarted /\ UNCHANGED <<watched, stoppers, current, dir>>
    BY <1>2 DEF Chooses, ChooseKnown, Probe, Tested, Spawn, Unstarted
  <2>. QED
    BY <1>0, <2>1, <2>2, StepKeepsHeld DEF Steps
<1>3. ASSUME NEW s \in Streams, SpawnFails(s) PROVE Held'
  <2>1. step[s] = "spawning" /\ step'[s] = "releasing" /\ UNCHANGED <<watched, current, dir>>
    BY <1>0, <1>3 DEF SpawnFails, TypeOK
  <2>2. \A t \in Streams \ {s} : step'[t] = step[t] /\ stoppers'[t] = stoppers[t]
    BY <1>0, <1>3 DEF SpawnFails, TypeOK
  <2>3. current # s
    BY <1>0, <2>1 DEF Unstarted
  <2>. QED
    BY <1>0, <2>1, <2>2, <2>3 DEF Held, HolderIsAttended, HolderIsNotStopped,
       DirectoriesOfSessions, Unstarted
<1>4. ASSUME NEW s \in Streams, Claim(s) PROVE Held'
  <2>1. current # s /\ step[s] = "spawned" /\ current' = s /\ dir' = dir
    BY <1>0, <1>4 DEF Claim
  <2>2. /\ step'[s] \in {"claiming", "starting", "serving"} /\ (s \notin Hls => step'[s] # "serving")
        /\ \A t \in Streams \ {s} : step'[t] = step[t]
    <3>1. PICK to \in {"claiming", Begun(s)} : step' = [step EXCEPT ![s] = to]
      BY <1>4 DEF Claim
    <3>. QED
      BY <1>0, <3>1 DEF Begun, TypeOK
  <2>3. s \in Hls => watched'[s]
    <3>1. \/ watched' = [watched EXCEPT ![s] = s \in Hls]
          \/ watched' = [watched EXCEPT ![current] = FALSE, ![s] = s \in Hls]
      BY <1>4 DEF Claim
    <3>2. DOMAIN watched = Streams
      BY <1>0 DEF TypeOK
    <3>. QED
      BY <3>1, <3>2, Zenon
  <2>4. \A t \in Streams \ {current} : stoppers'[t] = stoppers[t]
    BY <1>0, <1>4 DEF Claim, TypeOK
  <2>5. stoppers[s] = {} /\ (\A t \in Streams : step[t] \in Unstarted \cup {"spawned"} => t # current)
    BY <1>0, <2>1 DEF Held, HolderIsNotStopped
  <2>6. HolderIsAttended'
    BY <2>1, <2>2, <2>3 DEF HolderIsAttended
  <2>7. HolderIsNotStopped'
    BY <1>0, <2>1, <2>2, <2>4, <2>5 DEF Held, HolderIsNotStopped
  <2>. QED
    BY <1>0, <2>1, <2>6, <2>7 DEF Held, DirectoriesOfSessions
<1>5. ASSUME NEW s \in Streams, Claimed(s) PROVE Held'
  <2>1. PICK t \in Streams \ {s} : Cleaned(t, s)
    BY <1>5 DEF Claimed
  <2>2. /\ \A u \in Streams : stoppers'[u] \subseteq stoppers[u]
        /\ \A u \in Streams : dir'[u] => u \in Hls
    BY <1>0, <2>1 DEF Cleaned, TypeOK
  <2>3. step' = [step EXCEPT ![s] = Begun(s)] /\ UNCHANGED <<watched, current>>
    BY <1>5 DEF Claimed
  <2>. QED
    BY <1>0, <2>2, <2>3, StepKeepsHeld DEF Begun, Steps, Unstarted
<1>6. ASSUME NEW s \in Streams, FirstOutput(s) \/ NoOutput(s) PROVE Held'
  <2>1. PICK to \in {"streaming", "diagnosing"} : step' = [step EXCEPT ![s] = to]
    BY <1>6 DEF FirstOutput, NoOutput
  <2>2. UNCHANGED <<watched, stoppers, current, dir>>
    BY <1>6 DEF FirstOutput, NoOutput
  <2>. QED
    BY <1>0, <2>1, <2>2, StepKeepsHeld DEF Steps, Unstarted
<1>7. ASSUME NEW s \in Streams, Diagnosed(s) \/ StreamEnds(s) PROVE Held'
  <2>1. s \in Tasks /\ Release(s, s) /\ dir' = dir
    BY <1>7 DEF Tasks, Diagnosed, StreamEnds
  <2>2. step'[s] = "releasing" /\ \A t \in Streams \ {s} : step'[t] = step[t]
    BY <1>0, <1>7 DEF Diagnosed, StreamEnds, TypeOK
  <2>. QED
    BY <1>0, <2>1, <2>2, ReleaseKeepsHeld DEF Unstarted
<1>8. ASSUME NEW s \in Streams, Released(s) PROVE Held'
  <2>1. /\ \A u \in Streams : stoppers'[u] \subseteq stoppers[u]
        /\ \A u \in Streams : dir'[u] => u \in Hls
    BY <1>0, <1>8 DEF Released, Cleaned, TypeOK
  <2>2. step[s] = "releasing" /\ step' = [step EXCEPT ![s] = "gone"] /\ UNCHANGED <<watched, current>>
    BY <1>8 DEF Released
  <2>3. s \in Hls \/ current # s
    BY <1>0, <2>2 DEF Held, HolderIsAttended
  <2>. QED
    BY <1>0, <2>1, <2>2, <2>3, StepKeepsHeld DEF Steps, Unstarted
<1>9. ASSUME NEW s \in Streams, NEW v \in Viewers, Poll(s, v) \/ Polled(s, v) PROVE Held'
  <2>1. CASE PollDiagnosed(s, v)
    <3>1. v \in Tasks /\ Release(s, v) /\ dir' = dir /\ step' = step /\ polls[s][v] # "none"
      BY <2>1 DEF PollDiagnosed, Tasks
    <3>2. step[s] = "serving"
      BY <1>0, <3>1 DEF Turns, OnlySessionsAreRead
    <3>. QED
      BY <1>0, <3>1, <3>2, ReleaseKeepsHeld DEF Unstarted
  <2>2. CASE PollReleased(s, v)
    BY <1>0, <2>2, QuietKeepsHeld DEF PollReleased, Cleaned, TypeOK
  <2>3. CASE Poll(s, v) \/ PollReady(s, v) \/ PollServed(s, v) \/ PollFails(s, v)
    BY <1>0, <2>3, QuietKeepsHeld DEF Poll, PollReady, PollServed, PollFails
  <2>. QED
    BY <1>9, <2>1, <2>2, <2>3 DEF Polled
<1>10. ASSUME NEW s \in Streams, WatchdogStops(s) PROVE Held'
  <2>1. Watchdog \in Tasks /\ Release(s, Watchdog) /\ UNCHANGED <<step, dir>> /\ watched[s]
    BY <1>10 DEF Tasks, WatchdogStops
  <2>2. step[s] \in {"claiming", "serving"}
    BY <1>0, <2>1 DEF Turns, OnlySessionsAreRead
  <2>. QED
    BY <1>0, <2>1, <2>2, ReleaseKeepsHeld DEF Unstarted
<1>11. ASSUME NEW s \in Streams, WatchdogDone(s) PROVE Held'
  <2>1. Watchdog \in stoppers[s] /\ UNCHANGED <<step, current>>
    BY <1>11 DEF WatchdogDone, Cleaned
  <2>2. current # s
    BY <1>0, <2>1 DEF Held, HolderIsNotStopped
  <2>3. /\ \A t \in Streams : stoppers'[t] \subseteq stoppers[t] /\ (dir'[t] => dir[t])
        /\ \A t \in Streams \ {s} : watched'[t] = watched[t]
    BY <1>0, <1>11 DEF WatchdogDone, Cleaned, TypeOK
  <2>. QED
    BY <1>0, <2>1, <2>2, <2>3, QuietKeepsHeld
<1>12. ASSUME NEW s \in Streams, Exits(s) PROVE Held'
  BY <1>0, <1>12, QuietKeepsHeld DEF Exits
<1>13. CASE Unload
  <2>1. CASE current = NoStream
    BY <1>0, <1>13, <2>1, QuietKeepsHeld DEF Unload
  <2>2. CASE current # NoStream
    <3>1. current \in Streams /\ Unloader \in Tasks /\ Release(current, Unloader)
          /\ UNCHANGED <<step, dir>>
      BY <1>0, <1>13, <2>2 DEF Tasks, Unload, TypeOK
    <3>. QED
      BY <1>0, <3>1, ReleaseKeepsHeld
  <2>. QED
    BY <2>1, <2>2
<1>14. CASE Unloaded
  BY <1>0, <1>14, QuietKeepsHeld DEF Unloaded, Cleaned, TypeOK
<1>15. ASSUME NEW s \in Streams, Disconnect(s) PROVE Held'
  <2>1. PICK to \in {"gone", "abandoned"} :
            /\ step' = [step EXCEPT ![s] = to]
            /\ to = "abandoned" <=> step[s] \in {"claiming", "starting", "diagnosing"}
            /\ \A t \in Streams : stoppers'[t] \subseteq stoppers[t]
    BY <1>0, <1>15, DisconnectMoves
  <2>2. UNCHANGED <<watched, current, dir>> /\ s \notin Hls
        /\ step[s] \in {"choosing", "probing", "spawning", "spawned", "claiming", "starting",
                       "diagnosing", "releasing"}
    BY <1>15 DEF Disconnect
  <2>3. current = s => to = "abandoned"
    BY <1>0, <2>1, <2>2 DEF Held, HolderIsAttended
  <2>. QED
    BY <1>0, <2>1, <2>2, <2>3, StepKeepsHeld DEF Steps, Unstarted
<1>16. ASSUME NEW s \in Streams, NEW v \in Viewers, PollDisconnects(s, v) PROVE Held'
  BY <1>0, <1>16, PollDisconnectMoves, QuietKeepsHeld DEF PollDisconnects
<1>17. ASSUME NEW s \in Streams, Sweep(s) PROVE Held'
  BY <1>0, <1>17, QuietKeepsHeld DEF Sweep, TypeOK
<1>18. CASE UNCHANGED vars
  BY <1>0, <1>18, QuietKeepsHeld DEF vars
<1>. QED
  BY <1>1, <1>2, <1>3, <1>4, <1>5, <1>6, <1>7, <1>8, <1>9, <1>10, <1>11, <1>12, <1>13, <1>14,
     <1>15, <1>16, <1>17, <1>18
     DEF Next, Chooses, Handles, Watches

-----------------------------------------------------------------------------

LEMMA NextIInv == IInv /\ [Next]_vars => IInv'
<1>. SUFFICES ASSUME IInv, [Next]_vars PROVE IInv'
  OBVIOUS
<1>. QED
  BY TypesKept, OwnersKept, TurnsKept, HeldKept DEF IInv, Slot, Turns

LEMMA AlwaysIInv == Spec => []IInv
<1>. QED
  BY InitIInv, NextIInv, PTL DEF Spec

\* What is recorded of a stream that had the slot is a fault of it that nobody else
\* caused, and the encoder that loses its place for it is the one it was given.
LEMMA NoteIsDeserved ==
    ASSUME IInv, NEW s \in Streams, Note(s)
    PROVE  /\ \A t \in Streams : noted'[t] # noted[t] => proc[t] # "killed" /\ noted[t] = NoFault
           /\ \A e \in failed' \ failed : LostFairly(e)
<1>1. TypeOK /\ SlotIsAlive
  BY DEF IInv, Slot
<1>2. CASE current # s
  BY <1>2 DEF Note
<1>3. CASE current = s
  <2>1. PICK code \in Diagnoses(s) :
            /\ noted' = [noted EXCEPT ![s] = code]
            /\ IF with[s] \in HardwareSet /\ FaultOf(code, TRUE)
               THEN failed' = failed \cup {with[s]} /\ encoder' = NoEncoder
               ELSE UNCHANGED <<encoder, failed>>
    BY <1>3 DEF Note
  <2>2. proc[s] \in {"running", "exited"} /\ noted[s] = NoFault
    BY <1>1, <1>3 DEF SlotIsAlive
  <2>3. noted'[s] = code /\ \A t \in Streams \ {s} : noted'[t] = noted[t]
    BY <1>1, <2>1 DEF TypeOK
  <2>4. code = "stopped_early" => proc[s] = "exited"
    <3>1. PICK said \in FaultCodes \cup {NoFault},
               opened \in IF s \in Hls THEN {"yes", "no"} ELSE {"unknown"},
               load \in {"busy", "idle", "unknown"} :
              code = BlameOf(CodeOf(said, proc[s] # "running", opened, load))
      BY DEF Diagnoses
    <3>2. "stopped_early" \notin FaultCodes
      BY DEF FaultCodes, Faults
    <3>. QED
      BY <2>2, <3>1, <3>2 DEF BlameOf, CodeOf, NoFault, Blames
  <2>5. ASSUME NEW e \in failed' \ failed PROVE LostFairly(e)
    BY <1>3, <2>1, <2>3, <2>4, <2>5 DEF FaultOf, LostFairly
  <2>. QED
    BY <2>2, <2>3, <2>5
<1>. QED
  BY <1>2, <1>3

\* The state has its type, for any requests, readers and encoders.
THEOREM RestreamTypeOK == Spec => []TypeOK
<1>1. IInv => TypeOK
  BY DEF IInv
<1>. QED
  BY <1>1, AlwaysIInv, PTL

\* A process or a directory is left without somebody who will end it only where a client
\* went away between the claim and the video, or in the middle of a stop, whatever
\* requests, evictions, failures, watchdogs, clients and an unload coincide
\* (restream/sessions.py 106-123, 218-232; restream/runner.py 51-97; restream/views.py
\* 129-161, 225).
THEOREM OnlyDisconnectsEverLeak == Spec => []OnlyDisconnectsLeak
<1>1. ASSUME IInv PROVE OnlyDisconnectsLeak
  <2>1. TypeOK /\ HaveOwners /\ Held
    BY <1>1 DEF IInv
  <2>2. ASSUME NEW s \in Streams, current = s
        PROVE  /\ Attended(s) \/ step[s] = "abandoned"
               /\ dir[s] => watched[s]
    BY <2>1, <2>2 DEF Held, HolderIsAttended, DirectoriesOfSessions, Attended
  <2>3. ProcessesAreOwned
    BY <2>1, <2>2 DEF HaveOwners, RunningHasSlot, ProcessesAreOwned
  <2>4. DirectoriesAreOwned
    BY <2>1, <2>2 DEF HaveOwners, DirectoryHasOwner, DirectoriesAreOwned
  <2>. QED
    BY <2>3, <2>4 DEF OnlyDisconnectsLeak
<1>. QED
  BY <1>1, AlwaysIInv, PTL

\* A stream that was killed is never recorded as a failure, nor one twice, and an encoder
\* loses its place only for a failure of its own (restream/sessions.py 250-287).
THEOREM BlameIsAlwaysDeserved == Spec => BlameIsDeserved
<1>. DEFINE Step ==
         /\ \A s \in Streams : noted'[s] # noted[s] => proc[s] # "killed" /\ noted[s] = NoFault
         /\ \A e \in failed' \ failed : LostFairly(e)
<1>1. ASSUME IInv, Next PROVE Step
  <2>1. ASSUME NEW s \in Streams, Note(s) PROVE Step
    BY <1>1, <2>1, NoteIsDeserved
  <2>2. ASSUME NEW s \in Streams, Probe(s) \/ Tested(s) PROVE Step
    BY <2>2 DEF Probe, Tested, LostFairly
  <2>3. ASSUME NEW s \in Streams,
               RequestMp4(s) \/ RequestHls(s) \/ ChooseKnown(s) \/ Exits(s) \/ Watches(s)
        PROVE  Step
    BY <2>3 DEF RequestMp4, RequestHls, ChooseKnown, Exits, Watches, WatchdogStops, WatchdogDone
  <2>4. ASSUME NEW s \in Streams, Handles(s) PROVE Step
    BY <2>1, <2>2, <2>4 DEF Handles, Spawn, SpawnFails, Claim, Claimed, FirstOutput, NoOutput,
       Diagnosed, StreamEnds, Released
  <2>5. ASSUME NEW s \in Streams, NEW v \in Viewers, Poll(s, v) \/ Polled(s, v) PROVE Step
    BY <2>1, <2>5 DEF Poll, Polled, PollReady, PollServed, PollFails, PollDiagnosed, PollReleased
  <2>6. CASE Unload \/ Unloaded
    BY <2>6 DEF Unload, Unloaded
  <2>7. ASSUME NEW s \in Streams,
               Disconnect(s) \/ Sweep(s) \/ (\E v \in Viewers : PollDisconnects(s, v))
        PROVE  Step
    BY <2>7 DEF Disconnect, Sweep, PollDisconnects
  <2>. HIDE DEF Step
  <2>. QED
    BY <1>1, <2>2, <2>3, <2>4, <2>5, <2>6, <2>7 DEF Next, Chooses
<1>2. IInv /\ [Next]_vars => [Step]_vars
  BY <1>1
<1>. QED
  BY <1>2, AlwaysIInv, PTL DEF Spec, BlameIsDeserved
=============================================================================
