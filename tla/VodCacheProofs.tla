--------------------------- MODULE VodCacheProofs ---------------------------
(***************************************************************************)
(* Proofs about VodCache, for any cameras, devices, dates, lifetimes and     *)
(* bounds.  What a panel sees is only inductive together with the fact that  *)
(* a registered fetch still has its last step before it.                    *)
(***************************************************************************)
EXTENDS VodCache, TLAPS

\* Whatever is registered for a key is a fetch that will still land.
RegisteredIsInFlight ==
    \A k \in Keys : tasks[k] # 0 => phase[<<k, tasks[k]>>] \in {"created", "asking"}

IInv == TypeOK /\ RegisteredIsInFlight /\ PanelsSeeTheCache

LEMMA InitIInv == Init => IInv
<1>. SUFFICES ASSUME Init PROVE IInv
  OBVIOUS
<1>. USE VodAssumption DEF Init
<1>1. TypeOK
  BY DEF TypeOK, Moments, Phases, Asked
<1>2. RegisteredIsInFlight
  BY DEF RegisteredIsInFlight
<1>3. PanelsSeeTheCache
  BY DEF PanelsSeeTheCache
<1>. QED
  BY <1>1, <1>2, <1>3 DEF IInv

LEMMA RegisteredIsAFetch ==
    ASSUME TypeOK, NEW k \in Keys, tasks[k] # 0
    PROVE  <<k, tasks[k]>> \in Fetches
<1>1. tasks[k] \in 1..MaxFetches
  BY VodAssumption DEF TypeOK
<1>. QED
  BY <1>1 DEF Fetches

-----------------------------------------------------------------------------
(* What a landing makes of a record.                                        *)

LEMMA ChosenIsDevice ==
    ASSUME NEW f \in Fetches
    PROVE  /\ Chosen(f) \in Devices \cup {NoDevice}
           /\ Chosen(f) # NoDevice => asks[f][Chosen(f)] \in {"files", "empty"}
<1>. DEFINE own == Own[f[1][1]]
            listing == Saying(f, "files")
            usable == Saying(f, "empty")
<1>1. ASSUME listing # {}
      PROVE  (CHOOSE d \in listing : listing # {own} => d # own) \in listing
  <2>1. \E d \in listing : listing # {own} => d # own
    BY <1>1
  <2>. QED
    BY <2>1
<1>2. ASSUME usable # {}
      PROVE  (CHOOSE d \in usable : own \in usable => d = own) \in usable
  <2>1. \E d \in usable : own \in usable => d = own
    BY <1>2
  <2>. QED
    BY <2>1
<1>. QED
  BY <1>1, <1>2 DEF Chosen, Saying

\* The record stays well formed, and a failure keeps the files there were.
LEMMA LandedRecord ==
    ASSUME TypeOK, NEW f \in Fetches, NEW old \in Record \cup {NoRecord}
    PROVE  /\ Landed(f, old) \in Record
           /\ (old # NoRecord /\ Landed(f, old).error) =>
                  Landed(f, old).from = old.from /\ Landed(f, old).asOf = old.asOf
<1>1. now \in Moments
  BY DEF TypeOK
<1>2. CASE Chosen(f) # NoDevice
  <2>1. Chosen(f) \in Devices
    BY <1>2, ChosenIsDevice
  <2>2. heard[f][Chosen(f)] \in Moments
    BY <2>1 DEF TypeOK
  <2>3. Landed(f, old) =
          [from |-> IF asks[f][Chosen(f)] = "files" THEN Chosen(f) ELSE NoDevice,
           asOf |-> heard[f][Chosen(f)], fetchedAt |-> now, error |-> FALSE]
    BY <1>2 DEF Landed
  <2>. QED
    BY <1>1, <2>1, <2>2, <2>3 DEF Record
<1>3. CASE Chosen(f) = NoDevice /\ old = NoRecord
  <2>1. Landed(f, old) = [from |-> NoDevice, asOf |-> now, fetchedAt |-> now, error |-> TRUE]
    BY <1>3 DEF Landed
  <2>. QED
    BY <1>1, <1>3, <2>1 DEF Record
<1>4. CASE Chosen(f) = NoDevice /\ old # NoRecord
  <2>1. old \in Record
    BY <1>4
  <2>2. Landed(f, old) = [old EXCEPT !.fetchedAt = now, !.error = TRUE]
    BY <1>4 DEF Landed
  <2>. QED
    BY <1>1, <2>1, <2>2 DEF Record
<1>. QED
  BY <1>2, <1>3, <1>4

-----------------------------------------------------------------------------
(* Requests.                                                                *)

\* Starting fetches keeps the registry in order and never makes one in flight less so.
LEMMA EnsureDayKeeps ==
    ASSUME IInv, NEW wanted \in SUBSET Keys, NEW force \in BOOLEAN, EnsureDay(wanted, force)
    PROVE  /\ tasks' \in [Keys -> 0..MaxFetches]
           /\ begun' \in [Keys -> 0..MaxFetches]
           /\ phase' \in [Fetches -> Phases]
           /\ RegisteredIsInFlight'
           /\ \A f \in Fetches :
                  phase[f] \in {"created", "asking"} => phase'[f] \in {"created", "asking"}
<1>. DEFINE started == {k \in wanted : tasks[k] = 0 /\ (force \/ ~Fresh(k))}
<1>0. MaxFetches \in Nat \ {0}
  BY VodAssumption
<1>1. /\ \A k \in started : begun[k] < MaxFetches
      /\ begun' = [k \in Keys |-> IF k \in started THEN begun[k] + 1 ELSE begun[k]]
      /\ tasks' = [k \in Keys |-> IF k \in started THEN begun[k] + 1 ELSE tasks[k]]
      /\ phase' = [f \in Fetches |->
                      IF f[1] \in started /\ f[2] = begun[f[1]] + 1
                      THEN "created" ELSE phase[f]]
  BY DEF EnsureDay
<1>. HIDE DEF started
<1>2. TypeOK /\ RegisteredIsInFlight
  BY DEF IInv
<1>3. \A k \in Keys : begun[k] \in 0..MaxFetches /\ tasks[k] \in 0..MaxFetches
  BY <1>2 DEF TypeOK
<1>4. tasks' \in [Keys -> 0..MaxFetches] /\ begun' \in [Keys -> 0..MaxFetches]
  <2>1. \A k \in Keys : k \in started => begun[k] + 1 \in 0..MaxFetches
    BY <1>0, <1>1, <1>3
  <2>. QED
    BY <1>1, <1>3, <2>1
<1>5. phase' \in [Fetches -> Phases]
  BY <1>1, <1>2 DEF TypeOK, Phases
<1>6. RegisteredIsInFlight'
  <2>1. SUFFICES ASSUME NEW k \in Keys, tasks'[k] # 0
                 PROVE  phase'[<<k, tasks'[k]>>] \in {"created", "asking"}
    BY DEF RegisteredIsInFlight
  <2>2. tasks'[k] \in 1..MaxFetches
    BY <1>0, <1>4, <2>1
  <2>3. <<k, tasks'[k]>> \in Fetches
    BY <2>2 DEF Fetches
  <2>4. CASE k \in started
    <3>1. tasks'[k] = begun[k] + 1
      BY <1>1, <2>4
    <3>. QED
      BY <1>1, <2>3, <2>4, <3>1
  <2>5. CASE k \notin started
    <3>1. tasks'[k] = tasks[k]
      BY <1>1, <2>5
    <3>2. phase'[<<k, tasks[k]>>] = phase[<<k, tasks[k]>>]
      BY <1>1, <2>3, <2>5, <3>1
    <3>. QED
      BY <1>2, <2>1, <3>1, <3>2 DEF RegisteredIsInFlight
  <2>. QED
    BY <2>4, <2>5
<1>7. \A f \in Fetches :
         phase[f] \in {"created", "asking"} => phase'[f] \in {"created", "asking"}
  BY <1>1
<1>. QED
  BY <1>4, <1>5, <1>6, <1>7

\* What the panels saw stays true when the records and what they were told stay.
LEMMA StillSeen ==
    ASSUME TypeOK, PanelsSeeTheCache, UNCHANGED <<days, listeners, told>>,
           \A f \in Fetches :
               phase[f] \in {"created", "asking"} => phase'[f] \in {"created", "asking"}
    PROVE  PanelsSeeTheCache'
<1>1. \A k \in Keys : InFlight(k) \subseteq InFlight(k)'
  BY DEF InFlight, Fetches
<1>. QED
  BY <1>1 DEF PanelsSeeTheCache

LEMMA SubscribeKeeps ==
    ASSUME IInv, NEW p \in Panels, NEW wanted \in SUBSET Keys, NEW force \in BOOLEAN,
           Subscribe(p, wanted, force)
    PROVE  IInv'
<1>. DEFINE saw == [k \in Keys |->
                       IF k \in wanted THEN Compose(days[k], tasks[k]) ELSE NotTold]
<1>1. /\ EnsureDay(wanted, force)
      /\ told' = [told EXCEPT ![p] = saw]
      /\ listeners' = listeners \cup {p}
      /\ UNCHANGED <<now, days, sources, paired, up>>
      /\ UNCHANGED <<asks, heard>>
  BY DEF Subscribe, EnsureDay
<1>2. /\ tasks' \in [Keys -> 0..MaxFetches]
      /\ begun' \in [Keys -> 0..MaxFetches]
      /\ phase' \in [Fetches -> Phases]
      /\ RegisteredIsInFlight'
      /\ \A f \in Fetches :
             phase[f] \in {"created", "asking"} => phase'[f] \in {"created", "asking"}
  BY <1>1, EnsureDayKeeps
<1>3. saw \in [Keys -> Told \cup {NotTold}]
  <2>1. \A k \in Keys : (tasks[k] # 0) \in BOOLEAN
    OBVIOUS
  <2>2. \A k \in Keys : Compose(days[k], tasks[k]) \in Told
    BY <2>1 DEF Compose, Told, IInv, TypeOK
  <2>. QED
    BY <2>2
<1>4. TypeOK'
  BY <1>1, <1>2, <1>3 DEF IInv, TypeOK
<1>5. PanelsSeeTheCache'
  <2>1. SUFFICES ASSUME NEW q \in listeners', NEW k \in Keys, told'[q][k] # NotTold
                 PROVE  /\ told'[q][k].record = days'[k]
                        /\ told'[q][k].updating => InFlight(k)' # {}
    BY DEF PanelsSeeTheCache
  <2>2. InFlight(k) \subseteq InFlight(k)'
    BY <1>2 DEF InFlight, Fetches
  <2>q. q \in listeners \cup {p} /\ q \in Panels
    BY <1>1, <2>1 DEF IInv, TypeOK
  <2>3. CASE q # p
    <3>1. told'[q] = told[q]
      BY <1>1, <2>3, <2>q DEF IInv, TypeOK
    <3>. QED
      BY <1>1, <2>1, <2>2, <2>3, <2>q, <3>1 DEF IInv, PanelsSeeTheCache
  <2>4. CASE q = p
    <3>1. told'[q][k] = saw[k]
      BY <1>1, <2>4 DEF IInv, TypeOK
    <3>2. told'[q][k] = [record |-> days[k], updating |-> tasks[k] # 0]
      BY <2>1, <3>1 DEF Compose
    <3>3. ASSUME tasks[k] # 0 PROVE InFlight(k) # {}
      <4>1. tasks[k] \in 1..MaxFetches
        BY <3>3, VodAssumption DEF IInv, TypeOK
      <4>2. phase[<<k, tasks[k]>>] \in {"created", "asking"}
        BY <3>3 DEF IInv, RegisteredIsInFlight
      <4>. QED
        BY <4>1, <4>2 DEF InFlight
    <3>4. told'[q][k].record = days'[k]
      BY <1>1, <3>2
    <3>5. ASSUME told'[q][k].updating PROVE tasks[k] # 0
      <4>1. CASE tasks[k] = 0
        <5>1. told'[q][k] = [record |-> days[k], updating |-> FALSE]
          BY <3>2, <4>1
        <5>. QED
          BY <3>5, <5>1
      <4>. QED
        BY <4>1
    <3>. QED
      BY <2>2, <3>3, <3>4, <3>5
  <2>. QED
    BY <2>3, <2>4
<1>. QED
  BY <1>2, <1>4, <1>5 DEF IInv

LEMMA UnsubscribeKeeps ==
    ASSUME IInv, NEW p \in Panels, Unsubscribe(p)
    PROVE  IInv'
<1>1. /\ told' = [told EXCEPT ![p] = [k \in Keys |-> NotTold]]
      /\ listeners' = listeners \ {p}
      /\ UNCHANGED <<now, days, tasks, begun, phase, asks, heard, sources, paired, up>>
  BY DEF Unsubscribe, fetching
<1>2. told' \in [Panels -> [Keys -> Told \cup {NotTold}]]
  BY <1>1 DEF IInv, TypeOK
<1>3. TypeOK'
  BY <1>1, <1>2 DEF IInv, TypeOK
<1>4. RegisteredIsInFlight'
  BY <1>1 DEF IInv, RegisteredIsInFlight
<1>5. PanelsSeeTheCache'
  <2>1. \A q \in listeners' : q \in listeners /\ told'[q] = told[q]
    BY <1>1 DEF IInv, TypeOK
  <2>2. \A k \in Keys : InFlight(k)' = InFlight(k)
    BY <1>1 DEF InFlight
  <2>. QED
    BY <1>1, <2>1, <2>2 DEF IInv, PanelsSeeTheCache
<1>. QED
  BY <1>3, <1>4, <1>5 DEF IInv

LEMMA LookUpKeeps ==
    ASSUME IInv, NEW k \in Keys, NEW force \in BOOLEAN, LookUp(k, force)
    PROVE  IInv'
<1>1. /\ EnsureDay({k}, force)
      /\ UNCHANGED <<now, days, sources, paired, listeners, told, up>>
      /\ UNCHANGED <<asks, heard>>
  BY DEF LookUp, EnsureDay
<1>2. /\ tasks' \in [Keys -> 0..MaxFetches]
      /\ begun' \in [Keys -> 0..MaxFetches]
      /\ phase' \in [Fetches -> Phases]
      /\ RegisteredIsInFlight'
      /\ \A f \in Fetches :
             phase[f] \in {"created", "asking"} => phase'[f] \in {"created", "asking"}
  BY <1>1, EnsureDayKeeps
<1>3. TypeOK'
  BY <1>1, <1>2 DEF IInv, TypeOK
<1>4. PanelsSeeTheCache'
  BY <1>1, <1>2, StillSeen DEF IInv
<1>. QED
  BY <1>2, <1>3, <1>4 DEF IInv
-----------------------------------------------------------------------------
(* One fetch.                                                               *)

LEMMA BeginKeeps ==
    ASSUME IInv, NEW f \in Fetches, Begin(f)
    PROVE  IInv'
<1>. DEFINE c == f[1][1]
<1>1. /\ phase[f] = "created"
      /\ phase' = [phase EXCEPT ![f] = "asking"]
      /\ asks' = [asks EXCEPT ![f] =
                     [d \in Devices |-> IF d \in Targets(c) THEN "waiting" ELSE "no"]]
      /\ sources' = IF paired[c] THEN sources ELSE [sources EXCEPT ![c] = NoDevice]
      /\ UNCHANGED <<now, days, tasks, begun, heard, paired, listeners, told, up>>
  BY DEF Begin
<1>2. TypeOK'
  <2>1. phase' \in [Fetches -> Phases]
    BY <1>1 DEF IInv, TypeOK, Phases
  <2>2. asks' \in [Fetches -> [Devices -> Asked]]
    BY <1>1 DEF IInv, TypeOK, Asked
  <2>3. sources' \in [Cameras -> Devices \cup {NoDevice}]
    BY <1>1 DEF IInv, TypeOK
  <2>. QED
    BY <1>1, <2>1, <2>2, <2>3 DEF IInv, TypeOK
<1>3. \A g \in Fetches :
          phase[g] \in {"created", "asking"} => phase'[g] \in {"created", "asking"}
  BY <1>1 DEF IInv, TypeOK
<1>4. RegisteredIsInFlight'
  BY <1>1, <1>3, RegisteredIsAFetch DEF IInv, RegisteredIsInFlight
<1>5. PanelsSeeTheCache'
  BY <1>1, <1>3, StillSeen DEF IInv
<1>. QED
  BY <1>2, <1>4, <1>5 DEF IInv

LEMMA AskingKeeps ==
    ASSUME IInv, NEW f \in Fetches, NEW d \in Devices, Search(f, d) \/ Answer(f, d)
    PROVE  IInv'
<1>1. UNCHANGED <<now, days, tasks, begun, phase, sources, paired, listeners, told, up>>
  BY DEF Search, Answer
<1>2. asks' \in [Fetches -> [Devices -> Asked]]
  <2>1. PICK what \in Asked : asks' = [asks EXCEPT ![f][d] = what]
    BY DEF Search, Answer, Answers, Asked
  <2>2. asks \in [Fetches -> [Devices -> Asked]]
    BY DEF IInv, TypeOK
  <2>. QED
    BY <2>1, <2>2
<1>3. heard' \in [Fetches -> [Devices -> Moments]]
  <2>1. heard' \in {heard, [heard EXCEPT ![f][d] = now]}
    BY DEF Search, Answer
  <2>2. heard \in [Fetches -> [Devices -> Moments]] /\ now \in Moments
    BY DEF IInv, TypeOK
  <2>. QED
    BY <2>1, <2>2
<1>4. TypeOK'
  BY <1>1, <1>2, <1>3 DEF IInv, TypeOK
<1>5. RegisteredIsInFlight'
  BY <1>1 DEF IInv, RegisteredIsInFlight
<1>6. PanelsSeeTheCache'
  BY <1>1, StillSeen DEF IInv
<1>. QED
  BY <1>4, <1>5, <1>6 DEF IInv

\* A landing retires what is registered for its key and tells every panel, so
\* neither the fetch that ends nor one of its kind is looked for there any more.
LEMMA LandKeeps ==
    ASSUME IInv, NEW f \in Fetches, Land(f)
    PROVE  IInv'
<1>. DEFINE k == f[1]
<1>0. k \in Keys /\ k[1] \in Cameras
  BY DEF Fetches, Keys
<1>1. /\ phase' = [phase EXCEPT ![f] = "ended"]
      /\ days' = [days EXCEPT ![k] = Landed(f, days[k])]
      /\ tasks' = [tasks EXCEPT ![k] = 0]
      /\ told' = [p \in Panels |->
                     IF p \notin listeners \/ told[p][k] = NotTold THEN told[p]
                     ELSE [told[p] EXCEPT ![k] = Compose(days'[k], tasks'[k])]]
      /\ sources' \in {sources, [sources EXCEPT ![k[1]] = Chosen(f)]}
      /\ UNCHANGED <<now, begun, asks, heard, paired, listeners, up>>
  BY DEF Land
<1>2. Landed(f, days[k]) \in Record
  BY <1>0, LandedRecord DEF IInv, TypeOK
<1>3. /\ days' \in [Keys -> Record \cup {NoRecord}]
      /\ tasks' \in [Keys -> 0..MaxFetches]
      /\ days'[k] = Landed(f, days[k])
      /\ tasks'[k] = 0
  BY <1>0, <1>1, <1>2, VodAssumption DEF IInv, TypeOK
<1>4. Compose(days'[k], tasks'[k]) = [record |-> days'[k], updating |-> FALSE]
  BY <1>3 DEF Compose
<1>5. Compose(days'[k], tasks'[k]) \in Told
  <2>1. [record |-> days'[k], updating |-> FALSE] \in Told
    BY <1>2, <1>3 DEF Told
  <2>. QED
    BY <1>4, <2>1
<1>6. told' \in [Panels -> [Keys -> Told \cup {NotTold}]]
  BY <1>0, <1>1, <1>5 DEF IInv, TypeOK
<1>7. sources' \in [Cameras -> Devices \cup {NoDevice}]
  BY <1>0, <1>1, ChosenIsDevice DEF IInv, TypeOK
<1>8. TypeOK'
  BY <1>1, <1>3, <1>6, <1>7 DEF IInv, TypeOK, Phases
<1>9. RegisteredIsInFlight'
  BY <1>0, <1>1, RegisteredIsAFetch DEF IInv, TypeOK, RegisteredIsInFlight, Fetches
<1>10. PanelsSeeTheCache'
  <2>1. SUFFICES ASSUME NEW p \in listeners, NEW j \in Keys, told'[p][j] # NotTold
                 PROVE  /\ told'[p][j].record = days'[j]
                        /\ told'[p][j].updating => InFlight(j)' # {}
    BY <1>1 DEF PanelsSeeTheCache
  <2>p. p \in Panels
    BY DEF IInv, TypeOK
  <2>2. CASE j = k
    <3>1. told[p][k] # NotTold
      BY <1>1, <2>1, <2>2, <2>p
    <3>2. told'[p][k] = [record |-> days'[k], updating |-> FALSE]
      BY <1>0, <1>1, <1>4, <2>p, <3>1 DEF IInv, TypeOK
    <3>. QED
      BY <2>2, <3>2
  <2>3. CASE j # k
    <3>1. told'[p][j] = told[p][j] /\ days'[j] = days[j]
      BY <1>0, <1>1, <2>3, <2>p DEF IInv, TypeOK
    <3>2. InFlight(j)' = InFlight(j)
      BY <1>1, <2>3 DEF IInv, TypeOK, InFlight, Fetches
    <3>. QED
      BY <2>1, <3>1, <3>2 DEF IInv, PanelsSeeTheCache
  <2>. QED
    BY <2>2, <2>3
<1>. QED
  BY <1>8, <1>9, <1>10 DEF IInv

LEMMA DoneKeeps ==
    ASSUME IInv, NEW f \in Fetches, Done(f)
    PROVE  IInv'
<1>. DEFINE k == f[1]
<1>0. k \in Keys
  BY DEF Fetches
<1>1. /\ phase[f] = "ended"
      /\ phase' = [phase EXCEPT ![f] = "over"]
      /\ tasks' = [tasks EXCEPT ![k] = 0]
      /\ UNCHANGED <<now, days, begun, asks, heard, sources, paired, listeners, told, up>>
  BY DEF Done
<1>2. TypeOK'
  BY <1>0, <1>1, VodAssumption DEF IInv, TypeOK, Phases
<1>3. \A g \in Fetches :
          phase[g] \in {"created", "asking"} => phase'[g] \in {"created", "asking"}
  BY <1>1 DEF IInv, TypeOK
<1>4. RegisteredIsInFlight'
  BY <1>0, <1>1, <1>3, RegisteredIsAFetch DEF IInv, TypeOK, RegisteredIsInFlight
<1>5. PanelsSeeTheCache'
  BY <1>1, <1>3, StillSeen DEF IInv
<1>. QED
  BY <1>2, <1>4, <1>5 DEF IInv

-----------------------------------------------------------------------------
(* The rest of the system.                                                  *)

\* A fetch that is not registered any more is left to run, but no panel listens.
LEMMA ShutdownKeeps ==
    ASSUME IInv, Shutdown
    PROVE  IInv'
<1>1. /\ tasks' = [k \in Keys |-> 0]
      /\ listeners' = {}
      /\ up' = FALSE
      /\ UNCHANGED <<now, days, begun, heard, sources, paired, told>>
  BY DEF Shutdown
<1>2. phase' \in [Fetches -> Phases] /\ asks' \in [Fetches -> [Devices -> Asked]]
  BY DEF Shutdown, IInv, TypeOK, Phases, Asked
<1>3. TypeOK'
  <2>1. tasks' \in [Keys -> 0..MaxFetches]
    BY <1>1, VodAssumption
  <2>. QED
    BY <1>1, <1>2, <2>1 DEF IInv, TypeOK
<1>4. RegisteredIsInFlight' /\ PanelsSeeTheCache'
  BY <1>1 DEF RegisteredIsInFlight, PanelsSeeTheCache
<1>. QED
  BY <1>3, <1>4 DEF IInv

LEMMA ClockKeeps ==
    ASSUME IInv, Tick \/ \E c \in Cameras : Repair(c)
    PROVE  IInv'
<1>1. UNCHANGED <<days, tasks, fetching, sources, listeners, told, up>>
  BY DEF Tick, Repair
<1>2. now' \in Moments
  BY VodAssumption DEF Tick, Repair, IInv, TypeOK, Moments
<1>3. paired' \in [Cameras -> BOOLEAN]
  BY DEF Tick, Repair, IInv, TypeOK
<1>4. TypeOK'
  BY <1>1, <1>2, <1>3 DEF IInv, TypeOK, fetching
<1>5. RegisteredIsInFlight'
  BY <1>1 DEF IInv, RegisteredIsInFlight, fetching
<1>6. PanelsSeeTheCache'
  BY <1>1, StillSeen DEF IInv, fetching
<1>. QED
  BY <1>4, <1>5, <1>6 DEF IInv

LEMMA NextIInv == IInv /\ [Next]_vars => IInv'
<1>. SUFFICES ASSUME IInv, [Next]_vars PROVE IInv'
  OBVIOUS
<1>1. CASE \E p \in Panels, wanted \in SUBSET Reachable \ {{}}, force \in BOOLEAN :
               Subscribe(p, wanted, force)
  BY <1>1, SubscribeKeeps DEF Reachable
<1>2. CASE \E k \in Reachable, force \in BOOLEAN : LookUp(k, force)
  BY <1>2, LookUpKeeps DEF Reachable
<1>3. CASE \E f \in Fetches : Step(f)
  BY <1>3, BeginKeeps, AskingKeeps, LandKeeps, DoneKeeps DEF Step
<1>4. CASE Tick \/ \E c \in Cameras : Repair(c)
  BY <1>4, ClockKeeps
<1>5. CASE Shutdown
  BY <1>5, ShutdownKeeps
<1>7. CASE \E p \in Panels : Unsubscribe(p)
  BY <1>7, UnsubscribeKeeps
<1>6. CASE UNCHANGED vars
  <2>1. UNCHANGED <<now, days, tasks, begun, phase, asks, heard, sources, paired, listeners, told, up>>
    BY <1>6 DEF vars, fetching
  <2>2. TypeOK'
    BY <2>1 DEF IInv, TypeOK
  <2>3. RegisteredIsInFlight'
    BY <2>1 DEF IInv, RegisteredIsInFlight
  <2>4. PanelsSeeTheCache'
    BY <2>1, StillSeen DEF IInv
  <2>. QED
    BY <2>2, <2>3, <2>4 DEF IInv
<1>. QED
  BY <1>1, <1>2, <1>3, <1>4, <1>5, <1>6, <1>7 DEF Next

LEMMA AlwaysIInv == Spec => []IInv
<1>1. Init => IInv
  BY InitIInv
<1>2. IInv /\ [Next]_vars => IInv'
  BY NextIInv
<1>. QED
  BY <1>1, <1>2, PTL DEF Spec

-----------------------------------------------------------------------------
(* What the cache promises.                                                 *)

\* Every variable keeps its type.
THEOREM VodCacheTypeOK == Spec => []TypeOK
<1>1. IInv => TypeOK
  BY DEF IInv
<1>. QED
  BY <1>1, AlwaysIInv, PTL

\* What a panel shows of a camera-day is what the cache holds, and it is told
\* "updating" only while a fetch that will tell it otherwise is on its way.
THEOREM PanelsAlwaysSeeTheCache == Spec => []PanelsSeeTheCache
<1>1. IInv => PanelsSeeTheCache
  BY DEF IInv
<1>. QED
  BY <1>1, AlwaysIInv, PTL

\* Only a landing writes a record.
LEMMA OthersKeepDays ==
    ASSUME Next, ~\E f \in Fetches : Land(f)
    PROVE  days' = days
<1>1. CASE \E p \in Panels, wanted \in SUBSET Reachable \ {{}}, force \in BOOLEAN :
               Subscribe(p, wanted, force)
  BY <1>1 DEF Subscribe
<1>2. CASE \E k \in Reachable, force \in BOOLEAN : LookUp(k, force)
  BY <1>2 DEF LookUp
<1>3. CASE \E f \in Fetches : Step(f)
  BY <1>3 DEF Step, Begin, Search, Answer, Done
<1>4. CASE Tick \/ \E c \in Cameras : Repair(c)
  BY <1>4 DEF Tick, Repair
<1>5. CASE Shutdown
  BY <1>5 DEF Shutdown
<1>6. CASE \E p \in Panels : Unsubscribe(p)
  BY <1>6 DEF Unsubscribe
<1>. QED
  BY <1>1, <1>2, <1>3, <1>4, <1>5, <1>6 DEF Next

\* "A failed refresh never discards good cached data", whatever overlaps.
THEOREM FailureAlwaysKeepsFiles == Spec => FailureKeepsFiles
<1>1. IInv /\ [Next]_vars =>
         [\A k \in Keys : (days[k] # NoRecord /\ days'[k] # days[k] /\ days'[k].error) =>
              /\ days'[k].from = days[k].from
              /\ days'[k].asOf = days[k].asOf]_vars
  <2>. SUFFICES ASSUME IInv, Next, NEW k \in Keys,
                        days[k] # NoRecord, days'[k] # days[k], days'[k].error
                 PROVE  days'[k].from = days[k].from /\ days'[k].asOf = days[k].asOf
    OBVIOUS
  <2>2. CASE \E f \in Fetches : Land(f)
    <3>1. PICK f \in Fetches : Land(f)
      BY <2>2
    <3>2. f[1] \in Keys
      BY DEF Fetches
    <3>3. days' = [days EXCEPT ![f[1]] = Landed(f, days[f[1]])]
      BY <3>1 DEF Land
    <3>. DEFINE old == days[f[1]]
    <3>4. old \in Record \cup {NoRecord}
      BY <3>2 DEF IInv, TypeOK
    <3>5. (old # NoRecord /\ Landed(f, old).error) =>
              Landed(f, old).from = old.from /\ Landed(f, old).asOf = old.asOf
      <4>. HIDE DEF old
      <4>. QED
        BY <3>4, LandedRecord DEF IInv
    <3>. QED
      BY <3>2, <3>3, <3>5 DEF IInv, TypeOK
  <2>3. CASE ~\E f \in Fetches : Land(f)
    BY <2>3, OthersKeepDays
  <2>. QED
    BY <2>2, <2>3
<1>. QED
  BY <1>1, AlwaysIInv, PTL DEF Spec, FailureKeepsFiles
=============================================================================
