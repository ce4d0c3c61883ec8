----------------------- MODULE PlaybackRoutesProofs -------------------------
(***************************************************************************)
(* Proofs about PlaybackRoutes and Registry, for any devices, cameras and   *)
(* requests.  What is offered follows from the definitions alone, once the  *)
(* first of the recorders that have a camera disabled is known to exist.    *)
(* That somebody seeks exactly once rests on what a conversion knows between *)
(* settling on a route and reading the seek.                                *)
(***************************************************************************)
EXTENDS PlaybackRoutes, TLAPS, WellFoundedInduction

LEMMA LeastOfNaturals ==
    ASSUME NEW S \in SUBSET Nat, S # {}
    PROVE  \E m \in S : \A n \in S : m <= n
<1>1. PICK m \in S : \A n \in S : ~(<<n, m>> \in OpToRel(<, Nat))
  BY WFMin, NatLessThanWellFounded, Zenon
<1>2. \A n \in S : ~(n < m)
  BY <1>1 DEF OpToRel
<1>. QED
  BY <1>2

-----------------------------------------------------------------------------
(* What is offered.                                                          *)

At(e) == CHOOSE i \in DOMAIN Listed : Listed[i] = e
Before(p, q) == \/ At(p[1]) < At(q[1])
                \/ p[1] = q[1] /\ p[2] <= q[2]

LEMMA AtIsListed ==
    ASSUME NEW e \in Entries
    PROVE  At(e) \in Nat /\ Listed[At(e)] = e
<1>1. PICK i \in DOMAIN Listed : Listed[i] = e
  BY DEF Entries, ToSet
<1>2. At(e) \in DOMAIN Listed /\ Listed[At(e)] = e
  BY <1>1 DEF At
<1>3. DOMAIN Listed = 1..Len(Listed) /\ Len(Listed) \in Nat
  BY RegistryAssumption
<1>. QED
  BY <1>2, <1>3

\* Among places there is a first one, by the order of the entries and of the channels.
LEMMA FirstPlaceExists ==
    ASSUME NEW there \in SUBSET Places, there # {}
    PROVE  \E p \in there : \A q \in there : Before(p, q)
<1>0. \A p \in there : p[1] \in Entries /\ p[2] \in Nat
  BY RegistryAssumption
<1>1. PICK m \in {At(p[1]) : p \in there} : \A n \in {At(p[1]) : p \in there} : m <= n
  <2>1. {At(p[1]) : p \in there} \subseteq Nat
    BY <1>0, AtIsListed
  <2>2. {At(p[1]) : p \in there} # {}
    OBVIOUS
  <2>. QED
    BY <2>1, <2>2, LeastOfNaturals
<1>2. PICK p0 \in there : At(p0[1]) = m
  BY <1>1
<1>3. PICK c \in {p[2] : p \in {q \in there : q[1] = p0[1]}} :
          \A d \in {p[2] : p \in {q \in there : q[1] = p0[1]}} : c <= d
  <2>1. {p[2] : p \in {q \in there : q[1] = p0[1]}} \subseteq Nat
    BY <1>0
  <2>2. p0[2] \in {p[2] : p \in {q \in there : q[1] = p0[1]}}
    BY <1>2
  <2>. QED
    BY <2>1, <2>2, LeastOfNaturals
<1>4. PICK p \in there : p[1] = p0[1] /\ p[2] = c
  BY <1>3
<1>5. ASSUME NEW q \in there PROVE Before(p, q)
  <2>1. CASE q[1] = p0[1]
    BY <2>1, <1>3, <1>4 DEF Before
  <2>2. CASE q[1] # p0[1]
    <3>1. m <= At(q[1])
      BY <1>1
    <3>2. At(q[1]) # m
      BY <2>2, <1>0, <1>2, AtIsListed
    <3>3. m \in Nat /\ At(q[1]) \in Nat /\ At(p[1]) = m
      BY <1>0, <1>2, <1>4, AtIsListed
    <3>. QED
      BY <3>1, <3>2, <3>3 DEF Before
  <2>. QED
    BY <2>1, <2>2
<1>. QED
  BY <1>4, <1>5

\* Where a camera is paired, it is, disabled, on a recorder that can be read.
LEMMA PairedIsThere ==
    ASSUME NEW uid, PairedAt(uid) # NoPlace
    PROVE  PairedAt(uid) \in OnRecorders \cap off /\ Uid[PairedAt(uid)] = uid
<1>. DEFINE there == {p \in OnRecorders \cap off : Uid[p] = uid}
            first == CHOOSE p \in there : \A q \in there : Before(p, q)
<1>1. PairedAt(uid) = IF there = {} THEN NoPlace ELSE first
  BY DEF PairedAt, Before, At
<1>2. there # {} /\ there \in SUBSET Places
  BY <1>1 DEF OnRecorders
<1>3. \E p \in there : \A q \in there : Before(p, q)
  <2>. HIDE DEF there
  <2>. QED
    BY <1>2, FirstPlaceExists
<1>4. first \in there
  BY <1>3
<1>. QED
  BY <1>1, <1>2, <1>4

LEMMA OfferedIsReadable ==
    ASSUME NEW p \in Places
    PROVE  p \in Offered(TRUE) <=>
             /\ p \notin off /\ entryState[p[1]] = "ok"
             /\ ~(KindOf[p[1]] = "camera" /\ IsAttached(p[1]))
  BY DEF Offered, Excluded

LEMMA HomeIsInOrder == HomeTypeOK => EachCameraIsOfferedOnce
<1>. SUFFICES ASSUME HomeTypeOK PROVE EachCameraIsOfferedOnce
  OBVIOUS
<1>. DEFINE own == {p \in Offered(TRUE) : KindOf[p[1]] = "camera"}
            recorded == Offered(TRUE) \ own
            inUse == {p \in Places \ off : entryState[p[1]] = "ok"}
<1>0. Offered(TRUE) \subseteq Places
  BY DEF Offered
<1>1. ASSUME NEW p \in own, NEW q \in recorded, Uid[p] # NoUid, Uid[p] = Uid[q] PROVE FALSE
  <2>1. q \in OnRecorders \ off
    BY <1>0, <1>1, OfferedIsReadable DEF OnRecorders
  <2>2. Uid[p] \in Attached
    BY <2>1, <1>1 DEF Attached
  <2>3. IsAttached(p[1])
    BY <2>2, <1>0, OwnEntryAssumption DEF IsAttached
  <2>. QED
    BY <2>3, <1>0, OfferedIsReadable
<1>2. ASSUME NEW p \in inUse
      PROVE  \E q \in Offered(TRUE) : q = p \/ (Uid[p] # NoUid /\ Uid[q] = Uid[p])
  <2>1. CASE p \in Offered(TRUE)
    BY <2>1
  <2>2. CASE p \notin Offered(TRUE)
    <3>1. KindOf[p[1]] = "camera" /\ IsAttached(p[1])
      BY <2>2, OfferedIsReadable
    <3>2. Uid[p] \in Attached
      BY <3>1, OwnEntryAssumption DEF IsAttached
    <3>3. PICK q \in OnRecorders \ off : Uid[q] = Uid[p]
      BY <3>2 DEF Attached
    <3>4. q \in Offered(TRUE) /\ Uid[q] # NoUid
      BY OfferedIsReadable DEF OnRecorders
    <3>. QED
      BY <3>3, <3>4
  <2>. QED
    BY <2>1, <2>2
<1>3. ASSUME NEW p \in own, PairedChannel(p) # NoPlace
      PROVE  /\ PairedChannel(p) \in off /\ entryState[PairedChannel(p)[1]] = "ok"
             /\ Uid[PairedChannel(p)] = Uid[p]
  <2>1. PairedChannel(p) = PairedAt(Uid[p])
    BY <1>3 DEF PairedChannel
  <2>. QED
    BY <1>3, <2>1, PairedIsThere DEF OnRecorders
<1>4. \A p \in own, q \in recorded : Uid[p] # NoUid => Uid[p] # Uid[q]
  BY <1>1
<1>5. \A p \in inUse : \E q \in Offered(TRUE) : q = p \/ (Uid[p] # NoUid /\ Uid[q] = Uid[p])
  BY <1>2
<1>6. \A p \in own :
          PairedChannel(p) # NoPlace =>
              /\ PairedChannel(p) \in off /\ entryState[PairedChannel(p)[1]] = "ok"
              /\ Uid[PairedChannel(p)] = Uid[p]
  BY <1>3
<1>. QED
  BY <1>4, <1>5, <1>6 DEF EachCameraIsOfferedOnce

-----------------------------------------------------------------------------
(* Who seeks.                                                                *)

\* A hub's route is never measured, so nothing is remembered of it.
HubsAreKnown == \A e \in Hubs : remembered[e] = NoRoute

\* What is remembered as sending a file has sent one.
FilesAreProved == \A e \in Entries : remembered[e] = "download" => e \in proved

\* Only a stream is asked of a hub, and of nobody a file by the view that pipes.
MeasuresWell(q) ==
    phase[q] = "measuring" =>
        /\ device[q] \in Entries
        /\ device[q] \in Hubs => kind[q] = "pipe"
        /\ kind[q] = "pipe" => \A i \in DOMAIN order[q] : order[q][i] # "download"

\* A conversion that has its route still finds it remembered, or was overtaken.
BuildsWell(q) ==
    phase[q] \in {"building", "making"} =>
        /\ kind[q] = "convert"
        /\ device[q] \in Entries
        /\ via[q] \in Routes
        /\ device[q] \in Hubs => via[q] = "download"
        /\ device[q] \notin Hubs => remeasured[q] \/ remembered[device[q]] = via[q]

\* A panel is answered at the end, with what is known of the device.
AnswersWell(q) ==
    /\ given[q] # "nothing" => phase[q] = "done"
    /\ given[q] = "file" => device[q] \in proved \cup Hubs
    /\ (kind[q] = "pipe" /\ phase[q] = "done") => SeeksItself(via[q])

SoughtWell(q) ==
    Converted(q) => \/ SeeksOnce(q)
                    \/ remeasured[q] /\ device[q] \notin Hubs

RequestWell(q) == MeasuresWell(q) /\ BuildsWell(q) /\ AnswersWell(q) /\ SoughtWell(q)
RequestsWell == \A q \in Requests : RequestWell(q)

IInv == TypeOK /\ HubsAreKnown /\ FilesAreProved /\ RequestsWell

-----------------------------------------------------------------------------
(* The operators.                                                            *)

LEMMA OrdersAreSequences ==
    /\ ROUTE_ORDER \in Seq(Routes)
    /\ ROUTE_ORDER_REALTIME \in Seq(Routes)
    /\ DOMAIN ROUTE_ORDER = 1..3
    /\ DOMAIN ROUTE_ORDER_REALTIME = 1..2
    /\ \A i \in DOMAIN ROUTE_ORDER_REALTIME : ROUTE_ORDER_REALTIME[i] # "download"
  BY DEF ROUTE_ORDER, ROUTE_ORDER_REALTIME, Routes

\* Whatever is remembered, the routes tried are routes, and those allowed.
LEMMA RouteOrderIsAllowed ==
    ASSUME NEW d, NEW what \in Kinds
    PROVE  /\ RouteOrder(d, what) \in Seq(Routes)
           /\ what = "pipe" => \A i \in DOMAIN RouteOrder(d, what) : RouteOrder(d, what)[i] # "download"
<1>. DEFINE routes == Allowed(what)
            first == IF remembered[d] # NoRoute THEN remembered[d]
                     ELSE IF d \in Hubs THEN "download" ELSE NoRoute
            at == CHOOSE i \in DOMAIN routes : routes[i] = first
            moved == [i \in DOMAIN routes |->
                        IF i = 1 THEN first ELSE IF i <= at THEN routes[i - 1] ELSE routes[i]]
<1>1. PICK n \in Nat : routes \in Seq(Routes) /\ DOMAIN routes = 1..n
  BY OrdersAreSequences DEF Allowed
<1>2. what = "pipe" => \A i \in 1..n : routes[i] # "download"
  BY <1>1, OrdersAreSequences DEF Allowed
<1>3. CASE first \notin ToSet(routes)
  BY <1>1, <1>2, <1>3 DEF RouteOrder
<1>4. CASE first \in ToSet(routes)
  <2>1. PICK j \in 1..n : routes[j] = first
    BY <1>1, <1>4 DEF ToSet
  <2>2. at \in 1..n
    BY <1>1, <2>1
  <2>. HIDE DEF at
  <2>3. \A i \in 1..n : moved[i] \in Routes /\ (what = "pipe" => moved[i] # "download")
    <3>. SUFFICES ASSUME NEW i \in 1..n
                  PROVE  moved[i] \in Routes /\ (what = "pipe" => moved[i] # "download")
      OBVIOUS
    <3>0. \A k \in 1..n : routes[k] \in Routes
      BY <1>1
    <3>. HIDE DEF routes, first
    <3>1. CASE i = 1
      BY <1>1, <1>2, <2>1, <3>0, <3>1
    <3>2. CASE i # 1
      BY <1>1, <1>2, <2>2, <3>0, <3>2
    <3>. QED
      BY <3>1, <3>2
  <2>4. moved \in [1..n -> Routes]
    BY <1>1, <2>3
  <2>5. moved \in Seq(Routes) /\ DOMAIN moved = 1..n
    <3>. HIDE DEF moved
    <3>. QED
      BY <2>4
  <2>6. RouteOrder(d, what) = moved
    BY <1>4 DEF RouteOrder, at
  <2>. QED
    BY <2>3, <2>5, <2>6
<1>. QED
  BY <1>3, <1>4

LEMMA TargetIsListed ==
    ASSUME NEW camera \in Places, NEW claim \in Places \cup {NoPlace}
    PROVE  Target(camera, claim) \in Entries
<1>1. camera[1] \in Entries
  BY RegistryAssumption
<1>2. claim # NoPlace => claim[1] \in Entries
  BY RegistryAssumption
<1>. QED
  BY <1>1, <1>2 DEF Target

\* What is begun well: of a device that is known the route that is known.
LEMMA ChooseIsWell ==
    ASSUME IInv, NEW q \in Requests, NEW what \in Kinds, NEW e \in Entries,
           phase[q] \in {"idle", "resolving", "refetching"},
           Choose(q, what, e),
           UNCHANGED <<home, remembered, soughtHere, remeasured, proved, changes>>
    PROVE  IInv'
<1>. DEFINE known == IF e \in Hubs THEN "download" ELSE remembered[e]
            measure == what = "pipe" \/ known = NoRoute
<1>0. TypeOK /\ HubsAreKnown /\ FilesAreProved /\ RequestsWell
  BY DEF IInv
<1>1. /\ device' = [device EXCEPT ![q] = e]
      /\ kind' = [kind EXCEPT ![q] = what]
  BY DEF Choose
<1>2. UNCHANGED <<entryState, off, remembered, soughtHere, remeasured, proved, changes>>
  BY DEF home
<1>3. given[q] = "nothing"
  BY <1>0 DEF RequestsWell, RequestWell, AnswersWell, TypeOK
<1>4. RouteOrder(e, what) \in Seq(Routes)
      /\ (what = "pipe" => \A i \in DOMAIN RouteOrder(e, what) : RouteOrder(e, what)[i] # "download")
  BY RouteOrderIsAllowed
<1>5. known \in Routes \cup {NoRoute} /\ NoRoute \notin Routes
  BY <1>0, RoutesAssumption DEF TypeOK, Routes
<1>6. \A p \in Requests : p # q =>
          /\ kind'[p] = kind[p] /\ phase'[p] = phase[p] /\ order'[p] = order[p]
          /\ device'[p] = device[p] /\ via'[p] = via[p] /\ given'[p] = given[p]
  BY <1>0, <1>1 DEF Choose, Hand, TypeOK
<1>7. HubsAreKnown' /\ FilesAreProved'
  BY <1>0, <1>2 DEF HubsAreKnown, FilesAreProved
<1>8. ASSUME NEW p \in Requests, p # q PROVE RequestWell(p)'
  <2>1. RequestWell(p)
    BY <1>0 DEF RequestsWell
  <2>. QED
    BY <1>2, <1>6, <1>8, <2>1 DEF RequestWell, MeasuresWell, BuildsWell, AnswersWell, SoughtWell,
                                 Converted, SeeksOnce, SeeksItself
<1>9. CASE ~HasHost(e)
  <2>1. /\ phase' = [phase EXCEPT ![q] = IF what = "panel" THEN "done" ELSE "refused"]
        /\ IF what = "panel" THEN Hand(q, FALSE) ELSE UNCHANGED given
        /\ UNCHANGED <<order, via>>
    BY <1>9 DEF Choose
  <2>2. TypeOK'
    BY <1>0, <1>1, <1>2, <2>1 DEF TypeOK, HomeTypeOK, Hand, Phases
  <2>3. /\ phase'[q] \in {"done", "refused"} /\ kind'[q] = what
        /\ phase'[q] = "done" <=> what = "panel"
        /\ given'[q] = IF what = "panel" THEN "stream" ELSE "nothing"
    BY <1>0, <1>1, <1>3, <2>1 DEF TypeOK, Hand
  <2>4. RequestWell(q)'
    BY <2>3 DEF RequestWell, MeasuresWell, BuildsWell, AnswersWell, SoughtWell, Converted, Kinds
  <2>. QED
    BY <1>7, <1>8, <2>2, <2>4 DEF IInv, RequestsWell
<1>10. CASE HasHost(e) /\ measure
  <2>1. /\ phase' = [phase EXCEPT ![q] = "measuring"]
        /\ order' = [order EXCEPT ![q] = RouteOrder(e, what)]
        /\ UNCHANGED <<via, given>>
    BY <1>10 DEF Choose
  <2>2. TypeOK'
    BY <1>0, <1>1, <1>2, <1>4, <2>1 DEF TypeOK, HomeTypeOK, Phases
  <2>3. /\ phase'[q] = "measuring" /\ kind'[q] = what /\ device'[q] = e
        /\ given'[q] = "nothing" /\ order'[q] = RouteOrder(e, what)
    BY <1>0, <1>1, <1>3, <2>1 DEF TypeOK
  <2>4. e \in Hubs => what = "pipe"
    BY <1>5, <1>10 DEF Routes
  <2>5. RequestWell(q)'
    BY <1>4, <2>3, <2>4 DEF RequestWell, MeasuresWell, BuildsWell, AnswersWell, SoughtWell, Converted
  <2>. QED
    BY <1>7, <1>8, <2>2, <2>5 DEF IInv, RequestsWell
<1>11. CASE HasHost(e) /\ ~measure
  <2>1. /\ phase' = [phase EXCEPT ![q] = IF what = "panel" THEN "done" ELSE "building"]
        /\ via' = [via EXCEPT ![q] = known]
        /\ IF what = "panel" THEN Hand(q, known = "download") ELSE UNCHANGED given
        /\ UNCHANGED order
    BY <1>11 DEF Choose
  <2>2. TypeOK'
    BY <1>0, <1>1, <1>2, <1>5, <2>1 DEF TypeOK, HomeTypeOK, Hand, Phases
  <2>3. /\ phase'[q] = IF what = "panel" THEN "done" ELSE "building"
        /\ kind'[q] = what /\ device'[q] = e /\ via'[q] = known
        /\ what = "panel" => given'[q] = IF known = "download" THEN "file" ELSE "stream"
        /\ what # "panel" => given'[q] = "nothing"
    BY <1>0, <1>1, <1>3, <2>1 DEF TypeOK, Hand
  <2>4. what \in {"panel", "convert"} /\ known \in Routes
    BY <1>5, <1>11 DEF Kinds
  <2>5. known = "download" => e \in proved \cup Hubs
    BY <1>0 DEF FilesAreProved
  <2>6. RequestWell(q)'
    <3>. HIDE DEF measure
    <3>1. CASE what = "panel"
      BY <1>2, <2>3, <2>5, <3>1 DEF RequestWell, MeasuresWell, BuildsWell, AnswersWell, SoughtWell, Converted
    <3>2. CASE what = "convert"
      BY <1>2, <2>3, <2>4, <3>2 DEF RequestWell, MeasuresWell, BuildsWell, AnswersWell, SoughtWell, Converted
    <3>. QED
      BY <2>4, <3>1, <3>2
  <2>. QED
    BY <1>7, <1>8, <2>2, <2>6 DEF IInv, RequestsWell
<1>. QED
  BY <1>9, <1>10, <1>11
LEMMA BeginningIsWell ==
    ASSUME IInv, NEW q \in Requests, Ask(q) \/ Resolve(q) \/ Open(q)
    PROVE  IInv'
<1>0. TypeOK /\ HubsAreKnown /\ FilesAreProved /\ RequestsWell
  BY DEF IInv
<1>1. CASE Play(q) /\ phase[q] \in {"idle", "resolving", "refetching"}
            /\ UNCHANGED <<home, remembered, soughtHere, remeasured, proved, changes>>
  <2>1. PICK camera \in Places, claim \in Places \cup {NoPlace} :
            Choose(q, "panel", Target(camera, claim))
    BY <1>1 DEF Play
  <2>2. Target(camera, claim) \in Entries
    BY TargetIsListed
  <2>. QED
    BY <1>1, <2>1, <2>2, ChooseIsWell DEF Kinds
<1>2. CASE Open(q)
  <2>1. PICK what \in {"pipe", "convert"}, e \in Entries : Choose(q, what, e)
    BY <1>2 DEF Open
  <2>2. what \in Kinds
    BY DEF Kinds
  <2>. QED
    BY <1>2, <2>1, <2>2, ChooseIsWell DEF Open
<1>3. CASE /\ phase[q] \in {"idle", "resolving", "refetching"}
           /\ phase' \in {[phase EXCEPT ![q] = s] : s \in {"resolving", "refetching", "refused"}}
           /\ kind' \in {kind, [kind EXCEPT ![q] = "panel"]}
           /\ UNCHANGED <<home, remembered, order, device, via, given, soughtHere, remeasured,
                          proved, changes>>
  <2>1. TypeOK'
    <3>0. PICK s \in {"resolving", "refetching", "refused"} : phase' = [phase EXCEPT ![q] = s]
      BY <1>3
    <3>1. phase' \in [Requests -> Phases] /\ kind' \in [Requests -> Kinds]
      <4>1. s \in Phases /\ "panel" \in Kinds
        BY DEF Phases, Kinds
      <4>2. phase \in [Requests -> Phases] /\ kind \in [Requests -> Kinds]
        BY <1>0 DEF TypeOK
      <4>. QED
        BY <1>3, <3>0, <4>1, <4>2
    <3>2. UNCHANGED <<entryState, off, remembered, order, device, via, given, soughtHere, remeasured,
                      proved, changes>>
      BY <1>3 DEF home
    <3>. QED
      BY <1>0, <3>1, <3>2 DEF TypeOK, HomeTypeOK
  <2>2. ASSUME NEW p \in Requests PROVE RequestWell(p)'
    <3>1. RequestWell(p)
      BY <1>0 DEF RequestsWell
    <3>2. CASE p = q
      BY <1>0, <1>3, <3>1, <3>2 DEF TypeOK, RequestWell, MeasuresWell, BuildsWell, AnswersWell,
                                   SoughtWell, Converted
    <3>3. CASE p # q
      <4>1. phase'[p] = phase[p] /\ kind'[p] = kind[p]
        BY <1>0, <1>3, <3>3 DEF TypeOK
      <4>. QED
        BY <1>3, <3>1, <4>1 DEF RequestWell, MeasuresWell, BuildsWell, AnswersWell, SoughtWell,
                                Converted, SeeksOnce, SeeksItself
    <3>. QED
      BY <3>2, <3>3
  <2>3. HubsAreKnown' /\ FilesAreProved'
    BY <1>0, <1>3 DEF HubsAreKnown, FilesAreProved
  <2>. QED
    BY <2>1, <2>2, <2>3 DEF IInv, RequestsWell
<1>4. ASSUME Ask(q), ~Play(q) PROVE IInv'
  <2>1. phase' = [phase EXCEPT ![q] = "resolving"] /\ kind' = [kind EXCEPT ![q] = "panel"]
    BY <1>4 DEF Ask
  <2>. QED
    BY <1>3, <1>4, <2>1 DEF Ask
<1>5. ASSUME Resolve(q), ~Play(q) PROVE IInv'
  <2>1. phase' = [phase EXCEPT ![q] = "refetching"] \/ phase' = [phase EXCEPT ![q] = "refused"]
    BY <1>5 DEF Resolve
  <2>. QED
    BY <1>3, <1>5, <2>1 DEF Resolve
<1>6. CASE Ask(q) /\ Play(q)
  BY <1>1, <1>6 DEF Ask
<1>7. CASE Resolve(q) /\ Play(q)
  BY <1>1, <1>7 DEF Resolve
<1>. QED
  BY <1>2, <1>4, <1>5, <1>6, <1>7

LEMMA MeasuringIsWell ==
    ASSUME IInv, NEW q \in Requests, Late(q) \/ Miss(q) \/ Hit(q) \/ Refuse(q)
    PROVE  IInv'
<1>0. TypeOK /\ HubsAreKnown /\ FilesAreProved /\ RequestsWell
  BY DEF IInv
<1>1. ASSUME NEW p \in Requests PROVE RequestWell(p)
  BY <1>0 DEF RequestsWell
<1>2. phase[q] = "measuring" /\ given[q] = "nothing" /\ device[q] \in Entries
  <2>1. phase[q] = "measuring"
    BY DEF Late, Miss, Hit, Refuse
  <2>. QED
    BY <1>0, <1>1, <2>1 DEF RequestWell, AnswersWell, MeasuresWell, TypeOK
<1>3. CASE Late(q) \/ Refuse(q)
  <2>1. /\ phase' \in {[phase EXCEPT ![q] = s] : s \in {"done", "refused"}}
        /\ \/ given' = given /\ phase'[q] = "refused"
           \/ given' = [given EXCEPT ![q] = "stream"] /\ kind[q] = "panel"
        /\ UNCHANGED <<entryState, off, remembered, kind, order, device, via, soughtHere, remeasured,
                       proved, changes>>
    BY <1>0, <1>3 DEF Late, Refuse, Hand, TypeOK, home
  <2>2. TypeOK'
    <3>1. phase' \in [Requests -> Phases]
      BY <1>0, <2>1 DEF TypeOK, Phases
    <3>2. given' \in [Requests -> {"nothing", "file", "stream"}]
      BY <1>0, <2>1 DEF TypeOK
    <3>. QED
      BY <1>0, <2>1, <3>1, <3>2 DEF TypeOK, HomeTypeOK
  <2>3. HubsAreKnown' /\ FilesAreProved'
    BY <1>0, <2>1 DEF HubsAreKnown, FilesAreProved
  <2>4. RequestWell(q)'
    <3>1. /\ phase'[q] \in {"done", "refused"} /\ given'[q] # "file"
          /\ given'[q] # "nothing" => phase'[q] = "done"
          /\ phase'[q] = "done" => kind'[q] = "panel"
      BY <1>0, <1>2, <1>3, <2>1 DEF TypeOK, Late, Refuse, Hand
    <3>. QED
      BY <3>1 DEF RequestWell, MeasuresWell, BuildsWell, AnswersWell, SoughtWell, Converted
  <2>5. ASSUME NEW p \in Requests, p # q PROVE RequestWell(p)'
    <3>1. phase'[p] = phase[p] /\ given'[p] = given[p]
      BY <1>0, <2>1, <2>5 DEF TypeOK
    <3>. QED
      BY <1>1, <2>1, <3>1 DEF RequestWell, MeasuresWell, BuildsWell, AnswersWell, SoughtWell,
                              Converted, SeeksOnce, SeeksItself
  <2>. QED
    BY <2>2, <2>3, <2>4, <2>5 DEF IInv, RequestsWell
<1>4. CASE Miss(q)
  <2>1. /\ order[q] \in Seq(Routes) /\ order[q] # <<>>
        /\ order' = [order EXCEPT ![q] = Tail(order[q])]
        /\ UNCHANGED <<entryState, off, remembered, kind, phase, device, via, given, soughtHere,
                       remeasured, proved, changes>>
    BY <1>0, <1>4 DEF Miss, TypeOK, home
  <2>2. Tail(order[q]) \in Seq(Routes)
        /\ \A i \in DOMAIN Tail(order[q]) : \E j \in DOMAIN order[q] : Tail(order[q])[i] = order[q][j]
    <3>1. \A i \in DOMAIN Tail(order[q]) :
              i + 1 \in DOMAIN order[q] /\ Tail(order[q])[i] = order[q][i + 1]
      BY <2>1
    <3>. QED
      BY <2>1, <3>1
  <2>3. TypeOK'
    BY <1>0, <2>1, <2>2 DEF TypeOK, HomeTypeOK
  <2>4. HubsAreKnown' /\ FilesAreProved'
    BY <1>0, <2>1 DEF HubsAreKnown, FilesAreProved
  <2>5. ASSUME NEW p \in Requests PROVE RequestWell(p)'
    <3>1. order'[p] = IF p = q THEN Tail(order[q]) ELSE order[p]
      BY <1>0, <2>1 DEF TypeOK
    <3>2. MeasuresWell(p)'
      BY <1>1, <2>1, <2>2, <3>1 DEF RequestWell, MeasuresWell
    <3>. QED
      BY <1>1, <2>1, <3>2 DEF RequestWell, BuildsWell, AnswersWell, SoughtWell,
                              Converted, SeeksOnce, SeeksItself
  <2>. QED
    BY <2>3, <2>4, <2>5 DEF IInv, RequestsWell
<1>5. CASE Hit(q)
  <2>. DEFINE d == device[q]
              r == Head(order[q])
  <2>1. /\ r \in Routes /\ r \in Serves[d] /\ d \in Entries
        /\ \E i \in DOMAIN order[q] : order[q][i] = r
    <3>1. order[q] \in Seq(Routes) /\ order[q] # <<>> /\ r \in Serves[d]
      BY <1>0, <1>5 DEF Hit, TypeOK
    <3>2. 1 \in DOMAIN order[q] /\ r = order[q][1] /\ r \in Routes
      BY <3>1
    <3>. QED
      BY <1>2, <3>1, <3>2
  <2>2. kind[q] = "pipe" => r # "download"
    BY <1>1, <1>2, <2>1 DEF RequestWell, MeasuresWell
  <2>3. d \notin Hubs
    <3>1. d \in Hubs => kind[q] = "pipe" /\ r = "download"
      BY <1>1, <1>2, <2>1, RoutesAssumption DEF RequestWell, MeasuresWell
    <3>. QED
      BY <2>2, <3>1
  <2>4. /\ remembered' = [remembered EXCEPT ![d] = r]
        /\ remeasured' = [p \in Requests |->
              remeasured[p] \/ (p # q /\ device[p] = d /\ via[p] # NoRoute
                                    /\ phase[p] \in {"building", "making"} /\ r # remembered[d])]
        /\ order' = [order EXCEPT ![q] = <<>>]
        /\ via' = [via EXCEPT ![q] = r]
        /\ proved' = IF r = "download" THEN proved \cup {d} ELSE proved
        /\ phase' = [phase EXCEPT ![q] = IF kind[q] \in {"panel", "pipe"} THEN "done" ELSE "building"]
        /\ IF kind[q] = "panel"
           THEN given' = [given EXCEPT ![q] = IF r = "download" THEN "file" ELSE "stream"]
           ELSE UNCHANGED given
        /\ UNCHANGED <<entryState, off, kind, device, soughtHere, changes>>
    BY <1>5 DEF Hit, Remember, Unsettled, Hand, home
  <2>. HIDE DEF r, d
  <2>5. d = device[q]
    BY DEF d
  <2>6. remeasured' \in [Requests -> BOOLEAN]
    BY <2>4, Zenon
  <2>7. given' \in [Requests -> {"nothing", "file", "stream"}]
    BY <1>0, <2>4 DEF TypeOK
  <2>8. TypeOK'
    <3>1. /\ remembered' \in [Entries -> Routes \cup {NoRoute}]
          /\ order' \in [Requests -> Seq(Routes)]
          /\ via' \in [Requests -> Routes \cup {NoRoute}]
          /\ proved' \in SUBSET Entries
          /\ phase' \in [Requests -> Phases]
      BY <1>0, <2>1, <2>4 DEF TypeOK, Phases
    <3>2. HomeTypeOK' /\ changes' \in 0..MaxChanges
      BY <1>0, <2>4 DEF TypeOK, HomeTypeOK
    <3>. QED
      BY <1>0, <2>4, <2>6, <2>7, <3>1, <3>2 DEF TypeOK
  <2>9. HubsAreKnown' /\ FilesAreProved'
    BY <1>0, <2>1, <2>3, <2>4 DEF TypeOK, HubsAreKnown, FilesAreProved
  <2>10. \A p \in Requests : p # q =>
            /\ phase'[p] = phase[p] /\ order'[p] = order[p] /\ via'[p] = via[p]
            /\ given'[p] = given[p] /\ kind'[p] = kind[p] /\ device'[p] = device[p]
    BY <1>0, <2>4 DEF TypeOK
  <2>11. ASSUME NEW p \in Requests, p # q PROVE RequestWell(p)'
    <3>1. remeasured[p] => remeasured'[p]
      BY <2>4
    <3>2. MeasuresWell(p)'
      BY <1>1, <2>10, <2>11 DEF RequestWell, MeasuresWell
    <3>3. AnswersWell(p)'
      <4>1. proved \subseteq proved'
        BY <2>4
      <4>. QED
        BY <1>1, <2>10, <2>11, <4>1 DEF RequestWell, AnswersWell, SeeksItself
    <3>4. SoughtWell(p)'
      BY <1>1, <2>4, <2>10, <2>11, <3>1 DEF RequestWell, SoughtWell, Converted, SeeksOnce, SeeksItself
    <3>5. BuildsWell(p)'
      <4>. SUFFICES ASSUME phase[p] \in {"building", "making"} PROVE BuildsWell(p)'
        BY <2>10, <2>11 DEF BuildsWell
      <4>1. /\ kind[p] = "convert" /\ device[p] \in Entries /\ via[p] \in Routes
            /\ device[p] \in Hubs => via[p] = "download"
            /\ device[p] \notin Hubs => remeasured[p] \/ remembered[device[p]] = via[p]
        BY <1>1 DEF RequestWell, BuildsWell
      <4>2. via[p] # NoRoute
        BY <4>1, RoutesAssumption
      <4>3. device[p] \notin Hubs => remeasured'[p] \/ remembered'[device[p]] = via[p]
        <5>1. CASE device[p] = d /\ r # remembered[d]
          BY <2>4, <2>11, <4>2, <5>1
        <5>2. CASE device[p] = d /\ r = remembered[d]
          BY <1>0, <2>4, <3>1, <4>1, <5>2 DEF TypeOK
        <5>3. CASE device[p] # d
          BY <1>0, <2>4, <3>1, <4>1, <5>3 DEF TypeOK
        <5>. QED
          BY <5>1, <5>2, <5>3
      <4>. QED
        BY <2>10, <2>11, <4>1, <4>3 DEF BuildsWell
    <3>. QED
      BY <3>2, <3>3, <3>4, <3>5 DEF RequestWell
  <2>12. RequestWell(q)'
    <3>1. /\ phase'[q] = IF kind[q] \in {"panel", "pipe"} THEN "done" ELSE "building"
          /\ kind'[q] = kind[q] /\ device'[q] = d /\ via'[q] = r /\ remembered'[d] = r
          /\ kind[q] = "panel" => given'[q] = IF r = "download" THEN "file" ELSE "stream"
          /\ kind[q] # "panel" => given'[q] = "nothing"
          /\ r = "download" => d \in proved'
          /\ kind[q] \in Kinds
      BY <1>0, <1>2, <2>1, <2>4, <2>5 DEF TypeOK
    <3>2. CASE kind[q] = "convert"
      BY <2>1, <2>3, <3>1, <3>2 DEF RequestWell, MeasuresWell, BuildsWell, AnswersWell, SoughtWell, Converted
    <3>3. CASE kind[q] \in {"panel", "pipe"}
      BY <2>2, <3>1, <3>3 DEF RequestWell, MeasuresWell, BuildsWell, AnswersWell, SoughtWell,
                              Converted, SeeksItself
    <3>. QED
      BY <3>1, <3>2, <3>3 DEF Kinds
  <2>. QED
    BY <2>8, <2>9, <2>11, <2>12 DEF IInv, RequestsWell
<1>. QED
  BY <1>3, <1>4, <1>5

LEMMA SeekingIsWell ==
    ASSUME IInv, NEW q \in Requests, Build(q) \/ Made(q)
    PROVE  IInv'
<1>0. TypeOK /\ HubsAreKnown /\ FilesAreProved /\ RequestsWell
  BY DEF IInv
<1>1. ASSUME NEW p \in Requests PROVE RequestWell(p)
  BY <1>0 DEF RequestsWell
<1>2. /\ phase[q] \in {"building", "making"}
      /\ UNCHANGED <<entryState, off, remembered, kind, order, device, via, given, remeasured,
                     proved, changes>>
  BY DEF Build, Made, home
<1>3. /\ kind[q] = "convert" /\ device[q] \in Entries /\ via[q] \in Routes
      /\ device[q] \in Hubs => via[q] = "download"
      /\ device[q] \notin Hubs => remeasured[q] \/ remembered[device[q]] = via[q]
      /\ given[q] = "nothing"
  BY <1>0, <1>1, <1>2 DEF RequestWell, BuildsWell, AnswersWell, TypeOK
<1>4. /\ phase' \in {[phase EXCEPT ![q] = s] : s \in {"refused", "making", "done"}}
      /\ \/ soughtHere' = soughtHere /\ phase' # [phase EXCEPT ![q] = "done"]
         \/ soughtHere' = [soughtHere EXCEPT ![q] = InputSeek(device[q])]
  <2>1. CASE ReadSeek(q)
    BY <1>0, <2>1 DEF ReadSeek, TypeOK
  <2>2. CASE UNCHANGED soughtHere /\ phase' \in {[phase EXCEPT ![q] = s] : s \in {"refused", "making"}}
    BY <1>0, <2>2 DEF TypeOK
  <2>. QED
    BY <2>1, <2>2 DEF Build, Made
<1>5. soughtHere' \in [Requests -> BOOLEAN]
  BY <1>0, <1>4 DEF TypeOK, InputSeek
<1>6. TypeOK'
  BY <1>0, <1>2, <1>4, <1>5 DEF TypeOK, HomeTypeOK, Phases
<1>7. HubsAreKnown' /\ FilesAreProved'
  BY <1>0, <1>2 DEF HubsAreKnown, FilesAreProved
<1>8. ASSUME NEW p \in Requests, p # q PROVE RequestWell(p)'
  <2>1. phase'[p] = phase[p] /\ (soughtHere'[p] <=> soughtHere[p])
    BY <1>0, <1>4, <1>8 DEF TypeOK
  <2>. QED
    BY <1>1, <1>2, <2>1 DEF RequestWell, MeasuresWell, BuildsWell, AnswersWell, SoughtWell,
                            Converted, SeeksOnce, SeeksItself
<1>9. RequestWell(q)'
  <2>1. phase'[q] \in {"refused", "making", "done"}
    BY <1>0, <1>4 DEF TypeOK
  <2>2. MeasuresWell(q)' /\ BuildsWell(q)' /\ AnswersWell(q)'
    BY <1>2, <1>3, <2>1 DEF MeasuresWell, BuildsWell, AnswersWell
  <2>3. phase'[q] = "done" => (soughtHere'[q] <=> InputSeek(device[q]))
    BY <1>0, <1>4 DEF TypeOK
  <2>4. (remembered[device[q]] = via[q] \/ device[q] \in Hubs) =>
            (InputSeek(device[q]) <=> ~SeeksItself(via[q]))
    BY <1>3 DEF InputSeek, SeeksItself
  <2>5. SoughtWell(q)'
    BY <1>2, <1>3, <2>3, <2>4 DEF SoughtWell, Converted, SeeksOnce, SeeksItself
  <2>. QED
    BY <2>2, <2>5 DEF RequestWell
<1>. QED
  BY <1>6, <1>7, <1>8, <1>9 DEF IInv, RequestsWell

LEMMA FinishingIsWell ==
    ASSUME IInv, NEW q \in Requests, Finish(q)
    PROVE  IInv'
<1>0. TypeOK /\ HubsAreKnown /\ FilesAreProved /\ RequestsWell
  BY DEF IInv
<1>1. /\ phase' = [phase EXCEPT ![q] = "idle"]
      /\ order' = [order EXCEPT ![q] = <<>>]
      /\ device' = [device EXCEPT ![q] = NoEntry]
      /\ via' = [via EXCEPT ![q] = NoRoute]
      /\ given' = [given EXCEPT ![q] = "nothing"]
      /\ soughtHere' = [soughtHere EXCEPT ![q] = FALSE]
      /\ remeasured' = [remeasured EXCEPT ![q] = FALSE]
      /\ UNCHANGED <<entryState, off, kind, remembered, proved, changes>>
  BY DEF Finish, home
<1>2. TypeOK'
  BY <1>0, <1>1 DEF TypeOK, HomeTypeOK, Phases
<1>3. HubsAreKnown' /\ FilesAreProved'
  BY <1>0, <1>1 DEF HubsAreKnown, FilesAreProved
<1>4. phase'[q] = "idle" /\ given'[q] = "nothing"
  BY <1>0, <1>1 DEF TypeOK
<1>5. RequestWell(q)'
  BY <1>4 DEF RequestWell, MeasuresWell, BuildsWell, AnswersWell, SoughtWell, Converted
<1>6. ASSUME NEW p \in Requests, p # q PROVE RequestWell(p)'
  <2>1. RequestWell(p)
    BY <1>0 DEF RequestsWell
  <2>2. /\ phase'[p] = phase[p] /\ order'[p] = order[p] /\ device'[p] = device[p]
        /\ via'[p] = via[p] /\ given'[p] = given[p]
    BY <1>0, <1>1, <1>6 DEF TypeOK
  <2>3. (soughtHere'[p] <=> soughtHere[p]) /\ (remeasured'[p] <=> remeasured[p])
    BY <1>0, <1>1, <1>6 DEF TypeOK
  <2>. QED
    BY <1>1, <2>1, <2>2, <2>3 DEF RequestWell, MeasuresWell, BuildsWell, AnswersWell, SoughtWell,
                                  Converted, SeeksOnce, SeeksItself
<1>. QED
  BY <1>2, <1>3, <1>5, <1>6 DEF IInv, RequestsWell

LEMMA AnotherChange ==
    ASSUME NEW n \in 0..MaxChanges, n < MaxChanges
    PROVE  n + 1 \in 0..MaxChanges
  BY RoutesAssumption

\* A reload forgets every route; who had settled on one was overtaken.
LEMMA ReloadIsWell == IInv /\ Reload => IInv'
<1>. SUFFICES ASSUME IInv, Reload PROVE IInv'
  OBVIOUS
<1>0. TypeOK /\ HubsAreKnown /\ FilesAreProved /\ RequestsWell
  BY DEF IInv
<1>1. /\ remembered' = [e \in Entries |-> NoRoute]
      /\ remeasured' = [q \in Requests |->
            remeasured[q] \/ (phase[q] \in {"building", "making"} /\ remembered[device[q]] # NoRoute)]
      /\ UNCHANGED <<entryState, off, kind, phase, order, device, via, given, soughtHere, proved>>
  BY DEF Reload, home, asking
<1>2. changes' \in 0..MaxChanges
  BY <1>0, AnotherChange DEF Reload, TypeOK
<1>3. remeasured' \in [Requests -> BOOLEAN]
  BY <1>1, Zenon
<1>4. TypeOK'
  BY <1>0, <1>1, <1>2, <1>3 DEF TypeOK, HomeTypeOK
<1>5. HubsAreKnown' /\ FilesAreProved'
  BY <1>1, RoutesAssumption DEF HubsAreKnown, FilesAreProved, Hubs, Routes
<1>6. ASSUME NEW q \in Requests PROVE RequestWell(q)'
  <2>1. RequestWell(q)
    BY <1>0 DEF RequestsWell
  <2>2. remeasured[q] => remeasured'[q]
    BY <1>1
  <2>3. MeasuresWell(q)' /\ AnswersWell(q)'
    BY <1>1, <2>1 DEF RequestWell, MeasuresWell, AnswersWell, SeeksItself
  <2>4. SoughtWell(q)'
    BY <1>1, <2>1, <2>2 DEF RequestWell, SoughtWell, Converted, SeeksOnce, SeeksItself
  <2>5. BuildsWell(q)'
    <3>. SUFFICES ASSUME phase[q] \in {"building", "making"} PROVE BuildsWell(q)'
      BY <1>1 DEF BuildsWell
    <3>1. /\ kind[q] = "convert" /\ device[q] \in Entries /\ via[q] \in Routes
          /\ device[q] \in Hubs => via[q] = "download"
          /\ device[q] \notin Hubs => remeasured[q] \/ remembered[device[q]] = via[q]
      BY <2>1 DEF RequestWell, BuildsWell
    <3>2. via[q] # NoRoute
      BY <3>1, RoutesAssumption
    <3>3. device[q] \notin Hubs => remeasured'[q]
      BY <1>1, <2>2, <3>1, <3>2
    <3>. QED
      BY <1>1, <3>1, <3>3 DEF BuildsWell
  <2>. QED
    BY <2>3, <2>4, <2>5 DEF RequestWell
<1>. QED
  BY <1>4, <1>5, <1>6 DEF IInv, RequestsWell

LEMMA UnchangedIsWell ==
    ASSUME IInv, HomeTypeOK', changes' \in 0..MaxChanges,
           UNCHANGED <<remembered, asking, remeasured, proved>>
    PROVE  IInv'
<1>1. UNCHANGED <<remembered, kind, phase, order, device, via, given, soughtHere, remeasured, proved>>
  BY DEF asking
<1>. QED
  BY <1>1 DEF IInv, TypeOK, HubsAreKnown, FilesAreProved, RequestsWell, RequestWell, MeasuresWell,
              BuildsWell, AnswersWell, SoughtWell, Converted, SeeksOnce, SeeksItself

LEMMA HomeChangesIsWell == IInv /\ HomeChanges => IInv'
<1>. SUFFICES ASSUME IInv, HomeChanges PROVE IInv'
  OBVIOUS
<1>0. HomeTypeOK /\ changes \in 0..MaxChanges
  BY DEF IInv, TypeOK
<1>1. HomeTypeOK'
  <2>1. ASSUME NEW e \in Entries, EntryChanges(e) PROVE HomeTypeOK'
    BY <1>0, <2>1 DEF EntryChanges, HomeTypeOK
  <2>2. ASSUME NEW p \in Places, CameraChanges(p) PROVE HomeTypeOK'
    BY <1>0, <2>2 DEF CameraChanges, HomeTypeOK
  <2>. QED
    BY <2>1, <2>2 DEF HomeChanges
<1>2. changes' \in 0..MaxChanges
  BY <1>0, AnotherChange DEF HomeChanges
<1>. QED
  BY <1>1, <1>2, UnchangedIsWell DEF HomeChanges

-----------------------------------------------------------------------------

LEMMA InitIInv == Init => IInv
<1>. SUFFICES ASSUME Init PROVE IInv
  OBVIOUS
<1>1. TypeOK
  BY RoutesAssumption DEF Init, HomeInit, TypeOK, HomeTypeOK, States, Kinds, Phases
<1>2. HubsAreKnown /\ FilesAreProved
  BY RoutesAssumption DEF Init, HubsAreKnown, FilesAreProved, Hubs, Routes
<1>3. RequestsWell
  BY DEF Init, RequestsWell, RequestWell, MeasuresWell, BuildsWell, AnswersWell, SoughtWell, Converted
<1>. QED
  BY <1>1, <1>2, <1>3 DEF IInv

LEMMA NextIInv == IInv /\ [Next]_vars => IInv'
<1>. SUFFICES ASSUME IInv, [Next]_vars PROVE IInv'
  OBVIOUS
<1>1. ASSUME NEW q \in Requests, Step(q) PROVE IInv'
  BY <1>1, BeginningIsWell, MeasuringIsWell, SeekingIsWell, FinishingIsWell DEF Step
<1>2. CASE UNCHANGED vars
  <2>1. HomeTypeOK' /\ changes' \in 0..MaxChanges
    BY <1>2 DEF vars, home, IInv, TypeOK, HomeTypeOK
  <2>. QED
    BY <1>2, <2>1, UnchangedIsWell DEF vars
<1>. QED
  BY <1>1, <1>2, ReloadIsWell, HomeChangesIsWell DEF Next

LEMMA AlwaysIInv == Spec => []IInv
<1>. QED
  BY InitIInv, NextIInv, PTL DEF Spec

\* The state has its type, for any devices, cameras and requests.
THEOREM RoutesTypeOK == Spec => []TypeOK
<1>1. IInv => TypeOK
  BY DEF IInv
<1>. QED
  BY <1>1, AlwaysIInv, PTL

\* However entries and cameras are enabled, disabled, loaded and not, footage is offered by
\* a camera's own entry or by a recorder's channel, never both, and a camera in use by one
\* of them (reolink_registry.py 405-445, 520-660).
THEOREM EachCameraIsAlwaysOfferedOnce == Spec => []EachCameraIsOfferedOnce
<1>1. IInv => EachCameraIsOfferedOnce
  BY HomeIsInOrder DEF IInv, TypeOK
<1>. QED
  BY <1>1, AlwaysIInv, PTL

\* A conversion's recorder seeks or its ffmpeg does, unless the recorder was remeasured or
\* forgotten in between (playback_route.py 389-441).
THEOREM AlwaysSeekOnceUnlessRemeasured == Spec => []SeekOnceUnlessRemeasured
<1>1. IInv => SeekOnceUnlessRemeasured
  BY DEF IInv, RequestsWell, RequestWell, SoughtWell, SeekOnceUnlessRemeasured
<1>. QED
  BY <1>1, AlwaysIInv, PTL

\* Only of a device known to send a file is the panel told to expect one, and the view that
\* pipes never opens one (playback.py 300-335, flv_proxy.py 99-105).
THEOREM FilesAreAlwaysFiles == Spec => []FilesAreFiles
<1>1. IInv => FilesAreFiles
  BY DEF IInv, RequestsWell, RequestWell, AnswersWell, FilesAreFiles
<1>. QED
  BY <1>1, AlwaysIInv, PTL
=============================================================================
