------------------------- MODULE SyncWindowsProofs -------------------------
(***************************************************************************)
(* Proofs about SyncWindows, for any cameras, sensors, paddings, settle,     *)
(* maximum and sweep period.  A detection stays covered and a visit stays    *)
(* one clip because clips lie in the past of every window (ClipsArePast); a  *)
(* quiet window is collected in time because its timer is, and a busy one    *)
(* because the next sweep is never further than its maximum allows.          *)
(***************************************************************************)
EXTENDS SyncWindows, TLAPS, WellFoundedInduction

\* An open window ends no earlier than it begins, and never in the future.
WindowsOrdered ==
    \A c \in Cameras : IsOpen(c) =>
        open[c].first <= open[c].last /\ open[c].last <= now

\* Stopping flushes everything, and nothing opens afterwards.
StoppedIsClosed == \A c \in Cameras : IsOpen(c) => running

ClipsOrdered == \A k \in Clips : k.start + Lead <= k.end - Tail

\* While it runs, a new window could open now and still be separate from every clip.
ClipsArePast == running => \A k \in Clips : Separated(k, now)

\* The next sweep is at most a period away, and in time for every open window.
SweepIsSoon ==
    /\ running => now <= nextSweep /\ nextSweep <= now + SweepEvery
    /\ \A c \in Cameras : IsOpen(c) =>
           nextSweep <= open[c].first + Maximum + SweepEvery

QuietIsRecent ==
    \A c \in Cameras : (IsOpen(c) /\ open[c].active = {}) =>
        now - open[c].last <= Settle

IInv ==
    /\ TypeOK
    /\ WindowsOrdered
    /\ StoppedIsClosed
    /\ ClipsOrdered
    /\ ClipsArePast
    /\ SweepIsSoon
    /\ QuietIsRecent
    /\ QuietHasTimer
    /\ DetectionsCovered
    /\ OneVisitOneClip
    /\ GathersOnlyWhenAsked

LEMMA InitIInv == Init => IInv
<1>. SUFFICES ASSUME Init PROVE IInv
  OBVIOUS
<1>. USE WindowsAssumption DEF Init, IsOpen, Clips
<1>1. TypeOK
  BY DEF TypeOK, Moments
<1>2. WindowsOrdered /\ StoppedIsClosed /\ QuietIsRecent /\ QuietHasTimer
  BY DEF WindowsOrdered, StoppedIsClosed, QuietIsRecent, QuietHasTimer
<1>3. ClipsOrdered /\ ClipsArePast /\ OneVisitOneClip
  BY DEF ClipsOrdered, ClipsArePast, OneVisitOneClip
<1>4. SweepIsSoon
  BY DEF SweepIsSoon
<1>5. DetectionsCovered
  BY DEF DetectionsCovered
<1>6. GathersOnlyWhenAsked
  BY DEF GathersOnlyWhenAsked
<1>. QED
  BY <1>1, <1>2, <1>3, <1>4, <1>5, <1>6 DEF IInv

-----------------------------------------------------------------------------
(* The timer.                                                               *)

LEMMA LeastOfNaturals ==
    ASSUME NEW T \in SUBSET Nat, T # {}
    PROVE  \E m \in T : \A n \in T : m <= n
<1>1. PICK m \in T : \A n \in T : ~(<<n, m>> \in OpToRel(<, Nat))
  BY WFMin, NatLessThanWellFounded, Zenon
<1>2. \A n \in T : ~(n < m)
  <2>. TAKE n \in T
  <2>1. <<n, m>> \in Nat \X Nat
    OBVIOUS
  <2>. QED
    BY <1>1, <2>1 DEF OpToRel
<1>. QED
  BY <1>2

\* The timer is set no later than any open window falls due, or now.
LEMMA ScheduleIsTimely ==
    TypeOK => \A opened \in [Cameras -> Window \cup {NoWindow}] :
        /\ Schedule(opened) \in Int \cup {NoTimer}
        /\ \A c \in Cameras : opened[c] # NoWindow =>
               /\ Schedule(opened) # NoTimer
               /\ Schedule(opened) <= Greatest(now, DueOf(opened[c]))
<1>. SUFFICES ASSUME TypeOK, NEW opened \in [Cameras -> Window \cup {NoWindow}]
              PROVE  /\ Schedule(opened) \in Int \cup {NoTimer}
                     /\ \A c \in Cameras : opened[c] # NoWindow =>
                            /\ Schedule(opened) # NoTimer
                            /\ Schedule(opened) <= Greatest(now, DueOf(opened[c]))
  OBVIOUS
<1>. DEFINE dues == {DueOf(opened[c]) : c \in {k \in Cameras : opened[k] # NoWindow}}
            earliest == CHOOSE m \in dues : \A n \in dues : m <= n
<1>1. now \in Nat
  BY WindowsAssumption DEF TypeOK, Moments
<1>2. \A c \in Cameras : opened[c] # NoWindow => DueOf(opened[c]) \in Nat
  BY WindowsAssumption DEF DueOf, Window, Moments
<1>3. dues \in SUBSET Nat
  BY <1>2
<1>4. Schedule(opened) = IF dues = {} THEN NoTimer ELSE Greatest(now, earliest)
  BY DEF Schedule
<1>5. ASSUME dues # {}
      PROVE  earliest \in dues /\ \A n \in dues : earliest <= n
  <2>. HIDE DEF dues
  <2>1. \E m \in dues : \A n \in dues : m <= n
    BY <1>3, <1>5, LeastOfNaturals
  <2>. QED
    BY <2>1
<1>6. dues # {} => Greatest(now, earliest) \in Int
  <2>. SUFFICES ASSUME dues # {} PROVE Greatest(now, earliest) \in Int
    OBVIOUS
  <2>1. earliest \in Nat
    BY <1>3, <1>5
  <2>. HIDE DEF dues, earliest
  <2>. QED
    BY <1>1, <2>1 DEF Greatest
<1>7. Schedule(opened) \in Int \cup {NoTimer}
  BY <1>4, <1>6
<1>8. ASSUME NEW c \in Cameras, opened[c] # NoWindow
      PROVE  /\ Schedule(opened) # NoTimer
             /\ Schedule(opened) <= Greatest(now, DueOf(opened[c]))
  <2>1. DueOf(opened[c]) \in dues
    BY <1>8
  <2>2. dues # {}
    BY <2>1
  <2>. HIDE DEF dues, earliest
  <2>3. earliest \in Nat /\ DueOf(opened[c]) \in Nat /\ earliest <= DueOf(opened[c])
    BY <1>3, <1>5, <2>1, <2>2
  <2>. QED
    BY <1>1, <1>4, <1>6, <2>2, <2>3, WindowsAssumption DEF Greatest
<1>. QED
  BY <1>7, <1>8

-----------------------------------------------------------------------------
(* One camera's window, edge by edge.                                       *)

LEMMA RecordOnWidens ==
    ASSUME TypeOK, WindowsOrdered, NEW s \in Sensors, NEW c \in Cameras
    PROVE  LET w == open[c]
               r == RecordOn(w, s)
           IN /\ r \in Window
              /\ r.last = now
              /\ s \in r.active
              /\ KindOf[s] \in r.kinds
              /\ w = NoWindow => r.first = now /\ r.admitted = accepting
              /\ w # NoWindow => /\ r.first = w.first
                                 /\ w.kinds \subseteq r.kinds
                                 /\ r.admitted = w.admitted
<1>. DEFINE w == open[c]
            fresh == [first |-> now, last |-> now, active |-> {}, kinds |-> {},
                      admitted |-> accepting]
<1>1. now \in Moments /\ accepting \in BOOLEAN /\ now \in Int
  BY WindowsAssumption DEF TypeOK, Moments
<1>2. KindOf[s] \in Kinds
  BY WindowsAssumption
<1>3. CASE w = NoWindow
  <2>1. RecordOn(w, s) = [fresh EXCEPT !.first = Least(@, now),
                                       !.last = Greatest(@, now),
                                       !.active = @ \cup {s},
                                       !.kinds = @ \cup {KindOf[s]}]
    BY <1>3 DEF RecordOn
  <2>2. /\ Least(now, now) = now /\ Greatest(now, now) = now
        /\ {} \cup {s} = {s} /\ {} \cup {KindOf[s]} = {KindOf[s]}
    BY DEF Least, Greatest
  <2>3. RecordOn(w, s) = [first |-> now, last |-> now, active |-> {s},
                          kinds |-> {KindOf[s]}, admitted |-> accepting]
    BY <2>1, <2>2
  <2>. QED
    BY <1>1, <1>2, <1>3, <2>3 DEF Window
<1>4. CASE w # NoWindow
  <2>1. w \in Window
    BY <1>4 DEF TypeOK
  <2>2. w.first \in Int /\ w.last \in Int /\ w.first <= w.last /\ w.last <= now
    BY <1>4, <2>1 DEF WindowsOrdered, IsOpen, Window, Moments
  <2>3. RecordOn(w, s) = [w EXCEPT !.first = Least(@, now),
                                   !.last = Greatest(@, now),
                                   !.active = @ \cup {s},
                                   !.kinds = @ \cup {KindOf[s]}]
    BY <1>4 DEF RecordOn
  <2>4. Least(w.first, now) = w.first /\ Greatest(w.last, now) = now
    BY <1>1, <2>2 DEF Least, Greatest
  <2>5. RecordOn(w, s) = [first |-> w.first, last |-> now, active |-> w.active \cup {s},
                          kinds |-> w.kinds \cup {KindOf[s]}, admitted |-> w.admitted]
    BY <2>1, <2>3, <2>4 DEF Window
  <2>. QED
    BY <1>1, <1>2, <1>4, <2>1, <2>5 DEF Window
<1>. QED
  BY <1>3, <1>4

LEMMA RecordOffExtends ==
    ASSUME TypeOK, WindowsOrdered, NEW s, NEW c \in Cameras, IsOpen(c)
    PROVE  LET w == open[c]
               r == RecordOff(w, s)
           IN /\ r \in Window
              /\ r.first = w.first
              /\ r.last = now
              /\ r.kinds = w.kinds
              /\ r.admitted = w.admitted
<1>. DEFINE w == open[c]
<1>1. now \in Moments /\ now \in Int
  BY WindowsAssumption DEF TypeOK, Moments
<1>2. w \in Window
  BY DEF TypeOK, IsOpen
<1>3. w.last \in Int /\ w.last <= now
  BY <1>2 DEF WindowsOrdered, Window, Moments
<1>4. RecordOff(w, s) = [w EXCEPT !.active = @ \ {s}, !.last = Greatest(@, now)]
  BY DEF RecordOff, IsOpen
<1>5. Greatest(w.last, now) = now
  BY <1>1, <1>3 DEF Greatest
<1>6. RecordOff(w, s) = [first |-> w.first, last |-> now, active |-> w.active \ {s},
                         kinds |-> w.kinds, admitted |-> w.admitted]
  BY <1>2, <1>4, <1>5 DEF Window
<1>. QED
  BY <1>1, <1>2, <1>6 DEF Window

-----------------------------------------------------------------------------
(* From a window to a clip.                                                 *)

\* The clip k holds all of the window gathering on camera c.
HandsOver(c, k) ==
    /\ k \in ClipWindow
    /\ k.camera = c
    /\ k.start + Lead = open[c].first
    /\ open[c].last <= k.end - Tail
    /\ k.kinds = open[c].kinds
    /\ k.admitted = open[c].admitted

LEMMA ClipHandsOver ==
    ASSUME TypeOK, NEW c \in Cameras, IsOpen(c),
           NEW finish \in Int, open[c].last <= finish, NEW truncated \in BOOLEAN
    PROVE  HandsOver(c, Clip(c, finish, truncated))
<1>. DEFINE k == Clip(c, finish, truncated)
<1>1. open[c] \in Window
  BY DEF TypeOK, IsOpen
<1>2. open[c].first \in Int /\ open[c].last \in Int
  BY <1>1 DEF Window, Moments
<1>3. k = [camera |-> c, start |-> open[c].first - Lead, end |-> finish + Tail,
           kinds |-> open[c].kinds, truncated |-> truncated,
           admitted |-> open[c].admitted]
  BY DEF Clip
<1>4. k \in ClipWindow
  BY <1>1, <1>2, <1>3, WindowsAssumption DEF Window, ClipWindow
<1>5. (open[c].first - Lead) + Lead = open[c].first /\ (finish + Tail) - Tail = finish
  BY <1>2, WindowsAssumption
<1>6. k.start = open[c].first - Lead /\ k.end = finish + Tail
  BY <1>3
<1>7. k.camera = c /\ k.kinds = open[c].kinds /\ k.admitted = open[c].admitted
  BY <1>3
<1>8. HandsOver(c, k)
  <2>. HIDE DEF k
  <2>1. k.start + Lead = open[c].first
    BY <1>5, <1>6
  <2>2. open[c].last <= k.end - Tail
    BY <1>5, <1>6
  <2>. QED
    BY <1>4, <1>7, <2>1, <2>2, Zenon DEF HandsOver
<1>. QED
  BY <1>8

\* What `collect` hands over is over already, by a settle unless it was cut short.
LEMMA CollectedHandsOver ==
    ASSUME TypeOK, WindowsOrdered, NEW c \in Ready
    PROVE  /\ c \in Cameras /\ IsOpen(c)
           /\ HandsOver(c, Collected(c))
           /\ Separated(Collected(c), now)
<1>. DEFINE w == open[c]
            finish == IF Overdue(w) /\ w.active # {} THEN now ELSE w.last
<1>1. c \in Cameras /\ IsOpen(c) /\ (Overdue(w) \/ Quiet(w))
  BY DEF Ready
<1>2. w \in Window
  BY <1>1 DEF TypeOK, IsOpen
<1>3. /\ now \in Int /\ w.first \in Int /\ w.last \in Int
      /\ w.first <= w.last /\ w.last <= now
  BY <1>1, <1>2, WindowsAssumption DEF Window, Moments, TypeOK, WindowsOrdered
<1>4. finish \in Int /\ w.last <= finish /\ finish <= now
  BY <1>3
<1>5. Overdue(w) \in BOOLEAN
  BY DEF Overdue
<1>6. Collected(c) = Clip(c, finish, Overdue(w))
  BY DEF Collected
<1>7. HandsOver(c, Collected(c))
  <2>. HIDE DEF w, finish
  <2>1. open[c].last <= finish
    BY <1>4 DEF w
  <2>. QED
    BY <1>1, <1>4, <1>5, <1>6, <2>1, ClipHandsOver
<1>8. (finish + Tail) - Tail = finish
  BY <1>4, WindowsAssumption
<1>9. Collected(c).end = finish + Tail /\ Collected(c).truncated = Overdue(w)
  BY <1>6 DEF Clip
<1>10. ~Overdue(w) => finish + Settle <= now
  BY <1>1, <1>3, WindowsAssumption DEF Quiet
<1>11. finish + 0 <= now
  BY <1>4
<1>12. Separated(Collected(c), now)
  <2>. HIDE DEF w, finish
  <2>1. Collected(c).end - Tail = finish
    BY <1>8, <1>9
  <2>2. CASE Overdue(w)
    <3>1. Collected(c).truncated
      BY <1>9, <2>2
    <3>. QED
      BY <1>11, <2>1, <3>1 DEF Separated
  <2>3. CASE ~Overdue(w)
    <3>1. ~Collected(c).truncated
      BY <1>9, <2>3
    <3>. QED
      BY <1>10, <2>1, <2>3, <3>1 DEF Separated
  <2>. QED
    BY <2>2, <2>3
<1>. QED
  BY <1>1, <1>7, <1>12

LEMMA FlushedHandsOver ==
    ASSUME TypeOK, WindowsOrdered, NEW c \in Cameras, IsOpen(c)
    PROVE  HandsOver(c, Flushed(c))
<1>. DEFINE w == open[c]
            finish == Greatest(w.last, now)
<1>1. w \in Window
  BY DEF TypeOK, IsOpen
<1>2. now \in Int /\ w.last \in Int
  BY <1>1, WindowsAssumption DEF Window, Moments, TypeOK
<1>3. finish \in Int /\ w.last <= finish
  BY <1>2 DEF Greatest
<1>4. Flushed(c) = Clip(c, finish, w.active # {})
  BY DEF Flushed
<1>5. (w.active # {}) \in BOOLEAN
  OBVIOUS
<1>6. open[c].last <= finish
  BY <1>3
<1>. HIDE DEF w, finish
<1>. QED
  BY <1>3, <1>4, <1>5, <1>6, ClipHandsOver

-----------------------------------------------------------------------------
(* Handing finished windows over keeps what the clips and windows promise.  *)

LEMMA EnqueueIsExact ==
    ASSUME NEW clipOf, Enqueue(clipOf)
    PROVE  /\ Clips' = Clips \cup {clipOf[c] : c \in DOMAIN clipOf}
           /\ \A c \in Cameras :
                  open'[c] = IF c \in DOMAIN clipOf THEN NoWindow ELSE open[c]
<1>1. (queue' \cup lost') = (queue \cup lost) \cup {clipOf[c] : c \in DOMAIN clipOf}
  BY DEF Enqueue
<1>2. \A c \in Cameras : open'[c] = IF c \in DOMAIN clipOf THEN NoWindow ELSE open[c]
  BY DEF Enqueue
<1>. QED
  BY <1>1, <1>2 DEF Clips

LEMMA EnqueueKeepsTypes ==
    ASSUME TypeOK, NEW clipOf, Enqueue(clipOf),
           \A c \in DOMAIN clipOf : clipOf[c] \in ClipWindow
    PROVE  /\ open' \in [Cameras -> Window \cup {NoWindow}]
           /\ queue' \subseteq ClipWindow
           /\ lost' \subseteq ClipWindow
<1>1. open' \in [Cameras -> Window \cup {NoWindow}]
  BY DEF Enqueue, TypeOK
<1>2. queue' \subseteq ClipWindow /\ lost' \subseteq ClipWindow
  BY DEF Enqueue, TypeOK
<1>. QED
  BY <1>1, <1>2

LEMMA ClipsAreTyped ==
    ASSUME TypeOK, NEW k \in Clips
    PROVE  k \in ClipWindow /\ k.start \in Int /\ k.end \in Int /\ k.start + Lead \in Int
           /\ k.end - Tail \in Int
<1>1. k \in ClipWindow
  BY DEF TypeOK, Clips
<1>2. k.start \in Int /\ k.end \in Int
  BY <1>1 DEF ClipWindow
<1>. QED
  BY <1>1, <1>2, WindowsAssumption

HandOver(clipOf) ==
    /\ Enqueue(clipOf)
    /\ \A c \in DOMAIN clipOf : c \in Cameras /\ IsOpen(c) /\ HandsOver(c, clipOf[c])

\* Every clip after a hand-over is an earlier one, or that of a finished window.
LEMMA NewClip ==
    ASSUME NEW clipOf, HandOver(clipOf), NEW k \in Clips', k \notin Clips
    PROVE  \E c \in Cameras : IsOpen(c) /\ HandsOver(c, k) /\ k = clipOf[c]
  BY EnqueueIsExact DEF HandOver

LEMMA StillOpen ==
    ASSUME NEW clipOf, HandOver(clipOf), NEW c \in Cameras, IsOpen(c)'
    PROVE  IsOpen(c) /\ open'[c] = open[c] /\ c \notin DOMAIN clipOf
  BY EnqueueIsExact DEF HandOver, IsOpen

LEMMA HandOverKeepsTypes ==
    ASSUME TypeOK, NEW clipOf, HandOver(clipOf)
    PROVE  /\ open' \in [Cameras -> Window \cup {NoWindow}]
           /\ queue' \subseteq ClipWindow
           /\ lost' \subseteq ClipWindow
  BY EnqueueKeepsTypes DEF HandOver, HandsOver

LEMMA HandOverKeepsOrder ==
    ASSUME TypeOK, WindowsOrdered, ClipsOrdered, NEW clipOf, HandOver(clipOf)
    PROVE  ClipsOrdered'
<1>. SUFFICES ASSUME NEW k \in Clips' PROVE k.start + Lead <= k.end - Tail
  BY DEF ClipsOrdered
<1>1. CASE k \in Clips
  BY <1>1 DEF ClipsOrdered
<1>2. CASE k \notin Clips
  <2>1. PICK c \in Cameras : IsOpen(c) /\ HandsOver(c, k)
    BY <1>2, NewClip
  <2>2. open[c] \in Window
    BY <2>1 DEF TypeOK, IsOpen
  <2>3. open[c].first \in Int /\ open[c].last \in Int /\ open[c].first <= open[c].last
    BY <2>1, <2>2 DEF Window, Moments, WindowsOrdered
  <2>4. k.end - Tail \in Int
    BY <2>1, WindowsAssumption DEF HandsOver, ClipWindow
  <2>. QED
    BY <2>1, <2>3, <2>4 DEF HandsOver
<1>. QED
  BY <1>1, <1>2

LEMMA HandOverKeepsVisits ==
    ASSUME TypeOK, WindowsOrdered, ClipsOrdered, OneVisitOneClip,
           NEW clipOf, HandOver(clipOf)
    PROVE  OneVisitOneClip'
<1>1. ASSUME NEW k \in Clips', NEW l \in Clips', k.camera = l.camera, k.start < l.start
      PROVE  Separated(k, l.start + Lead)
  <2>1. CASE k \in Clips /\ l \in Clips
    BY <1>1, <2>1 DEF OneVisitOneClip
  <2>2. CASE k \in Clips /\ l \notin Clips
    <3>1. PICK c \in Cameras : IsOpen(c) /\ HandsOver(c, l)
      BY <2>2, NewClip
    <3>. QED
      BY <1>1, <2>2, <3>1 DEF OneVisitOneClip, HandsOver
  \* A new clip does not begin before an earlier one on its camera.
  <2>3. CASE k \notin Clips /\ l \in Clips
    <3>1. PICK c \in Cameras : IsOpen(c) /\ HandsOver(c, k)
      BY <2>3, NewClip
    <3>2. Separated(l, open[c].first)
      BY <1>1, <2>3, <3>1 DEF OneVisitOneClip, HandsOver
    <3>3. /\ l.start \in Int /\ l.end - Tail \in Int
          /\ l.start + Lead <= l.end - Tail
      BY <2>3, ClipsAreTyped DEF ClipsOrdered
    <3>4. open[c].first \in Int
      BY <3>1 DEF TypeOK, IsOpen, Window, Moments
    <3>5. l.end - Tail <= open[c].first
      <4>1. CASE l.truncated
        BY <3>2, <3>3, <3>4, <4>1 DEF Separated
      <4>2. CASE ~l.truncated
        BY <3>2, <3>3, <3>4, <4>2, WindowsAssumption DEF Separated
      <4>. QED
        BY <4>1, <4>2
    <3>6. k.start \in Int /\ k.start + Lead = open[c].first
      BY <3>1 DEF HandsOver, ClipWindow
    <3>7. l.start <= k.start
      BY <3>3, <3>4, <3>5, <3>6, WindowsAssumption
    <3>. QED
      BY <1>1, <3>3, <3>6, <3>7
  <2>4. CASE k \notin Clips /\ l \notin Clips
    <3>1. PICK c \in Cameras : IsOpen(c) /\ HandsOver(c, k) /\ k = clipOf[c]
      BY <2>4, NewClip
    <3>2. PICK d \in Cameras : IsOpen(d) /\ HandsOver(d, l) /\ l = clipOf[d]
      BY <2>4, NewClip
    <3>3. k = l
      BY <1>1, <3>1, <3>2 DEF HandsOver
    <3>4. k.start \in Int
      BY <3>1 DEF HandsOver, ClipWindow
    <3>. QED
      BY <1>1, <3>3, <3>4
  <2>. QED
    BY <2>1, <2>2, <2>3, <2>4
<1>2. ASSUME NEW k \in Clips', k.camera \in Cameras, IsOpen(k.camera)'
      PROVE  Separated(k, open'[k.camera].first)
  <2>1. IsOpen(k.camera) /\ open'[k.camera] = open[k.camera] /\ k.camera \notin DOMAIN clipOf
    BY <1>2, StillOpen
  <2>2. k \in Clips
    BY <2>1, EnqueueIsExact DEF HandOver, HandsOver
  <2>. QED
    BY <2>1, <2>2 DEF OneVisitOneClip
<1>3. \A k \in Clips' : k.camera \in Cameras
  BY HandOverKeepsTypes DEF Clips, ClipWindow
<1>. QED
  BY <1>1, <1>2, <1>3 DEF OneVisitOneClip, Separated

LEMMA HandOverKeepsDetections ==
    ASSUME TypeOK, DetectionsCovered, NEW clipOf, HandOver(clipOf), marked' = marked
    PROVE  DetectionsCovered'
<1>. SUFFICES ASSUME marked # NoDetection
              PROVE  Gathering(marked)' \/ \E k \in Clips' : Holds(k, marked)
  BY DEF DetectionsCovered, Holds
<1>1. marked.camera \in Cameras /\ marked.at \in Int
  BY DEF TypeOK, Detection, Moments
<1>2. CASE \E k \in Clips : Holds(k, marked)
  BY <1>2, EnqueueIsExact DEF HandOver
<1>3. CASE Gathering(marked)
  <2>. DEFINE c == marked.camera
  <2>1. CASE c \in DOMAIN clipOf
    <3>1. clipOf[c] \in Clips'
      BY <2>1, EnqueueIsExact DEF HandOver
    <3>2. HandsOver(c, clipOf[c])
      BY <2>1 DEF HandOver
    <3>3. open[c] \in Window
      BY <1>1, <1>3 DEF TypeOK, Gathering, IsOpen
    <3>4. open[c].last \in Int /\ clipOf[c].end - Tail \in Int
      BY <3>2, <3>3, WindowsAssumption DEF Window, Moments, HandsOver, ClipWindow
    <3>5. marked.at <= clipOf[c].end - Tail
      BY <1>1, <1>3, <3>2, <3>4 DEF Gathering, HandsOver
    <3>6. Holds(clipOf[c], marked)
      BY <1>3, <3>2, <3>5 DEF Gathering, HandsOver, Holds
    <3>. QED
      BY <3>1, <3>6
  <2>2. CASE c \notin DOMAIN clipOf
    <3>1. open'[c] = open[c]
      BY <1>1, <2>2, EnqueueIsExact DEF HandOver
    <3>. QED
      BY <1>3, <3>1 DEF Gathering, IsOpen
  <2>. QED
    BY <2>1, <2>2
<1>. QED
  BY <1>2, <1>3 DEF DetectionsCovered

LEMMA HandOverKeepsAsking ==
    ASSUME TypeOK, GathersOnlyWhenAsked, NEW clipOf, HandOver(clipOf)
    PROVE  GathersOnlyWhenAsked'
<1>. SUFFICES ASSUME ~Unusual
              PROVE  /\ \A c \in Cameras : IsOpen(c)' => open'[c].admitted
                     /\ \A k \in Clips' : k.admitted
  BY DEF GathersOnlyWhenAsked
<1>1. ASSUME NEW c \in Cameras, IsOpen(c)' PROVE open'[c].admitted
  BY <1>1, StillOpen DEF GathersOnlyWhenAsked
<1>2. ASSUME NEW k \in Clips' PROVE k.admitted
  <2>1. CASE k \in Clips
    BY <2>1 DEF GathersOnlyWhenAsked
  <2>2. CASE k \notin Clips
    <3>1. PICK c \in Cameras : IsOpen(c) /\ HandsOver(c, k)
      BY <2>2, NewClip
    <3>2. k.admitted = open[c].admitted /\ open[c].admitted
      BY <3>1 DEF HandsOver, GathersOnlyWhenAsked
    <3>. QED
      BY <3>2
  <2>. QED
    BY <2>1, <2>2
<1>. QED
  BY <1>1, <1>2

LEMMA HandOverKeepsPast ==
    ASSUME ClipsArePast, running, NEW clipOf, HandOver(clipOf), now' = now,
           \A c \in DOMAIN clipOf : Separated(clipOf[c], now)
    PROVE  ClipsArePast'
<1>. SUFFICES ASSUME NEW k \in Clips' PROVE Separated(k, now)
  BY DEF ClipsArePast, Separated
<1>1. CASE k \in Clips
  BY <1>1 DEF ClipsArePast
<1>2. CASE k \notin Clips
  BY <1>2, EnqueueIsExact DEF HandOver
<1>. QED
  BY <1>1, <1>2

-----------------------------------------------------------------------------
(* Every step keeps the invariant.                                          *)

LEMMA TickHandsOver ==
    ASSUME TypeOK, WindowsOrdered, NEW strays, Tick(strays)
    PROVE  HandOver([c \in Ready |-> Collected(c)])
  BY CollectedHandsOver DEF Tick, HandOver

\* After a tick the timer is in time for every window still quiet.
LEMMA TickKeepsTimer ==
    ASSUME TypeOK, WindowsOrdered, NEW strays, Tick(strays)
    PROVE  /\ due' \in Int \cup {NoTimer}
           /\ QuietHasTimer'
<1>. DEFINE clipOf == [c \in Ready |-> Collected(c)]
<1>1. HandOver(clipOf)
  BY TickHandsOver
<1>2. open' \in [Cameras -> Window \cup {NoWindow}]
  BY <1>1, HandOverKeepsTypes
<1>3. due' = Schedule(open') /\ now' = now
  BY DEF Tick
<1>4. due' \in Int \cup {NoTimer}
  BY <1>2, <1>3, ScheduleIsTimely
<1>5. ASSUME NEW c \in Cameras, IsOpen(c)', open'[c].active = {}
      PROVE  due' # NoTimer /\ due' <= open'[c].last + Settle
  <2>1. IsOpen(c) /\ open'[c] = open[c] /\ c \notin Ready
    BY <1>1, <1>5, StillOpen
  <2>2. open[c] \in Window /\ now \in Int
    BY <2>1, WindowsAssumption DEF TypeOK, IsOpen, Moments
  <2>3. open[c].last \in Int
    BY <2>2 DEF Window, Moments
  <2>4. ~(now - open[c].last >= Settle)
    BY <1>5, <2>1 DEF Ready, Quiet
  <2>5. open'[c] # NoWindow
    BY <1>5 DEF IsOpen
  <2>6. due' # NoTimer /\ due' <= Greatest(now, DueOf(open'[c]))
    BY <1>2, <1>3, <2>5, ScheduleIsTimely
  <2>7. DueOf(open'[c]) = open[c].last + Settle
    BY <1>5, <2>1 DEF DueOf
  <2>8. Greatest(now, open[c].last + Settle) = open[c].last + Settle
    BY <2>2, <2>3, <2>4, WindowsAssumption DEF Greatest
  <2>. QED
    BY <2>1, <2>6, <2>7, <2>8
<1>. QED
  BY <1>4, <1>5 DEF QuietHasTimer, IsOpen

\* Whatever runs it, a tick keeps all but what the caller makes of the sweep.
LEMMA TickKeeps ==
    ASSUME IInv, NEW strays \in SUBSET Int, Tick(strays), nextSweep' \in Int, SweepIsSoon'
    PROVE  IInv'
<1>. DEFINE clipOf == [c \in Ready |-> Collected(c)]
<1>. USE DEF IInv
<1>1. HandOver(clipOf)
  BY TickHandsOver
<1>2. /\ now' = now /\ on' = on /\ watched' = watched /\ accepting' = accepting
      /\ running' = running /\ marked' = marked /\ stray' = strays
  BY DEF Tick
<1>3. TypeOK'
  <2>1. due' \in Int \cup {NoTimer}
    BY TickKeepsTimer
  <2>2. /\ open' \in [Cameras -> Window \cup {NoWindow}]
        /\ queue' \subseteq ClipWindow
        /\ lost' \subseteq ClipWindow
    BY <1>1, HandOverKeepsTypes
  <2>. QED
    BY <1>2, <2>1, <2>2 DEF TypeOK
<1>4. \A c \in Cameras : IsOpen(c)' => IsOpen(c) /\ open'[c] = open[c]
  BY <1>1, StillOpen
<1>5. WindowsOrdered'
  BY <1>2, <1>4 DEF WindowsOrdered
<1>6. StoppedIsClosed'
  BY <1>2, <1>4 DEF StoppedIsClosed
<1>7. QuietIsRecent'
  BY <1>2, <1>4 DEF QuietIsRecent
<1>8. ClipsArePast'
  <2>1. \A c \in DOMAIN clipOf : Separated(clipOf[c], now)
    BY CollectedHandsOver
  <2>2. CASE running
    BY <1>1, <1>2, <2>1, <2>2, HandOverKeepsPast
  <2>3. CASE ~running
    BY <1>2, <2>3 DEF ClipsArePast
  <2>. QED
    BY <2>2, <2>3
<1>9. QuietHasTimer'
  BY TickKeepsTimer
<1>10. DetectionsCovered'
  BY <1>1, <1>2, HandOverKeepsDetections
<1>11. ClipsOrdered' /\ OneVisitOneClip' /\ GathersOnlyWhenAsked'
  BY <1>1, HandOverKeepsOrder, HandOverKeepsVisits, HandOverKeepsAsking
<1>. QED
  BY <1>3, <1>5, <1>6, <1>7, <1>8, <1>9, <1>10, <1>11

LEMMA DueFiresKeeps == IInv /\ DueFires => IInv'
<1>. SUFFICES ASSUME IInv, DueFires PROVE IInv'
  OBVIOUS
<1>1. Tick(stray) /\ nextSweep' = nextSweep
  BY DEF DueFires
<1>2. stray \in SUBSET Int /\ nextSweep' \in Int
  BY <1>1 DEF IInv, TypeOK
<1>3. \A c \in Cameras : IsOpen(c)' => IsOpen(c) /\ open'[c] = open[c]
  BY <1>1, TickHandsOver, StillOpen DEF IInv
<1>4. SweepIsSoon'
  BY <1>1, <1>3 DEF SweepIsSoon, Tick, IInv
<1>. QED
  BY <1>1, <1>2, <1>4, TickKeeps

LEMMA StrayFiresKeeps == IInv /\ (\E m \in stray : StrayFires(m)) => IInv'
<1>. SUFFICES ASSUME IInv, NEW m \in stray, StrayFires(m) PROVE IInv'
  OBVIOUS
<1>. DEFINE strays == (stray \ {m}) \cup Armed
<1>1. Tick(strays) /\ nextSweep' = nextSweep
  BY DEF StrayFires
<1>2. strays \in SUBSET Int /\ nextSweep' \in Int
  BY <1>1 DEF IInv, TypeOK, Armed
<1>3. \A c \in Cameras : IsOpen(c)' => IsOpen(c) /\ open'[c] = open[c]
  BY <1>1, TickHandsOver, StillOpen DEF IInv
<1>4. SweepIsSoon'
  BY <1>1, <1>3 DEF SweepIsSoon, Tick, IInv
<1>. HIDE DEF strays
<1>. QED
  BY <1>1, <1>2, <1>4, TickKeeps

\* What the sweep leaves open is younger than the maximum.
LEMMA SweepKeeps == IInv /\ Sweep => IInv'
<1>. SUFFICES ASSUME IInv, Sweep PROVE IInv'
  OBVIOUS
<1>. DEFINE strays == stray \cup Armed
<1>1. Tick(strays) /\ nextSweep' = now + SweepEvery /\ running' = running /\ now' = now
  BY DEF Sweep, Tick
<1>2. now \in Int
  BY WindowsAssumption DEF IInv, TypeOK, Moments
<1>3. strays \in SUBSET Int
  BY DEF IInv, TypeOK, Armed
<1>4. nextSweep' \in Int
  BY <1>1, <1>2, WindowsAssumption
<1>5. ASSUME NEW c \in Cameras, IsOpen(c)'
      PROVE  nextSweep' <= open'[c].first + Maximum + SweepEvery
  <2>. DEFINE clipOf == [d \in Ready |-> Collected(d)]
  <2>0. HandOver(clipOf)
    BY <1>1, TickHandsOver DEF IInv
  <2>1. IsOpen(c) /\ open'[c] = open[c] /\ c \notin Ready
    BY <1>5, <2>0, StillOpen
  <2>2. open[c].first \in Int
    BY <2>1 DEF IInv, TypeOK, IsOpen, Window, Moments
  <2>3. ~(now - open[c].first >= Maximum)
    BY <2>1 DEF Ready, Overdue
  <2>. QED
    BY <1>1, <1>2, <2>1, <2>2, <2>3, WindowsAssumption
<1>6. SweepIsSoon'
  <2>1. now <= now + SweepEvery
    BY <1>2, WindowsAssumption
  <2>. QED
    BY <1>1, <1>2, <1>5, <2>1, WindowsAssumption DEF SweepIsSoon
<1>. HIDE DEF strays
<1>. QED
  BY <1>1, <1>3, <1>4, <1>6, TickKeeps

LEMMA SensorOnKeeps ==
    ASSUME IInv, NEW s \in Sensors, SensorOn(s)
    PROVE  IInv'
<1>. USE DEF IInv
<1>. DEFINE c == CameraOf[s]
            r == RecordOn(open[c], s)
<1>1. /\ running /\ running' = running /\ now' = now /\ watched' = watched
      /\ accepting' = accepting /\ due' = due /\ stray' = stray
      /\ nextSweep' = nextSweep /\ queue' = queue /\ lost' = lost
      /\ on' = on \cup {s}
  BY DEF SensorOn
<1>2. CASE ~(s \in watched /\ Takes(c))
  <2>1. open' = open /\ marked' = marked
    BY <1>2 DEF SensorOn
  <2>. QED
    BY <1>1, <2>1 DEF TypeOK, WindowsOrdered, StoppedIsClosed, ClipsOrdered, ClipsArePast,
         SweepIsSoon, QuietIsRecent, QuietHasTimer, DetectionsCovered, OneVisitOneClip,
         GathersOnlyWhenAsked, Clips, Separated, IsOpen, Gathering, Holds
<1>3. CASE s \in watched /\ Takes(c)
  <2>1. /\ open' = [open EXCEPT ![c] = r]
        /\ \/ marked' = marked
           \/ marked' = [camera |-> c, kind |-> KindOf[s], at |-> now]
    BY <1>3 DEF SensorOn
  <2>2. c \in Cameras /\ KindOf[s] \in Kinds
    BY WindowsAssumption
  <2>3. /\ r \in Window /\ r.last = now /\ s \in r.active /\ KindOf[s] \in r.kinds
        /\ open[c] = NoWindow => r.first = now /\ r.admitted = accepting
        /\ open[c] # NoWindow => /\ r.first = open[c].first
                                 /\ open[c].kinds \subseteq r.kinds
                                 /\ r.admitted = open[c].admitted
    BY <2>2, RecordOnWidens
  <2>4. /\ open'[c] = r
        /\ \A d \in Cameras : d # c => open'[d] = open[d]
    BY <2>1, <2>2 DEF TypeOK
  <2>5. IsOpen(c)'
    BY <2>3, <2>4, WindowsAssumption DEF IsOpen
  <2>6. now \in Moments /\ now \in Int /\ now >= 0
    BY WindowsAssumption DEF TypeOK, Moments
  <2>7. r.first \in Int /\ r.first <= now
    <3>1. CASE open[c] = NoWindow
      BY <2>3, <2>6, <3>1
    <3>2. CASE open[c] # NoWindow
      <4>1. open[c] \in Window
        BY <2>2, <3>2 DEF TypeOK
      <4>. QED
        BY <2>2, <2>3, <2>6, <3>2, <4>1 DEF WindowsOrdered, IsOpen, Window, Moments
    <3>. QED
      BY <3>1, <3>2
  <2>. HIDE DEF c, r
  <2>8. TypeOK'
    <3>1. open' \in [Cameras -> Window \cup {NoWindow}]
      BY <2>1, <2>3 DEF TypeOK
    <3>2. marked' \in Detection \cup {NoDetection}
      BY <2>1, <2>2, <2>6 DEF TypeOK, Detection
    <3>. QED
      BY <1>1, <3>1, <3>2 DEF TypeOK
  <2>9. WindowsOrdered'
    BY <1>1, <2>3, <2>4, <2>6, <2>7 DEF WindowsOrdered, IsOpen
  <2>10. StoppedIsClosed' /\ ClipsOrdered' /\ ClipsArePast'
    BY <1>1 DEF StoppedIsClosed, ClipsOrdered, ClipsArePast, Clips, Separated
  <2>11. SweepIsSoon'
    <3>1. nextSweep <= r.first + Maximum + SweepEvery
      <4>1. CASE open[c] = NoWindow
        BY <1>1, <2>3, <2>6, <4>1, WindowsAssumption DEF SweepIsSoon, TypeOK
      <4>2. CASE open[c] # NoWindow
        BY <2>2, <2>3, <4>2 DEF SweepIsSoon, IsOpen
      <4>. QED
        BY <4>1, <4>2
    <3>. QED
      BY <1>1, <2>4, <3>1 DEF SweepIsSoon, IsOpen
  <2>12. QuietIsRecent' /\ QuietHasTimer'
    BY <1>1, <2>3, <2>4 DEF QuietIsRecent, QuietHasTimer, IsOpen
  <2>13. DetectionsCovered'
    <3>1. CASE marked' = marked
      <4>1. SUFFICES ASSUME marked # NoDetection, Gathering(marked) PROVE Gathering(marked)'
        BY <1>1, <3>1 DEF DetectionsCovered, Clips, Holds
      <4>2. marked.camera \in Cameras /\ marked.at \in Int
        BY <4>1 DEF TypeOK, Detection, Moments
      <4>3. CASE marked.camera = c
        <5>1. open[c] \in Window
          BY <2>2, <4>1, <4>3 DEF TypeOK, Gathering, IsOpen
        <5>2. open[c].last \in Int /\ open[c].last <= now
          BY <2>2, <4>1, <4>3, <5>1 DEF WindowsOrdered, Gathering, IsOpen, Window, Moments
        <5>. QED
          BY <2>3, <2>4, <2>5, <2>6, <3>1, <4>1, <4>2, <4>3, <5>2 DEF Gathering, IsOpen
      <4>4. CASE marked.camera # c
        BY <2>4, <3>1, <4>1, <4>2, <4>4 DEF Gathering, IsOpen
      <4>. QED
        BY <4>3, <4>4
    <3>2. CASE marked' = [camera |-> c, kind |-> KindOf[s], at |-> now]
      BY <2>3, <2>4, <2>5, <2>6, <2>7, <3>2 DEF DetectionsCovered, Gathering
    <3>. QED
      BY <2>1, <3>1, <3>2
  <2>14. OneVisitOneClip'
    <3>1. ASSUME NEW k \in Clips, k.camera = c PROVE Separated(k, r.first)
      <4>1. CASE open[c] = NoWindow
        BY <1>1, <2>3, <4>1 DEF ClipsArePast
      <4>2. CASE open[c] # NoWindow
        BY <2>3, <3>1, <4>2 DEF OneVisitOneClip, IsOpen
      <4>. QED
        BY <4>1, <4>2
    <3>2. \A k \in Clips : k.camera \in Cameras
      BY ClipsAreTyped DEF ClipWindow
    <3>. QED
      BY <1>1, <2>4, <3>1, <3>2 DEF OneVisitOneClip, Clips, Separated, IsOpen
  <2>15. GathersOnlyWhenAsked'
    <3>1. SUFFICES ASSUME ~Unusual PROVE \A d \in Cameras : IsOpen(d)' => open'[d].admitted
      BY <1>1 DEF GathersOnlyWhenAsked, Clips
    <3>2. r.admitted
      <4>1. CASE open[c] = NoWindow
        <5>1. accepting
          BY <1>3, <3>1, <4>1 DEF Takes, IsOpen, c
        <5>. QED
          BY <2>3, <4>1, <5>1
      <4>2. CASE open[c] # NoWindow
        <5>1. open[c].admitted
          BY <2>2, <3>1, <4>2 DEF GathersOnlyWhenAsked, IsOpen
        <5>. QED
          BY <2>3, <4>2, <5>1
      <4>. QED
        BY <4>1, <4>2
    <3>3. \A d \in Cameras : (d # c /\ IsOpen(d)') => open'[d].admitted
      BY <2>4, <3>1 DEF GathersOnlyWhenAsked, IsOpen
    <3>. QED
      BY <2>4, <3>2, <3>3
  <2>. QED
    BY <2>8, <2>9, <2>10, <2>11, <2>12, <2>13, <2>14, <2>15
<1>. QED
  BY <1>2, <1>3

LEMMA SensorOffKeeps ==
    ASSUME IInv, NEW s \in Sensors, SensorOff(s)
    PROVE  IInv'
<1>. USE DEF IInv
<1>. DEFINE c == CameraOf[s]
            r == RecordOff(open[c], s)
<1>1. /\ running /\ running' = running /\ now' = now /\ watched' = watched
      /\ accepting' = accepting /\ stray' = stray /\ marked' = marked
      /\ nextSweep' = nextSweep /\ queue' = queue /\ lost' = lost
      /\ on' = on \ {s}
  BY DEF SensorOff
<1>2. CASE s \notin watched
  <2>1. open' = open /\ due' = due
    BY <1>2 DEF SensorOff
  <2>. QED
    BY <1>1, <2>1 DEF TypeOK, WindowsOrdered, StoppedIsClosed, ClipsOrdered, ClipsArePast,
         SweepIsSoon, QuietIsRecent, QuietHasTimer, DetectionsCovered, OneVisitOneClip,
         GathersOnlyWhenAsked, Clips, Separated, IsOpen, Gathering, Holds
<1>3. CASE s \in watched
  <2>1. open' = [open EXCEPT ![c] = r] /\ due' = Schedule(open')
    BY <1>3 DEF SensorOff
  <2>2. c \in Cameras /\ now \in Int
    BY WindowsAssumption DEF TypeOK, Moments
  <2>3. open[c] # NoWindow =>
            /\ r \in Window /\ r.last = now /\ r.first = open[c].first
            /\ r.kinds = open[c].kinds /\ r.admitted = open[c].admitted
    BY <2>2, RecordOffExtends DEF IsOpen
  <2>4. open[c] = NoWindow => r = NoWindow
    BY DEF RecordOff
  <2>5. /\ open'[c] = r
        /\ \A d \in Cameras : d # c => open'[d] = open[d]
    BY <2>1, <2>2 DEF TypeOK
  <2>6. open' \in [Cameras -> Window \cup {NoWindow}]
    BY <2>1, <2>3, <2>4 DEF TypeOK
  <2>. HIDE DEF c, r
  \* What the edge leaves of any open window.
  <2>7. ASSUME NEW d \in Cameras, IsOpen(d)'
        PROVE  /\ IsOpen(d)
               /\ open'[d].first = open[d].first
               /\ open[d].last <= open'[d].last /\ open'[d].last <= now
               /\ open'[d].kinds = open[d].kinds
               /\ open'[d].admitted = open[d].admitted
               /\ d = c => open'[d].last = now
    <3>1. IsOpen(d)
      BY <2>4, <2>5, <2>7 DEF IsOpen
    <3>2. open[d] \in Window
      BY <3>1 DEF TypeOK, IsOpen
    <3>3. open[d].last \in Int /\ open[d].last <= now
      BY <3>1, <3>2 DEF WindowsOrdered, Window, Moments
    <3>4. CASE d = c
      <4>1. open[c] # NoWindow
        BY <3>1, <3>4 DEF IsOpen
      <4>. QED
        BY <2>2, <2>3, <2>5, <3>1, <3>3, <3>4, <4>1
    <3>5. CASE d # c
      BY <2>5, <3>1, <3>3, <3>5
    <3>. QED
      BY <3>4, <3>5
  <2>8. TypeOK'
    <3>1. due' \in Int \cup {NoTimer}
      BY <2>1, <2>6, ScheduleIsTimely
    <3>. QED
      BY <1>1, <2>6, <3>1 DEF TypeOK
  <2>9. WindowsOrdered'
    <3>1. ASSUME NEW d \in Cameras, IsOpen(d)'
          PROVE  open'[d].first <= open'[d].last /\ open'[d].last <= now
      <4>1. open'[d] \in Window /\ open[d] \in Window
        BY <2>6, <2>7, <3>1 DEF TypeOK, IsOpen
      <4>2. open'[d].last \in Int /\ open[d].first \in Int /\ open[d].last \in Int
        BY <4>1 DEF Window, Moments
      <4>. QED
        BY <2>7, <3>1, <4>2 DEF WindowsOrdered
    <3>. QED
      BY <1>1, <3>1 DEF WindowsOrdered
  <2>10. StoppedIsClosed' /\ ClipsOrdered' /\ ClipsArePast'
    BY <1>1 DEF StoppedIsClosed, ClipsOrdered, ClipsArePast, Clips, Separated
  <2>11. SweepIsSoon'
    BY <1>1, <2>7 DEF SweepIsSoon
  <2>12. QuietIsRecent'
    <3>1. ASSUME NEW d \in Cameras, IsOpen(d)', open'[d].active = {}
          PROVE  now - open'[d].last <= Settle
      <4>1. CASE d = c
        BY <2>2, <2>7, <3>1, <4>1, WindowsAssumption
      <4>2. CASE d # c
        BY <2>5, <2>7, <3>1, <4>2 DEF QuietIsRecent
      <4>. QED
        BY <4>1, <4>2
    <3>. QED
      BY <1>1, <3>1 DEF QuietIsRecent
  <2>13. QuietHasTimer'
    <3>1. ASSUME NEW d \in Cameras, IsOpen(d)', open'[d].active = {}
          PROVE  due' # NoTimer /\ due' <= open'[d].last + Settle
      <4>1. due' # NoTimer /\ due' <= Greatest(now, DueOf(open'[d]))
        BY <2>1, <2>6, <3>1, ScheduleIsTimely DEF IsOpen
      <4>2. DueOf(open'[d]) = open'[d].last + Settle
        BY <3>1 DEF DueOf
      <4>3. open'[d].last \in Int
        BY <2>6, <3>1 DEF IsOpen, Window, Moments
      <4>4. now - open'[d].last <= Settle
        BY <1>1, <2>12, <3>1 DEF QuietIsRecent
      <4>5. Greatest(now, open'[d].last + Settle) = open'[d].last + Settle
        BY <2>2, <4>3, <4>4, WindowsAssumption DEF Greatest
      <4>. QED
        BY <4>1, <4>2, <4>5
    <3>. QED
      BY <3>1 DEF QuietHasTimer
  <2>14. DetectionsCovered'
    <3>1. SUFFICES ASSUME marked # NoDetection, Gathering(marked) PROVE Gathering(marked)'
      BY <1>1 DEF DetectionsCovered, Clips, Holds
    <3>2. marked.camera \in Cameras /\ marked.at \in Int
      BY <3>1 DEF TypeOK, Detection, Moments
    <3>. DEFINE d == marked.camera
    <3>3. open'[d] # NoWindow
      <4>1. CASE marked.camera = c
        BY <2>3, <2>5, <3>1, <4>1, WindowsAssumption DEF Gathering, IsOpen
      <4>2. CASE marked.camera # c
        BY <2>5, <3>1, <3>2, <4>2 DEF Gathering, IsOpen
      <4>. QED
        BY <4>1, <4>2
    <3>4. open[d].last \in Int /\ open'[d].last \in Int
      BY <2>6, <3>1, <3>2, <3>3 DEF TypeOK, Gathering, IsOpen, Window, Moments
    <3>5. /\ open'[d].first = open[d].first /\ open[d].last <= open'[d].last
          /\ open'[d].kinds = open[d].kinds
      BY <2>7, <3>2, <3>3 DEF IsOpen
    <3>. QED
      BY <1>1, <3>1, <3>2, <3>3, <3>4, <3>5 DEF Gathering, IsOpen
  <2>15. OneVisitOneClip'
    BY <1>1, <2>7, ClipsAreTyped DEF OneVisitOneClip, Clips, Separated, ClipWindow
  <2>16. GathersOnlyWhenAsked'
    <3>1. SUFFICES ASSUME ~Unusual PROVE \A d \in Cameras : IsOpen(d)' => open'[d].admitted
      BY <1>1 DEF GathersOnlyWhenAsked, Clips
    <3>. QED
      BY <2>7, <3>1 DEF GathersOnlyWhenAsked
  <2>. QED
    BY <2>8, <2>9, <2>10, <2>11, <2>12, <2>13, <2>14, <2>15, <2>16
<1>. QED
  BY <1>2, <1>3

\* Steps that touch no window, timer or clip.
LEMMA WatchingKeeps ==
    ASSUME IInv,
           \/ \E s \in Sensors : SensorRemoved(s)
           \/ \E found \in Resolutions : Resolve(found)
           \/ SetAccepting
           \/ UNCHANGED vars
    PROVE  IInv'
<1>. USE DEF IInv
<1>1. /\ now' = now /\ open' = open /\ due' = due /\ stray' = stray
      /\ nextSweep' = nextSweep /\ running' = running /\ queue' = queue /\ lost' = lost
      /\ marked' = marked
  BY DEF SensorRemoved, Resolve, SetAccepting, vars
<1>2. on' \subseteq Sensors
  BY DEF SensorRemoved, Resolve, SetAccepting, vars, TypeOK
<1>3. watched' \subseteq Sensors
  BY WindowsAssumption DEF SensorRemoved, Resolve, SetAccepting, vars, TypeOK
<1>4. accepting' \in BOOLEAN
  <2>1. CASE SetAccepting
    BY <2>1 DEF SetAccepting, TypeOK
  <2>2. CASE ~SetAccepting
    BY <2>2 DEF SensorRemoved, Resolve, vars, TypeOK
  <2>. QED
    BY <2>1, <2>2
<1>5. TypeOK'
  BY <1>1, <1>2, <1>3, <1>4 DEF TypeOK
<1>. QED
  BY <1>1, <1>5 DEF WindowsOrdered, StoppedIsClosed, ClipsOrdered, ClipsArePast,
     SweepIsSoon, QuietIsRecent, QuietHasTimer, DetectionsCovered, OneVisitOneClip,
     GathersOnlyWhenAsked, Clips, Separated, IsOpen, Gathering, Holds

LEMMA StopKeeps == IInv /\ Stop => IInv'
<1>. SUFFICES ASSUME IInv, Stop PROVE IInv'
  OBVIOUS
<1>. USE DEF IInv
<1>. DEFINE clipOf == [c \in {k \in Cameras : IsOpen(k)} |-> Flushed(c)]
<1>1. HandOver(clipOf)
  BY FlushedHandsOver DEF Stop, HandOver
<1>2. /\ now' = now /\ on' = on /\ watched' = watched /\ accepting' = accepting
      /\ running' = FALSE /\ due' = NoTimer /\ stray' = stray /\ nextSweep' = nextSweep
      /\ marked' = marked
  BY DEF Stop
<1>3. \A c \in Cameras : ~IsOpen(c)'
  BY <1>1, StillOpen
<1>4. TypeOK'
  <2>1. /\ open' \in [Cameras -> Window \cup {NoWindow}]
        /\ queue' \subseteq ClipWindow
        /\ lost' \subseteq ClipWindow
    BY <1>1, HandOverKeepsTypes
  <2>. QED
    BY <1>2, <2>1 DEF TypeOK
<1>5. WindowsOrdered' /\ StoppedIsClosed' /\ QuietIsRecent'
  BY <1>3 DEF WindowsOrdered, StoppedIsClosed, QuietIsRecent
<1>6. SweepIsSoon' /\ ClipsArePast' /\ QuietHasTimer'
  BY <1>2, <1>3 DEF SweepIsSoon, ClipsArePast, QuietHasTimer
<1>7. DetectionsCovered'
  BY <1>1, <1>2, HandOverKeepsDetections
<1>8. ClipsOrdered' /\ OneVisitOneClip' /\ GathersOnlyWhenAsked'
  BY <1>1, HandOverKeepsOrder, HandOverKeepsVisits, HandOverKeepsAsking
<1>. QED
  BY <1>4, <1>5, <1>6, <1>7, <1>8

LEMMA AdvanceKeeps == IInv /\ Advance => IInv'
<1>. SUFFICES ASSUME IInv, Advance PROVE IInv'
  OBVIOUS
<1>. USE DEF IInv
<1>1. /\ now' = now + 1 /\ now < MaxTime
      /\ on' = on /\ watched' = watched /\ accepting' = accepting /\ open' = open
      /\ due' = due /\ stray' = stray /\ nextSweep' = nextSweep /\ running' = running
      /\ queue' = queue /\ lost' = lost /\ marked' = marked
      /\ running => now < nextSweep
      /\ due # NoTimer => now < due
  BY DEF Advance, Armed
<1>2. now \in Int /\ now >= 0 /\ nextSweep \in Int /\ due \in Int \cup {NoTimer}
  BY WindowsAssumption DEF TypeOK, Moments
<1>3. \A c \in Cameras : IsOpen(c) =>
          open[c].first \in Int /\ open[c].last \in Int
  BY DEF TypeOK, IsOpen, Window, Moments
<1>4. TypeOK'
  <2>1. now' \in Moments
    BY <1>1, <1>2, WindowsAssumption DEF Moments
  <2>. QED
    BY <1>1, <2>1 DEF TypeOK
<1>5. WindowsOrdered'
  BY <1>1, <1>2, <1>3 DEF WindowsOrdered, IsOpen
<1>6. StoppedIsClosed' /\ ClipsOrdered'
  BY <1>1 DEF StoppedIsClosed, IsOpen, ClipsOrdered, Clips
<1>7. ClipsArePast'
  <2>1. ASSUME running, NEW k \in Clips PROVE Separated(k, now + 1)
    <3>1. Separated(k, now) /\ k.end - Tail \in Int
      BY <2>1, ClipsAreTyped DEF ClipsArePast
    <3>2. CASE k.truncated
      BY <1>2, <3>1, <3>2 DEF Separated
    <3>3. CASE ~k.truncated
      BY <1>2, <3>1, <3>3, WindowsAssumption DEF Separated
    <3>. QED
      BY <3>2, <3>3
  <2>. QED
    BY <1>1, <2>1 DEF ClipsArePast, Clips, Separated
<1>8. SweepIsSoon'
  BY <1>1, <1>2, <1>3, WindowsAssumption DEF SweepIsSoon, IsOpen
<1>9. QuietIsRecent'
  <2>1. ASSUME NEW c \in Cameras, IsOpen(c), open[c].active = {}
        PROVE  (now + 1) - open[c].last <= Settle
    <3>1. due # NoTimer /\ due <= open[c].last + Settle
      BY <2>1 DEF StoppedIsClosed, QuietHasTimer
    <3>2. now < due /\ due \in Int
      BY <1>1, <1>2, <3>1
    <3>. QED
      BY <1>2, <1>3, <2>1, <3>1, <3>2, WindowsAssumption
  <2>. QED
    BY <1>1, <2>1 DEF QuietIsRecent, IsOpen
<1>10. QuietHasTimer' /\ DetectionsCovered' /\ OneVisitOneClip' /\ GathersOnlyWhenAsked'
  BY <1>1 DEF QuietHasTimer, DetectionsCovered, OneVisitOneClip, GathersOnlyWhenAsked,
     Clips, Separated, IsOpen, Gathering, Holds
<1>. QED
  BY <1>4, <1>5, <1>6, <1>7, <1>8, <1>9, <1>10

LEMMA NextKeepsIInv == IInv /\ [Next]_vars => IInv'
<1>. SUFFICES ASSUME IInv, [Next]_vars PROVE IInv'
  OBVIOUS
<1>1. CASE \E s \in Sensors : SensorOn(s)
  BY <1>1, SensorOnKeeps
<1>2. CASE \E s \in Sensors : SensorOff(s)
  BY <1>2, SensorOffKeeps
<1>3. CASE DueFires
  BY <1>3, DueFiresKeeps
<1>4. CASE Sweep
  BY <1>4, SweepKeeps
<1>5. CASE \E m \in stray : StrayFires(m)
  BY <1>5, StrayFiresKeeps
<1>6. CASE Stop
  BY <1>6, StopKeeps
<1>7. CASE Advance
  BY <1>7, AdvanceKeeps
<1>8. CASE \/ \E s \in Sensors : SensorRemoved(s)
           \/ \E found \in Resolutions : Resolve(found)
           \/ SetAccepting
           \/ UNCHANGED vars
  BY <1>8, WatchingKeeps
<1>. QED
  BY <1>1, <1>2, <1>3, <1>4, <1>5, <1>6, <1>7, <1>8 DEF Next

\* The invariant of every behaviour: `cloud/windows.py` and the handlers of
\* `cloud/engine.py` that drive it keep each of its parts, in any order.
THEOREM AlwaysIInv == Spec => []IInv
  BY InitIInv, NextKeepsIInv, PTL DEF Spec

-----------------------------------------------------------------------------
(* The properties.                                                          *)

\* Windows, clips and timers are well formed, for any padding and any settle
\* (windows.py, `Window` and `ClipWindow`).
THEOREM WindowsTypeOK == Spec => []TypeOK
<1>1. IInv => TypeOK
  BY DEF IInv
<1>. QED
  BY <1>1, AlwaysIInv, PTL

\* No detection the collector took on is ever left out of the footage asked for,
\* whatever order edges, timers, the switch and a shutdown come in.
THEOREM DetectionsAreAlwaysCovered == Spec => []DetectionsCovered
<1>1. IInv => DetectionsCovered
  BY DEF IInv
<1>. QED
  BY <1>1, AlwaysIInv, PTL

\* Two clips of a camera never overlap, and are a settle apart unless one was cut.
THEOREM AlwaysOneVisitOneClip == Spec => []OneVisitOneClip
<1>1. IInv => OneVisitOneClip
  BY DEF IInv
<1>. QED
  BY <1>1, AlwaysIInv, PTL

\* The timer `_async_schedule_collect` holds never oversleeps a quiet window.
THEOREM QuietAlwaysHasTimer == Spec => []QuietHasTimer
<1>1. IInv => QuietHasTimer
  BY DEF IInv
<1>. QED
  BY <1>1, AlwaysIInv, PTL

\* A recorder without the unusual rule never gathers what the switch refused.
THEOREM AlwaysGathersOnlyWhenAsked == Spec => []GathersOnlyWhenAsked
<1>1. IInv => GathersOnlyWhenAsked
  BY DEF IInv
<1>. QED
  BY <1>1, AlwaysIInv, PTL

\* A window outlives neither its settle nor, by more than one sweep, the maximum.
THEOREM WindowsAreAlwaysBounded == Spec => []WindowsAreBounded
<1>1. IInv => WindowsAreBounded
  <2>. SUFFICES ASSUME IInv, NEW c \in Cameras, IsOpen(c)
                PROVE  /\ now - open[c].first <= Maximum + SweepEvery
                       /\ open[c].active = {} => now - open[c].last <= Settle
    BY DEF WindowsAreBounded
  <2>1. now \in Int /\ nextSweep \in Int /\ open[c].first \in Int
    BY WindowsAssumption DEF IInv, TypeOK, IsOpen, Window, Moments
  <2>2. now <= nextSweep /\ nextSweep <= open[c].first + Maximum + SweepEvery
    BY DEF IInv, StoppedIsClosed, SweepIsSoon
  <2>3. now - open[c].first <= Maximum + SweepEvery
    BY <2>1, <2>2, WindowsAssumption
  <2>. QED
    BY <2>3 DEF IInv, QuietIsRecent
<1>. QED
  BY <1>1, AlwaysIInv, PTL

LEMMA HandOverIsAdmitted ==
    ASSUME NEW clipOf, HandOver(clipOf)
    PROVE  /\ \A c \in Cameras : (open'[c] # NoWindow) =>
                  IsOpen(c) /\ open'[c].admitted = open[c].admitted
           /\ \A k \in Clips' \ Clips :
                  IsOpen(k.camera) /\ k.admitted = open[k.camera].admitted
<1>1. \A c \in Cameras : (open'[c] # NoWindow) =>
          IsOpen(c) /\ open'[c].admitted = open[c].admitted
  BY StillOpen DEF IsOpen
<1>2. ASSUME NEW k \in Clips' \ Clips
      PROVE  IsOpen(k.camera) /\ k.admitted = open[k.camera].admitted
  <2>1. PICK c \in Cameras : IsOpen(c) /\ HandsOver(c, k)
    BY <1>2, NewClip
  <2>. QED
    BY <2>1 DEF HandsOver
<1>. QED
  BY <1>1, <1>2

\* Whether footage is wanted is settled by the switch as its window opens, and no
\* later step (nor the hand-over) changes the answer.
THEOREM AdmissionIsDecidedOnce == Spec => AdmissionDecidedOnce
<1>. DEFINE Step ==
         /\ \A c \in Cameras :
                (open'[c] # NoWindow) =>
                    (open'[c].admitted = IF IsOpen(c) THEN open[c].admitted ELSE accepting)
         /\ \A k \in (queue' \cup lost') \ Clips :
                IsOpen(k.camera) /\ k.admitted = open[k.camera].admitted
<1>1. ASSUME IInv, Next PROVE Step
  <2>1. ASSUME NEW clipOf, HandOver(clipOf) PROVE Step
    BY <2>1, HandOverIsAdmitted DEF Clips
  <2>2. CASE DueFires \/ Sweep \/ \E m \in stray : StrayFires(m)
    <3>1. PICK strays : Tick(strays)
      BY <2>2 DEF DueFires, Sweep, StrayFires
    <3>2. HandOver([c \in Ready |-> Collected(c)])
      BY <1>1, <3>1, TickHandsOver DEF IInv
    <3>. HIDE DEF Step
    <3>. QED
      BY <2>1, <3>2
  <2>3. CASE Stop
    <3>1. HandOver([c \in {k \in Cameras : IsOpen(k)} |-> Flushed(c)])
      BY <1>1, <2>3, FlushedHandsOver DEF Stop, HandOver, IInv
    <3>. HIDE DEF Step
    <3>. QED
      BY <2>1, <3>1
  <2>4. CASE \E s \in Sensors : SensorOn(s)
    <3>1. PICK s \in Sensors : SensorOn(s)
      BY <2>4
    <3>2. (queue' \cup lost') \ Clips = {}
      BY <3>1 DEF SensorOn, Clips
    <3>3. ASSUME NEW c \in Cameras, open'[c] # NoWindow
          PROVE  open'[c].admitted = IF IsOpen(c) THEN open[c].admitted ELSE accepting
      <4>1. CASE open'[c] = open[c]
        BY <3>3, <4>1 DEF IsOpen
      <4>2. CASE open'[c] # open[c]
        <5>1. c = CameraOf[s] /\ open'[c] = RecordOn(open[c], s)
          BY <1>1, <3>1, <4>2, WindowsAssumption DEF SensorOn, IInv, TypeOK
        <5>. QED
          BY <1>1, <5>1, RecordOnWidens DEF IInv, IsOpen
      <4>. QED
        BY <4>1, <4>2
    <3>. QED
      BY <3>2, <3>3
  <2>5. CASE \E s \in Sensors : SensorOff(s)
    <3>1. PICK s \in Sensors : SensorOff(s)
      BY <2>5
    <3>2. (queue' \cup lost') \ Clips = {}
      BY <3>1 DEF SensorOff, Clips
    <3>3. ASSUME NEW c \in Cameras, open'[c] # NoWindow
          PROVE  open'[c].admitted = IF IsOpen(c) THEN open[c].admitted ELSE accepting
      <4>1. CASE open'[c] = open[c]
        BY <3>3, <4>1 DEF IsOpen
      <4>2. CASE open'[c] # open[c]
        <5>1. open'[c] = RecordOff(open[c], s)
          BY <1>1, <3>1, <4>2, WindowsAssumption DEF SensorOff, IInv, TypeOK
        <5>2. IsOpen(c)
          BY <3>3, <5>1 DEF RecordOff, IsOpen
        <5>. QED
          BY <1>1, <5>1, <5>2, RecordOffExtends DEF IInv
      <4>. QED
        BY <4>1, <4>2
    <3>. QED
      BY <3>2, <3>3
  <2>6. CASE \/ \E s \in Sensors : SensorRemoved(s)
             \/ \E found \in Resolutions : Resolve(found)
             \/ SetAccepting \/ Advance
    BY <2>6 DEF SensorRemoved, Resolve, SetAccepting, Advance, Clips, IsOpen
  <2>. QED
    BY <1>1, <2>2, <2>3, <2>4, <2>5, <2>6 DEF Next
<1>2. IInv /\ [Next]_vars => [Step]_vars
  <2>. HIDE DEF Step
  <2>. QED
    BY <1>1
<1>. QED
  BY <1>2, AlwaysIInv, PTL DEF Spec, AdmissionDecidedOnce
=============================================================================
