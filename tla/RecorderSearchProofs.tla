------------------------- MODULE RecorderSearchProofs -----------------------
(***************************************************************************)
(* Proofs about RecorderSearch, for every recorder, day, recording and        *)
(* history.  What holds of an answer the moment it is given (Fresh) has to     *)
(* hold as long as it is stored, while recordings are added and the clock      *)
(* moves: a step either asks again or leaves the answer and the recordings it  *)
(* is of as they are (Lasting).  The inductive invariant (SInv) is that        *)
(* recordings follow one another, that the history is one, and what a stored   *)
(* answer goes on to say of the recordings it was made of (StoredInv).         *)
(***************************************************************************)
EXTENDS RecorderSearch, FiniteSetTheorems, WellFoundedInduction, TLAPS

-----------------------------------------------------------------------------
(* Wall clocks and instants.                                                *)

LEMMA RecorderType ==
    ASSUME NEW r \in Recorders
    PROVE  /\ r.std \in Int /\ r.begins \in Int /\ r.ends \in Int
           /\ r.changes \in BOOLEAN /\ r.states \in BOOLEAN /\ r.keepsUtc \in BOOLEAN
           /\ r.split \in Nat \ {0} \/ r.split = Whole
           /\ r.states \/ r.split = Whole
  BY RecordersAssumption

LEMMA WallType ==
    ASSUME NEW r \in Recorders, NEW x \in Int
    PROVE  /\ Wall(r, x) \in Int
           /\ x + r.std <= Wall(r, x) /\ Wall(r, x) <= x + r.std + SummerHour
           /\ UtcOffset(r, x) \in Int
           /\ UtcOffset(r, x) = r.std \/ (r.changes /\ UtcOffset(r, x) = r.std + SummerHour)
  BY RecorderType, TimesAssumption DEF Wall, UtcOffset, InSummer

\* A wall clock that is not doubtful converts to the instant it stood for, and back.
LEMMA SettledWall ==
    ASSUME NEW r \in Recorders, NEW x \in Int, ~ Doubtful(r, Wall(r, x))
    PROVE  AsUtc(r, Wall(r, x)) = x /\ FromUtc(r, x) = Wall(r, x)
<1>. USE RecorderType, TimesAssumption
<1>1. UtcOffset(r, Wall(r, x)) = Wall(r, x) - x
  BY DEF Doubtful, Wall, SummerAt, UtcOffset, InSummer
<1>2. FromUtc(r, x) = Wall(r, x)
  BY DEF Doubtful, Wall, SummerAt, FromUtc, UtcOffset, InSummer
<1>. QED
  BY <1>1, <1>2, WallType DEF AsUtc

\* From a wall clock that is not doubtful the recorder's clock only goes forward.
LEMMA WallAdvances ==
    ASSUME NEW r \in Recorders, NEW x \in Int, NEW y \in Int, x < y, ~ Doubtful(r, Wall(r, x))
    PROVE  Wall(r, x) < Wall(r, y)
  BY RecorderType, TimesAssumption DEF Doubtful, Wall, SummerAt

\* ... and to one that is not doubtful it has only gone forward.
LEMMA WallAdvanced ==
    ASSUME NEW r \in Recorders, NEW x \in Int, NEW y \in Int, x < y, ~ Doubtful(r, Wall(r, y))
    PROVE  Wall(r, x) < Wall(r, y)
  BY RecorderType, TimesAssumption DEF Doubtful, Wall, SummerAt

LEMMA MinIs ==
    ASSUME NEW S \in SUBSET Int, NEW m \in S, \A y \in S : m <= y
    PROVE  Min(S) = m
<1>1. Min(S) \in S /\ \A y \in S : Min(S) <= y
  BY DEF Min
<1>2. Min(S) <= m /\ m <= Min(S) /\ Min(S) \in Int /\ m \in Int
  BY <1>1
<1>. QED
  BY <1>2

LEMMA ImageFinite ==
    ASSUME NEW S, IsFiniteSet(S), NEW f
    PROVE  IsFiniteSet({f[x] : x \in S})
<1>. DEFINE T == {f[x] : x \in S}
            g == [x \in S |-> f[x]]
<1>1. g \in [S -> T] /\ \A t \in T : \E x \in S : g[x] = t
  OBVIOUS
<1>2. g \in Surjection(S, T)
  <2>. HIDE DEF g, T
  <2>. QED
    BY <1>1 DEF Surjection
<1>. HIDE DEF g, T
<1>3. IsFiniteSet(T)
  BY <1>2, FS_Surjection
<1>. QED
  BY <1>3 DEF T

-----------------------------------------------------------------------------
(* The world.                                                               *)

\* Recordings follow one another, and none is longer than the longest.
FilmsInv ==
    /\ recorder \in Recorders
    /\ now \in Int
    /\ films \in Seq([from : Int, until : Int, flags : SUBSET Flags])
    /\ \A i \in DOMAIN films : /\ films[i].from < films[i].until
                               /\ films[i].until - films[i].from <= Longest
                               /\ films[i].until <= now
    /\ \A i, j \in DOMAIN films : i < j => films[i].until <= films[j].from

\* What the sensors said is a history.
EdgesInv == edges \in Seq([sensor : Sensors, at : Int, state : {"on", "off"}])

\* The answer is of this moment.
Fresh ==
    \E seen \in {{}, Detections(Camera, AsUtc(recorder, 0), AsUtc(recorder, DayEnd))},
       include \in BOOLEAN :
        answer = Search(recorder, Found(recorder), seen, Wall(recorder, now), include)

\* The answer, and what it was made of, stay.
Lasting ==
    /\ recorder' = recorder /\ answer' = answer
    /\ \A i \in DOMAIN films : i \in DOMAIN films' /\ films'[i] = films[i]

LEMMA FilmType ==
    ASSUME FilmsInv, NEW i \in DOMAIN films
    PROVE  /\ i \in Nat /\ DOMAIN films = 1..Len(films) /\ Len(films) \in Nat
           /\ films[i].from \in Int /\ films[i].until \in Int /\ films[i].flags \in SUBSET Flags
<1>. DEFINE Filmed == [from : Int, until : Int, flags : SUBSET Flags]
<1>1. films \in Seq(Filmed)
  BY DEF FilmsInv
<1>2. films[i] \in Filmed /\ i \in Nat /\ DOMAIN films = 1..Len(films) /\ Len(films) \in Nat
  <2>. HIDE DEF Filmed
  <2>. QED
    BY <1>1
<1>. QED
  BY <1>2

LEMMA FilmsKept ==
    ASSUME FilmsInv, [Next]_vars
    PROVE  FilmsInv'
<1>1. ASSUME NEW d \in 1..Longest, NEW flags \in SUBSET Flags, Film(d, flags) PROVE FilmsInv'
  <2>. DEFINE film == [from |-> now, until |-> now + d, flags |-> flags]
  <2>1. /\ films' = Append(films, film) /\ now' = now + d /\ recorder' = recorder
        /\ d \in Int /\ 0 < d /\ d <= Longest /\ Longest \in Nat /\ now \in Int
    BY <1>1, TimesAssumption DEF Film, FilmsInv
  <2>2. film \in [from : Int, until : Int, flags : SUBSET Flags]
    BY <2>1
  <2>3. /\ Len(films) \in Nat /\ DOMAIN films = 1..Len(films)
        /\ DOMAIN films' = 1..(Len(films) + 1)
        /\ films' \in Seq([from : Int, until : Int, flags : SUBSET Flags])
        /\ films'[Len(films) + 1] = film
        /\ \A i \in DOMAIN films : films'[i] = films[i]
    BY <2>1, <2>2 DEF FilmsInv
  <2>4. \A i \in DOMAIN films : films[i].from \in Int /\ films[i].until \in Int
    BY FilmType
  <2>5. ASSUME NEW i \in DOMAIN films'
        PROVE  /\ films'[i].from < films'[i].until
               /\ films'[i].until - films'[i].from <= Longest
               /\ films'[i].until <= now'
    <3>1. CASE i \in DOMAIN films
      BY <2>1, <2>3, <2>4, <3>1 DEF FilmsInv
    <3>2. CASE i = Len(films) + 1
      BY <2>1, <2>3, <3>2
    <3>. QED
      BY <2>3, <3>1, <3>2
  <2>6. ASSUME NEW i \in DOMAIN films', NEW j \in DOMAIN films', i < j
        PROVE  films'[i].until <= films'[j].from
    <3>1. i \in DOMAIN films
      BY <2>3, <2>6
    <3>2. CASE j \in DOMAIN films
      BY <2>3, <2>6, <3>1, <3>2 DEF FilmsInv
    <3>3. CASE j = Len(films) + 1
      <4>1. films'[i] = films[i] /\ films'[j] = film /\ film.from = now
        BY <2>3, <3>1, <3>3
      <4>2. films[i].until <= now
        BY <3>1 DEF FilmsInv
      <4>. QED
        BY <4>1, <4>2
    <3>. QED
      BY <2>3, <3>2, <3>3
  <2>. QED
    BY <2>1, <2>3, <2>5, <2>6 DEF FilmsInv
<1>2. ASSUME UNCHANGED <<recorder, films>>, now' = now \/ now' = now + 1 PROVE FilmsInv'
  <2>1. \A i \in DOMAIN films : films[i].until \in Int
    BY FilmType
  <2>. QED
    BY <1>2, <2>1 DEF FilmsInv
<1>3. CASE Idle
  BY <1>2, <1>3 DEF Idle
<1>4. ASSUME NEW s \in Sensors, NEW at \in {now - 1, now}, Turn(s, at) PROVE FilmsInv'
  BY <1>2, <1>4 DEF Turn
<1>5. ASSUME NEW include \in BOOLEAN, NEW remembered \in BOOLEAN, Ask(include, remembered)
      PROVE  FilmsInv'
  BY <1>2, <1>5 DEF Ask
<1>6. CASE UNCHANGED vars
  BY <1>2, <1>6 DEF vars
<1>. QED
  BY <1>1, <1>3, <1>4, <1>5, <1>6 DEF Next

LEMMA EdgesKept ==
    ASSUME FilmsInv, EdgesInv, [Next]_vars
    PROVE  EdgesInv'
<1>1. ASSUME NEW s \in Sensors, NEW at \in {now - 1, now}, Turn(s, at) PROVE EdgesInv'
  <2>. DEFINE Said == [sensor : Sensors, at : Int, state : {"on", "off"}]
              edge == [sensor |-> s, at |-> at,
                       state |-> IF StateBefore(s, Len(edges) + 1) = "on" THEN "off" ELSE "on"]
  <2>1. edge \in Said
    BY DEF FilmsInv
  <2>2. edges' = Append(edges, edge)
    BY <1>1 DEF Turn
  <2>3. edges \in Seq(Said)
    BY DEF EdgesInv
  <2>. HIDE DEF Said, edge
  <2>4. edges' \in Seq(Said)
    BY <2>1, <2>2, <2>3
  <2>. QED
    BY <2>4 DEF EdgesInv, Said
<1>2. ASSUME UNCHANGED edges PROVE EdgesInv'
  BY <1>2 DEF EdgesInv
<1>. QED
  BY <1>1, <1>2 DEF Next, Film, Idle, Ask, vars

\* A step asks, or leaves what was answered.
LEMMA AskedOrLasting ==
    ASSUME FilmsInv, [Next]_vars
    PROVE  Fresh' \/ Lasting
<1>. DEFINE history == Detections(Camera, AsUtc(recorder, 0), AsUtc(recorder, DayEnd))
<1>1. ASSUME NEW d \in 1..Longest, NEW flags \in SUBSET Flags, Film(d, flags) PROVE Lasting
  <2>. DEFINE film == [from |-> now, until |-> now + d, flags |-> flags]
  <2>1. films' = Append(films, film) /\ recorder' = recorder /\ answer' = answer
    BY <1>1 DEF Film
  <2>. HIDE DEF film
  <2>2. /\ DOMAIN films = 1..Len(films) /\ DOMAIN films' = 1..(Len(films) + 1) /\ Len(films) \in Nat
        /\ \A i \in DOMAIN films : films'[i] = films[i]
    BY <2>1 DEF FilmsInv
  <2>. QED
    BY <2>1, <2>2 DEF Lasting
<1>2. ASSUME UNCHANGED <<recorder, films, answer>> PROVE Lasting
  BY <1>2 DEF Lasting
<1>3. ASSUME NEW include \in BOOLEAN, NEW remembered \in BOOLEAN, Ask(include, remembered)
      PROVE  Fresh'
  <2>. DEFINE seen == IF remembered THEN history ELSE {}
  <2>1. /\ answer' = Search(recorder, Found(recorder), seen, Wall(recorder, now), include)
        /\ UNCHANGED <<recorder, now, films, edges>>
    BY <1>3 DEF Ask
  <2>2. seen \in {{}, history}
    OBVIOUS
  <2>3. history' = history
    BY <2>1 DEF Detections, StateBefore
  <2>4. Found(recorder)' = Found(recorder)
    BY <2>1 DEF Found, RowsOf
  <2>. QED
    BY <2>1, <2>2, <2>3, <2>4 DEF Fresh
<1>. QED
  BY <1>1, <1>2, <1>3 DEF Next, Idle, Turn, vars

-----------------------------------------------------------------------------
(* Rows.                                                                    *)

Until(i) == Wall(recorder, films[i].until)
Later(v, w) == IF v < w THEN w ELSE v
Earlier(v, w) == IF v > w THEN w ELSE v

\* What the recorder states of a recording, where it states anything.
Stated(i) == IF recorder.keepsUtc THEN films[i].from ELSE Begins(i)

LEMMA FilmWalls ==
    ASSUME FilmsInv, NEW i \in DOMAIN films
    PROVE  /\ Begins(i) \in Int /\ Until(i) \in Int /\ Stated(i) \in Int
           /\ films[i].from + recorder.std <= Begins(i)
           /\ Until(i) <= films[i].from + recorder.std + Longest + SummerHour
<1>1. recorder \in Recorders /\ films[i].until - films[i].from <= Longest
  BY DEF FilmsInv
<1>2. films[i].from \in Int /\ films[i].until \in Int
  BY FilmType
<1>3. /\ Begins(i) \in Int /\ films[i].from + recorder.std <= Begins(i)
      /\ Until(i) \in Int /\ Until(i) <= films[i].until + recorder.std + SummerHour
  BY <1>1, <1>2, WallType DEF Begins, Until
<1>4. recorder.std \in Int /\ SummerHour \in Int /\ Longest \in Int
  BY <1>1, RecorderType, TimesAssumption
<1>. QED
  BY <1>1, <1>2, <1>3, <1>4 DEF Stated

\* What every row says of the recording it was cut from.
LEMMA RowFacts ==
    ASSUME FilmsInv, NEW i \in DOMAIN films, NEW row \in RowsOf(recorder, i)
    PROVE  /\ row.name = i /\ row.flags = films[i].flags
           /\ row.start \in Int /\ Later(Begins(i), 0) <= row.start
           /\ 0 < Until(i) /\ Begins(i) < DayEnd
           /\ row.stated = IF recorder.states THEN Stated(i) ELSE None
           /\ recorder.split = Whole => row.start = Later(Begins(i), 0)
<1>. DEFINE first == Later(Begins(i), 0)
            last == Earlier(Until(i), DayEnd)
            starts == IF recorder.split = Whole THEN {first}
                      ELSE {w \in first..last : (w - first) % recorder.split = 0 /\ w < last}
            ends(w) == IF recorder.split = Whole \/ w + recorder.split > last
                       THEN last ELSE w + recorder.split
            stated == IF recorder.states THEN Stated(i) ELSE None
<1>1. RowsOf(recorder, i) =
          IF Until(i) <= 0 \/ Begins(i) >= DayEnd THEN {}
          ELSE {[start |-> w, end |-> ends(w), stated |-> stated, name |-> i,
                 flags |-> films[i].flags] : w \in starts}
  BY DEF RowsOf, Later, Earlier, Begins, Until, Stated
<1>. QED
  BY <1>1, FilmWalls, TimesAssumption DEF Later, Earlier

\* A recording that has any rows has one at its own beginning, or the day's.
LEMMA FirstRow ==
    ASSUME FilmsInv, NEW i \in DOMAIN films, RowsOf(recorder, i) # {}
    PROVE  \E row \in RowsOf(recorder, i) : row.start = Later(Begins(i), 0)
<1>. DEFINE first == Later(Begins(i), 0)
            last == Earlier(Until(i), DayEnd)
            starts == IF recorder.split = Whole THEN {first}
                      ELSE {w \in first..last : (w - first) % recorder.split = 0 /\ w < last}
            ends(w) == IF recorder.split = Whole \/ w + recorder.split > last
                       THEN last ELSE w + recorder.split
            stated == IF recorder.states THEN Stated(i) ELSE None
            row(w) == [start |-> w, end |-> ends(w), stated |-> stated, name |-> i,
                       flags |-> films[i].flags]
<1>1. 0 < Until(i) /\ Begins(i) < DayEnd /\ Until(i) \in Int /\ Begins(i) \in Int /\ DayEnd \in Int
  BY RowFacts, FilmWalls, TimesAssumption
<1>2. RowsOf(recorder, i) = {row(w) : w \in starts} /\ starts # {}
  <2>1. RowsOf(recorder, i) = {row(w) : w \in starts}
    BY <1>1 DEF RowsOf, Later, Earlier, Begins, Until, Stated
  <2>. QED
    BY <2>1
<1>3. first \in starts
  <2>1. CASE recorder.split = Whole
    BY <2>1
  <2>2. CASE recorder.split # Whole
    <3>1. PICK w \in first..last : w < last
      BY <1>2, <2>2
    <3>2. first \in Int /\ last \in Int
      BY FilmWalls, TimesAssumption DEF Later, Earlier
    <3>3. first \in first..last /\ first < last
      BY <3>1, <3>2
    <3>4. recorder.split \in Nat \ {0}
      BY <2>2, RecorderType DEF FilmsInv
    <3>5. (first - first) % recorder.split = 0
      BY <3>2, <3>4
    <3>. QED
      BY <2>2, <3>3, <3>5
  <2>. QED
    BY <2>1, <2>2
<1>4. row(first) \in RowsOf(recorder, i) /\ row(first).start = first
  BY <1>2, <1>3
<1>. QED
  BY <1>4

\* A recording that began in the day at a wall clock nobody can doubt has rows.
LEMMA MeasurableRows ==
    ASSUME FilmsInv, NEW i \in DOMAIN films, Begins(i) \in 0..(DayEnd - 1),
           ~ Doubtful(recorder, Begins(i))
    PROVE  RowsOf(recorder, i) # {}
<1>. DEFINE last == Earlier(Until(i), DayEnd)
            starts == IF recorder.split = Whole THEN {Begins(i)}
                      ELSE {w \in Begins(i)..last : (w - Begins(i)) % recorder.split = 0 /\ w < last}
            ends(w) == IF recorder.split = Whole \/ w + recorder.split > last
                       THEN last ELSE w + recorder.split
            stated == IF recorder.states THEN Stated(i) ELSE None
            row(w) == [start |-> w, end |-> ends(w), stated |-> stated, name |-> i,
                       flags |-> films[i].flags]
<1>1. Begins(i) \in Int /\ Until(i) \in Int /\ DayEnd \in Nat /\ 0 <= Begins(i) /\ Begins(i) < DayEnd
  BY FilmWalls, TimesAssumption
<1>2. Begins(i) < Until(i)
  <2>1. /\ films[i].from \in Int /\ films[i].until \in Int /\ recorder \in Recorders
        /\ films[i].from < films[i].until
    BY FilmType DEF FilmsInv
  <2>. QED
    BY <2>1, WallAdvances DEF Begins, Until
<1>3. RowsOf(recorder, i) = {row(w) : w \in starts}
  BY <1>1, <1>2 DEF RowsOf, Later, Earlier, Begins, Until, Stated
<1>4. Begins(i) \in starts
  <2>1. CASE recorder.split = Whole
    BY <2>1
  <2>2. CASE recorder.split # Whole
    <3>1. Begins(i) \in Begins(i)..last /\ Begins(i) < last
      BY <1>1, <1>2 DEF Earlier
    <3>2. recorder.split \in Nat \ {0}
      BY <2>2, RecorderType DEF FilmsInv
    <3>3. (Begins(i) - Begins(i)) % recorder.split = 0
      BY <1>1, <3>2
    <3>. QED
      BY <2>2, <3>1, <3>3
  <2>. QED
    BY <2>1, <2>2
<1>. QED
  BY <1>3, <1>4

-----------------------------------------------------------------------------
(* The vote on PlaybackTime's zone.                                         *)

StatedTimes == {row.stated : row \in {x \in Found(recorder) : x.stated # None}}
StartOf(p) == Min({row.start : row \in {x \in Found(recorder) : x.stated = p}})
Votes == {p \in StatedTimes : UtcOffset(recorder, StartOf(p)) # 0}
ForUtc == {p \in Votes : StartOf(p) - p = UtcOffset(recorder, StartOf(p))}
ForLocal == {p \in Votes \ ForUtc : StartOf(p) = p}
IsUtc == PlaybackIsUtc(recorder, Found(recorder))

LEMMA VoteCounts == IsUtc <=> ~ Cardinality(ForLocal) > Cardinality(ForUtc)
  BY DEF IsUtc, PlaybackIsUtc, StatedTimes, StartOf, Votes, ForUtc, ForLocal

\* Recordings the recorder states one time for began at one wall clock.
LEMMA SameTime ==
    ASSUME FilmsInv, NEW i \in DOMAIN films, NEW j \in DOMAIN films, Stated(i) = Stated(j)
    PROVE  Begins(i) = Begins(j)
<1>1. CASE recorder.keepsUtc
  <2>1. films[i].from = films[j].from
    BY <1>1 DEF Stated
  <2>. QED
    BY <2>1 DEF Begins
<1>2. CASE ~ recorder.keepsUtc
  BY <1>2 DEF Stated
<1>. QED
  BY <1>1, <1>2

LEMMA StatedByFilms ==
    ASSUME FilmsInv, NEW p \in StatedTimes
    PROVE  recorder.states /\ \E i \in DOMAIN films : RowsOf(recorder, i) # {} /\ p = Stated(i)
<1>1. PICK i \in DOMAIN films : \E row \in RowsOf(recorder, i) : p = row.stated /\ p # None
  BY DEF StatedTimes, Found
<1>. PICK row \in RowsOf(recorder, i) : p = row.stated /\ p # None
  BY <1>1
<1>2. row.stated = IF recorder.states THEN Stated(i) ELSE None
  BY RowFacts
<1>. QED
  BY <1>1, <1>2

\* The earliest row of a recording begins with it, or with the day.
LEMMA StartIs ==
    ASSUME FilmsInv, recorder.states, NEW i \in DOMAIN films, RowsOf(recorder, i) # {}
    PROVE  StartOf(Stated(i)) = Later(Begins(i), 0) /\ Stated(i) \in StatedTimes
<1>. DEFINE S == {row.start : row \in {x \in Found(recorder) : x.stated = Stated(i)}}
<1>1. PICK row \in RowsOf(recorder, i) : row.start = Later(Begins(i), 0)
  BY FirstRow
<1>2. row \in Found(recorder) /\ row.stated = Stated(i)
  BY RowFacts DEF Found
<1>3. Later(Begins(i), 0) \in S
  BY <1>1, <1>2
<1>4. \A y \in S : y \in Int /\ Later(Begins(i), 0) <= y
  <2>1. SUFFICES ASSUME NEW j \in DOMAIN films, NEW g \in RowsOf(recorder, j), g.stated = Stated(i)
                 PROVE  g.start \in Int /\ Later(Begins(i), 0) <= g.start
    BY DEF Found
  <2>2. /\ g.stated = Stated(j) /\ g.start \in Int /\ Later(Begins(j), 0) <= g.start
    BY RowFacts
  <2>3. Begins(i) = Begins(j)
    BY <2>1, <2>2, SameTime
  <2>. QED
    BY <2>2, <2>3
<1>5. StartOf(Stated(i)) = Later(Begins(i), 0)
  <2>1. S \in SUBSET Int
    BY <1>4
  <2>2. Min(S) = Later(Begins(i), 0)
    <3>. HIDE DEF S
    <3>. QED
      BY <1>3, <1>4, <2>1, MinIs
  <2>. QED
    BY <2>2 DEF StartOf
<1>6. Stated(i) # None
  BY FilmWalls, TimesAssumption
<1>. QED
  BY <1>2, <1>5, <1>6 DEF StatedTimes

LEMMA StatedFinite ==
    ASSUME FilmsInv
    PROVE  /\ IsFiniteSet(ForLocal) /\ IsFiniteSet(ForUtc)
           /\ Cardinality(ForLocal) \in Nat /\ Cardinality(ForUtc) \in Nat
<1>1. IsFiniteSet(StatedTimes)
  <2>. DEFINE f == [i \in DOMAIN films |-> Stated(i)]
  <2>1. IsFiniteSet(DOMAIN films)
    BY FS_Interval DEF FilmsInv
  <2>2. IsFiniteSet({Stated(i) : i \in DOMAIN films})
    <3>1. IsFiniteSet({f[i] : i \in DOMAIN films})
      <4>. HIDE DEF f
      <4>. QED
        BY <2>1, ImageFinite
    <3>2. {f[i] : i \in DOMAIN films} = {Stated(i) : i \in DOMAIN films}
      OBVIOUS
    <3>. QED
      BY <3>1, <3>2
  <2>3. StatedTimes \subseteq {Stated(i) : i \in DOMAIN films}
    BY StatedByFilms
  <2>. QED
    BY <2>2, <2>3, FS_Subset
<1>2. ForLocal \subseteq StatedTimes /\ ForUtc \subseteq StatedTimes
  BY DEF ForLocal, ForUtc, Votes
<1>. QED
  BY <1>1, <1>2, FS_Subset, FS_CardinalityType

\* The votes for what the recorder does, and those against it.
Right == IF recorder.keepsUtc THEN ForUtc ELSE ForLocal
Wrong == IF recorder.keepsUtc THEN ForLocal ELSE ForUtc

LEMMA NamedFilms ==
    ASSUME FilmsInv, answer.found = Found(recorder)
    PROVE  /\ Named = {i \in DOMAIN films : RowsOf(recorder, i) # {}}
           /\ IsFiniteSet(Measurable) /\ IsFiniteSet(Misleading)
           /\ Cardinality(Measurable) \in Nat /\ Cardinality(Misleading) \in Nat
<1>1. ASSUME NEW i PROVE i \in Named <=> i \in DOMAIN films /\ RowsOf(recorder, i) # {}
  <2>1. \A j \in DOMAIN films : \A row \in RowsOf(recorder, j) : row.name = j
    BY RowFacts
  <2>2. i \in Named <=> \E j \in DOMAIN films : \E row \in RowsOf(recorder, j) : row.name = i
    BY DEF Named, Found
  <2>. QED
    BY <2>1, <2>2
<1>2. IsFiniteSet(Named)
  <2>1. IsFiniteSet(DOMAIN films)
    <3>1. Len(films) \in Int /\ DOMAIN films = 1..Len(films)
      BY DEF FilmsInv
    <3>. QED
      BY <3>1, FS_Interval
  <2>2. Named \subseteq DOMAIN films
    BY <1>1
  <2>. QED
    BY <2>1, <2>2, FS_Subset
<1>3. Measurable \subseteq Named /\ Misleading \subseteq Named
  BY DEF Measurable, Misleading
<1>. QED
  BY <1>1, <1>2, <1>3, FS_Subset, FS_CardinalityType

\* Each recording that can be measured casts a vote of its own, for what the recorder does.
LEMMA MeasurableVote ==
    ASSUME FilmsInv, answer.found = Found(recorder), recorder.states
    PROVE  Cardinality(Measurable) <= Cardinality(Right)
<1>. DEFINE vote == [i \in Measurable |-> Stated(i)]
<1>1. ASSUME NEW i \in Measurable
      PROVE  /\ i \in DOMAIN films /\ ~ Doubtful(recorder, Begins(i)) /\ Begins(i) \in Int
             /\ Stated(i) \in Right
  <2>1. /\ i \in DOMAIN films /\ Begins(i) \in 0..(DayEnd - 1)
        /\ ~ Doubtful(recorder, Begins(i)) /\ UtcOffset(recorder, Begins(i)) # 0
    BY NamedFilms DEF Measurable
  <2>2. Begins(i) \in Int /\ 0 <= Begins(i) /\ films[i].from \in Int /\ recorder \in Recorders
    BY <2>1, FilmWalls, FilmType DEF FilmsInv
  <2>3. StartOf(Stated(i)) = Begins(i) /\ Stated(i) \in StatedTimes
    BY <2>1, <2>2, MeasurableRows, StartIs DEF Later
  <2>4. Stated(i) \in Votes
    BY <2>1, <2>3 DEF Votes
  <2>5. UtcOffset(recorder, Begins(i)) \in Int
    BY <2>2, WallType
  <2>6. CASE recorder.keepsUtc
    <3>1. Begins(i) - UtcOffset(recorder, Begins(i)) = films[i].from
      BY <2>1, <2>2, SettledWall DEF AsUtc, Begins
    <3>2. Stated(i) = films[i].from
      BY <2>6 DEF Stated
    <3>3. Begins(i) - films[i].from = UtcOffset(recorder, Begins(i))
      BY <2>2, <2>5, <3>1
    <3>. QED
      BY <2>1, <2>2, <2>3, <2>4, <2>6, <3>2, <3>3 DEF Right, ForUtc
  <2>7. CASE ~ recorder.keepsUtc
    <3>1. Stated(i) = Begins(i)
      BY <2>7 DEF Stated
    <3>2. Begins(i) - Begins(i) = 0
      BY <2>2
    <3>. QED
      BY <2>1, <2>2, <2>3, <2>4, <2>7, <3>1, <3>2 DEF Right, ForLocal, ForUtc
  <2>. QED
    BY <2>1, <2>2, <2>6, <2>7
<1>2. ASSUME NEW i \in Measurable, NEW j \in Measurable, Stated(i) = Stated(j), i < j PROVE FALSE
  <2>1. i \in DOMAIN films /\ j \in DOMAIN films /\ ~ Doubtful(recorder, Begins(i))
    BY <1>1
  <2>2. Begins(i) = Begins(j)
    BY <1>2, <2>1, SameTime
  <2>3. /\ films[i].from \in Int /\ films[i].until \in Int /\ films[j].from \in Int
        /\ films[i].from < films[i].until /\ films[i].until <= films[j].from
        /\ recorder \in Recorders
    <3>1. films[i].from \in Int /\ films[i].until \in Int
      BY <2>1, FilmType
    <3>2. films[j].from \in Int
      BY <2>1, FilmType
    <3>. QED
      BY <1>2, <2>1, <3>1, <3>2 DEF FilmsInv
  <2>4. Begins(i) < Begins(j) /\ Begins(i) \in Int
    BY <1>1, <2>1, <2>3, WallAdvances DEF Begins
  <2>. QED
    BY <2>2, <2>4
<1>3. vote \in Injection(Measurable, Right)
  <2>1. vote \in [Measurable -> Right]
    BY <1>1
  <2>2. \A i, j \in DOMAIN vote : vote[i] = vote[j] => i = j
    <3>1. \A i \in Measurable : i \in Nat
      BY <1>1, FilmType
    <3>. QED
      BY <1>2, <3>1
  <2>. HIDE DEF vote
  <2>. QED
    BY <2>1, <2>2 DEF Injection, IsInjective
<1>4. IsFiniteSet(Right)
  BY StatedFinite DEF Right
<1>. HIDE DEF vote
<1>. QED
  BY <1>3, <1>4, FS_Injection

\* A vote against it is that of a recording that misleads.
LEMMA WrongVote ==
    ASSUME FilmsInv, answer.found = Found(recorder)
    PROVE  Cardinality(Wrong) <= Cardinality(Misleading)
<1>. DEFINE f == [i \in Misleading |-> Stated(i)]
            T == {f[i] : i \in Misleading}
<1>1. ASSUME NEW p \in Wrong PROVE p \in T
  <2>1. p \in Votes /\ p \in StatedTimes
    BY DEF Wrong, ForLocal, ForUtc, Votes
  <2>2. PICK i \in DOMAIN films : RowsOf(recorder, i) # {} /\ p = Stated(i)
    BY <2>1, StatedByFilms
  <2>3. recorder.states
    BY <2>1, StatedByFilms
  <2>4. StartOf(p) = Later(Begins(i), 0) /\ Begins(i) \in Int
    BY <2>2, <2>3, StartIs, FilmWalls
  <2>. DEFINE start == IF Begins(i) < 0 THEN 0 ELSE Begins(i)
  <2>5. StartOf(p) = start
    BY <2>4 DEF Later
  <2>6. UtcOffset(recorder, start) # 0
    BY <2>1, <2>5 DEF Votes
  <2>7. i \in Named
    BY <2>2, NamedFilms
  <2>8. IF recorder.keepsUtc THEN start = films[i].from
        ELSE start - Begins(i) = UtcOffset(recorder, start)
    <3>1. CASE recorder.keepsUtc
      BY <2>2, <2>5, <3>1 DEF Wrong, ForLocal, Stated
    <3>2. CASE ~ recorder.keepsUtc
      BY <2>2, <2>5, <3>2 DEF Wrong, ForUtc, Stated
    <3>. QED
      BY <3>1, <3>2
  <2>9. i \in Misleading
    BY <2>6, <2>7, <2>8 DEF Misleading
  <2>. QED
    BY <2>2, <2>9
<1>2. IsFiniteSet(Misleading)
  BY NamedFilms
<1>3. f \in Surjection(Misleading, T)
  <2>1. f \in [Misleading -> T] /\ \A t \in T : \E x \in Misleading : f[x] = t
    OBVIOUS
  <2>. HIDE DEF f, T
  <2>. QED
    BY <2>1 DEF Surjection
<1>. HIDE DEF f, T
<1>4. IsFiniteSet(T) /\ Cardinality(T) <= Cardinality(Misleading) /\ Cardinality(T) \in Nat
  BY <1>2, <1>3, FS_Surjection, FS_CardinalityType
<1>5. Wrong \subseteq T
  BY <1>1
<1>6. Cardinality(Wrong) <= Cardinality(T) /\ Cardinality(Wrong) \in Nat
  BY <1>4, <1>5, FS_Subset, FS_CardinalityType
<1>. QED
  BY <1>4, <1>6, NamedFilms

\* Where more can be measured than misleads, the vote says what the recorder does.
LEMMA VoteIsRight ==
    ASSUME FilmsInv, answer.found = Found(recorder), Tells, recorder.states
    PROVE  IsUtc <=> recorder.keepsUtc
<1>1. Cardinality(Wrong) < Cardinality(Right)
  <2>1. /\ Cardinality(Wrong) \in Nat /\ Cardinality(Right) \in Nat
        /\ Cardinality(Misleading) \in Nat /\ Cardinality(Measurable) \in Nat
    BY StatedFinite, NamedFilms DEF Wrong, Right
  <2>. QED
    BY <2>1, MeasurableVote, WrongVote DEF Tells
<1>. QED
  BY <1>1, VoteCounts, StatedFinite DEF Wrong, Right

-----------------------------------------------------------------------------
(* The answer.                                                              *)

Plain == {Serialized(recorder, row, IsUtc) : row \in Found(recorder)}

\* What an answer's file has of the row it was serialised from.
OfRow(f, row) ==
    LET g == Serialized(recorder, row, IsUtc)
    IN /\ f.start = g.start /\ f.end = g.end /\ f.name = g.name /\ f.flags = g.flags
       /\ f.fileStart = g.fileStart /\ f.playback = g.playback /\ f.derived = g.derived
       /\ f.offset = g.offset /\ f.duration = g.duration

\* Everything found, counted.
Counted(seen) ==
    [g \in Plain |-> [g EXCEPT !.counts = Counts(recorder, g, seen),
                               !.segments = Cardinality({h \in Plain : h.name = g.name})]]
All(seen) == {Counted(seen)[g] : g \in Plain}

\* What is dropped of it.
Dropped(seen, include) ==
    IF IsContinuousDay(All(seen), 0, Wall(recorder, now)) /\ ~ include
    THEN {f \in All(seen) : Filler(f)} ELSE {}

LEMMA AnswerIs ==
    ASSUME Fresh
    PROVE  \E seen \in {{}, Detections(Camera, AsUtc(recorder, 0), AsUtc(recorder, DayEnd))},
              include \in BOOLEAN :
               answer = [files |-> All(seen) \ Dropped(seen, include),
                         dropped |-> Cardinality(Dropped(seen, include)),
                         continuous |-> IsContinuousDay(All(seen), 0, Wall(recorder, now)),
                         seen |-> seen, found |-> Found(recorder), at |-> Wall(recorder, now)]
<1>. DEFINE history == Detections(Camera, AsUtc(recorder, 0), AsUtc(recorder, DayEnd))
<1>1. PICK seen \in {{}, history}, include \in BOOLEAN :
          answer = Search(recorder, Found(recorder), seen, Wall(recorder, now), include)
  BY DEF Fresh
<1>2. answer = [files |-> All(seen) \ Dropped(seen, include),
                dropped |-> Cardinality(Dropped(seen, include)),
                continuous |-> IsContinuousDay(All(seen), 0, Wall(recorder, now)),
                seen |-> seen, found |-> Found(recorder), at |-> Wall(recorder, now)]
  BY <1>1 DEF Search, Plain, IsUtc, Counted, All, Dropped
<1>. HIDE DEF history
<1>3. seen \in {{}, history} /\ include \in BOOLEAN
  BY <1>1
<1>. QED
  BY <1>2, <1>3 DEF history

\* Counting adds to what was serialised.
LEMMA AllFiles ==
    ASSUME NEW seen, NEW f \in All(seen)
    PROVE  \E i \in DOMAIN films : \E row \in RowsOf(recorder, i) :
               /\ OfRow(f, row)
               /\ f = Counted(seen)[Serialized(recorder, row, IsUtc)]
               /\ f.segments = Cardinality({h \in Plain : h.name = f.name})
               /\ f.counts = Counts(recorder, f, seen)
<1>1. PICK row \in Found(recorder) : f = Counted(seen)[Serialized(recorder, row, IsUtc)]
  BY DEF All, Plain
<1>2. PICK i \in DOMAIN films : row \in RowsOf(recorder, i)
  BY DEF Found
<1>. DEFINE g == Serialized(recorder, row, IsUtc)
<1>3. g \in Plain
  BY DEF Plain
<1>4. f = [g EXCEPT !.counts = Counts(recorder, g, seen),
                    !.segments = Cardinality({h \in Plain : h.name = g.name})]
  <2>. HIDE DEF g
  <2>. QED
    BY <1>1, <1>3 DEF Counted, g
<1>5. /\ OfRow(f, row) /\ f.name = g.name /\ f.start = g.start /\ f.end = g.end
      /\ f.segments = Cardinality({h \in Plain : h.name = g.name})
      /\ f.counts = Counts(recorder, g, seen)
  <2>. HIDE DEF Plain
  <2>. QED
    BY <1>4 DEF OfRow, Serialized
<1>6. Counts(recorder, g, seen) = Counts(recorder, f, seen)
  <2>. HIDE DEF g
  <2>. QED
    BY <1>5 DEF Counts
<1>. HIDE DEF g
<1>. QED
  BY <1>1, <1>2, <1>5, <1>6 DEF g

\* Dropping only takes away.
LEMMA AnswerFiles ==
    ASSUME Fresh, NEW f \in answer.files
    PROVE  /\ \E i \in DOMAIN films : \E row \in RowsOf(recorder, i) : OfRow(f, row)
           /\ f.segments = Cardinality({h \in Plain : h.name = f.name})
<1>1. PICK seen, include : answer.files = All(seen) \ Dropped(seen, include)
  BY AnswerIs
<1>2. f \in All(seen)
  BY <1>1
<1>. QED
  BY <1>2, AllFiles

\* A recorder that states its times: the vote was right, or it does not matter, and the
\* row is found again.
LEMMA StatedRowLeads ==
    ASSUME FilmsInv, answer.found = Found(recorder), recorder.states, NEW i \in DOMAIN films,
           Tells \/ Begins(i) = films[i].from,
           NEW row \in RowsOf(recorder, i), ~ Doubtful(recorder, Begins(i))
    PROVE  LET g == Serialized(recorder, row, IsUtc)
           IN /\ g.fileStart = Begins(i) /\ g.fileStart + g.offset = g.start
              /\ g.playback = Stated(i) /\ ~ g.derived
<1>1. /\ row.stated = Stated(i) /\ row.stated # None
      /\ row.start \in Int /\ Begins(i) \in Int /\ Begins(i) <= row.start
  BY RowFacts, FilmWalls, TimesAssumption DEF Later
<1>2. recorder \in Recorders /\ films[i].from \in Int
  BY FilmType DEF FilmsInv
<1>3. FromUtc(recorder, films[i].from) = Begins(i)
  BY <1>2, SettledWall DEF Begins
<1>4. (IF IsUtc THEN FromUtc(recorder, row.stated) ELSE row.stated) = Begins(i)
  <2>1. CASE Tells
    <3>1. IsUtc <=> recorder.keepsUtc
      BY <2>1, VoteIsRight
    <3>. QED
      BY <1>1, <1>3, <3>1 DEF Stated
  <2>2. CASE Begins(i) = films[i].from
    BY <1>1, <1>3, <2>2 DEF Stated
  <2>. QED
    BY <2>1, <2>2
<1>. DEFINE g == Serialized(recorder, row, IsUtc)
            begins == IF IsUtc THEN FromUtc(recorder, row.stated) ELSE row.stated
<1>5. /\ g.fileStart = begins /\ g.playback = row.stated /\ g.derived = FALSE /\ g.start = row.start
      /\ g.offset = IF row.start - begins < 0 THEN 0 ELSE row.start - begins
  BY <1>1 DEF Serialized
<1>. HIDE DEF g, begins
<1>6. begins = Begins(i)
  BY <1>4 DEF begins
<1>7. g.fileStart + g.offset = g.start
  BY <1>1, <1>5, <1>6
<1>. QED
  BY <1>1, <1>5, <1>6, <1>7 DEF g

\* One that does not: the row is the whole recording, from its beginning in the day.
LEMMA DerivedRowLeads ==
    ASSUME FilmsInv, ~ recorder.states, NEW i \in DOMAIN films, NEW row \in RowsOf(recorder, i),
           ~ Doubtful(recorder, Begins(i)), 0 <= Begins(i)
    PROVE  LET g == Serialized(recorder, row, IsUtc)
           IN /\ g.fileStart = Begins(i) /\ g.fileStart + g.offset = g.start
              /\ g.playback = films[i].from /\ g.derived
<1>1. recorder \in Recorders /\ films[i].from \in Int
  BY FilmType DEF FilmsInv
<1>2. recorder.split = Whole
  BY <1>1, RecorderType
<1>3. row.stated = None /\ row.start = Begins(i) /\ Begins(i) \in Int
  BY <1>2, RowFacts, FilmWalls DEF Later
<1>4. IsUtc
  <2>1. StatedTimes = {}
    BY StatedByFilms
  <2>2. ForLocal = {} /\ ForUtc = {}
    BY <2>1 DEF ForLocal, ForUtc, Votes
  <2>. QED
    BY <2>2, VoteCounts, FS_EmptySet
<1>5. AsUtc(recorder, Begins(i)) = films[i].from
  BY <1>1, SettledWall DEF Begins
<1>. DEFINE g == Serialized(recorder, row, IsUtc)
<1>6. /\ g.fileStart = row.start /\ g.start = row.start /\ g.derived
      /\ g.playback = Derived(recorder, row, IsUtc)
      /\ g.offset = IF row.start - row.start < 0 THEN 0 ELSE row.start - row.start
  BY <1>3 DEF Serialized
<1>7. Derived(recorder, row, IsUtc) = films[i].from
  BY <1>3, <1>4, <1>5 DEF Derived
<1>. HIDE DEF g
<1>8. g.fileStart + g.offset = g.start
  BY <1>3, <1>6
<1>. QED
  BY <1>3, <1>6, <1>7, <1>8 DEF g

LEMMA FreshRowsLead == FilmsInv /\ Fresh => RowsLeadToTheirMoment
<1>1. SUFFICES ASSUME FilmsInv, Fresh, NEW f \in answer.files, ~ Unsettled(f),
                      ~ (f.derived /\ Begins(f.name) < 0),
                      Tells \/ f.derived \/ Begins(f.name) = films[f.name].from
               PROVE  /\ f.fileStart = Begins(f.name)
                      /\ f.fileStart + f.offset = f.start
                      /\ f.playback = StatedAs(f)
  BY DEF RowsLeadToTheirMoment
<1>2. PICK i \in DOMAIN films : \E row \in RowsOf(recorder, i) : OfRow(f, row)
  BY <1>1, AnswerFiles
<1>3. PICK row \in RowsOf(recorder, i) : OfRow(f, row)
  BY <1>2
<1>. DEFINE g == Serialized(recorder, row, IsUtc)
<1>4. answer.found = Found(recorder)
  BY <1>1, AnswerIs
<1>5. f.name = i
  BY <1>1, <1>3, RowFacts DEF OfRow, Serialized
<1>6. ~ Doubtful(recorder, Begins(i))
  BY <1>1, <1>5 DEF Unsettled
<1>7. CASE recorder.states
  <2>1. ~ g.derived
    <3>1. row.stated = Stated(i) /\ Stated(i) \in Int
      BY <1>1, <1>7, RowFacts, FilmWalls
    <3>2. row.stated # None
      BY <3>1, TimesAssumption
    <3>. QED
      BY <3>2 DEF Serialized
  <2>2. Tells \/ Begins(i) = films[i].from
    BY <1>1, <1>3, <1>5, <2>1 DEF OfRow
  <2>3. /\ g.fileStart = Begins(i) /\ g.fileStart + g.offset = g.start /\ g.playback = Stated(i)
    BY <1>1, <1>4, <1>6, <1>7, <2>2, StatedRowLeads
  <2>. QED
    BY <1>3, <1>5, <2>1, <2>3 DEF OfRow, StatedAs, Stated
<1>8. CASE ~ recorder.states
  <2>1. g.derived
    BY <1>1, <1>8, RowFacts DEF Serialized
  <2>2. 0 <= Begins(i)
    BY <1>1, <1>3, <1>5, <2>1, FilmWalls DEF OfRow
  <2>3. /\ g.fileStart = Begins(i) /\ g.fileStart + g.offset = g.start
        /\ g.playback = films[i].from /\ g.derived
    BY <1>1, <1>6, <1>8, <2>2, DerivedRowLeads
  <2>. QED
    BY <1>3, <1>5, <2>3 DEF OfRow, StatedAs
<1>. QED
  BY <1>7, <1>8

-----------------------------------------------------------------------------
(* The panel.                                                               *)

\* A wall clock passed is not come back to, unless it is doubtful.
LEMMA WallStaysAhead ==
    ASSUME NEW r \in Recorders, NEW x \in Int, NEW y \in Int, x <= y,
           NEW w \in Int, w <= Wall(r, x), ~ Doubtful(r, w)
    PROVE  w <= Wall(r, y)
  BY RecorderType, TimesAssumption DEF Doubtful, Wall, SummerAt

First(i) == Later(Begins(i), 0)
Final(i) == Earlier(Until(i), DayEnd)

LEMMA FirstType ==
    ASSUME FilmsInv, NEW i \in DOMAIN films
    PROVE  First(i) \in Int /\ Final(i) \in Int
  BY FilmWalls, TimesAssumption DEF First, Final, Later, Earlier

\* Where a row ends; a row is known by its start.
LEMMA RowEnds ==
    ASSUME FilmsInv, NEW i \in DOMAIN films, NEW row \in RowsOf(recorder, i)
    PROVE  /\ row.end \in Int /\ row.end <= Final(i)
           /\ recorder.split = Whole => row.end = Final(i)
           /\ recorder.split # Whole => /\ row.start < row.end
                                       /\ row.end <= row.start + recorder.split
                                       /\ (row.start - First(i)) % recorder.split = 0
           /\ \A g \in RowsOf(recorder, i) : g.start = row.start => g = row
<1>. DEFINE starts == IF recorder.split = Whole THEN {First(i)}
                      ELSE {w \in First(i)..Final(i) :
                               (w - First(i)) % recorder.split = 0 /\ w < Final(i)}
            ends(w) == IF recorder.split = Whole \/ w + recorder.split > Final(i)
                       THEN Final(i) ELSE w + recorder.split
            stated == IF recorder.states THEN Stated(i) ELSE None
<1>1. RowsOf(recorder, i) =
          IF Until(i) <= 0 \/ Begins(i) >= DayEnd THEN {}
          ELSE {[start |-> w, end |-> ends(w), stated |-> stated, name |-> i,
                 flags |-> films[i].flags] : w \in starts}
  BY DEF RowsOf, Later, Earlier, Begins, Until, Stated, First, Final
<1>2. First(i) \in Int /\ Final(i) \in Int
  BY FirstType
<1>3. recorder.split \in Nat \ {0} \/ recorder.split = Whole
  BY RecorderType DEF FilmsInv
<1>4. PICK w \in starts : row = [start |-> w, end |-> ends(w), stated |-> stated, name |-> i,
                                 flags |-> films[i].flags]
  BY <1>1
<1>5. row.start = w /\ row.end = ends(w) /\ w \in Int
  BY <1>2, <1>4
<1>6. /\ ends(w) \in Int /\ ends(w) <= Final(i)
      /\ recorder.split # Whole => w < ends(w) /\ ends(w) <= w + recorder.split
  BY <1>2, <1>3, <1>5
<1>7. \A g \in RowsOf(recorder, i) : g.start = row.start => g = row
  BY <1>1, <1>4
<1>. QED
  BY <1>5, <1>6, <1>7

\* A settled row has a length.
LEMMA SettledRowLasts ==
    ASSUME FilmsInv, NEW i \in DOMAIN films, NEW row \in RowsOf(recorder, i),
           ~ Doubtful(recorder, Begins(i))
    PROVE  row.start < row.end
<1>1. CASE recorder.split # Whole
  BY <1>1, RowEnds
<1>2. CASE recorder.split = Whole
  <2>1. Begins(i) < Until(i)
    <3>1. /\ films[i].from \in Int /\ films[i].until \in Int /\ recorder \in Recorders
          /\ films[i].from < films[i].until
      BY FilmType DEF FilmsInv
    <3>. QED
      BY <3>1, WallAdvances DEF Begins, Until
  <2>2. /\ 0 < Until(i) /\ Begins(i) < DayEnd /\ row.start = Later(Begins(i), 0) /\ row.end = Final(i)
        /\ Begins(i) \in Int /\ Until(i) \in Int
    BY <1>2, RowFacts, RowEnds, FilmWalls
  <2>. QED
    BY <2>1, <2>2, TimesAssumption DEF Final, Later, Earlier
<1>. QED
  BY <1>1, <1>2

\* The row of the stream that is not cut.
UncutRow(i) ==
    [start |-> First(i), end |-> Final(i), stated |-> IF recorder.states THEN Stated(i) ELSE None,
     name |-> i, flags |-> films[i].flags]
Uncut == {Serialized(recorder, g, TRUE) :
            g \in UNION {RowsOf([recorder EXCEPT !.split = Whole], i) : i \in DOMAIN films}}

LEMMA UncutRows ==
    ASSUME FilmsInv, NEW i \in DOMAIN films
    PROVE  RowsOf([recorder EXCEPT !.split = Whole], i) =
               IF Until(i) <= 0 \/ Begins(i) >= DayEnd THEN {} ELSE {UncutRow(i)}
<1>. DEFINE whole == [recorder EXCEPT !.split = Whole]
<1>1. /\ whole.std = recorder.std /\ whole.changes = recorder.changes
      /\ whole.begins = recorder.begins /\ whole.ends = recorder.ends
      /\ whole.states = recorder.states /\ whole.keepsUtc = recorder.keepsUtc
      /\ whole.split = Whole
  BY RecordersAssumption DEF FilmsInv
<1>. HIDE DEF whole
<1>2. Wall(whole, films[i].from) = Begins(i) /\ Wall(whole, films[i].until) = Until(i)
  BY <1>1 DEF Wall, SummerAt, Begins, Until
<1>3. RowsOf(whole, i) = IF Until(i) <= 0 \/ Begins(i) >= DayEnd THEN {} ELSE {UncutRow(i)}
  BY <1>1, <1>2 DEF RowsOf, UncutRow, First, Final, Later, Earlier, Stated
<1>. QED
  BY <1>3 DEF whole

LEMMA UncutIs ==
    ASSUME FilmsInv, NEW h
    PROVE  h \in Uncut <=> \E j \in DOMAIN films :
               /\ 0 < Until(j) /\ Begins(j) < DayEnd
               /\ h = Serialized(recorder, UncutRow(j), TRUE)
<1>. DEFINE rows(j) == RowsOf([recorder EXCEPT !.split = Whole], j)
<1>1. ASSUME NEW j \in DOMAIN films, NEW g
      PROVE  g \in rows(j) <=> 0 < Until(j) /\ Begins(j) < DayEnd /\ g = UncutRow(j)
  <2>1. rows(j) = IF Until(j) <= 0 \/ Begins(j) >= DayEnd THEN {} ELSE {UncutRow(j)}
    BY UncutRows
  <2>2. Begins(j) \in Int /\ Until(j) \in Int /\ DayEnd \in Int
    BY FilmWalls, TimesAssumption
  <2>. HIDE DEF rows
  <2>. QED
    BY <2>1, <2>2
<1>2. h \in Uncut <=> \E j \in DOMAIN films : \E g \in rows(j) : h = Serialized(recorder, g, TRUE)
  BY DEF Uncut
<1>. HIDE DEF rows
<1>. QED
  BY <1>1, <1>2

LEMMA UncutFields ==
    ASSUME NEW j
    PROVE  LET h == Serialized(recorder, UncutRow(j), TRUE)
           IN h.start = First(j) /\ h.end = Final(j) /\ h.name = j
  BY DEF Serialized, UncutRow

\* A settled row shares time with its own recording only.
LEMMA OverlapsOwn ==
    ASSUME FilmsInv, NEW i \in DOMAIN films, NEW row \in RowsOf(recorder, i),
           ~ Doubtful(recorder, Begins(i)), ~ Doubtful(recorder, row.end),
           NEW f, f.start = row.start, f.end = row.end,
           NEW j \in DOMAIN films, NEW h, h.start = First(j), h.end = Final(j)
    PROVE  Overlap(f, h) = IF j = i THEN row.end - row.start ELSE 0
<1>1. /\ row.start \in Int /\ row.end \in Int /\ row.start < row.end
      /\ First(i) <= row.start /\ row.end <= Final(i)
      /\ First(j) \in Int /\ Final(j) \in Int /\ First(i) \in Int /\ Final(i) \in Int
      /\ Begins(i) \in Int /\ Until(i) \in Int /\ Begins(j) \in Int /\ Until(j) \in Int
  BY RowFacts, RowEnds, SettledRowLasts, FirstType, FilmWalls DEF First
<1>2. CASE j = i
  BY <1>1, <1>2 DEF Overlap
<1>3. /\ films[i].from \in Int /\ films[i].until \in Int /\ i \in Nat
      /\ films[j].from \in Int /\ films[j].until \in Int /\ j \in Nat
      /\ recorder \in Recorders /\ DayEnd \in Int
  <2>1. films[i].from \in Int /\ films[i].until \in Int /\ i \in Nat
    BY FilmType
  <2>2. films[j].from \in Int /\ films[j].until \in Int /\ j \in Nat
    BY FilmType
  <2>. QED
    BY <2>1, <2>2, TimesAssumption DEF FilmsInv
<1>4. CASE i < j
  <2>1. films[i].until <= films[j].from
    BY <1>4 DEF FilmsInv
  <2>2. row.end <= Wall(recorder, films[i].until)
    BY <1>1, <1>3 DEF Final, Earlier, Until
  <2>3. row.end <= Begins(j)
    BY <1>1, <1>3, <2>1, <2>2, WallStaysAhead DEF Begins
  <2>4. row.end <= First(j)
    BY <1>1, <2>3 DEF First, Later
  <2>. QED
    BY <1>1, <1>3, <1>4, <2>4 DEF Overlap
<1>5. CASE j < i
  <2>1. films[j].until <= films[i].from
    BY <1>5 DEF FilmsInv
  <2>2. Until(j) <= Begins(i)
    <3>1. CASE films[j].until = films[i].from
      BY <1>1, <3>1 DEF Until, Begins
    <3>2. CASE films[j].until < films[i].from
      BY <1>1, <1>3, <3>2, WallAdvanced DEF Until, Begins
    <3>. QED
      BY <1>3, <2>1, <3>1, <3>2
  <2>3. Final(j) <= row.start
    BY <1>1, <1>3, <2>2 DEF First, Final, Later, Earlier
  <2>. QED
    BY <1>1, <1>3, <1>5, <2>3 DEF Overlap
<1>. QED
  BY <1>2, <1>3, <1>4, <1>5

\* So its twin in the other stream is the row of that recording.
LEMMA TwinIsOwn ==
    ASSUME FilmsInv, NEW i \in DOMAIN films, NEW row \in RowsOf(recorder, i),
           ~ Doubtful(recorder, Begins(i)), ~ Doubtful(recorder, row.end),
           NEW f, f.start = row.start, f.end = row.end,
           f.duration = IF row.end < row.start THEN 0 ELSE row.end - row.start
    PROVE  Twins(f, Uncut) = {Serialized(recorder, UncutRow(i), TRUE)}
<1>. DEFINE own == Serialized(recorder, UncutRow(i), TRUE)
            long == row.end - row.start
<1>1. /\ long \in Int /\ 0 < long /\ f.duration = long
      /\ 0 < Until(i) /\ Begins(i) < DayEnd /\ Meaningful \in Nat \ {0}
  BY RowFacts, RowEnds, SettledRowLasts, TimesAssumption
<1>2. own \in Uncut
  BY <1>1, UncutIs
<1>3. ASSUME NEW j \in DOMAIN films
      PROVE  Overlap(f, Serialized(recorder, UncutRow(j), TRUE)) = IF j = i THEN long ELSE 0
  <2>. DEFINE h == Serialized(recorder, UncutRow(j), TRUE)
  <2>1. h.start = First(j) /\ h.end = Final(j)
    BY UncutFields
  <2>. HIDE DEF h
  <2>2. Overlap(f, h) = IF j = i THEN row.end - row.start ELSE 0
    BY <2>1, OverlapsOwn
  <2>. QED
    BY <2>2 DEF h
<1>4. ASSUME NEW h \in Uncut, h # own PROVE Overlap(f, h) = 0
  <2>1. PICK j \in DOMAIN films : h = Serialized(recorder, UncutRow(j), TRUE)
    BY <1>4, UncutIs
  <2>2. j # i
    BY <1>4, <2>1
  <2>. QED
    BY <1>3, <2>1, <2>2
<1>5. Overlap(f, own) = long
  BY <1>3
<1>. HIDE DEF own, long
<1>6. own \in Twins(f, Uncut)
  <2>1. \A h \in Uncut : Overlap(f, h) <= Overlap(f, own)
    BY <1>1, <1>4, <1>5
  <2>. QED
    BY <1>1, <1>2, <1>5, <2>1 DEF Twins
<1>7. \A h \in Twins(f, Uncut) : h = own
  <2>1. \A h \in Twins(f, Uncut) : h \in Uncut /\ Overlap(f, h) > 0
    BY DEF Twins
  <2>. QED
    BY <1>4, <2>1
<1>8. Twins(f, Uncut) = {own}
  BY <1>6, <1>7
<1>. QED
  BY <1>8 DEF own

\* There are finitely many rows.
LEMMA FoundFinite ==
    ASSUME FilmsInv
    PROVE  IsFiniteSet(Found(recorder))
<1>1. ASSUME NEW i \in DOMAIN films PROVE IsFiniteSet(RowsOf(recorder, i))
  <2>1. CASE RowsOf(recorder, i) = {}
    BY <2>1, FS_EmptySet
  <2>2. CASE RowsOf(recorder, i) # {}
    <3>. DEFINE known == [row \in RowsOf(recorder, i) |-> row.start]
                places == First(i)..Later(First(i), Final(i))
    <3>1. First(i) \in Int /\ Later(First(i), Final(i)) \in Int
      BY FirstType DEF Later
    <3>2. ASSUME NEW row \in RowsOf(recorder, i) PROVE row.start \in places
      <4>1. /\ row.start \in Int /\ First(i) <= row.start /\ Final(i) \in Int /\ row.end \in Int
            /\ row.end <= Final(i) /\ (recorder.split # Whole => row.start < row.end)
            /\ recorder.split = Whole => row.start = First(i)
        BY RowFacts, RowEnds, FirstType DEF First
      <4>2. row.start <= Later(First(i), Final(i))
        BY <3>1, <4>1 DEF Later
      <4>. QED
        BY <3>1, <4>1, <4>2
    <3>3. \A row, g \in RowsOf(recorder, i) : row.start = g.start => row = g
      BY RowEnds
    <3>4. known \in Injection(RowsOf(recorder, i), places)
      <4>1. known \in [RowsOf(recorder, i) -> places]
        BY <3>2
      <4>2. \A row, g \in DOMAIN known : known[row] = known[g] => row = g
        BY <3>3
      <4>. HIDE DEF known, places
      <4>. QED
        BY <4>1, <4>2 DEF Injection, IsInjective
    <3>5. IsFiniteSet(places)
      BY <3>1, FS_Interval
    <3>. HIDE DEF known, places
    <3>. QED
      BY <3>4, <3>5, FS_Injection
  <2>. QED
    BY <2>1, <2>2
<1>2. IsFiniteSet(DOMAIN films)
  BY FS_Interval DEF FilmsInv
<1>. DEFINE rows == [i \in DOMAIN films |-> RowsOf(recorder, i)]
            all == {rows[i] : i \in DOMAIN films}
<1>3. Found(recorder) = UNION all /\ \A S \in all : IsFiniteSet(S)
  BY <1>1 DEF Found
<1>4. IsFiniteSet(all)
  <2>. HIDE DEF rows
  <2>. QED
    BY <1>2, ImageFinite
<1>. HIDE DEF all
<1>. QED
  BY <1>3, <1>4, FS_UNION

LEMMA AllFinite ==
    ASSUME FilmsInv
    PROVE  IsFiniteSet(Plain) /\ \A seen : IsFiniteSet(All(seen))
<1>. DEFINE serialized == [row \in Found(recorder) |-> Serialized(recorder, row, IsUtc)]
<1>1. IsFiniteSet({serialized[row] : row \in Found(recorder)})
  <2>. HIDE DEF serialized
  <2>. QED
    BY FoundFinite, ImageFinite
<1>2. Plain = {serialized[row] : row \in Found(recorder)}
  BY DEF Plain
<1>3. IsFiniteSet(Plain)
  BY <1>1, <1>2
<1>. QED
  BY <1>3, ImageFinite DEF All

\* The size of a recording is claimed by its only row.
LEMMA WholeIsAlone ==
    ASSUME FilmsInv, NEW i \in DOMAIN films, NEW row \in RowsOf(recorder, i)
    PROVE  Cardinality({h \in Plain : h.name = i}) = 1
               <=> \A g \in Found(recorder) : g.name = i => g.start = row.start
<1>. DEFINE S == {h \in Plain : h.name = i}
            own == Serialized(recorder, row, IsUtc)
<1>1. \A g : LET h == Serialized(recorder, g, IsUtc) IN h.name = g.name /\ h.start = g.start
  BY DEF Serialized
<1>2. own \in S
  <2>1. row \in Found(recorder) /\ row.name = i
    BY RowFacts DEF Found
  <2>. HIDE DEF own
  <2>2. own \in Plain
    BY <2>1 DEF Plain, own
  <2>3. own.name = i
    BY <1>1, <2>1 DEF own
  <2>. QED
    BY <2>2, <2>3
<1>3. ASSUME Cardinality(S) = 1, NEW g \in Found(recorder), g.name = i PROVE g.start = row.start
  <2>. DEFINE h == Serialized(recorder, g, IsUtc)
  <2>1. h \in S
    BY <1>1, <1>3 DEF Plain
  <2>2. IsFiniteSet(S)
    <3>1. IsFiniteSet(Plain) /\ S \subseteq Plain
      BY AllFinite
    <3>. QED
      BY <3>1, FS_Subset
  <2>3. \E x : S = {x}
    <3>. HIDE DEF S
    <3>. QED
      BY <1>3, <2>2, FS_Singleton
  <2>. HIDE DEF S
  <2>4. h = own
    BY <1>2, <2>1, <2>3
  <2>. QED
    BY <1>1, <2>4
<1>4. ASSUME \A g \in Found(recorder) : g.name = i => g.start = row.start PROVE Cardinality(S) = 1
  <2>1. ASSUME NEW h \in S PROVE h = own
    <3>1. PICK g \in Found(recorder) : h = Serialized(recorder, g, IsUtc)
      BY <2>1 DEF Plain
    <3>2. g.name = i
      BY <1>1, <2>1, <3>1
    <3>3. PICK j \in DOMAIN films : g \in RowsOf(recorder, j)
      BY DEF Found
    <3>4. j = i
      BY <3>2, <3>3, RowFacts
    <3>. QED
      BY <1>4, <3>1, <3>2, <3>3, <3>4, RowEnds
  <2>. HIDE DEF S, own
  <2>2. S = {own}
    BY <1>2, <2>1
  <2>. QED
    BY <2>2, FS_Singleton
<1>. QED
  BY <1>3, <1>4

-----------------------------------------------------------------------------
(* What was seen.                                                           *)

\* Two cuts of one recording are a split apart.
LEMMA MultiplesApart ==
    ASSUME NEW a \in Int, NEW b \in Int, NEW s \in Nat \ {0}, a % s = 0, b % s = 0, a < b
    PROVE  a + s <= b
<1>. DEFINE p == a \div s
            q == b \div s
<1>1. p \in Int /\ q \in Int /\ a = s * p /\ b = s * q
  OBVIOUS
<1>. HIDE DEF p, q
<1>2. p + 1 <= q
  BY <1>1
<1>3. s * (p + 1) <= s * q
  BY <1>1, <1>2
<1>. QED
  BY <1>1, <1>3

\* Nothing of the row is doubtful.
Settled(row) == \A w \in {row.start, row.end, Begins(row.name)} : ~ Doubtful(recorder, w)

LEMMA RowsApart ==
    ASSUME FilmsInv, NEW i \in DOMAIN films, NEW j \in DOMAIN films, i <= j,
           NEW row \in RowsOf(recorder, i), NEW g \in RowsOf(recorder, j), row # g,
           Settled(row), Settled(g)
    PROVE  row.end <= g.start \/ g.end <= row.start
<1>1. /\ row.start \in Int /\ row.end \in Int /\ First(i) \in Int /\ First(i) <= row.start
      /\ g.start \in Int /\ g.end \in Int /\ First(j) <= g.start
      /\ row.end <= Final(i) /\ Final(i) \in Int
  <2>1. /\ row.start \in Int /\ row.end \in Int /\ First(i) \in Int /\ First(i) <= row.start
        /\ row.end <= Final(i) /\ Final(i) \in Int
    BY RowFacts, RowEnds, FirstType DEF First
  <2>2. g.start \in Int /\ g.end \in Int /\ First(j) <= g.start
    BY RowFacts, RowEnds, FirstType DEF First
  <2>. QED
    BY <2>1, <2>2
<1>2. CASE i = j
  <2>1. row.start # g.start
    BY <1>2, RowEnds
  <2>2. recorder.split # Whole
    <3>1. recorder.split = Whole => row.start = First(i) /\ g.start = First(i)
      BY <1>2, RowFacts DEF First
    <3>. QED
      BY <2>1, <3>1
  <2>3. recorder.split \in Nat \ {0}
    BY <2>2, RecorderType DEF FilmsInv
  <2>4. /\ row.end <= row.start + recorder.split /\ (row.start - First(i)) % recorder.split = 0
        /\ g.end <= g.start + recorder.split /\ (g.start - First(i)) % recorder.split = 0
    BY <1>2, <2>2, RowEnds
  <2>. DEFINE a == row.start - First(i)
              b == g.start - First(i)
  <2>5. a \in Int /\ b \in Int /\ a # b /\ row.start = a + First(i) /\ g.start = b + First(i)
    BY <1>1, <2>1
  <2>6. a % recorder.split = 0 /\ b % recorder.split = 0
    BY <2>4
  <2>. HIDE DEF a, b
  <2>7. CASE a < b
    <3>1. a + recorder.split <= b
      BY <2>3, <2>5, <2>6, <2>7, MultiplesApart
    <3>. QED
      BY <1>1, <2>3, <2>4, <2>5, <3>1
  <2>8. CASE b < a
    <3>1. b + recorder.split <= a
      BY <2>3, <2>5, <2>6, <2>8, MultiplesApart
    <3>. QED
      BY <1>1, <2>3, <2>4, <2>5, <3>1
  <2>. QED
    BY <2>5, <2>7, <2>8
<1>3. CASE i < j
  <2>1. /\ films[i].until \in Int /\ films[j].from \in Int /\ recorder \in Recorders
        /\ films[i].until <= films[j].from
    BY <1>3, FilmType DEF FilmsInv
  <2>2. Until(i) \in Int /\ Begins(j) \in Int /\ DayEnd \in Int
    BY FilmWalls, TimesAssumption
  <2>3. row.end <= Wall(recorder, films[i].until)
    BY <1>1, <2>2 DEF Final, Earlier, Until
  <2>4. row.end <= Begins(j)
    BY <1>1, <2>1, <2>3, WallStaysAhead DEF Begins, Settled
  <2>. QED
    BY <1>1, <2>2, <2>4 DEF First, Later
<1>. QED
  BY <1>2, <1>3, FilmType

\* Between wall clocks that are not doubtful the conversion keeps their order.
LEMMA InstantsOrdered ==
    ASSUME NEW r \in Recorders, NEW v \in Int, NEW w \in Int, v <= w,
           ~ Doubtful(r, v), ~ Doubtful(r, w)
    PROVE  /\ AsUtc(r, v) \in Int /\ AsUtc(r, w) \in Int
           /\ AsUtc(r, v) <= AsUtc(r, w)
  BY RecorderType, TimesAssumption DEF Doubtful, AsUtc, UtcOffset, InSummer

\* The detections of one kind in a row, and in any of several.
Within(f, k, seen) ==
    {d \in seen : d.kind = k /\ AsUtc(recorder, f.start) <= d.at
                             /\ d.at < AsUtc(recorder, f.end)}
Hits(T, k, seen) ==
    {d \in seen : d.kind = k /\ \E f \in T : AsUtc(recorder, f.start) <= d.at
                                             /\ d.at < AsUtc(recorder, f.end)}

LEMMA WithinApart ==
    ASSUME FilmsInv, NEW row \in Found(recorder), NEW g \in Found(recorder), row # g,
           Settled(row), Settled(g), NEW k, NEW seen, \A d \in seen : d.at \in Int
    PROVE  Within(row, k, seen) \cap Within(g, k, seen) = {}
<1>1. PICK i \in DOMAIN films : row \in RowsOf(recorder, i)
  BY DEF Found
<1>2. PICK j \in DOMAIN films : g \in RowsOf(recorder, j)
  BY DEF Found
<1>3. row.end <= g.start \/ g.end <= row.start
  <2>1. i \in Nat /\ j \in Nat
    BY FilmType
  <2>2. CASE i <= j
    BY <1>1, <1>2, <2>2, RowsApart
  <2>3. CASE j <= i
    BY <1>1, <1>2, <2>3, RowsApart
  <2>. QED
    BY <2>1, <2>2, <2>3
<1>4. /\ row.start \in Int /\ row.end \in Int /\ g.start \in Int /\ g.end \in Int
      /\ recorder \in Recorders
      /\ \A w \in {row.start, row.end, g.start, g.end} : ~ Doubtful(recorder, w)
  <2>1. row.start \in Int /\ row.end \in Int
    BY <1>1, RowFacts, RowEnds
  <2>2. g.start \in Int /\ g.end \in Int
    BY <1>2, RowFacts, RowEnds
  <2>. QED
    BY <2>1, <2>2 DEF Settled, FilmsInv
<1>5. /\ \A w \in {row.start, row.end, g.start, g.end} : AsUtc(recorder, w) \in Int
      /\ \/ AsUtc(recorder, row.end) <= AsUtc(recorder, g.start)
         \/ AsUtc(recorder, g.end) <= AsUtc(recorder, row.start)
  BY <1>3, <1>4, InstantsOrdered
<1>. QED
  BY <1>5 DEF Within

\* Induction over the subsets of a finite set.
LEMMA SubsetInduction ==
    ASSUME NEW S, IsFiniteSet(S), NEW Good \in SUBSET (SUBSET S),
           ASSUME NEW T \in SUBSET S, \A U \in SUBSET T : U # T => U \in Good
           PROVE  T \in Good
    PROVE  \A T \in SUBSET S : T \in Good
<1>. DEFINE Bad == (SUBSET S) \ Good
<1>1. SUFFICES ASSUME Bad # {} PROVE FALSE
  OBVIOUS
<1>2. IsWellFoundedOn(StrictSubsetOrdering(S), SUBSET S)
  BY FS_StrictSubsetOrderingWellFounded, FS_FiniteSubsetsOfFinite
<1>3. PICK T \in Bad : \A U \in Bad : <<U, T>> \notin StrictSubsetOrdering(S)
  <2>1. Bad \subseteq SUBSET S
    OBVIOUS
  <2>. HIDE DEF Bad
  <2>. QED
    BY <1>1, <1>2, <2>1, WFMin
<1>4. \A U \in SUBSET T : U # T => U \in Good
  BY <1>3 DEF StrictSubsetOrdering
<1>. QED
  BY <1>3, <1>4

\* A sum over a set of files, as FoldSet has it: of one file and of the rest.
AnyOf(T) == CHOOSE f \in T : TRUE
Adding(s, S, term) ==
    s = [T \in SUBSET S |-> IF T = {} THEN 0 ELSE s[T \ {AnyOf(T)}] + term[AnyOf(T)]]

Together(S, W) == UNION {W[f] : f \in S}

\* What each file is worth of a set of its own adds up to all of them, if no two share any.
LEMMA TermsAddUp ==
    ASSUME NEW S, IsFiniteSet(S), NEW W, NEW term,
           \A f \in S : IsFiniteSet(W[f]) /\ term[f] = Cardinality(W[f]),
           \A f, g \in S : f # g => W[f] \cap W[g] = {}
    PROVE  /\ \E s : Adding(s, S, term)
           /\ \A s : Adding(s, S, term) => s[S] = Cardinality(Together(S, W))
           /\ IsFiniteSet(Together(S, W))
<1>. DEFINE hits(T) == UNION {W[f] : f \in T}
            size == [T \in SUBSET S |-> Cardinality(hits(T))]
<1>1. \A T \in SUBSET S : T # {} => AnyOf(T) \in T
  BY DEF AnyOf
<1>2. ASSUME NEW T \in SUBSET S PROVE IsFiniteSet(hits(T))
  <2>. DEFINE worth == [f \in T |-> W[f]]
              all == {worth[f] : f \in T}
  <2>1. IsFiniteSet(T)
    BY FS_Subset
  <2>2. IsFiniteSet(all)
    <3>. HIDE DEF worth
    <3>. QED
      BY <2>1, ImageFinite
  <2>3. hits(T) = UNION all /\ \A U \in all : IsFiniteSet(U)
    OBVIOUS
  <2>. HIDE DEF all, hits
  <2>. QED
    BY <2>2, <2>3, FS_UNION
<1>3. ASSUME NEW T \in SUBSET S
      PROVE  size[T] = IF T = {} THEN 0 ELSE size[T \ {AnyOf(T)}] + term[AnyOf(T)]
  <2>1. CASE T = {}
    <3>1. hits(T) = {}
      BY <2>1
    <3>. QED
      BY <2>1, <3>1, FS_EmptySet
  <2>2. CASE T # {}
    <3>. DEFINE f == AnyOf(T)
                rest == T \ {f}
                A == hits(rest)
                B == W[f]
    <3>1. f \in T /\ f \in S /\ rest \in SUBSET S
      BY <1>1, <2>2
    <3>2. hits(T) = A \cup B
      BY <3>1
    <3>3. A \cap B = {}
      <4>1. \A g \in rest : W[g] \cap B = {}
        BY <3>1
      <4>. QED
        BY <4>1
    <3>4. IsFiniteSet(A) /\ IsFiniteSet(B) /\ term[f] = Cardinality(B)
      BY <1>2, <3>1
    <3>5. size[T] = Cardinality(hits(T)) /\ size[rest] = Cardinality(A)
      BY <3>1
    <3>. HIDE DEF A, B, hits, f, rest, size
    <3>6. /\ Cardinality(A \cup B) = Cardinality(A) + Cardinality(B) - Cardinality(A \cap B)
          /\ Cardinality(A) \in Nat /\ Cardinality(B) \in Nat
      BY <3>4, FS_Union, FS_CardinalityType
    <3>8. Cardinality(A \cap B) = 0
      BY <3>3, FS_EmptySet
    <3>9. Cardinality(hits(T)) = Cardinality(A) + Cardinality(B)
      <4>1. Cardinality(A \cup B) = Cardinality(A) + Cardinality(B)
        BY <3>6, <3>8
      <4>. QED
        BY <3>2, <4>1
    <3>7. size[T] = size[rest] + term[f]
      BY <3>4, <3>5, <3>9
    <3>. QED
      BY <2>2, <3>7 DEF f, rest
  <2>. QED
    BY <2>1, <2>2
<1>4. Adding(size, S, term)
  <2>1. size = [T \in SUBSET S |-> size[T]]
    OBVIOUS
  <2>. HIDE DEF size
  <2>. QED
    BY <1>3, <2>1 DEF Adding
<1>5. ASSUME NEW s, Adding(s, S, term) PROVE \A T \in SUBSET S : s[T] = size[T]
  <2>. DEFINE Good == {T \in SUBSET S : s[T] = size[T]}
  <2>. HIDE DEF size
  <2>1. ASSUME NEW T \in SUBSET S, \A U \in SUBSET T : U # T => U \in Good
        PROVE  T \in Good
    <3>1. s[T] = IF T = {} THEN 0 ELSE s[T \ {AnyOf(T)}] + term[AnyOf(T)]
      BY <1>5 DEF Adding
    <3>2. T # {} => T \ {AnyOf(T)} \in Good
      BY <1>1, <2>1
    <3>. QED
      BY <1>3, <3>1, <3>2
  <2>2. Good \in SUBSET (SUBSET S)
    OBVIOUS
  <2>3. \A T \in SUBSET S : T \in Good
    <3>. HIDE DEF Good
    <3>. QED
      BY <2>1, <2>2, SubsetInduction
  <2>. QED
    BY <2>3
<1>6. size[S] = Cardinality(Together(S, W)) /\ IsFiniteSet(Together(S, W))
  BY <1>2 DEF Together
<1>. HIDE DEF size
<1>. QED
  BY <1>4, <1>5, <1>6

\* The files' counts, added up, are the detections in any of them, if no two share one.
LEMMA CountsAddUp ==
    ASSUME NEW S, IsFiniteSet(S), NEW k, NEW seen, IsFiniteSet(seen),
           \A f \in S : f.counts[k] = Cardinality(Within(f, k, seen)),
           \A f, g \in S : f # g => Within(f, k, seen) \cap Within(g, k, seen) = {}
    PROVE  FoldSet(LAMBDA f, t : t + f.counts[k], 0, S) = Cardinality(Hits(S, k, seen))
<1>. DEFINE Adds(s) == s = [T \in SUBSET S |-> IF T = {} THEN 0
                                               ELSE s[T \ {AnyOf(T)}] + AnyOf(T).counts[k]]
            W == [f \in S |-> Within(f, k, seen)]
            term == [f \in S |-> f.counts[k]]
            sum == CHOOSE s : Adds(s)
<1>1. /\ \A f \in S : IsFiniteSet(W[f]) /\ term[f] = Cardinality(W[f])
      /\ \A f, g \in S : f # g => W[f] \cap W[g] = {}
  BY FS_Subset DEF Within
<1>2. Together(S, W) = Hits(S, k, seen)
  BY DEF Together, Within, Hits
<1>3. \A s : Adds(s) <=> Adding(s, S, term)
  <2>1. \A T \in SUBSET S : T # {} => term[AnyOf(T)] = AnyOf(T).counts[k]
    BY DEF AnyOf
  <2>. HIDE DEF term
  <2>. QED
    BY <2>1 DEF Adding
<1>4. /\ \E s : Adding(s, S, term)
      /\ \A s : Adding(s, S, term) => s[S] = Cardinality(Together(S, W))
  <2>. HIDE DEF W, term
  <2>. QED
    BY <1>1, TermsAddUp
<1>5. Adds(sum)
  <2>. HIDE DEF Adds, term
  <2>. QED
    BY <1>3, <1>4
<1>6. FoldSet(LAMBDA f, t : t + f.counts[k], 0, S) = sum[S]
  BY DEF FoldSet, MapThenFoldSet, AnyOf
<1>. HIDE DEF Adds, W, term, sum
<1>. QED
  BY <1>2, <1>3, <1>4, <1>5, <1>6

\* What they recorded is a number.
LEMMA RecordedIsNumber ==
    ASSUME NEW S, IsFiniteSet(S), \A f \in S : f.duration \in Nat
    PROVE  FoldSet(LAMBDA f, t : t + f.duration, 0, S) \in Nat
<1>. DEFINE Adds(s) == s = [T \in SUBSET S |-> IF T = {} THEN 0
                                               ELSE s[T \ {AnyOf(T)}] + AnyOf(T).duration]
            W == [f \in S |-> {f} \X (1..f.duration)]
            term == [f \in S |-> f.duration]
            sum == CHOOSE s : Adds(s)
<1>1. ASSUME NEW f \in S PROVE IsFiniteSet(W[f]) /\ term[f] = Cardinality(W[f])
  <2>. DEFINE A == {f}
              B == 1..f.duration
  <2>1. IsFiniteSet(A) /\ Cardinality(A) = 1
    BY FS_Singleton
  <2>2. IsFiniteSet(B) /\ Cardinality(B) = f.duration
    <3>1. f.duration \in Nat /\ f.duration \in Int /\ 1 \in Int
      OBVIOUS
    <3>2. IsFiniteSet(B) /\ Cardinality(B) = IF 1 > f.duration THEN 0 ELSE f.duration - 1 + 1
      BY <3>1, FS_Interval
    <3>. QED
      BY <3>1, <3>2
  <2>3. IsFiniteSet(A \X B) /\ Cardinality(A \X B) = Cardinality(A) * Cardinality(B)
    <3>. HIDE DEF A, B
    <3>. QED
      BY <2>1, <2>2, FS_Product
  <2>4. Cardinality(A) * Cardinality(B) = f.duration
    <3>. HIDE DEF A, B
    <3>. QED
      BY <2>1, <2>2
  <2>. QED
    BY <2>3, <2>4
<1>2. \A f, g \in S : f # g => W[f] \cap W[g] = {}
  OBVIOUS
<1>3. \A s : Adds(s) <=> Adding(s, S, term)
  <2>1. \A T \in SUBSET S : T # {} => term[AnyOf(T)] = AnyOf(T).duration
    BY DEF AnyOf
  <2>. HIDE DEF term
  <2>. QED
    BY <2>1 DEF Adding
<1>4. /\ \E s : Adding(s, S, term)
      /\ \A s : Adding(s, S, term) => s[S] = Cardinality(Together(S, W))
      /\ IsFiniteSet(Together(S, W))
  <2>. HIDE DEF W, term
  <2>. QED
    BY <1>1, <1>2, TermsAddUp
<1>5. Adds(sum)
  <2>. HIDE DEF Adds, term
  <2>. QED
    BY <1>3, <1>4
<1>6. FoldSet(LAMBDA f, t : t + f.duration, 0, S) = sum[S]
  BY DEF FoldSet, MapThenFoldSet, AnyOf
<1>. HIDE DEF Adds, W, term, sum
<1>7. sum[S] \in Nat
  <2>1. sum[S] = Cardinality(Together(S, W)) /\ IsFiniteSet(Together(S, W))
    BY <1>3, <1>4, <1>5
  <2>. QED
    BY <2>1, FS_CardinalityType
<1>. QED
  BY <1>6, <1>7

\* What Home Assistant remembers is finite, and timed.
LEMMA DetectionsType ==
    ASSUME EdgesInv, NEW channel, NEW from, NEW until
    PROVE  /\ IsFiniteSet(Detections(channel, from, until))
           /\ \A d \in Detections(channel, from, until) : d.at \in Int
<1>1. /\ DOMAIN edges = 1..Len(edges) /\ Len(edges) \in Nat
      /\ \A i \in DOMAIN edges : edges[i].at \in Int
  <2>. DEFINE Said == [sensor : Sensors, at : Int, state : {"on", "off"}]
  <2>1. edges \in Seq(Said)
    BY DEF EdgesInv
  <2>2. /\ DOMAIN edges = 1..Len(edges) /\ Len(edges) \in Nat
        /\ \A i \in DOMAIN edges : edges[i] \in Said
    <3>. HIDE DEF Said
    <3>. QED
      BY <2>1
  <2>. QED
    BY <2>2
<1>2. IsFiniteSet(DOMAIN edges)
  BY <1>1, FS_Interval
<1>. DEFINE detection == [i \in DOMAIN edges |->
                [kind |-> KindForKey(KeyOf[edges[i].sensor]), at |-> edges[i].at, edge |-> i]]
<1>3. IsFiniteSet({detection[i] : i \in DOMAIN edges})
  <2>. HIDE DEF detection
  <2>. QED
    BY <1>2, ImageFinite
<1>4. Detections(channel, from, until) \subseteq {detection[i] : i \in DOMAIN edges}
  BY DEF Detections
<1>5. IsFiniteSet(Detections(channel, from, until))
  BY <1>3, <1>4, FS_Subset
<1>6. \A d \in Detections(channel, from, until) : d.at \in Int
  BY <1>1 DEF Detections
<1>. QED
  BY <1>5, <1>6

LEMMA FreshCounts == FilmsInv /\ EdgesInv /\ Fresh => NothingSeenIsDropped
<1>0. SUFFICES ASSUME FilmsInv, EdgesInv, Fresh, \A row \in answer.found : ~ Unsettled(row),
                      NEW k \in Kinds
               PROVE  FoldSet(LAMBDA f, t : t + f.counts[k], 0, answer.files)
                        = Cardinality(Hits(answer.found, k, answer.seen))
  BY DEF NothingSeenIsDropped, Hits
<1>1. /\ FilmsInv /\ EdgesInv /\ Fresh /\ answer.found = Found(recorder)
      /\ \A row \in Found(recorder) : ~ Unsettled(row)
  BY <1>0, AnswerIs
<1>2. FilmsInv /\ EdgesInv
  BY <1>1
<1>. DEFINE history == Detections(Camera, AsUtc(recorder, 0), AsUtc(recorder, DayEnd))
<1>3. PICK seen \in {{}, history}, include \in BOOLEAN :
          /\ answer.files = All(seen) \ Dropped(seen, include)
          /\ answer.seen = seen
  BY <1>1, AnswerIs
<1>4. IsFiniteSet(seen) /\ \A d \in seen : d.at \in Int
  BY <1>2, <1>3, DetectionsType, FS_EmptySet
<1>. HIDE DEF history
<1>5. \A row \in Found(recorder) : Settled(row)
  BY <1>1 DEF Unsettled, Settled
<1>6. ASSUME NEW f \in All(seen)
      PROVE  \E row \in Found(recorder) :
                 /\ f = Counted(seen)[Serialized(recorder, row, IsUtc)]
                 /\ f.start = row.start /\ f.end = row.end
  <2>1. PICK i \in DOMAIN films : \E row \in RowsOf(recorder, i) :
            OfRow(f, row) /\ f = Counted(seen)[Serialized(recorder, row, IsUtc)]
    BY AllFiles
  <2>2. PICK row \in RowsOf(recorder, i) :
            OfRow(f, row) /\ f = Counted(seen)[Serialized(recorder, row, IsUtc)]
    BY <2>1
  <2>3. row \in Found(recorder)
    BY DEF Found
  <2>4. f.start = row.start /\ f.end = row.end
    <3>1. OfRow(f, row)
      BY <2>2
    <3>. QED
      BY <3>1 DEF OfRow, Serialized
  <2>. QED
    BY <2>2, <2>3, <2>4
<1>7. ASSUME NEW f \in All(seen) PROVE f.counts[k] = Cardinality(Within(f, k, seen))
  <2>1. f.counts = Counts(recorder, f, seen)
    BY AllFiles
  <2>. QED
    BY <2>1 DEF Counts, Within
<1>8. ASSUME NEW f \in All(seen), NEW g \in All(seen), f # g
      PROVE  Within(f, k, seen) \cap Within(g, k, seen) = {}
  <2>1. PICK row \in Found(recorder) :
            /\ f = Counted(seen)[Serialized(recorder, row, IsUtc)]
            /\ f.start = row.start /\ f.end = row.end
    BY <1>6
  <2>2. PICK x \in Found(recorder) :
            /\ g = Counted(seen)[Serialized(recorder, x, IsUtc)]
            /\ g.start = x.start /\ g.end = x.end
    BY <1>6
  <2>3. Within(row, k, seen) \cap Within(x, k, seen) = {}
    BY <1>2, <1>4, <1>5, <1>8, <2>1, <2>2, WithinApart
  <2>4. Within(f, k, seen) = Within(row, k, seen) /\ Within(g, k, seen) = Within(x, k, seen)
    BY <2>1, <2>2 DEF Within
  <2>. QED
    BY <2>3, <2>4
<1>9. FoldSet(LAMBDA f, t : t + f.counts[k], 0, answer.files)
          = Cardinality(Hits(answer.files, k, seen))
  <2>1. answer.files \subseteq All(seen) /\ IsFiniteSet(answer.files)
    BY <1>2, <1>3, AllFinite, FS_Subset
  <2>. QED
    BY <1>4, <1>7, <1>8, <2>1, CountsAddUp
<1>10. Hits(answer.files, k, seen) = Hits(All(seen), k, seen)
  <2>1. ASSUME NEW f \in Dropped(seen, include) PROVE Within(f, k, seen) = {}
    <3>1. f \in All(seen) /\ f.counts[k] = 0
      BY <1>1 DEF Dropped, Filler
    <3>2. IsFiniteSet(Within(f, k, seen))
      BY <1>4, FS_Subset DEF Within
    <3>. QED
      BY <1>7, <3>1, <3>2, FS_EmptySet
  <2>2. \A d \in Hits(All(seen), k, seen) : \E f \in All(seen) : d \in Within(f, k, seen)
    BY DEF Hits, Within
  <2>3. Hits(All(seen), k, seen) \subseteq Hits(answer.files, k, seen)
    BY <1>3, <2>1, <2>2 DEF Hits, Within
  <2>4. Hits(answer.files, k, seen) \subseteq Hits(All(seen), k, seen)
    BY <1>3 DEF Hits
  <2>. QED
    BY <2>3, <2>4
<1>11. Hits(All(seen), k, seen) = Hits(Found(recorder), k, seen)
  <2>1. ASSUME NEW row \in Found(recorder)
        PROVE  \E f \in All(seen) : f.start = row.start /\ f.end = row.end
    <3>. DEFINE g == Serialized(recorder, row, IsUtc)
                f == Counted(seen)[g]
    <3>1. g \in Plain
      BY DEF Plain
    <3>2. f \in All(seen)
      <4>. HIDE DEF g
      <4>. QED
        BY <3>1 DEF All
    <3>3. f.start = g.start /\ f.end = g.end
      <4>. DEFINE segments == Cardinality({h \in Plain : h.name = g.name})
      <4>1. f = [g EXCEPT !.counts = Counts(recorder, g, seen), !.segments = segments]
        <5>. HIDE DEF g
        <5>. QED
          BY <3>1 DEF Counted
      <4>. HIDE DEF f, segments
      <4>. QED
        BY <4>1 DEF Serialized
    <3>4. g.start = row.start /\ g.end = row.end
      BY DEF Serialized
    <3>. HIDE DEF f, g
    <3>. QED
      BY <3>2, <3>3, <3>4
  <2>. QED
    BY <1>6, <2>1 DEF Hits
<1>. QED
  BY <1>1, <1>3, <1>9, <1>10, <1>11

-----------------------------------------------------------------------------
(* Stored answers.                                                          *)

Recorded(files) == FoldSet(LAMBDA f, t : t + f.duration, 0, files)

\* A stored answer goes on being of recordings of the world, and of what was found; its
\* judgement is of the wall clock it was made at, or of what was dropped.
StoredInv ==
    Answered =>
        /\ \A row \in answer.found : row.name \in DOMAIN films
        /\ \A f \in answer.files :
              /\ \E i \in DOMAIN films : \E row \in RowsOf(recorder, i) :
                    /\ f.name = i /\ f.start = row.start /\ f.end = row.end
                    /\ f.duration = IF row.end < row.start THEN 0 ELSE row.end - row.start
              /\ f.segments = 1 <=> \A g \in answer.found : g.name = f.name => g.start = f.start
        /\ answer.at \in Int /\ answer.dropped \in Nat /\ Recorded(answer.files) \in Nat
        /\ answer.dropped > 0 => answer.continuous
        /\ answer.dropped = 0 =>
              (answer.continuous <=> IsContinuousDay(answer.files, 0, answer.at))

SInv == FilmsInv /\ EdgesInv /\ StoredInv

LEMMA FreshStored == FilmsInv /\ Fresh => StoredInv
<1>. DEFINE wall == Wall(recorder, now)
<1>1. SUFFICES ASSUME FilmsInv, Fresh PROVE StoredInv
  OBVIOUS
<1>2. PICK seen, include :
          answer = [files |-> All(seen) \ Dropped(seen, include),
                    dropped |-> Cardinality(Dropped(seen, include)),
                    continuous |-> IsContinuousDay(All(seen), 0, wall),
                    seen |-> seen, found |-> Found(recorder), at |-> wall]
  BY <1>1, AnswerIs
<1>. DEFINE dropped == Dropped(seen, include)
            continuous == IsContinuousDay(All(seen), 0, wall)
<1>3. /\ answer.files = All(seen) \ dropped /\ answer.dropped = Cardinality(dropped)
      /\ answer.continuous = continuous /\ answer.found = Found(recorder) /\ answer.at = wall
  BY <1>2
<1>4. dropped # {} => continuous /\ dropped \subseteq All(seen)
  BY DEF Dropped
<1>5. IsFiniteSet(All(seen))
  BY <1>1, AllFinite
<1>6. wall \in Int
  BY <1>1, WallType DEF FilmsInv
<1>. HIDE DEF dropped, continuous, wall
<1>7. /\ IsFiniteSet(dropped) /\ Cardinality(dropped) \in Nat
      /\ Cardinality(dropped) = 0 <=> dropped = {}
  <2>1. dropped \subseteq All(seen)
    BY <1>4
  <2>. QED
    BY <1>5, <2>1, FS_Subset, FS_CardinalityType, FS_EmptySet
<1>8. \A row \in answer.found : row.name \in DOMAIN films
  BY <1>1, <1>3, RowFacts DEF Found
<1>9. ASSUME NEW f \in answer.files
      PROVE  /\ \E i \in DOMAIN films : \E row \in RowsOf(recorder, i) :
                   /\ f.name = i /\ f.start = row.start /\ f.end = row.end
                   /\ f.duration = IF row.end < row.start THEN 0 ELSE row.end - row.start
             /\ f.segments = 1 <=> \A g \in answer.found : g.name = f.name => g.start = f.start
             /\ f.duration \in Nat
  <2>1. PICK i \in DOMAIN films : \E row \in RowsOf(recorder, i) : OfRow(f, row)
    BY <1>1, AnswerFiles
  <2>2. PICK row \in RowsOf(recorder, i) : OfRow(f, row)
    BY <2>1
  <2>3. /\ f.name = i /\ f.start = row.start /\ f.end = row.end
        /\ f.duration = IF row.end < row.start THEN 0 ELSE row.end - row.start
    BY <1>1, <2>2, RowFacts DEF OfRow, Serialized
  <2>4. f.segments = Cardinality({h \in Plain : h.name = i})
    BY <1>1, <2>3, AnswerFiles
  <2>5. f.duration \in Nat
    BY <1>1, <2>3, RowFacts, RowEnds
  <2>. QED
    BY <1>1, <1>3, <2>3, <2>4, <2>5, WholeIsAlone
<1>10. Recorded(answer.files) \in Nat
  <2>1. IsFiniteSet(answer.files)
    BY <1>3, <1>5, FS_Subset
  <2>. QED
    BY <1>9, <2>1, RecordedIsNumber DEF Recorded
<1>11. answer.dropped > 0 => answer.continuous
  BY <1>3, <1>4, <1>7
<1>12. ASSUME answer.dropped = 0
       PROVE  answer.continuous <=> IsContinuousDay(answer.files, 0, answer.at)
  BY <1>3, <1>7, <1>12 DEF continuous
<1>. QED
  BY <1>3, <1>6, <1>7, <1>8, <1>9, <1>10, <1>11, <1>12 DEF StoredInv

\* Recordings keep their rows.
RowsCut(r, i, film) ==
    LET from == Wall(r, film.from)
        until == Wall(r, film.until)
        first == IF from < 0 THEN 0 ELSE from
        last == IF until > DayEnd THEN DayEnd ELSE until
        starts == IF r.split = Whole THEN {first}
                  ELSE {w \in first..last : (w - first) % r.split = 0 /\ w < last}
        ends(w) == IF r.split = Whole \/ w + r.split > last THEN last ELSE w + r.split
        stated == IF ~ r.states THEN None ELSE IF r.keepsUtc THEN film.from ELSE from
    IN IF until <= 0 \/ from >= DayEnd THEN {}
       ELSE {[start |-> w, end |-> ends(w), stated |-> stated, name |-> i,
              flags |-> film.flags] : w \in starts}

LEMMA RowsLast ==
    ASSUME Lasting, NEW i \in DOMAIN films
    PROVE  /\ i \in DOMAIN films' /\ films'[i] = films[i] /\ RowsOf(recorder, i)' = RowsOf(recorder, i)
           /\ Begins(i)' = Begins(i)
<1>1. recorder' = recorder /\ i \in DOMAIN films' /\ films'[i] = films[i]
  BY DEF Lasting
<1>2. RowsOf(recorder, i) = RowsCut(recorder, i, films[i])
  BY DEF RowsOf, RowsCut
<1>3. RowsOf(recorder, i)' = RowsCut(recorder', i, films'[i])
  BY DEF RowsOf, RowsCut
<1>. QED
  BY <1>1, <1>2, <1>3 DEF Begins

LEMMA StoredLasts == StoredInv /\ Lasting => StoredInv'
<1>1. SUFFICES ASSUME StoredInv, Lasting, Answered PROVE StoredInv'
  BY DEF StoredInv, Answered, Lasting
<1>2. answer' = answer /\ recorder' = recorder
  BY <1>1 DEF Lasting
<1>3. \A row \in answer.found : row.name \in DOMAIN films'
  BY <1>1, RowsLast DEF StoredInv
<1>4. ASSUME NEW f \in answer.files
      PROVE  /\ \E i \in DOMAIN films' : \E row \in RowsOf(recorder, i)' :
                   /\ f.name = i /\ f.start = row.start /\ f.end = row.end
                   /\ f.duration = IF row.end < row.start THEN 0 ELSE row.end - row.start
             /\ f.segments = 1 <=> \A g \in answer.found : g.name = f.name => g.start = f.start
  <2>1. /\ \E i \in DOMAIN films : \E row \in RowsOf(recorder, i) :
              /\ f.name = i /\ f.start = row.start /\ f.end = row.end
              /\ f.duration = IF row.end < row.start THEN 0 ELSE row.end - row.start
        /\ f.segments = 1 <=> \A g \in answer.found : g.name = f.name => g.start = f.start
    BY <1>1 DEF StoredInv
  <2>2. \A i \in DOMAIN films : i \in DOMAIN films' /\ RowsOf(recorder, i)' = RowsOf(recorder, i)
    BY <1>1, RowsLast
  <2>. QED
    BY <2>1, <2>2
<1>5. /\ answer.at \in Int /\ answer.dropped \in Nat /\ Recorded(answer.files) \in Nat
      /\ answer.dropped > 0 => answer.continuous
      /\ answer.dropped = 0 =>
            (answer.continuous <=> IsContinuousDay(answer.files, 0, answer.at))
  BY <1>1 DEF StoredInv
<1>. QED
  BY <1>2, <1>3, <1>4, <1>5 DEF StoredInv

LEMMA SInvHolds == Spec => []SInv
<1>1. Init => SInv
  <2>. SUFFICES ASSUME Init PROVE SInv
    OBVIOUS
  <2>1. recorder \in Recorders /\ films = <<>> /\ answer = None /\ now = 0 - Eve - recorder.std
    BY RecorderType, TimesAssumption DEF Init
  <2>2. now \in Int
    BY <2>1, RecorderType, TimesAssumption
  <2>3. EdgesInv
    BY DEF Init, EdgesInv
  <2>. QED
    BY <2>1, <2>2, <2>3 DEF SInv, FilmsInv, StoredInv, Answered
<1>2. SInv /\ [Next]_vars => FilmsInv' /\ EdgesInv' /\ (Fresh' \/ StoredInv')
  BY FilmsKept, EdgesKept, AskedOrLasting, StoredLasts DEF SInv
<1>3. FilmsInv /\ EdgesInv /\ Fresh => SInv
  BY FreshStored DEF SInv
<1>4. FilmsInv /\ EdgesInv /\ StoredInv => SInv
  BY DEF SInv
<1>. QED
  BY <1>1, <1>2, <1>3, <1>4, PTL DEF Spec

\* What the answer names is as it was.
LEMMA NamedLast ==
    ASSUME StoredInv, Answered, Lasting
    PROVE  /\ answer' = answer /\ recorder' = recorder
           /\ \A i \in Named : i \in DOMAIN films /\ films'[i] = films[i] /\ Begins(i)' = Begins(i)
           /\ \A f \in answer.files \cup answer.found :
                 f.name \in DOMAIN films /\ (Unsettled(f)' <=> Unsettled(f))
<1>1. answer' = answer /\ recorder' = recorder
  BY DEF Lasting
<1>2. \A i \in Named : i \in DOMAIN films
  BY DEF Named, StoredInv
<1>3. \A f \in answer.files \cup answer.found : f.name \in DOMAIN films
  BY DEF StoredInv
<1>4. ASSUME NEW f \in answer.files \cup answer.found PROVE Unsettled(f)' <=> Unsettled(f)
  <2>1. films'[f.name] = films[f.name] /\ Begins(f.name)' = Begins(f.name)
    BY <1>3, RowsLast
  <2>. QED
    BY <1>1, <2>1 DEF Unsettled
<1>. QED
  BY <1>1, <1>2, <1>3, <1>4, RowsLast

LEMMA TellsLasts ==
    ASSUME StoredInv, Answered, Lasting
    PROVE  Measurable' = Measurable /\ Misleading' = Misleading /\ (Tells' <=> Tells)
<1>1. /\ recorder' = recorder /\ Named' = Named
      /\ \A i \in Named : films'[i] = films[i] /\ Begins(i)' = Begins(i)
  BY NamedLast DEF Named
<1>2. Measurable' = Measurable /\ Misleading' = Misleading
  BY <1>1 DEF Measurable, Misleading
<1>. QED
  BY <1>2 DEF Tells

\* Whatever zone the recorder states its times in, however it cuts its recordings and
\* whatever else it recorded, a row leads back to its recording and its place in it, as long
\* as its answer is stored (vod.py 163-295): every recording that began in the day casts a
\* vote of its own for what the recorder does, so it is outvoted only by as many recordings
\* that began just an offset before the day; and where wall clock and instant agree on a
\* recording, so do the two conventions.
THEOREM RowsAlwaysLeadBack == Spec => []RowsLeadToTheirMoment
<1>1. Init => RowsLeadToTheirMoment
  BY DEF Init, RowsLeadToTheirMoment, Answered
<1>2. SInv /\ RowsLeadToTheirMoment /\ Lasting => RowsLeadToTheirMoment'
  <2>1. SUFFICES ASSUME SInv, RowsLeadToTheirMoment, Lasting, Answered, NEW f \in answer.files
                 PROVE  \/ Unsettled(f)' \/ (f.derived /\ Begins(f.name)' < 0)
                        \/ ~ (Tells' \/ f.derived \/ Begins(f.name)' = films'[f.name].from)
                        \/ /\ f.fileStart = Begins(f.name)' /\ f.fileStart + f.offset = f.start
                           /\ f.playback = StatedAs(f)'
    BY DEF RowsLeadToTheirMoment, Answered, Lasting
  <2>2. /\ recorder' = recorder /\ films'[f.name] = films[f.name]
        /\ Begins(f.name)' = Begins(f.name) /\ (Unsettled(f)' <=> Unsettled(f))
    BY <2>1, NamedLast, RowsLast DEF SInv
  <2>3. Tells' <=> Tells
    BY <2>1, TellsLasts DEF SInv
  <2>4. StatedAs(f)' = StatedAs(f)
    BY <2>2 DEF StatedAs
  <2>. QED
    BY <2>1, <2>2, <2>3, <2>4 DEF RowsLeadToTheirMoment
<1>3. SInv /\ [Next]_vars => Fresh' \/ Lasting
  BY AskedOrLasting DEF SInv
<1>4. SInv /\ Fresh => RowsLeadToTheirMoment
  BY FreshRowsLead DEF SInv
<1>. QED
  BY <1>1, <1>2, <1>3, <1>4, SInvHolds, PTL DEF Spec

\* Two recordings that began in the day are enough to tell.
TwoRecordingsTell ==
    Answered /\ (\A f \in answer.found : ~ Unsettled(f)) /\ Cardinality(Measurable) > 1 => Tells

LEMMA FreshTwoTell == FilmsInv /\ Fresh => TwoRecordingsTell
<1>1. SUFFICES ASSUME FilmsInv, Fresh, \A f \in answer.found : ~ Unsettled(f)
               PROVE  Cardinality(Misleading) \in Nat /\ Cardinality(Misleading) <= 1
                      /\ Cardinality(Measurable) \in Nat
  BY DEF TwoRecordingsTell, Tells
<1>2. answer.found = Found(recorder)
  BY <1>1, AnswerIs
<1>3. ASSUME NEW i \in Misleading
      PROVE  /\ i \in DOMAIN films /\ ~ Doubtful(recorder, Begins(i))
             /\ Begins(i) \in Int /\ Begins(i) < 0 /\ Until(i) \in Int /\ 0 < Until(i)
  <2>1. i \in DOMAIN films /\ RowsOf(recorder, i) # {}
    BY <1>1, <1>2, NamedFilms DEF Misleading
  <2>2. PICK row \in RowsOf(recorder, i) : TRUE
    BY <2>1
  <2>3. row \in answer.found /\ row.name = i /\ 0 < Until(i)
    BY <1>1, <1>2, <2>1, <2>2, RowFacts DEF Found
  <2>4. ~ Doubtful(recorder, Begins(i))
    BY <1>1, <2>3 DEF Unsettled
  <2>5. Begins(i) \in Int /\ Until(i) \in Int /\ films[i].from \in Int /\ recorder \in Recorders
    BY <1>1, <2>1, FilmWalls, FilmType DEF FilmsInv
  <2>6. ASSUME 0 <= Begins(i) PROVE FALSE
    <3>1. /\ UtcOffset(recorder, Begins(i)) # 0
          /\ IF recorder.keepsUtc THEN Begins(i) = films[i].from
             ELSE Begins(i) - Begins(i) = UtcOffset(recorder, Begins(i))
      BY <2>5, <2>6 DEF Misleading
    <3>2. Begins(i) - UtcOffset(recorder, Begins(i)) = films[i].from
      BY <2>4, <2>5, SettledWall DEF AsUtc, Begins
    <3>3. UtcOffset(recorder, Begins(i)) \in Int
      BY <2>5, WallType
    <3>. QED
      BY <2>5, <3>1, <3>2, <3>3
  <2>. QED
    BY <2>1, <2>3, <2>4, <2>5, <2>6
<1>4. ASSUME NEW i \in Misleading, NEW j \in Misleading, i < j PROVE FALSE
  <2>1. /\ films[i].until \in Int /\ films[j].from \in Int /\ recorder \in Recorders
        /\ films[i].until <= films[j].from
    <3>1. films[i].until \in Int
      BY <1>1, <1>3, FilmType
    <3>2. films[j].from \in Int
      BY <1>1, <1>3, FilmType
    <3>. QED
      BY <1>1, <1>3, <1>4, <3>1, <3>2 DEF FilmsInv
  <2>2. Until(i) <= Begins(j)
    <3>1. CASE films[i].until = films[j].from
      BY <1>3, <3>1 DEF Until, Begins
    <3>2. CASE films[i].until < films[j].from
      BY <1>3, <2>1, <3>2, WallAdvanced DEF Until, Begins
    <3>. QED
      BY <2>1, <3>1, <3>2
  <2>. QED
    BY <1>3, <2>2
<1>5. \A i, j \in Misleading : i = j
  <2>1. \A i \in Misleading : i \in Nat
    BY <1>1, <1>3, FilmType
  <2>. QED
    BY <1>4, <2>1
<1>6. Cardinality(Misleading) \in Nat /\ Cardinality(Misleading) <= 1
  <2>1. CASE Misleading = {}
    BY <2>1, FS_EmptySet
  <2>2. CASE Misleading # {}
    <3>1. PICK i \in Misleading : TRUE
      BY <2>2
    <3>2. Misleading = {i}
      BY <1>5, <3>1
    <3>3. Cardinality({i}) = 1
      BY FS_Singleton
    <3>. QED
      BY <3>2, <3>3
  <2>. QED
    BY <2>1, <2>2
<1>. QED
  BY <1>1, <1>2, <1>6, NamedFilms

\* The premise of RowsAlwaysLeadBack is a weak one (vod.py 174-184): only the recording that
\* runs into the day can mislead, so two that began in it outvote it, however small the
\* offset and however long the recordings.
THEOREM TwoRecordingsAlwaysTell == Spec => []TwoRecordingsTell
<1>1. Init => TwoRecordingsTell
  BY DEF Init, TwoRecordingsTell, Answered
<1>2. SInv /\ TwoRecordingsTell /\ Lasting => TwoRecordingsTell'
  <2>1. SUFFICES ASSUME SInv, TwoRecordingsTell, Lasting, Answered,
                        \A f \in answer.found : ~ Unsettled(f)', Cardinality(Measurable') > 1
                 PROVE  Tells'
    BY DEF TwoRecordingsTell, Answered, Lasting
  <2>2. \A f \in answer.found : Unsettled(f)' <=> Unsettled(f)
    BY <2>1, NamedLast DEF SInv
  <2>3. Measurable' = Measurable /\ (Tells' <=> Tells)
    BY <2>1, TellsLasts DEF SInv
  <2>. QED
    BY <2>1, <2>2, <2>3 DEF TwoRecordingsTell
<1>3. SInv /\ [Next]_vars => Fresh' \/ Lasting
  BY AskedOrLasting DEF SInv
<1>4. SInv /\ Fresh => TwoRecordingsTell
  BY FreshTwoTell DEF SInv
<1>. QED
  BY <1>1, <1>2, <1>3, <1>4, SInvHolds, PTL DEF Spec

\* What the property says of the counts, of a recorder and an answer.
CountsHold(r, a) ==
    \A k \in Kinds :
        FoldSet(LAMBDA f, t : t + f.counts[k], 0, a.files)
          = Cardinality({d \in a.seen : d.kind = k /\
                \E f \in a.found : AsUtc(r, f.start) <= d.at /\ d.at < AsUtc(r, f.end)})

AllSettled == \A f \in answer.found : ~ Unsettled(f)
CountsAreRight == CountsHold(recorder, answer)

LEMMA CountsSplit == NothingSeenIsDropped <=> (Answered /\ AllSettled => CountsAreRight)
  BY DEF NothingSeenIsDropped, AllSettled, CountsAreRight, CountsHold

\* Every detection the history remembered that began in a recording of the day is counted,
\* in the one row it lies in, and dropping the filler drops none of them (vod.py:
\* `_async_classify`, `async_search_day`): the instants of two rows do not meet, and what is
\* dropped has counted nothing.
THEOREM NothingSeenIsEverDropped == Spec => []NothingSeenIsDropped
<1>1. Init => NothingSeenIsDropped
  BY DEF Init, NothingSeenIsDropped, Answered
<1>2. ASSUME SInv, Lasting, Answered'
      PROVE  Answered /\ (AllSettled' <=> AllSettled) /\ (CountsAreRight' <=> CountsAreRight)
  <2>1. answer' = answer /\ recorder' = recorder /\ Answered
    BY <1>2 DEF Lasting, Answered
  <2>2. AllSettled' <=> AllSettled
    BY <1>2, <2>1, NamedLast DEF SInv, AllSettled
  <2>. QED
    BY <2>1, <2>2 DEF CountsAreRight
<1>3. SInv /\ [Next]_vars => Fresh' \/ Lasting
  BY AskedOrLasting DEF SInv
<1>4. SInv /\ Fresh => NothingSeenIsDropped
  BY FreshCounts DEF SInv
<1>5. NothingSeenIsDropped' <=> (Answered' /\ AllSettled' => CountsAreRight')
  BY CountsSplit, PTL
<1>6. SInv /\ NothingSeenIsDropped /\ Lasting => NothingSeenIsDropped'
  BY <1>2, <1>5, CountsSplit
<1>. QED
  BY <1>1, <1>3, <1>4, <1>6, SInvHolds, PTL DEF Spec

\* The judgement of a stored answer, made again at another wall clock.
LEMMA JudgedAgain ==
    ASSUME FilmsInv, StoredInv, Answered
    PROVE  LET wall == Wall(recorder, now)
               again == IsContinuousDay(answer.files, answer.dropped, wall)
           IN /\ again /\ 0 < answer.at /\ answer.at <= wall => answer.continuous
              /\ answer.continuous /\ ~ again
                    => answer.dropped = 0 /\ (Elapsed(answer.at) < Elapsed(wall) \/ wall <= 0)
<1>. DEFINE wall == Wall(recorder, now)
            recorded == Recorded(answer.files)
            judged(w) == Elapsed(w) > 0 /\ recorded * Covered[2] >= Elapsed(w) * Covered[1]
<1>1. /\ wall \in Int /\ answer.at \in Int /\ recorded \in Nat /\ answer.dropped \in Nat
      /\ DayEnd \in Nat \ {0} /\ Covered[1] \in Nat /\ Covered[2] \in Nat
      /\ answer.dropped > 0 => answer.continuous
  BY WallType, TimesAssumption DEF FilmsInv, StoredInv
<1>2. \A n, w : IsContinuousDay(answer.files, n, w) <=> n > 0 \/ judged(w)
  BY DEF IsContinuousDay, Recorded, Elapsed
<1>3. answer.dropped = 0 => (answer.continuous <=> judged(answer.at))
  <2>1. answer.dropped = 0 => (answer.continuous <=> IsContinuousDay(answer.files, 0, answer.at))
    BY DEF StoredInv
  <2>. HIDE DEF judged
  <2>2. IsContinuousDay(answer.files, 0, answer.at) <=> judged(answer.at)
    BY <1>2
  <2>. QED
    BY <2>1, <2>2
<1>4. ASSUME NEW v \in Int, NEW w \in Int, Elapsed(v) <= Elapsed(w), 0 < v, judged(w)
      PROVE  judged(v)
  <2>1. Elapsed(v) \in Nat /\ Elapsed(w) \in Int /\ 0 < Elapsed(v)
    BY <1>1, <1>4 DEF Elapsed
  <2>. DEFINE a == Elapsed(v)
              b == Elapsed(w)
              c == Covered[1]
              d == recorded * Covered[2]
  <2>2. a \in Nat /\ b \in Nat /\ c \in Nat /\ a <= b /\ d \in Nat /\ d >= b * c
    BY <1>1, <1>4, <2>1
  <2>. HIDE DEF a, b, c, d
  <2>3. b * c >= a * c
    <3>1. b = a + (b - a) /\ b - a \in Nat
      BY <2>2
    <3>2. b * c = a * c + (b - a) * c /\ (b - a) * c >= 0
      BY <2>2, <3>1
    <3>. QED
      BY <2>2, <3>2
  <2>4. d >= a * c
    BY <2>2, <2>3
  <2>. QED
    BY <2>1, <2>4 DEF a, c, d
<1>. HIDE DEF recorded, judged, wall
<1>5. ASSUME IsContinuousDay(answer.files, answer.dropped, wall), 0 < answer.at, answer.at <= wall
      PROVE  answer.continuous
  <2>1. Elapsed(answer.at) <= Elapsed(wall)
    BY <1>1, <1>5 DEF Elapsed
  <2>. QED
    BY <1>1, <1>2, <1>3, <1>4, <1>5, <2>1
<1>6. ASSUME answer.continuous, ~ IsContinuousDay(answer.files, answer.dropped, wall)
      PROVE  answer.dropped = 0 /\ (Elapsed(answer.at) < Elapsed(wall) \/ wall <= 0)
  <2>1. answer.dropped = 0 /\ judged(answer.at)
    BY <1>1, <1>2, <1>3, <1>6
  <2>2. ASSUME 0 < wall, Elapsed(wall) <= Elapsed(answer.at) PROVE FALSE
    BY <1>1, <1>2, <1>4, <1>6, <2>1, <2>2
  <2>3. Elapsed(wall) \in Int /\ Elapsed(answer.at) \in Int
    BY <1>1 DEF Elapsed
  <2>. QED
    BY <1>1, <2>1, <2>2, <2>3
<1>. QED
  BY <1>5, <1>6 DEF wall

\* Whenever the panel composes what is stored, a day it calls continuous is one the search
\* called continuous, what was dropped still speaks for the day, one row alone is counted
\* for its recording, and a row shares time with no recording but its own, those filmed since
\* included (vod.py: `is_continuous_day`, `build_events`).
THEOREM PanelAlwaysAgrees == Spec => []PanelAgreesWithSearch
<1>1. ASSUME SInv PROVE PanelAgreesWithSearch
  <2>. DEFINE again == IsContinuousDay(answer.files, answer.dropped, Wall(recorder, now))
  <2>1. SUFFICES ASSUME Answered, NEW f \in answer.files
                 PROVE  /\ again /\ 0 < answer.at /\ answer.at <= Wall(recorder, now)
                              => answer.continuous
                        /\ answer.continuous /\ ~ again
                              => /\ answer.dropped = 0
                                 /\ \/ Elapsed(answer.at) < Elapsed(Wall(recorder, now))
                                    \/ Wall(recorder, now) <= 0
                        /\ f.segments = 1 <=> \A g \in answer.found :
                                                  g.name = f.name => g.start = f.start
                        /\ Unsettled(f) \/ {g.name : g \in Twins(f, Uncut)} = {f.name}
    <3>1. Composed = {[file |-> f, twins |-> Twins(f, Uncut), kinds |-> KindsFor(f),
                       whole |-> f.segments = 1, continuous |-> again] : f \in answer.files}
      BY DEF Composed, Events, Uncut
    <3>2. SUFFICES ASSUME Answered, NEW e \in Composed
                   PROVE  /\ e.continuous /\ 0 < answer.at /\ answer.at <= Wall(recorder, now)
                                => answer.continuous
                          /\ answer.continuous /\ ~ e.continuous
                                => /\ answer.dropped = 0
                                   /\ \/ Elapsed(answer.at) < Elapsed(Wall(recorder, now))
                                      \/ Wall(recorder, now) <= 0
                          /\ e.whole <=> \A g \in answer.found : g.name = e.file.name
                                                                => g.start = e.file.start
                          /\ Unsettled(e.file) \/ {g.name : g \in e.twins} = {e.file.name}
      BY DEF PanelAgreesWithSearch
    <3>. HIDE DEF again
    <3>3. PICK f \in answer.files :
              e = [file |-> f, twins |-> Twins(f, Uncut), kinds |-> KindsFor(f),
                   whole |-> f.segments = 1, continuous |-> again]
      BY <3>1, <3>2
    <3>4. /\ e.file = f /\ e.twins = Twins(f, Uncut) /\ e.whole = (f.segments = 1)
          /\ e.continuous = again
      BY <3>3
    <3>. QED
      BY <3>2, <3>4
  <2>2. FilmsInv /\ StoredInv
    BY <1>1 DEF SInv
  <2>. DEFINE IsOf(i, row) ==
                /\ f.name = i /\ f.start = row.start /\ f.end = row.end
                /\ f.duration = IF row.end < row.start THEN 0 ELSE row.end - row.start
  <2>6. PICK i \in DOMAIN films : \E row \in RowsOf(recorder, i) : IsOf(i, row)
    BY <2>1, <2>2 DEF StoredInv
  <2>3. PICK row \in RowsOf(recorder, i) : IsOf(i, row)
    BY <2>6
  <2>4. f.segments = 1 <=> \A g \in answer.found : g.name = f.name => g.start = f.start
    BY <2>1, <2>2 DEF StoredInv
  <2>5. ASSUME ~ Unsettled(f) PROVE {g.name : g \in Twins(f, Uncut)} = {f.name}
    <3>1. ~ Doubtful(recorder, Begins(i)) /\ ~ Doubtful(recorder, row.end)
      BY <2>3, <2>5 DEF Unsettled
    <3>2. Twins(f, Uncut) = {Serialized(recorder, UncutRow(i), TRUE)}
      BY <2>2, <2>3, <3>1, TwinIsOwn
    <3>. DEFINE own == Serialized(recorder, UncutRow(i), TRUE)
    <3>3. own.name = i
      BY UncutFields
    <3>. HIDE DEF own
    <3>4. {g.name : g \in {own}} = {i}
      BY <3>3
    <3>. QED
      BY <2>3, <3>2, <3>4 DEF own
  <2>. QED
    BY <2>1, <2>2, <2>4, <2>5, JudgedAgain
<1>. QED
  BY <1>1, SInvHolds, PTL
=============================================================================
