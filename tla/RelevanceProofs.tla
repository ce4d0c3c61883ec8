---------------------------- MODULE RelevanceProofs -------------------------
(***************************************************************************)
(* Proofs about the relevance side: Journal, which writes transitions down,  *)
(* and Relevance, which learns from them.                                    *)
(*                                                                          *)
(* Journal, for any number of transitions and starts, any size of buffer and *)
(* chunk and any signals.  A transition handed over is never out of sight    *)
(* because the buffer is swapped and the lock taken in one step, and because *)
(* the connection outlives the watcher; that the buffer is attended rests on *)
(* who cancels the timer being about to flush himself.                       *)
(*                                                                          *)
(* Relevance, for any cameras, signals, journal and kernel that reaches less *)
(* than half round the clock.  A clock table is four sums over the events a  *)
(* camera saw, whatever the order they are added in; the sums need finitely  *)
(* many events, which the derivation gives because runs begin at rows and    *)
(* rows are at distinct times.  A window agrees with the journal because two *)
(* folds of the same rows are alike once everything was off for a while,     *)
(* wherever each of them began.  What is marked is a tail because a window   *)
(* scores an event as learning did, and by what a quantile leaves above it.  *)
(***************************************************************************)
EXTENDS Journal, Relevance, FiniteSetTheorems, WellFoundedInduction, TLAPS

\* What is buffered or being written has happened.
Happened ==
    /\ \A r \in Range(pending) : r <= now
    /\ \A r \in Range(batch) : r <= now

\* Who holds the lock is where he writes from, and what he writes is the batch.
LockFits ==
    /\ holder = "none" => batch = <<>>
    /\ holder = "importer" => importer \in {"adding", "stamping", "flushing", "draining"}
    /\ holder = "importer" /\ importer \in {"adding", "stamping"} => batch = <<>>
    /\ holder = "closer" => up = "flushing" /\ pending = <<>>
    /\ holder # "none" => open

\* The connection is there from the start until the close, the buffer no longer than the
\* close's flush, and the watcher no longer than the stop.
LifeFits ==
    /\ open <=> up \in {"on", "flushing", "closing"}
    /\ watching => up = "on"
    /\ up \notin {"on", "flushing"} => pending = <<>>

\* A reader that holds the lock has had his flush: what is buffered since, somebody else
\* will attend to.
Attended ==
    pending # <<>> =>
        \/ timer \/ waiting > 0 \/ up = "flushing"
        \/ importer \in {"flushing", "draining"} /\ holder # "importer"

IInv ==
    /\ TypeOK /\ Happened /\ LockFits /\ LifeFits
    /\ NothingSlipsAway /\ Attended /\ RemovedStaysRemoved

-----------------------------------------------------------------------------
(* Sequences, and the table.                                                *)

LEMMA RangeOfNothing == Range(<<>>) = {}
<1>. QED
  BY DEF Range

LEMMA RangeOfAppended ==
    ASSUME NEW S, NEW s \in Seq(S), NEW r \in S
    PROVE  Range(Append(s, r)) = Range(s) \cup {r}
<1>1. /\ Append(s, r) \in Seq(S) /\ Len(Append(s, r)) = Len(s) + 1 /\ Len(s) \in Nat
      /\ Append(s, r)[Len(s) + 1] = r
      /\ \A i \in 1..Len(s) : Append(s, r)[i] = s[i]
  OBVIOUS
<1>2. DOMAIN Append(s, r) = 1..(Len(s) + 1) /\ DOMAIN s = 1..Len(s)
  BY <1>1
<1>. QED
  BY <1>1, <1>2 DEF Range

LEMMA RangeIsOfRows ==
    ASSUME TypeOK
    PROVE  Range(pending) \subseteq Rows /\ Range(batch) \subseteq Rows
<1>. QED
  BY DEF TypeOK, Range

\* What is inserted is held, with what was held before, in the contexts there are.
LEMMA InsertedIsHeld ==
    ASSUME TypeOK, NEW context \in Contexts \ {"absent"}, NEW new,
           table' = Inserted(context, new)
    PROVE  /\ table' \in [Rows -> Contexts]
           /\ Held' = Held \cup (new \cap Rows)
<1>. QED
  BY DEF TypeOK, Inserted, Held, Contexts

LEMMA LiveContextIsOne == LiveContext \in Contexts \ {"absent"}
<1>. QED
  BY DEF LiveContext, Contexts

-----------------------------------------------------------------------------
(* Types.                                                                    *)

LEMMA WrittenKeepsTypes ==
    ASSUME TypeOK, WriteEnds
    PROVE  /\ table' \in [Rows -> Contexts]
           /\ lost' \subseteq Rows
           /\ Held \cup lost \cup Range(batch) = Held' \cup lost'
<1>1. Range(batch) \subseteq Rows
  BY RangeIsOfRows
<1>2. CASE table' = Inserted(LiveContext, Range(batch)) /\ UNCHANGED lost
  BY <1>1, <1>2, InsertedIsHeld, LiveContextIsOne DEF TypeOK
<1>3. CASE lost' = lost \cup Range(batch) /\ UNCHANGED table
  BY <1>1, <1>3 DEF TypeOK, Held
<1>. QED
  BY <1>2, <1>3 DEF WriteEnds

LEMMA TakeKeepsTypes ==
    ASSUME TypeOK, NEW who \in {"flush", "closer", "importer"}, Take(who)
    PROVE  /\ pending' \in Seq(Rows) /\ batch' \in Seq(Rows)
           /\ holder' \in {"none", "flush", "closer", "importer"}
<1>. QED
  BY DEF TypeOK, Take

LEMMA NextChunkKeepsTypes ==
    ASSUME TypeOK, NextChunk
    PROVE  /\ cursor' \in 0..MaxRows
           /\ importer' \in {"marking", "reading"}
           /\ rows' \in [Rows -> Contexts]
<1>. QED
  BY JournalAssumption DEF TypeOK, NextChunk, NoRows, Contexts

LEMMA DroppedKeepsTypes ==
    ASSUME Dropped
    PROVE  /\ cursor' \in 0..MaxRows /\ upto' \in 0..MaxRows
           /\ importer' \in ImportSteps
           /\ rows' \in [Rows -> Contexts]
<1>. QED
  BY JournalAssumption DEF Dropped, NoRows, Contexts, ImportSteps

LEMMA TypesKept ==
    ASSUME TypeOK, [Next]_vars
    PROVE  TypeOK'
<1>. USE JournalAssumption DEF buffer, import, disk, life, ImportSteps
<1>1. CASE Transition
  <2>1. now' \in 0..MaxRows /\ now' \in Rows
    BY <1>1 DEF Transition, TypeOK, Rows
  <2>2. /\ pending' \in Seq(Rows) /\ recorded' \subseteq Rows
        /\ timer' \in BOOLEAN /\ waiting' \in Nat
    <3>1. CASE watching
      <4>1. Record(now')
        BY <1>1, <3>1 DEF Transition
      <4>2. pending' \in Seq(Rows)
        <5>1. pending \in Seq(Rows) /\ pending' = Append(pending, now')
          BY <4>1 DEF Record, TypeOK
        <5>. QED
          BY <2>1, <5>1
      <4>3. recorded' \subseteq Rows
        BY <2>1, <4>1 DEF Record, TypeOK
      <4>4. timer' \in BOOLEAN /\ waiting' \in Nat
        <5>1. \/ waiting' = waiting + 1 /\ timer' = FALSE
              \/ waiting' = waiting /\ timer' = TRUE
          BY <4>1 DEF Record
        <5>2. timer' \in BOOLEAN
          BY <5>1, Zenon
        <5>3. waiting' \in Nat
          BY <5>1 DEF TypeOK
        <5>. QED
          BY <5>2, <5>3
      <4>. QED
        BY <4>2, <4>3, <4>4
    <3>2. CASE ~watching
      BY <1>1, <3>2 DEF Transition, TypeOK
    <3>. QED
      BY <3>1, <3>2
  <2>3. retained' \subseteq Rows
    BY <1>1, <2>1 DEF Transition, TypeOK
  <2>4. UNCHANGED <<up, lives, signals, watching, open, holder, batch, table, backfilled, stamped,
                    importer, cursor, upto, rows, lost>>
    BY <1>1 DEF Transition
  <2>. QED
    BY <2>1, <2>2, <2>3, <2>4 DEF TypeOK
<1>2. CASE TimerFires
  <2>1. waiting' \in Nat
    BY <1>2 DEF TimerFires, TypeOK
  <2>2. timer' \in BOOLEAN
    BY <1>2 DEF TimerFires
  <2>. QED
    BY <1>2, <2>1, <2>2 DEF TimerFires, TypeOK
<1>3. CASE Flush
  <2>1. pending' \in Seq(Rows) /\ batch' \in Seq(Rows)
        /\ holder' \in {"none", "flush", "closer", "importer"}
    BY <1>3, TakeKeepsTypes DEF Flush
  <2>. QED
    BY <1>3, <2>1 DEF Flush, TypeOK
<1>4. CASE Flushed
  BY <1>4, WrittenKeepsTypes DEF Flushed, TypeOK
<1>5. CASE ImportBegins
  BY <1>5 DEF ImportBegins, TypeOK
<1>6. CASE ImportReads
  BY <1>6 DEF ImportReads, TypeOK, Contexts
<1>7. CASE ImportAdds
  BY <1>7, NextChunkKeepsTypes DEF ImportAdds, TypeOK
<1>8. CASE ImportAdded
  <2>1. table' \in [Rows -> Contexts]
    BY <1>8, InsertedIsHeld DEF ImportAdded, Contexts
  <2>. QED
    BY <1>8, <2>1, NextChunkKeepsTypes DEF ImportAdded, TypeOK
<1>9. CASE ImportFails
  BY <1>9, DroppedKeepsTypes DEF ImportFails, TypeOK
<1>10. CASE ImportMarks
  <2>1. (backfilled \/ open) \in BOOLEAN
    OBVIOUS
  <2>2. backfilled' \in BOOLEAN
    BY <1>10, <2>1, Zenon DEF ImportMarks
  <2>. QED
    BY <1>10, <2>2 DEF ImportMarks, TypeOK
<1>11. CASE StampBegins
  BY <1>11 DEF StampBegins, TypeOK
<1>12. CASE ReadFlushes
  <2>1. pending' \in Seq(Rows) /\ batch' \in Seq(Rows)
        /\ holder' \in {"none", "flush", "closer", "importer"}
    BY <1>12, TakeKeepsTypes DEF ReadFlushes
  <2>. QED
    BY <1>12, <2>1 DEF ReadFlushes, TypeOK
<1>13. CASE ReadFlushed
  BY <1>13, WrittenKeepsTypes DEF ReadFlushed, TypeOK
<1>14. CASE StampHolds
  BY <1>14 DEF StampHolds, TypeOK
<1>15. CASE StampAsks
  BY <1>15 DEF StampAsks, TypeOK, Contexts
<1>16. CASE StampWrites
  BY <1>16 DEF StampWrites, TypeOK
<1>17. CASE Stamped
  <2>1. table' \in [Rows -> Contexts]
    BY <1>17 DEF Stamped, TypeOK
  <2>. QED
    BY <1>17, <2>1 DEF Stamped, TypeOK
<1>18. CASE StampSeals
  <2>1. rows' \in [Rows -> Contexts]
    BY <1>18 DEF StampSeals, NoRows, Contexts
  <2>. QED
    BY <1>18, <2>1 DEF StampSeals, TypeOK
<1>19. CASE Learn
  BY <1>19 DEF Learn, TypeOK
<1>20. CASE Start
  BY <1>20 DEF Start, TypeOK
<1>21. CASE Stop
  BY <1>21 DEF Stop, TypeOK
<1>22. CASE CloseFlushes
  <2>1. pending' \in Seq(Rows) /\ batch' \in Seq(Rows)
        /\ holder' \in {"none", "flush", "closer", "importer"}
    BY <1>22, TakeKeepsTypes DEF CloseFlushes
  <2>. QED
    BY <1>22, <2>1 DEF CloseFlushes, TypeOK
<1>23. CASE CloseFlushed
  BY <1>23, WrittenKeepsTypes DEF CloseFlushed, TypeOK
<1>24. CASE Close
  BY <1>24 DEF Close, TypeOK
<1>25. CASE Unloaded
  <2>1. /\ table' \in [Rows -> Contexts] /\ backfilled' \in BOOLEAN
        /\ stamped' \in SignalSets \cup {NoMark}
        /\ up' \in {"down", "removed"}
    BY <1>25 DEF Unloaded, TypeOK, NoRows, Contexts
  <2>. QED
    BY <1>25, <2>1, DroppedKeepsTypes DEF Unloaded, TypeOK
<1>26. CASE Crash
  <2>1. table' \in [Rows -> Contexts]
    BY <1>26, InsertedIsHeld, LiveContextIsOne DEF Crash, TypeOK
  <2>2. lost' \subseteq Rows
    BY <1>26 DEF Crash, TypeOK
  <2>3. /\ up' = "down" /\ ~open' /\ ~watching' /\ ~timer'
        /\ pending' = <<>> /\ batch' = <<>> /\ waiting' = 0 /\ holder' = "none" /\ Dropped
        /\ UNCHANGED <<now, retained, lives, signals, recorded, backfilled, stamped>>
    BY <1>26 DEF Crash
  <2>4. pending' \in Seq(Rows) /\ batch' \in Seq(Rows)
    BY <2>3
  <2>5. open' \in BOOLEAN /\ watching' \in BOOLEAN /\ timer' \in BOOLEAN
    BY <1>26 DEF Crash
  <2>. QED
    BY <2>1, <2>2, <2>3, <2>4, <2>5, DroppedKeepsTypes DEF TypeOK
<1>27. CASE Purge
  BY <1>27 DEF Purge, TypeOK
<1>28. CASE UNCHANGED vars
  BY <1>28 DEF vars, TypeOK
<1>. QED
  BY <1>1, <1>2, <1>3, <1>4, <1>5, <1>6, <1>7, <1>8, <1>9, <1>10, <1>11, <1>12, <1>13, <1>14,
     <1>15, <1>16, <1>17, <1>18, <1>19, <1>20, <1>21, <1>22, <1>23, <1>24, <1>25, <1>26, <1>27,
     <1>28 DEF Next, Writes, Imports, Closes

-----------------------------------------------------------------------------
(* The lock, the connection and the buffer.                                 *)

LEMMA HappenedKept ==
    ASSUME TypeOK, Happened, [Next]_vars
    PROVE  Happened'
<1>. USE DEF buffer, import, disk, life
<1>1. CASE Transition
  <2>1. now' = now + 1 /\ now \in Nat /\ now' \in Rows /\ UNCHANGED batch
    BY <1>1, JournalAssumption DEF Transition, TypeOK, Rows
  <2>2. \A r \in Range(pending) \cup Range(batch) : r \in Nat
    BY RangeIsOfRows DEF Rows
  <2>3. Range(pending') = Range(pending) \/ Range(pending') = Range(pending) \cup {now'}
    <3>1. CASE watching
      <4>1. pending \in Seq(Rows) /\ pending' = Append(pending, now')
        BY <1>1, <3>1 DEF Transition, Record, TypeOK
      <4>. QED
        BY <2>1, <4>1, RangeOfAppended
    <3>2. CASE ~watching
      BY <1>1, <3>2 DEF Transition
    <3>. QED
      BY <3>1, <3>2
  <2>. QED
    BY <2>1, <2>2, <2>3 DEF Happened
<1>2. ASSUME NEW who, Take(who), UNCHANGED now PROVE Happened'
  BY <1>2, RangeOfNothing DEF Take, Happened
<1>3. CASE Flush \/ ReadFlushes \/ CloseFlushes
  BY <1>2, <1>3 DEF Flush, ReadFlushes, CloseFlushes
<1>4. CASE Flushed \/ ReadFlushed \/ CloseFlushed \/ Crash
  BY <1>4, RangeOfNothing DEF Flushed, ReadFlushed, CloseFlushed, Crash, Happened
<1>5. ASSUME UNCHANGED <<now, pending, batch>> PROVE Happened'
  BY <1>5 DEF Happened
<1>6. CASE TimerFires \/ Start \/ Stop \/ Close \/ Unloaded \/ Purge \/ UNCHANGED vars
  BY <1>5, <1>6 DEF TimerFires, Start, Stop, Close, Unloaded, Purge, vars
<1>7. CASE ImportBegins \/ ImportReads \/ ImportAdds \/ ImportAdded \/ ImportFails \/ ImportMarks
  BY <1>5, <1>7 DEF ImportBegins, ImportReads, ImportAdds, ImportAdded, ImportFails, ImportMarks
<1>8. CASE StampBegins \/ StampHolds \/ StampAsks \/ StampWrites \/ Stamped \/ StampSeals \/ Learn
  BY <1>5, <1>8 DEF StampBegins, StampHolds, StampAsks, StampWrites, Stamped, StampSeals, Learn
<1>. QED
  BY <1>1, <1>3, <1>4, <1>6, <1>7, <1>8 DEF Next, Writes, Imports, Closes

Fits == LockFits /\ LifeFits /\ Attended

LEMMA FitsKept ==
    ASSUME TypeOK, Fits, [Next]_vars
    PROVE  Fits'
<1>. USE DEF buffer, import, disk, life, Fits, LockFits, LifeFits, Attended
<1>1. CASE Transition
  <2>1. watching => waiting' > 0 \/ timer'
    BY <1>1 DEF Transition, Record, TypeOK
  <2>2. ~watching => UNCHANGED <<pending, timer, waiting>>
    BY <1>1 DEF Transition
  <2>. QED
    BY <1>1, <2>1, <2>2 DEF Transition
<1>2. CASE TimerFires
  BY <1>2 DEF TimerFires, TypeOK
<1>3. CASE Flush
  BY <1>3 DEF Flush, Take
<1>4. CASE Flushed
  BY <1>4 DEF Flushed
<1>5. CASE ImportBegins \/ ImportReads \/ ImportMarks
  BY <1>5 DEF ImportBegins, ImportReads, ImportMarks
<1>6. CASE ImportAdds
  BY <1>6 DEF ImportAdds, NextChunk
<1>7. CASE ImportAdded \/ ImportFails
  BY <1>7 DEF ImportAdded, ImportFails, NextChunk, Dropped
<1>8. CASE StampBegins
  BY <1>8 DEF StampBegins
<1>9. CASE ReadFlushes
  BY <1>9 DEF ReadFlushes, Take
<1>10. CASE ReadFlushed
  BY <1>10 DEF ReadFlushed
<1>11. CASE StampHolds \/ StampAsks
  BY <1>11 DEF StampHolds, StampAsks
<1>12. CASE StampWrites \/ Stamped
  BY <1>12 DEF StampWrites, Stamped
<1>13. CASE StampSeals \/ Learn
  BY <1>13 DEF StampSeals, Learn
<1>14. CASE Start
  BY <1>14 DEF Start
<1>15. CASE Stop
  BY <1>15 DEF Stop
<1>16. CASE CloseFlushes
  BY <1>16 DEF CloseFlushes, Take
<1>17. CASE CloseFlushed
  BY <1>17 DEF CloseFlushed
<1>18. CASE Close
  BY <1>18 DEF Close
<1>19. CASE Unloaded
  BY <1>19 DEF Unloaded, Dropped
<1>20. CASE Crash
  BY <1>20 DEF Crash, Dropped
<1>21. CASE Purge \/ UNCHANGED vars
  BY <1>21 DEF Purge, vars
<1>. QED
  BY <1>1, <1>2, <1>3, <1>4, <1>5, <1>6, <1>7, <1>8, <1>9, <1>10, <1>11, <1>12, <1>13, <1>14,
     <1>15, <1>16, <1>17, <1>18, <1>19, <1>20, <1>21 DEF Next, Writes, Imports, Closes

-----------------------------------------------------------------------------
(* What becomes of the rows.                                                *)

\* An integration that was removed does nothing more.
LEMMA RemovedKept ==
    ASSUME TypeOK, Fits, RemovedStaysRemoved, [Next]_vars
    PROVE  RemovedStaysRemoved'
<1>. USE DEF buffer, import, disk, life, Fits, LockFits, LifeFits
<1>1. CASE Unloaded
  <2>1. up' = "removed" => Held' = {}
    BY <1>1 DEF Unloaded, Held, NoRows
  <2>. QED
    BY <1>1, <2>1 DEF Unloaded, Dropped, RemovedStaysRemoved
<1>2. CASE up = "removed" /\ ~Unloaded
  <2>1. Held = {} /\ ~open /\ holder = "none" /\ importer = "idle" /\ pending = <<>> /\ ~watching
    BY <1>2 DEF RemovedStaysRemoved
  <2>2. UNCHANGED <<table, open, holder, importer, pending>>
    <3>1. CASE Transition \/ TimerFires \/ Purge \/ UNCHANGED vars
      BY <2>1, <3>1 DEF Transition, TimerFires, Purge, vars
    <3>2. CASE Writes
      BY <2>1, <3>2 DEF Writes, Flush, Flushed, Take
    <3>3. ~Imports
      BY <2>1 DEF Imports, ImportBegins, ImportReads, ImportAdds, ImportAdded, ImportFails,
         ImportMarks, StampBegins, ReadFlushes, ReadFlushed, StampHolds, StampAsks, StampWrites,
         Stamped, StampSeals, Learn
    <3>4. ~Start /\ ~Stop /\ ~CloseFlushes /\ ~CloseFlushed /\ ~Close /\ ~Crash
      BY <1>2 DEF Start, Stop, CloseFlushes, CloseFlushed, Close, Crash
    <3>. QED
      BY <1>2, <3>1, <3>2, <3>3, <3>4 DEF Next, Closes
  <2>3. Held' = Held
    BY <2>2 DEF Held
  <2>. QED
    BY <2>1, <2>2, <2>3 DEF RemovedStaysRemoved
<1>3. CASE up # "removed" /\ ~Unloaded
  <2>1. up' # "removed"
    <3>1. CASE Transition \/ TimerFires \/ Purge \/ Start \/ Stop \/ Crash \/ UNCHANGED vars
      BY <1>3, <3>1 DEF Transition, TimerFires, Purge, Start, Stop, Crash, vars
    <3>2. CASE Writes \/ CloseFlushes \/ CloseFlushed \/ Close
      BY <1>3, <3>2 DEF Writes, Flush, Flushed, CloseFlushes, CloseFlushed, Close
    <3>3. CASE Imports
      BY <1>3, <3>3 DEF Imports, ImportBegins, ImportReads, ImportAdds, ImportAdded, ImportFails,
         ImportMarks, StampBegins, ReadFlushes, ReadFlushed, StampHolds, StampAsks, StampWrites,
         Stamped, StampSeals, Learn
    <3>. QED
      BY <1>3, <3>1, <3>2, <3>3 DEF Next, Closes
  <2>. QED
    BY <2>1 DEF RemovedStaysRemoved
<1>. QED
  BY <1>1, <1>2, <1>3

\* The buffer is swapped: what it held is the batch.
LEMMA TakeLosesNothing ==
    ASSUME TypeOK, Fits, RemovedStaysRemoved, NothingSlipsAway, NEW who, holder = "none", Take(who),
           UNCHANGED <<table, recorded, lost>>, up' = up \/ up # "removed"
    PROVE  NothingSlipsAway'
<1>1. batch = <<>> /\ (pending # <<>> => open)
  BY DEF Fits, LockFits, LifeFits, TypeOK
<1>2. pending' = <<>> /\ batch' = pending
  BY <1>1 DEF Take
<1>3. Held' = Held
  BY DEF Held
<1>. QED
  BY <1>1, <1>2, <1>3, RangeOfNothing DEF NothingSlipsAway

\* The write has ended: what was in the batch is in the table, or lost.
LEMMA WriteLosesNothing ==
    ASSUME TypeOK, NothingSlipsAway, WriteEnds, batch' = <<>>,
           UNCHANGED <<pending, recorded>>, up' = up \/ up # "removed"
    PROVE  NothingSlipsAway'
<1>1. Held \cup lost \cup Range(batch) = Held' \cup lost'
  BY WrittenKeepsTypes
<1>. QED
  BY <1>1, RangeOfNothing DEF NothingSlipsAway

LEMMA NothingSlips ==
    ASSUME IInv, [Next]_vars
    PROVE  NothingSlipsAway'
<1>. USE DEF buffer, import, disk, life
<1>0. TypeOK /\ Fits /\ RemovedStaysRemoved /\ NothingSlipsAway
  BY DEF IInv, Fits
<1>1. CASE Transition
  <2>1. UNCHANGED <<batch, table, lost, up>> /\ now' = now + 1 /\ now \in Nat /\ now' \in Rows
    BY <1>0, <1>1, JournalAssumption DEF Transition, TypeOK, Rows
  <2>2. now' \notin Range(batch)
    <3>1. \A r \in Range(batch) : r <= now /\ r \in Nat
      BY <1>0, RangeIsOfRows DEF IInv, Happened, Rows
    <3>. QED
      BY <2>1, <3>1
  <2>3. Held' = Held
    BY <2>1 DEF Held
  <2>4. CASE watching
    <3>1. pending \in Seq(Rows) /\ pending' = Append(pending, now') /\ recorded' = recorded \cup {now'}
      BY <1>0, <1>1, <2>4 DEF Transition, Record, TypeOK
    <3>2. Range(pending') = Range(pending) \cup {now'}
      BY <2>1, <3>1, RangeOfAppended
    <3>. QED
      BY <1>0, <2>1, <2>2, <2>3, <3>1, <3>2 DEF NothingSlipsAway
  <2>5. CASE ~watching
    BY <1>0, <1>1, <2>1, <2>3, <2>5 DEF Transition, NothingSlipsAway
  <2>. QED
    BY <2>4, <2>5
<1>2. CASE Flush \/ ReadFlushes
  BY <1>0, <1>2, TakeLosesNothing DEF Flush, ReadFlushes
<1>3. CASE CloseFlushes
  BY <1>0, <1>3, TakeLosesNothing DEF CloseFlushes
<1>4. CASE Flushed \/ ReadFlushed \/ CloseFlushed
  BY <1>0, <1>4, WriteLosesNothing DEF Flushed, ReadFlushed, CloseFlushed
<1>5. CASE ImportAdded \/ Stamped
  <2>1. Held \subseteq Held'
    <3>1. CASE ImportAdded
      BY <1>0, <3>1, InsertedIsHeld DEF ImportAdded, Contexts
    <3>2. CASE Stamped
      BY <3>2 DEF Stamped, Held
    <3>. QED
      BY <1>5, <3>1, <3>2
  <2>2. UNCHANGED <<pending, batch, recorded, lost, up>>
    BY <1>5 DEF ImportAdded, Stamped
  <2>. QED
    BY <1>0, <2>1, <2>2 DEF NothingSlipsAway
<1>6. ASSUME UNCHANGED <<pending, batch, table, recorded, lost>>, up' = up \/ up # "removed"
      PROVE  NothingSlipsAway'
  BY <1>0, <1>6 DEF NothingSlipsAway, Held
<1>7. CASE TimerFires \/ Start \/ Stop \/ Close \/ Purge \/ UNCHANGED vars
  BY <1>6, <1>7 DEF TimerFires, Start, Stop, Close, Purge, vars
<1>8. CASE ImportBegins \/ ImportReads \/ ImportAdds \/ ImportFails \/ ImportMarks
  BY <1>6, <1>8 DEF ImportBegins, ImportReads, ImportAdds, ImportFails, ImportMarks
<1>9. CASE StampBegins \/ StampHolds \/ StampAsks \/ StampWrites \/ StampSeals \/ Learn
  BY <1>6, <1>9 DEF StampBegins, StampHolds, StampAsks, StampWrites, StampSeals, Learn
<1>10. CASE Unloaded
  <2>1. CASE up' = "down" /\ UNCHANGED disk
    BY <1>6, <1>10, <2>1 DEF Unloaded
  <2>2. CASE up' = "removed"
    BY <1>0, <1>10, <2>2 DEF Unloaded, NothingSlipsAway, TypeOK
  <2>. QED
    BY <1>10, <2>1, <2>2 DEF Unloaded
<1>11. CASE Crash
  <2>1. lost' = lost \cup {r \in recorded : table'[r] = "absent"} /\ recorded' = recorded
        /\ pending' = <<>> /\ recorded \subseteq Rows
    BY <1>0, <1>11 DEF Crash, TypeOK
  <2>2. recorded \subseteq Held' \cup lost'
    BY <2>1 DEF Held
  <2>. QED
    BY <2>1, <2>2, RangeOfNothing DEF NothingSlipsAway
<1>. QED
  BY <1>1, <1>2, <1>3, <1>4, <1>5, <1>7, <1>8, <1>9, <1>10, <1>11
     DEF Next, Writes, Imports, Closes

-----------------------------------------------------------------------------

LEMMA InitIInv == Init => IInv
<1>. SUFFICES ASSUME Init PROVE IInv
  OBVIOUS
<1>1. TypeOK
  <2>1. NoRows \in [Rows -> Contexts]
    BY DEF NoRows, Contexts
  <2>2. watching \in BOOLEAN /\ open \in BOOLEAN /\ timer \in BOOLEAN /\ backfilled \in BOOLEAN
    BY DEF Init
  <2>3. /\ pending \in Seq(Rows) /\ batch \in Seq(Rows)
        /\ now \in 0..MaxRows /\ upto \in 0..MaxRows /\ cursor \in 0..MaxRows /\ lives \in 0..MaxLives
    BY JournalAssumption DEF Init
  <2>4. retained \subseteq Rows /\ recorded \subseteq Rows /\ lost \subseteq Rows
    BY DEF Init
  <2>. QED
    BY <2>1, <2>2, <2>3, <2>4, JournalAssumption DEF Init, TypeOK, ImportSteps
<1>2. Range(pending) = {} /\ Range(batch) = {}
  BY RangeOfNothing DEF Init
<1>3. Happened /\ NothingSlipsAway
  BY <1>2 DEF Init, Happened, NothingSlipsAway
<1>4. LockFits /\ LifeFits /\ Attended /\ RemovedStaysRemoved
  BY DEF Init, LockFits, LifeFits, Attended, RemovedStaysRemoved
<1>. QED
  BY <1>1, <1>3, <1>4 DEF IInv

LEMMA NextIInv == IInv /\ [Next]_vars => IInv'
<1>. SUFFICES ASSUME IInv, [Next]_vars PROVE IInv'
  OBVIOUS
<1>1. TypeOK' /\ Happened' /\ Fits'
  BY TypesKept, HappenedKept, FitsKept DEF IInv, Fits
<1>2. RemovedStaysRemoved' /\ NothingSlipsAway'
  BY RemovedKept, NothingSlips DEF IInv, Fits
<1>. QED
  BY <1>1, <1>2 DEF IInv, Fits

LEMMA AlwaysIInv == Spec => []IInv
<1>. QED
  BY InitIInv, NextIInv, PTL DEF Spec

\* The state has its type, for any number of transitions and starts.
THEOREM JournalTypeOK == Spec => []TypeOK
<1>1. IInv => TypeOK
  BY DEF IInv
<1>. QED
  BY <1>1, AlwaysIInv, PTL

\* A transition that was handed over is in the buffer, in the write under way, in the
\* database, or known to be lost, whatever flushes, imports, stamps, stops and crashes
\* interleave (relevance/journal.py 222-261).
THEOREM NothingEverSlipsAway == Spec => []NothingSlipsAway
<1>1. IInv => NothingSlipsAway
  BY DEF IInv
<1>. QED
  BY <1>1, AlwaysIInv, PTL

\* Whatever is buffered will be flushed by somebody, though each flush that is asked for
\* cancels the timer (relevance/journal.py 222-252).
THEOREM BufferIsAlwaysAttended == Spec => []BufferIsAttended
<1>1. IInv => BufferIsAttended
  BY DEF IInv, Attended, BufferIsAttended
<1>. QED
  BY <1>1, AlwaysIInv, PTL

\* Nothing is written after the integration was removed (relevance/journal.py 205-217).
THEOREM RemovedAlwaysStaysRemoved == Spec => []RemovedStaysRemoved
<1>1. IInv => RemovedStaysRemoved
  BY DEF IInv
<1>. QED
  BY <1>1, AlwaysIInv, PTL
-----------------------------------------------------------------------------
(* Recursion over the subsets of a finite set, which folds are.             *)

\* Induction over the subsets of a finite set, smaller ones first.
LEMMA SubsetInduction ==
  ASSUME NEW S, IsFiniteSet(S), NEW Good \in SUBSET (SUBSET S),
         ASSUME NEW T \in SUBSET S, \A U \in SUBSET T : U # T => U \in Good
         PROVE  T \in Good
  PROVE \A T \in SUBSET S : T \in Good
<1>. DEFINE Bad == (SUBSET S) \ Good
<1>1. SUFFICES ASSUME Bad # {} PROVE FALSE
  OBVIOUS
<1>2. IsWellFoundedOn(StrictSubsetOrdering(S), SUBSET S)
  BY FS_StrictSubsetOrderingWellFounded, FS_FiniteSubsetsOfFinite
<1>3. PICK T \in Bad : \A U \in Bad : <<U, T>> \notin StrictSubsetOrdering(S)
  <2>1. Bad \subseteq SUBSET S
    OBVIOUS
  <2>. HIDE DEF Bad
  <2>. QED
    BY <1>1, <1>2, <2>1, WFMin
<1>4. \A U \in SUBSET T : U # T => U \in Good
  BY <1>3 DEF StrictSubsetOrdering
<1>. QED
  BY <1>3, <1>4

\* r folds what `take` takes first of every subset of T, the last to be folded in.
Folds(r, T, take, base, step) ==
    r = [S \in SUBSET T |-> IF S = {} THEN base ELSE step[<<r[S \ {take[S]}], take[S]>>]]

\* What is folded over a subset is the same in whatever set that is taken.
LEMMA FoldsAgree ==
    ASSUME NEW T, IsFiniteSet(T), NEW take, NEW base, NEW step,
           \A S \in SUBSET T : S # {} => take[S] \in S,
           NEW r, Folds(r, T, take, base, step),
           NEW U \in SUBSET T, NEW q, Folds(q, U, take, base, step)
    PROVE  \A S \in SUBSET U : r[S] = q[S]
<1>. DEFINE Good == {S \in SUBSET U : r[S] = q[S]}
<1>1. IsFiniteSet(U) /\ Good \in SUBSET (SUBSET U)
  BY FS_Subset
<1>2. ASSUME NEW S \in SUBSET U, \A V \in SUBSET S : V # S => V \in Good
      PROVE  S \in Good
  <2>1. CASE S = {}
    BY <2>1 DEF Folds
  <2>2. CASE S # {}
    <3>1. S \ {take[S]} \in Good
      BY <1>2, <2>2
    <3>2. /\ r[S] = step[<<r[S \ {take[S]}], take[S]>>]
          /\ q[S] = step[<<q[S \ {take[S]}], take[S]>>]
      BY <2>2 DEF Folds
    <3>. QED
      BY <3>1, <3>2
  <2>. QED
    BY <2>1, <2>2
<1>3. \A S \in SUBSET U : S \in Good
  <2>. HIDE DEF Good
  <2>. QED
    BY <1>1, <1>2, SubsetInduction
<1>. QED
  BY <1>3

\* The recursion ends, for every finite set.
LEMMA FoldsExist ==
    ASSUME NEW T, IsFiniteSet(T), NEW take, NEW base, NEW step,
           \A S \in SUBSET T : S # {} => take[S] \in S
    PROVE  \E r : Folds(r, T, take, base, step)
<1>. DEFINE Good == {S \in SUBSET T : \E r : Folds(r, S, take, base, step)}
<1>1. ASSUME NEW S \in SUBSET T, \A V \in SUBSET S : V # S => V \in Good
      PROVE  S \in Good
  <2>. DEFINE below(V) == CHOOSE r : Folds(r, V, take, base, step)
              rest(V) == V \ {take[V]}
              value(V) == IF V = {} THEN base ELSE step[<<below(rest(V))[rest(V)], take[V]>>]
              r == [V \in SUBSET S |-> value(V)]
  <2>1. \A V \in SUBSET S : V # S => Folds(below(V), V, take, base, step)
    BY <1>1
  <2>2. \A V \in SUBSET S : V # {} => take[V] \in V /\ rest(V) \in SUBSET S /\ rest(V) # S
    OBVIOUS
  <2>3. ASSUME NEW V \in SUBSET S, V # S PROVE r[V] = below(V)[V]
    <3>1. CASE V = {}
      <4>1. Folds(below(V), V, take, base, step)
        BY <2>1, <2>3
      <4>2. below(V)[V] = base
        <5>. HIDE DEF below
        <5>. QED
          BY <3>1, <4>1 DEF Folds
      <4>3. r[V] = base
        BY <3>1
      <4>. QED
        BY <4>2, <4>3
    <3>2. CASE V # {}
      <4>1. rest(V) \in SUBSET V /\ rest(V) \in SUBSET S /\ rest(V) # S /\ IsFiniteSet(V)
        BY <2>2, <3>2, FS_Subset
      <4>2. /\ Folds(below(V), V, take, base, step)
            /\ Folds(below(rest(V)), rest(V), take, base, step)
        BY <2>1, <2>3, <4>1
      <4>. DEFINE W == rest(V)
                  b == below(V)
                  c == below(W)
      <4>3. b[W] = c[W]
        <5>1. \A X \in SUBSET V : X # {} => take[X] \in X
          OBVIOUS
        <5>2. W \in SUBSET V /\ Folds(b, V, take, base, step) /\ Folds(c, W, take, base, step)
          BY <4>1, <4>2
        <5>3. IsFiniteSet(V)
          BY <4>1
        <5>. HIDE DEF b, c, W
        <5>4. \A X \in SUBSET W : b[X] = c[X]
          BY <5>1, <5>2, <5>3, FoldsAgree
        <5>. QED
          BY <5>4
      <4>4. b[V] = step[<<b[W], take[V]>>]
        <5>. HIDE DEF b
        <5>. QED
          BY <3>2, <4>2 DEF Folds, b
      <4>5. r[V] = step[<<c[W], take[V]>>]
        BY <3>2
      <4>. QED
        BY <4>3, <4>4, <4>5
    <3>. QED
      BY <3>1, <3>2
  <2>4. \A V \in SUBSET S : r[V] = IF V = {} THEN base ELSE step[<<r[rest(V)], take[V]>>]
    <3>1. \A V \in SUBSET S : V # {} => r[rest(V)] = below(rest(V))[rest(V)]
      <4>. HIDE DEF below, r, rest
      <4>. QED
        BY <2>2, <2>3
    <3>. HIDE DEF below, rest
    <3>. QED
      BY <3>1
  <2>5. Folds(r, S, take, base, step)
    <3>1. r = [V \in SUBSET S |-> r[V]]
      OBVIOUS
    <3>. HIDE DEF r
    <3>. QED
      BY <2>4, <3>1 DEF Folds
  <2>. QED
    BY <2>5
<1>2. \A S \in SUBSET T : S \in Good
  <2>1. Good \in SUBSET (SUBSET T)
    OBVIOUS
  <2>. HIDE DEF Good
  <2>. QED
    BY <1>1, <2>1, SubsetInduction
<1>. QED
  BY <1>2

-----------------------------------------------------------------------------
(* Sums over finite sets.                                                   *)

First(S) == CHOOSE x \in S : TRUE

\* g sums f over every subset of T.
Sums(g, f, T) ==
    g = [S \in SUBSET T |-> IF S = {} THEN 0 ELSE f[First(S)] + g[S \ {First(S)}]]

LEMMA SumsAgree ==
    ASSUME NEW T, IsFiniteSet(T), NEW f, NEW g, Sums(g, f, T),
           NEW U \in SUBSET T, NEW h, Sums(h, f, U)
    PROVE  \A S \in SUBSET U : g[S] = h[S]
<1>. DEFINE Good == {S \in SUBSET U : g[S] = h[S]}
<1>1. IsFiniteSet(U) /\ Good \in SUBSET (SUBSET U)
  BY FS_Subset
<1>2. ASSUME NEW S \in SUBSET U, \A V \in SUBSET S : V # S => V \in Good
      PROVE  S \in Good
  <2>1. CASE S = {}
    BY <2>1 DEF Sums
  <2>2. CASE S # {}
    <3>1. First(S) \in S
      BY <2>2 DEF First
    <3>2. S \ {First(S)} \in Good
      BY <1>2, <3>1
    <3>3. g[S] = f[First(S)] + g[S \ {First(S)}] /\ h[S] = f[First(S)] + h[S \ {First(S)}]
      BY <2>2 DEF Sums
    <3>. QED
      BY <3>2, <3>3
  <2>. QED
    BY <2>1, <2>2
<1>3. \A S \in SUBSET U : S \in Good
  <2>. HIDE DEF Good
  <2>. QED
    BY <1>1, <1>2, SubsetInduction
<1>. QED
  BY <1>3

\* The recursion the fold is, which ends and yields a number for every subset.
LEMMA SumIs ==
    ASSUME NEW T, IsFiniteSet(T), NEW f \in [T -> Nat]
    PROVE  \E g : /\ Sums(g, f, T) /\ SumFunctionOnSet(f, T) = g[T]
                  /\ \A S \in SUBSET T : g[S] \in Nat
<1>. DEFINE take == [S \in SUBSET T |-> First(S)]
            step == [p \in Nat \X T |-> f[p[2]] + p[1]]
<1>1. \A S \in SUBSET T : S # {} => take[S] \in S
  BY DEF First
<1>2. PICK r : Folds(r, T, take, 0, step)
  <2>. HIDE DEF take, step
  <2>. QED
    BY <1>1, FoldsExist
<1>. DEFINE Good == {S \in SUBSET T : r[S] \in Nat}
<1>3. ASSUME NEW S \in SUBSET T, S # {}
      PROVE  r[S] = step[<<r[S \ {First(S)}], First(S)>>]
  <2>1. take[S] = First(S)
    OBVIOUS
  <2>. HIDE DEF take, step
  <2>. QED
    BY <1>2, <1>3, <2>1 DEF Folds
<1>4. r[{}] = 0
  BY <1>2 DEF Folds
<1>5. ASSUME NEW S \in SUBSET T, S # {}, r[S \ {First(S)}] \in Nat
      PROVE  r[S] = f[First(S)] + r[S \ {First(S)}] /\ r[S] \in Nat
  <2>. DEFINE p == <<r[S \ {First(S)}], First(S)>>
  <2>1. First(S) \in T
    BY <1>5 DEF First
  <2>2. p \in Nat \X T /\ p[1] = r[S \ {First(S)}] /\ p[2] = First(S)
    BY <1>5, <2>1
  <2>3. step[p] = f[p[2]] + p[1] /\ f[p[2]] \in Nat
    <3>. HIDE DEF p
    <3>. QED
      BY <2>2
  <2>4. r[S] = step[p]
    BY <1>3, <1>5
  <2>. HIDE DEF p, step
  <2>. QED
    BY <1>5, <2>2, <2>3, <2>4
<1>6. ASSUME NEW S \in SUBSET T, \A V \in SUBSET S : V # S => V \in Good
      PROVE  S \in Good
  <2>1. CASE S = {}
    BY <1>4, <2>1
  <2>2. CASE S # {}
    <3>1. First(S) \in S
      BY <2>2 DEF First
    <3>2. S \ {First(S)} \in Good
      BY <1>6, <3>1
    <3>. QED
      BY <1>5, <2>2, <3>2
  <2>. QED
    BY <2>1, <2>2
<1>7. \A S \in SUBSET T : r[S] \in Nat
  <2>1. Good \in SUBSET (SUBSET T)
    OBVIOUS
  <2>2. \A S \in SUBSET T : S \in Good
    <3>. HIDE DEF Good
    <3>. QED
      BY <1>6, <2>1, SubsetInduction
  <2>. QED
    BY <2>2
<1>8. Sums(r, f, T)
  <2>1. r = [S \in SUBSET T |-> r[S]]
    BY <1>2 DEF Folds
  <2>2. \A S \in SUBSET T : S # {} => S \ {First(S)} \in SUBSET T
    OBVIOUS
  <2>3. \A S \in SUBSET T : r[S] = IF S = {} THEN 0 ELSE f[First(S)] + r[S \ {First(S)}]
    BY <1>4, <1>5, <1>7, <2>2
  <2>. QED
    BY <2>1, <2>3 DEF Sums
<1>. DEFINE g == CHOOSE h : Sums(h, f, T)
<1>9. Sums(g, f, T)
  BY <1>8
<1>10. SumFunctionOnSet(f, T) = g[T]
  BY DEF SumFunctionOnSet, FoldFunctionOnSet, MapThenFoldSet, First, Sums
<1>11. \A S \in SUBSET T : g[S] \in Nat
  <2>1. \A S \in SUBSET T : r[S] = g[S]
    <3>. HIDE DEF g
    <3>. QED
      BY <1>8, <1>9, SumsAgree
  <2>. HIDE DEF g
  <2>. QED
    BY <1>7, <2>1
<1>. QED
  BY <1>9, <1>10, <1>11

LEMMA SumEmpty == \A f : SumFunctionOnSet(f, {}) = 0
<1>. TAKE f
<1>1. SumFunctionOnSet(f, {}) = (CHOOSE h : Sums(h, f, {}))[{}]
  BY DEF SumFunctionOnSet, FoldFunctionOnSet, MapThenFoldSet, First, Sums
<1>. DEFINE g == [S \in SUBSET {} |-> 0]
<1>2. Sums(g, f, {})
  <2>1. \A S \in SUBSET {} : S = {}
    OBVIOUS
  <2>. QED
    BY <2>1 DEF Sums
<1>3. Sums(CHOOSE h : Sums(h, f, {}), f, {})
  BY <1>2
<1>. QED
  BY <1>1, <1>3 DEF Sums

LEMMA SumRestricted ==
    ASSUME NEW T, IsFiniteSet(T), NEW D, NEW f \in [D -> Nat], T \subseteq D
    PROVE  \E g : /\ Sums(g, f, T) /\ SumFunctionOnSet(f, T) = g[T]
                  /\ \A S \in SUBSET T : g[S] \in Nat
<1>. DEFINE e == [x \in T |-> f[x]]
<1>1. e \in [T -> Nat]
  OBVIOUS
<1>2. PICK g : Sums(g, e, T) /\ SumFunctionOnSet(e, T) = g[T] /\ \A S \in SUBSET T : g[S] \in Nat
  BY <1>1, SumIs
<1>3. \A S \in SUBSET T : S # {} => e[First(S)] = f[First(S)]
  BY DEF First
<1>4. Sums(g, f, T)
  <2>. HIDE DEF e
  <2>. QED
    BY <1>2, <1>3 DEF Sums
<1>5. SumFunctionOnSet(f, T) = (CHOOSE h : Sums(h, f, T))[T]
  BY DEF SumFunctionOnSet, FoldFunctionOnSet, MapThenFoldSet, First, Sums
<1>6. (CHOOSE h : Sums(h, f, T))[T] = g[T]
  <2>. DEFINE h == CHOOSE q : Sums(q, f, T)
  <2>1. Sums(h, f, T)
    BY <1>4
  <2>2. \A S \in SUBSET T : h[S] = g[S]
    <3>. HIDE DEF h
    <3>. QED
      BY <1>4, <2>1, SumsAgree
  <2>. QED
    BY <2>2
<1>. QED
  BY <1>2, <1>4, <1>5, <1>6

LEMMA SumType ==
    ASSUME NEW T, IsFiniteSet(T), NEW D, NEW f \in [D -> Nat], T \subseteq D
    PROVE  SumFunctionOnSet(f, T) \in Nat
<1>1. PICK g : SumFunctionOnSet(f, T) = g[T] /\ \A S \in SUBSET T : g[S] \in Nat
  BY SumRestricted
<1>. QED
  BY <1>1

LEMMA SumFirst ==
    ASSUME NEW T, IsFiniteSet(T), T # {}, NEW D, NEW f \in [D -> Nat], T \subseteq D
    PROVE  SumFunctionOnSet(f, T) = f[First(T)] + SumFunctionOnSet(f, T \ {First(T)})
<1>. DEFINE U == T \ {First(T)}
<1>1. U \in SUBSET T /\ IsFiniteSet(U) /\ U \subseteq D
  BY FS_Subset
<1>2. PICK g : Sums(g, f, T) /\ SumFunctionOnSet(f, T) = g[T]
  BY SumRestricted
<1>3. PICK h : Sums(h, f, U) /\ SumFunctionOnSet(f, U) = h[U]
  <2>. HIDE DEF U
  <2>. QED
    BY <1>1, SumRestricted
<1>4. g[U] = h[U]
  BY <1>1, <1>2, <1>3, SumsAgree
<1>5. g[T] = f[First(T)] + g[U]
  BY <1>2 DEF Sums
<1>. QED
  BY <1>2, <1>3, <1>4, <1>5

\* Whichever element is taken first, the sum is the same.
LEMMA SumRemove ==
    ASSUME NEW S, IsFiniteSet(S), NEW D, NEW f \in [D -> Nat], S \subseteq D
    PROVE  \A T \in SUBSET S : \A x \in T :
               SumFunctionOnSet(f, T) = f[x] + SumFunctionOnSet(f, T \ {x})
<1>. DEFINE sum(T) == SumFunctionOnSet(f, T)
            Good == {T \in SUBSET S : \A x \in T : sum(T) = f[x] + sum(T \ {x})}
<1>1. ASSUME NEW T \in SUBSET S, \A U \in SUBSET T : U # T => U \in Good
      PROVE  T \in Good
  <2>1. SUFFICES ASSUME NEW x \in T PROVE sum(T) = f[x] + sum(T \ {x})
    OBVIOUS
  <2>. DEFINE y == First(T)
  <2>2. y \in T /\ IsFiniteSet(T)
    BY FS_Subset DEF First
  <2>3. sum(T) = f[y] + sum(T \ {y})
    BY <2>2, SumFirst
  <2>4. CASE x = y
    BY <2>3, <2>4
  <2>5. CASE x # y
    <3>1. T \ {y} \in Good /\ x \in T \ {y} /\ T \ {x} \in Good /\ y \in T \ {x}
      BY <1>1, <2>2, <2>5
    <3>2. (T \ {y}) \ {x} = (T \ {x}) \ {y}
      OBVIOUS
    <3>. DEFINE rest == sum((T \ {x}) \ {y})
    <3>3. sum(T \ {y}) = f[x] + rest
      BY <3>1, <3>2
    <3>4. sum(T \ {x}) = f[y] + rest
      BY <3>1
    <3>5. rest \in Nat /\ f[x] \in Nat /\ f[y] \in Nat
      <4>1. IsFiniteSet((T \ {x}) \ {y})
        BY FS_Subset
      <4>. QED
        BY <2>2, <4>1, SumType
    <3>. HIDE DEF rest, sum, y
    <3>. QED
      BY <2>3, <3>3, <3>4, <3>5
  <2>. QED
    BY <2>4, <2>5
<1>2. Good \in SUBSET (SUBSET S)
  OBVIOUS
<1>3. \A T \in SUBSET S : T \in Good
  <2>. HIDE DEF Good
  <2>. QED
    BY <1>1, <1>2, SubsetInduction
<1>. QED
  BY <1>3

\* One more adds its own ...
LEMMA SumAdd ==
    ASSUME NEW D, NEW f \in [D -> Nat], NEW T \in SUBSET D, IsFiniteSet(T), NEW x \in D \ T
    PROVE  /\ SumFunctionOnSet(f, T \cup {x}) = SumFunctionOnSet(f, T) + f[x]
           /\ SumFunctionOnSet(f, T) \in Nat
<1>1. IsFiniteSet(T \cup {x}) /\ T \cup {x} \subseteq D /\ (T \cup {x}) \ {x} = T
  BY FS_AddElement
<1>2. SumFunctionOnSet(f, T \cup {x}) = f[x] + SumFunctionOnSet(f, (T \cup {x}) \ {x})
  BY <1>1, SumRemove
<1>3. SumFunctionOnSet(f, T \cup {x}) = f[x] + SumFunctionOnSet(f, T)
  BY ONLY <1>1, <1>2
<1>4. SumFunctionOnSet(f, T) \in Nat /\ f[x] \in Nat
  BY SumType
<1>. QED
  BY ONLY <1>3, <1>4

\* ... equal terms have equal sums ...
LEMMA SumSame ==
    ASSUME NEW S, IsFiniteSet(S), NEW D, NEW f \in [D -> Nat], S \subseteq D,
           NEW E, NEW g \in [E -> Nat], S \subseteq E, \A x \in S : f[x] = g[x]
    PROVE  SumFunctionOnSet(f, S) = SumFunctionOnSet(g, S)
<1>. DEFINE Good == {T \in SUBSET S : SumFunctionOnSet(f, T) = SumFunctionOnSet(g, T)}
<1>1. ASSUME NEW T \in SUBSET S, \A U \in SUBSET T : U # T => U \in Good
      PROVE  T \in Good
  <2>1. CASE T = {}
    BY <2>1, SumEmpty
  <2>2. CASE T # {}
    <3>1. First(T) \in T /\ IsFiniteSet(T) /\ T \subseteq D /\ T \subseteq E
      BY <2>2, FS_Subset DEF First
    <3>2. T \ {First(T)} \in Good
      BY <1>1, <3>1
    <3>3. SumFunctionOnSet(f, T) = f[First(T)] + SumFunctionOnSet(f, T \ {First(T)})
      BY <2>2, <3>1, SumFirst
    <3>4. SumFunctionOnSet(g, T) = g[First(T)] + SumFunctionOnSet(g, T \ {First(T)})
      BY <2>2, <3>1, SumFirst
    <3>. QED
      BY <3>1, <3>2, <3>3, <3>4
  <2>. QED
    BY <2>1, <2>2
<1>2. Good \in SUBSET (SUBSET S)
  OBVIOUS
<1>3. \A T \in SUBSET S : T \in Good
  <2>. HIDE DEF Good
  <2>. QED
    BY <1>1, <1>2, SubsetInduction
<1>. QED
  BY <1>3

\* ... what is w times one thing and another sums to w times the one's sum and the other's ...
LEMMA SumCombines ==
    ASSUME NEW S, IsFiniteSet(S), NEW f \in [S -> Nat], NEW g \in [S -> Nat], NEW h \in [S -> Nat],
           NEW w \in Nat, \A x \in S : h[x] = f[x] + w * g[x]
    PROVE  SumFunctionOnSet(h, S) = SumFunctionOnSet(f, S) + w * SumFunctionOnSet(g, S)
<1>. DEFINE sum(e, T) == SumFunctionOnSet(e, T)
            Good == {T \in SUBSET S : sum(h, T) = sum(f, T) + w * sum(g, T)}
<1>1. ASSUME NEW T \in SUBSET S, \A U \in SUBSET T : U # T => U \in Good
      PROVE  T \in Good
  <2>1. CASE T = {}
    BY <2>1, SumEmpty
  <2>2. CASE T # {}
    <3>. DEFINE x == First(T)
                U == T \ {x}
    <3>1. x \in T /\ IsFiniteSet(T) /\ IsFiniteSet(U)
      BY <2>2, FS_Subset DEF First
    <3>2. sum(h, U) = sum(f, U) + w * sum(g, U)
      BY <1>1, <3>1
    <3>3. \A e \in [S -> Nat] : sum(e, T) = e[x] + sum(e, U) /\ sum(e, U) \in Nat
      BY <2>2, <3>1, SumFirst, SumType
    <3>4. h[x] = f[x] + w * g[x] /\ f[x] \in Nat /\ g[x] \in Nat
      BY <3>1
    <3>. HIDE DEF sum, x, U
    <3>5. /\ sum(h, T) = h[x] + sum(h, U)
          /\ sum(f, T) = f[x] + sum(f, U) /\ sum(f, U) \in Nat
          /\ sum(g, T) = g[x] + sum(g, U) /\ sum(g, U) \in Nat
      BY <3>3
    <3>6. w * sum(g, T) = w * g[x] + w * sum(g, U)
      BY <3>4, <3>5
    <3>7. w * g[x] \in Nat /\ w * sum(g, U) \in Nat
      BY <3>4, <3>5
    <3>8. sum(h, T) = sum(f, T) + w * sum(g, T)
      BY <3>2, <3>4, <3>5, <3>6, <3>7
    <3>. QED
      BY <3>8
  <2>. QED
    BY <2>1, <2>2
<1>2. Good \in SUBSET (SUBSET S)
  OBVIOUS
<1>3. \A T \in SUBSET S : T \in Good
  <2>. HIDE DEF Good
  <2>. QED
    BY <1>1, <1>2, SubsetInduction
<1>. QED
  BY <1>3

LEMMA SumPlus ==
    ASSUME NEW S, IsFiniteSet(S), NEW f \in [S -> Nat], NEW g \in [S -> Nat], NEW h \in [S -> Nat],
           \A x \in S : h[x] = f[x] + g[x]
    PROVE  SumFunctionOnSet(h, S) = SumFunctionOnSet(f, S) + SumFunctionOnSet(g, S)
<1>1. PICK w \in Nat : w = 1
  OBVIOUS
<1>2. \A x \in S : w * g[x] = g[x]
  BY <1>1
<1>3. SumFunctionOnSet(h, S) = SumFunctionOnSet(f, S) + w * SumFunctionOnSet(g, S)
  <2>1. \A x \in S : h[x] = f[x] + w * g[x]
    BY <1>2
  <2>. HIDE <1>1
  <2>. QED
    BY <2>1, SumCombines
<1>4. SumFunctionOnSet(g, S) \in Nat
  BY SumType
<1>. QED
  BY <1>1, <1>3, <1>4

\* ... two sets with nothing in common are summed one after the other ...
LEMMA SumUnion ==
    ASSUME NEW D, NEW f \in [D -> Nat], NEW S \in SUBSET D, IsFiniteSet(S),
           NEW R \in SUBSET D, IsFiniteSet(R), R \cap S = {}
    PROVE  SumFunctionOnSet(f, R \cup S) = SumFunctionOnSet(f, R) + SumFunctionOnSet(f, S)
<1>. DEFINE sum(T) == SumFunctionOnSet(f, T)
            Good == {T \in SUBSET S : sum(R \cup T) = sum(R) + sum(T)}
<1>1. ASSUME NEW T \in SUBSET S, \A U \in SUBSET T : U # T => U \in Good
      PROVE  T \in Good
  <2>1. CASE T = {}
    <3>1. R \cup T = R /\ sum(R) \in Nat
      BY <2>1, SumType
    <3>. QED
      BY <2>1, <3>1, SumEmpty
  <2>2. CASE T # {}
    <3>. DEFINE x == First(T)
                U == T \ {x}
    <3>1. x \in T /\ x \in D /\ x \notin R /\ U \in SUBSET D /\ R \cup U \in SUBSET D
      BY <2>2 DEF First
    <3>2. IsFiniteSet(U) /\ IsFiniteSet(R \cup U)
      BY FS_Subset, FS_Union
    <3>3. sum(U \cup {x}) = sum(U) + f[x] /\ sum(U) \in Nat
      BY <3>1, <3>2, SumAdd
    <3>4. sum((R \cup U) \cup {x}) = sum(R \cup U) + f[x]
      <4>. DEFINE V == R \cup U
      <4>1. x \in D \ V /\ V \in SUBSET D /\ IsFiniteSet(V)
        BY <3>1, <3>2
      <4>. HIDE DEF x, U, V
      <4>2. SumFunctionOnSet(f, V \cup {x}) = SumFunctionOnSet(f, V) + f[x]
        BY <4>1, SumAdd
      <4>. QED
        BY <4>2 DEF V
    <3>5. U \cup {x} = T /\ (R \cup U) \cup {x} = R \cup T
      BY <3>1
    <3>6. sum(R \cup U) = sum(R) + sum(U) /\ sum(R) \in Nat /\ f[x] \in Nat
      BY <1>1, <3>1, SumType
    <3>. HIDE DEF sum, x, U
    <3>7. sum(T) = sum(U) + f[x] /\ sum(R \cup T) = sum(R \cup U) + f[x]
      BY <3>3, <3>4, <3>5
    <3>8. sum(R \cup T) = sum(R) + sum(T)
      BY <3>3, <3>6, <3>7
    <3>. QED
      BY <3>8
  <2>. QED
    BY <2>1, <2>2
<1>2. Good \in SUBSET (SUBSET S)
  OBVIOUS
<1>3. \A T \in SUBSET S : T \in Good
  <2>. HIDE DEF Good
  <2>. QED
    BY <1>1, <1>2, SubsetInduction
<1>. QED
  BY <1>3

\* ... a sum is something exactly if one of its terms is ...
LEMMA SumPositive ==
    ASSUME NEW S, IsFiniteSet(S), NEW D, NEW f \in [D -> Nat], S \subseteq D
    PROVE  SumFunctionOnSet(f, S) > 0 <=> \E x \in S : f[x] > 0
<1>. DEFINE sum(T) == SumFunctionOnSet(f, T)
            Good == {T \in SUBSET S : sum(T) > 0 <=> \E x \in T : f[x] > 0}
<1>1. ASSUME NEW T \in SUBSET S, \A U \in SUBSET T : U # T => U \in Good
      PROVE  T \in Good
  <2>1. CASE T = {}
    BY <2>1, SumEmpty
  <2>2. CASE T # {}
    <3>. DEFINE x == First(T)
                U == T \ {x}
    <3>1. x \in T /\ IsFiniteSet(T) /\ IsFiniteSet(U)
      BY <2>2, FS_Subset DEF First
    <3>2. sum(T) = f[x] + sum(U) /\ sum(U) \in Nat /\ f[x] \in Nat
      BY <2>2, <3>1, SumFirst, SumType
    <3>3. sum(U) > 0 <=> \E y \in U : f[y] > 0
      BY <1>1, <3>1
    <3>4. (\E y \in T : f[y] > 0) <=> f[x] > 0 \/ \E y \in U : f[y] > 0
      BY <3>1
    <3>. HIDE DEF sum, x, U
    <3>5. sum(T) > 0 <=> \E y \in T : f[y] > 0
      BY <3>2, <3>3, <3>4
    <3>. QED
      BY <3>5
  <2>. QED
    BY <2>1, <2>2
<1>2. Good \in SUBSET (SUBSET S)
  OBVIOUS
<1>3. \A T \in SUBSET S : T \in Good
  <2>. HIDE DEF Good
  <2>. QED
    BY <1>1, <1>2, SubsetInduction
<1>. QED
  BY <1>3

\* ... and what is the same v on a part of the set, and nothing elsewhere, comes to v for
\* each of the part.
LEMMA SumOnPart ==
    ASSUME NEW S, IsFiniteSet(S), NEW f \in [S -> Nat], NEW v \in Nat,
           NEW R \in SUBSET S, \A x \in S : f[x] = IF x \in R THEN v ELSE 0
    PROVE  SumFunctionOnSet(f, S) = Cardinality(R) * v
<1>. DEFINE sum(T) == SumFunctionOnSet(f, T)
            Good == {T \in SUBSET S : sum(T) = Cardinality(R \cap T) * v}
<1>1. ASSUME NEW T \in SUBSET S, \A U \in SUBSET T : U # T => U \in Good
      PROVE  T \in Good
  <2>1. CASE T = {}
    BY <2>1, SumEmpty, FS_EmptySet
  <2>2. CASE T # {}
    <3>. DEFINE x == First(T)
                U == T \ {x}
    <3>1. x \in T /\ IsFiniteSet(T) /\ IsFiniteSet(U) /\ IsFiniteSet(R \cap T) /\ IsFiniteSet(R \cap U)
      BY <2>2, FS_Subset DEF First
    <3>2. sum(T) = f[x] + sum(U) /\ sum(U) \in Nat
      BY <2>2, <3>1, SumFirst, SumType
    <3>3. sum(U) = Cardinality(R \cap U) * v
      BY <1>1, <3>1
    <3>4. R \cap U = (R \cap T) \ {x}
      OBVIOUS
    <3>5. /\ Cardinality(R \cap T) \in Nat /\ Cardinality(R \cap U) \in Nat
          /\ Cardinality(R \cap U) = IF x \in R THEN Cardinality(R \cap T) - 1
                                                ELSE Cardinality(R \cap T)
      <4>. DEFINE A == R \cap T
      <4>1. /\ Cardinality(A) \in Nat /\ Cardinality(A \ {x}) \in Nat
            /\ Cardinality(A \ {x}) = IF x \in A THEN Cardinality(A) - 1 ELSE Cardinality(A)
        <5>1. IsFiniteSet(A) /\ IsFiniteSet(A \ {x})
          BY <3>1, <3>4
        <5>. HIDE DEF A, x
        <5>. QED
          BY <5>1, FS_CardinalityType, FS_RemoveElement
      <4>2. x \in A <=> x \in R
        BY <3>1
      <4>. QED
        BY <3>4, <4>1, <4>2
    <3>6. f[x] = IF x \in R THEN v ELSE 0
      BY <3>1
    <3>. HIDE DEF sum, x, U
    <3>7. sum(T) = Cardinality(R \cap T) * v
      <4>. DEFINE m == Cardinality(R \cap T)
                  n == Cardinality(R \cap U)
      <4>1. m \in Nat /\ n \in Nat /\ sum(U) = n * v
        BY <3>3, <3>5
      <4>2. CASE x \in R
        <5>1. m = n + 1 /\ f[x] = v
          BY <3>5, <3>6, <4>2
        <5>. HIDE DEF m, n
        <5>2. m * v = n * v + v
          BY <4>1, <5>1
        <5>. QED
          BY <3>2, <4>1, <5>1, <5>2 DEF m
      <4>3. CASE x \notin R
        <5>1. m = n /\ f[x] = 0
          BY <3>5, <3>6, <4>3
        <5>. HIDE DEF m, n
        <5>. QED
          BY <3>2, <4>1, <5>1 DEF m
      <4>. QED
        BY <4>2, <4>3
    <3>. QED
      BY <3>7
  <2>. QED
    BY <2>1, <2>2
<1>2. Good \in SUBSET (SUBSET S)
  OBVIOUS
<1>3. \A T \in SUBSET S : T \in Good
  <2>. HIDE DEF Good
  <2>. QED
    BY <1>1, <1>2, SubsetInduction
<1>4. R \cap S = R
  OBVIOUS
<1>. QED
  BY <1>3, <1>4

-----------------------------------------------------------------------------
(* Places on the clock.                                                     *)

LEMMA Divided ==
    ASSUME NEW n \in Nat \ {0}, NEW a \in Int
    PROVE  a % n \in 0..(n - 1) /\ a \div n \in Int /\ a % n = a - (a \div n) * n
<1>1. a % n \in 0..(n - 1) /\ a \div n \in Int
  OBVIOUS
<1>2. a % n = a - n * (a \div n)
  BY Z3
<1>3. n * (a \div n) = (a \div n) * n
  BY <1>1
<1>. QED
  BY <1>1, <1>2, <1>3

\* Multiples of n are n apart, so between 0 and n - 1 is one.
LEMMA Remainder ==
    ASSUME NEW n \in Nat \ {0}, NEW a \in Int, NEW q \in Int, NEW r \in 0..(n - 1), a = q * n + r
    PROVE  a % n = r /\ a \div n = q
<1>. DEFINE k == a \div n
<1>1. a % n \in 0..(n - 1) /\ k \in Int /\ a % n = a - k * n
  BY Divided
<1>2. (k - q) * n = k * n - q * n
  BY <1>1
<1>3. (k - q) * n > - n /\ (k - q) * n < n
  <2>. DEFINE m == a % n
              x == k * n
              y == q * n
              z == (k - q) * n
  <2>1. m \in 0..(n - 1) /\ x \in Int /\ y \in Int /\ m = a - x /\ r = a - y /\ z = x - y
    <3>1. q * n \in Int /\ k * n \in Int
      BY <1>1
    <3>2. r = a - y
      <4>. DEFINE w == q * n
      <4>1. a = w + r /\ w \in Int
        BY <3>1
      <4>. HIDE DEF w
      <4>. QED
        BY <4>1 DEF w
    <3>. QED
      BY <1>1, <1>2, <3>1, <3>2
  <2>. HIDE DEF m, x, y, z, k
  <2>2. z > - n /\ z < n
    BY <2>1
  <2>. QED
    BY <2>2 DEF z
<1>4. CASE k - q >= 1
  <2>1. (k - q) * n >= n
    <3>. HIDE DEF k
    <3>. QED
      BY <1>1, <1>4
  <2>. QED
    BY <1>1, <1>3, <2>1
<1>5. CASE k - q <= -1
  <2>1. (q - k) * n >= n /\ (q - k) * n = - ((k - q) * n)
    <3>. HIDE DEF k
    <3>. QED
      BY <1>1, <1>5
  <2>. QED
    BY <1>1, <1>3, <2>1
<1>6. CASE k = q
  BY <1>1, <1>6
<1>7. k = q
  <2>. HIDE DEF k
  <2>. QED
    BY <1>1, <1>4, <1>5, <1>6
<1>8. a % n = a - q * n
  BY <1>1, <1>7
<1>9. a - q * n = r
  <2>. DEFINE w == q * n
  <2>1. a = w + r /\ w \in Int
    OBVIOUS
  <2>. HIDE DEF w
  <2>. QED
    BY <2>1 DEF w
<1>. QED
  BY <1>7, <1>8, <1>9

LEMMA SmallRemainder ==
    ASSUME NEW n \in Nat \ {0}, NEW r \in 0..(n - 1)
    PROVE  r % n = r
<1>1. PICK q \in Int : q * n = 0
  <2>1. 0 \in Int /\ 0 * n = 0
    OBVIOUS
  <2>. QED
    BY <2>1
<1>2. r \in Int /\ r = q * n + r
  BY <1>1
<1>. QED
  BY <1>2, Remainder

Places == 0..(Bins - 1)
Near(c, k) == {(c + k - 1) % Bins, (c - k + 1) % Bins}

LEMMA BinsAre == /\ Bins \in Nat \ {0} /\ BinLength \in Nat \ {0} /\ Day \in Nat \ {0} /\ IsFiniteSet(Places)
                 /\ DOMAIN Kernel = 1..Len(Kernel) /\ Len(Kernel) \in Nat \ {0}
                 /\ Kernel \in [DOMAIN Kernel -> Nat] /\ \A k \in DOMAIN Kernel : Kernel[k] > 0
                 /\ IsFiniteSet(DOMAIN Kernel) /\ Reach = Len(Kernel) - 1 /\ 2 * Reach < Bins
<1>1. Bins \in Nat \ {0} /\ BinLength \in Nat \ {0} /\ Day \in Nat \ {0}
  BY RatesAssumption
<1>2. IsFiniteSet(0..(Bins - 1))
  BY <1>1, FS_Interval
<1>3. Kernel \in Seq(Nat \ {0}) /\ Kernel # <<>>
  BY RatesAssumption
<1>4. DOMAIN Kernel = 1..Len(Kernel) /\ Len(Kernel) \in Nat \ {0}
  BY <1>3
<1>5. Kernel \in [DOMAIN Kernel -> Nat] /\ \A k \in DOMAIN Kernel : Kernel[k] > 0
  BY <1>3, <1>4
<1>6. IsFiniteSet(DOMAIN Kernel)
  BY <1>4, FS_Interval
<1>. QED
  BY <1>1, <1>2, <1>4, <1>5, <1>6, RatesAssumption DEF Places, Reach

LEMMA PlacesFinite == IsFiniteSet(Places)
  BY BinsAre

LEMMA InPlaces == \A a \in Int : a % Bins \in Places
  BY BinsAre, Divided DEF Places

\* What is o ahead of b has b o behind it ...
LEMMA AheadIsBehind ==
    ASSUME NEW b \in Places, NEW c \in Places, NEW o \in Int, (b + o) % Bins = c
    PROVE  (c - o) % Bins = b
<1>. DEFINE q == (b + o) \div Bins
            x == q * Bins
<1>1. b \in Int /\ c \in Int /\ Bins \in Int
  BY BinsAre DEF Places
<1>2. q \in Int /\ c = (b + o) - x /\ x \in Int
  <2>1. b + o \in Int /\ Bins \in Nat \ {0}
    BY <1>1, BinsAre
  <2>2. q \in Int /\ (b + o) % Bins = (b + o) - x
    BY <2>1, Divided
  <2>3. x \in Int
    BY <1>1, <2>2
  <2>. QED
    BY <2>2, <2>3
<1>3. c - o = (- q) * Bins + b
  <2>1. (- q) * Bins = - x
    BY <1>1, <1>2
  <2>2. c - o = (- x) + b
    <3>. HIDE DEF x, q
    <3>. QED
      BY <1>1, <1>2
  <2>. QED
    BY <2>1, <2>2
<1>4. - q \in Int /\ c - o \in Int /\ b \in 0..(Bins - 1)
  BY <1>1, <1>2 DEF Places
<1>. QED
  BY <1>3, <1>4, BinsAre, Remainder

LEMMA Sides ==
    ASSUME NEW b \in Places, NEW c \in Places, NEW o \in Int
    PROVE  (b + o) % Bins = c <=> b = (c - o) % Bins
<1>1. - o \in Int /\ b \in Int /\ c \in Int /\ b - (- o) = b + o /\ c + (- o) = c - o
  BY DEF Places
<1>2. ASSUME (c - o) % Bins = b PROVE (b + o) % Bins = c
  <2>1. (c + (- o)) % Bins = b
    BY <1>1, <1>2
  <2>2. (b - (- o)) % Bins = c
    BY <1>1, <2>1, AheadIsBehind
  <2>. QED
    BY <1>1, <2>2
<1>. QED
  BY <1>2, AheadIsBehind

\* ... and as the kernel reaches less than half around, ahead and behind are two places.
LEMMA NearIsTwo ==
    ASSUME NEW c \in Places, NEW k \in DOMAIN Kernel
    PROVE  /\ Near(c, k) \in SUBSET Places
           /\ Cardinality(Near(c, k)) = IF k = 1 THEN 1 ELSE 2
<1>1. c \in Int /\ k \in Int /\ k >= 1 /\ 2 * (k - 1) < Bins /\ Bins \in Nat \ {0}
  BY BinsAre DEF Places
<1>2. c + k - 1 \in Int /\ c - k + 1 \in Int
  BY <1>1
<1>3. Near(c, k) \in SUBSET Places
  BY <1>2, InPlaces DEF Near
<1>4. CASE k = 1
  <2>1. c + k - 1 = c - k + 1
    BY <1>1, <1>4
  <2>2. Near(c, k) = {(c + k - 1) % Bins}
    BY <2>1 DEF Near
  <2>. QED
    BY <1>3, <1>4, <2>2, FS_Singleton
<1>5. CASE k # 1
  <2>1. SUFFICES ASSUME (c + k - 1) % Bins = (c - k + 1) % Bins PROVE FALSE
    <3>. DEFINE u == (c + k - 1) % Bins
                v == (c - k + 1) % Bins
    <3>1. ASSUME u # v PROVE Cardinality({u, v}) = 2
      <4>. DEFINE V == {v}
      <4>. HIDE DEF u, v
      <4>1. {u, v} = V \cup {u} /\ u \notin V
        BY <3>1
      <4>2. IsFiniteSet(V) /\ Cardinality(V) = 1
        BY FS_Singleton
      <4>. HIDE DEF V
      <4>3. Cardinality(V \cup {u}) = 2
        BY <4>1, <4>2, FS_AddElement
      <4>. QED
        BY <4>1, <4>3
    <3>. QED
      BY <1>3, <1>5, <3>1 DEF Near
  <2>. DEFINE p == (c + k - 1) \div Bins
              q == (c - k + 1) \div Bins
              x == p * Bins
              y == q * Bins
              d == 2 * (k - 1)
  <2>2. p \in Int /\ q \in Int /\ (c + k - 1) - x = (c - k + 1) - y
    BY <1>1, <1>2, <2>1, Divided
  <2>3. x \in Int /\ y \in Int /\ (p - q) * Bins = x - y /\ p - q \in Int
    BY <1>1, <2>2
  <2>4. d = x - y
    <3>1. (c + k - 1) - x = (c - k + 1) - y /\ x \in Int /\ y \in Int /\ k \in Int /\ c \in Int
      BY <1>1, <2>2, <2>3
    <3>. HIDE DEF x, y
    <3>. QED
      BY ONLY <3>1
  <2>5. d \in Int /\ d \in 0..(Bins - 1)
    BY <1>1
  <2>6. d % Bins = 0
    <3>1. PICK r \in 0..(Bins - 1) : r = 0
      BY <1>1
    <3>2. PICK m \in Int : m = p - q
      BY <2>3
    <3>3. d = m * Bins + r
      <4>. HIDE DEF d, x, y, p, q
      <4>. QED
        BY <2>3, <2>4, <2>5, <3>1, <3>2
    <3>4. d % Bins = r
      <4>. HIDE DEF d
      <4>. QED
        BY ONLY <1>1, <2>5, <3>3, Remainder
    <3>. QED
      BY <3>1, <3>4
  <2>7. d % Bins = d
    <3>. HIDE DEF d, p, q
    <3>. QED
      BY <1>1, <2>5, SmallRemainder
  <2>. QED
    BY <1>1, <1>5, <2>6, <2>7
<1>. QED
  BY <1>3, <1>4, <1>5

-----------------------------------------------------------------------------
(* What an observation gives to every bin.                                  *)

LEMMA ShareIs ==
    ASSUME NEW c, NEW b
    PROVE  /\ Share(c, b) \in Nat
           /\ Share(c, b) > 0 <=> \E k \in DOMAIN Kernel : b \in Near(c, k)
<1>. DEFINE I == {k \in DOMAIN Kernel : b \in Near(c, k)}
<1>1. Share(c, b) = SumFunctionOnSet(Kernel, I)
  BY DEF Share, Near
<1>2. IsFiniteSet(I) /\ I \subseteq DOMAIN Kernel
  BY BinsAre, FS_Subset
<1>3. \A k \in I : Kernel[k] > 0
  BY BinsAre
<1>4. /\ SumFunctionOnSet(Kernel, I) \in Nat
      /\ SumFunctionOnSet(Kernel, I) > 0 <=> \E k \in I : Kernel[k] > 0
  <2>. HIDE DEF I
  <2>. QED
    BY <1>2, BinsAre, SumType, SumPositive
<1>. QED
  BY <1>1, <1>3, <1>4

\* Together the bins get the whole of the kernel, both its sides.
LEMMA SharesAddUp ==
    ASSUME NEW c \in Places
    PROVE  /\ SumFunctionOnSet([b \in Places |-> Share(c, b)], Places) = 2 * KernelSum - Kernel[1]
           /\ 2 * KernelSum - Kernel[1] \in Nat
<1>. DEFINE K == DOMAIN Kernel
            part(I) == [b \in Places |-> SumFunctionOnSet(Kernel, {k \in I : b \in Near(c, k)})]
            mult == [k \in K |-> Cardinality(Near(c, k)) * Kernel[k]]
            Good == {I \in SUBSET K : SumFunctionOnSet(part(I), Places) = SumFunctionOnSet(mult, I)}
<1>0. IsFiniteSet(K) /\ IsFiniteSet(Places) /\ Kernel \in [K -> Nat]
  BY BinsAre
<1>1. \A I \in SUBSET K : part(I) \in [Places -> Nat]
  <2>1. ASSUME NEW I \in SUBSET K, NEW b \in Places
        PROVE  SumFunctionOnSet(Kernel, {k \in I : b \in Near(c, k)}) \in Nat
    <3>. DEFINE J == {k \in I : b \in Near(c, k)}
    <3>1. IsFiniteSet(J) /\ J \subseteq K
      BY BinsAre, FS_Subset
    <3>. HIDE DEF J
    <3>2. SumFunctionOnSet(Kernel, J) \in Nat
      BY <3>1, BinsAre, SumType
    <3>. QED
      BY <3>2 DEF J
  <2>. QED
    BY <2>1
<1>2. \A k \in K : mult[k] = (IF k = 1 THEN 1 ELSE 2) * Kernel[k] /\ Kernel[k] \in Nat
  BY NearIsTwo, BinsAre
<1>3. mult \in [K -> Nat]
  BY <1>2
<1>4. ASSUME NEW I \in SUBSET K, \A U \in SUBSET I : U # I => U \in Good
      PROVE  I \in Good
  <2>1. CASE I = {}
    <3>1. SumFunctionOnSet(mult, I) = 0
      BY <2>1, SumEmpty
    <3>2. \A b \in Places : part(I)[b] = 0
      <4>1. \A b \in Places : {k \in I : b \in Near(c, k)} = {}
        BY <2>1
      <4>. QED
        BY <4>1, SumEmpty
    <3>3. SumFunctionOnSet(part(I), Places) = Cardinality({}) * 0
      <4>. DEFINE f == part(I)
      <4>1. f \in [Places -> Nat] /\ \A b \in Places : f[b] = IF b \in {} THEN 0 ELSE 0
        BY <1>1, <3>2
      <4>. HIDE DEF f
      <4>2. SumFunctionOnSet(f, Places) = Cardinality({}) * 0
        BY <4>1, BinsAre, SumOnPart
      <4>. QED
        BY <4>2 DEF f
    <3>4. SumFunctionOnSet(part(I), Places) = 0
      BY <3>3, FS_EmptySet
    <3>. HIDE DEF part, mult
    <3>. QED
      BY <3>1, <3>4
  <2>2. CASE I # {}
    <3>. DEFINE x == First(I)
                U == I \ {x}
                ind == [b \in Places |-> IF b \in Near(c, x) THEN Kernel[x] ELSE 0]
    <3>1. x \in I /\ x \in K /\ U \in Good /\ U \in SUBSET K /\ IsFiniteSet(I)
      BY <1>4, <2>2, BinsAre, FS_Subset DEF First
    <3>2. Kernel[x] \in Nat /\ ind \in [Places -> Nat]
      BY <3>1, BinsAre
    <3>3. ASSUME NEW b \in Places PROVE part(I)[b] = part(U)[b] + ind[b]
      <4>. DEFINE J == {k \in I : b \in Near(c, k)}
                  V == {k \in U : b \in Near(c, k)}
      <4>1. IsFiniteSet(J) /\ J \subseteq K /\ part(I)[b] = SumFunctionOnSet(Kernel, J)
            /\ part(U)[b] = SumFunctionOnSet(Kernel, V)
        BY <3>1, FS_Subset
      <4>2. part(U)[b] \in Nat
        BY <1>1, <3>1
      <4>3. CASE b \in Near(c, x)
        <5>1. x \in J /\ V = J \ {x} /\ ind[b] = Kernel[x]
          BY <3>1, <4>3
        <5>2. SumFunctionOnSet(Kernel, J) = Kernel[x] + SumFunctionOnSet(Kernel, J \ {x})
          <6>. HIDE DEF J, V, x, K
          <6>. QED
            BY <1>0, <4>1, <5>1, SumRemove
        <5>. HIDE DEF part, ind, J, V, x
        <5>. QED
          BY <3>2, <4>1, <4>2, <5>1, <5>2
      <4>4. CASE b \notin Near(c, x)
        <5>1. V = J /\ ind[b] = 0
          BY <4>4
        <5>. HIDE DEF part, ind, J, V, x
        <5>. QED
          BY <4>1, <4>2, <5>1
      <4>. QED
        BY <4>3, <4>4
    <3>4. SumFunctionOnSet(part(I), Places)
            = SumFunctionOnSet(part(U), Places) + SumFunctionOnSet(ind, Places)
      <4>. DEFINE f == part(U)
                  h == part(I)
      <4>1. f \in [Places -> Nat] /\ h \in [Places -> Nat] /\ \A b \in Places : h[b] = f[b] + ind[b]
        BY <1>1, <3>1, <3>3
      <4>. HIDE DEF f, h, ind, K
      <4>2. SumFunctionOnSet(h, Places) = SumFunctionOnSet(f, Places) + SumFunctionOnSet(ind, Places)
        BY <1>0, <3>2, <4>1, SumPlus
      <4>. QED
        BY <4>2 DEF f, h
    <3>5. SumFunctionOnSet(ind, Places) = Cardinality(Near(c, x)) * Kernel[x]
      <4>1. \A b \in Places : ind[b] = IF b \in Near(c, x) THEN Kernel[x] ELSE 0
        OBVIOUS
      <4>2. Near(c, x) \in SUBSET Places
        BY <3>1, NearIsTwo
      <4>. HIDE DEF ind, x
      <4>. QED
        BY <1>0, <3>2, <4>1, <4>2, SumOnPart
    <3>6. SumFunctionOnSet(mult, I) = mult[x] + SumFunctionOnSet(mult, U)
      <4>1. I # {} /\ I \subseteq K
        BY <2>2
      <4>. HIDE DEF mult
      <4>. QED
        BY <1>3, <3>1, <4>1, SumFirst
    <3>7. mult[x] = Cardinality(Near(c, x)) * Kernel[x] /\ mult[x] \in Nat
      BY <1>3, <3>1
    <3>8. SumFunctionOnSet(part(U), Places) = SumFunctionOnSet(mult, U)
      BY <3>1
    <3>9. SumFunctionOnSet(mult, U) \in Nat
      <4>1. IsFiniteSet(U) /\ U \subseteq K
        BY <3>1, FS_Subset
      <4>. HIDE DEF mult, U
      <4>. QED
        BY <1>3, <4>1, SumType
    <3>10. SumFunctionOnSet(part(I), Places) = SumFunctionOnSet(mult, I)
      <4>. HIDE DEF part, mult, ind, x, U
      <4>. QED
        BY <3>4, <3>5, <3>6, <3>7, <3>8, <3>9
    <3>. QED
      BY <3>10
  <2>. QED
    BY <2>1, <2>2
<1>5. SumFunctionOnSet(part(K), Places) = SumFunctionOnSet(mult, K)
  <2>1. Good \in SUBSET (SUBSET K)
    OBVIOUS
  <2>2. \A I \in SUBSET K : I \in Good
    <3>. HIDE DEF Good, K
    <3>. QED
      BY <1>0, <1>4, <2>1, SubsetInduction
  <2>. QED
    BY <2>2
<1>6. part(K) = [b \in Places |-> Share(c, b)]
  BY DEF Share, Near
<1>. DEFINE e == [k \in K |-> IF k \in {1} THEN Kernel[1] ELSE 0]
            h == [k \in K |-> Kernel[k] + Kernel[k]]
<1>7. 1 \in K /\ Kernel[1] \in Nat
  BY BinsAre
<1>8. e \in [K -> Nat] /\ h \in [K -> Nat] /\ Kernel \in [K -> Nat]
  BY <1>2, <1>7, BinsAre
<1>9. SumFunctionOnSet(h, K) = SumFunctionOnSet(Kernel, K) + SumFunctionOnSet(Kernel, K)
  <2>1. \A k \in K : h[k] = Kernel[k] + Kernel[k]
    OBVIOUS
  <2>. HIDE DEF h, K
  <2>. QED
    BY <1>0, <1>8, <2>1, SumPlus
<1>10. SumFunctionOnSet(h, K) = SumFunctionOnSet(mult, K) + SumFunctionOnSet(e, K)
  <2>1. \A k \in K : h[k] = mult[k] + e[k]
    <3>1. \A k \in K : mult[k] = (IF k = 1 THEN 1 ELSE 2) * Kernel[k] /\ h[k] = Kernel[k] + Kernel[k]
                       /\ e[k] = IF k = 1 THEN Kernel[1] ELSE 0
      BY <1>2
    <3>. HIDE DEF h, e, mult
    <3>. QED
      BY <1>2, <1>7, <3>1
  <2>. HIDE DEF h, e, mult, K
  <2>. QED
    BY <1>0, <1>3, <1>8, <2>1, SumPlus
<1>11. SumFunctionOnSet(e, K) = Kernel[1]
  <2>1. \A k \in K : e[k] = IF k \in {1} THEN Kernel[1] ELSE 0
    OBVIOUS
  <2>2. {1} \in SUBSET K /\ Cardinality({1}) = 1
    BY <1>7, FS_Singleton
  <2>. HIDE DEF e, K
  <2>3. SumFunctionOnSet(e, K) = Cardinality({1}) * Kernel[1]
    BY <1>0, <1>7, <1>8, <2>1, <2>2, SumOnPart
  <2>. QED
    BY <1>7, <2>2, <2>3
<1>12. /\ SumFunctionOnSet(Kernel, K) = KernelSum /\ KernelSum \in Nat
       /\ SumFunctionOnSet(mult, K) \in Nat
  <2>1. SumFunctionOnSet(Kernel, K) = KernelSum
    BY DEF KernelSum, SumFunction
  <2>. HIDE DEF mult
  <2>. QED
    BY <1>3, <1>8, <2>1, BinsAre, SumType
<1>13. SumFunctionOnSet(mult, K) = 2 * KernelSum - Kernel[1]
  <2>. HIDE DEF h, e, mult
  <2>. QED
    BY <1>7, <1>9, <1>10, <1>11, <1>12
<1>. QED
  <2>. HIDE DEF h, e, mult, part
  <2>. QED
    BY <1>5, <1>6, <1>12, <1>13

-----------------------------------------------------------------------------
(* A clock table is four sums over what the camera saw.                     *)

\* What is learned of counts for something and began at some time.
Learned(model) ==
    /\ IsFiniteSet(DOMAIN model.seen)
    /\ \A i \in DOMAIN model.seen :
         model.seen[i].weight \in Nat \ {0} /\ model.seen[i].event.from \in Nat

Centre(model, i) == BinOf(MinuteOfDay(model.seen[i].event))
Given(model, b) == [i \in DOMAIN model.seen |-> model.seen[i].weight * Share(Centre(model, i), b)]
Whole(model) == [i \in DOMAIN model.seen |-> model.seen[i].weight * (2 * KernelSum - Kernel[1])]

Table(model, profile) ==
    [weights |-> [b \in Places |-> SumFunctionOnSet(Given(model, b), profile)],
     counts |-> [b \in Places |-> Cardinality({i \in profile : Centre(model, i) = b})],
     total |-> SumFunctionOnSet(Whole(model), profile),
     observations |-> Cardinality(profile)]

LEMMA CentreIs ==
    ASSUME NEW model, Learned(model), NEW i \in DOMAIN model.seen
    PROVE  Centre(model, i) \in Places
<1>1. model.seen[i].event.from \in Nat /\ Day \in Nat \ {0} /\ BinLength \in Nat \ {0}
  BY BinsAre DEF Learned
<1>. DEFINE m == model.seen[i].event.from % Day
<1>2. m \in Int
  BY <1>1
<1>3. m \div BinLength \in Int
  <2>. HIDE DEF m
  <2>. QED
    BY <1>1, <1>2
<1>. QED
  BY <1>3, InPlaces DEF Centre, BinOf, MinuteOfDay

LEMMA GivenType ==
    ASSUME NEW model, Learned(model)
    PROVE  /\ \A b : Given(model, b) \in [DOMAIN model.seen -> Nat]
           /\ Whole(model) \in [DOMAIN model.seen -> Nat]
<1>1. \A i \in DOMAIN model.seen : model.seen[i].weight \in Nat
  BY DEF Learned
<1>2. \A b : \A i \in DOMAIN model.seen :
          model.seen[i].weight * Share(Centre(model, i), b) \in Nat
  BY <1>1, ShareIs
<1>3. 2 * KernelSum - Kernel[1] \in Nat
  <2>1. 0 \in Places
    BY BinsAre DEF Places
  <2>. QED
    BY <2>1, SharesAddUp
<1>4. \A i \in DOMAIN model.seen : model.seen[i].weight * (2 * KernelSum - Kernel[1]) \in Nat
  BY <1>1, <1>3
<1>. QED
  BY <1>2, <1>4 DEF Given, Whole

\* An event that is added is one more in every sum.
LEMMA AddsToTable ==
    ASSUME NEW model, Learned(model), NEW P \in SUBSET DOMAIN model.seen, NEW x \in P
    PROVE  Add(Table(model, P \ {x}), MinuteOfDay(model.seen[x].event), model.seen[x].weight)
             = Table(model, P)
<1>. DEFINE c == Centre(model, x)
            w == model.seen[x].weight
            Q == P \ {x}
            R == Table(model, Q)
            A == Add(R, MinuteOfDay(model.seen[x].event), w)
<1>1. /\ IsFiniteSet(P) /\ IsFiniteSet(Q) /\ c \in Places /\ w \in Nat
      /\ x \in DOMAIN model.seen /\ P \subseteq DOMAIN model.seen
  BY CentreIs, FS_Subset DEF Learned
<1>2. \A f \in [DOMAIN model.seen -> Nat] : SumFunctionOnSet(f, P) = f[x] + SumFunctionOnSet(f, Q)
  BY <1>1, SumRemove
<1>3. A = [weights |-> [b \in Places |-> R.weights[b] + w * Share(c, b)],
           counts |-> [R.counts EXCEPT ![c] = @ + 1],
           total |-> R.total + w * (2 * KernelSum - Kernel[1]),
           observations |-> R.observations + 1]
  <2>1. DOMAIN R.weights = Places
    BY DEF Table
  <2>. HIDE DEF R
  <2>. QED
    BY <2>1 DEF Add, Centre
<1>4. ASSUME NEW b \in Places
      PROVE  R.weights[b] + w * Share(c, b) = SumFunctionOnSet(Given(model, b), P)
  <2>1. R.weights[b] = SumFunctionOnSet(Given(model, b), Q)
    BY DEF Table
  <2>2. Given(model, b)[x] = w * Share(c, b) /\ Given(model, b) \in [DOMAIN model.seen -> Nat]
    BY <1>1, GivenType DEF Given
  <2>3. SumFunctionOnSet(Given(model, b), P) = w * Share(c, b) + SumFunctionOnSet(Given(model, b), Q)
    BY <1>2, <2>2
  <2>4. w * Share(c, b) \in Nat /\ SumFunctionOnSet(Given(model, b), Q) \in Nat
    <3>1. Q \subseteq DOMAIN model.seen /\ Share(c, b) \in Nat
      BY ShareIs
    <3>. QED
      BY <1>1, <2>2, <3>1, SumType
  <2>. HIDE DEF R, w, c, Q
  <2>. QED
    BY <2>1, <2>3, <2>4
<1>5. R.total + w * (2 * KernelSum - Kernel[1]) = SumFunctionOnSet(Whole(model), P)
  <2>1. R.total = SumFunctionOnSet(Whole(model), Q)
    BY DEF Table
  <2>2. /\ Whole(model)[x] = w * (2 * KernelSum - Kernel[1])
        /\ Whole(model) \in [DOMAIN model.seen -> Nat]
    BY <1>1, GivenType DEF Whole
  <2>3. SumFunctionOnSet(Whole(model), P) = w * (2 * KernelSum - Kernel[1]) + SumFunctionOnSet(Whole(model), Q)
    BY <1>2, <2>2
  <2>4. w * (2 * KernelSum - Kernel[1]) \in Nat /\ SumFunctionOnSet(Whole(model), Q) \in Nat
    <3>1. Whole(model)[x] \in Nat /\ Q \subseteq DOMAIN model.seen
      BY <1>1, <2>2
    <3>. QED
      BY <1>1, <2>2, <3>1, SumType
  <2>. HIDE DEF R, w, Q
  <2>. QED
    BY <2>1, <2>3, <2>4
<1>6. [R.counts EXCEPT ![c] = @ + 1]
        = [b \in Places |-> Cardinality({i \in P : Centre(model, i) = b})]
  <2>1. R.counts = [b \in Places |-> Cardinality({i \in Q : Centre(model, i) = b})]
    BY DEF Table
  <2>2. ASSUME NEW b \in Places
        PROVE  Cardinality({i \in P : Centre(model, i) = b})
                 = Cardinality({i \in Q : Centre(model, i) = b}) + IF b = c THEN 1 ELSE 0
    <3>. DEFINE I == {i \in P : Centre(model, i) = b}
                J == {i \in Q : Centre(model, i) = b}
    <3>1. IsFiniteSet(I) /\ IsFiniteSet(J)
      BY <1>1, FS_Subset
    <3>2. Cardinality(J) \in Nat
      BY <3>1, FS_CardinalityType
    <3>3. CASE b = c
      <4>1. I = J \cup {x} /\ x \notin J
        BY <3>3
      <4>. HIDE DEF I, J, c, w
      <4>2. Cardinality(J \cup {x}) = Cardinality(J) + 1
        BY <3>1, <4>1, FS_AddElement
      <4>3. Cardinality(I) = Cardinality(J) + 1
        BY <4>1, <4>2
      <4>. QED
        BY <3>3, <4>3 DEF I, J
    <3>4. CASE b # c
      <4>1. I = J
        BY <3>4
      <4>. HIDE DEF I, J, c
      <4>2. Cardinality(I) = Cardinality(J) + 0
        BY <3>2, <4>1
      <4>. QED
        BY <3>4, <4>2 DEF I, J
    <3>. QED
      BY <3>3, <3>4
  <2>3. \A b \in Places : Cardinality({i \in Q : Centre(model, i) = b}) \in Nat
    <3>1. \A b \in Places : IsFiniteSet({i \in Q : Centre(model, i) = b})
      BY <1>1, FS_Subset
    <3>. QED
      BY <3>1, FS_CardinalityType
  <2>. DEFINE n == [b \in Places |-> Cardinality({i \in Q : Centre(model, i) = b})]
              m == [b \in Places |-> Cardinality({i \in P : Centre(model, i) = b})]
  <2>4. \A b \in Places : m[b] = IF b = c THEN n[b] + 1 ELSE n[b]
    <3>1. \A b \in Places : n[b] \in Nat /\ m[b] = n[b] + IF b = c THEN 1 ELSE 0
      BY <2>2, <2>3
    <3>. HIDE DEF n, m, c
    <3>. QED
      BY <3>1
  <2>5. [n EXCEPT ![c] = @ + 1] = [b \in Places |-> IF b = c THEN n[b] + 1 ELSE n[b]]
    <3>1. n = [b \in Places |-> n[b]]
      OBVIOUS
    <3>. HIDE DEF n, c
    <3>. QED
      BY <1>1, <3>1
  <2>6. m = [b \in Places |-> m[b]]
    OBVIOUS
  <2>7. [n EXCEPT ![c] = @ + 1] = m
    <3>. HIDE DEF n, m, c
    <3>. QED
      BY <2>4, <2>5, <2>6
  <2>8. R.counts = n
    BY <2>1
  <2>. HIDE DEF R, n, c
  <2>. QED
    BY <2>7, <2>8
<1>7. R.observations + 1 = Cardinality(P)
  <2>1. R.observations = Cardinality(Q) /\ Cardinality(Q) = Cardinality(P) - 1
    BY <1>1, FS_RemoveElement DEF Table
  <2>2. Cardinality(P) \in Nat
    BY <1>1, FS_CardinalityType
  <2>. QED
    BY <2>1, <2>2
<1>8. [b \in Places |-> R.weights[b] + w * Share(c, b)]
        = [b \in Places |-> SumFunctionOnSet(Given(model, b), P)]
  BY <1>4
<1>9. A = Table(model, P)
  <2>. HIDE DEF A, R, w, c
  <2>. QED
    BY <1>3, <1>5, <1>6, <1>7, <1>8 DEF Table
<1>. QED
  BY <1>9

LEMMA ClockIsTable ==
    ASSUME NEW model, Learned(model), NEW P \in SUBSET DOMAIN model.seen
    PROVE  Clock(model, P) = Table(model, P)
<1>. DEFINE with(r, i) == Add(r, MinuteOfDay(model.seen[i].event), model.seen[i].weight)
            Adds(s) == s = [T \in SUBSET P |-> IF T = {} THEN Empty
                                               ELSE with(s[T \ {First(T)}], First(T))]
            tables == [T \in SUBSET P |-> Table(model, T)]
<1>1. \A T \in SUBSET P : T # {} => First(T) \in T
  BY DEF First
<1>2. Table(model, {}) = Empty
  <2>1. \A b \in Places : {i \in {} : Centre(model, i) = b} = {}
    OBVIOUS
  <2>. QED
    BY <2>1, SumEmpty, FS_EmptySet DEF Table, Empty, Places
<1>3. ASSUME NEW T \in SUBSET P, T # {}
      PROVE  tables[T] = with(tables[T \ {First(T)}], First(T))
  <2>1. First(T) \in T /\ T \in SUBSET DOMAIN model.seen /\ T \ {First(T)} \in SUBSET P
    BY <1>1, <1>3
  <2>2. with(Table(model, T \ {First(T)}), First(T)) = Table(model, T)
    BY <2>1, AddsToTable
  <2>3. tables[T \ {First(T)}] = Table(model, T \ {First(T)}) /\ tables[T] = Table(model, T)
    BY <2>1
  <2>. HIDE DEF tables, with
  <2>. QED
    BY <2>2, <2>3
<1>4. tables[{}] = Empty
  BY <1>2
<1>5. Adds(tables)
  <2>1. tables = [T \in SUBSET P |-> tables[T]]
    OBVIOUS
  <2>2. \A T \in SUBSET P : tables[T] = IF T = {} THEN Empty
                                        ELSE with(tables[T \ {First(T)}], First(T))
    <3>. HIDE DEF tables, with
    <3>. QED
      BY <1>3, <1>4
  <2>. HIDE DEF tables, with
  <2>. QED
    BY <2>1, <2>2
<1>6. ASSUME NEW s, Adds(s) PROVE \A T \in SUBSET P : s[T] = tables[T]
  <2>. DEFINE Good == {T \in SUBSET P : s[T] = tables[T]}
  <2>. HIDE DEF tables, with
  <2>1. ASSUME NEW T \in SUBSET P, \A U \in SUBSET T : U # T => U \in Good
        PROVE  T \in Good
    <3>1. s[T] = IF T = {} THEN Empty ELSE with(s[T \ {First(T)}], First(T))
      BY <1>6
    <3>2. T # {} => T \ {First(T)} \in Good
      BY <1>1, <2>1
    <3>. QED
      BY <1>3, <1>4, <3>1, <3>2
  <2>2. Good \in SUBSET (SUBSET P) /\ IsFiniteSet(P)
    BY FS_Subset DEF Learned
  <2>3. \A T \in SUBSET P : T \in Good
    <3>. HIDE DEF Good
    <3>. QED
      BY <2>1, <2>2, SubsetInduction
  <2>. QED
    BY <2>3
<1>. DEFINE clock == CHOOSE s : Adds(s)
<1>7. Adds(clock)
  <2>. HIDE DEF Adds, tables
  <2>. QED
    BY <1>5
<1>8. Clock(model, P) = clock[P]
  BY DEF Clock, FoldSet, MapThenFoldSet, First
<1>9. clock[P] = tables[P]
  <2>. HIDE DEF Adds, tables, clock
  <2>. QED
    BY <1>6, <1>7
<1>. QED
  BY <1>8, <1>9

LEMMA TableType ==
    ASSUME NEW model, Learned(model), NEW P \in SUBSET DOMAIN model.seen
    PROVE  /\ Table(model, P).weights \in [Places -> Nat]
           /\ Table(model, P).counts \in [Places -> Nat]
<1>1. IsFiniteSet(P)
  BY FS_Subset DEF Learned
<1>2. \A b : SumFunctionOnSet(Given(model, b), P) \in Nat
  <2>. TAKE b
  <2>1. Given(model, b) \in [DOMAIN model.seen -> Nat]
    BY GivenType
  <2>. QED
    BY <1>1, <2>1, SumType
<1>3. \A b : IsFiniteSet({i \in P : Centre(model, i) = b})
  BY <1>1, FS_Subset
<1>4. \A b : Cardinality({i \in P : Centre(model, i) = b}) \in Nat
  BY <1>3, FS_CardinalityType
<1>. QED
  BY <1>2, <1>4 DEF Table

\* The bins of a table add up to its total ...
LEMMA TableAddsUp ==
    ASSUME NEW model, Learned(model), NEW P \in SUBSET DOMAIN model.seen
    PROVE  SumFunction(Table(model, P).weights) = Table(model, P).total
<1>. DEFINE D == DOMAIN model.seen
            weights(T) == Table(model, T).weights
            whole(T) == SumFunctionOnSet(Whole(model), T)
            Good == {T \in SUBSET P : SumFunctionOnSet(weights(T), Places) = whole(T)}
<1>1. \A T \in SUBSET P : weights(T) \in [Places -> Nat]
  BY TableType
<1>2. ASSUME NEW T \in SUBSET P, \A U \in SUBSET T : U # T => U \in Good
      PROVE  T \in Good
  <2>1. CASE T = {}
    <3>1. \A b \in Places : weights(T)[b] = IF b \in {} THEN 0 ELSE 0
      BY <2>1, SumEmpty DEF Table
    <3>2. SumFunctionOnSet(weights(T), Places) = Cardinality({}) * 0
      <4>. DEFINE f == weights(T)
      <4>1. f \in [Places -> Nat] /\ \A b \in Places : f[b] = IF b \in {} THEN 0 ELSE 0
        BY <1>1, <3>1
      <4>. HIDE DEF f
      <4>2. SumFunctionOnSet(f, Places) = Cardinality({}) * 0
        BY <4>1, PlacesFinite, SumOnPart
      <4>. QED
        BY <4>2 DEF f
    <3>3. whole(T) = 0
      BY <2>1, SumEmpty
    <3>. HIDE DEF weights, whole
    <3>. QED
      BY <3>2, <3>3, FS_EmptySet
  <2>2. CASE T # {}
    <3>. DEFINE x == First(T)
                U == T \ {x}
                c == Centre(model, x)
                w == model.seen[x].weight
                share == [b \in Places |-> Share(c, b)]
    <3>1. x \in T /\ x \in D /\ T \in SUBSET D /\ IsFiniteSet(T)
      BY <2>2, FS_Subset DEF First, Learned
    <3>2. c \in Places /\ w \in Nat /\ share \in [Places -> Nat]
      BY <3>1, CentreIs, ShareIs DEF Learned
    <3>3. U \in Good
      BY <1>2, <3>1
    <3>4. \A f \in [D -> Nat] : SumFunctionOnSet(f, T) = f[x] + SumFunctionOnSet(f, U)
      BY <2>2, <3>1, SumFirst
    <3>5. ASSUME NEW b \in Places PROVE weights(T)[b] = weights(U)[b] + w * share[b]
      <4>1. Given(model, b)[x] = w * share[b] /\ Given(model, b) \in [D -> Nat]
        BY <3>1, GivenType DEF Given
      <4>2. SumFunctionOnSet(Given(model, b), T) = w * share[b] + SumFunctionOnSet(Given(model, b), U)
        BY <3>4, <4>1
      <4>3. /\ weights(T)[b] = SumFunctionOnSet(Given(model, b), T)
            /\ weights(U)[b] = SumFunctionOnSet(Given(model, b), U)
        BY DEF Table
      <4>4. weights(U)[b] \in Nat /\ w * share[b] \in Nat
        BY <1>1, <3>1, <3>2
      <4>. HIDE DEF weights, share, w, U
      <4>. QED
        BY <4>2, <4>3, <4>4
    <3>6. SumFunctionOnSet(weights(T), Places)
            = SumFunctionOnSet(weights(U), Places) + w * SumFunctionOnSet(share, Places)
      <4>. DEFINE f == weights(U)
                  h == weights(T)
      <4>1. /\ f \in [Places -> Nat] /\ h \in [Places -> Nat]
            /\ \A b \in Places : h[b] = f[b] + w * share[b]
        BY <1>1, <3>1, <3>5
      <4>. HIDE DEF f, h, share, w
      <4>2. SumFunctionOnSet(h, Places) = SumFunctionOnSet(f, Places) + w * SumFunctionOnSet(share, Places)
        BY <3>2, <4>1, PlacesFinite, SumCombines
      <4>. QED
        BY <4>2 DEF f, h
    <3>7. SumFunctionOnSet(share, Places) = 2 * KernelSum - Kernel[1]
      BY <3>2, SharesAddUp
    <3>8. /\ whole(T) = Whole(model)[x] + whole(U)
          /\ Whole(model)[x] = w * (2 * KernelSum - Kernel[1]) /\ Whole(model)[x] \in Nat
      BY <3>1, <3>4, GivenType DEF Whole
    <3>9. whole(U) \in Nat
      <4>1. IsFiniteSet(U) /\ U \subseteq D
        BY <3>1, FS_Subset
      <4>. HIDE DEF U
      <4>. QED
        BY <4>1, GivenType, SumType
    <3>10. SumFunctionOnSet(weights(U), Places) = whole(U)
      BY <3>3
    <3>11. SumFunctionOnSet(weights(T), Places) = whole(T)
      <4>. DEFINE y == Whole(model)[x]
                  z == whole(U)
      <4>1. SumFunctionOnSet(weights(T), Places) = z + y /\ y \in Nat /\ z \in Nat /\ whole(T) = y + z
        BY <3>6, <3>7, <3>8, <3>9, <3>10
      <4>. HIDE DEF y, z, weights, whole
      <4>. QED
        BY <4>1
    <3>. QED
      BY <3>11
  <2>. QED
    BY <2>1, <2>2
<1>3. \A T \in SUBSET P : T \in Good
  <2>1. Good \in SUBSET (SUBSET P) /\ IsFiniteSet(P)
    BY FS_Subset DEF Learned
  <2>. HIDE DEF Good
  <2>. QED
    BY <1>2, <2>1, SubsetInduction
<1>4. SumFunctionOnSet(weights(P), Places) = whole(P)
  BY <1>3
<1>5. DOMAIN weights(P) = Places
  BY DEF Table
<1>. QED
  BY <1>4, <1>5 DEF SumFunction, Table

\* ... a bin has weight exactly when something was seen near it ...
LEMMA TableIsNear ==
    ASSUME NEW model, Learned(model), NEW P \in SUBSET DOMAIN model.seen, NEW b \in Places
    PROVE  (Table(model, P).weights[b] > 0) = (Nearby(Table(model, P), b * BinLength) > 0)
<1>. DEFINE T == Table(model, P)
            B == {(b + o) % Bins : o \in -Reach..Reach}
            Met(i) == \E k \in DOMAIN Kernel : b \in Near(Centre(model, i), k)
<1>1. IsFiniteSet(P) /\ \A i \in P : Centre(model, i) \in Places /\ model.seen[i].weight \in Nat \ {0}
  BY CentreIs, FS_Subset DEF Learned
<1>2. T.weights[b] > 0 <=> \E i \in P : Met(i)
  <2>1. T.weights[b] = SumFunctionOnSet(Given(model, b), P)
    BY DEF Table
  <2>2. Given(model, b) \in [DOMAIN model.seen -> Nat]
    BY GivenType
  <2>3. T.weights[b] > 0 <=> \E i \in P : Given(model, b)[i] > 0
    BY <1>1, <2>1, <2>2, SumPositive
  <2>4. ASSUME NEW i \in P PROVE Given(model, b)[i] > 0 <=> Met(i)
    <3>. DEFINE s == Share(Centre(model, i), b)
                w == model.seen[i].weight
    <3>1. Given(model, b)[i] = w * s
      BY DEF Given
    <3>2. s \in Nat /\ w \in Nat \ {0} /\ (s > 0 <=> Met(i))
      BY <1>1, ShareIs
    <3>3. w * s > 0 <=> s > 0
      <4>1. s = 0 => w * s = 0
        BY <3>2
      <4>2. s > 0 => w * s > 0
        <5>. HIDE DEF s, w
        <5>. QED
          BY <3>2
      <4>. QED
        BY <3>2, <4>1, <4>2
    <3>. QED
      BY <3>1, <3>2, <3>3
  <2>. QED
    BY <2>3, <2>4
<1>3. BinOf(b * BinLength) = b
  <2>1. b \in 0..(Bins - 1) /\ b \in Int /\ BinLength \in Nat \ {0} /\ Bins \in Nat \ {0}
    BY BinsAre DEF Places
  <2>2. PICK r \in 0..(BinLength - 1) : r = 0
    BY <2>1
  <2>3. PICK a \in Int : a = b * BinLength
    BY <2>1
  <2>4. a = b * BinLength + r
    BY <2>2, <2>3
  <2>5. a \div BinLength = b
    <3>. HIDE <2>2, <2>3
    <3>. QED
      BY <2>1, <2>4, Remainder
  <2>6. b % Bins = b
    BY <2>1, SmallRemainder
  <2>. QED
    BY <2>3, <2>5, <2>6 DEF BinOf
<1>4. Nearby(T, b * BinLength) = SumFunctionOnSet(T.counts, B)
  BY <1>3 DEF Nearby
<1>5. IsFiniteSet(B) /\ B \subseteq Places
  <2>1. \A o \in -Reach..Reach : b + o \in Int
    BY BinsAre DEF Places
  <2>2. B \subseteq Places
    BY <2>1, InPlaces
  <2>. QED
    BY <2>2, BinsAre, FS_Subset
<1>6. SumFunctionOnSet(T.counts, B) > 0 <=> \E y \in B : T.counts[y] > 0
  <2>1. T.counts \in [Places -> Nat]
    BY TableType
  <2>. HIDE DEF T, B
  <2>. QED
    BY <1>5, <2>1, SumPositive
<1>7. ASSUME NEW y \in Places PROVE T.counts[y] > 0 <=> \E i \in P : Centre(model, i) = y
  <2>. DEFINE I == {i \in P : Centre(model, i) = y}
  <2>1. T.counts[y] = Cardinality(I) /\ IsFiniteSet(I)
    BY <1>1, FS_Subset DEF Table
  <2>2. Cardinality(I) \in Nat /\ (Cardinality(I) = 0 <=> I = {})
    BY <2>1, FS_CardinalityType, FS_EmptySet
  <2>3. Cardinality(I) > 0 <=> I # {}
    BY <2>2
  <2>. QED
    BY <2>1, <2>3
<1>8. ASSUME NEW i \in P PROVE Centre(model, i) \in B <=> Met(i)
  <2>. DEFINE c == Centre(model, i)
  <2>1. c \in Places /\ c \in Int /\ Reach \in Nat
        /\ DOMAIN Kernel = 1..(Reach + 1)
    BY <1>1, BinsAre DEF Places
  <2>2. c \in B <=> \E o \in -Reach..Reach : b = (c - o) % Bins
    <3>1. \A o \in -Reach..Reach : o \in Int
      BY <2>1
    <3>2. \A o \in -Reach..Reach : (b + o) % Bins = c <=> b = (c - o) % Bins
      <4>. HIDE DEF c
      <4>1. ASSUME NEW o \in -Reach..Reach PROVE (b + o) % Bins = c <=> b = (c - o) % Bins
        BY <2>1, <3>1, Sides
      <4>. QED
        BY <4>1
    <3>. HIDE DEF c
    <3>. QED
      BY <3>2
  <2>3. ASSUME NEW o \in -Reach..Reach, b = (c - o) % Bins PROVE Met(i)
    <3>1. CASE o >= 0
      <4>1. o + 1 \in DOMAIN Kernel /\ c - (o + 1) + 1 = c - o
        BY <2>1, <3>1
      <4>2. b \in Near(c, o + 1)
        BY <2>3, <4>1 DEF Near
      <4>. QED
        BY <4>1, <4>2
    <3>2. CASE o < 0
      <4>1. 1 - o \in DOMAIN Kernel /\ c + (1 - o) - 1 = c - o
        BY <2>1, <3>2
      <4>2. b \in Near(c, 1 - o)
        BY <2>3, <4>1 DEF Near
      <4>. QED
        BY <4>1, <4>2
    <3>. QED
      BY <2>1, <3>1, <3>2
  <2>4. ASSUME NEW k \in DOMAIN Kernel, b \in Near(c, k)
        PROVE  \E o \in -Reach..Reach : b = (c - o) % Bins
    <3>1. k - 1 \in -Reach..Reach /\ 1 - k \in -Reach..Reach
          /\ c - (k - 1) = c - k + 1 /\ c - (1 - k) = c + k - 1
      BY <2>1
    <3>2. b = (c - (k - 1)) % Bins \/ b = (c - (1 - k)) % Bins
      BY <2>4, <3>1 DEF Near
    <3>. QED
      BY <3>1, <3>2
  <2>. QED
    BY <2>2, <2>3, <2>4
<1>9. (\E y \in B : T.counts[y] > 0) <=> \E i \in P : Met(i)
  <2>. HIDE DEF T, B, Met
  <2>. QED
    BY <1>1, <1>5, <1>7, <1>8
<1>10. T.weights[b] > 0 <=> Nearby(T, b * BinLength) > 0
  BY <1>2, <1>4, <1>6, <1>9
<1>. QED
  BY <1>10

\* ... and two cameras' tables merge into that of what both saw.
LEMMA TablesMerge ==
    ASSUME NEW model, Learned(model), NEW P \in SUBSET DOMAIN model.seen,
           NEW Q \in SUBSET DOMAIN model.seen, P \cap Q = {}
    PROVE  Merged(Table(model, P), Table(model, Q)) = Table(model, P \cup Q)
<1>. DEFINE D == DOMAIN model.seen
            R == Table(model, P)
            S == Table(model, Q)
<1>1. IsFiniteSet(P) /\ IsFiniteSet(Q)
  BY FS_Subset DEF Learned
<1>2. \A f \in [D -> Nat] :
          SumFunctionOnSet(f, P \cup Q) = SumFunctionOnSet(f, P) + SumFunctionOnSet(f, Q)
  BY <1>1, SumUnion
<1>3. [b \in Places |-> R.weights[b] + S.weights[b]]
        = [b \in Places |-> SumFunctionOnSet(Given(model, b), P \cup Q)]
  <2>1. \A b \in Places : /\ R.weights[b] = SumFunctionOnSet(Given(model, b), P)
                          /\ S.weights[b] = SumFunctionOnSet(Given(model, b), Q)
                          /\ Given(model, b) \in [D -> Nat]
    BY GivenType DEF Table
  <2>. HIDE DEF R, S
  <2>. QED
    BY <1>2, <2>1
<1>4. ASSUME NEW A \in SUBSET P, NEW B \in SUBSET Q
      PROVE  Cardinality(A \cup B) = Cardinality(A) + Cardinality(B)
  <2>1. IsFiniteSet(A) /\ IsFiniteSet(B) /\ A \cap B = {}
    BY <1>1, FS_Subset
  <2>2. Cardinality(A \cup B) = Cardinality(A) + Cardinality(B) - Cardinality(A \cap B)
    BY <2>1, FS_Union
  <2>3. Cardinality(A \cap B) = 0 /\ Cardinality(A) \in Nat /\ Cardinality(B) \in Nat
    BY <2>1, FS_EmptySet, FS_CardinalityType
  <2>. QED
    BY <2>2, <2>3
<1>5. [b \in Places |-> R.counts[b] + S.counts[b]]
        = [b \in Places |-> Cardinality({i \in P \cup Q : Centre(model, i) = b})]
  <2>. DEFINE I(E, b) == {i \in E : Centre(model, i) = b}
  <2>1. ASSUME NEW b \in Places PROVE R.counts[b] + S.counts[b] = Cardinality(I(P \cup Q, b))
    <3>1. R.counts[b] = Cardinality(I(P, b)) /\ S.counts[b] = Cardinality(I(Q, b))
      BY DEF Table
    <3>2. I(P \cup Q, b) = I(P, b) \cup I(Q, b) /\ I(P, b) \in SUBSET P /\ I(Q, b) \in SUBSET Q
      OBVIOUS
    <3>3. Cardinality(I(P, b) \cup I(Q, b)) = Cardinality(I(P, b)) + Cardinality(I(Q, b))
      <4>. HIDE DEF I
      <4>. QED
        BY <1>4, <3>2
    <3>. HIDE DEF R, S, I
    <3>. QED
      BY <3>1, <3>2, <3>3
  <2>. QED
    BY <2>1
<1>6. R.total + S.total = SumFunctionOnSet(Whole(model), P \cup Q)
  BY <1>2, GivenType DEF Table
<1>7. R.observations + S.observations = Cardinality(P \cup Q)
  BY <1>4 DEF Table
<1>8. DOMAIN R.weights = Places /\ DOMAIN R.counts = Places
  BY DEF Table
<1>9. Merged(R, S) = [weights |-> [b \in Places |-> R.weights[b] + S.weights[b]],
                      counts |-> [b \in Places |-> R.counts[b] + S.counts[b]],
                      total |-> R.total + S.total,
                      observations |-> R.observations + S.observations]
  <2>. HIDE DEF R, S
  <2>. QED
    BY <1>8 DEF Merged
<1>10. Merged(R, S) = Table(model, P \cup Q)
  <2>. HIDE DEF R, S
  <2>. QED
    BY <1>3, <1>5, <1>6, <1>7, <1>9 DEF Table
<1>. QED
  BY <1>10

\* The clock tables of any model neither lose nor invent.
LEMMA ClocksAreConserved ==
    ASSUME NEW model, Learned(model)
    PROVE  /\ \A c \in Cameras :
                LET rate == Clock(model, PerCamera(model, c))
                IN /\ SumFunction(rate.weights) = rate.total
                   /\ \A b \in DOMAIN rate.weights :
                        (rate.weights[b] > 0) = (Nearby(rate, b * BinLength) > 0)
           /\ \A c, d \in Cameras :
                c # d => Merged(Clock(model, PerCamera(model, c)), Clock(model, PerCamera(model, d)))
                         = Clock(model, PerCamera(model, c) \cup PerCamera(model, d))
<1>1. \A c : PerCamera(model, c) \in SUBSET DOMAIN model.seen
  BY DEF PerCamera
<1>2. \A P \in SUBSET DOMAIN model.seen :
          Clock(model, P) = Table(model, P) /\ DOMAIN Table(model, P).weights = Places
  BY ClockIsTable DEF Table
<1>3. ASSUME NEW c \in Cameras, NEW rate, rate = Clock(model, PerCamera(model, c))
      PROVE  /\ SumFunction(rate.weights) = rate.total
             /\ \A b \in DOMAIN rate.weights :
                  (rate.weights[b] > 0) = (Nearby(rate, b * BinLength) > 0)
  BY <1>1, <1>2, <1>3, TableAddsUp, TableIsNear
<1>4. ASSUME NEW c \in Cameras, NEW d \in Cameras, c # d
      PROVE  Merged(Clock(model, PerCamera(model, c)), Clock(model, PerCamera(model, d)))
               = Clock(model, PerCamera(model, c) \cup PerCamera(model, d))
  <2>. DEFINE P == PerCamera(model, c)
              Q == PerCamera(model, d)
  <2>1. P \in SUBSET DOMAIN model.seen /\ Q \in SUBSET DOMAIN model.seen /\ P \cap Q = {}
    BY <1>4 DEF PerCamera
  <2>2. P \cup Q \in SUBSET DOMAIN model.seen
    BY <2>1
  <2>. HIDE DEF P, Q
  <2>3. Merged(Table(model, P), Table(model, Q)) = Table(model, P \cup Q)
    BY <2>1, TablesMerge
  <2>4. /\ Clock(model, P) = Table(model, P) /\ Clock(model, Q) = Table(model, Q)
        /\ Clock(model, P \cup Q) = Table(model, P \cup Q)
    BY <1>2, <2>1, <2>2
  <2>5. Merged(Clock(model, P), Clock(model, Q)) = Clock(model, P \cup Q)
    BY <2>3, <2>4
  <2>. QED
    BY <2>5 DEF P, Q
<1>. QED
  BY <1>3, <1>4

-----------------------------------------------------------------------------
(* Events derived from rows begin when a row did, and in order.             *)

RowType == [sensor : Sensors, at : Nat, on : BOOLEAN]
Moments == Nat \cup {Open}
Yields == [from : Nat, until : Moments]
RunType == [from : Moments, until : Moments, opener : Sensors \cup {Open}, out : Seq(Yields)]

RowsApart(told) ==
    told \in Seq(RowType) /\ \A i, j \in DOMAIN told : told[i].at = told[j].at => i = j

\* `t` is when a row among S did, of the camera and kind g.
Dated(g, told, S, t) ==
    \E i \in S : told[i].at = t /\ <<CameraOf[told[i].sensor], KindOf[told[i].sensor]>> = g

Begun(g, told, S, out) ==
    /\ out \in Seq(Yields)
    /\ \A j \in DOMAIN out : Dated(g, told, S, out[j].from)
    /\ \A j, k \in DOMAIN out : out[j].from = out[k].from => j = k

RunFits(g, told, S, run) ==
    /\ run \in RunType
    /\ Begun(g, told, S, run.out)
    /\ run.from # Open => /\ Dated(g, told, S, run.from)
                          /\ \A j \in DOMAIN run.out : run.out[j].from # run.from

LEMMA YieldedBegun ==
    ASSUME NEW g, NEW told, RowsApart(told), NEW S \in SUBSET DOMAIN told,
           NEW run, RunFits(g, told, S, run), run.from # Open, NEW until \in Moments
    PROVE  Begun(g, told, S, Yielded(run, until))
<1>. DEFINE new == [from |-> run.from, until |-> until]
            out == run.out
            more == Append(out, new)
<1>1. run.from \in Nat /\ out \in Seq(Yields)
  BY DEF RunFits, RunType, Moments
<1>2. new \in Yields /\ new.from = run.from
  BY <1>1 DEF Yields
<1>3. /\ more \in Seq(Yields) /\ DOMAIN more = 1..(Len(out) + 1) /\ DOMAIN out = 1..Len(out)
      /\ Len(out) \in Nat /\ more[Len(out) + 1] = new
      /\ \A j \in 1..Len(out) : more[j] = out[j]
  <2>. HIDE DEF out, new
  <2>. QED
    BY <1>1, <1>2
<1>4. /\ \A j \in DOMAIN out : Dated(g, told, S, out[j].from) /\ out[j].from # run.from
      /\ \A j, k \in DOMAIN out : out[j].from = out[k].from => j = k
      /\ Dated(g, told, S, run.from)
  BY DEF RunFits, Begun
<1>5. \A j \in DOMAIN more : j \in DOMAIN out \/ j = Len(out) + 1
  BY <1>3
<1>6. \A j \in DOMAIN more : Dated(g, told, S, more[j].from)
  <2>. HIDE DEF more, out, new
  <2>. QED
    BY <1>2, <1>3, <1>4, <1>5
<1>7. \A j, k \in DOMAIN more : more[j].from = more[k].from => j = k
  <2>. HIDE DEF more, out, new
  <2>. QED
    BY <1>2, <1>3, <1>4, <1>5
<1>. QED
  BY <1>3, <1>6, <1>7 DEF Begun, Yielded

LEMMA NoRunFits ==
    ASSUME NEW g, NEW told, NEW S, NEW out, Begun(g, told, S, out)
    PROVE  RunFits(g, told, S, NoRun(out))
  BY DEF RunFits, NoRun, Begun, RunType, Moments

\* More rows date what fewer did.
LEMMA FitsMore ==
    ASSUME NEW g, NEW told, NEW T, NEW S \in SUBSET T, NEW run, RunFits(g, told, S, run)
    PROVE  RunFits(g, told, T, run)
<1>1. \A t : Dated(g, told, S, t) => Dated(g, told, T, t)
  BY DEF Dated
<1>. QED
  BY <1>1 DEF RunFits, Begun

LEMMA FinishedFits ==
    ASSUME NEW g, NEW told, RowsApart(told), NEW S \in SUBSET DOMAIN told,
           NEW run, RunFits(g, told, S, run), NEW row
    PROVE  RunFits(g, told, S, Finished(run, row))
<1>1. run.until \in Moments
  BY DEF RunFits, RunType
<1>2. run.from # Open => RunFits(g, told, S, NoRun(Yielded(run, run.until)))
  BY <1>1, YieldedBegun, NoRunFits
<1>. QED
  BY <1>2 DEF Finished

LEMMA ClearedFits ==
    ASSUME NEW g, NEW told, NEW S, NEW run, RunFits(g, told, S, run), NEW row \in RowType
    PROVE  RunFits(g, told, S, Cleared(run, row))
<1>1. run \in RunType /\ row.at \in Moments
  BY DEF RunFits, RowType, Moments
<1>. DEFINE q == [run EXCEPT !.until = row.at]
<1>2. q \in RunType /\ q.from = run.from /\ q.out = run.out
  BY <1>1 DEF RunType
<1>3. RunFits(g, told, S, q)
  <2>. HIDE DEF q
  <2>. QED
    BY <1>2 DEF RunFits
<1>. QED
  BY <1>3 DEF Cleared

LEMMA CutFits ==
    ASSUME NEW g, NEW told, RowsApart(told), NEW S \in SUBSET DOMAIN told,
           NEW run, RunFits(g, told, S, run), NEW row \in RowType
    PROVE  RunFits(g, told, S, Cut(run, row))
<1>. DEFINE ended == IF run.until # Open THEN run.until ELSE row.at
            limit == run.from + LongestRun
            end == IF ended < limit THEN ended ELSE limit
<1>1. ASSUME run.from # Open PROVE end \in Moments
  <2>1. run.from \in Nat /\ run.until \in Moments /\ row.at \in Nat /\ LongestRun \in Nat
    BY <1>1, EventsAssumption DEF RunFits, RunType, RowType, Moments
  <2>. QED
    BY <2>1 DEF Moments
<1>2. run.from # Open => RunFits(g, told, S, NoRun(Yielded(run, end)))
  <2>. HIDE DEF end
  <2>. QED
    BY <1>1, YieldedBegun, NoRunFits
<1>. QED
  BY <1>2 DEF Cut

\* A row opens a run at its own time, which no other row has.
LEMMA OpenedFits ==
    ASSUME NEW g, NEW told, RowsApart(told), NEW S \in SUBSET DOMAIN told, NEW m \in DOMAIN told,
           m \notin S, NEW run, RunFits(g, told, S, run),
           <<CameraOf[told[m].sensor], KindOf[told[m].sensor]>> = g
    PROVE  RunFits(g, told, S \cup {m}, Opened(run, told[m]))
<1>. DEFINE T == S \cup {m}
            row == told[m]
<1>1. row \in RowType /\ row.at \in Nat /\ row.sensor \in Sensors /\ run \in RunType
  <2>1. row \in RowType
    BY DEF RowsApart
  <2>. HIDE DEF row
  <2>. QED
    BY <2>1 DEF RunFits, RowType
<1>2. RunFits(g, told, T, run)
  BY FitsMore
<1>3. CASE run.from = Open
  <2>. DEFINE q == [run EXCEPT !.from = row.at, !.until = Open, !.opener = row.sensor]
  <2>1. q \in RunType /\ q.from = row.at /\ q.out = run.out
    BY <1>1 DEF RunType, Moments
  <2>2. Dated(g, told, T, row.at)
    BY DEF Dated
  <2>3. ASSUME NEW j \in DOMAIN run.out PROVE run.out[j].from # row.at
    <3>1. PICK i \in S : told[i].at = run.out[j].from
      BY DEF RunFits, Begun, Dated
    <3>2. i \in DOMAIN told /\ i # m
      BY <3>1
    <3>. QED
      BY <3>1, <3>2 DEF RowsApart
  <2>4. Begun(g, told, T, run.out)
    BY <1>2 DEF RunFits
  <2>5. RunFits(g, told, T, q)
    <3>. HIDE DEF q, row, T
    <3>. QED
      BY <2>1, <2>2, <2>3, <2>4 DEF RunFits
  <2>. QED
    BY <1>3, <2>5 DEF Opened
<1>4. CASE run.from # Open
  <2>. DEFINE q == [run EXCEPT !.until = Open]
  <2>1. q \in RunType /\ q.from = run.from /\ q.out = run.out
    BY <1>1 DEF RunType, Moments
  <2>2. RunFits(g, told, T, q)
    <3>. HIDE DEF q, T
    <3>. QED
      BY <1>2, <2>1 DEF RunFits
  <2>. QED
    BY <1>2, <1>4, <2>2 DEF Opened
<1>. QED
  BY <1>3, <1>4

LEMMA FoldedFits ==
    ASSUME NEW g, NEW told, RowsApart(told), NEW S \in SUBSET DOMAIN told, NEW m \in DOMAIN told,
           m \notin S, NEW run, RunFits(g, told, S, run)
    PROVE  RunFits(g, told, S \cup {m}, Folded(g, run, told[m]))
<1>. DEFINE T == S \cup {m}
            row == told[m]
            before == Finished(run, row)
<1>1. T \in SUBSET DOMAIN told /\ row \in RowType
  BY DEF RowsApart
<1>2. CASE <<CameraOf[row.sensor], KindOf[row.sensor]>> # g
  <2>1. RunFits(g, told, T, run)
    BY FitsMore
  <2>. QED
    BY <1>2, <2>1 DEF Folded
<1>3. CASE <<CameraOf[row.sensor], KindOf[row.sensor]>> = g
  <2>1. RunFits(g, told, S, before)
    BY FinishedFits
  <2>2. RunFits(g, told, T, Opened(before, row)) /\ RunFits(g, told, T, Cleared(before, row))
    <3>1. RunFits(g, told, T, Opened(before, row))
      <4>. HIDE DEF before
      <4>. QED
        BY <1>3, <2>1, OpenedFits
    <3>2. RunFits(g, told, T, before)
      BY <2>1, FitsMore
    <3>. HIDE DEF before, row, T
    <3>. QED
      BY <1>1, <3>1, <3>2, ClearedFits
  <2>. DEFINE after == IF row.on THEN Opened(before, row) ELSE Cleared(before, row)
  <2>3. RunFits(g, told, T, after)
    BY <2>2
  <2>4. RunFits(g, told, T, Cut(after, row))
    <3>. HIDE DEF after, row, T
    <3>. QED
      BY <1>1, <2>3, CutFits
  <2>5. Folded(g, run, row) = Cut(after, row)
    BY <1>3 DEF Folded
  <2>. QED
    BY <2>4, <2>5
<1>. QED
  BY <1>2, <1>3

\* The greatest of finitely many numbers is one of them.
LEMMA LatestIsOne ==
    \A S \in SUBSET Nat : IsFiniteSet(S) /\ S # {} => Max(S) \in S /\ \A y \in S : Max(S) >= y
<1>1. SUFFICES ASSUME NEW S \in SUBSET Nat, IsFiniteSet(S), S # {}
               PROVE  \E x \in S : \A y \in S : x >= y
  BY DEF Max
<1>. DEFINE Good == {T \in SUBSET S : T # {} => \E x \in T : \A y \in T : x >= y}
<1>2. ASSUME NEW T \in SUBSET S, \A U \in SUBSET T : U # T => U \in Good
      PROVE  T \in Good
  <2>1. SUFFICES ASSUME T # {} PROVE \E x \in T : \A y \in T : x >= y
    OBVIOUS
  <2>2. PICK z \in T : TRUE
    BY <2>1
  <2>3. T \ {z} \in Good
    BY <1>2
  <2>4. CASE T \ {z} = {}
    <3>1. \A y \in T : y = z
      BY <2>4
    <3>2. z \in Nat
      OBVIOUS
    <3>. QED
      BY <3>1, <3>2
  <2>5. CASE T \ {z} # {}
    <3>1. PICK x \in T \ {z} : \A y \in T \ {z} : x >= y
      BY <2>3, <2>5
    <3>2. \A y \in T : y \in Nat /\ (y = z \/ x >= y)
      BY <3>1
    <3>3. x \in Nat /\ z \in Nat /\ x \in T
      OBVIOUS
    <3>4. CASE x >= z
      BY <3>2, <3>3, <3>4
    <3>5. CASE z >= x
      BY <3>2, <3>3, <3>5
    <3>. QED
      BY <3>3, <3>4, <3>5
  <2>. QED
    BY <2>4, <2>5
<1>3. \A T \in SUBSET S : T \in Good
  <2>1. Good \in SUBSET (SUBSET S)
    OBVIOUS
  <2>. HIDE DEF Good
  <2>. QED
    BY <1>1, <1>2, <2>1, SubsetInduction
<1>. QED
  BY <1>1, <1>3

\* Folding any of the rows, the latest last.
RunsOf(h, g, told, T) ==
    h = [S \in SUBSET T |-> IF S = {} THEN NoRun(<<>>) ELSE Folded(g, h[S \ {Max(S)}], told[Max(S)])]

LEMMA RunsFold ==
    ASSUME NEW g, NEW told, RowsApart(told)
    PROVE  \E h : /\ RunsOf(h, g, told, DOMAIN told)
                 /\ FoldedAll(g, told) = h[DOMAIN told]
                 /\ \A S \in SUBSET DOMAIN told : RunFits(g, told, S, h[S])
<1>. DEFINE D == DOMAIN told
            nothing == NoRun(<<>>)
            latest == [S \in SUBSET D |-> Max(S)]
            step == [p \in RunType \X D |-> Folded(g, p[1], told[p[2]])]
<1>0. Len(told) \in Nat /\ D = 1..Len(told)
  BY DEF RowsApart
<1>1. IsFiniteSet(D)
  BY <1>0, FS_Interval
<1>2. \A S \in SUBSET D : S # {} => Max(S) \in S
  <2>1. \A S \in SUBSET D : IsFiniteSet(S) /\ S \in SUBSET Nat
    BY <1>0, <1>1, FS_Subset
  <2>. QED
    BY <2>1, LatestIsOne
<1>3. RunFits(g, told, {}, nothing)
  <2>1. <<>> \in Seq(Yields) /\ DOMAIN <<>> = {}
    OBVIOUS
  <2>2. Begun(g, told, {}, <<>>)
    BY <2>1 DEF Begun
  <2>. QED
    BY <2>2, NoRunFits
<1>4. ASSUME NEW S \in SUBSET D, S # {}, NEW run, RunFits(g, told, S \ {Max(S)}, run)
      PROVE  RunFits(g, told, S, Folded(g, run, told[Max(S)]))
  <2>. DEFINE m == Max(S)
              U == S \ {m}
  <2>1. m \in S /\ m \in D /\ m \notin U /\ U \in SUBSET DOMAIN told /\ U \cup {m} = S
    BY <1>2, <1>4
  <2>. HIDE DEF m
  <2>2. RunFits(g, told, U, run)
    BY <1>4 DEF m
  <2>. HIDE DEF U
  <2>3. RunFits(g, told, U \cup {m}, Folded(g, run, told[m]))
    BY <2>1, <2>2, FoldedFits
  <2>. QED
    BY <2>1, <2>3 DEF m
<1>5. ASSUME NEW h, RunsOf(h, g, told, D) PROVE \A S \in SUBSET D : RunFits(g, told, S, h[S])
  <2>. DEFINE Good == {S \in SUBSET D : RunFits(g, told, S, h[S])}
  <2>1. ASSUME NEW S \in SUBSET D, \A U \in SUBSET S : U # S => U \in Good
        PROVE  S \in Good
    <3>1. CASE S = {}
      <4>1. h[S] = nothing
        BY <1>5, <3>1 DEF RunsOf
      <4>. QED
        BY <1>3, <3>1, <4>1
    <3>2. CASE S # {}
      <4>1. h[S] = Folded(g, h[S \ {Max(S)}], told[Max(S)])
        BY <1>5, <3>2 DEF RunsOf
      <4>2. S \ {Max(S)} \in Good
        BY <1>2, <2>1, <3>2
      <4>. QED
        BY <1>4, <3>2, <4>1, <4>2
    <3>. QED
      BY <3>1, <3>2
  <2>2. Good \in SUBSET (SUBSET D)
    OBVIOUS
  <2>3. \A S \in SUBSET D : S \in Good
    <3>. HIDE DEF Good, D
    <3>. QED
      BY <1>1, <2>1, <2>2, SubsetInduction
  <2>. QED
    BY <2>3
<1>6. \E h : RunsOf(h, g, told, D)
  <2>1. PICK r : Folds(r, D, latest, nothing, step)
    <3>1. \A S \in SUBSET D : S # {} => latest[S] \in S
      BY <1>2
    <3>. HIDE DEF latest, nothing, step
    <3>. QED
      BY <1>1, <3>1, FoldsExist
  <2>2. ASSUME NEW S \in SUBSET D, S # {}, RunFits(g, told, S \ {Max(S)}, r[S \ {Max(S)}])
        PROVE  r[S] = Folded(g, r[S \ {Max(S)}], told[Max(S)])
    <3>. DEFINE p == <<r[S \ {Max(S)}], Max(S)>>
    <3>1. latest[S] = Max(S) /\ Max(S) \in D
      BY <1>2, <2>2
    <3>2. r[S] = step[p]
      <4>. HIDE DEF latest, step, nothing
      <4>. QED
        BY <2>1, <2>2, <3>1 DEF Folds
    <3>3. p \in RunType \X D /\ p[1] = r[S \ {Max(S)}] /\ p[2] = Max(S)
      BY <2>2, <3>1 DEF RunFits
    <3>4. step[p] = Folded(g, p[1], told[p[2]])
      <4>. HIDE DEF p
      <4>. QED
        BY <3>3
    <3>. HIDE DEF p, step
    <3>. QED
      BY <3>2, <3>3, <3>4
  <2>3. r[{}] = nothing
    <3>. HIDE DEF nothing, latest, step
    <3>. QED
      BY <2>1 DEF Folds
  <2>. DEFINE Good == {S \in SUBSET D : RunFits(g, told, S, r[S])}
  <2>4. ASSUME NEW S \in SUBSET D, \A U \in SUBSET S : U # S => U \in Good
        PROVE  S \in Good
    <3>1. CASE S = {}
      BY <1>3, <2>3, <3>1
    <3>2. CASE S # {}
      <4>1. S \ {Max(S)} \in Good
        BY <1>2, <2>4, <3>2
      <4>2. r[S] = Folded(g, r[S \ {Max(S)}], told[Max(S)])
        BY <2>2, <3>2, <4>1
      <4>. QED
        BY <1>4, <3>2, <4>1, <4>2
    <3>. QED
      BY <3>1, <3>2
  <2>5. \A S \in SUBSET D : RunFits(g, told, S, r[S])
    <3>1. Good \in SUBSET (SUBSET D)
      OBVIOUS
    <3>2. \A S \in SUBSET D : S \in Good
      <4>. HIDE DEF Good, D
      <4>. QED
        BY <1>1, <2>4, <3>1, SubsetInduction
    <3>. QED
      BY <3>2
  <2>6. RunsOf(r, g, told, D)
    <3>1. r = [S \in SUBSET D |-> r[S]]
      BY <2>1 DEF Folds
    <3>2. \A S \in SUBSET D : r[S] = IF S = {} THEN nothing
                                     ELSE Folded(g, r[S \ {Max(S)}], told[Max(S)])
      <4>1. \A S \in SUBSET D : S \ {Max(S)} \in SUBSET D
        OBVIOUS
      <4>. HIDE DEF nothing
      <4>. QED
        BY <2>2, <2>3, <2>5, <4>1
    <3>. QED
      BY <3>1, <3>2 DEF RunsOf
  <2>. QED
    BY <2>6
<1>. DEFINE h == CHOOSE r : RunsOf(r, g, told, D)
<1>7. RunsOf(h, g, told, D)
  BY <1>6
<1>8. FoldedAll(g, told) = h[D]
  BY DEF FoldedAll, FoldLeft, MapThenFoldSet, RunsOf
<1>. HIDE DEF h
<1>9. \A S \in SUBSET D : RunFits(g, told, S, h[S])
  BY <1>5, <1>7
<1>. QED
  BY <1>7, <1>8, <1>9

LEMMA RunsFit ==
    ASSUME NEW g, NEW told, RowsApart(told)
    PROVE  RunFits(g, told, DOMAIN told, FoldedAll(g, told))
  BY RunsFold

\* The runs of a camera and kind begin when one of its rows did, no two at once.
LEMMA RunsAreDated ==
    ASSUME NEW g, NEW told, RowsApart(told)
    PROVE  Begun(g, told, DOMAIN told, Runs(g, told))
<1>. DEFINE run == FoldedAll(g, told)
<1>1. RunFits(g, told, DOMAIN told, run)
  BY RunsFit
<1>2. Runs(g, told) = IF run.from = Open THEN run.out ELSE Yielded(run, run.until)
  BY DEF Runs
<1>3. run.from # Open => Begun(g, told, DOMAIN told, Yielded(run, run.until))
  <2>1. run.until \in Moments
    BY <1>1 DEF RunFits, RunType
  <2>. QED
    BY <1>1, <2>1, YieldedBegun
<1>4. Begun(g, told, DOMAIN told, run.out)
  BY <1>1 DEF RunFits
<1>. QED
  BY <1>2, <1>3, <1>4

\* Counting the earlier ones numbers events of distinct times from 0 up.
LEMMA InOrderIs ==
    ASSUME NEW events, IsFiniteSet(events), \A e \in events : e.from \in Nat,
           \A e, f \in events : e.from = f.from => e = f
    PROVE  /\ Cardinality(events) \in Nat
           /\ DOMAIN InOrder(events) = 1..Cardinality(events)
           /\ \A i \in 1..Cardinality(events) : InOrder(events)[i] \in events
           /\ \A e \in events : \E i \in 1..Cardinality(events) : InOrder(events)[i] = e
           /\ \A i, j \in 1..Cardinality(events) :
                i < j => InOrder(events)[i].from < InOrder(events)[j].from
<1>. DEFINE n == Cardinality(events)
            Earlier(e) == {f \in events : f.from < e.from}
            rank == [e \in events |-> Cardinality(Earlier(e))]
<1>1. n \in Nat
  BY FS_CardinalityType
<1>2. \A e \in events : IsFiniteSet(Earlier(e)) /\ Cardinality(Earlier(e)) \in Nat
  <2>1. \A e \in events : IsFiniteSet(Earlier(e))
    BY FS_Subset
  <2>. HIDE DEF Earlier
  <2>. QED
    BY <2>1, FS_CardinalityType
<1>3. ASSUME NEW e \in events PROVE Cardinality(Earlier(e)) <= n - 1
  <2>1. Earlier(e) \in SUBSET (events \ {e})
    OBVIOUS
  <2>2. IsFiniteSet(events \ {e}) /\ Cardinality(events \ {e}) = n - 1
    BY FS_RemoveElement
  <2>3. Cardinality(Earlier(e)) <= Cardinality(events \ {e})
    <3>. DEFINE A == events \ {e}
                B == Earlier(e)
    <3>1. IsFiniteSet(A) /\ B \in SUBSET A
      BY <2>1, <2>2
    <3>. HIDE DEF A, B
    <3>2. Cardinality(B) <= Cardinality(A)
      BY <3>1, FS_Subset
    <3>. QED
      BY <3>2 DEF A, B
  <2>. QED
    BY <2>2, <2>3
<1>4. ASSUME NEW e \in events, NEW f \in events, e.from < f.from
      PROVE  Cardinality(Earlier(e)) < Cardinality(Earlier(f))
  <2>1. Earlier(e) \subseteq Earlier(f) /\ e \in Earlier(f) /\ e \notin Earlier(e)
    BY <1>4
  <2>. DEFINE A == Earlier(e)
              B == Earlier(f)
  <2>2. IsFiniteSet(A) /\ IsFiniteSet(B) /\ Cardinality(A) \in Nat /\ Cardinality(B) \in Nat
    BY <1>2
  <2>3. A \in SUBSET B /\ A # B
    BY <2>1
  <2>. HIDE DEF A, B
  <2>4. Cardinality(A) <= Cardinality(B) /\ Cardinality(A) # Cardinality(B)
    BY <2>2, <2>3, FS_Subset
  <2>5. Cardinality(A) < Cardinality(B)
    BY <2>2, <2>4
  <2>. QED
    BY <2>5 DEF A, B
<1>5. rank \in [events -> 0..(n - 1)]
  <2>1. \A e \in events : Cardinality(Earlier(e)) \in 0..(n - 1)
    <3>. HIDE DEF Earlier, n
    <3>. QED
      BY <1>1, <1>2, <1>3
  <2>. QED
    BY <2>1
<1>6. \A e, f \in events : rank[e] = rank[f] => e = f
  <2>1. SUFFICES ASSUME NEW e \in events, NEW f \in events, rank[e] = rank[f], e # f PROVE FALSE
    OBVIOUS
  <2>2. e.from < f.from \/ f.from < e.from
    BY <2>1
  <2>3. Cardinality(Earlier(e)) = Cardinality(Earlier(f))
    BY <2>1
  <2>4. Cardinality(Earlier(e)) \in Nat /\ Cardinality(Earlier(f)) \in Nat
    BY <1>2
  <2>5. Cardinality(Earlier(e)) < Cardinality(Earlier(f)) \/ Cardinality(Earlier(f)) < Cardinality(Earlier(e))
    BY <1>4, <2>2
  <2>. QED
    BY <2>3, <2>4, <2>5
<1>7. rank \in Injection(events, 0..(n - 1))
  <2>1. DOMAIN rank = events
    OBVIOUS
  <2>. HIDE DEF rank
  <2>. QED
    BY <1>5, <1>6, <2>1 DEF Injection, IsInjective
<1>8. IsFiniteSet(0..(n - 1)) /\ Cardinality(0..(n - 1)) = n
  <2>1. /\ IsFiniteSet(0..(n - 1))
        /\ Cardinality(0..(n - 1)) = IF 0 > n - 1 THEN 0 ELSE (n - 1) - 0 + 1
    BY <1>1, FS_Interval
  <2>. QED
    BY <1>1, <2>1
<1>9. rank \in Surjection(events, 0..(n - 1))
  <2>. DEFINE R == 0..(n - 1)
  <2>1. rank \in Injection(events, R) /\ IsFiniteSet(R) /\ Cardinality(events) = Cardinality(R)
    BY <1>7, <1>8
  <2>. HIDE DEF rank, R
  <2>2. rank \in Surjection(events, R)
    BY <2>1, FS_Injection
  <2>. QED
    BY <2>2 DEF R
<1>10. ASSUME NEW i \in 1..n
       PROVE  InOrder(events)[i] \in events /\ rank[InOrder(events)[i]] = i - 1
  <2>1. i - 1 \in 0..(n - 1)
    BY <1>1
  <2>2. PICK e \in events : rank[e] = i - 1
    <3>. HIDE DEF rank
    <3>. QED
      BY <1>9, <2>1 DEF Surjection
  <2>3. Cardinality({f \in events : f.from < e.from}) = i - 1
    BY <2>2
  <2>. DEFINE it == CHOOSE d \in events : Cardinality({f \in events : f.from < d.from}) = i - 1
  <2>4. it \in events /\ Cardinality({f \in events : f.from < it.from}) = i - 1
    BY <2>3
  <2>5. InOrder(events)[i] = it
    BY DEF InOrder
  <2>. HIDE DEF it
  <2>6. rank[it] = i - 1
    BY <2>4
  <2>. QED
    BY <2>4, <2>5, <2>6
<1>11. ASSUME NEW e \in events PROVE \E i \in 1..n : InOrder(events)[i] = e
  <2>1. rank[e] \in 0..(n - 1)
    <3>. HIDE DEF rank
    <3>. QED
      BY <1>5
  <2>. HIDE DEF rank
  <2>2. rank[e] + 1 \in 1..n /\ (rank[e] + 1) - 1 = rank[e]
    BY <1>1, <2>1
  <2>. QED
    BY <1>6, <1>10, <2>2
<1>12. ASSUME NEW i \in 1..n, NEW j \in 1..n, i < j
       PROVE  InOrder(events)[i].from < InOrder(events)[j].from
  <2>. DEFINE e == InOrder(events)[i]
              f == InOrder(events)[j]
  <2>1. e \in events /\ f \in events /\ rank[e] = i - 1 /\ rank[f] = j - 1
    BY <1>10
  <2>. HIDE DEF e, f
  <2>2. rank[e] = Cardinality(Earlier(e)) /\ rank[f] = Cardinality(Earlier(f))
    BY <2>1
  <2>. HIDE DEF rank, Earlier
  <2>3. ~ (f.from < e.from)
    <3>1. f.from < e.from => Cardinality(Earlier(f)) < Cardinality(Earlier(e))
      BY <1>4, <2>1
    <3>. QED
      BY <1>12, <2>1, <2>2, <3>1
  <2>4. e # f
    BY <1>12, <2>1
  <2>5. e.from # f.from
    BY <2>1, <2>4
  <2>6. e.from < f.from
    BY <2>1, <2>3, <2>5
  <2>. QED
    BY <2>6 DEF e, f
<1>13. DOMAIN InOrder(events) = 1..n
  BY DEF InOrder
<1>. HIDE DEF rank, Earlier, n
<1>. QED
  BY <1>1, <1>10, <1>11, <1>12, <1>13 DEF n

EventsOf(told) ==
    UNION {{[camera |-> g[1], kind |-> g[2], from |-> run.from, until |-> run.until] :
                run \in ToSet(Runs(g, told))} : g \in Groups}

\* Events are finitely many, and no two begin at once.
LEMMA EventsAre ==
    ASSUME NEW told, RowsApart(told)
    PROVE  /\ IsFiniteSet(EventsOf(told)) /\ Derive(told) = InOrder(EventsOf(told))
           /\ \A e \in EventsOf(told) : e.from \in Nat
           /\ \A e, f \in EventsOf(told) : e.from = f.from => e = f
<1>. DEFINE D == DOMAIN told
            Of(g) == {[camera |-> g[1], kind |-> g[2], from |-> run.from, until |-> run.until] :
                        run \in ToSet(Runs(g, told))}
            events == UNION {Of(g) : g \in Groups}
<1>1. \A g : Begun(g, told, D, Runs(g, told))
  BY RunsAreDated
<1>2. ASSUME NEW g \in Groups, NEW e \in Of(g)
      PROVE  /\ e.from \in Nat /\ Dated(g, told, D, e.from)
             /\ \A f \in Of(g) : f.from = e.from => f = e
  <2>. DEFINE out == Runs(g, told)
  <2>1. /\ out \in Seq(Yields) /\ \A j \in DOMAIN out : Dated(g, told, D, out[j].from)
        /\ \A j, k \in DOMAIN out : out[j].from = out[k].from => j = k
    BY <1>1 DEF Begun
  <2>2. \A f \in Of(g) : \E j \in DOMAIN out :
            f = [camera |-> g[1], kind |-> g[2], from |-> out[j].from, until |-> out[j].until]
    BY DEF ToSet
  <2>3. PICK j \in DOMAIN out :
            e = [camera |-> g[1], kind |-> g[2], from |-> out[j].from, until |-> out[j].until]
    BY <2>2
  <2>4. out[j] \in Yields
    BY <2>1
  <2>5. e.from = out[j].from /\ out[j].from \in Nat
    BY <2>3, <2>4 DEF Yields
  <2>6. ASSUME NEW f \in Of(g), f.from = e.from PROVE f = e
    <3>1. PICK k \in DOMAIN out :
              f = [camera |-> g[1], kind |-> g[2], from |-> out[k].from, until |-> out[k].until]
      BY <2>2
    <3>2. out[k].from = out[j].from
      BY <2>5, <2>6, <3>1
    <3>3. k = j
      BY <2>1, <3>2
    <3>. QED
      BY <2>3, <3>1, <3>3
  <2>. QED
    BY <2>1, <2>5, <2>6
<1>3. \A e \in events : \E g \in Groups : e \in Of(g)
  OBVIOUS
<1>4. \A e, f \in events : e.from = f.from => e = f
  <2>. HIDE DEF Of
  <2>1. SUFFICES ASSUME NEW g \in Groups, NEW h \in Groups, NEW e \in Of(g), NEW f \in Of(h),
                        e.from = f.from
                 PROVE  e = f
    BY <1>3
  <2>2. PICK i \in D : /\ told[i].at = e.from
                       /\ <<CameraOf[told[i].sensor], KindOf[told[i].sensor]>> = g
    BY <1>2 DEF Dated
  <2>3. PICK j \in D : /\ told[j].at = f.from
                       /\ <<CameraOf[told[j].sensor], KindOf[told[j].sensor]>> = h
    BY <1>2 DEF Dated
  <2>4. i = j
    BY <2>1, <2>2, <2>3 DEF RowsApart
  <2>5. g = h
    BY <2>2, <2>3, <2>4
  <2>. QED
    BY <1>2, <2>1, <2>5
<1>5. \A e \in events : e.from \in Nat /\ \E i \in D : told[i].at = e.from
  <2>1. \A g \in Groups : \A e \in Of(g) : e.from \in Nat /\ \E i \in D : told[i].at = e.from
    <3>. HIDE DEF Of
    <3>. QED
      BY <1>2 DEF Dated
  <2>. HIDE DEF Of
  <2>. QED
    BY <1>3, <2>1
<1>6. IsFiniteSet(events)
  <2>. DEFINE row == [e \in events |-> CHOOSE i \in D : told[i].at = e.from]
  <2>. HIDE DEF events
  <2>1. row \in [events -> D] /\ \A e \in events : told[row[e]].at = e.from
    BY <1>5
  <2>2. row \in Injection(events, D)
    <3>1. DOMAIN row = events
      OBVIOUS
    <3>. HIDE DEF row
    <3>. QED
      BY <1>4, <2>1, <3>1 DEF Injection, IsInjective
  <2>3. IsFiniteSet(D)
    <3>1. D = 1..Len(told) /\ Len(told) \in Nat
      BY DEF RowsApart
    <3>. QED
      BY <3>1, FS_Interval
  <2>. HIDE DEF row, D
  <2>. QED
    BY <2>2, <2>3, FS_Injection
<1>7. Derive(told) = InOrder(events) /\ events = EventsOf(told)
  BY DEF Derive, EventsOf
<1>. HIDE DEF events
<1>. QED
  BY <1>4, <1>5, <1>6, <1>7

LEMMA DeriveIs ==
    ASSUME NEW told, RowsApart(told)
    PROVE  /\ IsFiniteSet(DOMAIN Derive(told))
           /\ \A i \in DOMAIN Derive(told) : Derive(told)[i].from \in Nat
<1>. DEFINE events == EventsOf(told)
<1>1. /\ IsFiniteSet(events) /\ Derive(told) = InOrder(events)
      /\ \A e \in events : e.from \in Nat
      /\ \A e, f \in events : e.from = f.from => e = f
  BY EventsAre
<1>. HIDE DEF events
<1>2. /\ Cardinality(events) \in Nat
      /\ DOMAIN InOrder(events) = 1..Cardinality(events)
      /\ \A i \in 1..Cardinality(events) : InOrder(events)[i] \in events
  BY <1>1, InOrderIs
<1>. QED
  BY <1>1, <1>2, FS_Interval

-----------------------------------------------------------------------------
(* What the model is learned from.                                          *)

LEMMA DivisionGrows ==
    ASSUME NEW n \in Nat \ {0}, NEW a \in Int, NEW b \in Int, a <= b
    PROVE  a \div n <= b \div n
<1>. DEFINE p == a \div n
            q == b \div n
            x == p * n
            y == q * n
<1>1. p \in Int /\ q \in Int /\ a % n \in 0..(n - 1) /\ b % n \in 0..(n - 1)
      /\ a % n = a - x /\ b % n = b - y
  BY Divided
<1>2. x \in Int /\ y \in Int
  BY <1>1
<1>3. x - y < n
  <2>. HIDE DEF x, y, p, q
  <2>. QED
    BY <1>1, <1>2
<1>4. SUFFICES ASSUME p >= q + 1 PROVE FALSE
  <2>. HIDE DEF p, q
  <2>1. p <= q
    BY <1>1, <1>4
  <2>. QED
    BY <2>1 DEF p, q
<1>5. x - y >= n
  <2>. HIDE DEF p, q
  <2>1. (p - q) * n >= n /\ (p - q) * n = p * n - q * n
    BY <1>1, <1>4
  <2>. QED
    BY <2>1
<1>. HIDE DEF x, y
<1>. QED
  BY <1>2, <1>3, <1>5

\* Nothing is so old that it counts for nothing.
LEMMA RecencyIs ==
    ASSUME NEW at \in 0..MaxTime, NEW from \in Nat
    PROVE  Recency((at - from) \div Day) \in Nat \ {0}
<1>. DEFINE age == (at - from) \div Day
<1>1. /\ Day \in Nat \ {0} /\ MaxTime \in Nat /\ at \in Int /\ from \in Int
      /\ at - from \in Int /\ at - from <= MaxTime
  <2>1. Day \in Nat \ {0}
    BY BinsAre
  <2>2. MaxTime \in Nat
    BY RatesAssumption
  <2>. QED
    BY <2>1, <2>2
<1>2. 0 \div Day = 0
  <2>1. PICK r \in 0..(Day - 1) : r = 0
    BY <1>1
  <2>2. PICK q \in Int : q = 0
    OBVIOUS
  <2>3. r = q * Day + r
    BY <1>1, <2>1, <2>2
  <2>4. r \div Day = q
    <3>. HIDE <2>1, <2>2
    <3>. QED
      BY <1>1, <2>3, Remainder
  <2>. QED
    BY <2>1, <2>2, <2>4
<1>3. age \in Int /\ MaxTime \div Day \in Int /\ age <= MaxTime \div Day
      /\ 0 <= MaxTime \div Day
  <2>1. age \in Int /\ MaxTime \div Day \in Int
    BY <1>1, Divided
  <2>2. age <= MaxTime \div Day
    BY <1>1, DivisionGrows
  <2>3. 0 \div Day <= MaxTime \div Day
    BY <1>1, DivisionGrows
  <2>. QED
    BY <1>2, <2>1, <2>2, <2>3
<1>4. CASE age >= 0
  <2>1. age \in 0..(MaxTime \div Day)
    BY <1>3, <1>4
  <2>. HIDE DEF age
  <2>2. Recency(age) \in Nat \ {0}
    BY <2>1, RecencyAssumption
  <2>. QED
    BY <2>2 DEF age
<1>5. CASE age < 0
  <2>1. 0 \in 0..(MaxTime \div Day)
    BY <1>3
  <2>2. Recency(0) \in Nat \ {0}
    BY <2>1, RecencyAssumption
  <2>3. Recency(age) = Recency(0)
    <3>. HIDE DEF age
    <3>1. (IF age < 0 THEN 0 ELSE age) = 0 /\ (IF 0 < 0 THEN 0 ELSE 0) = 0
      BY <1>5
    <3>. QED
      BY <3>1 DEF Recency
  <2>. QED
    BY <2>2, <2>3
<1>. QED
  BY <1>3, <1>4, <1>5

LEMMA BuildLearns ==
    ASSUME NEW told, RowsApart(told), NEW at \in 0..MaxTime
    PROVE  Learned(Build(Derive(told), at))
<1>. DEFINE events == Derive(told)
            model == Build(events, at)
<1>1. /\ DOMAIN model.seen = DOMAIN events
      /\ \A i \in DOMAIN events : /\ model.seen[i].event = events[i]
                                  /\ model.seen[i].weight = Recency((at - events[i].from) \div Day)
  <2>. HIDE DEF events
  <2>. QED
    BY DEF Build
<1>2. IsFiniteSet(DOMAIN events) /\ \A i \in DOMAIN events : events[i].from \in Nat
  BY DeriveIs
<1>3. ASSUME NEW i \in DOMAIN events
      PROVE  model.seen[i].weight \in Nat \ {0} /\ model.seen[i].event.from \in Nat
  <2>1. events[i].from \in Nat
    BY <1>2
  <2>2. Recency((at - events[i].from) \div Day) \in Nat \ {0}
    BY <2>1, RecencyIs
  <2>. HIDE DEF model, events
  <2>. QED
    BY <1>1, <2>1, <2>2
<1>. HIDE DEF model
<1>4. Learned(model)
  BY <1>1, <1>2, <1>3 DEF Learned
<1>. QED
  BY <1>4 DEF model

\* The journal is in order of time, and the model was learned from a part of it that was.
LogFits ==
    /\ time \in 0..MaxTime /\ builtAt \in 0..MaxTime
    /\ log \in Seq(RowType)
    /\ \A i \in DOMAIN log : log[i].at <= time
    /\ \A i, j \in DOMAIN log : i < j => log[i].at < log[j].at
    /\ built = NotBuilt \/ built \in 0..Len(log)

LEMMA LogFitsAtFirst == AnalysisInit => LogFits
<1>1. 0 \in 0..MaxTime
  BY RatesAssumption
<1>2. <<>> \in Seq(RowType) /\ DOMAIN <<>> = {}
  OBVIOUS
<1>. QED
  BY <1>1, <1>2 DEF AnalysisInit, LogFits

LEMMA LogFitsAfter == LogFits /\ [AnalysisNext]_analysisVars => LogFits'
<1>. SUFFICES ASSUME LogFits, [AnalysisNext]_analysisVars PROVE LogFits'
  OBVIOUS
<1>1. ASSUME NEW s \in Sensors, NEW on \in BOOLEAN, NEW after \in 1..(MergeWindow + 1),
             Change(s, on, after)
      PROVE  LogFits'
  <2>. DEFINE row == [sensor |-> s, at |-> time + after, on |-> on]
              n == Len(log)
  <2>1. MergeWindow \in Nat /\ MaxTime \in Nat /\ time \in Nat /\ after \in Nat /\ after >= 1
    BY EventsAssumption, RatesAssumption DEF LogFits
  <2>2. time' \in 0..MaxTime /\ time' = time + after /\ time < time' /\ time' \in Nat
    BY <1>1, <2>1 DEF Change
  <2>3. row \in RowType /\ row.at = time'
    BY <2>1, <2>2 DEF RowType
  <2>4. log' = Append(log, row) /\ log \in Seq(RowType) /\ n \in Nat
    BY <1>1 DEF Change, LogFits
  <2>5. /\ log' \in Seq(RowType) /\ Len(log') = n + 1 /\ DOMAIN log' = 1..(n + 1)
        /\ DOMAIN log = 1..n /\ log'[n + 1] = row /\ \A i \in 1..n : log'[i] = log[i]
    <3>. HIDE DEF row
    <3>. QED
      BY <2>3, <2>4
  <2>6. \A i \in 1..n : log[i].at <= time /\ log[i].at \in Nat
    <3>1. \A i \in 1..n : log[i] \in RowType
      BY <2>4
    <3>. QED
      BY <2>5, <3>1 DEF LogFits, RowType
  <2>7. \A i \in DOMAIN log' : i \in 1..n \/ i = n + 1
    BY <2>4, <2>5
  <2>8. \A i \in 1..n : log'[i].at < time'
    <3>1. \A i \in 1..n : log[i].at < time'
      BY <2>1, <2>2, <2>6
    <3>. QED
      BY <2>5, <3>1
  <2>9. log'[n + 1].at = time'
    BY <2>3, <2>5
  <2>10. \A i \in DOMAIN log' : log'[i].at <= time'
    <3>1. \A i \in 1..n : log'[i].at <= time'
      <4>1. \A i \in 1..n : log[i].at <= time'
        BY <2>1, <2>2, <2>6
      <4>. QED
        BY <2>5, <4>1
    <3>2. log'[n + 1].at <= time'
      BY <2>2, <2>9
    <3>. HIDE DEF n
    <3>. QED
      BY <2>7, <3>1, <3>2
  <2>11. \A i, j \in DOMAIN log' : i < j => log'[i].at < log'[j].at
    <3>1. \A i, j \in 1..n : i < j => log'[i].at < log'[j].at
      <4>1. \A i, j \in 1..n : i < j => log[i].at < log[j].at
        BY <2>5 DEF LogFits
      <4>. QED
        BY <2>5, <4>1
    <3>2. \A i \in 1..n : ~ n + 1 < i
      BY <2>4
    <3>3. ~ n + 1 < n + 1
      BY <2>4
    <3>. HIDE DEF n
    <3>. QED
      BY <2>7, <2>8, <2>9, <3>1, <3>2, <3>3
  <2>12. built' = NotBuilt \/ built' \in 0..Len(log')
    <3>1. built' = built /\ (built = NotBuilt \/ built \in 0..n)
      BY <1>1 DEF Change, LogFits
    <3>. QED
      BY <2>4, <2>5, <3>1
  <2>13. builtAt' \in 0..MaxTime
    BY <1>1 DEF Change, LogFits
  <2>. QED
    BY <2>2, <2>5, <2>10, <2>11, <2>12, <2>13 DEF LogFits
<1>2. CASE Rebuild
  <2>1. Len(log) \in 0..Len(log)
    BY DEF LogFits
  <2>. QED
    BY <1>2, <2>1 DEF Rebuild, LogFits
<1>3. ASSUME NEW since, NEW until, Ask(since, until) PROVE LogFits'
  BY <1>3 DEF Ask, LogFits
<1>4. CASE UNCHANGED analysisVars
  BY <1>4 DEF analysisVars, LogFits
<1>. QED
  BY <1>1, <1>2, <1>3, <1>4 DEF AnalysisNext

LEMMA LogAlwaysFits == AnalysisSpec => []LogFits
  BY LogFitsAtFirst, LogFitsAfter, PTL DEF AnalysisSpec

\* The model as it is can be learned from.
LEMMA ModelIsLearned == LogFits /\ built # NotBuilt => Learned(ModelNow)
<1>. SUFFICES ASSUME LogFits, built # NotBuilt PROVE Learned(ModelNow)
  OBVIOUS
<1>. DEFINE told == SubSeq(log, 1, built)
<1>1. log \in Seq(RowType) /\ Len(log) \in Nat /\ built \in 0..Len(log) /\ DOMAIN log = 1..Len(log)
  BY DEF LogFits
<1>2. /\ told \in Seq(RowType) /\ DOMAIN told = 1..built
      /\ \A i \in 1..built : told[i] = log[i] /\ i \in DOMAIN log
  BY <1>1
<1>3. ASSUME NEW i \in DOMAIN told, NEW j \in DOMAIN told, told[i].at = told[j].at
      PROVE  i = j
  <2>1. /\ i \in DOMAIN log /\ j \in DOMAIN log /\ told[i] = log[i] /\ told[j] = log[j]
        /\ i \in Int /\ j \in Int
    BY <1>1, <1>2
  <2>2. log[i] \in RowType /\ log[j] \in RowType
    BY <1>1, <2>1
  <2>3. log[i].at \in Nat /\ log[j].at \in Nat /\ log[i].at = log[j].at
    BY <1>3, <2>1, <2>2 DEF RowType
  <2>4. (i < j => log[i].at < log[j].at) /\ (j < i => log[j].at < log[i].at)
    BY <2>1 DEF LogFits
  <2>. QED
    BY <2>1, <2>3, <2>4
<1>4. RowsApart(told)
  <2>. HIDE DEF told
  <2>. QED
    BY <1>2, <1>3 DEF RowsApart
<1>5. builtAt \in 0..MaxTime
  BY DEF LogFits
<1>6. ModelNow = Build(Derive(told), builtAt)
  BY DEF ModelNow
<1>. HIDE DEF told
<1>. QED
  BY <1>4, <1>5, <1>6, BuildLearns

\* `CircularRate.add` and `_merge`: whatever was detected and whenever the model was
\* learned, the bins of a clock table add up to its total, a bin has weight exactly when
\* something was seen near it, round midnight too, and cameras' tables merge into what one
\* camera that had seen all of it would have.
THEOREM RatesAreAlwaysConserved == AnalysisSpec => []RatesAreConserved
<1>1. LogFits => RatesAreConserved
  <2>. SUFFICES ASSUME LogFits, built # NotBuilt PROVE RatesAreConserved
    BY DEF RatesAreConserved
  <2>1. Learned(ModelNow)
    BY ModelIsLearned
  <2>. QED
    BY <2>1, ClocksAreConserved DEF RatesAreConserved
<1>. QED
  BY <1>1, LogAlwaysFits, PTL
-----------------------------------------------------------------------------
(* The runs row by row.                                                      *)

InTime(told) ==
    told \in Seq(RowType) /\ \A i, j \in DOMAIN told : i < j => told[i].at < told[j].at

LEMMA InTimeIs ==
    ASSUME NEW told, InTime(told)
    PROVE  /\ RowsApart(told) /\ Len(told) \in Nat /\ DOMAIN told = 1..Len(told)
           /\ \A i \in 1..Len(told) :
                told[i] \in RowType /\ told[i].at \in Nat /\ told[i].sensor \in Sensors
                /\ told[i].on \in BOOLEAN
<1>1. Len(told) \in Nat /\ DOMAIN told = 1..Len(told) /\ told \in Seq(RowType)
  BY DEF InTime
<1>2. ASSUME NEW i \in 1..Len(told)
      PROVE  told[i] \in RowType /\ told[i].at \in Nat /\ told[i].sensor \in Sensors
             /\ told[i].on \in BOOLEAN
  <2>1. told[i] \in RowType
    BY <1>1
  <2>. QED
    BY <2>1 DEF RowType
<1>3. ASSUME NEW i \in 1..Len(told), NEW j \in 1..Len(told), told[i].at = told[j].at
      PROVE  i = j
  <2>1. (i < j => told[i].at < told[j].at) /\ (j < i => told[j].at < told[i].at)
    BY <1>1 DEF InTime
  <2>2. told[i].at \in Nat /\ told[j].at \in Nat /\ i \in Nat /\ j \in Nat
    BY <1>2
  <2>. QED
    BY <1>3, <2>1, <2>2
<1>. QED
  BY <1>1, <1>2, <1>3 DEF RowsApart

\* What holds at first and of each next number holds up to the last.
LEMMA StepByStep ==
    ASSUME NEW n \in Nat, NEW first \in 0..n, NEW Good \in SUBSET Nat, first \in Good,
           \A k \in first..(n - 1) : k \in Good => k + 1 \in Good
    PROVE  \A k \in first..n : k \in Good
<1>1. \A S \in SUBSET Nat : S # {} => \E k \in S : \A m \in S : ~ (<<m, k>> \in OpToRel(<, Nat))
  BY WFMin, NatLessThanWellFounded, Zenon
<1>. DEFINE Bad == {k \in first..n : k \notin Good}
<1>2. SUFFICES ASSUME Bad # {} PROVE FALSE
  OBVIOUS
<1>3. Bad \in SUBSET Nat
  OBVIOUS
<1>4. PICK k \in Bad : \A m \in Bad : ~ (<<m, k>> \in OpToRel(<, Nat))
  <2>. HIDE DEF Bad
  <2>. QED
    BY <1>1, <1>2, <1>3
<1>5. k \in first..n /\ k \notin Good /\ k # first
  BY <1>4
<1>6. k - 1 \in first..(n - 1) /\ k - 1 < k /\ k - 1 \in Nat /\ k \in Nat
  BY <1>5
<1>7. k - 1 \notin Bad
  <2>1. <<k - 1, k>> \in OpToRel(<, Nat)
    BY <1>6 DEF OpToRel
  <2>. HIDE DEF Bad
  <2>. QED
    BY <1>4, <2>1
<1>8. k - 1 \in Good
  BY <1>6, <1>7
<1>9. (k - 1) + 1 \in Good
  BY <1>6, <1>8
<1>. QED
  BY <1>5, <1>6, <1>9

\* s is the run under way after each number of rows.
Trace(s, g, told) ==
    /\ s[0] = NoRun(<<>>)
    /\ \A k \in 1..Len(told) : s[k] = Folded(g, s[k - 1], told[k])
    /\ FoldedAll(g, told) = s[Len(told)]
    /\ \A k \in 0..Len(told) : RunFits(g, told, 1..k, s[k])

LEMMA TraceIs ==
    ASSUME NEW g, NEW told, InTime(told)
    PROVE  \E s : Trace(s, g, told)
<1>. DEFINE n == Len(told)
<1>1. RowsApart(told) /\ n \in Nat /\ DOMAIN told = 1..n
  BY InTimeIs
<1>2. PICK h : /\ RunsOf(h, g, told, 1..n)
               /\ FoldedAll(g, told) = h[1..n]
               /\ \A S \in SUBSET (1..n) : RunFits(g, told, S, h[S])
  BY <1>1, RunsFold
<1>. DEFINE s == [k \in 0..n |-> h[1..k]]
<1>3. ASSUME NEW k \in 1..n PROVE s[k] = Folded(g, s[k - 1], told[k])
  <2>1. 1..k \in SUBSET (1..n) /\ 1..k # {} /\ k \in 0..n /\ k - 1 \in 0..n
    <3>. HIDE DEF n
    <3>1. n \in Nat /\ k \in Nat /\ 1 <= k /\ k <= n
      BY <1>1
    <3>2. k \in 1..k
      BY <3>1
    <3>3. \A x \in 1..k : x \in 1..n
      BY <3>1
    <3>. QED
      BY <3>1, <3>2, <3>3
  <2>2. Max(1..k) = k
    <3>1. k \in 1..k /\ \A y \in 1..k : k >= y
      OBVIOUS
    <3>2. \A x \in 1..k : (\A y \in 1..k : x >= y) => x = k
      OBVIOUS
    <3>. QED
      BY <3>1, <3>2 DEF Max
  <2>3. (1..k) \ {k} = 1..(k - 1)
    OBVIOUS
  <2>4. h[1..k] = Folded(g, h[(1..k) \ {Max(1..k)}], told[Max(1..k)])
    BY <1>2, <2>1 DEF RunsOf
  <2>. HIDE DEF n
  <2>. QED
    BY <2>1, <2>2, <2>3, <2>4
<1>4. s[0] = NoRun(<<>>)
  <2>1. 1..0 = {} /\ 0 \in 0..n /\ {} \in SUBSET (1..n)
    BY <1>1
  <2>2. h[{}] = NoRun(<<>>)
    BY <1>2, <2>1 DEF RunsOf
  <2>. QED
    BY <2>1, <2>2
<1>5. \A k \in 0..n : 1..k \in SUBSET (1..n) /\ s[k] = h[1..k]
  BY <1>1
<1>6. n \in 0..n
  BY <1>1
<1>. HIDE DEF s
<1>7. Trace(s, g, told)
  BY <1>2, <1>3, <1>4, <1>5, <1>6 DEF Trace
<1>. QED
  BY <1>7

\* What a row does to the run under way, case by case.
Mine(g, row) == <<CameraOf[row.sensor], KindOf[row.sensor]>> = g
Opens(run, row) ==
    row.on /\ (run.from # Open => run.until # Open /\ row.at - run.until > MergeWindow)
EndAfter(run, row) ==
    IF row.sensor # run.opener THEN run.until
    ELSE IF row.on THEN Open
    ELSE IF run.until = Open THEN row.at ELSE run.until
CutAt(run, row) ==
    LET ended == IF EndAfter(run, row) # Open THEN EndAfter(run, row) ELSE row.at
    IN IF ended < run.from + LongestRun THEN ended ELSE run.from + LongestRun

LEMMA NoRunIs ==
    ASSUME NEW out
    PROVE  NoRun(out).from = Open /\ NoRun(out).until = Open /\ NoRun(out).opener = Open
           /\ NoRun(out).out = out
  BY DEF NoRun

LEMMA OpensRun ==
    ASSUME NEW g, NEW run \in RunType, NEW row \in RowType, Mine(g, row), Opens(run, row)
    PROVE  LET z == Folded(g, run, row)
           IN /\ z.from = row.at /\ z.until = Open /\ z.opener = row.sensor
              /\ z.out = IF run.from = Open THEN run.out ELSE Yielded(run, run.until)
<1>. DEFINE before == Finished(run, row)
            q == [before EXCEPT !.from = row.at, !.until = Open, !.opener = row.sensor]
            out == IF run.from = Open THEN run.out ELSE Yielded(run, run.until)
<1>1. row.on /\ row.at \in Nat /\ row.at # Open
  BY EventsAssumption DEF Opens, RowType
<1>2. before.from = Open /\ before.out = out
  <2>1. CASE run.from = Open
    BY <2>1 DEF Finished
  <2>2. CASE run.from # Open
    <3>1. before = NoRun(Yielded(run, run.until))
      BY <1>1, <2>2 DEF Finished, Opens
    <3>. QED
      BY <2>2, <3>1, NoRunIs
  <2>. QED
    BY <2>1, <2>2
<1>3. before = [from |-> before.from, until |-> before.until, opener |-> before.opener, out |-> before.out]
  BY DEF Finished, NoRun, RunType
<1>. HIDE DEF before, out
<1>4. q.from = row.at /\ q.until = Open /\ q.opener = row.sensor /\ q.out = out
  BY <1>2, <1>3
<1>5. Opened(before, row) = q
  BY <1>2 DEF Opened
<1>. HIDE DEF q
<1>6. Cut(q, row) = q
  <2>1. ~ (row.at - row.at >= LongestRun)
    BY <1>1, EventsAssumption
  <2>. QED
    BY <1>4, <2>1 DEF Cut
<1>7. Folded(g, run, row) = q
  BY <1>1, <1>5, <1>6 DEF Folded, Mine, before
<1>. QED
  BY <1>4, <1>7 DEF out

LEMMA IdlesOn ==
    ASSUME NEW g, NEW run \in RunType, NEW row \in RowType,
           Mine(g, row) => ~ Opens(run, row) /\ run.from = Open
    PROVE  Folded(g, run, row) = run
<1>1. CASE ~ Mine(g, row)
  BY <1>1 DEF Folded, Mine
<1>2. CASE Mine(g, row)
  <2>1. ~ row.on /\ run.from = Open
    BY <1>2 DEF Opens, RowType
  <2>2. Finished(run, row) = run /\ Cleared(run, row) = run /\ Cut(run, row) = run
    BY <2>1 DEF Finished, Cleared, Cut
  <2>. QED
    BY <1>2, <2>1, <2>2 DEF Folded, Mine
<1>. QED
  BY <1>1, <1>2

LEMMA RunsOn ==
    ASSUME NEW g, NEW run \in RunType, NEW row \in RowType, Mine(g, row), ~ Opens(run, row),
           run.from # Open
    PROVE  LET z == Folded(g, run, row)
           IN IF row.at - run.from >= LongestRun
              THEN z = NoRun(Yielded(run, CutAt(run, row)))
              ELSE /\ z.from = run.from /\ z.opener = run.opener /\ z.out = run.out
                   /\ z.until = EndAfter(run, row)
<1>1. Finished(run, row) = run
  BY DEF Finished, Opens
<1>. DEFINE q == IF row.on THEN Opened(run, row) ELSE Cleared(run, row)
<1>2. q.from = run.from /\ q.opener = run.opener /\ q.out = run.out /\ q.until = EndAfter(run, row)
  <2>1. CASE row.on
    BY <2>1 DEF Opened, EndAfter, RunType
  <2>2. CASE ~ row.on
    BY <2>2 DEF Cleared, EndAfter, RunType
  <2>. QED
    BY <2>1, <2>2
<1>3. Folded(g, run, row) = Cut(q, row)
  BY <1>1 DEF Folded, Mine
<1>4. \A until : Yielded(q, until) = Yielded(run, until)
  BY <1>2 DEF Yielded
<1>. HIDE DEF q
<1>5. CASE row.at - run.from >= LongestRun
  <2>1. Cut(q, row) = NoRun(Yielded(q, CutAt(run, row)))
    BY <1>2, <1>5 DEF Cut, CutAt
  <2>. QED
    BY <1>3, <1>4, <1>5, <2>1
<1>6. CASE ~ (row.at - run.from >= LongestRun)
  <2>1. Cut(q, row) = q
    BY <1>2, <1>6 DEF Cut
  <2>. QED
    BY <1>2, <1>3, <1>6, <2>1
<1>. QED
  BY <1>5, <1>6

LEMMA YieldedIs ==
    ASSUME NEW run \in RunType, NEW until
    PROVE  ToSet(Yielded(run, until)) = ToSet(run.out) \cup {[from |-> run.from, until |-> until]}
<1>. DEFINE out == run.out
            new == [from |-> run.from, until |-> until]
<1>1. out \in Seq(Yields)
  BY DEF RunType
<1>2. out \in Seq(Yields \cup {new})
  BY <1>1
<1>. HIDE DEF out, new
<1>3. /\ Len(Append(out, new)) = Len(out) + 1 /\ Len(out) \in Nat
      /\ Append(out, new)[Len(out) + 1] = new
      /\ \A i \in 1..Len(out) : Append(out, new)[i] = out[i]
      /\ DOMAIN Append(out, new) = 1..(Len(out) + 1) /\ DOMAIN out = 1..Len(out)
  BY <1>2
<1>4. ToSet(Append(out, new)) = ToSet(out) \cup {new}
  BY <1>3 DEF ToSet
<1>. QED
  BY <1>4 DEF Yielded, out, new

\* What is known of the run under way after k rows, and of those before it.
Ended(told, k, run) ==
    run.until # Open => /\ run.until < run.from + LongestRun
                        /\ \E i \in 1..k : told[i].at = run.until
Going(told, k, run) ==
    run.until = Open => \E i \in 1..k : /\ told[i].sensor = run.opener /\ told[i].on
                                        /\ \A j \in (i + 1)..k : told[j].sensor # run.opener
Short(g, told, k, run) ==
    \A i \in 1..k : Mine(g, told[i]) => told[i].at - run.from < LongestRun
Past(told, k, run) ==
    \A r \in ToSet(run.out) : r.until \in Nat /\ \E i \in 1..k : r.until <= told[i].at

Known(g, told, k, run) ==
    /\ run.from # Open => /\ Ended(told, k, run) /\ Going(told, k, run) /\ Short(g, told, k, run)
                          /\ <<CameraOf[run.opener], KindOf[run.opener]>> = g
    /\ Past(told, k, run)

LEMMA NothingKnown ==
    ASSUME NEW g, NEW told, NEW k \in Nat
    PROVE  Known(g, told, k, NoRun(<<>>))
<1>1. ToSet(<<>>) = {}
  BY DEF ToSet
<1>. QED
  BY <1>1, NoRunIs DEF Known, Past

LEMMA PastLater ==
    ASSUME NEW told, NEW k \in Nat \ {0}, NEW run, Past(told, k - 1, run)
    PROVE  Past(told, k, run)
<1>1. \A i \in 1..(k - 1) : i \in 1..k
  OBVIOUS
<1>. QED
  BY <1>1 DEF Past

LEMMA PastYields ==
    ASSUME NEW told, NEW k \in Nat, NEW run \in RunType, NEW until \in Nat, Past(told, k, run),
           \E i \in 1..k : until <= told[i].at, NEW z, z.out = Yielded(run, until)
    PROVE  Past(told, k, z)
<1>. DEFINE new == [from |-> run.from, until |-> until]
<1>1. ToSet(z.out) = ToSet(run.out) \cup {new} /\ new.until = until
  BY YieldedIs
<1>. QED
  BY <1>1 DEF Past

LEMMA KnownStep ==
    ASSUME NEW g, NEW told, InTime(told), NEW k \in 1..Len(told), NEW run \in RunType,
           Known(g, told, k - 1, run)
    PROVE  Known(g, told, k, Folded(g, run, told[k]))
<1>. DEFINE row == told[k]
            z == Folded(g, run, row)
<1>1. /\ Len(told) \in Nat /\ row \in RowType /\ row.at \in Nat /\ row.on \in BOOLEAN /\ k \in Nat \ {0}
      /\ k \in 1..k /\ row.at # Open
  BY InTimeIs, EventsAssumption
<1>2. \A i \in 1..k : told[i].at \in Nat /\ told[i].at <= row.at /\ (i = k \/ i \in 1..(k - 1))
  <2>1. \A i \in 1..k : i \in DOMAIN told /\ k \in DOMAIN told /\ told[i].at \in Nat
    BY <1>1, InTimeIs
  <2>2. \A i \in 1..k : i < k => told[i].at < row.at
    BY <2>1 DEF InTime
  <2>. HIDE DEF row
  <2>. QED
    BY <1>1, <2>1, <2>2 DEF row
<1>3. \A i \in 1..(k - 1) : i \in 1..k
  BY <1>1
<1>4. Past(told, k, run)
  BY <1>1, PastLater DEF Known
<1>5. LongestRun \in Nat \ {0} /\ run.from \in Nat \cup {Open} /\ run.until \in Nat \cup {Open}
      /\ Open \notin Nat
  BY EventsAssumption DEF RunType, Moments
<1>6. ASSUME ~ Mine(g, row) PROVE Known(g, told, k, z)
  <2>1. z = run
    BY <1>1, <1>6, IdlesOn
  <2>2. ASSUME run.from # Open
        PROVE  Ended(told, k, run) /\ Going(told, k, run) /\ Short(g, told, k, run)
               /\ <<CameraOf[run.opener], KindOf[run.opener]>> = g
    <3>1. /\ Ended(told, k - 1, run) /\ Going(told, k - 1, run) /\ Short(g, told, k - 1, run)
          /\ <<CameraOf[run.opener], KindOf[run.opener]>> = g
      BY <2>2 DEF Known
    <3>2. row.sensor # run.opener
      BY <1>6, <3>1 DEF Mine
    <3>3. Going(told, k, run)
      <4>1. SUFFICES ASSUME run.until = Open
                     PROVE  \E i \in 1..k : /\ told[i].sensor = run.opener /\ told[i].on
                                            /\ \A j \in (i + 1)..k : told[j].sensor # run.opener
        BY DEF Going
      <4>2. PICK i \in 1..(k - 1) : /\ told[i].sensor = run.opener /\ told[i].on
                                    /\ \A j \in (i + 1)..(k - 1) : told[j].sensor # run.opener
        BY <3>1, <4>1 DEF Going
      <4>3. \A j \in (i + 1)..k : j = k \/ j \in (i + 1)..(k - 1)
        BY <1>1
      <4>. QED
        BY <1>3, <3>2, <4>2, <4>3
    <3>4. Ended(told, k, run)
      BY <1>3, <3>1 DEF Ended
    <3>5. Short(g, told, k, run)
      BY <1>2, <1>6, <3>1 DEF Short
    <3>. QED
      BY <3>1, <3>3, <3>4, <3>5
  <2>. QED
    BY <1>4, <2>1, <2>2 DEF Known
<1>7. ASSUME Mine(g, row), Opens(run, row) PROVE Known(g, told, k, z)
  <2>1. /\ z.from = row.at /\ z.until = Open /\ z.opener = row.sensor
        /\ z.out = IF run.from = Open THEN run.out ELSE Yielded(run, run.until)
    BY <1>1, <1>7, OpensRun
  <2>. HIDE DEF z
  <2>2. Ended(told, k, z)
    BY <2>1 DEF Ended
  <2>3. Going(told, k, z)
    <3>1. row.on /\ \A j \in (k + 1)..k : FALSE
      BY <1>1, <1>7 DEF Opens
    <3>. QED
      BY <1>1, <2>1, <3>1 DEF Going
  <2>4. Short(g, told, k, z)
    <3>1. \A i \in 1..k : told[i].at - row.at < LongestRun
      <4>. HIDE DEF row
      <4>. QED
        BY <1>1, <1>2, <1>5
    <3>. QED
      BY <2>1, <3>1 DEF Short
  <2>5. Past(told, k, z)
    <3>1. CASE run.from = Open
      BY <1>4, <2>1, <3>1 DEF Past
    <3>2. CASE run.from # Open
      <4>1. run.until # Open
        BY <1>7, <3>2 DEF Opens
      <4>2. PICK i \in 1..(k - 1) : told[i].at = run.until
        BY <3>2, <4>1 DEF Known, Ended
      <4>3. run.until \in Nat /\ i \in 1..k /\ run.until <= told[i].at
        BY <1>2, <1>3, <1>5, <4>1, <4>2
      <4>4. z.out = Yielded(run, run.until)
        BY <2>1, <3>2
      <4>. QED
        BY <1>1, <1>4, <4>3, <4>4, PastYields
    <3>. QED
      BY <3>1, <3>2
  <2>. QED
    BY <1>7, <2>1, <2>2, <2>3, <2>4, <2>5 DEF Known, Mine
<1>8. ASSUME Mine(g, row), ~ Opens(run, row), run.from = Open PROVE Known(g, told, k, z)
  <2>1. z = run
    BY <1>1, <1>8, IdlesOn
  <2>. QED
    BY <1>4, <1>8, <2>1 DEF Known
<1>9. ASSUME Mine(g, row), ~ Opens(run, row), run.from # Open PROVE Known(g, told, k, z)
  <2>1. /\ Ended(told, k - 1, run) /\ Going(told, k - 1, run) /\ Short(g, told, k - 1, run)
        /\ <<CameraOf[run.opener], KindOf[run.opener]>> = g
    BY <1>9 DEF Known
  <2>2. run.until # Open => run.until < run.from + LongestRun /\ run.until <= row.at
                            /\ \E i \in 1..k : told[i].at = run.until
    BY <1>2, <1>3, <2>1 DEF Ended
  <2>3. EndAfter(run, row) \in Nat \cup {Open}
        /\ (EndAfter(run, row) # Open => \/ EndAfter(run, row) = row.at
                                         \/ EndAfter(run, row) = run.until)
    BY <1>1, <1>5 DEF EndAfter
  <2>4. IF row.at - run.from >= LongestRun
        THEN z = NoRun(Yielded(run, CutAt(run, row)))
        ELSE /\ z.from = run.from /\ z.opener = run.opener /\ z.out = run.out
             /\ z.until = EndAfter(run, row)
    BY <1>1, <1>9, RunsOn
  <2>5. CASE row.at - run.from >= LongestRun
    <3>1. z.from = Open /\ z.out = Yielded(run, CutAt(run, row))
      BY <2>4, <2>5, NoRunIs
    <3>2. CutAt(run, row) \in Nat /\ CutAt(run, row) <= row.at
      <4>. DEFINE ended == IF EndAfter(run, row) # Open THEN EndAfter(run, row) ELSE row.at
      <4>1. ended \in Nat /\ ended <= row.at
        <5>. HIDE DEF row
        <5>. QED
          BY <1>1, <1>5, <2>2, <2>3
      <4>2. run.from \in Nat /\ run.from + LongestRun \in Nat
        BY <1>5, <1>9
      <4>3. CutAt(run, row) = IF ended < run.from + LongestRun THEN ended ELSE run.from + LongestRun
        BY DEF CutAt
      <4>. HIDE DEF ended, row
      <4>. QED
        BY <1>1, <4>1, <4>2, <4>3
    <3>3. Past(told, k, z)
      <4>. HIDE DEF z
      <4>. QED
        BY <1>1, <1>4, <3>1, <3>2, PastYields
    <3>. QED
      BY <3>1, <3>3 DEF Known
  <2>6. CASE ~ (row.at - run.from >= LongestRun)
    <3>1. /\ z.from = run.from /\ z.opener = run.opener /\ z.out = run.out
          /\ z.until = EndAfter(run, row)
      BY <2>4, <2>6
    <3>2. row.at - run.from < LongestRun /\ row.at < run.from + LongestRun
      <4>. HIDE DEF row
      <4>. QED
        BY <1>1, <1>5, <1>9, <2>6
    <3>. HIDE DEF z
    <3>3. Ended(told, k, z)
      BY <1>1, <2>2, <2>3, <3>1, <3>2 DEF Ended
    <3>4. Short(g, told, k, z)
      BY <1>2, <2>1, <3>1, <3>2 DEF Short
    <3>5. Past(told, k, z)
      BY <1>4, <3>1 DEF Past
    <3>6. Going(told, k, z)
      <4>1. SUFFICES ASSUME EndAfter(run, row) = Open
                     PROVE  \E i \in 1..k : /\ told[i].sensor = run.opener /\ told[i].on
                                            /\ \A j \in (i + 1)..k : told[j].sensor # run.opener
        BY <3>1 DEF Going
      <4>2. CASE row.sensor = run.opener
        <5>1. row.on
          BY <1>1, <1>5, <4>1, <4>2 DEF EndAfter
        <5>2. \A j \in (k + 1)..k : FALSE
          BY <1>1
        <5>. QED
          BY <1>1, <4>2, <5>1, <5>2
      <4>3. CASE row.sensor # run.opener
        <5>1. run.until = Open
          BY <4>1, <4>3 DEF EndAfter
        <5>2. PICK i \in 1..(k - 1) : /\ told[i].sensor = run.opener /\ told[i].on
                                      /\ \A j \in (i + 1)..(k - 1) : told[j].sensor # run.opener
          BY <2>1, <5>1 DEF Going
        <5>3. \A j \in (i + 1)..k : j = k \/ j \in (i + 1)..(k - 1)
          BY <1>1
        <5>. QED
          BY <1>3, <4>3, <5>2, <5>3
      <4>. QED
        BY <4>2, <4>3
    <3>. QED
      BY <2>1, <3>1, <3>3, <3>4, <3>5, <3>6 DEF Known
  <2>. QED
    BY <2>5, <2>6
<1>. QED
  BY <1>6, <1>7, <1>8, <1>9

LEMMA TraceKnows ==
    ASSUME NEW g, NEW told, InTime(told), NEW s, Trace(s, g, told)
    PROVE  \A k \in 0..Len(told) : s[k] \in RunType /\ Known(g, told, k, s[k])
<1>1. Len(told) \in Nat /\ \A k \in 0..Len(told) : s[k] \in RunType
  BY InTimeIs DEF Trace, RunFits
<1>. DEFINE n == Len(told)
            Good == {k \in 0..n : Known(g, told, k, s[k])}
<1>2. 0 \in Good
  BY <1>1, NothingKnown DEF Trace
<1>3. ASSUME NEW k \in 0..(n - 1), k \in Good PROVE k + 1 \in Good
  <2>1. k + 1 \in 1..n /\ k + 1 \in 0..n /\ (k + 1) - 1 = k /\ k \in 0..n
    BY <1>1
  <2>2. s[k + 1] = Folded(g, s[k], told[k + 1])
    BY <2>1 DEF Trace
  <2>3. Known(g, told, k + 1, Folded(g, s[k], told[k + 1]))
    BY <1>1, <1>3, <2>1, KnownStep
  <2>. QED
    BY <2>1, <2>2, <2>3
<1>4. \A k \in 0..n : k \in Good
  <2>. HIDE DEF Good, n
  <2>1. n \in Nat /\ 0 \in 0..n
    BY <1>1 DEF n
  <2>2. Good \in SUBSET Nat
    BY DEF Good
  <2>. QED
    BY <1>2, <1>3, <2>1, <2>2, StepByStep
<1>. QED
  BY <1>1, <1>4
-----------------------------------------------------------------------------
(* Two journals of which one begins later, after a time at which all is off. *)

\* A run that was over by q, if one is under way at all.
Old(q, run) == run.from # Open => run.from <= q /\ run.until # Open /\ run.until <= q
Same(x, y) == x.from = y.from /\ x.until = y.until /\ x.opener = y.opener
Newer(q, out) == {r \in ToSet(out) : r.from > q}
EarlyIsOver(q, out) == \A r \in ToSet(out) : r.from <= q => r.until \in Nat /\ r.until <= q

Alike(q, x, y) ==
    /\ Newer(q, x.out) = Newer(q, y.out) /\ EarlyIsOver(q, x.out) /\ EarlyIsOver(q, y.out)
    /\ \/ Old(q, x) /\ Old(q, y)
       \/ Same(x, y) /\ x.from # Open /\ x.from > q

LEMMA OldYields ==
    ASSUME NEW q \in Nat, NEW x \in RunType, EarlyIsOver(q, x.out), x.from \in Nat, x.from <= q,
           NEW until \in Nat, until <= q
    PROVE  LET out == Yielded(x, until)
           IN Newer(q, out) = Newer(q, x.out) /\ EarlyIsOver(q, out)
<1>. DEFINE new == [from |-> x.from, until |-> until]
            out == Yielded(x, until)
<1>1. ToSet(out) = ToSet(x.out) \cup {new} /\ new.from = x.from /\ new.until = until
  BY YieldedIs
<1>2. ~ (new.from > q)
  BY <1>1
<1>. HIDE DEF new, out
<1>3. Newer(q, out) = Newer(q, x.out)
  BY <1>1, <1>2 DEF Newer
<1>4. EarlyIsOver(q, out)
  BY <1>1 DEF EarlyIsOver
<1>. QED
  BY <1>3, <1>4 DEF out

LEMMA NewYields ==
    ASSUME NEW q \in Nat, NEW x \in RunType, EarlyIsOver(q, x.out), x.from \in Nat, x.from > q,
           NEW until
    PROVE  LET out == Yielded(x, until)
           IN /\ Newer(q, out) = Newer(q, x.out) \cup {[from |-> x.from, until |-> until]}
              /\ EarlyIsOver(q, out)
<1>. DEFINE new == [from |-> x.from, until |-> until]
            out == Yielded(x, until)
<1>1. ToSet(out) = ToSet(x.out) \cup {new} /\ new.from = x.from
  BY YieldedIs
<1>2. new.from > q /\ ~ (new.from <= q)
  BY <1>1
<1>. HIDE DEF new, out
<1>3. Newer(q, out) = Newer(q, x.out) \cup {new}
  BY <1>1, <1>2 DEF Newer
<1>4. EarlyIsOver(q, out)
  BY <1>1, <1>2 DEF EarlyIsOver
<1>. QED
  BY <1>3, <1>4 DEF out, new

LEMMA OldStep ==
    ASSUME NEW q \in Nat, NEW g, NEW x \in RunType, NEW row \in RowType, row.at > q,
           row.on => row.at > q + MergeWindow, Old(q, x), EarlyIsOver(q, x.out)
    PROVE  LET z == Folded(g, x, row)
           IN /\ Newer(q, z.out) = Newer(q, x.out) /\ EarlyIsOver(q, z.out)
              /\ IF Mine(g, row) /\ row.on
                 THEN z.from = row.at /\ z.until = Open /\ z.opener = row.sensor
                 ELSE Old(q, z)
<1>. DEFINE z == Folded(g, x, row)
<1>1. /\ MergeWindow \in Nat /\ LongestRun \in Nat /\ Open \notin Nat
      /\ row.at \in Nat /\ row.on \in BOOLEAN
      /\ x.from \in Nat \cup {Open} /\ x.until \in Nat \cup {Open}
  BY EventsAssumption DEF RunType, Moments, RowType
<1>2. CASE ~ Mine(g, row)
  <2>1. z = x
    BY <1>2, IdlesOn
  <2>. QED
    BY <1>2, <2>1
<1>3. CASE Mine(g, row) /\ row.on
  <2>1. Opens(x, row)
    <3>1. ASSUME x.from # Open PROVE x.until # Open /\ row.at - x.until > MergeWindow
      <4>1. x.until # Open /\ x.until \in Nat /\ x.until <= q /\ row.at > q + MergeWindow
        BY <1>1, <1>3, <3>1 DEF Old
      <4>. QED
        BY <1>1, <4>1
    <3>. QED
      BY <1>3, <3>1 DEF Opens
  <2>2. /\ z.from = row.at /\ z.until = Open /\ z.opener = row.sensor
        /\ z.out = IF x.from = Open THEN x.out ELSE Yielded(x, x.until)
    BY <1>3, <2>1, OpensRun
  <2>3. Newer(q, z.out) = Newer(q, x.out) /\ EarlyIsOver(q, z.out)
    <3>1. CASE x.from = Open
      BY <2>2, <3>1
    <3>2. CASE x.from # Open
      <4>1. x.from \in Nat /\ x.from <= q /\ x.until \in Nat /\ x.until <= q
        BY <1>1, <3>2 DEF Old
      <4>2. z.out = Yielded(x, x.until)
        BY <2>2, <3>2
      <4>. HIDE DEF z
      <4>. QED
        BY <4>1, <4>2, OldYields
    <3>. QED
      BY <3>1, <3>2
  <2>. QED
    BY <1>3, <2>2, <2>3
<1>4. CASE Mine(g, row) /\ ~ row.on
  <2>1. ~ Opens(x, row)
    BY <1>4 DEF Opens
  <2>2. CASE x.from = Open
    <3>1. z = x
      BY <2>1, <2>2, IdlesOn
    <3>. QED
      BY <1>4, <3>1
  <2>3. CASE x.from # Open
    <3>1. /\ x.from \in Nat /\ x.from <= q /\ x.until \in Nat /\ x.until <= q /\ x.until # Open
      BY <1>1, <2>3 DEF Old
    <3>2. EndAfter(x, row) = x.until
      BY <1>4, <3>1 DEF EndAfter
    <3>3. CutAt(x, row) \in Nat /\ CutAt(x, row) <= q
      <4>1. CutAt(x, row) = IF x.until < x.from + LongestRun THEN x.until ELSE x.from + LongestRun
        BY <3>1, <3>2 DEF CutAt
      <4>. QED
        BY <1>1, <3>1, <4>1
    <3>4. IF row.at - x.from >= LongestRun
          THEN z = NoRun(Yielded(x, CutAt(x, row)))
          ELSE /\ z.from = x.from /\ z.opener = x.opener /\ z.out = x.out
               /\ z.until = EndAfter(x, row)
      BY <1>4, <2>1, <2>3, RunsOn
    <3>5. CASE row.at - x.from >= LongestRun
      <4>1. z.from = Open /\ z.out = Yielded(x, CutAt(x, row))
        BY <3>4, <3>5, NoRunIs
      <4>2. Old(q, z)
        BY <4>1 DEF Old
      <4>3. Newer(q, z.out) = Newer(q, x.out) /\ EarlyIsOver(q, z.out)
        <5>. HIDE DEF z
        <5>. QED
          BY <3>1, <3>3, <4>1, OldYields
      <4>. QED
        BY <1>4, <4>2, <4>3
    <3>6. CASE ~ (row.at - x.from >= LongestRun)
      <4>1. z.from = x.from /\ z.out = x.out /\ z.until = x.until
        BY <3>2, <3>4, <3>6
      <4>2. Old(q, z)
        BY <4>1 DEF Old
      <4>. QED
        BY <1>4, <4>1, <4>2
    <3>. QED
      BY <3>5, <3>6
  <2>. QED
    BY <2>2, <2>3
<1>. QED
  BY <1>1, <1>2, <1>3, <1>4

LEMMA SameStep ==
    ASSUME NEW q \in Nat, NEW g, NEW x \in RunType, NEW y \in RunType, NEW row \in RowType,
           row.at > q, Alike(q, x, y), Same(x, y), x.from # Open, x.from > q
    PROVE  Alike(q, Folded(g, x, row), Folded(g, y, row))
<1>. DEFINE z == Folded(g, x, row)
            w == Folded(g, y, row)
<1>1. /\ x.from \in Nat /\ y.from = x.from /\ y.until = x.until /\ y.opener = x.opener
      /\ row.at \in Nat /\ row.at # Open
      /\ Newer(q, x.out) = Newer(q, y.out) /\ EarlyIsOver(q, x.out) /\ EarlyIsOver(q, y.out)
  BY EventsAssumption DEF RunType, Moments, RowType, Alike, Same
<1>2. /\ Opens(x, row) = Opens(y, row) /\ EndAfter(x, row) = EndAfter(y, row)
      /\ CutAt(x, row) = CutAt(y, row)
  BY <1>1 DEF Opens, EndAfter, CutAt
<1>3. \A until : LET a == Yielded(x, until)
                     b == Yielded(y, until)
                 IN Newer(q, a) = Newer(q, b) /\ EarlyIsOver(q, a) /\ EarlyIsOver(q, b)
  <2>1. SUFFICES ASSUME NEW until
                 PROVE  LET a == Yielded(x, until)
                            b == Yielded(y, until)
                        IN Newer(q, a) = Newer(q, b) /\ EarlyIsOver(q, a) /\ EarlyIsOver(q, b)
    OBVIOUS
  <2>2. LET a == Yielded(x, until)
        IN /\ Newer(q, a) = Newer(q, x.out) \cup {[from |-> x.from, until |-> until]}
           /\ EarlyIsOver(q, a)
    BY <1>1, NewYields
  <2>3. LET b == Yielded(y, until)
        IN /\ Newer(q, b) = Newer(q, y.out) \cup {[from |-> y.from, until |-> until]}
           /\ EarlyIsOver(q, b)
    <3>1. y.from \in Nat /\ y.from > q
      BY <1>1
    <3>. QED
      BY <1>1, <3>1, NewYields
  <2>. QED
    BY <1>1, <2>2, <2>3
<1>4. CASE ~ Mine(g, row)
  <2>1. z = x /\ w = y
    BY <1>4, IdlesOn
  <2>. QED
    BY <2>1
<1>5. CASE Mine(g, row) /\ Opens(x, row)
  <2>1. /\ z.from = row.at /\ z.until = Open /\ z.opener = row.sensor
        /\ z.out = IF x.from = Open THEN x.out ELSE Yielded(x, x.until)
    BY <1>5, OpensRun
  <2>2. /\ w.from = row.at /\ w.until = Open /\ w.opener = row.sensor
        /\ w.out = IF y.from = Open THEN y.out ELSE Yielded(y, y.until)
    BY <1>2, <1>5, OpensRun
  <2>3. z.out = Yielded(x, x.until) /\ w.out = Yielded(y, x.until)
    BY <1>1, <2>1, <2>2
  <2>. HIDE DEF z, w
  <2>4. Alike(q, z, w)
    BY <1>1, <1>3, <2>1, <2>2, <2>3 DEF Alike, Same
  <2>. QED
    BY <2>4 DEF z, w
<1>6. CASE Mine(g, row) /\ ~ Opens(x, row)
  <2>1. IF row.at - x.from >= LongestRun
        THEN z = NoRun(Yielded(x, CutAt(x, row)))
        ELSE /\ z.from = x.from /\ z.opener = x.opener /\ z.out = x.out
             /\ z.until = EndAfter(x, row)
    BY <1>6, RunsOn
  <2>2. IF row.at - y.from >= LongestRun
        THEN w = NoRun(Yielded(y, CutAt(y, row)))
        ELSE /\ w.from = y.from /\ w.opener = y.opener /\ w.out = y.out
             /\ w.until = EndAfter(y, row)
    BY <1>1, <1>2, <1>6, RunsOn
  <2>3. CASE row.at - x.from >= LongestRun
    <3>1. z = NoRun(Yielded(x, CutAt(x, row))) /\ w = NoRun(Yielded(y, CutAt(x, row)))
      BY <1>1, <1>2, <2>1, <2>2, <2>3
    <3>2. /\ z.from = Open /\ w.from = Open
          /\ z.out = Yielded(x, CutAt(x, row)) /\ w.out = Yielded(y, CutAt(x, row))
      BY <3>1, NoRunIs
    <3>. HIDE DEF z, w
    <3>3. Alike(q, z, w)
      BY <1>3, <3>2 DEF Alike, Old
    <3>. QED
      BY <3>3 DEF z, w
  <2>4. CASE ~ (row.at - x.from >= LongestRun)
    <3>1. /\ z.from = x.from /\ z.opener = x.opener /\ z.out = x.out
          /\ z.until = EndAfter(x, row)
          /\ w.from = x.from /\ w.opener = x.opener /\ w.out = y.out
          /\ w.until = EndAfter(x, row)
      BY <1>1, <1>2, <2>1, <2>2, <2>4
    <3>. HIDE DEF z, w
    <3>2. Alike(q, z, w)
      BY <1>1, <3>1 DEF Alike, Same
    <3>. QED
      BY <3>2 DEF z, w
  <2>. QED
    BY <2>3, <2>4
<1>. QED
  BY <1>4, <1>5, <1>6

\* A row after q, unless it turns something on within the window that merges, does the
\* same to runs that are alike.
LEMMA AlikeStep ==
    ASSUME NEW q \in Nat, NEW g, NEW x \in RunType, NEW y \in RunType, NEW row \in RowType,
           row.at > q, row.on => row.at > q + MergeWindow, Alike(q, x, y)
    PROVE  Alike(q, Folded(g, x, row), Folded(g, y, row))
<1>1. CASE Old(q, x) /\ Old(q, y)
  <2>. DEFINE z == Folded(g, x, row)
              w == Folded(g, y, row)
  <2>1. EarlyIsOver(q, x.out) /\ EarlyIsOver(q, y.out) /\ Newer(q, x.out) = Newer(q, y.out)
    BY DEF Alike
  <2>2. /\ Newer(q, z.out) = Newer(q, x.out) /\ EarlyIsOver(q, z.out)
        /\ IF Mine(g, row) /\ row.on
           THEN z.from = row.at /\ z.until = Open /\ z.opener = row.sensor
           ELSE Old(q, z)
    BY <1>1, <2>1, OldStep
  <2>3. /\ Newer(q, w.out) = Newer(q, y.out) /\ EarlyIsOver(q, w.out)
        /\ IF Mine(g, row) /\ row.on
           THEN w.from = row.at /\ w.until = Open /\ w.opener = row.sensor
           ELSE Old(q, w)
    BY <1>1, <2>1, OldStep
  <2>4. row.at # Open
    BY EventsAssumption DEF RowType
  <2>. HIDE DEF z, w
  <2>5. Alike(q, z, w)
    BY <2>1, <2>2, <2>3, <2>4 DEF Alike, Same
  <2>. QED
    BY <2>5 DEF z, w
<1>2. CASE ~ (Old(q, x) /\ Old(q, y))
  <2>1. Same(x, y) /\ x.from # Open /\ x.from > q
    BY <1>2 DEF Alike
  <2>. QED
    BY <2>1, SameStep
<1>. QED
  BY <1>1, <1>2

\* What is made of runs that are alike in the end.
AllOf(run) == IF run.from = Open THEN run.out ELSE Yielded(run, run.until)

LEMMA AlikeInTheEnd ==
    ASSUME NEW q \in Nat, NEW x \in RunType, NEW y \in RunType, Alike(q, x, y)
    PROVE  /\ Newer(q, AllOf(x)) = Newer(q, AllOf(y))
           /\ EarlyIsOver(q, AllOf(x)) /\ EarlyIsOver(q, AllOf(y))
<1>0. /\ EarlyIsOver(q, x.out) /\ EarlyIsOver(q, y.out) /\ Newer(q, x.out) = Newer(q, y.out)
  BY DEF Alike
<1>1. ASSUME NEW z \in RunType, Old(q, z), EarlyIsOver(q, z.out)
      PROVE  Newer(q, AllOf(z)) = Newer(q, z.out) /\ EarlyIsOver(q, AllOf(z))
  <2>1. CASE z.from = Open
    BY <1>1, <2>1 DEF AllOf
  <2>2. CASE z.from # Open
    <3>1. z.from \in Nat /\ z.from <= q /\ z.until \in Nat /\ z.until <= q
      BY <1>1, <2>2 DEF Old, RunType, Moments
    <3>2. AllOf(z) = Yielded(z, z.until)
      BY <2>2 DEF AllOf
    <3>. QED
      BY <1>1, <3>1, <3>2, OldYields
  <2>. QED
    BY <2>1, <2>2
<1>2. CASE Old(q, x) /\ Old(q, y)
  BY <1>0, <1>1, <1>2
<1>3. CASE Same(x, y) /\ x.from # Open /\ x.from > q
  <2>1. /\ x.from \in Nat /\ y.from = x.from /\ y.until = x.until
        /\ AllOf(x) = Yielded(x, x.until) /\ AllOf(y) = Yielded(y, x.until)
    BY <1>3 DEF Same, RunType, Moments, AllOf
  <2>2. LET a == Yielded(x, x.until)
        IN /\ Newer(q, a) = Newer(q, x.out) \cup {[from |-> x.from, until |-> x.until]}
           /\ EarlyIsOver(q, a)
    BY <1>0, <1>3, <2>1, NewYields
  <2>3. LET b == Yielded(y, x.until)
        IN /\ Newer(q, b) = Newer(q, y.out) \cup {[from |-> y.from, until |-> x.until]}
           /\ EarlyIsOver(q, b)
    <3>1. y.from \in Nat /\ y.from > q
      BY <1>3, <2>1
    <3>. QED
      BY <1>0, <3>1, NewYields
  <2>. QED
    BY <1>0, <2>1, <2>2, <2>3
<1>. QED
  BY <1>2, <1>3 DEF Alike

\* After k rows everything is off, and it is at most q.
AllOff(told, k, q) ==
    /\ \A i \in 1..k : told[i].at <= q
    /\ \A i \in 1..k : told[i].on => \E j \in (i + 1)..k : told[j].sensor = told[i].sensor

LEMMA OldWhenOff ==
    ASSUME NEW g, NEW told, InTime(told), NEW s, Trace(s, g, told), NEW k \in 0..Len(told),
           NEW q \in Nat, AllOff(told, k, q)
    PROVE  s[k] \in RunType /\ Old(q, s[k]) /\ Newer(q, s[k].out) = {} /\ EarlyIsOver(q, s[k].out)
<1>. DEFINE run == s[k]
<1>1. run \in RunType /\ Known(g, told, k, run) /\ RunFits(g, told, 1..k, run)
  BY TraceKnows DEF Trace
<1>2. \A i \in 1..k : told[i].at \in Nat /\ told[i].at <= q
  <2>1. \A i \in 1..k : i \in 1..Len(told)
    BY InTimeIs
  <2>. QED
    BY <2>1, InTimeIs DEF AllOff
<1>. HIDE DEF run
<1>3. Old(q, run)
  <2>1. SUFFICES ASSUME run.from # Open PROVE run.from <= q /\ run.until # Open /\ run.until <= q
    BY DEF Old
  <2>2. run.from <= q
    BY <1>1, <1>2, <2>1 DEF RunFits, Dated
  <2>3. run.until # Open
    <3>1. SUFFICES ASSUME run.until = Open PROVE FALSE
      OBVIOUS
    <3>2. PICK i \in 1..k : /\ told[i].sensor = run.opener /\ told[i].on
                            /\ \A j \in (i + 1)..k : told[j].sensor # run.opener
      BY <1>1, <2>1, <3>1 DEF Known, Going
    <3>. QED
      BY <3>2 DEF AllOff
  <2>4. run.until <= q
    BY <1>1, <1>2, <2>1, <2>3 DEF Known, Ended
  <2>. QED
    BY <2>2, <2>3, <2>4
<1>4. ASSUME NEW r \in ToSet(run.out) PROVE r.from \in Nat /\ r.from <= q
  <2>1. PICK j \in DOMAIN run.out : r = run.out[j]
    BY DEF ToSet
  <2>2. Dated(g, told, 1..k, r.from)
    BY <1>1, <2>1 DEF RunFits, Begun
  <2>. QED
    BY <1>2, <2>2 DEF Dated
<1>5. Newer(q, run.out) = {}
  <2>1. \A r \in ToSet(run.out) : ~ (r.from > q)
    BY <1>4
  <2>. QED
    BY <2>1 DEF Newer
<1>6. EarlyIsOver(q, run.out)
  <2>1. ASSUME NEW r \in ToSet(run.out) PROVE r.until \in Nat /\ r.until <= q
    <3>1. r.until \in Nat /\ \E i \in 1..k : r.until <= told[i].at
      BY <1>1 DEF Known, Past
    <3>. QED
      BY <1>2, <3>1
  <2>. QED
    BY <2>1 DEF EarlyIsOver
<1>. QED
  BY <1>1, <1>3, <1>5, <1>6 DEF run

LEMMA LaterPart ==
    ASSUME NEW told, InTime(told), NEW a \in 0..Len(told)
    PROVE  LET part == SubSeq(told, a + 1, Len(told))
           IN /\ InTime(part) /\ Len(part) = Len(told) - a
              /\ \A k \in 1..(Len(told) - a) : part[k] = told[a + k]
<1>. DEFINE n == Len(told)
            part == SubSeq(told, a + 1, n)
<1>1. n \in Nat /\ told \in Seq(RowType) /\ DOMAIN told = 1..n /\ a \in 0..n
  BY InTimeIs DEF InTime
<1>. HIDE DEF n
<1>2. /\ part \in Seq(RowType) /\ Len(part) = n - a
      /\ \A k \in 1..(n - a) : part[k] = told[a + k]
  BY <1>1
<1>3. DOMAIN part = 1..(n - a)
  BY <1>2
<1>4. ASSUME NEW i \in 1..(n - a), NEW j \in 1..(n - a), i < j PROVE part[i].at < part[j].at
  <2>1. a + i \in 1..n /\ a + j \in 1..n /\ a + i < a + j
    BY <1>1, <1>4
  <2>2. told[a + i].at < told[a + j].at
    BY <1>1, <2>1 DEF InTime
  <2>. HIDE DEF part
  <2>. QED
    BY <1>2, <2>2
<1>5. InTime(part)
  BY <1>2, <1>3, <1>4 DEF InTime
<1>. QED
  BY <1>2, <1>5 DEF n

\* Whatever began after a time of quiet is the same in all of a journal and in what is
\* read of it from before that time; everything else was over by then.
LEMMA LeadInSuffices ==
    ASSUME NEW told, InTime(told), NEW a \in 0..Len(told), NEW p \in a..Len(told), NEW q \in Nat,
           AllOff(told, p, q),
           \A i \in (p + 1)..Len(told) :
                told[i].at > q /\ (told[i].on => told[i].at > q + MergeWindow),
           NEW g
    PROVE  LET part == SubSeq(told, a + 1, Len(told))
           IN /\ Newer(q, Runs(g, told)) = Newer(q, Runs(g, part))
              /\ EarlyIsOver(q, Runs(g, told)) /\ EarlyIsOver(q, Runs(g, part))
<1>. DEFINE n == Len(told)
            part == SubSeq(told, a + 1, n)
<1>1. n \in Nat /\ a \in 0..n /\ p \in a..n /\ p \in Nat /\ a \in Nat
  BY InTimeIs
<1>2. /\ InTime(part) /\ Len(part) = n - a
      /\ \A k \in 1..(n - a) : part[k] = told[a + k]
  BY LaterPart
<1>. HIDE DEF part
<1>3. PICK s : Trace(s, g, told)
  BY TraceIs
<1>4. PICK t : Trace(t, g, part)
  BY <1>2, TraceIs
<1>5. /\ \A k \in 0..n : s[k] \in RunType
      /\ \A k \in 0..(n - a) : t[k] \in RunType
  <2>1. \A k \in 0..n : s[k] \in RunType
    BY <1>3, TraceKnows
  <2>2. \A k \in 0..Len(part) : t[k] \in RunType
    BY <1>2, <1>4, TraceKnows
  <2>. QED
    BY <1>2, <2>1, <2>2
<1>6. AllOff(part, p - a, q)
  <2>1. ASSUME NEW i \in 1..(p - a)
        PROVE  part[i] = told[a + i] /\ a + i \in 1..p /\ i \in Nat
    <3>1. i \in 1..(n - a) /\ a + i \in 1..p
      BY <1>1
    <3>. QED
      BY <1>2, <3>1
  <2>2. ASSUME NEW i \in 1..(p - a), part[i].on
        PROVE  \E j \in (i + 1)..(p - a) : part[j].sensor = part[i].sensor
    <3>1. PICK j \in (a + i + 1)..p : told[j].sensor = told[a + i].sensor
      <4>1. a + i \in 1..p /\ told[a + i].on
        BY <2>1, <2>2
      <4>. QED
        BY <4>1 DEF AllOff
    <3>2. j - a \in (i + 1)..(p - a) /\ j - a \in 1..(p - a) /\ a + (j - a) = j
      BY <1>1, <2>1
    <3>3. part[j - a] = told[j]
      BY <2>1, <3>2
    <3>. QED
      BY <2>1, <3>1, <3>2, <3>3
  <2>. QED
    BY <2>1, <2>2 DEF AllOff
<1>. DEFINE Good == {k \in p..n : Alike(q, s[k], t[k - a])}
<1>7. p \in Good
  <2>1. Old(q, s[p]) /\ Newer(q, s[p].out) = {} /\ EarlyIsOver(q, s[p].out)
    <3>1. p \in 0..n
      BY <1>1
    <3>. QED
      BY <1>3, <3>1, OldWhenOff
  <2>2. Old(q, t[p - a]) /\ Newer(q, t[p - a].out) = {} /\ EarlyIsOver(q, t[p - a].out)
    <3>1. p - a \in 0..Len(part)
      BY <1>1, <1>2
    <3>. QED
      BY <1>2, <1>4, <1>6, <3>1, OldWhenOff
  <2>3. p \in p..n
    BY <1>1
  <2>. QED
    BY <2>1, <2>2, <2>3 DEF Alike
<1>8. ASSUME NEW k \in p..(n - 1), k \in Good PROVE k + 1 \in Good
  <2>1. /\ k + 1 \in 1..n /\ k + 1 \in p..n /\ (k + 1) - 1 = k /\ k \in 0..n /\ k + 1 \in (p + 1)..n
        /\ (k + 1) - a \in 1..(n - a) /\ ((k + 1) - a) - 1 = k - a /\ k - a \in 0..(n - a)
        /\ a + ((k + 1) - a) = k + 1
    BY <1>1
  <2>. DEFINE row == told[k + 1]
  <2>2. s[k + 1] = Folded(g, s[k], row)
    BY <1>3, <2>1 DEF Trace
  <2>3. t[(k + 1) - a] = Folded(g, t[k - a], row)
    <3>1. t[(k + 1) - a] = Folded(g, t[((k + 1) - a) - 1], part[(k + 1) - a])
      BY <1>2, <1>4, <2>1 DEF Trace
    <3>2. part[(k + 1) - a] = row
      BY <1>2, <2>1
    <3>. QED
      BY <2>1, <3>1, <3>2
  <2>4. row \in RowType /\ row.at > q /\ (row.on => row.at > q + MergeWindow)
    BY <2>1, InTimeIs
  <2>5. s[k] \in RunType /\ t[k - a] \in RunType /\ Alike(q, s[k], t[k - a])
    BY <1>5, <1>8, <2>1
  <2>. HIDE DEF row
  <2>6. Alike(q, Folded(g, s[k], row), Folded(g, t[k - a], row))
    BY <2>4, <2>5, AlikeStep
  <2>. QED
    BY <2>1, <2>2, <2>3, <2>6
<1>9. n \in Good
  <2>. HIDE DEF Good, n
  <2>1. Good \in SUBSET Nat /\ p \in 0..n /\ n \in p..n
    BY <1>1 DEF Good
  <2>2. \A k \in p..n : k \in Good
    BY <1>1, <1>7, <1>8, <2>1, StepByStep
  <2>. QED
    BY <2>1, <2>2
<1>10. Alike(q, s[n], t[n - a]) /\ s[n] \in RunType /\ t[n - a] \in RunType
  <2>1. n \in 0..n /\ n - a \in 0..(n - a)
    BY <1>1
  <2>. QED
    BY <1>5, <1>9, <2>1
<1>11. Runs(g, told) = AllOf(s[n]) /\ Runs(g, part) = AllOf(t[n - a])
  BY <1>2, <1>3, <1>4 DEF Trace, Runs, AllOf
<1>12. Newer(q, AllOf(s[n])) = Newer(q, AllOf(t[n - a]))
       /\ EarlyIsOver(q, AllOf(s[n])) /\ EarlyIsOver(q, AllOf(t[n - a]))
  BY <1>10, AlikeInTheEnd
<1>. QED
  BY <1>11, <1>12 DEF part
-----------------------------------------------------------------------------
(* A journal and the same one row earlier.                                   *)

\* The runs of the first rows are those that there were after them.
LEMMA FirstPart ==
    ASSUME NEW told, InTime(told), NEW b \in 0..Len(told)
    PROVE  LET part == SubSeq(told, 1, b)
           IN InTime(part) /\ Len(part) = b /\ \A k \in 1..b : part[k] = told[k]
<1>. DEFINE n == Len(told)
            part == SubSeq(told, 1, b)
<1>1. n \in Nat /\ told \in Seq(RowType) /\ DOMAIN told = 1..n /\ b \in 0..n
  BY InTimeIs DEF InTime
<1>. HIDE DEF n
<1>2. /\ part \in Seq(RowType) /\ Len(part) = b /\ \A k \in 1..b : part[k] = told[k]
  BY <1>1
<1>3. DOMAIN part = 1..b /\ \A k \in 1..b : k \in 1..n
  BY <1>1, <1>2
<1>4. ASSUME NEW i \in 1..b, NEW j \in 1..b, i < j PROVE part[i].at < part[j].at
  <2>1. told[i].at < told[j].at
    BY <1>1, <1>3, <1>4 DEF InTime
  <2>. HIDE DEF part
  <2>. QED
    BY <1>2, <2>1
<1>5. InTime(part)
  BY <1>2, <1>3, <1>4 DEF InTime
<1>. QED
  BY <1>2, <1>5 DEF n

LEMMA TraceOfPart ==
    ASSUME NEW g, NEW told, InTime(told), NEW s, Trace(s, g, told), NEW b \in 0..Len(told)
    PROVE  Runs(g, SubSeq(told, 1, b)) = AllOf(s[b])
<1>. DEFINE part == SubSeq(told, 1, b)
<1>1. InTime(part) /\ Len(part) = b /\ \A k \in 1..b : part[k] = told[k]
  BY FirstPart
<1>. HIDE DEF part
<1>2. PICK t : Trace(t, g, part)
  BY <1>1, TraceIs
<1>3. Len(told) \in Nat /\ b \in Nat /\ b <= Len(told)
  BY InTimeIs
<1>. DEFINE Good == {k \in 0..b : t[k] = s[k]}
<1>4. 0 \in Good
  BY <1>2, <1>3 DEF Trace
<1>5. ASSUME NEW k \in 0..(b - 1), k \in Good PROVE k + 1 \in Good
  <2>1. k + 1 \in 1..b /\ k + 1 \in 1..Len(told) /\ (k + 1) - 1 = k /\ k + 1 \in 0..b
    BY <1>3
  <2>2. s[k + 1] = Folded(g, s[k], told[k + 1])
    BY <2>1 DEF Trace
  <2>3. t[k + 1] = Folded(g, t[k], part[k + 1])
    BY <1>1, <1>2, <2>1 DEF Trace
  <2>. QED
    BY <1>1, <1>5, <2>1, <2>2, <2>3
<1>6. b \in Good
  <2>. HIDE DEF Good
  <2>1. Good \in SUBSET Nat /\ 0 \in 0..b /\ b \in 0..b
    BY <1>3 DEF Good
  <2>2. \A k \in 0..b : k \in Good
    BY <1>3, <1>4, <1>5, <2>1, StepByStep
  <2>. QED
    BY <2>1, <2>2
<1>7. FoldedAll(g, part) = s[b]
  BY <1>1, <1>2, <1>6 DEF Trace
<1>8. Runs(g, part) = AllOf(s[b])
  BY <1>7 DEF Runs, AllOf
<1>. QED
  BY <1>8 DEF part

LEMMA AllOfIs ==
    ASSUME NEW x \in RunType
    PROVE  ToSet(AllOf(x)) = IF x.from = Open THEN ToSet(x.out)
                             ELSE ToSet(x.out) \cup {[from |-> x.from, until |-> x.until]}
  BY YieldedIs DEF AllOf

\* A run that was long over as the last row came, and known to be, is the same without it.
LEMMA OverStep ==
    ASSUME NEW g, NEW told, InTime(told), Len(told) # 0,
           NEW x \in RunType, Known(g, told, Len(told) - 1, x),
           Folded(g, x, told[Len(told)]) \in RunType,
           NEW r, r.until \in Nat, r.until + MergeWindow < told[Len(told)].at,
           \E i \in 1..(Len(told) - 1) : Mine(g, told[i]) /\ r.until <= told[i].at
    PROVE  r \in ToSet(AllOf(x)) <=> r \in ToSet(AllOf(Folded(g, x, told[Len(told)])))
<1>. DEFINE n == Len(told)
            row == told[n]
            z == Folded(g, x, row)
<1>1. n \in Nat \ {0} /\ row \in RowType /\ row.at \in Nat /\ row.on \in BOOLEAN /\ n \in 1..n
  <2>1. n \in Nat /\ n # 0
    BY InTimeIs
  <2>2. n \in 1..n
    BY <2>1
  <2>. QED
    BY <2>1, <2>2, InTimeIs
<1>2. /\ MergeWindow \in Nat /\ LongestRun \in Nat \ {0} /\ Open \notin Nat
      /\ x.from \in Nat \cup {Open} /\ x.until \in Nat \cup {Open} /\ r.until # Open
  BY EventsAssumption DEF RunType, Moments
<1>. DEFINE mine == [from |-> x.from, until |-> x.until]
<1>3. ToSet(AllOf(x)) = IF x.from = Open THEN ToSet(x.out) ELSE ToSet(x.out) \cup {mine}
  BY AllOfIs
<1>4. ToSet(AllOf(z)) = IF z.from = Open THEN ToSet(z.out)
                        ELSE ToSet(z.out) \cup {[from |-> z.from, until |-> z.until]}
  BY AllOfIs
<1>5. CASE Mine(g, row) => ~ Opens(x, row) /\ x.from = Open
  <2>1. z = x
    BY <1>1, <1>5, IdlesOn
  <2>. QED
    BY <2>1
<1>6. CASE Mine(g, row) /\ Opens(x, row)
  <2>1. /\ z.from = row.at /\ z.until = Open
        /\ z.out = IF x.from = Open THEN x.out ELSE Yielded(x, x.until)
    BY <1>1, <1>6, OpensRun
  <2>2. ToSet(z.out) = ToSet(AllOf(x))
    BY <2>1 DEF AllOf
  <2>3. row.at # Open
    BY <1>1, <1>2
  <2>4. r # [from |-> z.from, until |-> z.until]
    BY <1>2, <2>1
  <2>. HIDE DEF z
  <2>5. r \in ToSet(AllOf(x)) <=> r \in ToSet(AllOf(z))
    BY <1>4, <2>1, <2>2, <2>3, <2>4
  <2>. QED
    BY <2>5 DEF z
<1>7. CASE Mine(g, row) /\ ~ Opens(x, row) /\ x.from # Open
  <2>1. Ended(told, n - 1, x) /\ Short(g, told, n - 1, x)
    BY <1>7 DEF Known
  <2>2. x.from \in Nat
    BY <1>2, <1>7
  <2>3. ~ (r.until - x.from >= LongestRun)
    <3>1. PICK i \in 1..(n - 1) : Mine(g, told[i]) /\ r.until <= told[i].at
      OBVIOUS
    <3>2. told[i].at - x.from < LongestRun /\ told[i].at \in Nat
      <4>1. i \in 1..n
        BY <1>1
      <4>. QED
        BY <2>1, <3>1, <4>1, InTimeIs DEF Short
    <3>3. \A a, b, c, d \in Nat : a <= b /\ b - c < d => ~ (a - c >= d)
      OBVIOUS
    <3>. QED
      BY <1>2, <2>2, <3>1, <3>2, <3>3
  <2>4. ASSUME EndAfter(x, row) # x.until PROVE r # mine
    <3>1. SUFFICES ASSUME x.until = r.until PROVE FALSE
      OBVIOUS
    <3>2. x.until # Open
      BY <1>2, <3>1
    <3>3. row.on
      BY <1>1, <2>4, <3>2 DEF EndAfter
    <3>4. ~ (row.at - x.until > MergeWindow)
      BY <1>7, <3>2, <3>3 DEF Opens
    <3>. HIDE DEF row
    <3>5. r.until + MergeWindow < row.at
      BY DEF row
    <3>. QED
      BY <1>1, <1>2, <3>1, <3>4, <3>5
  <2>5. IF row.at - x.from >= LongestRun
        THEN z = NoRun(Yielded(x, CutAt(x, row)))
        ELSE /\ z.from = x.from /\ z.opener = x.opener /\ z.out = x.out
             /\ z.until = EndAfter(x, row)
    BY <1>1, <1>7, RunsOn
  <2>6. CASE row.at - x.from >= LongestRun
    <3>. DEFINE cut == [from |-> x.from, until |-> CutAt(x, row)]
    <3>1. z.from = Open /\ z.out = Yielded(x, CutAt(x, row))
      BY <2>5, <2>6, NoRunIs
    <3>2. ToSet(AllOf(z)) = ToSet(x.out) \cup {cut}
      <4>1. ToSet(Yielded(x, CutAt(x, row))) = ToSet(x.out) \cup {cut}
        BY YieldedIs
      <4>. HIDE DEF z, cut
      <4>. QED
        BY <1>4, <3>1, <4>1
    <3>3. CASE EndAfter(x, row) = x.until /\ x.until # Open
      <4>1. x.until < x.from + LongestRun
        BY <2>1, <3>3 DEF Ended
      <4>2. CutAt(x, row) = x.until
        BY <3>3, <4>1 DEF CutAt
      <4>. QED
        BY <1>3, <1>7, <3>2, <4>2
    <3>4. CASE ~ (EndAfter(x, row) = x.until /\ x.until # Open)
      <4>1. r # mine
        BY <1>2, <2>4, <3>4
      <4>2. EndAfter(x, row) = Open \/ EndAfter(x, row) = row.at
        BY <3>4 DEF EndAfter
      <4>3. CutAt(x, row) = x.from + LongestRun
        <5>1. row.at \in Nat /\ x.from + LongestRun <= row.at
          <6>. HIDE DEF row
          <6>. QED
            BY <1>1, <1>2, <2>2, <2>6
        <5>2. ~ (row.at < x.from + LongestRun)
          <6>. HIDE DEF row
          <6>. QED
            BY <1>2, <2>2, <5>1
        <5>. QED
          BY <1>2, <4>2, <5>1, <5>2 DEF CutAt
      <4>4. r # cut
        <5>1. SUFFICES ASSUME r.until = x.from + LongestRun PROVE FALSE
          BY <4>3
        <5>. QED
          BY <1>2, <2>2, <2>3, <5>1
      <4>. QED
        BY <1>3, <1>7, <3>2, <4>1, <4>4
    <3>. QED
      BY <3>3, <3>4
  <2>7. CASE ~ (row.at - x.from >= LongestRun)
    <3>. DEFINE same == [from |-> x.from, until |-> EndAfter(x, row)]
    <3>1. z.from = x.from /\ z.out = x.out /\ z.until = EndAfter(x, row)
      BY <2>5, <2>7
    <3>2. ToSet(AllOf(z)) = ToSet(x.out) \cup {same}
      BY <1>4, <1>7, <3>1
    <3>3. CASE EndAfter(x, row) = x.until
      BY <1>3, <1>7, <3>2, <3>3
    <3>4. CASE EndAfter(x, row) # x.until
      <4>1. EndAfter(x, row) = Open \/ EndAfter(x, row) = row.at
        BY <3>4 DEF EndAfter
      <4>2. r # same
        <5>1. SUFFICES ASSUME r.until = EndAfter(x, row) PROVE FALSE
          OBVIOUS
        <5>2. r.until = row.at
          BY <1>2, <4>1, <5>1
        <5>3. r.until + MergeWindow < row.at
          OBVIOUS
        <5>. HIDE DEF row
        <5>. QED
          BY <1>1, <1>2, <5>2, <5>3
      <4>. QED
        BY <1>3, <1>7, <2>4, <3>2, <3>4, <4>2
    <3>. QED
      BY <3>3, <3>4
  <2>. QED
    BY <2>6, <2>7
<1>. QED
  BY <1>5, <1>6, <1>7

LEMMA OneRowLater ==
    ASSUME NEW told, InTime(told), Len(told) # 0, NEW g,
           NEW r, r.until \in Nat, r.until + MergeWindow < told[Len(told)].at,
           \E i \in 1..(Len(told) - 1) : Mine(g, told[i]) /\ r.until <= told[i].at
    PROVE  r \in ToSet(Runs(g, SubSeq(told, 1, Len(told) - 1))) <=> r \in ToSet(Runs(g, told))
<1>. DEFINE n == Len(told)
<1>1. n \in Nat /\ n # 0
  BY InTimeIs
<1>. HIDE DEF n
<1>2. n - 1 \in 0..n /\ n \in 1..n /\ n \in 0..n
  BY <1>1
<1>3. PICK s : Trace(s, g, told)
  BY TraceIs
<1>4. Runs(g, SubSeq(told, 1, n - 1)) = AllOf(s[n - 1])
  BY <1>2, <1>3, TraceOfPart DEF n
<1>5. Runs(g, told) = AllOf(s[n])
  BY <1>3 DEF Trace, Runs, AllOf, n
<1>6. s[n] = Folded(g, s[n - 1], told[n])
  BY <1>2, <1>3 DEF Trace, n
<1>7. s[n - 1] \in RunType /\ Known(g, told, n - 1, s[n - 1]) /\ s[n] \in RunType
  BY <1>2, <1>3, TraceKnows DEF n
<1>8. r \in ToSet(AllOf(s[n - 1])) <=> r \in ToSet(AllOf(Folded(g, s[n - 1], told[n])))
  BY <1>6, <1>7, OverStep DEF n
<1>. QED
  BY <1>4, <1>5, <1>6, <1>8 DEF n
-----------------------------------------------------------------------------
(* What preceded an event.                                                   *)

\* Events that can be put in order.
Orderly(E) ==
    IsFiniteSet(E) /\ (\A e \in E : e.from \in Nat) /\ \A e, f \in E : e.from = f.from => e = f

LEMMA OrderlyIs ==
    ASSUME NEW E, Orderly(E)
    PROVE  LET n == Cardinality(E)
           IN /\ n \in Nat /\ DOMAIN InOrder(E) = 1..n
              /\ \A i \in 1..n : InOrder(E)[i] \in E /\ InOrder(E)[i].from \in Nat
              /\ \A e \in E : \E i \in 1..n : InOrder(E)[i] = e
              /\ \A i, j \in 1..n : i < j => InOrder(E)[i].from < InOrder(E)[j].from
<1>1. /\ IsFiniteSet(E) /\ \A e \in E : e.from \in Nat
      /\ \A e, f \in E : e.from = f.from => e = f
  BY DEF Orderly
<1>2. /\ Cardinality(E) \in Nat
      /\ DOMAIN InOrder(E) = 1..Cardinality(E)
      /\ \A i \in 1..Cardinality(E) : InOrder(E)[i] \in E
      /\ \A e \in E : \E i \in 1..Cardinality(E) : InOrder(E)[i] = e
      /\ \A i, j \in 1..Cardinality(E) : i < j => InOrder(E)[i].from < InOrder(E)[j].from
  BY <1>1, InOrderIs
<1>. QED
  BY <1>1, <1>2

Preceding(E, e) == {f \in E : f.from < e.from /\ GroupKey(f.camera) = GroupKey(e.camera)}

LEMMA PreviousIs ==
    ASSUME NEW E, Orderly(E), NEW i \in DOMAIN InOrder(E)
    PROVE  LET before == Preceding(E, InOrder(E)[i])
               previous == Previous(InOrder(E), i)
           IN IF before = {} THEN previous = Open
              ELSE previous \in before /\ \A f \in before : f.from <= previous.from
<1>. DEFINE n == Cardinality(E)
            events == InOrder(E)
            e == events[i]
            before == {j \in 1..(i - 1) : GroupKey(events[j].camera) = GroupKey(events[i].camera)}
<1>1. /\ n \in Nat /\ DOMAIN events = 1..n
      /\ \A j \in 1..n : events[j] \in E /\ events[j].from \in Nat
      /\ \A f \in E : \E j \in 1..n : events[j] = f
      /\ \A j, k \in 1..n : j < k => events[j].from < events[k].from
  BY OrderlyIs
<1>2. Previous(events, i) = IF before = {} THEN Open ELSE events[Max(before)]
  BY DEF Previous
<1>3. i \in 1..n /\ before \in SUBSET Nat /\ IsFiniteSet(before)
      /\ \A j \in before : j \in 1..n /\ j < i
  <2>1. i \in 1..n
    BY <1>1
  <2>. HIDE DEF events, n
  <2>2. before \in SUBSET (1..(i - 1)) /\ i - 1 \in Int
    BY <1>1, <2>1
  <2>3. IsFiniteSet(1..(i - 1))
    BY <2>2, FS_Interval
  <2>4. IsFiniteSet(before)
    BY <2>2, <2>3, FS_Subset
  <2>. QED
    BY <1>1, <2>1, <2>2, <2>4
<1>. HIDE DEF events, n
<1>4. ASSUME NEW j \in before PROVE events[j] \in Preceding(E, e)
  BY <1>1, <1>3 DEF Preceding
<1>5. ASSUME NEW f \in Preceding(E, e) PROVE \E j \in before : events[j] = f
  <2>1. f \in E /\ f.from < e.from /\ GroupKey(f.camera) = GroupKey(e.camera)
    BY DEF Preceding
  <2>2. PICK j \in 1..n : events[j] = f
    BY <1>1, <2>1
  <2>3. events[j].from \in Nat /\ events[i].from \in Nat /\ events[j].from < events[i].from
    BY <1>1, <1>3, <2>1, <2>2
  <2>4. ~ (i < j) /\ i # j
    <3>1. i < j => events[i].from < events[j].from
      BY <1>1, <1>3
    <3>. QED
      BY <2>3, <3>1
  <2>5. j < i
    BY <1>1, <1>3, <2>4
  <2>6. j \in 1..(i - 1)
    BY <1>1, <1>3, <2>5
  <2>. QED
    BY <2>1, <2>2, <2>6
<1>6. CASE before = {}
  <2>1. Preceding(E, e) = {}
    BY <1>5, <1>6
  <2>. QED
    BY <1>2, <1>6, <2>1 DEF events
<1>7. CASE before # {}
  <2>. DEFINE m == Max(before)
  <2>1. m \in before /\ \A j \in before : m >= j
    <3>. HIDE DEF before
    <3>. QED
      BY <1>3, <1>7, LatestIsOne
  <2>. HIDE DEF m, before
  <2>2. events[m] \in Preceding(E, e) /\ Previous(events, i) = events[m]
    BY <1>2, <1>4, <1>7, <2>1 DEF m
  <2>3. ASSUME NEW f \in Preceding(E, e) PROVE f.from <= events[m].from
    <3>1. PICK j \in before : events[j] = f
      BY <1>5
    <3>2. j \in 1..n /\ m \in 1..n /\ j <= m
      BY <1>1, <1>3, <2>1
    <3>3. j = m \/ events[j].from < events[m].from
      BY <1>1, <3>2
    <3>4. events[j].from \in Nat /\ events[m].from \in Nat
      BY <1>1, <3>2
    <3>. QED
      BY <3>1, <3>3, <3>4
  <2>. QED
    BY <2>2, <2>3 DEF events
<1>. QED
  BY <1>6, <1>7

\* What was over long enough ago preceded nothing.
LEMMA LongAgo ==
    ASSUME NEW event, NEW previous, NEW q \in Nat, event.from \in Nat, event.from - q > LastLag,
           previous.from \in Nat, previous.from <= q, previous.until \in Nat, previous.until <= q
    PROVE  PredecessorLabel(event, previous) = <<"none">>
<1>. DEFINE n == Len(LagEdges)
<1>1. /\ LagEdges \in Seq(Nat) /\ n \in Nat /\ n # 0 /\ DOMAIN LagEdges = 1..n /\ Open \notin Nat
  BY EventsAssumption
<1>2. \A i \in 1..n : LagEdges[i] \in Nat /\ LagEdges[i] <= LastLag
  <2>1. n \in 1..n /\ \A i \in 1..n : LagEdges[i] \in Nat
    <3>1. \A i \in DOMAIN LagEdges : LagEdges[i] \in Nat
      BY <1>1
    <3>. HIDE DEF n
    <3>. QED
      BY <1>1, <3>1
  <2>2. \A i \in 1..n : i < n => LagEdges[i] < LagEdges[n]
    BY <1>1, <2>1, EventsAssumption
  <2>3. LastLag = LagEdges[n] /\ LagEdges[n] \in Nat
    BY <2>1 DEF LastLag
  <2>. HIDE DEF n
  <2>4. \A i \in 1..n : i < n \/ i = n
    BY <1>1
  <2>. QED
    BY <2>1, <2>2, <2>3, <2>4
<1>3. Gap(event, previous) = event.from - previous.until
      /\ Gap(event, previous) \in Int /\ Gap(event, previous) > LastLag
  <2>1. LastLag \in Nat
    BY <1>1, <1>2 DEF LastLag
  <2>2. ~ (event.from < previous.until) /\ event.from - previous.until > LastLag
    BY <2>1
  <2>3. previous.until # Open
    BY <1>1
  <2>. QED
    BY <2>2, <2>3 DEF Gap
<1>4. \A i \in 1..n : ~ (Gap(event, previous) <= LagEdges[i])
  <2>1. LastLag \in Nat
    BY <1>1, <1>2 DEF LastLag
  <2>. HIDE DEF n
  <2>. QED
    BY <1>2, <1>3, <2>1
<1>5. LagBucket(Gap(event, previous)) = {}
  BY <1>1, <1>4 DEF LagBucket
<1>. QED
  BY <1>5 DEF PredecessorLabel

OverBy(q, E) == \A e \in E : e.from <= q => e.until \in Nat /\ e.until <= q

LEMMA LabelsAgree ==
    ASSUME NEW E, Orderly(E), NEW F, Orderly(F), NEW q \in Nat, OverBy(q, E), OverBy(q, F),
           {e \in E : e.from > q} = {e \in F : e.from > q},
           NEW i \in DOMAIN InOrder(E), NEW j \in DOMAIN InOrder(F), InOrder(E)[i] = InOrder(F)[j],
           InOrder(E)[i].from - q > LastLag
    PROVE  PredecessorLabel(InOrder(E)[i], Previous(InOrder(E), i))
             = PredecessorLabel(InOrder(F)[j], Previous(InOrder(F), j))
<1>. DEFINE e == InOrder(E)[i]
            x == Previous(InOrder(E), i)
            y == Previous(InOrder(F), j)
            Late == {f \in Preceding(E, e) : f.from > q}
<1>1. e.from \in Nat /\ e = InOrder(F)[j] /\ e.from - q > LastLag
  BY OrderlyIs
<1>2. Late = {f \in Preceding(F, e) : f.from > q}
  BY DEF Preceding
<1>3. IF Preceding(E, e) = {} THEN x = Open
      ELSE x \in Preceding(E, e) /\ \A f \in Preceding(E, e) : f.from <= x.from
  BY PreviousIs
<1>4. IF Preceding(F, e) = {} THEN y = Open
      ELSE y \in Preceding(F, e) /\ \A f \in Preceding(F, e) : f.from <= y.from
  <2>1. IF Preceding(F, InOrder(F)[j]) = {} THEN y = Open
        ELSE y \in Preceding(F, InOrder(F)[j])
             /\ \A f \in Preceding(F, InOrder(F)[j]) : f.from <= y.from
    BY PreviousIs
  <2>. QED
    BY <1>1, <2>1
<1>5. \A f \in Preceding(E, e) \cup Preceding(F, e) : f.from \in Nat
  BY DEF Preceding, Orderly
<1>. HIDE DEF e, x, y
<1>6. CASE Late # {}
  <2>1. PICK f \in Late : TRUE
    BY <1>6
  <2>2. f \in Preceding(E, e) /\ f \in Preceding(F, e) /\ f.from > q /\ f.from \in Nat
    BY <1>2, <1>5, <2>1
  <2>3. x \in Preceding(E, e) /\ \A d \in Preceding(E, e) : d.from <= x.from
    BY <1>3, <2>2
  <2>4. y \in Preceding(F, e) /\ \A d \in Preceding(F, e) : d.from <= y.from
    BY <1>4, <2>2
  <2>5. x.from \in Nat /\ y.from \in Nat /\ x.from > q /\ y.from > q
    <3>1. x.from \in Nat /\ y.from \in Nat /\ f.from <= x.from /\ f.from <= y.from
      BY <1>5, <2>2, <2>3, <2>4
    <3>. QED
      BY <2>2, <3>1
  <2>6. x \in Preceding(F, e) /\ y \in Preceding(E, e)
    BY <1>2, <2>3, <2>4, <2>5
  <2>7. x.from = y.from
    <3>1. x.from <= y.from /\ y.from <= x.from
      BY <2>3, <2>4, <2>6
    <3>. QED
      BY <2>5, <3>1
  <2>8. x = y
    BY <2>3, <2>6, <2>7 DEF Preceding, Orderly
  <2>. QED
    BY <1>1, <2>8 DEF e, x, y
<1>7. CASE Late = {}
  <2>1. \A f \in Preceding(E, e) : /\ f.from \in Nat /\ f.from <= q /\ f.until \in Nat
                                   /\ f.until <= q
    <3>1. \A f \in Preceding(E, e) : f \in E /\ f.from \in Nat /\ ~ (f.from > q)
      BY <1>5, <1>7 DEF Preceding
    <3>2. \A f \in Preceding(E, e) : f \in E /\ f.from \in Nat /\ f.from <= q
      BY <3>1
    <3>. QED
      BY <3>2 DEF OverBy
  <2>2. \A f \in Preceding(F, e) : /\ f.from \in Nat /\ f.from <= q /\ f.until \in Nat
                                   /\ f.until <= q
    <3>1. \A f \in Preceding(F, e) : f \in F /\ f.from \in Nat /\ ~ (f.from > q)
      BY <1>2, <1>5, <1>7 DEF Preceding
    <3>2. \A f \in Preceding(F, e) : f \in F /\ f.from \in Nat /\ f.from <= q
      BY <3>1
    <3>. QED
      BY <3>2 DEF OverBy
  <2>3. PredecessorLabel(e, x) = <<"none">>
    <3>1. CASE x = Open
      BY <3>1 DEF PredecessorLabel
    <3>2. CASE x # Open
      <4>1. x \in Preceding(E, e)
        BY <1>3, <3>2
      <4>. QED
        BY <1>1, <2>1, <4>1, LongAgo
    <3>. QED
      BY <3>1, <3>2
  <2>4. PredecessorLabel(e, y) = <<"none">>
    <3>1. CASE y = Open
      BY <3>1 DEF PredecessorLabel
    <3>2. CASE y # Open
      <4>1. y \in Preceding(F, e)
        BY <1>4, <3>2
      <4>. QED
        BY <1>1, <2>2, <4>1, LongAgo
    <3>. QED
      BY <3>1, <3>2
  <2>. QED
    BY <1>1, <2>3, <2>4 DEF e, x, y
<1>. QED
  BY <1>6, <1>7
-----------------------------------------------------------------------------
(* Windows of a journal.                                                     *)

LEMMA EventsInOrder ==
    ASSUME NEW told, InTime(told)
    PROVE  /\ Orderly(EventsOf(told)) /\ Derive(told) = InOrder(EventsOf(told))
           /\ \A i \in DOMAIN Derive(told) :
                Derive(told)[i] \in EventsOf(told) /\ Derive(told)[i].from \in Nat
           /\ \A e \in EventsOf(told) : \E i \in DOMAIN Derive(told) : Derive(told)[i] = e
<1>1. RowsApart(told)
  BY InTimeIs
<1>2. Orderly(EventsOf(told)) /\ Derive(told) = InOrder(EventsOf(told))
  BY <1>1, EventsAre DEF Orderly
<1>. QED
  BY <1>2, OrderlyIs

\* An event is of a run of its camera and kind.
LEMMA EventIsRun ==
    ASSUME NEW told, InTime(told), NEW e
    PROVE  e \in EventsOf(told) <=>
             \E g \in Groups : \E r \in Yields :
                /\ r \in ToSet(Runs(g, told))
                /\ e = [camera |-> g[1], kind |-> g[2], from |-> r.from, until |-> r.until]
<1>1. \A g : \A r \in ToSet(Runs(g, told)) : r \in Yields
  <2>1. SUFFICES ASSUME NEW g, NEW r \in ToSet(Runs(g, told)) PROVE r \in Yields
    OBVIOUS
  <2>2. Runs(g, told) \in Seq(Yields)
    BY InTimeIs, RunsAreDated DEF Begun
  <2>3. PICK j \in DOMAIN Runs(g, told) : r = Runs(g, told)[j]
    BY DEF ToSet
  <2>. HIDE DEF Yields
  <2>. QED
    BY <2>2, <2>3
<1>. QED
  BY <1>1 DEF EventsOf

\* A time of quiet, long enough before a window, with p rows before it.
Quiet(told, q, p) ==
    /\ AllOff(told, p, q)
    /\ \A i \in (p + 1)..Len(told) :
            told[i].at > q /\ (told[i].on => told[i].at > q + MergeWindow)

LEMMA EventsAgree ==
    ASSUME NEW told, InTime(told), NEW a \in 0..Len(told), NEW p \in a..Len(told), NEW q \in Nat,
           Quiet(told, q, p)
    PROVE  LET part == SubSeq(told, a + 1, Len(told))
           IN /\ InTime(part)
              /\ {e \in EventsOf(told) : e.from > q} = {e \in EventsOf(part) : e.from > q}
              /\ OverBy(q, EventsOf(told)) /\ OverBy(q, EventsOf(part))
<1>. DEFINE part == SubSeq(told, a + 1, Len(told))
<1>1. InTime(part)
  BY LaterPart
<1>2. ASSUME NEW g
      PROVE  /\ Newer(q, Runs(g, told)) = Newer(q, Runs(g, part))
             /\ EarlyIsOver(q, Runs(g, told)) /\ EarlyIsOver(q, Runs(g, part))
  BY LeadInSuffices DEF Quiet
<1>. HIDE DEF part
<1>3. ASSUME NEW x, NEW y, InTime(x), InTime(y),
             \A g : Newer(q, Runs(g, x)) \subseteq Newer(q, Runs(g, y)),
             NEW e \in EventsOf(x), e.from > q
      PROVE  e \in EventsOf(y)
  <2>1. PICK g \in Groups, r \in Yields :
            /\ r \in ToSet(Runs(g, x))
            /\ e = [camera |-> g[1], kind |-> g[2], from |-> r.from, until |-> r.until]
    BY <1>3, EventIsRun
  <2>2. e.from = r.from
    BY <2>1
  <2>3. r \in ToSet(Runs(g, y))
    BY <1>3, <2>1, <2>2 DEF Newer
  <2>. QED
    BY <1>3, <2>1, <2>3, EventIsRun
<1>4. {e \in EventsOf(told) : e.from > q} = {e \in EventsOf(part) : e.from > q}
  <2>1. \A e \in EventsOf(told) : e.from > q => e \in EventsOf(part)
    BY <1>1, <1>2, <1>3
  <2>2. \A e \in EventsOf(part) : e.from > q => e \in EventsOf(told)
    BY <1>1, <1>2, <1>3
  <2>. QED
    BY <2>1, <2>2
<1>5. ASSUME NEW x, InTime(x), \A g : EarlyIsOver(q, Runs(g, x)) PROVE OverBy(q, EventsOf(x))
  <2>1. SUFFICES ASSUME NEW e \in EventsOf(x), e.from <= q PROVE e.until \in Nat /\ e.until <= q
    BY DEF OverBy
  <2>2. PICK g \in Groups, r \in Yields :
            /\ r \in ToSet(Runs(g, x))
            /\ e = [camera |-> g[1], kind |-> g[2], from |-> r.from, until |-> r.until]
    BY <1>5, EventIsRun
  <2>3. e.from = r.from /\ e.until = r.until
    BY <2>2
  <2>. QED
    BY <1>5, <2>1, <2>2, <2>3 DEF EarlyIsOver
<1>6. OverBy(q, EventsOf(told)) /\ OverBy(q, EventsOf(part))
  BY <1>1, <1>2, <1>5
<1>. QED
  BY <1>1, <1>4, <1>6 DEF part

\* The places of the events that began in a window.
Inside(told, since, until) ==
    {j \in DOMAIN Derive(told) : since <= Derive(told)[j].from /\ Derive(told)[j].from < until}
LabelAt(told, j) == PredecessorLabel(Derive(told)[j], Previous(Derive(told), j))

\* Whatever began in a window has its like, in all of the journal and in what is read of it.
Mirrored(x, y, since, until) ==
    \A i \in Inside(x, since, until) : \E j \in Inside(y, since, until) :
        Derive(y)[j] = Derive(x)[i] /\ LabelAt(y, j) = LabelAt(x, i)

LEMMA WindowsMirror ==
    ASSUME NEW x, InTime(x), NEW y, InTime(y), NEW q \in Nat, NEW since \in Nat, NEW until \in Nat,
           since - q > LastLag, LastLag \in Nat,
           OverBy(q, EventsOf(x)), OverBy(q, EventsOf(y)),
           {e \in EventsOf(x) : e.from > q} = {e \in EventsOf(y) : e.from > q}
    PROVE  Mirrored(x, y, since, until)
<1>1. SUFFICES ASSUME NEW i \in Inside(x, since, until)
               PROVE  \E j \in Inside(y, since, until) :
                        Derive(y)[j] = Derive(x)[i] /\ LabelAt(y, j) = LabelAt(x, i)
  BY DEF Mirrored
<1>. DEFINE E == EventsOf(x)
            F == EventsOf(y)
            e == Derive(x)[i]
<1>2. /\ Orderly(E) /\ Derive(x) = InOrder(E) /\ Orderly(F) /\ Derive(y) = InOrder(F)
      /\ i \in DOMAIN Derive(x) /\ e \in E /\ e.from \in Nat /\ since <= e.from /\ e.from < until
  BY EventsInOrder DEF Inside
<1>3. e.from > q /\ e.from - q > LastLag
  <2>. HIDE DEF e
  <2>. QED
    BY <1>2
<1>4. e \in F
  <2>1. e \in {f \in E : f.from > q}
    BY <1>2, <1>3
  <2>. HIDE DEF e
  <2>. QED
    BY <2>1
<1>5. PICK j \in DOMAIN Derive(y) : Derive(y)[j] = e
  BY <1>4, EventsInOrder
<1>6. j \in Inside(y, since, until)
  BY <1>2, <1>5 DEF Inside
<1>7. LabelAt(y, j) = LabelAt(x, i)
  <2>1. /\ i \in DOMAIN InOrder(E) /\ j \in DOMAIN InOrder(F) /\ InOrder(E)[i] = InOrder(F)[j]
        /\ InOrder(E)[i].from - q > LastLag
    BY <1>2, <1>3, <1>5
  <2>. HIDE DEF E, F, e
  <2>2. PredecessorLabel(InOrder(E)[i], Previous(InOrder(E), i))
          = PredecessorLabel(InOrder(F)[j], Previous(InOrder(F), j))
    BY <1>2, <2>1, LabelsAgree DEF E, F
  <2>. QED
    BY <1>2, <2>2 DEF LabelAt
<1>. QED
  BY <1>5, <1>6, <1>7
-----------------------------------------------------------------------------
(* What is read for a window.                                                *)

LEMMA LogIsInTime == LogFits => InTime(log) /\ Len(log) \in Nat /\ DOMAIN log = 1..Len(log)
BY DEF LogFits, InTime

LEMMA OlderIs ==
    ASSUME LogFits, NEW t \in Int
    PROVE  /\ Older(t) \in 0..Len(log)
           /\ \A i \in 1..Len(log) : i <= Older(t) <=> log[i].at < t
<1>. DEFINE n == Len(log)
            S == {i \in DOMAIN log : log[i].at < t}
<1>1. /\ n \in Nat /\ DOMAIN log = 1..n /\ \A i \in 1..n : log[i].at \in Nat
      /\ \A i, j \in 1..n : i < j => log[i].at < log[j].at
  <2>1. InTime(log) /\ n \in Nat /\ DOMAIN log = 1..n
    BY LogIsInTime
  <2>. QED
    BY <2>1, InTimeIs DEF InTime
<1>2. Older(t) = Cardinality(S)
  BY DEF Older
<1>. HIDE DEF n
<1>3. CASE S = {}
  <2>1. Older(t) = 0
    BY <1>2, <1>3, FS_EmptySet
  <2>2. \A i \in 1..n : ~ (i <= 0) /\ ~ (log[i].at < t)
    BY <1>1, <1>3
  <2>. QED
    BY <1>1, <2>1, <2>2 DEF n
<1>4. CASE S # {}
  <2>. DEFINE m == Max(S)
  <2>1. S \in SUBSET (1..n) /\ S \in SUBSET Nat /\ IsFiniteSet(S)
    <3>1. S \in SUBSET (1..n) /\ IsFiniteSet(1..n)
      BY <1>1, FS_Interval
    <3>2. IsFiniteSet(S)
      BY <3>1, FS_Subset
    <3>. HIDE DEF S
    <3>. QED
      BY <3>1, <3>2
  <2>2. m \in S /\ \A y \in S : m >= y
    <3>. HIDE DEF S
    <3>. QED
      BY <1>4, <2>1, LatestIsOne
  <2>. HIDE DEF m
  <2>3. m \in 1..n /\ log[m].at < t
    BY <1>1, <2>2
  <2>4. \A i \in 1..n : i <= m <=> log[i].at < t
    <3>1. ASSUME NEW i \in 1..n, i <= m PROVE log[i].at < t
      <4>1. i = m \/ log[i].at < log[m].at
        BY <1>1, <2>3, <3>1
      <4>2. log[i].at \in Nat /\ log[m].at \in Nat
        BY <1>1, <2>3
      <4>. QED
        BY <2>3, <4>1, <4>2
    <3>2. ASSUME NEW i \in 1..n, log[i].at < t PROVE i <= m
      <4>1. i \in S
        BY <1>1, <3>2
      <4>. QED
        BY <2>2, <2>3, <4>1
    <3>. QED
      BY <3>1, <3>2
  <2>5. S = 1..m
    <3>1. \A i \in 1..m : i \in 1..n /\ i <= m
      BY <1>1, <2>3
    <3>2. \A i \in S : i \in 1..n /\ log[i].at < t
      BY <1>1
    <3>3. \A i \in 1..m : i \in S
      BY <1>1, <2>4, <3>1
    <3>4. \A i \in S : i \in 1..m
      BY <2>3, <2>4, <3>2
    <3>. HIDE DEF S
    <3>. QED
      BY <3>3, <3>4
  <2>6. Cardinality(1..m) = m
    <3>1. m \in Int /\ 1 \in Int /\ m - 1 + 1 = m /\ ~ (1 > m)
      BY <2>3
    <3>. QED
      BY <3>1, FS_Interval
  <2>. HIDE DEF S
  <2>7. Older(t) = m
    BY <1>2, <2>5, <2>6
  <2>8. m \in 0..n
    BY <1>1, <2>3
  <2>. QED
    BY <2>4, <2>7, <2>8 DEF n
<1>. QED
  BY <1>3, <1>4

LEMMA PartOfPart ==
    ASSUME NEW T, NEW s \in Seq(T), NEW b \in 0..Len(s), NEW a \in 0..b
    PROVE  SubSeq(SubSeq(s, 1, b), a + 1, b) = SubSeq(s, a + 1, b)
<1>. DEFINE first == SubSeq(s, 1, b)
            x == SubSeq(first, a + 1, b)
            y == SubSeq(s, a + 1, b)
<1>1. a \in Nat /\ b \in Nat /\ a <= b /\ b <= Len(s) /\ Len(s) \in Nat
  OBVIOUS
<1>2. first \in Seq(T) /\ Len(first) = b /\ \A k \in 1..b : first[k] = s[k]
  BY <1>1
<1>3. y \in Seq(T) /\ Len(y) = b - a /\ \A k \in 1..(b - a) : y[k] = s[a + k]
  BY <1>1
<1>. HIDE DEF first, y
<1>4. x \in Seq(T) /\ Len(x) = b - a /\ \A k \in 1..(b - a) : x[k] = first[a + k]
  BY <1>1, <1>2
<1>. HIDE DEF x
<1>5. \A k \in 1..(b - a) : a + k \in 1..b
  BY <1>1
<1>6. \A k \in 1..(b - a) : x[k] = y[k]
  BY <1>2, <1>3, <1>4, <1>5
<1>7. x = y
  BY <1>1, <1>3, <1>4, <1>6
<1>. QED
  BY <1>7 DEF x, y, first

\* When no sensor is on, and for longer than the window that merges, it is quiet.
LEMMA SettledIsQuiet ==
    ASSUME LogFits, NEW q \in Nat, \A s \in Sensors : ~ IsOn(s, q),
           \A i \in DOMAIN log : log[i].on => log[i].at <= q \/ log[i].at > q + MergeWindow,
           NEW b \in 0..Len(log), Older(q + 1) <= b
    PROVE  Older(q + 1) \in 0..b /\ Quiet(SubSeq(log, 1, b), q, Older(q + 1))
<1>. DEFINE n == Len(log)
            p == Older(q + 1)
            first == SubSeq(log, 1, b)
<1>1. /\ InTime(log) /\ n \in Nat /\ DOMAIN log = 1..n
      /\ \A i \in 1..n : log[i].at \in Nat /\ log[i].sensor \in Sensors /\ log[i].on \in BOOLEAN
  BY LogIsInTime, InTimeIs
<1>2. p \in 0..n /\ \A i \in 1..n : i <= p <=> log[i].at <= q
  <2>1. q + 1 \in Int
    OBVIOUS
  <2>2. p \in 0..n /\ \A i \in 1..n : i <= p <=> log[i].at < q + 1
    BY <2>1, OlderIs
  <2>. HIDE DEF p, n
  <2>. QED
    BY <1>1, <2>2
<1>3. Len(first) = b /\ \A k \in 1..b : first[k] = log[k]
  BY <1>1, FirstPart
<1>. HIDE DEF p, first
<1>4. p \in 0..b /\ b \in 0..n /\ p \in Nat /\ b \in Nat
  BY <1>1, <1>2 DEF p
<1>. HIDE DEF n
<1>5. \A i \in 1..p : i \in 1..b /\ i \in 1..n /\ i <= p
  BY <1>1, <1>4
<1>6. \A i \in 1..p : first[i].at <= q
  BY <1>2, <1>3, <1>5
<1>7. ASSUME NEW i \in 1..p, first[i].on
      PROVE  \E j \in (i + 1)..p : first[j].sensor = first[i].sensor
  <2>. DEFINE s == log[i].sensor
              mine == {j \in DOMAIN log : log[j].sensor = s /\ log[j].at <= q}
              m == Max(mine)
  <2>1. i \in 1..n /\ i \in mine /\ log[i].on /\ s \in Sensors
    BY <1>1, <1>2, <1>3, <1>5, <1>7
  <2>2. mine \in SUBSET Nat /\ IsFiniteSet(mine)
    <3>1. mine \in SUBSET (1..n) /\ IsFiniteSet(1..n)
      BY <1>1, FS_Interval
    <3>2. IsFiniteSet(mine)
      BY <3>1, FS_Subset
    <3>. HIDE DEF mine
    <3>. QED
      BY <3>1, <3>2
  <2>3. m \in mine /\ \A j \in mine : m >= j
    <3>. HIDE DEF mine
    <3>. QED
      BY <2>1, <2>2, LatestIsOne
  <2>4. ~ log[m].on
    <3>1. ~ IsOn(s, q) /\ mine # {}
      BY <2>1
    <3>. QED
      BY <3>1 DEF IsOn
  <2>. HIDE DEF m
  <2>5. m \in 1..n /\ log[m].sensor = s /\ m <= p
    BY <1>1, <1>2, <2>3
  <2>6. m >= i /\ m # i
    BY <2>1, <2>3, <2>4
  <2>7. m \in (i + 1)..p
    BY <1>4, <2>1, <2>5, <2>6
  <2>8. first[m] = log[m] /\ first[i] = log[i]
    BY <1>1, <1>3, <1>4, <1>5, <2>5
  <2>. QED
    BY <2>5, <2>7, <2>8
<1>8. ASSUME NEW i \in (p + 1)..Len(first)
      PROVE  first[i].at > q /\ (first[i].on => first[i].at > q + MergeWindow)
  <2>1. i \in 1..b /\ i \in 1..n /\ ~ (i <= p) /\ first[i] = log[i]
    BY <1>1, <1>3, <1>4
  <2>2. log[i].at \in Nat /\ ~ (log[i].at <= q)
    BY <1>1, <1>2, <2>1
  <2>3. log[i].on => log[i].at > q + MergeWindow
    BY <1>1, <2>1, <2>2
  <2>. QED
    BY <2>1, <2>2, <2>3
<1>9. Quiet(first, q, p)
  BY <1>6, <1>7, <1>8 DEF Quiet, AllOff
<1>. QED
  BY <1>4, <1>9 DEF p, first

\* A window is the same from the lead-in as from the beginning.
LEMMA LeadInIsLongEnough ==
    ASSUME LogFits, NEW since \in Nat, NEW until \in Nat, since <= until, Settled(since)
    PROVE  LET first == SubSeq(log, 1, Older(until))
               told == Read(since, until)
           IN /\ InTime(first) /\ InTime(told)
              /\ Mirrored(first, told, since, until) /\ Mirrored(told, first, since, until)
<1>. DEFINE n == Len(log)
            a == Older(since - LeadIn)
            b == Older(until)
            first == SubSeq(log, 1, b)
            told == Read(since, until)
<1>1. InTime(log) /\ n \in Nat /\ \A i \in 1..n : log[i].at \in Nat
  BY LogIsInTime, InTimeIs
<1>2. LeadIn \in Nat /\ LastLag \in Nat /\ MergeWindow \in Nat
  <2>1. Len(LagEdges) \in 1..Len(LagEdges) /\ LagEdges \in Seq(Nat)
    BY EventsAssumption
  <2>. QED
    BY <2>1, EventsAssumption, RatesAssumption DEF LastLag
<1>3. since - LeadIn \in Int /\ until \in Int
  BY <1>2
<1>4. /\ a \in 0..n /\ \A i \in 1..n : i <= a <=> log[i].at < since - LeadIn
      /\ b \in 0..n /\ \A i \in 1..n : i <= b <=> log[i].at < until
  BY <1>3, OlderIs
<1>5. told = SubSeq(log, a + 1, b) /\ InTime(first) /\ Len(first) = b
      /\ \A k \in 1..b : first[k] = log[k]
  BY <1>1, <1>4, FirstPart DEF Read
<1>6. CASE since <= LeadIn
  <2>. HIDE DEF a, b, n
  <2>1. a = 0
    <3>1. CASE a # 0
      <4>1. a \in 1..n /\ a <= a /\ ~ (log[a].at < since - LeadIn)
        BY <1>1, <1>2, <1>4, <1>6, <3>1
      <4>. QED
        BY <1>4, <4>1
    <3>. QED
      BY <3>1
  <2>2. told = first
    BY <1>5, <2>1
  <2>3. Mirrored(first, first, since, until)
    BY DEF Mirrored
  <2>. HIDE DEF told, first
  <2>4. /\ InTime(first) /\ InTime(told)
        /\ Mirrored(first, told, since, until) /\ Mirrored(told, first, since, until)
    BY <1>5, <2>2, <2>3
  <2>. QED
    BY <2>4 DEF told, first, b
<1>7. CASE ~ (since <= LeadIn)
  <2>1. PICK q \in (since - LeadIn)..(since - LastLag - 1) :
             /\ \A s \in Sensors : ~ IsOn(s, q)
             /\ \A i \in DOMAIN log : log[i].on => log[i].at <= q \/ log[i].at > q + MergeWindow
    BY <1>7 DEF Settled
  <2>2. q \in Nat /\ since - q > LastLag /\ since - LeadIn <= q /\ q + 1 <= until /\ q + 1 \in Int
    BY <1>2, <1>7
  <2>. DEFINE p == Older(q + 1)
  <2>3. p \in 0..n /\ \A i \in 1..n : i <= p <=> log[i].at < q + 1
    BY <2>2, OlderIs
  <2>. HIDE DEF a, b, n, p
  <2>4. a <= p
    <3>1. CASE a # 0
      <4>1. a \in 1..n /\ a <= a
        BY <1>1, <1>4, <3>1
      <4>2. log[a].at < since - LeadIn /\ log[a].at \in Nat
        BY <1>1, <1>4, <4>1
      <4>3. log[a].at < q + 1
        BY <1>3, <2>2, <4>2
      <4>. QED
        BY <2>3, <4>1, <4>3
    <3>. QED
      BY <1>1, <2>3, <3>1
  <2>5. p <= b
    <3>1. CASE p # 0
      <4>1. p \in 1..n /\ p <= p
        BY <1>1, <2>3, <3>1
      <4>2. log[p].at < q + 1 /\ log[p].at \in Nat
        BY <1>1, <2>3, <4>1
      <4>3. log[p].at < until
        BY <2>2, <4>2
      <4>. QED
        BY <1>4, <4>1, <4>3
    <3>. QED
      BY <1>1, <1>4, <3>1
  <2>6. Quiet(first, q, p)
    <3>1. b \in 0..Len(log) /\ Older(q + 1) <= b
      BY <1>4, <2>5 DEF n, p
    <3>. QED
      BY <2>1, <2>2, <3>1, SettledIsQuiet DEF p
  <2>. DEFINE part == SubSeq(first, a + 1, Len(first))
  <2>7. a \in 0..Len(first) /\ p \in a..Len(first)
    BY <1>1, <1>4, <1>5, <2>3, <2>4, <2>5
  <2>. HIDE DEF first
  <2>8. /\ InTime(part) /\ OverBy(q, EventsOf(first)) /\ OverBy(q, EventsOf(part))
        /\ {e \in EventsOf(first) : e.from > q} = {e \in EventsOf(part) : e.from > q}
    BY <1>5, <2>2, <2>6, <2>7, EventsAgree
  <2>9. part = told
    <3>1. log \in Seq(RowType) /\ first \in Seq(RowType)
      BY <1>1, <1>5 DEF InTime
    <3>2. SubSeq(first, a + 1, b) = SubSeq(log, a + 1, b)
      <4>1. b \in 0..Len(log) /\ a \in 0..b
        BY <1>1, <1>4, <2>3, <2>4, <2>5 DEF n
      <4>. QED
        BY <3>1, <4>1, PartOfPart DEF first
    <3>. QED
      BY <1>5, <3>2
  <2>. HIDE DEF part, told
  <2>10. InTime(told) /\ Mirrored(first, told, since, until) /\ Mirrored(told, first, since, until)
    <3>1. /\ InTime(told) /\ OverBy(q, EventsOf(first)) /\ OverBy(q, EventsOf(told))
          /\ {e \in EventsOf(first) : e.from > q} = {e \in EventsOf(told) : e.from > q}
      BY <2>8, <2>9
    <3>. QED
      BY <1>2, <1>5, <2>2, <3>1, WindowsMirror
  <2>. QED
    BY <1>5, <2>10 DEF first, told, b
<1>. QED
  BY <1>6, <1>7
-----------------------------------------------------------------------------
(* What a window shows.                                                      *)

OverAt(e, until) ==
    /\ e.until # Open /\ e.until + MergeWindow < until
    /\ \E i \in DOMAIN log :
          /\ CameraOf[log[i].sensor] = e.camera /\ KindOf[log[i].sensor] = e.kind
          /\ e.until <= log[i].at /\ log[i].at < until

\* An event that was over as a window ended is the same with and without a later row.
LEMMA OverWithout ==
    ASSUME LogFits, NEW until \in Nat, NEW e, OverAt(e, until), NEW k \in 1..Len(log),
           ~ (k <= Older(until))
    PROVE  e \in EventsOf(SubSeq(log, 1, k - 1)) <=> e \in EventsOf(SubSeq(log, 1, k))
<1>. DEFINE told == SubSeq(log, 1, k)
            first == SubSeq(log, 1, k - 1)
<1>1. /\ InTime(log) /\ Len(log) \in Nat /\ DOMAIN log = 1..Len(log)
      /\ \A i \in 1..Len(log) : log[i].at \in Nat
      /\ log \in Seq(RowType)
  BY LogIsInTime, InTimeIs DEF LogFits
<1>2. k - 1 \in 0..Len(log) /\ k \in 0..Len(log) /\ k - 1 \in 0..k /\ k \in Nat /\ k # 0
  BY <1>1
<1>3. InTime(told) /\ Len(told) = k /\ \A i \in 1..k : told[i] = log[i]
  BY <1>1, <1>2, FirstPart
<1>4. InTime(first)
  BY <1>1, <1>2, FirstPart
<1>5. SubSeq(told, 1, k - 1) = first
  <2>1. told \in Seq(RowType) /\ first \in Seq(RowType) /\ Len(first) = k - 1
        /\ \A i \in 1..(k - 1) : first[i] = log[i]
    BY <1>1, <1>2
  <2>. DEFINE y == SubSeq(told, 1, k - 1)
  <2>2. y \in Seq(RowType) /\ Len(y) = k - 1 /\ \A i \in 1..(k - 1) : y[i] = told[i]
    <3>. HIDE DEF told
    <3>. QED
      BY <1>2, <1>3, <2>1
  <2>3. \A i \in 1..(k - 1) : i \in 1..k
    BY <1>2
  <2>. HIDE DEF told, first, y
  <2>4. \A i \in 1..(k - 1) : y[i] = first[i]
    BY <1>3, <2>1, <2>2, <2>3
  <2>5. y = first
    BY <1>2, <2>1, <2>2, <2>4
  <2>. QED
    BY <2>5 DEF y
<1>6. until <= log[k].at
  <2>1. log[k].at \in Nat /\ ~ (log[k].at < until)
    <3>1. until \in Int
      OBVIOUS
    <3>. QED
      BY <1>1, <3>1, OlderIs
  <2>. QED
    BY <2>1
<1>7. PICK i \in 1..Len(log) :
            /\ CameraOf[log[i].sensor] = e.camera /\ KindOf[log[i].sensor] = e.kind
            /\ e.until <= log[i].at /\ log[i].at < until
  BY <1>1 DEF OverAt
<1>8. i \in 1..(k - 1)
  <2>1. until \in Int
    OBVIOUS
  <2>2. i <= Older(until) /\ Older(until) \in 0..Len(log)
    BY <1>7, <2>1, OlderIs
  <2>. QED
    BY <1>1, <1>2, <2>2
<1>9. e.until # Open /\ e.until + MergeWindow < until
  BY DEF OverAt
<1>. HIDE DEF told, first
<1>10. ASSUME NEW g \in Groups, NEW r \in Yields,
              e = [camera |-> g[1], kind |-> g[2], from |-> r.from, until |-> r.until]
       PROVE  r \in ToSet(Runs(g, first)) <=> r \in ToSet(Runs(g, told))
  <2>1. e.until = r.until /\ r.until \in Nat
    <3>1. e.until = r.until /\ r.until \in Nat \cup {Open}
      BY <1>10 DEF Yields, Moments
    <3>. QED
      BY <1>9, <3>1
  <2>2. r.until + MergeWindow < told[k].at
    <3>1. MergeWindow \in Nat
      BY EventsAssumption
    <3>2. log[k].at \in Nat /\ told[k] = log[k]
      BY <1>1, <1>2, <1>3
    <3>3. r.until + MergeWindow < until
      BY <1>9, <2>1
    <3>4. r.until + MergeWindow < log[k].at
      <4>1. r.until \in Nat /\ until \in Nat /\ log[k].at \in Nat
        BY <2>1, <3>2
      <4>2. r.until + MergeWindow \in Nat
        BY <3>1, <4>1
      <4>. QED
        BY <1>6, <3>3, <4>1, <4>2
    <3>. QED
      BY <3>2, <3>4
  <2>3. Mine(g, told[i]) /\ r.until <= told[i].at
    <3>1. told[i] = log[i]
      BY <1>2, <1>3, <1>8
    <3>2. g[1] = e.camera /\ g[2] = e.kind
      BY <1>10
    <3>3. g = <<g[1], g[2]>>
      BY DEF Groups
    <3>. QED
      BY <1>7, <2>1, <3>1, <3>2, <3>3 DEF Mine
  <2>. QED
    BY <1>2, <1>3, <1>5, <1>8, <2>1, <2>2, <2>3, OneRowLater
<1>11. ASSUME NEW x, NEW y, InTime(x), InTime(y), e \in EventsOf(x),
              \A g \in Groups : \A r \in Yields :
                   e = [camera |-> g[1], kind |-> g[2], from |-> r.from, until |-> r.until]
                       /\ r \in ToSet(Runs(g, x)) => r \in ToSet(Runs(g, y))
       PROVE  e \in EventsOf(y)
  <2>1. PICK g \in Groups, r \in Yields :
          /\ r \in ToSet(Runs(g, x))
          /\ e = [camera |-> g[1], kind |-> g[2], from |-> r.from, until |-> r.until]
    BY <1>11, EventIsRun
  <2>2. r \in ToSet(Runs(g, y))
    BY <1>11, <2>1
  <2>. QED
    BY <1>11, <2>1, <2>2, EventIsRun
<1>12. e \in EventsOf(first) => e \in EventsOf(told)
  BY <1>3, <1>4, <1>10, <1>11
<1>13. e \in EventsOf(told) => e \in EventsOf(first)
  BY <1>3, <1>4, <1>10, <1>11
<1>. QED
  BY <1>12, <1>13 DEF told, first

\* A journal up to its last row is the journal.
LEMMA WholeOfIt == LogFits => SubSeq(log, 1, Len(log)) = log
<1>. SUFFICES ASSUME LogFits PROVE SubSeq(log, 1, Len(log)) = log
  OBVIOUS
<1>. DEFINE first == SubSeq(log, 1, Len(log))
<1>1. log \in Seq(RowType) /\ Len(log) \in Nat
  BY DEF LogFits
<1>2. first \in Seq(RowType) /\ Len(first) = Len(log) /\ \A k \in 1..Len(log) : first[k] = log[k]
  BY <1>1
<1>. HIDE DEF first
<1>3. first = log
  BY <1>1, <1>2
<1>. QED
  BY <1>3 DEF first

\* An event that was over is the same of all of the journal and of what came before.
LEMMA OverIsOver ==
    ASSUME LogFits, NEW until \in Nat, NEW e, OverAt(e, until)
    PROVE  e \in EventsOf(SubSeq(log, 1, Older(until))) <=> e \in EventsOf(log)
<1>. DEFINE n == Len(log)
            b == Older(until)
            Good == {k \in b..n :
                        e \in EventsOf(SubSeq(log, 1, b)) <=> e \in EventsOf(SubSeq(log, 1, k))}
<1>1. n \in Nat /\ b \in 0..n
  <2>1. until \in Int
    OBVIOUS
  <2>. QED
    BY <2>1, LogIsInTime, OlderIs
<1>2. b \in Good
  BY <1>1
<1>3. ASSUME NEW k \in b..(n - 1), k \in Good PROVE k + 1 \in Good
  <2>1. k + 1 \in 1..Len(log) /\ ~ (k + 1 <= Older(until)) /\ (k + 1) - 1 = k /\ k + 1 \in b..n
    BY <1>1
  <2>2. e \in EventsOf(SubSeq(log, 1, k)) <=> e \in EventsOf(SubSeq(log, 1, k + 1))
    BY <2>1, OverWithout
  <2>. QED
    BY <1>3, <2>1, <2>2
<1>4. n \in Good
  <2>. HIDE DEF Good
  <2>1. Good \in SUBSET Nat /\ n \in b..n
    BY <1>1 DEF Good
  <2>. HIDE DEF n, b
  <2>2. \A k \in b..n : k \in Good
    BY <1>1, <1>2, <1>3, <2>1, StepByStep
  <2>. QED
    BY <2>1, <2>2
<1>. QED
  BY <1>4, WholeOfIt

\* The events of a window are those that began in it.
LEMMA InsideIs ==
    ASSUME NEW told, InTime(told), NEW since, NEW until, NEW e
    PROVE  e \in {Derive(told)[i] : i \in Inside(told, since, until)}
             <=> e \in EventsOf(told) /\ since <= e.from /\ e.from < until
<1>1. ASSUME NEW i \in Inside(told, since, until)
      PROVE  /\ Derive(told)[i] \in EventsOf(told)
             /\ since <= Derive(told)[i].from /\ Derive(told)[i].from < until
  BY EventsInOrder DEF Inside
<1>2. ASSUME e \in EventsOf(told), since <= e.from, e.from < until
      PROVE  \E i \in Inside(told, since, until) : Derive(told)[i] = e
  <2>1. PICK i \in DOMAIN Derive(told) : Derive(told)[i] = e
    BY <1>2, EventsInOrder
  <2>2. i \in Inside(told, since, until)
    BY <1>2, <2>1 DEF Inside
  <2>. QED
    BY <2>1, <2>2
<1>. QED
  BY <1>1, <1>2

\* A window that was just asked for.
ShownFits ==
    shown # Open =>
        /\ shown.rows = Window(shown.since, shown.until)
        /\ shown.since \in Nat /\ shown.until \in Nat /\ shown.since <= shown.until

LEMMA ShownFitsAtFirst == AnalysisInit => ShownFits
BY DEF AnalysisInit, ShownFits

LEMMA ShownFitsAfter == LogFits /\ ShownFits /\ [AnalysisNext]_analysisVars => ShownFits'
<1>. SUFFICES ASSUME LogFits, ShownFits, [AnalysisNext]_analysisVars PROVE ShownFits'
  OBVIOUS
<1>1. ASSUME NEW s \in Sensors, NEW on \in BOOLEAN, NEW after \in 1..(MergeWindow + 1),
             Change(s, on, after)
      PROVE  ShownFits'
  BY <1>1 DEF Change, ShownFits
<1>2. CASE Rebuild
  BY <1>2 DEF Rebuild, ShownFits
<1>3. ASSUME NEW since \in {0} \cup (LeadIn + 1)..time, NEW until \in since..(time + 1),
             Ask(since, until)
      PROVE  ShownFits'
  <2>1. since \in Nat /\ until \in Nat /\ since <= until
    BY RatesAssumption DEF LogFits
  <2>2. /\ shown' = [since |-> since, until |-> until, rows |-> Window(since, until)]
        /\ time' = time /\ log' = log /\ built' = built /\ builtAt' = builtAt
    BY <1>3 DEF Ask
  <2>3. Window(since, until)' = Window(since, until)
    BY <2>2 DEF Window, Read, Older, ModelNow
  <2>4. /\ shown'.since = since /\ shown'.until = until /\ shown'.rows = Window(since, until)
    BY <2>2
  <2>. QED
    BY <2>1, <2>2, <2>3, <2>4 DEF ShownFits
<1>4. CASE UNCHANGED analysisVars
  <2>1. /\ shown' = shown /\ time' = time /\ log' = log /\ built' = built
        /\ builtAt' = builtAt
    BY <1>4 DEF analysisVars
  <2>2. \A since, until : Window(since, until)' = Window(since, until)
    BY <2>1 DEF Window, Read, Older, ModelNow
  <2>. QED
    BY <2>1, <2>2 DEF ShownFits
<1>. QED
  BY <1>1, <1>2, <1>3, <1>4 DEF AnalysisNext

LEMMA ReadToNow ==
    ASSUME LogFits, NEW until \in Nat, until > time
    PROVE  SubSeq(log, 1, Older(until)) = log
<1>1. /\ Len(log) \in Nat /\ time \in Nat
      /\ \A i \in 1..Len(log) : log[i].at \in Nat /\ log[i].at <= time
  BY LogIsInTime, InTimeIs, RatesAssumption DEF LogFits
<1>2. /\ Older(until) \in 0..Len(log)
      /\ \A i \in 1..Len(log) : i <= Older(until) <=> log[i].at < until
  <2>1. until \in Int
    OBVIOUS
  <2>. QED
    BY <2>1, OlderIs
<1>3. Older(until) = Len(log)
  <2>. DEFINE n == Len(log)
  <2>1. CASE n = 0
    BY <1>2, <2>1
  <2>2. CASE n # 0
    <3>1. n \in 1..Len(log)
      BY <1>1, <2>2
    <3>2. log[n].at < until
      BY <1>1, <3>1
    <3>3. n <= Older(until)
      BY <1>2, <3>1, <3>2
    <3>. QED
      BY <1>1, <1>2, <3>3
  <2>. QED
    BY <2>1, <2>2
<1>. QED
  BY <1>3, WholeOfIt

LEMMA ShownAgrees == LogFits /\ ShownFits => WindowAgreesWithHistory
<1>. SUFFICES ASSUME LogFits, ShownFits, shown # Open, Settled(shown.since)
              PROVE  WindowAgreesWithHistory
  BY DEF WindowAgreesWithHistory
<1>. DEFINE since == shown.since
            until == shown.until
            first == SubSeq(log, 1, Older(until))
            told == Read(since, until)
            began == {j \in DOMAIN History : since <= History[j].from /\ History[j].from < until}
            Both(x) == {[event |-> Derive(x)[i], label |-> LabelAt(x, i)] :
                            i \in Inside(x, since, until)}
            Only(x) == {Derive(x)[i] : i \in Inside(x, since, until)}
<1>1. /\ shown.rows = Window(since, until)
      /\ since \in Nat /\ since <= until /\ until \in Nat
  BY DEF ShownFits
<1>2. /\ InTime(first) /\ InTime(told) /\ InTime(log)
      /\ Mirrored(first, told, since, until) /\ Mirrored(told, first, since, until)
  BY <1>1, LeadInIsLongEnough, LogIsInTime
<1>. HIDE DEF since, until
<1>3. /\ {r.event : r \in shown.rows} = Only(told)
      /\ {[event |-> r.event, label |-> r.label] : r \in shown.rows} = Both(told)
  <2>. DEFINE events == Derive(told)
              total(i) == Total(events[i], Previous(events, i), ModelNow)
              row(i) == [event |-> events[i],
                         label |-> PredecessorLabel(events[i], Previous(events, i)),
                         total |-> total(i),
                         unusual |-> Unusual(total(i), events[i].camera, Thresholds(ModelNow))]
  <2>1. shown.rows = {row(i) : i \in Inside(told, since, until)}
    BY <1>1 DEF Window, Inside
  <2>2. \A i : row(i).event = Derive(told)[i] /\ row(i).label = LabelAt(told, i)
    BY DEF LabelAt
  <2>. HIDE DEF row, events, told
  <2>. QED
    BY <2>1, <2>2
<1>4. Only(told) = Only(first) /\ Both(told) = Both(first)
  <2>. HIDE DEF told, first
  <2>. QED
    BY <1>2 DEF Mirrored
<1>5. /\ {History[j] : j \in began} = Only(log)
      /\ {[event |-> History[j], label |-> PredecessorLabel(History[j], Previous(History, j))] :
                j \in began} = Both(log)
  BY DEF History, Inside, LabelAt
<1>. HIDE DEF told, began, Both
<1>6. {e \in Only(first) : OverAt(e, until)} = {e \in Only(log) : OverAt(e, until)}
  <2>1. ASSUME NEW e, OverAt(e, until) PROVE e \in Only(first) <=> e \in Only(log)
    <3>1. e \in EventsOf(first) <=> e \in EventsOf(log)
      BY <1>1, <2>1, OverIsOver
    <3>. HIDE DEF first
    <3>2. /\ e \in Only(first) <=> e \in EventsOf(first) /\ since <= e.from /\ e.from < until
          /\ e \in Only(log) <=> e \in EventsOf(log) /\ since <= e.from /\ e.from < until
      BY <1>2, InsideIs
    <3>. QED
      BY <3>1, <3>2
  <2>. HIDE DEF Only
  <2>. QED
    BY <2>1
<1>7. until > time => first = log
  BY <1>1, ReadToNow
<1>. HIDE DEF first, Only
<1>8. {e \in {r.event : r \in shown.rows} : OverAt(e, until)}
        = {e \in {History[j] : j \in began} : OverAt(e, until)}
  BY <1>3, <1>4, <1>5, <1>6
<1>9. until > time =>
        {[event |-> r.event, label |-> r.label] : r \in shown.rows}
          = {[event |-> History[j],
              label |-> PredecessorLabel(History[j], Previous(History, j))] : j \in began}
  BY <1>3, <1>4, <1>5, <1>7
<1>. QED
  BY <1>8, <1>9 DEF WindowAgreesWithHistory, OverAt, since, until, began

\* Wherever a window begins after a time of quiet, it shows the events of the whole journal
\* and what preceded them; if it ended earlier, those that were over by then
\* (`async_window`).
THEOREM WindowsAlwaysAgree == AnalysisSpec => []WindowAgreesWithHistory
<1>1. AnalysisInit => LogFits /\ ShownFits
  BY LogFitsAtFirst, ShownFitsAtFirst
<1>2. LogFits /\ ShownFits /\ [AnalysisNext]_analysisVars => LogFits' /\ ShownFits'
  BY LogFitsAfter, ShownFitsAfter
<1>. QED
  BY <1>1, <1>2, ShownAgrees, PTL DEF AnalysisSpec
-----------------------------------------------------------------------------
(* What a quantile leaves above it.                                          *)

LEMMA ImageIs ==
    ASSUME NEW S, IsFiniteSet(S), NEW T, NEW f \in [S -> T], \A t \in T : \E x \in S : f[x] = t
    PROVE  IsFiniteSet(T) /\ Cardinality(T) \in Nat /\ Cardinality(T) <= Cardinality(S)
<1>1. f \in Surjection(S, T)
  BY DEF Surjection
<1>. QED
  BY <1>1, FS_Surjection, FS_CardinalityType

\* Finitely many integers have a least and a greatest.
LEMMA EndsAre ==
    \A S \in SUBSET Int : IsFiniteSet(S) /\ S # {} =>
        /\ Min(S) \in S /\ \A y \in S : Min(S) <= y
        /\ \E x \in S : \A y \in S : y <= x
<1>0. SUFFICES ASSUME NEW S, S \in SUBSET Int, IsFiniteSet(S), S # {}
               PROVE  /\ \E x \in S : \A y \in S : x <= y
                      /\ \E x \in S : \A y \in S : y <= x
  BY DEF Min
<1>. DEFINE Good == {T \in SUBSET S : T # {} => /\ \E x \in T : \A y \in T : x <= y
                                                /\ \E x \in T : \A y \in T : y <= x}
<1>1. ASSUME NEW T \in SUBSET S, \A U \in SUBSET T : U # T => U \in Good
      PROVE  T \in Good
  <2>1. SUFFICES ASSUME T # {} PROVE /\ \E x \in T : \A y \in T : x <= y
                                     /\ \E x \in T : \A y \in T : y <= x
    OBVIOUS
  <2>2. PICK z \in T : TRUE
    BY <2>1
  <2>3. T \ {z} \in Good
    <3>1. T \ {z} \in SUBSET T /\ T \ {z} # T
      BY <2>2
    <3>. HIDE DEF Good
    <3>. QED
      BY <1>1, <3>1
  <2>4. CASE T \ {z} = {}
    <3>1. \A y \in T : y = z
      BY <2>4
    <3>2. z \in Int /\ z \in T
      BY <1>0, <2>2
    <3>. QED
      BY <3>1, <3>2
  <2>5. CASE T \ {z} # {}
    <3>1. PICK x \in T \ {z} : \A y \in T \ {z} : x <= y
      BY <2>3, <2>5
    <3>2. PICK w \in T \ {z} : \A y \in T \ {z} : y <= w
      BY <2>3, <2>5
    <3>3. \A y \in T : y \in Int /\ (y = z \/ (x <= y /\ y <= w))
      BY <1>0, <3>1, <3>2
    <3>4. x \in Int /\ w \in Int /\ z \in Int /\ x \in T /\ w \in T /\ z \in T
      BY <1>0, <2>2
    <3>5. \E d \in T : \A y \in T : d <= y
      <4>1. CASE x <= z
        BY <3>3, <3>4, <4>1
      <4>2. CASE z <= x
        BY <3>3, <3>4, <4>2
      <4>. QED
        BY <3>4, <4>1, <4>2
    <3>6. \E d \in T : \A y \in T : y <= d
      <4>1. CASE w <= z
        BY <3>3, <3>4, <4>1
      <4>2. CASE z <= w
        BY <3>3, <3>4, <4>2
      <4>. QED
        BY <3>4, <4>1, <4>2
    <3>. QED
      BY <3>5, <3>6
  <2>. QED
    BY <2>4, <2>5
<1>2. \A T \in SUBSET S : T \in Good
  <2>1. Good \in SUBSET (SUBSET S) /\ IsFiniteSet(S)
    BY <1>0
  <2>. HIDE DEF Good
  <2>. QED
    BY <1>1, <2>1, SubsetInduction, ZenonT(30)
<1>. QED
  BY <1>0, <1>2

LEMMA Products ==
    /\ \A a, b \in Nat : a * b \in Nat
    /\ \A a, b \in Nat \ {0} : a * b \in Nat \ {0}
    /\ \A a, b \in Int : a * b \in Int
    /\ \A a, b \in Int, n \in Nat : a <= b => a * n <= b * n
    /\ \A a, b \in Int, n \in Int : (a - b) * n = a * n - b * n /\ n * (a - b) = n * a - n * b
<1>1. \A a, b \in Nat : a * b \in Nat
  OBVIOUS
<1>2. \A a, b \in Nat \ {0} : a * b \in Nat \ {0}
  OBVIOUS
<1>3. \A a, b \in Int : a * b \in Int
  OBVIOUS
<1>4. \A a, b \in Int, n \in Nat : a <= b => a * n <= b * n
  OBVIOUS
<1>5. \A a, b \in Int, n \in Int : (a - b) * n = a * n - b * n /\ n * (a - b) = n * a - n * b
  OBVIOUS
<1>. QED
  BY <1>1, <1>2, <1>3, <1>4, <1>5

\* The nearest rank is a share of the sample, or all of it.
LEMMA RankIs ==
    ASSUME NEW n \in Nat \ {0}, NEW p \in Nat, NEW q \in Nat \ {0}, p <= q
    PROVE  LET rank == (p * n + q - 1) \div q
               index == IF rank < 1 THEN 1 ELSE IF rank > n THEN n ELSE rank
           IN index \in 1..n /\ p * n <= index * q
<1>. DEFINE x == p * n
            rank == (x + q - 1) \div q
            index == IF rank < 1 THEN 1 ELSE IF rank > n THEN n ELSE rank
            y == rank * q
<1>1. x \in Nat /\ x + q - 1 \in Int
  BY Products
<1>. HIDE DEF x
<1>2. rank \in Int /\ (x + q - 1) % q \in 0..(q - 1) /\ (x + q - 1) % q = (x + q - 1) - y
  BY <1>1, Divided
<1>3. y \in Int
  BY <1>2, Products
<1>. HIDE DEF rank, y
<1>4. x <= y
  BY <1>1, <1>2, <1>3
<1>5. index \in 1..n /\ (rank <= index \/ index = n)
  BY <1>2
<1>6. x <= n * q
  <2>1. p * n <= q * n /\ q * n = n * q
    BY Products
  <2>. QED
    BY <2>1 DEF x
<1>7. CASE rank <= index
  <2>1. index \in Int /\ index * q \in Int
    BY <1>5, Products
  <2>. HIDE DEF index
  <2>2. rank * q <= index * q
    BY <1>2, <1>7, <2>1, Products
  <2>3. x <= index * q
    BY <1>1, <1>3, <1>4, <2>1, <2>2 DEF y
  <2>. QED
    BY <1>5, <2>3 DEF x, index, rank
<1>8. CASE index = n
  BY <1>5, <1>6, <1>8 DEF x, rank
<1>. QED
  BY <1>5, <1>7, <1>8

\* Of a sample, no more than the tail is above the quantile.
LEMMA TailIs ==
    ASSUME NEW D, IsFiniteSet(D), D # {}, NEW values \in [D -> Int]
    PROVE  LET above == {i \in D : values[i] > QuantileOf(values, Quantile)}
           IN Cardinality(above) * Quantile[2] <= Cardinality(D) * (Quantile[2] - Quantile[1])
              /\ QuantileOf(values, Quantile) \in Int
<1>. DEFINE n == Cardinality(D)
            p == Quantile[1]
            q == Quantile[2]
            rank == (p * n + q - 1) \div q
            index == IF rank < 1 THEN 1 ELSE IF rank > n THEN n ELSE rank
            Below(v) == {i \in D : values[i] <= v}
            S == {v \in ToSet(values) : Cardinality(Below(v)) >= index}
            t == Min(S)
            above == {i \in D : values[i] > t}
<1>1. p \in Nat /\ q \in Nat \ {0} /\ p <= q
  BY RatesAssumption
<1>2. n \in Nat \ {0}
  BY FS_CardinalityType, FS_EmptySet
<1>3. DOMAIN values = D
  OBVIOUS
<1>4. t = QuantileOf(values, Quantile)
  BY <1>3 DEF QuantileOf
<1>. HIDE DEF p, q, n
<1>5. index \in 1..n /\ p * n <= index * q
  BY <1>1, <1>2, RankIs
<1>. HIDE DEF index, rank
<1>6. ToSet(values) \in SUBSET Int /\ IsFiniteSet(ToSet(values)) /\ ToSet(values) # {}
      /\ \A i \in D : values[i] \in ToSet(values)
  <2>1. values \in [D -> ToSet(values)] /\ \A v \in ToSet(values) : \E i \in D : values[i] = v
    BY DEF ToSet
  <2>2. IsFiniteSet(ToSet(values))
    BY <2>1, ImageIs
  <2>3. \A v \in ToSet(values) : v \in Int
    BY <2>1
  <2>. QED
    BY <2>1, <2>2, <2>3
<1>7. PICK m \in ToSet(values) : \A v \in ToSet(values) : v <= m
  BY <1>6, EndsAre
<1>8. m \in S
  <2>1. Below(m) = D
    BY <1>6, <1>7
  <2>2. n >= index
    BY <1>2, <1>5
  <2>. QED
    BY <2>1, <2>2 DEF n
<1>9. S \in SUBSET Int /\ IsFiniteSet(S)
  <2>1. S \in SUBSET ToSet(values)
    OBVIOUS
  <2>. HIDE DEF S
  <2>. QED
    BY <1>6, <2>1, FS_Subset
<1>10. t \in S
  <2>. HIDE DEF S
  <2>. QED
    BY <1>8, <1>9, EndsAre
<1>. HIDE DEF t
<1>11. t \in Int /\ Cardinality(Below(t)) >= index
  BY <1>9, <1>10
<1>. HIDE DEF S
<1>12. n = Cardinality(Below(t)) + Cardinality(above)
       /\ Cardinality(Below(t)) \in Nat /\ Cardinality(above) \in Nat
  <2>1. \A i \in D : values[i] \in Int
    OBVIOUS
  <2>2. Below(t) \cup above = D /\ Below(t) \cap above = {}
    BY <1>11, <2>1
  <2>3. Below(t) \in SUBSET D /\ above \in SUBSET D
    OBVIOUS
  <2>. HIDE DEF Below, above
  <2>4. IsFiniteSet(Below(t)) /\ IsFiniteSet(above)
    BY <2>3, FS_Subset
  <2>5. Cardinality(Below(t)) \in Nat /\ Cardinality(above) \in Nat
    BY <2>4, FS_CardinalityType
  <2>6. Cardinality(D) = Cardinality(Below(t)) + Cardinality(above) - Cardinality({})
    BY <2>2, <2>4, FS_Union
  <2>. QED
    BY <2>5, <2>6, FS_EmptySet DEF n
<1>. DEFINE a == Cardinality(above)
            b == Cardinality(Below(t))
<1>. HIDE DEF a, b
<1>13. n = b + a /\ a \in Nat /\ b \in Nat /\ index \in Nat /\ index <= b
  BY <1>2, <1>5, <1>11, <1>12 DEF a, b
<1>14. a * q <= n * (q - p)
  <2>1. a * q = (n - b) * q /\ (n - b) * q = n * q - b * q
    <3>1. a = n - b /\ n \in Int /\ b \in Int /\ q \in Int
      BY <1>1, <1>2, <1>13
    <3>. QED
      BY <3>1, Products
  <2>2. n * (q - p) = n * q - n * p /\ n * p = p * n
    BY <1>1, <1>2, Products
  <2>3. index * q <= b * q
    BY <1>1, <1>13, Products
  <2>4. n * q \in Int /\ b * q \in Int /\ index * q \in Int /\ p * n \in Int
    BY <1>1, <1>2, <1>13, Products
  <2>. QED
    BY <1>5, <2>1, <2>2, <2>3, <2>4
<1>. QED
  BY <1>4, <1>11, <1>14 DEF a, above, n, p, q
-----------------------------------------------------------------------------
(* Totals are numbers, and what preceded an event counts by its label.       *)

LEMMA ParametersAre ==
    /\ Backoff \in Nat \ {0} /\ Smoothing \in Nat \ {0} /\ Floor \in Nat /\ Scale \in Nat
    /\ Bins \in Nat \ {0} /\ BinLength \in Nat \ {0} /\ Day \in Nat \ {0}
BY RatesAssumption, BinsAre

LEMMA PartsAreFinite ==
    ASSUME NEW model, Learned(model), NEW P \in SUBSET DOMAIN model.seen
    PROVE  /\ IsFiniteSet(P)
           /\ \A field : IsFiniteSet(Labels(model, P, field))
                         /\ Cardinality(Labels(model, P, field)) \in Nat
           /\ WeightOf(model, P) \in Nat
<1>1. IsFiniteSet(DOMAIN model.seen)
  BY DEF Learned
<1>2. IsFiniteSet(P)
  BY <1>1, FS_Subset
<1>3. ASSUME NEW field
      PROVE  IsFiniteSet(Labels(model, P, field)) /\ Cardinality(Labels(model, P, field)) \in Nat
  <2>. DEFINE f == [i \in P |-> model.seen[i][field]]
  <2>1. f \in [P -> Labels(model, P, field)]
    BY DEF Labels
  <2>2. \A t \in Labels(model, P, field) : \E i \in P : f[i] = t
    BY DEF Labels
  <2>. HIDE DEF f
  <2>. QED
    BY <1>2, <2>1, <2>2, ImageIs
<1>4. WeightOf(model, P) \in Nat
  <2>. DEFINE D == DOMAIN model.seen
              f == [i \in D |-> model.seen[i].weight]
  <2>1. f \in [D -> Nat]
    BY DEF Learned
  <2>. HIDE DEF f
  <2>2. SumFunctionOnSet(f, P) \in Nat
    BY <1>2, <2>1, SumType
  <2>. QED
    BY <2>2 DEF WeightOf, f
<1>. QED
  BY <1>2, <1>3, <1>4

LEMMA ProbabilityIs ==
    ASSUME NEW model, Learned(model), NEW P \in SUBSET DOMAIN model.seen,
           NEW field, NEW label, NEW categories \in Nat
    PROVE  Probability(model, P, field, label, categories) \in Int
<1>. DEFINE kinds == Cardinality(Labels(model, P, field))
            S == {kinds, categories, 1}
            seen == Max(S)
            part == WeightOf(model, Labelled(model, P, field, label))
            whole == WeightOf(model, P)
<1>1. part \in Nat /\ whole \in Nat /\ kinds \in Nat
  <2>1. Labelled(model, P, field, label) \in SUBSET DOMAIN model.seen
    BY DEF Labelled
  <2>. QED
    BY <2>1, PartsAreFinite
<1>2. seen \in Nat \ {0}
  <2>1. S \in SUBSET Nat /\ S # {} /\ 1 \in S
    BY <1>1
  <2>2. IsFiniteSet(S)
    <3>1. IsFiniteSet({}) /\ S = (({} \cup {kinds}) \cup {categories}) \cup {1}
      BY FS_EmptySet
    <3>2. IsFiniteSet({} \cup {kinds})
      BY <3>1, FS_AddElement
    <3>3. IsFiniteSet(({} \cup {kinds}) \cup {categories})
      BY <3>2, FS_AddElement
    <3>4. IsFiniteSet((({} \cup {kinds}) \cup {categories}) \cup {1})
      BY <3>3, FS_AddElement
    <3>. QED
      BY <3>1, <3>4
  <2>. HIDE DEF S
  <2>3. seen \in S /\ seen >= 1
    BY <2>1, <2>2, LatestIsOne
  <2>. HIDE DEF seen
  <2>. QED
    BY <2>1, <2>3
<1>3. Probability(model, P, field, label, categories)
        = ((part + Smoothing) * Scale) \div (whole + Smoothing * seen)
  BY DEF Probability
<1>. HIDE DEF part, whole, seen
<1>4. Smoothing * seen \in Nat \ {0} /\ (part + Smoothing) * Scale \in Int
  <2>1. part + Smoothing \in Int /\ Scale \in Int /\ Smoothing \in Nat \ {0}
    BY <1>1, ParametersAre
  <2>. QED
    BY <1>2, <2>1, Products
<1>. DEFINE x == (part + Smoothing) * Scale
            y == Smoothing * seen
<1>. HIDE DEF x, y
<1>5. whole + y \in Nat \ {0} /\ x \in Int
  BY <1>1, <1>4 DEF x, y
<1>6. x \div (whole + y) \in Int
  BY <1>5, Divided
<1>. QED
  BY <1>3, <1>6 DEF x, y

LEMMA InterpolateIs ==
    ASSUME NEW specific \in Int, NEW broader \in Int, NEW weight \in Nat
    PROVE  Interpolate(specific, broader, weight) \in Int
<1>. DEFINE x == weight * specific + Backoff * broader
            y == weight + Backoff
<1>1. Backoff \in Nat \ {0}
  BY ParametersAre
<1>2. x \in Int /\ y \in Nat \ {0}
  <2>1. weight * specific \in Int /\ Backoff * broader \in Int
    BY <1>1, Products
  <2>. QED
    BY <1>1, <2>1
<1>. HIDE DEF x, y
<1>3. x \div y \in Int
  BY <1>2, Divided
<1>. QED
  BY <1>3 DEF x, y, Interpolate

LEMMA ClockProbabilityIs ==
    ASSUME NEW model, Learned(model), NEW P \in SUBSET DOMAIN model.seen, NEW minute \in Int
    PROVE  ClockProbability(Clock(model, P), minute) \in Int
<1>. DEFINE rate == Table(model, P)
            x == (rate.weights[BinOf(minute)] + Floor) * Scale
            y == rate.total + Floor * Bins
<1>1. Clock(model, P) = rate
  BY ClockIsTable
<1>2. rate.weights \in [Places -> Nat] /\ rate.total \in Nat
  <2>1. rate.weights \in [Places -> Nat]
    BY TableType
  <2>2. SumFunction(rate.weights) = rate.total
    BY TableAddsUp
  <2>. HIDE DEF rate
  <2>3. SumFunction(rate.weights) = SumFunctionOnSet(rate.weights, Places)
    BY <2>1 DEF SumFunction
  <2>4. SumFunctionOnSet(rate.weights, Places) \in Nat
    BY <2>1, SumType, PlacesFinite
  <2>. QED
    BY <2>1, <2>2, <2>3, <2>4
<1>. HIDE DEF rate
<1>3. BinOf(minute) \in Places
  <2>1. minute \div BinLength \in Int
    BY ParametersAre, Divided
  <2>. QED
    BY <2>1, InPlaces DEF BinOf
<1>4. ClockProbability(rate, minute) = IF rate.total = 0 THEN Scale \div Bins ELSE x \div y
  BY DEF ClockProbability
<1>5. Scale \div Bins \in Int
  BY ParametersAre, Divided
<1>6. x \in Int /\ (rate.total # 0 => y \in Nat \ {0})
  <2>1. rate.weights[BinOf(minute)] + Floor \in Int /\ Floor * Bins \in Nat /\ Scale \in Int
    <3>1. rate.weights[BinOf(minute)] \in Nat
      BY <1>2, <1>3
    <3>. QED
      BY <3>1, ParametersAre, Products
  <2>2. x \in Int
    BY <2>1, Products
  <2>3. rate.total # 0 => y \in Nat \ {0}
    BY <1>2, <2>1
  <2>. QED
    BY <2>2, <2>3
<1>. HIDE DEF x, y
<1>7. rate.total # 0 => x \div y \in Int
  BY <1>6, Divided
<1>. QED
  BY <1>1, <1>4, <1>5, <1>7

\* How many labels there are of a few profiles, at least two.
LEMMA ManyIs ==
    ASSUME NEW model, Learned(model), NEW field, NEW profiles, IsFiniteSet(profiles),
           profiles \in SUBSET (SUBSET DOMAIN model.seen)
    PROVE  Max({2} \cup {Cardinality(Labels(model, p, field)) : p \in profiles}) \in Nat
<1>. DEFINE T == {Cardinality(Labels(model, p, field)) : p \in profiles}
            f == [p \in profiles |-> Cardinality(Labels(model, p, field))]
            S == {2} \cup T
<1>1. \A p \in profiles : Cardinality(Labels(model, p, field)) \in Nat
  BY PartsAreFinite
<1>2. f \in [profiles -> T] /\ \A t \in T : \E p \in profiles : f[p] = t
  OBVIOUS
<1>3. T \in SUBSET Nat
  BY <1>1
<1>. HIDE DEF f, T
<1>4. IsFiniteSet(T)
  BY <1>2, ImageIs
<1>5. IsFiniteSet(T \cup {2}) /\ T \cup {2} = S
  BY <1>4, FS_AddElement
<1>6. S \in SUBSET Nat /\ S # {} /\ IsFiniteSet(S)
  <2>1. \A y \in S : y \in Nat
    BY <1>3
  <2>. QED
    BY <1>5, <2>1
<1>. HIDE DEF S
<1>7. Max(S) \in S
  BY <1>6, LatestIsOne
<1>8. Max(S) \in Nat
  BY <1>6, <1>7
<1>. QED
  BY <1>8 DEF S, T

LEMMA PairIsFinite == \A a, b : IsFiniteSet({a, b})
<1>1. SUFFICES ASSUME NEW a, NEW b PROVE IsFiniteSet({a, b})
  OBVIOUS
<1>2. IsFiniteSet({a})
  BY FS_Singleton
<1>3. IsFiniteSet({a} \cup {b}) /\ {a} \cup {b} = {a, b}
  BY <1>2, FS_AddElement
<1>. QED
  BY <1>3

LEMMA SurprisalIs ==
    ASSUME NEW probability \in Int, NEW categories \in Nat
    PROVE  Surprisal(probability, categories) \in Int
<1>1. probability * categories \in Int /\ Scale \in Int
  BY ParametersAre, Products
<1>. QED
  BY <1>1 DEF Surprisal

LEMMA TotalIs ==
    ASSUME NEW model, Learned(model), NEW event, event.from \in Nat, NEW previous
    PROVE  Total(event, previous, model) \in Int
<1>. DEFINE specific == Profile(model, event.camera, event.kind)
            broader == PerKind(model, event.camera, event.kind)
            overall == Pooled(model, event.camera)
            own == PerCamera(model, event.camera)
            blend(s, b, o) == Interpolate(s, Interpolate(b, o, WeightOf(model, broader)),
                                          WeightOf(model, specific))
            many(field, profiles) ==
                Max({2} \cup {Cardinality(Labels(model, p, field)) : p \in profiles})
            category(field, label, categories) ==
                blend(Probability(model, specific, field, label, categories),
                      Probability(model, broader, field, label, categories),
                      Probability(model, overall, field, label, categories))
            minute == MinuteOfDay(event)
            label == PredecessorLabel(event, previous)
            value == SignalValue(Signal(event.from), model.cuts)
            kinds == many("kind", {own, overall})
            durations == many("duration", {specific, overall})
            predecessors == many("predecessor", {specific, overall})
            readings == many("signal", {specific})
            t == Terms(event, previous, model)
<1>1. specific \in SUBSET DOMAIN model.seen /\ broader \in SUBSET DOMAIN model.seen
      /\ overall \in SUBSET DOMAIN model.seen /\ own \in SUBSET DOMAIN model.seen
  BY DEF Profile, PerKind, Pooled, PerCamera
<1>. HIDE DEF specific, broader, overall, own
<1>2. WeightOf(model, specific) \in Nat /\ WeightOf(model, broader) \in Nat
      /\ WeightOf(model, own) \in Nat
  BY <1>1, PartsAreFinite
<1>3. \A s, b, o \in Int : blend(s, b, o) \in Int
  BY <1>2, InterpolateIs
<1>. HIDE DEF blend
<1>4. \A field, l : \A n \in Nat : category(field, l, n) \in Int
  BY <1>1, <1>3, ProbabilityIs
<1>5. kinds \in Nat /\ durations \in Nat /\ predecessors \in Nat /\ readings \in Nat
  <2>1. \A a, b \in SUBSET DOMAIN model.seen : \A field : many(field, {a, b}) \in Nat
    <3>1. TAKE a, b \in SUBSET DOMAIN model.seen
    <3>2. TAKE field
    <3>3. IsFiniteSet({a, b}) /\ {a, b} \in SUBSET (SUBSET DOMAIN model.seen)
      BY PairIsFinite
    <3>. QED
      BY <3>3, ManyIs
  <2>2. many("kind", {own, overall}) \in Nat /\ many("duration", {specific, overall}) \in Nat
        /\ many("predecessor", {specific, overall}) \in Nat
    BY <1>1, <2>1
  <2>3. {specific} = {specific, specific}
    OBVIOUS
  <2>4. many("signal", {specific, specific}) \in Nat
    BY <1>1, <2>1
  <2>. QED
    BY <2>2, <2>3, <2>4
<1>6. minute \in Int
  BY ParametersAre DEF MinuteOfDay
<1>. HIDE DEF many, category, minute, label, value
<1>7. t = [kind |-> IF Cardinality(Labels(model, own, "kind")) <= 1 THEN 0
                 ELSE Surprisal(Interpolate(
                         Probability(model, own, "kind", event.kind, kinds),
                         Probability(model, overall, "kind", event.kind, kinds),
                         WeightOf(model, own)), kinds),
        clock |-> Surprisal(blend(ClockProbability(Clock(model, specific), minute),
                                  ClockProbability(Clock(model, broader), minute),
                                  ClockProbability(Clock(model, overall), minute)), Bins),
        duration |-> Surprisal(category("duration", DurationBucket(event), durations),
                               durations),
        predecessor |-> Surprisal(category("predecessor", label, predecessors), predecessors),
        weekend |-> Scale - Interpolate(
                        7 * category("day", DayOfWeek(event), 7),
                        (7 * category("weekend", IsWeekend(event), 2))
                            \div (IF IsWeekend(event) THEN 2 ELSE 5),
                        WeightOf(model, specific) \div 7),
        signal |-> IF specific # {} /\ Labels(model, specific, "signal") = {<<Unknown>>} THEN 0
                   ELSE Surprisal(category("signal", value, readings), readings)]
  BY DEF Terms, specific, broader, overall, own, blend, many, category, minute, label, value
<1>. HIDE DEF kinds, durations, predecessors, readings, t
<1>8. t.kind \in Int
  <2>1. Probability(model, own, "kind", event.kind, kinds) \in Int
        /\ Probability(model, overall, "kind", event.kind, kinds) \in Int
    BY <1>1, <1>5, ProbabilityIs
  <2>. DEFINE x == Interpolate(Probability(model, own, "kind", event.kind, kinds),
                               Probability(model, overall, "kind", event.kind, kinds),
                               WeightOf(model, own))
  <2>2. x \in Int
    BY <1>2, <2>1, InterpolateIs
  <2>3. t.kind = IF Cardinality(Labels(model, own, "kind")) <= 1 THEN 0 ELSE Surprisal(x, kinds)
    BY <1>7
  <2>. HIDE DEF x
  <2>4. Surprisal(x, kinds) \in Int
    BY <1>5, <2>2, SurprisalIs
  <2>. QED
    BY <2>3, <2>4
<1>9. t.clock \in Int
  <2>1. /\ ClockProbability(Clock(model, specific), minute) \in Int
        /\ ClockProbability(Clock(model, broader), minute) \in Int
        /\ ClockProbability(Clock(model, overall), minute) \in Int
    BY <1>1, <1>6, ClockProbabilityIs
  <2>2. Bins \in Nat
    BY ParametersAre
  <2>. QED
    BY <1>3, <1>7, <2>1, <2>2, SurprisalIs
<1>10. t.duration \in Int /\ t.predecessor \in Int
  BY <1>4, <1>5, <1>7, SurprisalIs
<1>11. t.weekend \in Int
  <2>. DEFINE x == category("day", DayOfWeek(event), 7)
              y == category("weekend", IsWeekend(event), 2)
              d == IF IsWeekend(event) THEN 2 ELSE 5
              w == WeightOf(model, specific) \div 7
  <2>1. x \in Int /\ y \in Int /\ d \in Nat \ {0}
    BY <1>4
  <2>2. w \in Nat
    BY <1>2
  <2>3. t.weekend = Scale - Interpolate(7 * x, (7 * y) \div d, w)
    BY <1>7
  <2>. HIDE DEF x, y, d, w
  <2>4. 7 * x \in Int /\ 7 * y \in Int
    BY <2>1
  <2>5. (7 * y) \div d \in Int
    BY <2>1, <2>4, Divided
  <2>6. Interpolate(7 * x, (7 * y) \div d, w) \in Int
    BY <2>2, <2>4, <2>5, InterpolateIs
  <2>7. Scale \in Int
    BY ParametersAre
  <2>. QED
    BY <2>3, <2>6, <2>7
<1>12. t.signal \in Int
  <2>. DEFINE x == category("signal", value, readings)
  <2>1. x \in Int
    BY <1>4, <1>5
  <2>2. Surprisal(x, readings) \in Int
    <3>. HIDE DEF x
    <3>. QED
      BY <1>5, <2>1, SurprisalIs
  <2>3. \/ t.signal = 0
        \/ t.signal = Surprisal(x, readings)
    BY <1>7
  <2>. HIDE DEF x
  <2>. QED
    BY <2>2, <2>3
<1>13. Total(event, previous, model)
         = t.kind + t.clock + t.duration + t.predecessor + t.weekend + t.signal
  BY DEF Total, t
<1>. QED
  BY <1>8, <1>9, <1>10, <1>11, <1>12, <1>13

LEMMA TotalByLabel ==
    ASSUME NEW model, NEW event, NEW x, NEW y,
           PredecessorLabel(event, x) = PredecessorLabel(event, y)
    PROVE  Total(event, x, model) = Total(event, y, model)
<1>1. Terms(event, x, model) = Terms(event, y, model)
  BY DEF Terms
<1>. QED
  BY <1>1 DEF Total
-----------------------------------------------------------------------------
(* What is marked.                                                           *)

\* A model of all of the journal has seen what the history derives to.
LEMMA ModelHasSeen ==
    ASSUME LogFits, built = Len(log)
    PROVE  LET model == ModelNow
           IN /\ Learned(model) /\ DOMAIN model.seen = DOMAIN History
              /\ \A i \in DOMAIN History : model.seen[i].event = History[i]
              /\ [i \in DOMAIN model.seen |-> model.seen[i].event] = History
<1>1. built # NotBuilt
  BY RatesAssumption, LogIsInTime
<1>2. Learned(ModelNow)
  BY <1>1, ModelIsLearned
<1>3. SubSeq(log, 1, built) = log
  <2>. DEFINE first == SubSeq(log, 1, Len(log))
  <2>1. log \in Seq(RowType) /\ Len(log) \in Nat
    BY DEF LogFits
  <2>2. first \in Seq(RowType) /\ Len(first) = Len(log) /\ \A k \in 1..Len(log) : first[k] = log[k]
    BY <2>1
  <2>. HIDE DEF first
  <2>3. first = log
    BY <2>1, <2>2
  <2>. QED
    BY <2>3 DEF first
<1>4. ModelNow = Build(History, builtAt)
  BY <1>1, <1>3 DEF ModelNow, History
<1>5. /\ DOMAIN ModelNow.seen = DOMAIN History
      /\ \A i \in DOMAIN History : ModelNow.seen[i].event = History[i]
  BY <1>4 DEF Build
<1>6. History = [i \in DOMAIN History |-> History[i]]
  <2>1. ASSUME NEW E PROVE InOrder(E) = [i \in DOMAIN InOrder(E) |-> InOrder(E)[i]]
    <3>. DEFINE e(i) == CHOOSE e \in E : Cardinality({f \in E : f.from < e.from}) = i - 1
    <3>1. InOrder(E) = [i \in 1..Cardinality(E) |-> e(i)]
      BY DEF InOrder
    <3>. HIDE DEF e
    <3>. QED
      BY <3>1
  <2>. QED
    BY <2>1 DEF History, Derive
<1>. QED
  BY <1>2, <1>5, <1>6

\* Of a camera without a threshold nothing is unusual.
LEMMA MarkedIsActive ==
    ASSUME NEW model, NEW total, NEW c, Unusual(total, c, Thresholds(model))
    PROVE  /\ PerCamera(model, c) # {} /\ Ready(model, c) /\ StateOf(model, c) = "active"
           /\ total > Thresholds(model)[c]
BY DEF Unusual, Thresholds, StateOf

\* What a history scores on a camera.
Scores(model, c) ==
    [i \in PerCamera(model, c) |-> Total(History[i], Previous(History, i), model)]

LEMMA ThresholdIs ==
    ASSUME LogFits, built = Len(log), NEW c \in Cameras, PerCamera(ModelNow, c) # {},
           Ready(ModelNow, c)
    PROVE  LET D == PerCamera(ModelNow, c)
           IN /\ Scores(ModelNow, c) \in [D -> Int] /\ IsFiniteSet(D)
              /\ Thresholds(ModelNow)[c] = QuantileOf(Scores(ModelNow, c), Quantile)
<1>. DEFINE model == ModelNow
            D == PerCamera(model, c)
<1>1. /\ Learned(model) /\ DOMAIN model.seen = DOMAIN History
      /\ \A i \in DOMAIN History : model.seen[i].event = History[i]
      /\ [i \in DOMAIN model.seen |-> model.seen[i].event] = History
  BY ModelHasSeen
<1>2. D \in SUBSET DOMAIN model.seen
  BY DEF PerCamera
<1>. HIDE DEF model
<1>3. IsFiniteSet(D)
  BY <1>1, <1>2, PartsAreFinite
<1>4. \A i \in D : Total(History[i], Previous(History, i), model) \in Int
  <2>1. \A i \in D : History[i].from \in Nat
    BY <1>1, <1>2 DEF Learned
  <2>. QED
    BY <1>1, <2>1, TotalIs
<1>5. Scores(model, c) \in [D -> Int]
  <2>. HIDE DEF D
  <2>. QED
    BY <1>4 DEF Scores, D
<1>6. Thresholds(model)[c] = QuantileOf(Scores(model, c), Quantile)
  BY <1>1 DEF Thresholds, Scores, model
<1>. QED
  BY <1>3, <1>5, <1>6 DEF model

LEMMA MarkedIsTail ==
    ASSUME LogFits, ShownFits, shown # Open, built = Len(log), Settled(shown.since),
           shown.until > time, NEW c \in Cameras, PerCamera(ModelNow, c) # {}, Ready(ModelNow, c)
    PROVE  LET marked == {r \in shown.rows : r.event.camera = c /\ r.unusual}
               D == PerCamera(ModelNow, c)
               score == Scores(ModelNow, c)
               above == {i \in D : score[i] > Thresholds(ModelNow)[c]}
           IN Cardinality(marked) \in Nat /\ Cardinality(marked) <= Cardinality(above)
<1>. DEFINE since == shown.since
            until == shown.until
            told == Read(since, until)
            model == ModelNow
            thresholds == Thresholds(model)
            marked == {r \in shown.rows : r.event.camera = c /\ r.unusual}
            D == PerCamera(model, c)
            score == Scores(model, c)
            above == {i \in D : score[i] > thresholds[c]}
            row(event, label, total) ==
                [event |-> event, label |-> label, total |-> total,
                 unusual |-> Unusual(total, event.camera, thresholds)]
            scored(j) == Total(Derive(told)[j], Previous(Derive(told), j), model)
            f == [i \in above |-> row(History[i], LabelAt(log, i), score[i])]
            T == {f[i] : i \in above}
<1>1. /\ shown.rows = Window(since, until)
      /\ since \in Nat /\ since <= until /\ until \in Nat
  BY DEF ShownFits
<1>2. Mirrored(told, log, since, until)
  <2>1. SubSeq(log, 1, Older(until)) = log
    BY <1>1, ReadToNow
  <2>. QED
    BY <1>1, <2>1, LeadInIsLongEnough
<1>3. /\ DOMAIN model.seen = DOMAIN History
      /\ \A i \in DOMAIN History : model.seen[i].event = History[i]
  BY ModelHasSeen
<1>4. IsFiniteSet(D)
  BY ThresholdIs
<1>. HIDE DEF since, until, told, model
<1>5. shown.rows = {row(Derive(told)[j], LabelAt(told, j), scored(j)) :
                        j \in Inside(told, since, until)}
  BY <1>1 DEF Window, Inside, LabelAt, told, model
<1>. HIDE DEF thresholds
<1>6. ASSUME NEW r \in marked PROVE \E i \in above : f[i] = r
  <2>1. PICK j \in Inside(told, since, until) :
            r = row(Derive(told)[j], LabelAt(told, j), scored(j))
    BY <1>5
  <2>2. PICK i \in Inside(log, since, until) :
            History[i] = Derive(told)[j] /\ LabelAt(log, i) = LabelAt(told, j)
    BY <1>2 DEF Mirrored, History
  <2>3. i \in DOMAIN History /\ History[i].camera = c
    <3>1. r.event.camera = c /\ r.event = Derive(told)[j]
      BY <2>1
    <3>. QED
      BY <2>2, <3>1 DEF Inside, History
  <2>4. i \in D
    BY <1>3, <2>3 DEF PerCamera
  <2>5. score[i] = scored(j)
    <3>1. score[i] = Total(History[i], Previous(History, i), model)
      BY <2>4 DEF Scores
    <3>2. PredecessorLabel(History[i], Previous(History, i))
            = PredecessorLabel(History[i], Previous(Derive(told), j))
      BY <2>2 DEF LabelAt, History
    <3>3. Total(History[i], Previous(History, i), model)
            = Total(History[i], Previous(Derive(told), j), model)
      BY <3>2, TotalByLabel
    <3>. QED
      BY <2>2, <3>1, <3>3
  <2>. HIDE DEF scored, score, D
  <2>6. r.unusual /\ r.unusual = Unusual(scored(j), Derive(told)[j].camera, thresholds)
    BY <2>1
  <2>7. Unusual(score[i], c, thresholds)
    BY <2>2, <2>3, <2>5, <2>6
  <2>8. i \in above
    BY <2>4, <2>7 DEF Unusual
  <2>9. row(History[i], LabelAt(log, i), score[i]) = r
    BY <2>1, <2>2, <2>5
  <2>. HIDE DEF row, above
  <2>10. f[i] = row(History[i], LabelAt(log, i), score[i])
    BY <2>8
  <2>. QED
    BY <2>8, <2>9, <2>10
<1>7. IsFiniteSet(above)
  <2>1. above \in SUBSET D
    OBVIOUS
  <2>. HIDE DEF above, D
  <2>. QED
    BY <1>4, <2>1, FS_Subset
<1>8. f \in [above -> T] /\ \A t \in T : \E i \in above : f[i] = t
  <2>. HIDE DEF above, row
  <2>. QED
    OBVIOUS
<1>9. marked \in SUBSET T
  <2>. HIDE DEF marked, above, f
  <2>. QED
    BY <1>6
<1>. HIDE DEF marked, above, f, T
<1>10. IsFiniteSet(T) /\ Cardinality(T) \in Nat /\ Cardinality(T) <= Cardinality(above)
  BY <1>7, <1>8, ImageIs
<1>11. /\ Cardinality(marked) \in Nat /\ Cardinality(marked) <= Cardinality(T)
  BY <1>9, <1>10, FS_Subset, FS_CardinalityType
<1>12. Cardinality(above) \in Nat
  BY <1>7, FS_CardinalityType
<1>13. Cardinality(marked) \in Nat /\ Cardinality(marked) <= Cardinality(above)
  BY <1>10, <1>11, <1>12
<1>. QED
  BY <1>13 DEF marked, above, D, score, thresholds, model

LEMMA ShownTailIsMarked == LogFits /\ ShownFits => OnlyTheTailIsMarked
<1>. SUFFICES ASSUME LogFits, ShownFits, shown # Open, built = Len(log), NEW c \in Cameras
              PROVE  LET marked == {r \in shown.rows : r.event.camera = c /\ r.unusual}
                         n == Cardinality(PerCamera(ModelNow, c))
                     IN /\ Settled(shown.since) /\ shown.until > time =>
                             Cardinality(marked) * Quantile[2] <= n * (Quantile[2] - Quantile[1])
                        /\ marked # {} => StateOf(ModelNow, c) = "active"
  BY DEF OnlyTheTailIsMarked
<1>. DEFINE model == ModelNow
            marked == {r \in shown.rows : r.event.camera = c /\ r.unusual}
            D == PerCamera(model, c)
            n == Cardinality(D)
            p == Quantile[1]
            q == Quantile[2]
<1>1. marked # {} => D # {} /\ Ready(model, c) /\ StateOf(model, c) = "active"
  <2>1. SUFFICES ASSUME NEW r \in marked PROVE \E total : Unusual(total, c, Thresholds(model))
    BY MarkedIsActive
  <2>. DEFINE told == Read(shown.since, shown.until)
              scored(j) == Total(Derive(told)[j], Previous(Derive(told), j), model)
  <2>2. shown.rows = Window(shown.since, shown.until)
    BY DEF ShownFits
  <2>3. PICK j \in Inside(told, shown.since, shown.until) :
            r = [event |-> Derive(told)[j], label |-> LabelAt(told, j), total |-> scored(j),
                 unusual |-> Unusual(scored(j), Derive(told)[j].camera, Thresholds(model))]
    BY <2>1, <2>2 DEF Window, Inside, LabelAt
  <2>. HIDE DEF scored, told, model
  <2>4. r.event.camera = c /\ r.unusual
    BY <2>1
  <2>5. Unusual(scored(j), c, Thresholds(model))
    BY <2>3, <2>4
  <2>. QED
    BY <2>5
<1>2. p \in Nat /\ q \in Nat \ {0} /\ p <= q
  BY RatesAssumption
<1>3. IsFiniteSet(D) /\ n \in Nat
  <2>1. Learned(model)
    BY ModelHasSeen
  <2>2. D \in SUBSET DOMAIN model.seen
    BY DEF PerCamera
  <2>. HIDE DEF model, D
  <2>. QED
    BY <2>1, <2>2, PartsAreFinite, FS_CardinalityType
<1>4. ASSUME Settled(shown.since), shown.until > time
      PROVE  Cardinality(marked) * q <= n * (q - p)
  <2>1. CASE marked = {}
    <3>1. Cardinality(marked) = 0
      BY <2>1, FS_EmptySet
    <3>2. n * (q - p) \in Nat
      <4>1. q - p \in Nat
        BY <1>2
      <4>. QED
        BY <1>3, <4>1, Products
    <3>3. 0 * q = 0
      BY <1>2
    <3>. HIDE DEF marked, n, q, p
    <3>. QED
      BY <3>1, <3>2, <3>3
  <2>2. CASE marked # {}
    <3>. DEFINE score == Scores(model, c)
                above == {i \in D : score[i] > Thresholds(model)[c]}
    <3>1. D # {} /\ Ready(model, c)
      BY <1>1, <2>2
    <3>2. Cardinality(marked) \in Nat /\ Cardinality(marked) <= Cardinality(above)
      BY <1>4, <3>1, MarkedIsTail
    <3>3. score \in [D -> Int] /\ Thresholds(model)[c] = QuantileOf(score, Quantile)
      BY <3>1, ThresholdIs
    <3>. HIDE DEF score, D, model
    <3>4. Cardinality(above) * q <= n * (q - p)
      <4>1. Cardinality({i \in D : score[i] > QuantileOf(score, Quantile)}) * Quantile[2]
              <= Cardinality(D) * (Quantile[2] - Quantile[1])
        BY <1>3, <3>1, <3>3, TailIs
      <4>. QED
        BY <3>3, <4>1
    <3>5. Cardinality(above) \in Nat
      <4>1. above \in SUBSET D
        OBVIOUS
      <4>. HIDE DEF above
      <4>. QED
        BY <1>3, <4>1, FS_Subset, FS_CardinalityType
    <3>. DEFINE a == Cardinality(above)
                m == Cardinality(marked)
    <3>6. m * q <= a * q /\ m * q \in Int /\ a * q \in Int
      <4>. HIDE DEF a, m, q, above, marked
      <4>1. m \in Int /\ a \in Int /\ m <= a /\ q \in Nat
        BY <1>2, <3>2, <3>5 DEF a, m
      <4>. QED
        BY <4>1, Products
    <3>7. n * (q - p) \in Int
      <4>1. q - p \in Int
        BY <1>2
      <4>. HIDE DEF n, q, p
      <4>. QED
        BY <1>3, <4>1, Products
    <3>. HIDE DEF above, marked, n, q, p
    <3>8. m * q <= n * (q - p)
      <4>1. a * q <= n * (q - p)
        BY <3>4
      <4>. HIDE DEF a, m
      <4>. QED
        BY <3>6, <3>7, <4>1
    <3>. QED
      BY <3>8
  <2>. QED
    BY <2>1, <2>2
<1>. QED
  BY <1>1, <1>4

\* Of the history a model was learned from no more than the tail above the quantile is
\* marked, and nothing on a camera that is not active (`calibrate`, `score`, `quantile`).
THEOREM OnlyTheTailIsEverMarked == AnalysisSpec => []OnlyTheTailIsMarked
<1>1. AnalysisInit => LogFits /\ ShownFits
  BY LogFitsAtFirst, ShownFitsAtFirst
<1>2. LogFits /\ ShownFits /\ [AnalysisNext]_analysisVars => LogFits' /\ ShownFits'
  BY LogFitsAfter, ShownFitsAfter
<1>. QED
  BY <1>1, <1>2, ShownTailIsMarked, PTL DEF AnalysisSpec
=============================================================================
