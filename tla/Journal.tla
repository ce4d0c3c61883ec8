------------------------------- MODULE Journal -------------------------------
(***************************************************************************)
(* The Relevance journal (relevance/): what the detection sensors do is     *)
(* buffered and written to a database every half minute, or when enough has  *)
(* gathered (journal.py, watcher.py); what happened before is imported once  *)
(* from Home Assistant's own recorder and stamped with what the configured   *)
(* signals said (backfill.py); then a model is learnt from all of it         *)
(* (analysis.py), in that order (__init__.py).                               *)
(*                                                                          *)
(* One connection behind one lock.  A task holds the lock while the executor *)
(* writes; everything else that looks at the database waits for it to be     *)
(* free and is one step.  The rows are the transitions, numbered as they     *)
(* happened; all that is said of a row is its context.                       *)
(***************************************************************************)
EXTENDS Naturals, Sequences, FiniteSets, Functions

CONSTANTS
    MaxRows,      \* bound: transitions that happen
    MaxLives,     \* bound: times the integration starts
    FlushRows,    \* JOURNAL_FLUSH_ROWS
    ChunkRows,    \* what one chunk of the import covers
    SignalSets,   \* the sets of signals that may be configured
    NoSignals,    \* the empty one
    NoMark        \* no set was ever stamped

ASSUME JournalAssumption ==
    /\ MaxRows \in Nat \ {0} /\ MaxLives \in Nat \ {0}
    /\ FlushRows \in Nat \ {0} /\ ChunkRows \in Nat \ {0}
    /\ NoSignals \in SignalSets /\ NoMark \notin SignalSets

Rows == 1..MaxRows

\* A row that is not held; one without a snapshot; one that says what the signals said;
\* one that says they are unknown.
Contexts == {"absent", "bare", "said", "unknown"}

VARIABLES
    now,        \* transitions so far
    retained,   \* those the recorder still has
    up,         \* how far it is up, or down again
    lives,      \* times it was started
    signals,    \* the set of signals configured
    watching,   \* the watcher is subscribed
    open,       \* `_connection` is not None
    pending,    \* `_pending`
    timer,      \* `_cancel_flush` is armed
    waiting,    \* flush tasks that wait for the lock
    holder,     \* who holds the lock while the executor writes
    batch,      \* the buffered rows being written
    table,      \* table[r]: what the database says of r
    backfilled, \* JOURNAL_META_BACKFILLED is set
    stamped,    \* JOURNAL_META_SIGNALS
    importer,   \* where the catch-up task is
    cursor,     \* how far its import has come
    upto,       \* `now` when it began
    rows,       \* the rows it read and has still to write
    recorded,   \* every row the watcher handed over
    lost        \* those a failed write or a crash took

buffer == <<watching, pending, timer, recorded>>
import == <<importer, cursor, upto, rows>>
disk == <<table, backfilled, stamped>>
life == <<up, lives, signals>>
vars == <<now, retained, life, buffer, open, waiting, holder, batch, disk, import, lost>>

ImportSteps == {"idle", "begin", "reading", "adding", "marking", "signals", "flushing",
                "holding", "asking", "stamping", "sealing", "draining", "learning"}

TypeOK ==
    /\ now \in 0..MaxRows /\ upto \in 0..MaxRows /\ cursor \in 0..MaxRows
    /\ retained \subseteq Rows /\ recorded \subseteq Rows /\ lost \subseteq Rows
    /\ up \in {"down", "on", "flushing", "closing", "closed", "removed"}
    /\ lives \in 0..MaxLives
    /\ signals \in SignalSets
    /\ watching \in BOOLEAN /\ open \in BOOLEAN /\ timer \in BOOLEAN
    /\ pending \in Seq(Rows) /\ batch \in Seq(Rows)
    /\ waiting \in Nat
    /\ holder \in {"none", "flush", "closer", "importer"}
    /\ table \in [Rows -> Contexts]
    /\ backfilled \in BOOLEAN
    /\ stamped \in SignalSets \cup {NoMark}
    /\ importer \in ImportSteps
    /\ rows \in [Rows -> Contexts]

NoRows == [r \in Rows |-> "absent"]

Init ==
    /\ now = 0 /\ retained = {} /\ up = "down" /\ lives = 0 /\ signals = NoSignals
    /\ watching = FALSE /\ open = FALSE /\ timer = FALSE
    /\ pending = <<>> /\ batch = <<>> /\ waiting = 0 /\ holder = "none"
    /\ table = NoRows /\ backfilled = FALSE /\ stamped = NoMark
    /\ importer = "idle" /\ cursor = 0 /\ upto = 0 /\ rows = NoRows
    /\ recorded = {} /\ lost = {}

Held == {r \in Rows : table[r] # "absent"}

-----------------------------------------------------------------------------
(* The buffer.                                                              *)

\* The flush that is asked for takes the armed timer's place.
RecordSlip(r) ==
    /\ pending' = Append(pending, r)
    /\ recorded' = recorded \cup {r}
    /\ IF Len(pending') >= FlushRows
       THEN waiting' = waiting + 1 /\ timer' = FALSE
       ELSE timer' = (waiting = 0 /\ holder = "none") /\ UNCHANGED waiting

\* The row is dated with the change before it, as `last_updated` could be.
RecordEarlierSlip(r) ==
    /\ pending' = Append(pending, r - 1)
    /\ recorded' = recorded \cup {r - 1}
    /\ timer' = TRUE /\ UNCHANGED waiting

\* `async_record`: a full buffer is flushed at once, by a task that cancels the timer as
\* it starts; else the timer is armed unless it is already.
Record(r) ==
    /\ pending' = Append(pending, r)
    /\ recorded' = recorded \cup {r}
    /\ IF Len(pending') >= FlushRows
       THEN waiting' = waiting + 1 /\ timer' = FALSE
       ELSE timer' = TRUE /\ UNCHANGED waiting

\* A detection sensor changes state, and the recorder hears of it as well.
Transition ==
    /\ now < MaxRows
    /\ now' = now + 1
    /\ retained' = retained \cup {now'}
    /\ IF watching
       THEN Record(now')
       ELSE UNCHANGED <<pending, recorded, timer, waiting>>
    /\ UNCHANGED <<life, watching, open, holder, batch, disk, import, lost>>

\* `_async_flush_due`.
TimerFires ==
    /\ timer
    /\ timer' = FALSE
    /\ waiting' = waiting + 1
    /\ UNCHANGED <<now, retained, life, watching, pending, recorded, open, holder, batch, disk,
                   import, lost>>

\* `async_flush` with the lock: the buffer is swapped for an empty one before the write
\* begins, and the write is the executor's.
Take(who) ==
    /\ pending' = <<>>
    /\ holder' = IF pending # <<>> /\ open THEN who ELSE "none"
    /\ batch' = IF pending # <<>> /\ open THEN pending ELSE <<>>

Flush ==
    /\ waiting > 0 /\ holder = "none"
    /\ waiting' = waiting - 1
    /\ Take("flush")
    /\ UNCHANGED <<now, retained, life, watching, timer, recorded, open, disk, import, lost>>

\* A row already held is ignored (INSERT OR IGNORE on entity and moment).
Inserted(context, new) ==
    [r \in Rows |-> IF r \in new /\ table[r] = "absent" THEN context ELSE table[r]]

\* A live row carries the snapshot of its moment.
LiveContext == IF signals = NoSignals THEN "bare" ELSE "said"

\* The executor has written the batch, or could not, and the rows are dropped.
WriteEnds ==
    \/ table' = Inserted(LiveContext, Range(batch)) /\ UNCHANGED lost
    \/ lost' = lost \cup Range(batch) /\ UNCHANGED table

\* What was buffered meanwhile goes with what was written.
FlushedSlip ==
    /\ holder = "flush"
    /\ WriteEnds
    /\ holder' = "none" /\ batch' = <<>> /\ pending' = <<>>
    /\ UNCHANGED <<now, retained, life, watching, timer, recorded, open, waiting, backfilled,
                   stamped, import>>

Flushed ==
    /\ holder = "flush"
    /\ WriteEnds
    /\ holder' = "none" /\ batch' = <<>>
    /\ UNCHANGED <<now, retained, life, buffer, open, waiting, backfilled, stamped, import>>

-----------------------------------------------------------------------------
(* Catching up: the import, the stamps, the model.                          *)

\* It has been done, or there are no sensors to ask for (nothing is remembered), or the
\* recorder is asked, chunk by chunk.
ImportBegins ==
    /\ importer = "begin" /\ holder = "none"
    /\ \/ importer' = "signals" /\ UNCHANGED <<cursor, upto>>
       \/ /\ ~(open /\ backfilled)
          /\ importer' = IF now = 0 THEN "marking" ELSE "reading"
          /\ cursor' = 0 /\ upto' = now
    /\ UNCHANGED <<now, retained, life, buffer, open, waiting, holder, batch, disk, rows, lost>>

Chunk == {r \in Rows : cursor < r /\ r <= cursor + ChunkRows /\ r <= upto}

\* `_async_history`: what the recorder has, or nothing at all if it cannot answer.
ImportReads ==
    /\ importer = "reading"
    /\ \E found \in {{}, Chunk \cap retained} :
           rows' = [r \in Rows |-> IF r \in found THEN "bare" ELSE "absent"]
    /\ importer' = "adding"
    /\ UNCHANGED <<now, retained, life, buffer, open, waiting, holder, batch, disk, cursor, upto, lost>>

\* The next chunk, or the marker.
NextChunk ==
    /\ cursor' = IF cursor + ChunkRows > upto THEN upto ELSE cursor + ChunkRows
    /\ importer' = IF cursor' >= upto THEN "marking" ELSE "reading"
    /\ rows' = NoRows

\* `async_add`, straight through the lock.
ImportAdds ==
    /\ importer = "adding" /\ holder = "none"
    /\ IF rows = NoRows \/ ~open
       THEN NextChunk /\ UNCHANGED holder
       ELSE holder' = "importer" /\ UNCHANGED <<importer, cursor, rows>>
    /\ UNCHANGED <<now, retained, life, buffer, open, waiting, batch, disk, upto, lost>>

ImportAdded ==
    /\ importer = "adding" /\ holder = "importer"
    /\ table' = Inserted("bare", {r \in Rows : rows[r] # "absent"})
    /\ NextChunk
    /\ holder' = "none"
    /\ UNCHANGED <<now, retained, life, buffer, open, waiting, batch, backfilled, stamped, upto, lost>>

Dropped == importer' = "idle" /\ cursor' = 0 /\ upto' = 0 /\ rows' = NoRows

\* The task dies with the lock in its hands.
ImportFailsSlip ==
    /\ importer \in {"adding", "stamping"} /\ holder = "importer"
    /\ Dropped
    /\ UNCHANGED <<now, retained, life, buffer, open, waiting, holder, batch, disk, lost>>

\* A write that fails ends the task: it is tried again at the next start.
ImportFails ==
    /\ importer \in {"adding", "stamping"} /\ holder = "importer"
    /\ Dropped /\ holder' = "none"
    /\ UNCHANGED <<now, retained, life, buffer, open, waiting, batch, disk, lost>>

\* The marker, whatever the recorder answered.
ImportMarks ==
    /\ importer = "marking" /\ holder = "none"
    /\ backfilled' = (backfilled \/ open)
    /\ importer' = "signals" /\ cursor' = 0 /\ upto' = 0
    /\ UNCHANGED <<now, retained, life, buffer, open, waiting, holder, batch, table, stamped, rows, lost>>

\* `async_backfill_signals` does nothing when the signals are those last stamped.
StampBegins ==
    /\ importer = "signals" /\ holder = "none"
    /\ IF open /\ stamped = signals
       THEN importer' = "draining" /\ timer' = FALSE /\ UNCHANGED stamped
       ELSE IF signals = NoSignals
       THEN /\ importer' = "draining" /\ timer' = FALSE
            /\ stamped' = IF open THEN NoSignals ELSE stamped
       ELSE importer' = "flushing" /\ timer' = FALSE /\ UNCHANGED stamped
    /\ UNCHANGED <<now, retained, life, watching, pending, recorded, open, waiting, holder, batch,
                   table, backfilled, cursor, upto, rows, lost>>

\* `async_transitions` flushes before it reads, for the stamps and for the model.
ReadFlushes ==
    /\ importer \in {"flushing", "draining"} /\ holder = "none"
    /\ Take("importer")
    /\ importer' = IF holder' = "importer" THEN importer
                   ELSE IF importer = "flushing" THEN "holding" ELSE "learning"
    /\ UNCHANGED <<now, retained, life, watching, timer, recorded, open, waiting, disk, cursor,
                   upto, rows, lost>>

ReadFlushed ==
    /\ importer \in {"flushing", "draining"} /\ holder = "importer"
    /\ WriteEnds
    /\ holder' = "none" /\ batch' = <<>>
    /\ importer' = IF importer = "flushing" THEN "holding" ELSE "learning"
    /\ UNCHANGED <<now, retained, life, buffer, open, waiting, backfilled, stamped, cursor, upto, rows>>

\* The rows to stamp; with none, nothing is remembered.
StampHolds ==
    /\ importer = "holding" /\ holder = "none"
    /\ IF Held = {} \/ ~open
       THEN importer' = "draining" /\ timer' = FALSE /\ UNCHANGED rows
       ELSE importer' = "asking" /\ rows' = table /\ UNCHANGED timer
    /\ UNCHANGED <<now, retained, life, watching, pending, recorded, open, waiting, holder, batch,
                   disk, cursor, upto, lost>>

\* What the signals said at each row's moment, as far as the recorder goes back; unknown
\* where it does not, and everywhere when it cannot answer.
StampAsks ==
    /\ importer = "asking"
    /\ \E known \in {{}, retained} :
           rows' = [r \in Rows |-> IF rows[r] = "absent" THEN "absent"
                                   ELSE IF r \in known THEN "said" ELSE "unknown"]
    /\ importer' = "stamping"
    /\ UNCHANGED <<now, retained, life, buffer, open, waiting, holder, batch, disk, cursor, upto, lost>>

StampWrites ==
    /\ importer = "stamping" /\ holder = "none"
    /\ IF open
       THEN holder' = "importer" /\ UNCHANGED importer
       ELSE importer' = "sealing" /\ UNCHANGED holder
    /\ UNCHANGED <<now, retained, life, buffer, open, waiting, batch, disk, cursor, upto, rows, lost>>

\* Only rows that are held are rewritten, whatever their context was.
Stamped ==
    /\ importer = "stamping" /\ holder = "importer"
    /\ table' = [r \in Rows |-> IF table[r] # "absent" /\ rows[r] # "absent" THEN rows[r] ELSE table[r]]
    /\ holder' = "none" /\ importer' = "sealing"
    /\ UNCHANGED <<now, retained, life, buffer, open, waiting, batch, backfilled, stamped, cursor,
                   upto, rows, lost>>

StampSeals ==
    /\ importer = "sealing" /\ holder = "none"
    /\ stamped' = IF open THEN signals ELSE stamped
    /\ importer' = "draining" /\ timer' = FALSE /\ rows' = NoRows
    /\ UNCHANGED <<now, retained, life, watching, pending, recorded, open, waiting, holder, batch,
                   table, backfilled, cursor, upto, lost>>

\* `async_rebuild` reads everything and learns from it.
Learn ==
    /\ importer = "learning" /\ holder = "none"
    /\ importer' = "idle"
    /\ UNCHANGED <<now, retained, life, buffer, open, waiting, holder, batch, disk, cursor, upto,
                   rows, lost>>

-----------------------------------------------------------------------------
(* Life.                                                                    *)

\* `async_start` opens the journal; the watcher and the catch-up begin once Home
\* Assistant has started, which a reload finds done.
Start ==
    /\ up = "down" /\ lives < MaxLives
    /\ up' = "on" /\ lives' = lives + 1
    /\ signals' \in SignalSets
    /\ open' = TRUE /\ watching' = TRUE /\ importer' = "begin"
    /\ UNCHANGED <<now, retained, pending, timer, recorded, waiting, holder, batch, disk, cursor,
                   upto, rows, lost>>

\* `async_stop`: the watcher first, then `async_close`, which flushes.
Stop ==
    /\ up = "on"
    /\ up' = "flushing" /\ watching' = FALSE /\ timer' = FALSE
    /\ UNCHANGED <<now, retained, lives, signals, pending, recorded, open, waiting, holder, batch,
                   disk, import, lost>>

CloseFlushes ==
    /\ up = "flushing" /\ holder = "none"
    /\ Take("closer")
    /\ up' = IF holder' = "closer" THEN up ELSE "closing"
    /\ UNCHANGED <<now, retained, lives, signals, watching, timer, recorded, open, waiting, disk,
                   import, lost>>

CloseFlushed ==
    /\ up = "flushing" /\ holder = "closer"
    /\ WriteEnds
    /\ holder' = "none" /\ batch' = <<>>
    /\ up' = "closing"
    /\ UNCHANGED <<now, retained, lives, signals, buffer, open, waiting, backfilled, stamped, import>>

\* The connection is taken away without waiting for who uses it.
CloseSlip ==
    /\ up = "closing"
    /\ open' = FALSE /\ up' = "closed"
    /\ UNCHANGED <<now, retained, lives, signals, buffer, waiting, holder, batch, disk, import, lost>>

\* The connection is taken away under the lock.
Close ==
    /\ up = "closing" /\ holder = "none"
    /\ open' = FALSE /\ up' = "closed"
    /\ UNCHANGED <<now, retained, lives, signals, buffer, waiting, holder, batch, disk, import, lost>>

\* The entry is unloaded, and its background task with it; or also removed, with the
\* database (`async_delete`).  What waited for the lock has had it, in its turn.
Unloaded ==
    /\ up = "closed" /\ waiting = 0
    /\ Dropped
    /\ \/ up' = "down" /\ UNCHANGED disk
       \/ /\ up' = "removed"
          /\ table' = NoRows /\ backfilled' = FALSE /\ stamped' = NoMark
    /\ UNCHANGED <<now, retained, lives, signals, buffer, open, waiting, holder, batch, lost>>

\* The process dies; a write in progress may have been made.
Crash ==
    /\ up \in {"on", "flushing", "closing", "closed"} /\ lives < MaxLives
    /\ \/ UNCHANGED table
       \/ batch # <<>> /\ table' = Inserted(LiveContext, Range(batch))
    /\ lost' = lost \cup {r \in recorded : table'[r] = "absent"}
    /\ up' = "down" /\ open' = FALSE /\ watching' = FALSE /\ timer' = FALSE
    /\ pending' = <<>> /\ batch' = <<>> /\ waiting' = 0 /\ holder' = "none"
    /\ Dropped
    /\ UNCHANGED <<now, retained, lives, signals, recorded, backfilled, stamped>>

\* The recorder forgets what is older than it keeps.
Purge ==
    /\ \E old \in retained :
           /\ retained' = {r \in retained : r > old}
           /\ \A r \in retained : r >= old
    /\ UNCHANGED <<now, life, buffer, open, waiting, holder, batch, disk, import, lost>>

Writes == Flush \/ Flushed
Imports ==
    \/ ImportBegins \/ ImportReads \/ ImportAdds \/ ImportAdded \/ ImportFails \/ ImportMarks
    \/ StampBegins \/ ReadFlushes \/ ReadFlushed \/ StampHolds \/ StampAsks \/ StampWrites
    \/ Stamped \/ StampSeals \/ Learn
Closes == CloseFlushes \/ CloseFlushed \/ Close \/ Unloaded

Next ==
    \/ Transition \/ TimerFires \/ Writes \/ Imports
    \/ Start \/ Stop \/ Closes \/ Crash \/ Purge

Spec == Init /\ [][Next]_vars

\* A timer fires; the executor finishes; a lock serves its waiters in turn.
FairSpec ==
    /\ Spec
    /\ WF_vars(TimerFires) /\ WF_vars(Flushed)
    /\ SF_vars(Flush) /\ SF_vars(Imports) /\ SF_vars(Closes)

-----------------------------------------------------------------------------
(* Properties.                                                              *)

\* Every transition handed over is in the buffer, in the write under way, in the
\* database, or known to be lost; never in the buffer and in a write at once.
NothingSlipsAway ==
    /\ recorded \subseteq Range(pending) \cup Range(batch) \cup Held \cup lost
                          \cup (IF up = "removed" THEN Rows ELSE {})
    /\ Range(pending) \cap Range(batch) = {}

\* While anything is buffered, something will flush it: the timer, a flush that waits
\* for the lock, a reader that flushes first, or the close.
BufferIsAttended ==
    pending # <<>> => timer \/ waiting > 0 \/ up = "flushing" \/ importer \in {"flushing", "draining"}

\* Nothing is written once the integration was removed, by whatever was under way:
\* "a behavioural record of a household should not survive".
RemovedStaysRemoved ==
    up = "removed" => /\ Held = {} /\ ~open
                      /\ holder = "none" /\ importer = "idle" /\ pending = <<>>

\* What was recorded comes to rest: written, or lost with a report, or removed.
TransitionsAreWritten ==
    \A r \in Rows : (r \in recorded) ~> (table[r] # "absent" \/ r \in lost \/ up = "removed")

\* A row stamped is "exactly what the live watcher would have written": what the signals
\* are known to have said is not replaced by ignorance.
StampsKeepWhatWasSaid ==
    [][\A r \in Rows : table[r] = "said" => table'[r] \in {"said", "absent"}]_vars

\* Once the import is marked done, what the recorder had is in the journal.
MarkedMeansImported ==
    [][backfilled' /\ ~backfilled => \A r \in retained : r <= upto => table[r] # "absent"]_vars
=============================================================================
