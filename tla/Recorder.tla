------------------------------ MODULE Recorder ------------------------------
(***************************************************************************)
(* scripts/record_l2.py over storage/parquet.py: the loop takes events     *)
(* from the feed's queue into its book and into a buffer, now and then     *)
(* adds a copy of its book, and hands the buffer to a worker thread that   *)
(* writes one part file after another.  A signal, a full disk, a failed    *)
(* write or a crash may end the run anywhere; capture_loop.sh and its      *)
(* supervisor start the next one, in a directory of its own, and the       *)
(* readers join the directories into one tape.                             *)
(***************************************************************************)
EXTENDS Publisher, Tape

CONSTANTS
  BufferSize,   (* --buffer-size: rows that force a flush                  *)
  Periodic,     (* --snapshot-interval is positive                         *)
  MaxQueue,     (* bound: events waiting in the queue                      *)
  MaxAnswers,   (* bound: REST snapshots published in all                  *)
  MaxRuns       (* bound: runs of the recorder                             *)

ASSUME RecorderAssumption ==
  /\ BufferSize \in Nat \ {0} /\ MaxQueue \in Nat \ {0} /\ MaxRuns \in Nat \ {0}
  /\ MaxAnswers \in Nat /\ Periodic \in BOOLEAN

VARIABLES
  rpc,          (* await point of _record, see Rpc                         *)
  run,          (* bound: number of this run                               *)
  answers,      (* bound: REST snapshots published so far                  *)
  shutdown,     (* the shutdown event: a signal has come                   *)
  error,        (* `error` of the run                                      *)
  book,         (* the recorder's book                                     *)
  bookTs,       (* its ts_event_ns                                         *)
  rows,         (* rows buffered by type, `pending` in all                 *)
  batch,        (* rows the worker has still to write                      *)
  disk,         (* rows in part files, of all runs                         *)
  lost          (* history: how rows of this run were lost                 *)

writerVars == <<rows, batch, disk>>
bookVars == <<book, bookTs>>
rvars == <<streamVars, answers, rpc, run, shutdown, error, bookVars, writerVars, lost>>

(* "run" (top of the loop), "wait" (for an event or a timeout), "flush"    *)
(* (for the worker), "ending" (out of the loop, the feed still running),   *)
(* "closing" (close() is writing), "done" (capture_meta.json written),     *)
(* "dead" (the process ended without it).                                  *)
Rpc == {"run", "wait", "flush", "ending", "closing", "done", "dead"}

\* Mutant: the diffs are written before the snapshots they follow.
TypeDiffsFirst == <<"depth", "snapshot", "trade">>

Type == <<"snapshot", "depth", "trade">>      \* the order of _write_batch
NoRows == [snapshot |-> {}, depth |-> {}, trade |-> {}]
Add(r, t, x) == [r EXCEPT ![t] = @ \cup {x}]
Join(r, s) == [t \in DOMAIN r |-> r[t] \cup s[t]]
Pending(r) == Cardinality(r.snapshot) + Cardinality(r.depth) + Cardinality(r.trade)

RTypeOK ==
  /\ head \in UpdateId /\ trades \in 0..MaxTrades /\ Len(queue) <= MaxQueue
  /\ rpc \in Rpc /\ run \in 1..MaxRuns /\ shutdown \in BOOLEAN /\ error \in BOOLEAN
  /\ book \in Book /\ bookTs \in UpdateId
  /\ Pending(rows) < BufferSize + 2
  /\ rpc \notin {"flush", "closing"} => batch = NoRows
  /\ lost \subseteq {"unread", "failed", "unflushed"}

RInit ==
  /\ StreamInit
  /\ answers = 0
  /\ rpc = "run" /\ run = 1 /\ shutdown = FALSE /\ error = FALSE
  /\ book = EmptyBook /\ bookTs = 0
  /\ rows = NoRows /\ batch = NoRows /\ disk = NoRows /\ lost = {}

-----------------------------------------------------------------------------
\* One turn of the capture loop after the event, if any, is in: the book, the
\* buffered row, the periodic copy, and the flush when it is due.

RowOf(e) ==
  IF e.kind = "snapshot" THEN SnapshotRow(ApplySnapshot(e.u), e.ts) ELSE e

Buffered(r, events) ==
  IF events = << >> THEN r ELSE Add(r, Head(events).kind, RowOf(Head(events)))

Copied(r, b, ts) == Add(r, "snapshot", SnapshotRow(b, ts))

\* flush_async up to the worker: _check_free_space may raise and keep the
\* buffer, _take_batch empties it.
Flush(r) ==
  \/ /\ rows' = NoRows /\ batch' = r /\ rpc' = "flush" /\ UNCHANGED error
  \/ /\ Pending(r) > 0
     /\ rows' = r /\ rpc' = "ending" /\ error' = TRUE /\ UNCHANGED batch

Turn(events) ==
  LET moved == events # << >> /\ Head(events).kind # "trade"
      b     == IF moved THEN ApplyEvent(book, Head(events)) ELSE book
      ts    == IF moved THEN Head(events).ts ELSE bookTs
      taken == Buffered(rows, events)
  IN  /\ book' = b /\ bookTs' = ts
      /\ \E r \in {taken} \cup (IF Periodic /\ b.isSynced THEN {Copied(taken, b, ts)} ELSE {}) :
           \/ Flush(r)
           \/ /\ Pending(r) < BufferSize
              /\ rows' = r /\ rpc' = "run" /\ UNCHANGED <<batch, error>>
      /\ UNCHANGED <<run, shutdown, disk, lost>>

\* get_nowait() finds an event, or the get() that waited for one does.
RecordEvent ==
  /\ queue # << >>
  /\ rpc = "wait" \/ (rpc = "run" /\ ~shutdown)
  /\ queue' = Tail(queue)
  /\ Turn(<<Head(queue)>>)
  /\ UNCHANGED <<head, closed, trades, tip, newest, answers>>

WaitForEvent ==
  /\ rpc = "run" /\ ~shutdown /\ queue = << >>
  /\ rpc' = "wait"
  /\ UNCHANGED <<streamVars, answers, run, shutdown, error, bookVars, writerVars, lost>>

\* The wait ends with the deadline, the next copy or the next flush.
WaitTimesOut ==
  /\ rpc = "wait"
  /\ Turn(<< >>)
  /\ UNCHANGED <<streamVars, answers>>

\* The deadline or the signal; the REST check that follows an unsignalled end
\* reads only, and may raise.
EndLoop ==
  /\ rpc = "run"
  /\ rpc' = "ending"
  /\ \/ UNCHANGED error
     \/ ~shutdown /\ book.isSynced /\ error' = TRUE
  /\ UNCHANGED <<streamVars, answers, run, shutdown, bookVars, writerVars, lost>>

-----------------------------------------------------------------------------
\* The worker thread, or close(): _write_batch.

Writing == rpc \in {"flush", "closing"} /\ batch # NoRows
NextType == Type[CHOOSE i \in DOMAIN Type :
                   batch[Type[i]] # {} /\ \A j \in 1..(i - 1) : batch[Type[j]] = {}]

\* One part file: the rows of one type and one date, complete or not at all.
WritePart ==
  /\ Writing
  /\ \E midnight \in UpdateId :
       LET part == {r \in batch[NextType] : r.ts <= midnight}
       IN  /\ part # {}
           /\ disk' = [disk EXCEPT ![NextType] = @ \cup part]
           /\ batch' = [batch EXCEPT ![NextType] = @ \ part]
  /\ UNCHANGED <<streamVars, answers, rpc, run, shutdown, error, bookVars, rows, lost>>

\* Mutant: a failed write is noted and the loop goes on.
WriteFailsQuietly ==
  /\ Writing
  /\ batch' = NoRows /\ lost' = lost \cup {"failed"}
  /\ error' = TRUE
  /\ rpc' = IF rpc = "flush" THEN "run" ELSE "dead"
  /\ UNCHANGED <<streamVars, answers, run, shutdown, bookVars, rows, disk>>

\* A failed write raises; what is left of the batch is not retried.
WriteFails ==
  /\ Writing
  /\ batch' = NoRows /\ lost' = lost \cup {"failed"}
  /\ error' = TRUE
  /\ rpc' = IF rpc = "flush" THEN "ending" ELSE "dead"
  /\ UNCHANGED <<streamVars, answers, run, shutdown, bookVars, rows, disk>>

BatchWritten ==
  /\ rpc \in {"flush", "closing"} /\ batch = NoRows
  /\ rpc' = IF rpc = "flush" THEN "run" ELSE "done"
  /\ UNCHANGED <<streamVars, answers, run, shutdown, error, bookVars, writerVars, lost>>

-----------------------------------------------------------------------------
\* Mutant: a buffer dropped for want of space is no error.
FinishQuietly ==
  /\ rpc = "ending"
  /\ queue' = << >>
  /\ LET unread == IF queue = << >> THEN {} ELSE {"unread"}
     IN  \/ /\ batch' = rows /\ rows' = NoRows /\ rpc' = "closing"
            /\ lost' = lost \cup unread /\ UNCHANGED error
         \/ /\ Pending(rows) > 0
            /\ rows' = NoRows /\ rpc' = "done"
            /\ lost' = lost \cup unread \cup {"unflushed"}
            /\ UNCHANGED <<error, batch>>
  /\ UNCHANGED <<head, closed, trades, tip, newest, answers, run, shutdown, bookVars, disk>>

\* The end of a run: feed.stop() and then close(), whose free-space check may
\* raise; that one is caught, and the buffer is dropped.
Finish ==
  /\ rpc = "ending"
  /\ queue' = << >>
  /\ LET unread == IF queue = << >> THEN {} ELSE {"unread"}
     IN  \/ /\ batch' = rows /\ rows' = NoRows /\ rpc' = "closing"
            /\ lost' = lost \cup unread /\ UNCHANGED error
         \/ /\ Pending(rows) > 0
            /\ rows' = NoRows /\ rpc' = "done"
            /\ lost' = lost \cup unread \cup {"unflushed"}
            /\ error' = TRUE /\ UNCHANGED batch
  /\ UNCHANGED <<head, closed, trades, tip, newest, answers, run, shutdown, bookVars, disk>>

\* The first signal sets the event, which the top of the loop reads.
Signal ==
  /\ rpc \in {"run", "wait", "flush", "ending"} /\ ~shutdown
  /\ shutdown' = TRUE
  /\ UNCHANGED <<streamVars, answers, rpc, run, error, bookVars, writerVars, lost>>

\* A second signal, a kill or a power cut.
Crash ==
  /\ rpc \notin {"done", "dead"}
  /\ rpc' = "dead" /\ rows' = NoRows /\ batch' = NoRows
  /\ UNCHANGED <<streamVars, answers, run, shutdown, error, bookVars, disk, lost>>

\* The supervisor starts the next run: a new process, feed and connection.
NextRun ==
  /\ rpc \in {"done", "dead"} /\ run < MaxRuns
  /\ run' = run + 1 /\ rpc' = "run" /\ shutdown' = FALSE /\ error' = FALSE
  /\ book' = EmptyBook /\ bookTs' = 0 /\ lost' = {}
  /\ queue' = << >> /\ tip' = NoTip /\ newest' = BatchEnd
  /\ UNCHANGED <<head, closed, trades, answers, writerVars>>

-----------------------------------------------------------------------------
\* The venue, and the feed while it runs.

VenueStep ==
  /\ VenueMoves
  /\ UNCHANGED <<answers, rpc, run, shutdown, error, bookVars, writerVars, lost>>

FeedStep ==
  /\ rpc \in {"run", "wait", "flush", "ending"} /\ Len(queue) < MaxQueue
  /\ \/ PublishSnapshot /\ answers < MaxAnswers /\ answers' = answers + 1
     \/ (PublishDiff \/ PublishTrade) /\ UNCHANGED answers
  /\ UNCHANGED <<rpc, run, shutdown, error, bookVars, writerVars, lost>>

LoopStep == RecordEvent \/ WaitForEvent \/ WaitTimesOut \/ EndLoop \/ Finish
WriteStep == WritePart \/ WriteFails \/ BatchWritten
RunStep == Signal \/ Crash \/ NextRun

RNext == LoopStep \/ WriteStep \/ RunStep \/ VenueStep \/ FeedStep

RSpec == RInit /\ [][RNext]_rvars
=============================================================================
