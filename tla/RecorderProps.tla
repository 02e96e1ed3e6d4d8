--------------------------- MODULE RecorderProps ----------------------------
(***************************************************************************)
(* What the tape is good for, at every moment a reader may open it.        *)
(***************************************************************************)
EXTENDS Recorder

\* The disk changes only while a batch is written: a tape is judged then, and
\* is the same tape until the next batch, whoever reads it and whenever.
Written == rpc \in {"flush", "closing"}

(* Whatever was on disk when the recorder crashed, failed, was stopped or  *)
(* was started again, the replay of the tape applies every event it        *)
(* selects, and every book it yields is the venue's at its id              *)
(* (reconstruct.py, _select and _iter_synced_books).                       *)
TapeReplays ==
  Written =>
    LET r == Replay(disk)
    IN  ~r.refused /\ \A i \in DOMAIN r.books : Faithful(r.books[i])

(* A snapshot taken at an id between two diffs, of which the venue made no *)
(* change: the diff after it continues the one before, not the snapshot.   *)
Stranded(tape) == \E s \in tape.snapshot, d \in tape.depth : d.pu < s.u /\ s.u < d.U

(* No diff on disk is ever unusable: snapshots are written before the      *)
(* diffs that need them, so however a batch is cut a replay drops none     *)
(* but those that a later snapshot strands and what follows them           *)
(* (parquet.py, _write_batch; reconstruct.py, _select).                    *)
NothingOffChain(selected) == selected.offChain > 0 => Stranded(disk)

(* The integrity check finds no break in any tape that was written, not    *)
(* even where the replay drops a stranded diff: it asks for the diff       *)
(* before or some snapshot, the replay for the latest of the two           *)
(* (quality.py, _chain against reconstruct.py, _select).                   *)
ChainIsUnbroken == Breaks(disk) = 0

(* A book rebuilt at an update id is the venue's book, and no older than   *)
(* the id (reconstruct.py, reconstruct_book_at_update_id).                 *)
AlignedIsFaithful ==
  \A R \in UpdateId :
    LET a == BookAtId(disk, R)
    IN  a.ok => a.book.last >= R /\ Faithful(a.book)

(* A book rebuilt at an event time is the venue's and looks at nothing     *)
(* later.  Of the diffs recorded by then it lacks only those stamped before *)
(* the snapshot it starts from, which a REST answer's own stamp can follow *)
(* (reconstruct.py, reconstruct_book).                                     *)
TimedIsFaithful ==
  \A T \in UpdateId :
    LET b == BookAtTime(disk, T)
    IN  b.ok =>
          /\ b.book.last <= T /\ Faithful(b.book)
          /\ \A d \in disk.depth :
               d.ts <= T /\ d.u > b.book.last =>
                 \E s \in disk.snapshot : s.u = b.book.last /\ d.ts <= s.ts

(* The clock a replay runs on strictly increases, and no stamp moves       *)
(* further back than the events after it force (reconstruct.py, _restamp). *)
ReplayClock(selected) ==
  LET kept == selected.kept
      ts   == [i \in DOMAIN kept |-> kept[i].ts]
      out  == Restamp(ts)
  IN  \A i \in DOMAIN ts :
        /\ i > 1 => out[i - 1] < out[i]
        /\ out[i] = Min({ts[j] - (j - i) : j \in i..Len(ts)})

(* Rows of a run are lost only at its end: once a write has failed, no     *)
(* later row of the run reaches the disk over the hole                     *)
(* (record_l2.py, the finally clause; parquet.py, flush_async).            *)
NothingAfterAHole == [][("failed" \in lost /\ run' = run) => disk' = disk]_rvars

(* A run that ends by itself and says nothing went wrong has everything it *)
(* took from the queue on disk: a replay that drops no stranded diff ends  *)
(* where its book stands or further on (record_l2.py, `error` and          *)
(* _end_reconstruct_match).                                                *)
SilenceMeansComplete ==
  rpc = "done" /\ ~error /\ book.last # NoId =>
    LET r == Replay(disk)
    IN  /\ lost \subseteq {"unread"}
        /\ \E row \in disk.snapshot \cup disk.depth : row.u = book.last
        /\ r.book.last >= book.last \/ Stranded(disk)
        /\ r.book.last = book.last =>
             \A p \in book.known \cap r.book.known : r.book.levels[p] = book.levels[p]

(* The order of a tape, as its three readers see it: the replay drops       *)
(* nothing that is not stranded, the integrity check finds no break, and    *)
(* the clock runs forward.                                                  *)
TapeInOrder ==
  Written =>
    LET selected == Select(disk)
    IN  NothingOffChain(selected) /\ ChainIsUnbroken /\ ReplayClock(selected)

(* A book rebuilt from the tape, at an id or at a time, is the venue's.     *)
RebuiltIsFaithful == Written => AlignedIsFaithful /\ TimedIsFaithful

(* The recorder's own state, and what its silence means.                    *)
RecorderInv == RTypeOK /\ SilenceMeansComplete
=============================================================================
