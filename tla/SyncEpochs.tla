----------------------------- MODULE SyncEpochs -----------------------------
(***************************************************************************)
(* DepthSynchronizer with its own buffer, as tests/unit/                   *)
(* test_depth_synchronizer.py drives it: a caller hands it every diff that *)
(* reaches it, installs snapshots when they come, and applies to its book  *)
(* what decide() and install_snapshot() tell it to apply.  The feed never  *)
(* lets that buffer fill, so this is where the replay of held diffs, the   *)
(* full buffer and a gap in the middle of a replay happen.                 *)
(***************************************************************************)
EXTENDS DepthSync

VARIABLES
  head,         (* venue: last update id                                   *)
  batchEnd,     (* venue: u of the last diff message it closed             *)
  sync,         (* the synchronizer                                        *)
  book,         (* the caller's book                                       *)
  refused       (* history: decisions to apply that the book refused       *)

vars == <<head, batchEnd, sync, book, refused>>

TypeOK ==
  /\ head \in UpdateId /\ batchEnd \in 0..head
  /\ sync \in Synchronizer /\ Len(sync.buffer) <= MaxBuffer
  /\ book \in Book /\ refused \subseteq Msg

Init ==
  /\ head = 0 /\ batchEnd = 0 /\ sync = NoEpoch /\ book = EmptyBook /\ refused = {}

VenueUpdate ==
  /\ head < MaxId
  /\ head' = head + 1
  /\ UNCHANGED <<batchEnd, sync, book, refused>>

\* A diff closes and does not reach the caller.
Lost ==
  /\ batchEnd < head
  /\ batchEnd' = head
  /\ UNCHANGED <<head, sync, book, refused>>

\* The caller does what a decision tells it: its book, and the diffs to apply
\* that the book refused.
Obey(caller, d, decision) ==
  CASE decision = "apply" ->
         [book    |-> ApplyDelta(caller.book, d),
          refused |-> IF Verdict(caller.book, d) = "applied" THEN caller.refused
                      ELSE caller.refused \cup {d}]
    [] decision = "resync" -> [caller EXCEPT !.book = MarkUnsynced(@)]
    [] OTHER -> caller

CallerBecomes(caller) == book' = caller.book /\ refused' = caller.refused

\* A diff closes, reaches the caller and is decided upon.
Decided ==
  /\ batchEnd < head
  /\ batchEnd' = head
  /\ \E U \in (batchEnd + 1) .. head :
       LET d == Diff(U, head, batchEnd)
       IN  /\ IsDiff(d)
           /\ sync' = Decide(sync, d)
           /\ CallerBecomes(Obey([book |-> book, refused |-> refused], d, Decision(sync, d)))
  /\ UNCHANGED head

\* The caller applies the snapshot and then the returned decisions in order.
FollowTable(caller, decisions) ==
  LET at[i \in 0..Len(decisions)] ==
        IF i = 0 THEN caller ELSE Obey(at[i - 1], decisions[i].diff, decisions[i].decision)
  IN  at

Follow(caller, decisions) == FollowTable(caller, decisions)[Len(decisions)]

\* A snapshot, asked for at any time, arrives.
SnapshotArrives ==
  /\ \E L \in 0..head :
       /\ sync' = InstallSnapshot(sync, L)
       /\ CallerBecomes(Follow([book |-> ApplySnapshot(L), refused |-> refused], Decisions(sync, L)))
  /\ UNCHANGED <<head, batchEnd>>

Disconnected ==
  /\ sync' = OnDisconnect
  /\ book' = MarkUnsynced(book)
  /\ UNCHANGED <<head, batchEnd, refused>>

Next == VenueUpdate \/ Lost \/ Decided \/ SnapshotArrives \/ Disconnected

Spec == Init /\ [][Next]_vars

-----------------------------------------------------------------------------
(* However many diffs were held, dropped by a full buffer, cut off by a    *)
(* gap in the middle of a replay and replayed once more, the book the      *)
(* caller builds shows the venue's quantities at its id                    *)
(* (sync.py, install_snapshot and decide).                                 *)
ReplayFaithful == Faithful(book)

(* The book never refuses what the synchronizer said to apply: the two     *)
(* copies of the sequence rules agree also across a replay.                *)
NothingRefused == refused = {}

(* What is held is what came after the gap or the disconnection, in order: *)
(* a held diff never comes before one already held (the leftovers of a     *)
(* replay are kept behind nothing).                                        *)
HeldInOrder ==
  \A i, j \in 1..Len(sync.buffer) :
    i < j => sync.buffer[i].u <= sync.buffer[j].pu

(* An epoch stands where the book stands: after a replay that met no gap   *)
(* the next diff is judged from the last diff of the replay.               *)
EpochIsBook ==
  ~Awaiting(sync) => /\ sync.validator.last = book.last
                     /\ sync.validator.synced = book.seqReady
                     /\ book.isSynced

(* What holds of the synchronizer's own state and of its caller's beside    *)
(* the book's quantities.                                                   *)
SyncInv == TypeOK /\ NothingRefused /\ HeldInOrder /\ EpochIsBook
=============================================================================
