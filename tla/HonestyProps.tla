---------------------------- MODULE HonestyProps ----------------------------
(***************************************************************************)
(* What the honesty check may conclude, as properties of Honesty.          *)
(***************************************************************************)
EXTENDS Honesty

(* Whatever the feed does while frozen (a resync, a new session, a full    *)
(* queue), the replayed copy shows the venue's book at its id              *)
(* (live.py, _honesty_snapshot).                                           *)
CopyFaithful == Faithful(copy)

(* A level can differ from the REST answer only because it, or a better    *)
(* one that pushes it out of the top, changed between the answer's id and  *)
(* the id where the copy stopped: at the very id of the answer a mismatch  *)
(* would be corruption, as the FAIL verdict says.                          *)
OnlyOvershootDiffers ==
  report.kind = "compared" =>
    \A p \in report.mismatches :
      \E i \in restId .. (restId + report.ahead), q \in Level :
        Rank[q] <= Rank[p] /\ History[i][q] # History[restId][q]

(* Thawing throws the held diffs away, yet the live book stays faithful:   *)
(* the diff that comes next is a gap, never applied over the hole.         *)
LiveFaithful == Faithful(book)

(* The report of a live run: its fields are what the code can write, and    *)
(* it blames only the ids past the answer.                                  *)
ReportInv == HTypeOK /\ OnlyOvershootDiffers
=============================================================================
