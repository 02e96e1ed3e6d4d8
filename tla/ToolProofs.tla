----------------------------- MODULE ToolProofs -----------------------------
(***************************************************************************)
(* Theorems about the two tools that take down a live feed.                *)
(*                                                                         *)
(* The recorder: for every future of the venue, every buffer size, queue   *)
(* and number of runs, and wherever a run fails, crashes or is stopped,    *)
(* the tape on disk replays, a book rebuilt from it is the venue's, a run  *)
(* that ends in silence is complete, and nothing is written over a hole.   *)
(* The readers come first (sorting, _select, _iter_synced_books, _chain,   *)
(* the two reconstructions, _restamp), as functions of a good tape; then   *)
(* that the recorder never leaves any other tape.                          *)
(*                                                                         *)
(* The latency audit: it stays within its limits, misses no hole, reads    *)
(* the clock around the record, calls adjusted what is true up to a round  *)
(* trip and gives percentiles in order, for every number of events,        *)
(* samples and connections.                                                *)
(***************************************************************************)
EXTENDS RecorderProps, LatencyAudit, BookProofs, SequenceTheorems, FiniteSetTheorems

-----------------------------------------------------------------------------
\* Sorting.

\* A relation that compares any two rows, whatever ties it leaves.
Compares(order, S) ==
  /\ \A r, s \in S : <<r, s>> \in order \/ <<s, r>> \in order
  /\ \A r, s, t \in S : <<r, s>> \in order /\ <<s, t>> \in order => <<r, t>> \in order

(* A finite set that is not empty has a first row.                         *)
LEMMA FirstIsFirst ==
  ASSUME NEW S, IsFiniteSet(S), S # {}, NEW order, Compares(order, S)
  PROVE  FirstOf(S, order) \in S /\ \A s \in S : <<FirstOf(S, order), s>> \in order
<1>1. PICK n \in Nat : ExistsBijection(1..n, S)
  BY FS_NatBijection
<1>2. PICK f \in [1..n -> S] : \A s \in S : \E i \in 1..n : f[i] = s
  BY <1>1 DEF ExistsBijection, Bijection, Surjection
<1>3. n >= 1
  BY <1>2
<1> DEFINE Q == {k \in 0..(n - 1) :
                   \E j \in 1..(k + 1) : \A i \in 1..(k + 1) : <<f[j], f[i]>> \in order}
<1>4. 0 \in Q
  <2>1. <<f[1], f[1]>> \in order
    BY <1>3 DEF Compares
  <2> QED
    BY <1>3, <2>1
<1>5. ASSUME NEW k \in 1..(n - 1), k - 1 \in Q PROVE k \in Q
  <2>1. PICK j \in 1..k : \A i \in 1..k : <<f[j], f[i]>> \in order
    BY <1>5
  <2>2. /\ k + 1 \in 1..n /\ j \in 1..n /\ j \in 1..(k + 1) /\ k + 1 \in 1..(k + 1)
        /\ \A i \in 1..(k + 1) : i \in 1..n /\ (i \in 1..k \/ i = k + 1)
    OBVIOUS
  <2>3. f[j] \in S /\ f[k + 1] \in S /\ \A i \in 1..(k + 1) : f[i] \in S
    BY <2>2
  <2>4. CASE <<f[j], f[k + 1]>> \in order
    <3>1. \A i \in 1..(k + 1) : <<f[j], f[i]>> \in order
      BY <2>1, <2>2, <2>4
    <3> QED
      BY <2>2, <3>1
  <2>5. CASE <<f[j], f[k + 1]>> \notin order
    <3>1. <<f[k + 1], f[j]>> \in order /\ <<f[k + 1], f[k + 1]>> \in order
      BY <2>3, <2>5, Zenon DEF Compares
    <3>2. \A i \in 1..(k + 1) : <<f[k + 1], f[i]>> \in order
      BY <2>1, <2>2, <2>3, <3>1, Zenon DEF Compares
    <3> QED
      BY <2>2, <3>2
  <2> QED
    BY <2>4, <2>5
<1> HIDE DEF Q
<1>6. \A k \in 0..(n - 1) : k \in Q
  <2>1. n - 1 \in Nat
    BY <1>3
  <2> QED
    BY <1>4, <1>5, <2>1, CountUp
<1>7. PICK j \in 1..n : \A i \in 1..n : <<f[j], f[i]>> \in order
  <2>1. n - 1 \in Q /\ (n - 1) + 1 = n
    BY <1>3, <1>6
  <2> QED
    BY <2>1 DEF Q
<1>8. f[j] \in S /\ \A s \in S : <<f[j], s>> \in order
  BY <1>2, <1>7
<1> QED
  BY <1>8, Zenon DEF FirstOf

\* The first k places of a sort.
SortedSoFar(q, k, S, order) ==
  /\ q \in Seq(S) /\ Len(q) = k
  /\ Cardinality(Range(q)) = k
  /\ \A i, j \in 1..k : i < j => q[i] # q[j] /\ <<q[i], q[j]>> \in order
  /\ \A i \in 1..k, r \in S \ Range(q) : <<q[i], r>> \in order

(* One more row goes to its place.                                         *)
LEMMA SortsOn ==
  ASSUME NEW S, IsFiniteSet(S), NEW order, Compares(order, S),
         NEW k \in Nat, k < Cardinality(S), NEW q, SortedSoFar(q, k, S, order)
  PROVE  SortedSoFar(SortedOn(q, S, order), k + 1, S, order)
<1> DEFINE rest == S \ Range(q)
           x == FirstOf(rest, order)
           more == Append(q, x)
<1>1. q \in Seq(S) /\ Len(q) = k /\ DOMAIN q = 1..k /\ Cardinality(Range(q)) = k
  BY DEF SortedSoFar
<1>2. Range(q) \subseteq S /\ \A i \in 1..k : q[i] \in Range(q) /\ q[i] \in S
  BY <1>1 DEF Range
<1>3. IsFiniteSet(Range(q)) /\ IsFiniteSet(rest)
  BY <1>2, FS_Subset
<1>4. rest # {}
  <2>1. Range(q) # S
    BY <1>1
  <2> QED
    BY <1>2, <2>1
<1>5. Compares(order, rest)
  BY DEF Compares
<1>6. x \in rest /\ \A s \in rest : <<x, s>> \in order
  <2> HIDE DEF rest
  <2> QED
    BY <1>3, <1>4, <1>5, FirstIsFirst DEF x
<1> HIDE DEF x
<1>7. /\ more \in Seq(S) /\ Len(more) = k + 1 /\ more[k + 1] = x /\ DOMAIN more = 1..(k + 1)
      /\ \A i \in 1..k : more[i] = q[i]
  BY <1>1, <1>6
<1> HIDE DEF more
<1>8. Range(more) = Range(q) \cup {x}
  <2>1. \A y : y \in Range(more) <=> \E i \in 1..(k + 1) : y = more[i]
    BY <1>7, Zenon DEF Range
  <2>2. \A y : y \in Range(q) <=> \E i \in 1..k : y = q[i]
    BY <1>1, Zenon DEF Range
  <2>3. \A i : i \in 1..(k + 1) <=> i \in 1..k \/ i = k + 1
    OBVIOUS
  <2>4. \A y : y \in Range(more) <=> y \in Range(q) \/ y = x
    BY <1>7, <2>1, <2>2, <2>3
  <2> QED
    BY <2>4
<1>9. Cardinality(Range(more)) = k + 1
  BY <1>1, <1>3, <1>6, <1>8, FS_AddElement
<1>10. ASSUME NEW i \in 1..(k + 1), NEW j \in 1..(k + 1), i < j
       PROVE  more[i] # more[j] /\ <<more[i], more[j]>> \in order
  <2>1. i \in 1..k /\ more[i] = q[i] /\ q[i] \in Range(q)
    BY <1>2, <1>7, <1>10
  <2>2. CASE j = k + 1
    BY <1>6, <1>7, <2>1, <2>2 DEF SortedSoFar
  <2>3. CASE j # k + 1
    <3>1. j \in 1..k /\ more[j] = q[j]
      BY <1>7, <2>3
    <3> QED
      BY <1>10, <2>1, <3>1 DEF SortedSoFar
  <2> QED
    BY <2>2, <2>3
<1>11. ASSUME NEW i \in 1..(k + 1), NEW r \in S \ Range(more)
       PROVE  <<more[i], r>> \in order
  <2>1. r \in rest
    BY <1>8
  <2>2. CASE i = k + 1
    BY <1>6, <1>7, <2>1, <2>2
  <2>3. CASE i # k + 1
    <3>1. i \in 1..k /\ more[i] = q[i]
      BY <1>7, <2>3
    <3> QED
      BY <2>1, <3>1 DEF SortedSoFar
  <2> QED
    BY <2>2, <2>3
<1>12. SortedOn(q, S, order) = more
  BY DEF SortedOn, more, x
<1> QED
  BY <1>7, <1>9, <1>10, <1>11, <1>12 DEF SortedSoFar

\* A set of rows, each in one place, in order.
Sorts(q, S, order) ==
  /\ q \in Seq(S) /\ Len(q) \in Nat
  /\ \A r \in S : \E i \in 1..Len(q) : q[i] = r
  /\ \A i, j \in 1..Len(q) : i < j => q[i] # q[j] /\ <<q[i], q[j]>> \in order

(* The readers' sorts sort.                                                *)
LEMMA SortedIs ==
  ASSUME NEW S, IsFiniteSet(S), NEW order, Compares(order, S)
  PROVE  Sorts(SortedRows(S, order), S, order)
<1> DEFINE n == Cardinality(S)
           T == S \cup {FirstOf({}, order)}
           step == [i \in 1..n |-> [q \in Seq(T) |-> SortedOn(q, S, order)]]
           Is(f) == f = [k \in 0..n |-> IF k = 0 THEN << >> ELSE SortedOn(f[k - 1], S, order)]
           g == SortTable(S, order)
<1>1. n \in Nat
  BY FS_CardinalityType
<1>2. \A q \in Seq(T) : SortedOn(q, S, order) \in Seq(T)
  <2> SUFFICES ASSUME NEW q \in Seq(T) PROVE SortedOn(q, S, order) \in Seq(T)
    OBVIOUS
  <2> DEFINE rest == S \ Range(q)
  <2>1. FirstOf(rest, order) \in T
    <3>1. CASE rest = {}
      BY <3>1
    <3>2. CASE rest # {}
      <4>1. IsFiniteSet(rest) /\ Compares(order, rest)
        BY FS_Subset DEF Compares
      <4> HIDE DEF rest
      <4>2. FirstOf(rest, order) \in rest
        BY <3>2, <4>1, FirstIsFirst
      <4> QED
        BY <4>2 DEF rest
    <3> QED
      BY <3>1, <3>2
  <2> QED
    BY <2>1 DEF SortedOn
<1>3. step \in [1..n -> [Seq(T) -> Seq(T)]] /\ << >> \in Seq(T)
  BY <1>2
<1>4. g = CHOOSE f : Is(f)
  BY DEF SortTable
<1> HIDE DEF n, step, T
<1>5. PICK f : LoopTable(f, n, Seq(T), << >>, step)
  BY <1>1, <1>3, LoopFound
<1>6. /\ f = [k \in 0..n |-> f[k]] /\ f[0] = << >>
      /\ \A k \in 1..n : f[k] = step[k][f[k - 1]]
      /\ \A k \in 0..n : f[k] \in Seq(T)
  BY <1>5 DEF LoopTable
<1>7. Is(f)
  <2>1. ASSUME NEW k \in 0..n
        PROVE  f[k] = IF k = 0 THEN << >> ELSE SortedOn(f[k - 1], S, order)
    <3>1. CASE k = 0
      BY <1>6, <3>1
    <3>2. CASE k # 0
      <4>1. k \in 1..n /\ f[k - 1] \in Seq(T)
        BY <1>1, <1>6, <3>2
      <4> QED
        BY <1>6, <3>2, <4>1 DEF step
    <3> QED
      BY <3>1, <3>2
  <2> QED
    BY <1>6, <2>1
<1>8. Is(g)
  <2> HIDE DEF g
  <2> QED
    BY <1>4, <1>7
<1>9. g[0] = << >> /\ \A k \in 1..n : g[k] = SortedOn(g[k - 1], S, order)
  <2> HIDE DEF g
  <2>1. 0 \in 0..n /\ \A k \in 1..n : k \in 0..n /\ k # 0
    BY <1>1
  <2> QED
    BY <1>8, <2>1
<1> HIDE DEF g
<1> DEFINE Q == {k \in 0..n : SortedSoFar(g[k], k, S, order)}
<1>10. 0 \in Q
  <2>1. << >> \in Seq(S) /\ Len(<< >>) = 0 /\ Range(<< >>) = {} /\ Cardinality(Range(<< >>)) = 0
    BY FS_EmptySet DEF Range
  <2>2. \A i : i \notin 1..0
    OBVIOUS
  <2>3. SortedSoFar(<< >>, 0, S, order)
    BY <2>1, <2>2 DEF SortedSoFar
  <2> QED
    BY <1>1, <1>9, <2>3
<1>11. ASSUME NEW k \in 1..n, k - 1 \in Q PROVE k \in Q
  <2>1. k - 1 \in Nat /\ k - 1 < n /\ (k - 1) + 1 = k /\ k \in 0..n
    BY <1>1
  <2>2. SortedSoFar(g[k - 1], k - 1, S, order)
    BY <1>11
  <2>3. SortedSoFar(SortedOn(g[k - 1], S, order), (k - 1) + 1, S, order)
    BY <2>1, <2>2, SortsOn DEF n
  <2> QED
    BY <1>9, <2>1, <2>3
<1>12. SortedSoFar(g[n], n, S, order)
  <2>1. n \in Q
    <3> HIDE DEF Q
    <3>1. n \in 0..n
      BY <1>1
    <3> QED
      BY <1>1, <1>10, <1>11, <3>1, CountUp
  <2> QED
    BY <2>1
<1> DEFINE q == g[n]
<1>13. SortedRows(S, order) = q
  BY DEF SortedRows, g, n
<1> HIDE DEF q, Q
<1>14. q \in Seq(S) /\ Len(q) = n /\ DOMAIN q = 1..n /\ Cardinality(Range(q)) = n
  BY <1>12 DEF SortedSoFar, q
<1>15. Range(q) = S
  <2>1. Range(q) \in SUBSET S
    BY <1>14 DEF Range
  <2> QED
    BY <1>14, <2>1, FS_Subset DEF n
<1>16. \A r \in S : \E i \in 1..n : q[i] = r
  BY <1>14, <1>15 DEF Range
<1> QED
  BY <1>1, <1>12, <1>13, <1>14, <1>16 DEF SortedSoFar, Sorts, q

-----------------------------------------------------------------------------
\* Rows, and what they make of a book.

SnapRow == [kind : {"snapshot"}, u : UpdateId, levels : [Level -> Nat],
            known : SUBSET Level, ts : UpdateId]
DiffRow == [kind : {"depth"}, U : UpdateId, u : UpdateId, pu : UpdateId, ts : UpdateId]

\* A snapshot row is the venue's book at its id, taken no earlier; a depth row
\* is a diff of the venue under its own stamp.
GoodSnaps == {r \in SnapRow : /\ r.u <= r.ts
                              /\ \A p \in Level : r.levels[p] = IF p \in r.known THEN History[r.u][p] ELSE 0}
GoodDiffs == {d \in DiffRow : IsDiff(d) /\ d.ts = d.u}
GoodRows  == GoodSnaps \cup GoodDiffs

(* The fields of good rows, and the ids they are made of.                  *)
LEMMA RowsAre ==
  /\ \A r \in GoodSnaps : r \in SnapRow /\ r.kind = "snapshot" /\ r.u \in UpdateId /\ r.ts \in UpdateId
  /\ \A d \in GoodDiffs : /\ d \in DiffRow /\ d.kind = "depth" /\ IsDiff(d) /\ d.ts = d.u
                          /\ d.u \in UpdateId /\ d.pu \in UpdateId /\ d.U \in UpdateId
                          /\ d.pu < d.U /\ d.U <= d.u
  /\ UpdateId \subseteq Nat /\ NoId \notin UpdateId /\ NoId \in Int /\ UpdateId \subseteq Int
<1>1. \A r \in GoodSnaps : r \in SnapRow /\ r.kind = "snapshot" /\ r.u \in UpdateId /\ r.ts \in UpdateId
  BY DEF GoodSnaps, SnapRow
<1>2. \A d \in GoodDiffs : d \in DiffRow /\ IsDiff(d) /\ d.ts = d.u
  BY DEF GoodDiffs
<1>3. \A d \in DiffRow : d.kind = "depth" /\ d.u \in UpdateId /\ d.pu \in UpdateId /\ d.U \in UpdateId
  BY DEF DiffRow
<1>4. \A d \in GoodDiffs : d.pu < d.U /\ d.U <= d.u
  BY <1>2 DEF IsDiff
<1>5. UpdateId \subseteq Nat /\ NoId \notin UpdateId /\ NoId \in Int /\ UpdateId \subseteq Int
  BY VenueAssumption DEF UpdateId, NoId
<1> QED
  BY <1>1, <1>2, <1>3, <1>4, <1>5

\* The message of a depth row.
Bare(d) == [kind |-> d.kind, U |-> d.U, u |-> d.u, pu |-> d.pu]

(* A book treats a depth row as it treats the message it was made of.      *)
LEMMA BareIs ==
  ASSUME NEW d \in DiffRow, NEW b \in Book
  PROVE  /\ Bare(d) \in Msg /\ (IsDiff(Bare(d)) <=> IsDiff(d))
         /\ Verdict(b, Bare(d)) = Verdict(b, d)
         /\ ApplyDelta(b, Bare(d)) = ApplyDelta(b, d)
<1>1. /\ Bare(d).kind = d.kind /\ Bare(d).U = d.U /\ Bare(d).u = d.u /\ Bare(d).pu = d.pu
      /\ Bare(d) \in Msg
  BY DEF Bare, DiffRow, Msg, Kind
<1>2. IsDiff(Bare(d)) <=> IsDiff(d)
  BY <1>1 DEF IsDiff
<1>3. Verdict(b, Bare(d)) = Verdict(b, d)
  BY <1>1 DEF Verdict, Brackets
<1>4. Touched(Bare(d)) = Touched(d)
  BY <1>1 DEF Touched
<1>5. SetLevels(b, Bare(d)) = SetLevels(b, d)
  BY <1>1, <1>4 DEF SetLevels
<1> QED
  BY <1>1, <1>2, <1>3, <1>5 DEF ApplyDelta

(* A depth row that a faithful book takes leaves it faithful.              *)
LEMMA DiffRead ==
  ASSUME NEW b \in Book, Faithful(b), NEW d \in GoodDiffs, Verdict(b, d) = "applied"
  PROVE  LET next == ApplyDelta(b, d)
         IN  /\ next \in Book /\ Faithful(next)
             /\ next.last = d.u /\ next.seqReady /\ next.isSynced = b.isSynced
             /\ ApplyRow(b, d) = next
<1>1. d \in DiffRow /\ IsDiff(d) /\ d.kind = "depth"
  BY RowsAre
<1>2. ApplyDelta(b, d) \in Book /\ Faithful(ApplyDelta(b, d))
  BY <1>1, BareIs, AcceptedDiffKeepsFaithful
<1>3. ApplyDelta(b, d) = SetLevels(b, d)
  BY DEF ApplyDelta
<1>4. ApplyDelta(b, d).last = d.u /\ ApplyDelta(b, d).seqReady /\ ApplyDelta(b, d).isSynced = b.isSynced
  BY <1>3 DEF SetLevels
<1> QED
  BY <1>1, <1>2, <1>4 DEF ApplyRow

(* A snapshot row replaces whatever book there was.                        *)
LEMMA SnapshotRead ==
  ASSUME NEW b, NEW r \in GoodSnaps
  PROVE  LET next == ApplyRow(b, r)
         IN  /\ next \in Book /\ Faithful(next)
             /\ next.last = r.u /\ ~next.seqReady /\ next.isSynced
             /\ next.levels = r.levels /\ next.known = r.known
<1>1. r.kind = "snapshot" /\ r.u \in UpdateId /\ r.levels \in [Level -> Nat] /\ r.known \in SUBSET Level
  BY DEF GoodSnaps, SnapRow
<1>2. ApplyRow(b, r) = [last |-> r.u, levels |-> r.levels, known |-> r.known,
                        seqReady |-> FALSE, isSynced |-> TRUE]
  BY <1>1 DEF ApplyRow
<1>3. ApplyRow(b, r) \in Book
  BY <1>1, <1>2 DEF Book
<1>4. \A p \in Level : r.levels[p] = IF p \in r.known THEN History[r.u][p] ELSE 0
  BY DEF GoodSnaps
<1>5. /\ ApplyRow(b, r).last = r.u /\ ApplyRow(b, r).levels = r.levels
      /\ ApplyRow(b, r).known = r.known
      /\ ~ApplyRow(b, r).seqReady /\ ApplyRow(b, r).isSynced
  BY <1>2
<1>6. Faithful(ApplyRow(b, r))
  BY <1>4, <1>5 DEF Faithful
<1> QED
  BY <1>3, <1>5, <1>6

-----------------------------------------------------------------------------
\* The replay of a tape.

\* What the replay has selected of rows R so far.
Selecting(R) ==
  [kept : Seq(R), periodic : Nat, offChain : Nat, last : UpdateId \cup {NoId},
   bracketing : BOOLEAN, held : {d \in R : d.kind = "depth"} \cup {NoRow}]

\* A diff right after a row.
After(r, q) == r.pu = q.u \/ (q.kind = "snapshot" /\ Brackets(r, q.u))

\* Every depth row kept follows the row before it.
Linked(kept) ==
  \A j \in 1..Len(kept) : kept[j].kind = "depth" => j > 1 /\ After(kept[j], kept[j - 1])

\* Where the rows kept so far end.
EndsAt(s) ==
  IF s.kept = << >> THEN s.last = NoId /\ ~s.bracketing
  ELSE s.last = s.kept[Len(s.kept)].u /\ (s.bracketing <=> s.kept[Len(s.kept)].kind = "snapshot")

Selected(s, R) == s \in Selecting(R) /\ Linked(s.kept) /\ EndsAt(s)

\* One more row is kept.
KeptOn(s, r, isSnap) ==
  [kept |-> Append(s.kept, r), periodic |-> s.periodic, offChain |-> s.offChain,
   last |-> r.u, bracketing |-> isSnap, held |-> IF isSnap THEN s.held ELSE NoRow]

(* A row kept goes after the row it follows.                               *)
LEMMA KeepsLinked ==
  ASSUME NEW R, R \subseteq GoodRows, NEW s, Selected(s, R), NEW r \in R,
         NEW isSnap \in BOOLEAN, isSnap <=> r.kind = "snapshot",
         r.kind = "depth" => Continues(s, r)
  PROVE  Selected(KeptOn(s, r, isSnap), R)
<1> DEFINE n == Len(s.kept)
           more == Append(s.kept, r)
<1>1. s.kept \in Seq(R) /\ n \in Nat /\ s.periodic \in Nat /\ s.offChain \in Nat
  BY DEF Selected, Selecting
<1>2. s.held \in {d \in R : d.kind = "depth"} \cup {NoRow}
  BY DEF Selected, Selecting
<1>3. r.u \in UpdateId /\ r.kind \in {"snapshot", "depth"}
  BY RowsAre DEF GoodRows
<1>4. /\ more \in Seq(R) /\ Len(more) = n + 1 /\ more[n + 1] = r /\ more # << >>
      /\ \A j \in 1..n : more[j] = s.kept[j]
  BY <1>1
<1>5. r.kind = "depth" => n >= 1 /\ After(r, s.kept[n])
  <2> SUFFICES ASSUME r.kind = "depth" PROVE n >= 1 /\ After(r, s.kept[n])
    OBVIOUS
  <2>1. s.last # NoId /\ (r.pu = s.last \/ (s.bracketing /\ Brackets(r, s.last)))
    BY DEF Continues
  <2>2. s.kept # << >>
    BY <2>1 DEF Selected, EndsAt
  <2>3. s.last = s.kept[n].u /\ (s.bracketing <=> s.kept[n].kind = "snapshot")
    BY <2>2 DEF Selected, EndsAt
  <2>4. n >= 1
    BY <1>1, <2>2
  <2> QED
    BY <2>1, <2>3, <2>4 DEF After
<1> HIDE DEF more
<1>6. Linked(more)
  <2> SUFFICES ASSUME NEW j \in 1..(n + 1), more[j].kind = "depth"
               PROVE  j > 1 /\ After(more[j], more[j - 1])
    BY <1>4 DEF Linked
  <2>1. CASE j = n + 1
    <3>1. n >= 1 /\ n \in 1..n /\ After(r, s.kept[n]) /\ more[n] = s.kept[n]
      BY <1>1, <1>4, <1>5, <2>1
    <3>2. (n + 1) - 1 = n /\ n + 1 > 1
      BY <1>1, <3>1
    <3> QED
      BY <1>4, <2>1, <3>1, <3>2
  <2>2. CASE j # n + 1
    <3>1. j \in 1..n /\ more[j] = s.kept[j] /\ s.kept[j].kind = "depth"
      BY <1>1, <1>4, <2>2
    <3>2. j > 1 /\ After(s.kept[j], s.kept[j - 1])
      BY <3>1 DEF Selected, Linked
    <3>3. j - 1 \in 1..n
      BY <1>1, <3>1, <3>2
    <3> QED
      BY <1>4, <3>1, <3>2, <3>3
  <2> QED
    BY <2>1, <2>2
<1>7. KeptOn(s, r, isSnap) \in Selecting(R)
  BY <1>1, <1>2, <1>3, <1>4 DEF Selecting, KeptOn, more
<1>8. /\ KeptOn(s, r, isSnap).kept = more /\ KeptOn(s, r, isSnap).last = r.u
      /\ KeptOn(s, r, isSnap).bracketing = isSnap
  BY DEF KeptOn, more
<1>9. EndsAt(KeptOn(s, r, isSnap))
  BY <1>4, <1>8 DEF EndsAt
<1> QED
  BY <1>6, <1>7, <1>8, <1>9 DEF Selected

(* One row of the replay (_select).                                        *)
LEMMA SnapshotTaken ==
  ASSUME NEW R, R \subseteq GoodRows, NEW s, Selected(s, R), NEW r \in R, r.kind = "snapshot"
  PROVE  Selected(TakeSnapshot(s, r), R)
<1>1. s = [kept |-> s.kept, periodic |-> s.periodic, offChain |-> s.offChain, last |-> s.last,
           bracketing |-> s.bracketing, held |-> s.held]
      /\ s.periodic \in Nat
  BY DEF Selected, Selecting
<1>2. CASE r.u = s.last
  <2>1. TakeSnapshot(s, r) = [kept |-> s.kept, periodic |-> s.periodic + 1, offChain |-> s.offChain,
                              last |-> s.last, bracketing |-> s.bracketing, held |-> s.held]
    BY <1>1, <1>2 DEF TakeSnapshot
  <2>2. TakeSnapshot(s, r) \in Selecting(R)
    BY <1>1, <2>1 DEF Selected, Selecting
  <2>3. EndsAt(TakeSnapshot(s, r)) /\ TakeSnapshot(s, r).kept = s.kept
    BY <2>1 DEF Selected, EndsAt
  <2> QED
    BY <2>2, <2>3 DEF Selected
<1>3. CASE r.u # s.last
  <2>1. TakeSnapshot(s, r) = KeptOn(s, r, TRUE)
    BY <1>1, <1>3 DEF TakeSnapshot, KeptOn
  <2> QED
    BY <2>1, KeepsLinked
<1> QED
  BY <1>2, <1>3

(* A depth row is kept after what it follows, held or dropped (_select).   *)
LEMMA DeltaTaken ==
  ASSUME NEW R, R \subseteq GoodRows, NEW s, Selected(s, R), NEW d \in R, d.kind = "depth", NEW upcoming
  PROVE  Selected(TakeDelta(s, d, upcoming), R)
<1>1. s = [kept |-> s.kept, periodic |-> s.periodic, offChain |-> s.offChain, last |-> s.last,
           bracketing |-> s.bracketing, held |-> s.held]
      /\ s.offChain \in Nat
  BY DEF Selected, Selecting
<1>2. CASE Continues(s, d)
  <2>1. TakeDelta(s, d, upcoming) = KeptOn(s, d, FALSE)
    BY <1>1, <1>2 DEF TakeDelta, KeptOn
  <2> QED
    BY <1>2, <2>1, KeepsLinked
<1>3. CASE ~Continues(s, d)
  <2> DEFINE t == TakeDelta(s, d, upcoming)
  <2>1. PICK off \in Nat, h \in {e \in R : e.kind = "depth"} \cup {NoRow} :
          t = [kept |-> s.kept, periodic |-> s.periodic, offChain |-> off, last |-> s.last,
               bracketing |-> s.bracketing, held |-> h]
    <3>1. CASE upcoming.kind = "snapshot" /\ upcoming.u = d.u
      <4>1. t = [kept |-> s.kept, periodic |-> s.periodic, offChain |-> s.offChain, last |-> s.last,
                 bracketing |-> s.bracketing, held |-> d]
        BY <1>1, <1>3, <3>1 DEF TakeDelta
      <4>2. s.offChain \in Nat /\ d \in {e \in R : e.kind = "depth"} \cup {NoRow}
        BY <1>1
      <4> HIDE DEF t
      <4> QED
        BY <4>1, <4>2, Zenon
    <3>2. CASE ~(upcoming.kind = "snapshot" /\ upcoming.u = d.u)
      <4>1. t = [kept |-> s.kept, periodic |-> s.periodic, offChain |-> s.offChain + 1, last |-> s.last,
                 bracketing |-> s.bracketing, held |-> NoRow]
        BY <1>1, <1>3, <3>2 DEF TakeDelta
      <4>2. s.offChain + 1 \in Nat /\ NoRow \in {e \in R : e.kind = "depth"} \cup {NoRow}
        BY <1>1
      <4> HIDE DEF t
      <4> QED
        BY <4>1, <4>2, Zenon
    <3> QED
      BY <3>1, <3>2
  <2> HIDE DEF t
  <2>2. t \in Selecting(R)
    BY <2>1 DEF Selected, Selecting
  <2>3. EndsAt(t) /\ t.kept = s.kept
    BY <2>1 DEF Selected, EndsAt
  <2> QED
    BY <2>2, <2>3 DEF Selected, t
<1> QED
  BY <1>2, <1>3

(* Whatever row comes next, the rows kept stay linked (_select).           *)
LEMMA RowTaken ==
  ASSUME NEW R, R \subseteq GoodRows, NEW s, Selected(s, R), NEW r \in R, NEW upcoming
  PROVE  Selected(TakeRow(s, r, upcoming), R)
<1>1. r.kind \in {"snapshot", "depth"}
  BY RowsAre DEF GoodRows
<1>2. CASE r.kind = "depth"
  BY <1>2, DeltaTaken DEF TakeRow
<1>3. CASE r.kind = "snapshot" /\ s.held = NoRow
  BY <1>3, SnapshotTaken DEF TakeRow
<1>4. CASE r.kind = "snapshot" /\ s.held # NoRow
  <2>1. s.held \in R /\ s.held.kind = "depth"
    BY <1>4 DEF Selected, Selecting
  <2>2. TakeRow(s, r, upcoming) = TakeDelta(TakeSnapshot(s, r), s.held, upcoming)
    BY <1>4 DEF TakeRow
  <2> QED
    BY <1>4, <2>1, <2>2, SnapshotTaken, DeltaTaken
<1> QED
  BY <1>1, <1>2, <1>3, <1>4

(* The replay of any rows, row by row: what is kept is linked.             *)
LEMMA SelectLoop ==
  ASSUME NEW R, R \subseteq GoodRows, NEW read \in Seq(R)
  PROVE  /\ SelectTable(read)[0] = Unselected
         /\ \A i \in 1..Len(read) :
              SelectTable(read)[i] = TakeRow(SelectTable(read)[i - 1], read[i], RowAfter(read, i))
         /\ \A i \in 0..Len(read) : Selected(SelectTable(read)[i], R)
<1> DEFINE n == Len(read)
           S == {s \in Selecting(R) : Selected(s, R)}
           step == [i \in 1..n |-> [s \in S |-> TakeRow(s, read[i], RowAfter(read, i))]]
           Is(f) == f = [i \in 0..n |-> IF i = 0 THEN Unselected
                                        ELSE TakeRow(f[i - 1], read[i], RowAfter(read, i))]
           g == SelectTable(read)
<1>1. n \in Nat /\ \A i \in 1..n : read[i] \in R
  OBVIOUS
<1>2. Unselected \in S
  <2>1. << >> \in Seq(R) /\ Len(<< >>) = 0
    OBVIOUS
  <2>2. Unselected \in Selecting(R)
    BY <2>1 DEF Unselected, Selecting
  <2>3. Unselected.kept = << >> /\ Unselected.last = NoId /\ ~Unselected.bracketing
    BY DEF Unselected
  <2>4. Linked(<< >>)
    BY <2>1 DEF Linked
  <2>5. EndsAt(Unselected)
    BY <2>3 DEF EndsAt
  <2> QED
    BY <2>2, <2>3, <2>4, <2>5 DEF Selected
<1>3. \A i \in 1..n, s \in S : TakeRow(s, read[i], RowAfter(read, i)) \in S
  <2> SUFFICES ASSUME NEW i \in 1..n, NEW s \in S PROVE TakeRow(s, read[i], RowAfter(read, i)) \in S
    OBVIOUS
  <2>1. Selected(TakeRow(s, read[i], RowAfter(read, i)), R)
    BY <1>1, RowTaken
  <2> QED
    BY <2>1 DEF Selected
<1>4. step \in [1..n -> [S -> S]]
  BY <1>3
<1>5. g = CHOOSE f : Is(f)
  BY DEF SelectTable
<1> HIDE DEF n, step, S
<1>6. PICK f : LoopTable(f, n, S, Unselected, step)
  BY <1>1, <1>2, <1>4, LoopFound
<1>7. /\ f = [i \in 0..n |-> f[i]] /\ f[0] = Unselected
      /\ \A i \in 1..n : f[i] = step[i][f[i - 1]]
      /\ \A i \in 0..n : f[i] \in S
  BY <1>6 DEF LoopTable
<1>8. Is(f)
  <2>1. ASSUME NEW i \in 0..n
        PROVE  f[i] = IF i = 0 THEN Unselected ELSE TakeRow(f[i - 1], read[i], RowAfter(read, i))
    <3>1. CASE i = 0
      BY <1>7, <3>1
    <3>2. CASE i # 0
      <4>1. i \in 1..n /\ f[i - 1] \in S
        BY <1>1, <1>7, <3>2
      <4> QED
        BY <1>7, <3>2, <4>1 DEF step
    <3> QED
      BY <3>1, <3>2
  <2> QED
    BY <1>7, <2>1
<1>9. Is(g)
  <2> HIDE DEF g
  <2> QED
    BY <1>5, <1>8
<1>10. g[0] = Unselected /\ \A i \in 1..n : g[i] = TakeRow(g[i - 1], read[i], RowAfter(read, i))
  <2> HIDE DEF g
  <2>1. 0 \in 0..n /\ \A i \in 1..n : i \in 0..n /\ i # 0
    BY <1>1
  <2> QED
    BY <1>9, <2>1
<1> HIDE DEF g
<1>11. \A i \in 0..n : g[i] \in S
  <2>1. \A i \in 1..n : g[i - 1] \in S => g[i] \in S
    BY <1>3, <1>10
  <2> QED
    BY <1>1, <1>2, <1>10, <2>1, LoopStays
<1> QED
  BY <1>10, <1>11 DEF S, g, n

-----------------------------------------------------------------------------
\* The books of a replay.

Reader == [book : Book, books : Seq(Book), refused : BOOLEAN]

\* The reader stands at the last row, and every book so far was faithful.
ReadSoFar(acc, kept, i) ==
  /\ acc \in Reader /\ ~acc.refused
  /\ Faithful(acc.book) /\ \A j \in 1..Len(acc.books) : Faithful(acc.books[j])
  /\ IF i = 0 THEN acc.book = EmptyBook
     ELSE /\ acc.book.last = kept[i].u
          /\ acc.book.seqReady <=> kept[i].kind = "depth"

(* The next row kept is applied, and the book is the venue's.              *)
LEMMA ReadsOn ==
  ASSUME NEW kept \in Seq(GoodRows), Linked(kept), NEW i \in 1..Len(kept),
         NEW acc, ReadSoFar(acc, kept, i - 1)
  PROVE  ReadSoFar(Yielded(acc, kept[i]), kept, i)
<1> DEFINE r == kept[i]
           b == ApplyRow(acc.book, r)
           next == Yielded(acc, r)
<1>1. r \in GoodRows /\ i \in Nat /\ i # 0
  OBVIOUS
<1>2. /\ acc.book \in Book /\ acc.books \in Seq(Book) /\ ~acc.refused /\ Faithful(acc.book)
      /\ \A j \in 1..Len(acc.books) : Faithful(acc.books[j])
  BY DEF ReadSoFar, Reader
<1>3. /\ b \in Book /\ Faithful(b) /\ b.last = r.u /\ (b.seqReady <=> r.kind = "depth")
      /\ r.kind = "depth" => Verdict(acc.book, r) = "applied"
  <2>1. CASE r \in GoodSnaps
    BY <2>1, SnapshotRead, RowsAre
  <2>2. CASE r \in GoodDiffs
    <3>1. r.kind = "depth"
      BY <2>2, RowsAre
    <3>2. i > 1 /\ After(r, kept[i - 1])
      BY <3>1 DEF Linked
    <3>3. i - 1 # 0 /\ i - 1 \in 1..Len(kept) /\ kept[i - 1] \in GoodRows
      BY <3>2
    <3>4. acc.book.last = kept[i - 1].u /\ (acc.book.seqReady <=> kept[i - 1].kind = "depth")
      BY <3>3 DEF ReadSoFar
    <3>5. kept[i - 1].u \in UpdateId /\ kept[i - 1].kind \in {"snapshot", "depth"}
      BY <3>3, RowsAre DEF GoodRows
    <3> DEFINE q == kept[i - 1]
    <3> HIDE DEF q, r
    <3>6. Verdict(acc.book, r) = "applied"
      <4>1. acc.book.last = q.u /\ q.u # NoId /\ q.u \in Int /\ r.u \in Int
        BY <2>2, <3>4, <3>5, RowsAre DEF q
      <4>2. CASE r.pu = q.u
        BY <4>1, <4>2 DEF Verdict
      <4>3. CASE r.pu # q.u
        <5>1. ~acc.book.seqReady /\ Brackets(r, acc.book.last)
          BY <3>2, <3>4, <4>1, <4>3 DEF After, q
        <5>2. ~(r.u < acc.book.last)
          BY <4>1, <5>1 DEF Brackets
        <5> QED
          BY <4>1, <4>3, <5>1, <5>2 DEF Verdict
      <4> QED
        BY <4>2, <4>3
    <3> QED
      BY <1>2, <2>2, <3>1, <3>6, DiffRead
  <2> QED
    BY <1>1, <2>1, <2>2 DEF GoodRows
<1> HIDE DEF b, r
<1>4. next = [book |-> b, books |-> Append(acc.books, b), refused |-> FALSE]
  BY <1>2, <1>3 DEF Yielded, b
<1>5. next \in Reader
  BY <1>2, <1>3, <1>4 DEF Reader
<1>6. \A j \in 1..Len(next.books) : Faithful(next.books[j])
  <2>1. next.books = Append(acc.books, b)
    BY <1>4
  <2>2. \A j \in 1..Len(next.books) : next.books[j] = b \/ (j \in 1..Len(acc.books) /\ next.books[j] = acc.books[j])
    BY <1>2, <1>3, <2>1
  <2> QED
    BY <1>2, <1>3, <2>2
<1>7. next.book = b /\ ~next.refused
  BY <1>4
<1> HIDE DEF next
<1> QED
  BY <1>1, <1>3, <1>5, <1>6, <1>7 DEF ReadSoFar, next, r

(* The books of a replay, one after every row kept (_iter_synced_books).   *)
LEMMA YieldLoop ==
  ASSUME NEW kept \in Seq(GoodRows), Linked(kept)
  PROVE  \A i \in 0..Len(kept) : ReadSoFar(YieldTable(kept)[i], kept, i)
<1> DEFINE n == Len(kept)
           Step(i, acc) == Yielded(acc, kept[i])
           S == Reader
           step == [i \in 1..n |-> [acc \in S |-> IF Step(i, acc) \in S THEN Step(i, acc) ELSE acc]]
           Is(f) == f = [i \in 0..n |-> IF i = 0 THEN Unread ELSE Yielded(f[i - 1], kept[i])]
           g == YieldTable(kept)
<1>1. n \in Nat
  OBVIOUS
<1>2. Unread \in S /\ ReadSoFar(Unread, kept, 0)
  <2>1. EmptyBook \in Book /\ Faithful(EmptyBook) /\ << >> \in Seq(Book) /\ Len(<< >>) = 0
    BY DEF EmptyBook, Book, Faithful
  <2>2. Unread.book = EmptyBook /\ Unread.books = << >> /\ ~Unread.refused
    BY DEF Unread
  <2>3. Unread \in Reader
    BY <2>1 DEF Unread, Reader
  <2> QED
    BY <2>1, <2>2, <2>3 DEF ReadSoFar
<1>3. step \in [1..n -> [S -> S]]
  <2>1. \A i \in 1..n, acc \in S : (IF Step(i, acc) \in S THEN Step(i, acc) ELSE acc) \in S
    BY Zenon
  <2> HIDE DEF Step, S, n
  <2> QED
    BY <2>1
<1>4. g = CHOOSE f : Is(f)
  BY DEF YieldTable
<1> HIDE DEF n, step, S, Step
<1>5. PICK f : LoopTable(f, n, S, Unread, step)
  BY <1>1, <1>2, <1>3, LoopFound
<1>6. /\ f = [i \in 0..n |-> f[i]] /\ f[0] = Unread
      /\ \A i \in 1..n : f[i] = step[i][f[i - 1]]
      /\ \A i \in 0..n : f[i] \in S
  BY <1>5 DEF LoopTable
<1> DEFINE Q == {i \in 0..n : ReadSoFar(f[i], kept, i) /\ (i # 0 => f[i] = Yielded(f[i - 1], kept[i]))}
<1>7. 0 \in Q
  BY <1>1, <1>2, <1>6
<1>8. ASSUME NEW i \in 1..n, i - 1 \in Q PROVE i \in Q
  <2>1. i - 1 \in 0..n /\ i \in 0..n /\ f[i - 1] \in S
    <3>1. i - 1 \in 0..n /\ i \in 0..n
      BY <1>1
    <3> QED
      BY <1>6, <3>1
  <2>2. ReadSoFar(f[i - 1], kept, i - 1)
    BY <1>8
  <2>3. ReadSoFar(Yielded(f[i - 1], kept[i]), kept, i)
    BY <2>2, ReadsOn DEF n
  <2>4. Step(i, f[i - 1]) \in S
    BY <2>3 DEF ReadSoFar, S, Step
  <2>5. f[i] = Yielded(f[i - 1], kept[i])
    BY <1>6, <2>1, <2>4 DEF step, Step
  <2> QED
    BY <2>1, <2>3, <2>5
<1>9. \A i \in 0..n : i \in Q
  <2> HIDE DEF Q
  <2> QED
    BY <1>1, <1>7, <1>8, CountUp
<1>10. Is(f)
  <2>1. \A i \in 0..n : f[i] = IF i = 0 THEN Unread ELSE Yielded(f[i - 1], kept[i])
    BY <1>6, <1>9
  <2> QED
    BY <1>6, <2>1
<1>11. Is(g)
  <2> HIDE DEF g
  <2> QED
    BY <1>4, <1>10
<1>12. g[0] = Unread /\ \A i \in 1..n : g[i] = Yielded(g[i - 1], kept[i])
  <2> HIDE DEF g
  <2>1. 0 \in 0..n /\ \A i \in 1..n : i \in 0..n /\ i # 0
    BY <1>1
  <2> QED
    BY <1>11, <2>1
<1> HIDE DEF g, Q
<1> DEFINE P == {i \in 0..n : ReadSoFar(g[i], kept, i)}
<1>13. 0 \in P
  BY <1>1, <1>2, <1>12
<1>14. ASSUME NEW i \in 1..n, i - 1 \in P PROVE i \in P
  <2>1. ReadSoFar(g[i - 1], kept, i - 1)
    BY <1>14
  <2>2. ReadSoFar(Yielded(g[i - 1], kept[i]), kept, i)
    BY <2>1, ReadsOn DEF n
  <2> QED
    BY <1>12, <2>2
<1>15. \A i \in 0..n : i \in P
  <2> HIDE DEF P
  <2> QED
    BY <1>1, <1>13, <1>14, CountUp
<1> QED
  BY <1>15 DEF n, g

-----------------------------------------------------------------------------
\* A tape whose diffs all find their place.

\* Every diff has on the tape what it follows: a diff or a snapshot.
Anchors(d, D, S) == \/ \E e \in D : e.u = d.pu
                    \/ \E s \in S : s.u = d.pu \/ Brackets(d, s.u)

Anchored(D, S) == \A d \in D : Anchors(d, D, S)

\* The diffs of one venue: none starts before the one before it ends.
InLine(D) == \A d, e \in D : /\ d.u < e.u => d.u <= e.pu
                             /\ d.u = e.u => d = e

GoodTape(tape) ==
  /\ tape.snapshot \subseteq GoodSnaps /\ tape.depth \subseteq GoodDiffs
  /\ IsFiniteSet(tape.snapshot) /\ IsFiniteSet(tape.depth)
  /\ Anchored(tape.depth, tape.snapshot) /\ InLine(tape.depth)

RowsOf(tape) == tape.snapshot \cup tape.depth

\* What a sort by the order of replay gives.
InOrder(q, R) ==
  /\ q \in Seq(R) /\ Len(q) \in Nat
  /\ \A r \in R : \E i \in 1..Len(q) : q[i] = r
  /\ \A i, j \in 1..Len(q) : i < j => q[i] # q[j] /\ ReplayOrder(q[i], q[j])

(* The order of replay is an order of all the rows of a tape.              *)
LEMMA OrderedIs ==
  ASSUME NEW tape, GoodTape(tape)
  PROVE  InOrder(Ordered(tape), RowsOf(tape))
<1> DEFINE R == tape.snapshot \cup tape.depth
           order == {p \in R \X R : ReplayOrder(p[1], p[2])}
<1>1. IsFiniteSet(R) /\ R \subseteq GoodRows
  BY FS_Union DEF GoodTape, GoodRows
<1>2. \A r \in R : r.kind \in {"snapshot", "depth"} /\ r.u \in Int /\ r.ts \in Int
  <2>1. \A r \in GoodRows : r.kind \in {"snapshot", "depth"} /\ r.u \in UpdateId /\ r.ts \in UpdateId
    BY RowsAre DEF GoodRows
  <2> QED
    BY <1>1, <2>1, RowsAre
<1> HIDE DEF R
<1>3. \A r, s \in R : <<r, s>> \in order <=> ReplayOrder(r, s)
  OBVIOUS
<1> HIDE DEF order
<1>4. \A r, s \in R : ReplayOrder(r, s) \/ ReplayOrder(s, r)
  BY <1>2 DEF ReplayOrder
<1>5. \A r, s, t \in R : ReplayOrder(r, s) /\ ReplayOrder(s, t) => ReplayOrder(r, t)
  BY <1>2 DEF ReplayOrder
<1>6. Compares(order, R)
  BY <1>3, <1>4, <1>5 DEF Compares
<1>7. Ordered(tape) = SortedRows(R, order)
  BY DEF Ordered, order, R
<1> DEFINE q == SortedRows(R, order)
<1>8. Sorts(q, R, order)
  BY <1>1, <1>6, SortedIs
<1> HIDE DEF q
<1>9. /\ q \in Seq(R) /\ Len(q) \in Nat
      /\ \A r \in R : \E i \in 1..Len(q) : q[i] = r
      /\ \A i, j \in 1..Len(q) : i < j => q[i] # q[j] /\ <<q[i], q[j]>> \in order
  BY <1>8 DEF Sorts
<1>10. \A i \in 1..Len(q) : q[i] \in R
  BY <1>9
<1>11. InOrder(q, R)
  BY <1>3, <1>9, <1>10 DEF InOrder
<1> QED
  BY <1>7, <1>11 DEF RowsOf, R, q

\* The last id of the first i rows.
LastOf(q, i) == IF i = 0 THEN NoId ELSE q[i].u

(* A diff comes up when the rows before it have led to where it starts, or *)
(* the snapshot it brackets is next.                                       *)
LEMMA DeltaComesUp ==
  ASSUME NEW tape, GoodTape(tape), ~Stranded(tape),
         NEW q, InOrder(q, RowsOf(tape)), NEW i \in 1..Len(q), q[i].kind = "depth",
         NEW s, Selected(s, RowsOf(tape)), s.last = LastOf(q, i - 1)
  PROVE  /\ s.last < q[i].u
         /\ \/ Continues(s, q[i])
            \/ RowAfter(q, i).kind = "snapshot" /\ RowAfter(q, i).u = q[i].u
<1> DEFINE R == RowsOf(tape)
           d == q[i]
           n == Len(q)
<1>1. /\ n \in Nat /\ i \in 1..n /\ \A j \in 1..n : q[j] \in R
      /\ \A r \in R : \E j \in 1..n : q[j] = r
      /\ \A j, k \in 1..n : j < k => q[j] # q[k] /\ ReplayOrder(q[j], q[k])
  BY SMTT(30) DEF InOrder
<1>2. R = tape.snapshot \cup tape.depth /\ tape.snapshot \subseteq GoodSnaps /\ tape.depth \subseteq GoodDiffs
  BY DEF GoodTape, RowsOf
<1>3. \A r \in R : r.u \in Int /\ r.u > NoId /\ (r.kind = "snapshot" => r \in tape.snapshot) /\ (r.kind = "depth" => r \in tape.depth)
  <2>1. \A u \in UpdateId : u \in Int /\ u > NoId
    BY VenueAssumption DEF UpdateId, NoId
  <2>2. \A r \in GoodSnaps : r.kind = "snapshot" /\ r.u \in UpdateId
    BY RowsAre
  <2>3. \A r \in GoodDiffs : r.kind = "depth" /\ r.u \in UpdateId
    BY RowsAre
  <2> QED
    BY <1>2, <2>1, <2>2, <2>3
<1>4. \A r \in R : r.kind \in {"snapshot", "depth"}
  BY <1>2, RowsAre
<1>5. d \in tape.depth /\ d \in R
  BY <1>1, <1>3
<1>6. d.pu \in Nat /\ d.U \in Int /\ d.u \in Int /\ d.pu < d.U /\ d.U <= d.u
  BY <1>2, <1>5, RowsAre
<1>7. \A e \in tape.depth : (e.u < d.u => e.u <= d.pu) /\ (e.u = d.u => e = d)
  BY <1>5, Zenon DEF GoodTape, InLine
<1> HIDE DEF R, n
<1>8. ASSUME NEW j \in 1..n, j < i PROVE q[j].u < d.u
  <2>1. q[j] # d /\ ReplayOrder(q[j], d) /\ q[j] \in R /\ d.kind = "depth"
    BY <1>1, <1>8
  <2> HIDE DEF d
  <2>2. CASE q[j].u = d.u
    <3>1. q[j].kind = "depth"
      BY <1>3, <1>4, <2>1, <2>2 DEF ReplayOrder
    <3> QED
      BY <1>3, <1>7, <2>1, <2>2, <3>1
  <2>3. CASE q[j].u # d.u
    BY <1>3, <2>1, <2>3 DEF ReplayOrder
  <2> QED
    BY <2>2, <2>3
<1>9. s.last < d.u /\ s.last \in Int
  <2>1. CASE i = 1
    BY <1>3, <1>5, <2>1 DEF LastOf, NoId
  <2>2. CASE i # 1
    <3>1. i - 1 \in 1..n /\ i - 1 < i /\ i - 1 # 0
      BY <1>1, <2>2
    <3>2. q[i - 1].u < d.u /\ q[i - 1] \in R
      BY <1>1, <1>8, <3>1
    <3> QED
      BY <1>3, <3>1, <3>2 DEF LastOf
  <2> QED
    BY <2>1, <2>2
<1>10. ASSUME NEW x \in R, x.u < d.u PROVE x.u <= s.last
  <2>1. PICK j \in 1..n : q[j] = x
    BY <1>1
  <2>2. j < i
    <3>1. CASE j = i
      BY <1>6, <1>10, <2>1, <3>1
    <3>2. CASE i < j
      <4>1. ReplayOrder(d, x)
        BY <1>1, <2>1, <3>2
      <4>2. d.u <= x.u
        BY <1>3, <1>6, <4>1 DEF ReplayOrder
      <4> QED
        BY <1>3, <1>6, <1>10, <4>2
    <3> QED
      BY <1>1, <3>1, <3>2
  <2>3. i - 1 \in 1..n /\ i - 1 # 0 /\ j <= i - 1
    BY <1>1, <2>2
  <2>4. q[j].u <= q[i - 1].u
    <3>1. CASE j = i - 1
      BY <1>3, <2>1, <3>1
    <3>2. CASE j # i - 1
      <4>1. ReplayOrder(q[j], q[i - 1]) /\ q[j] \in R /\ q[i - 1] \in R
        BY <1>1, <2>3, <3>2, SMTT(30)
      <4> QED
        BY <1>3, <4>1 DEF ReplayOrder
    <3> QED
      BY <3>1, <3>2
  <2> QED
    BY <2>1, <2>3, <2>4 DEF LastOf
<1>11. ASSUME d.pu <= s.last PROVE Continues(s, d)
  <2>1. s.last # NoId
    BY <1>6, <1>9, <1>11 DEF NoId
  <2>2. CASE d.pu = s.last
    BY <2>1, <2>2 DEF Continues
  <2>3. CASE d.pu # s.last
    <3> DEFINE k == s.kept[Len(s.kept)]
    <3>1. s.kept # << >> /\ s.last = k.u /\ (s.bracketing <=> k.kind = "snapshot")
      BY <2>1 DEF Selected, EndsAt
    <3>2. k \in R
      <4>1. s.kept \in Seq(R)
        BY DEF Selected, Selecting, R
      <4>2. Len(s.kept) \in 1..Len(s.kept)
        BY <3>1, <4>1
      <4> QED
        BY <4>1, <4>2
    <3> HIDE DEF k
    <3>3. d.pu < k.u /\ k.u < d.u
      BY <1>6, <1>9, <1>11, <2>3, <3>1
    <3>4. k.kind # "depth"
      <4>1. ASSUME k.kind = "depth" PROVE FALSE
        <5>1. k \in tape.depth
          BY <1>3, <3>2, <4>1
        <5>2. k.u <= d.pu
          BY <1>7, <3>3, <5>1
        <5> QED
          BY <1>3, <1>6, <3>2, <3>3, <5>2
      <4> QED
        BY <4>1
    <3>5. k \in tape.snapshot /\ s.bracketing
      BY <1>3, <1>4, <3>1, <3>2, <3>4
    <3>6. ~(k.u < d.U)
      BY <1>5, <3>3, <3>5 DEF Stranded
    <3>7. Brackets(d, s.last)
      BY <1>3, <1>6, <3>1, <3>2, <3>3, <3>6 DEF Brackets
    <3> QED
      BY <2>1, <3>5, <3>7 DEF Continues
  <2> QED
    BY <2>2, <2>3
<1>12. Anchors(d, tape.depth, tape.snapshot)
  BY <1>5 DEF GoodTape, Anchored
<1>13. ASSUME NEW x \in R, d.pu <= x.u, x.u < d.u PROVE Continues(s, d)
  <2>1. x.u <= s.last
    BY <1>10, <1>13
  <2>2. d.pu <= s.last
    BY <1>3, <1>6, <1>9, <1>13, <2>1
  <2> QED
    BY <1>11, <2>2
<1>14. CASE \E e \in tape.depth : e.u = d.pu
  <2>1. PICK e \in tape.depth : e.u = d.pu
    BY <1>14
  <2>2. e \in R /\ d.pu <= e.u /\ e.u < d.u
    BY <1>2, <1>6, <2>1
  <2> QED
    BY <1>9, <1>13, <2>2
<1>15. CASE \E x \in tape.snapshot : x.u = d.pu \/ Brackets(d, x.u)
  <2>1. PICK x \in tape.snapshot : x.u = d.pu \/ Brackets(d, x.u)
    BY <1>15
  <2>2. x \in R /\ x.u \in Int /\ x.kind = "snapshot"
    BY <1>2, <1>3, RowsAre
  <2>3. d.pu <= x.u /\ x.u <= d.u
    BY <1>6, <2>1, <2>2 DEF Brackets
  <2>4. CASE x.u < d.u
    BY <1>9, <1>13, <2>2, <2>3, <2>4
  <2>5. CASE x.u = d.u
    <3>1. PICK j \in 1..n : q[j] = x
      BY <1>1, <2>2
    <3>2. i < j
      <4>1. j # i
        BY <2>2, <3>1
      <4>2. ~(j < i)
        BY <1>8, <2>5, <3>1, <1>6
      <4> QED
        BY <1>1, <4>1, <4>2
    <3>3. i + 1 \in 1..n /\ i < i + 1 /\ i + 1 <= j
      BY <1>1, <3>2
    <3> DEFINE y == q[i + 1]
    <3>4. y \in R /\ y # d /\ ReplayOrder(d, y)
      BY <1>1, <3>3
    <3>5. y.u <= x.u
      <4>1. CASE i + 1 = j
        BY <2>2, <3>1, <4>1
      <4>2. CASE i + 1 # j
        <5>1. ReplayOrder(y, x)
          BY <1>1, <3>1, <3>3, <4>2
        <5> QED
          BY <1>3, <2>2, <3>4, <5>1 DEF ReplayOrder
      <4> QED
        BY <4>1, <4>2
    <3> HIDE DEF y, d
    <3>6. y.u = d.u
      BY <1>3, <1>6, <2>5, <3>4, <3>5 DEF ReplayOrder
    <3>7. y.kind = "snapshot"
      BY <1>3, <1>4, <1>7, <3>4, <3>6
    <3>8. RowAfter(q, i) = y
      <4>1. i < n
        BY <1>1, <3>3
      <4> QED
        BY <4>1 DEF RowAfter, y, n
    <3> QED
      BY <1>9, <3>6, <3>7, <3>8 DEF d
  <2> QED
    BY <2>3, <2>2, <1>6, <2>4, <2>5
<1> QED
  BY <1>12, <1>14, <1>15 DEF Anchors

\* The replay has dropped nothing, and stands at the last row or holds it.
OnChain(s, q, i) ==
  /\ s.offChain = 0
  /\ s.held = NoRow => s.last = LastOf(q, i)
  /\ s.held # NoRow => /\ i > 0 /\ s.held = q[i] /\ s.last < q[i].u
                       /\ RowAfter(q, i).kind = "snapshot" /\ RowAfter(q, i).u = q[i].u

(* No row leaves the chain (_select).                                      *)
LEMMA OnChainOn ==
  ASSUME NEW tape, GoodTape(tape), ~Stranded(tape),
         NEW q, InOrder(q, RowsOf(tape)), NEW i \in 1..Len(q),
         NEW s, Selected(s, RowsOf(tape)), OnChain(s, q, i - 1)
  PROVE  OnChain(TakeRow(s, q[i], RowAfter(q, i)), q, i)
<1> DEFINE R == RowsOf(tape)
           r == q[i]
           up == RowAfter(q, i)
<1>1. r \in R /\ R \subseteq GoodRows /\ i \in Nat /\ i > 0
  <2>1. Len(q) \in Nat /\ q \in Seq(R)
    BY DEF InOrder
  <2>2. R \subseteq GoodRows
    BY DEF GoodTape, RowsOf, GoodRows
  <2> HIDE DEF R
  <2> QED
    BY <2>1, <2>2
<1>2. /\ r.kind \in {"snapshot", "depth"} /\ r.u \in UpdateId /\ r.u \in Int
      /\ r.kind = "depth" => r.U <= r.u /\ r.U \in Int
  <2>1. \A x \in GoodRows : x.kind \in {"snapshot", "depth"} /\ x.u \in UpdateId
    BY RowsAre DEF GoodRows
  <2>2. \A x \in GoodRows : x.kind = "depth" => x.U <= x.u /\ x.U \in Int
    BY RowsAre DEF GoodRows
  <2> QED
    BY <1>1, <2>1, <2>2, RowsAre
<1>3. /\ s = [kept |-> s.kept, periodic |-> s.periodic, offChain |-> s.offChain, last |-> s.last,
              bracketing |-> s.bracketing, held |-> s.held]
      /\ s.offChain = 0
  BY DEF Selected, Selecting, OnChain
<1>4. LastOf(q, i) = r.u
  BY <1>1 DEF LastOf
<1>5. r # NoRow
  BY <1>2 DEF NoRow
<1>6. CASE r.kind = "depth"
  <2>1. s.held = NoRow
    <3>1. ASSUME s.held # NoRow PROVE FALSE
      <4>1. i - 1 > 0 /\ RowAfter(q, i - 1).kind = "snapshot"
        BY <3>1 DEF OnChain
      <4>2. RowAfter(q, i - 1) = r
        BY <1>1 DEF RowAfter
      <4> QED
        BY <1>6, <4>1, <4>2
    <3> QED
      BY <3>1
  <2>2. s.last = LastOf(q, i - 1)
    BY <2>1 DEF OnChain
  <2>3. s.last < r.u /\ (Continues(s, r) \/ (up.kind = "snapshot" /\ up.u = r.u))
    BY <1>6, <2>2, DeltaComesUp
  <2>4. TakeRow(s, r, up) = TakeDelta(s, r, up)
    BY <1>6 DEF TakeRow
  <2> HIDE DEF r, up
  <2>5. CASE Continues(s, r)
    <3>1. TakeDelta(s, r, up) = KeptOn(s, r, FALSE)
      BY <1>3, <2>5 DEF TakeDelta, KeptOn
    <3>2. /\ KeptOn(s, r, FALSE).offChain = 0 /\ KeptOn(s, r, FALSE).held = NoRow
          /\ KeptOn(s, r, FALSE).last = r.u
      BY <1>3 DEF KeptOn
    <3>3. OnChain(KeptOn(s, r, FALSE), q, i)
      BY <1>4, <3>2 DEF OnChain
    <3> QED
      BY <2>4, <3>1, <3>3 DEF r, up
  <2>6. CASE ~Continues(s, r)
    <3> DEFINE t == [kept |-> s.kept, periodic |-> s.periodic, offChain |-> s.offChain,
                     last |-> s.last, bracketing |-> s.bracketing, held |-> r]
    <3>1. TakeDelta(s, r, up) = t
      BY <1>3, <2>3, <2>6 DEF TakeDelta
    <3>2. t.offChain = 0 /\ t.held = r /\ t.last = s.last
      BY <1>3
    <3> HIDE DEF t
    <3>3. OnChain(t, q, i)
      BY <1>1, <1>5, <2>3, <2>6, <3>2 DEF OnChain, r, up
    <3> QED
      BY <2>4, <3>1, <3>3 DEF r, up
  <2> QED
    BY <2>5, <2>6
<1>7. CASE r.kind = "snapshot" /\ s.held = NoRow
  <2>1. TakeRow(s, r, up) = TakeSnapshot(s, r)
    BY <1>7 DEF TakeRow
  <2> HIDE DEF r, up
  <2>2. /\ TakeSnapshot(s, r).offChain = 0 /\ TakeSnapshot(s, r).held = NoRow
        /\ TakeSnapshot(s, r).last = r.u
    <3>1. CASE r.u = s.last
      <4>1. TakeSnapshot(s, r) = [kept |-> s.kept, periodic |-> s.periodic + 1, offChain |-> s.offChain,
                                  last |-> s.last, bracketing |-> s.bracketing, held |-> s.held]
        BY <1>3, <3>1 DEF TakeSnapshot
      <4> QED
        BY <1>3, <1>7, <3>1, <4>1
    <3>2. CASE r.u # s.last
      <4>1. TakeSnapshot(s, r) = KeptOn(s, r, TRUE)
        BY <1>3, <3>2 DEF TakeSnapshot, KeptOn
      <4> QED
        BY <1>3, <1>7, <4>1 DEF KeptOn
    <3> QED
      BY <3>1, <3>2
  <2>3. OnChain(TakeSnapshot(s, r), q, i)
    BY <1>4, <2>2 DEF OnChain
  <2> QED
    BY <2>1, <2>3 DEF r, up
<1>8. CASE r.kind = "snapshot" /\ s.held # NoRow
  <2> DEFINE d == s.held
             t == TakeSnapshot(s, r)
  <2>1. /\ i - 1 > 0 /\ d = q[i - 1] /\ s.last < d.u
        /\ RowAfter(q, i - 1).kind = "snapshot" /\ RowAfter(q, i - 1).u = d.u
    BY <1>8 DEF OnChain
  <2>2. RowAfter(q, i - 1) = r
    BY <1>1 DEF RowAfter
  <2>3. d.u = r.u /\ d \in R /\ d.kind = "depth"
    BY <1>8, <2>1, <2>2 DEF Selected, Selecting
  <2>4. d.U <= d.u /\ d.U \in Int /\ d.u \in Int
    <3>1. d \in GoodDiffs
      BY <1>1, <2>3, RowsAre DEF GoodRows
    <3> QED
      BY <3>1, RowsAre
  <2>5. s.last # r.u
    <3>1. s.last \in UpdateId \cup {NoId}
      BY DEF Selected, Selecting
    <3>2. s.last \in Int
      BY <3>1, RowsAre
    <3> QED
      BY <2>1, <2>3, <2>4, <3>2
  <2>6. TakeRow(s, r, up) = TakeDelta(t, d, up)
    BY <1>8 DEF TakeRow
  <2> HIDE DEF r, up, d
  <2>7. t = KeptOn(s, r, TRUE)
    BY <1>3, <2>5 DEF TakeSnapshot, KeptOn
  <2>8. t.last = r.u /\ t.bracketing /\ t.offChain = 0
    BY <1>3, <2>7 DEF KeptOn
  <2> HIDE DEF t
  <2>9. Continues(t, d)
    <3>1. r.u # NoId
      BY <1>2, RowsAre
    <3>2. Brackets(d, r.u)
      BY <2>3, <2>4 DEF Brackets
    <3> QED
      BY <2>8, <3>1, <3>2 DEF Continues
  <2>10. /\ TakeDelta(t, d, up).offChain = 0 /\ TakeDelta(t, d, up).held = NoRow
         /\ TakeDelta(t, d, up).last = d.u
    <3>1. TakeDelta(t, d, up) = [t EXCEPT !.kept = Append(@, d), !.last = d.u, !.bracketing = FALSE, !.held = NoRow]
      BY <2>9 DEF TakeDelta
    <3>2. /\ t = [kept |-> t.kept, periodic |-> t.periodic, offChain |-> t.offChain,
                  last |-> t.last, bracketing |-> t.bracketing, held |-> t.held]
      BY <2>7 DEF KeptOn
    <3> QED
      BY <2>8, <3>1, <3>2
  <2>11. OnChain(TakeDelta(t, d, up), q, i)
    BY <1>4, <2>3, <2>10 DEF OnChain
  <2> QED
    BY <2>6, <2>11 DEF r, up
<1> QED
  BY <1>2, <1>6, <1>7, <1>8

(* A replay of a good tape on which no snapshot strands a diff drops none, *)
(* and ends where the last row does (_select).                             *)
LEMMA NothingDropped ==
  ASSUME NEW tape, GoodTape(tape), ~Stranded(tape)
  PROVE  /\ Select(tape).offChain = 0
         /\ \A r \in RowsOf(tape) : r.u <= Select(tape).last
<1> DEFINE R == RowsOf(tape)
           q == Ordered(tape)
           n == Len(q)
           g == SelectTable(q)
<1>1. InOrder(q, R) /\ R \subseteq GoodRows
  BY OrderedIs DEF GoodTape, RowsOf, GoodRows
<1>2. q \in Seq(R) /\ n \in Nat
  BY <1>1 DEF InOrder
<1> HIDE DEF R, q, n
<1>3. /\ g[0] = Unselected
      /\ \A i \in 1..n : g[i] = TakeRow(g[i - 1], q[i], RowAfter(q, i))
      /\ \A i \in 0..n : Selected(g[i], R)
  BY <1>1, <1>2, SelectLoop DEF n
<1> HIDE DEF g
<1> DEFINE Q == {i \in 0..n : OnChain(g[i], q, i)}
<1>4. 0 \in Q
  <2>1. Unselected.offChain = 0 /\ Unselected.held = NoRow /\ Unselected.last = NoId
    BY DEF Unselected
  <2>2. OnChain(Unselected, q, 0)
    BY <2>1 DEF OnChain, LastOf
  <2> QED
    BY <1>2, <1>3, <2>2
<1>5. ASSUME NEW i \in 1..n, i - 1 \in Q PROVE i \in Q
  <2>1. i - 1 \in 0..n /\ OnChain(g[i - 1], q, i - 1)
    BY <1>5
  <2>2. Selected(g[i - 1], R)
    BY <1>3, <2>1
  <2>3. OnChain(TakeRow(g[i - 1], q[i], RowAfter(q, i)), q, i)
    BY <1>1, <2>1, <2>2, OnChainOn DEF n, R
  <2> QED
    BY <1>2, <1>3, <2>3
<1> HIDE DEF Q
<1>6. OnChain(g[n], q, n)
  <2>1. \A i \in 0..n : i \in Q
    BY <1>2, <1>4, <1>5, CountUp
  <2>2. n \in Q
    BY <1>2, <2>1
  <2> QED
    BY <2>2 DEF Q
<1>7. g[n].offChain = 0 /\ g[n].last = LastOf(q, n)
  <2>1. RowAfter(q, n) = NoRow
    BY <1>2 DEF RowAfter, n
  <2> QED
    BY <1>6, <2>1 DEF OnChain, NoRow
<1>8. ASSUME NEW r \in R PROVE r.u <= g[n].last
  <2>1. PICK j \in 1..n : q[j] = r
    BY <1>1 DEF InOrder, n
  <2>2. n # 0 /\ n \in 1..n /\ LastOf(q, n) = q[n].u
    BY <1>2, <2>1 DEF LastOf
  <2>3. q[n] \in R /\ r.u \in Int /\ q[n].u \in Int
    <3>1. q[n] \in R
      BY <1>2, <2>2 DEF n
    <3>2. \A x \in GoodRows : x.u \in UpdateId
      BY RowsAre DEF GoodRows
    <3> QED
      BY <1>1, <3>1, <3>2, RowsAre
  <2>4. CASE j = n
    BY <1>7, <2>1, <2>2, <2>3, <2>4
  <2>5. CASE j # n
    <3>1. ReplayOrder(r, q[n])
      BY <1>1, <2>1, <2>2, <2>5, SMTT(30) DEF InOrder, n
    <3> QED
      BY <1>7, <2>2, <2>3, <3>1 DEF ReplayOrder
  <2> QED
    BY <2>4, <2>5
<1>9. Select(tape) = g[n]
  BY DEF Select, g, n, q
<1> QED
  BY <1>7, <1>8, <1>9 DEF R

-----------------------------------------------------------------------------
\* The integrity check.

Walker == [last : UpdateId \cup {NoId}, breaks : Nat]

\* The walk over sorted diffs has met no break.
WalkedSoFar(acc, deltas, i) == acc \in Walker /\ acc.last = LastOf(deltas, i) /\ acc.breaks = 0

(* The next diff in id order follows the last one, or a snapshot explains  *)
(* it (quality.py, _chain).                                                *)
LEMMA WalksOn ==
  ASSUME NEW tape, GoodTape(tape), NEW deltas, Sorts(deltas, tape.depth, ById(tape.depth)),
         NEW i \in 1..Len(deltas), NEW acc, WalkedSoFar(acc, deltas, i - 1)
  PROVE  WalkedSoFar(Walked(acc, deltas[i], {r.u : r \in tape.snapshot}), deltas, i)
<1> DEFINE D == tape.depth
           d == deltas[i]
           n == Len(deltas)
           ids == {r.u : r \in tape.snapshot}
<1>1. /\ n \in Nat /\ i \in Nat /\ i # 0 /\ \A j \in 1..n : deltas[j] \in D
      /\ \A e \in D : \E j \in 1..n : deltas[j] = e
      /\ \A j, k \in 1..n : j < k => deltas[j] # deltas[k] /\ deltas[j].u <= deltas[k].u
  <2>1. \A x, y : <<x, y>> \in ById(D) => x.u <= y.u
    BY DEF ById
  <2>2. /\ deltas \in Seq(D) /\ n \in Nat /\ \A e \in D : \E j \in 1..n : deltas[j] = e
        /\ \A j, k \in 1..n : j < k => deltas[j] # deltas[k] /\ <<deltas[j], deltas[k]>> \in ById(D)
    BY DEF Sorts
  <2>3. i \in Nat /\ i # 0 /\ \A j \in 1..n : deltas[j] \in D
    BY <2>2
  <2> HIDE DEF n, D
  <2> QED
    BY <2>1, <2>2, <2>3
<1>2. /\ \A e \in D : e.u \in Int /\ e.pu \in Int /\ e.pu < e.u /\ e.u \in UpdateId
      /\ \A e, f \in D : (e.u < f.u => e.u <= f.pu) /\ (e.u = f.u => e = f)
  <2>1. \A e \in GoodDiffs : e.u \in UpdateId /\ e.pu \in UpdateId /\ e.pu < e.U /\ e.U <= e.u /\ e.U \in UpdateId
    BY RowsAre
  <2>2. D \subseteq GoodDiffs
    BY DEF GoodTape
  <2>3. UpdateId \subseteq Int
    BY RowsAre
  <2>4. ASSUME NEW e \in GoodDiffs
        PROVE  e.u \in Int /\ e.pu \in Int /\ e.pu < e.u /\ e.u \in UpdateId
    <3>1. e.u \in Int /\ e.pu \in Int /\ e.U \in Int
      BY <2>1, <2>3
    <3>2. e.pu < e.U /\ e.U <= e.u /\ e.u \in UpdateId
      BY <2>1
    <3> QED
      BY <3>1, <3>2
  <2>5. \A e, f \in D : (e.u < f.u => e.u <= f.pu) /\ (e.u = f.u => e = f)
    BY Zenon DEF GoodTape, InLine
  <2> HIDE DEF D
  <2> QED
    BY <2>2, <2>4, <2>5
<1>3. Anchors(d, D, tape.snapshot) /\ d \in D
  BY <1>1 DEF GoodTape, Anchored
<1> HIDE DEF D, n
<1>4. d.pu = acc.last \/ Explained(d, ids)
  <2>1. CASE \E s \in tape.snapshot : s.u = d.pu \/ Brackets(d, s.u)
    <3>1. PICK s \in tape.snapshot : s.u = d.pu \/ Brackets(d, s.u)
      BY <2>1
    <3>2. s.u \in ids
      OBVIOUS
    <3> HIDE DEF ids, d
    <3> QED
      BY <3>1, <3>2, Zenon DEF Explained
  <2>2. CASE \E e \in D : e.u = d.pu
    <3>1. PICK e \in D : e.u = d.pu
      BY <2>2
    <3>2. PICK j \in 1..n : deltas[j] = e
      BY <1>1
    <3>3. j < i
      <4>1. CASE i = j
        BY <1>2, <1>3, <3>1, <3>2, <4>1
      <4>2. CASE i < j
        <5>1. d.u <= e.u
          BY <1>1, <3>2, <4>2 DEF n
        <5> QED
          BY <1>2, <1>3, <3>1, <5>1
      <4> QED
        BY <1>1, <4>1, <4>2
    <3>4. i - 1 \in 1..n /\ i - 1 < i /\ i - 1 # 0 /\ j <= i - 1 /\ i \in 1..n
      BY <1>1, <3>3 DEF n
    <3> DEFINE x == deltas[i - 1]
    <3>5. x \in D /\ x # d /\ x.u <= d.u
      BY <1>1, <3>4
    <3>6. e.u <= x.u
      <4>1. CASE j = i - 1
        BY <1>2, <3>2, <4>1
      <4>2. CASE j # i - 1
        <5>1. j < i - 1
          BY <1>1, <3>4, <4>2
        <5> QED
          BY <1>1, <3>2, <3>4, <5>1
      <4> QED
        BY <4>1, <4>2
    <3> HIDE DEF x, d
    <3>7. x.u # d.u
      BY <1>2, <1>3, <3>5
    <3>8. x.u < d.u
      BY <1>2, <1>3, <3>5, <3>7
    <3>9. x.u <= d.pu
      BY <1>2, <1>3, <3>5, <3>8
    <3>10. x.u = d.pu
      BY <1>2, <1>3, <3>1, <3>5, <3>6, <3>9
    <3>11. acc.last = x.u
      BY <3>4 DEF WalkedSoFar, LastOf, x
    <3> QED
      BY <3>10, <3>11
  <2> QED
    BY <1>3, <2>1, <2>2 DEF Anchors
<1> HIDE DEF d, ids
<1>5. Walked(acc, d, ids) = [last |-> d.u, breaks |-> 0]
  BY <1>4 DEF Walked, WalkedSoFar
<1>6. d.u \in UpdateId
  BY <1>2, <1>3
<1>7. Walked(acc, d, ids) \in Walker
  BY <1>5, <1>6 DEF Walker
<1>8. LastOf(deltas, i) = d.u
  BY <1>1 DEF LastOf, d
<1> QED
  BY <1>5, <1>7, <1>8 DEF WalkedSoFar, d, ids

(* The integrity check finds no break on a good tape (_chain).             *)
LEMMA NoBreaks ==
  ASSUME NEW tape, GoodTape(tape)
  PROVE  Breaks(tape) = 0
<1> DEFINE D == tape.depth
           deltas == SortedRows(D, ById(D))
           n == Len(deltas)
           ids == {r.u : r \in tape.snapshot}
           start == [last |-> NoId, breaks |-> 0]
           S == Walker
           step == [i \in 1..n |-> [acc \in S |-> Walked(acc, deltas[i], ids)]]
           Is(f) == f = [i \in 0..n |-> IF i = 0 THEN [last |-> NoId, breaks |-> 0]
                                        ELSE Walked(f[i - 1], deltas[i], ids)]
           g == WalkTable(deltas, ids)
<1>1. \A d \in D : d.u \in UpdateId /\ d.u \in Int
  BY RowsAre DEF GoodTape
<1>2. Sorts(deltas, D, ById(D))
  <2>1. Compares(ById(D), D)
    BY <1>1 DEF Compares, ById
  <2>2. IsFiniteSet(D)
    BY DEF GoodTape
  <2> HIDE DEF D
  <2> QED
    BY <2>1, <2>2, SortedIs
<1> HIDE DEF deltas
<1>3. n \in Nat /\ \A i \in 1..n : deltas[i] \in D
  BY <1>2 DEF Sorts
<1>4. start \in S /\ WalkedSoFar(start, deltas, 0)
  BY DEF Walker, WalkedSoFar, LastOf
<1>5. \A i \in 1..n, acc \in S : Walked(acc, deltas[i], ids) \in S
  <2> SUFFICES ASSUME NEW i \in 1..n, NEW acc \in S PROVE Walked(acc, deltas[i], ids) \in S
    OBVIOUS
  <2>1. acc.breaks \in Nat /\ acc.breaks + 1 \in Nat /\ deltas[i].u \in UpdateId
    BY <1>1, <1>3 DEF Walker
  <2> QED
    BY <2>1 DEF Walked, Walker
<1>6. step \in [1..n -> [S -> S]]
  BY <1>5
<1>7. g = CHOOSE f : Is(f)
  BY DEF WalkTable
<1> HIDE DEF n, step, S, ids
<1>8. PICK f : LoopTable(f, n, S, start, step)
  BY <1>3, <1>4, <1>6, LoopFound
<1>9. /\ f = [i \in 0..n |-> f[i]] /\ f[0] = start
      /\ \A i \in 1..n : f[i] = step[i][f[i - 1]]
      /\ \A i \in 0..n : f[i] \in S
  BY <1>8 DEF LoopTable
<1>10. Is(f)
  <2>1. ASSUME NEW i \in 0..n
        PROVE  f[i] = IF i = 0 THEN start ELSE Walked(f[i - 1], deltas[i], ids)
    <3>1. CASE i = 0
      BY <1>9, <3>1
    <3>2. CASE i # 0
      <4>1. i \in 1..n /\ f[i - 1] \in S
        BY <1>3, <1>9, <3>2
      <4> QED
        BY <1>9, <3>2, <4>1 DEF step
    <3> QED
      BY <3>1, <3>2
  <2> QED
    BY <1>9, <2>1
<1>11. Is(g)
  <2> HIDE DEF g
  <2> QED
    BY <1>7, <1>10
<1>12. g[0] = start /\ \A i \in 1..n : g[i] = Walked(g[i - 1], deltas[i], ids)
  <2> HIDE DEF g
  <2>1. 0 \in 0..n /\ \A i \in 1..n : i \in 0..n /\ i # 0
    BY <1>3
  <2> QED
    BY <1>11, <2>1
<1> HIDE DEF g, start
<1> DEFINE Q == {i \in 0..n : WalkedSoFar(g[i], deltas, i)}
<1>13. 0 \in Q
  BY <1>3, <1>4, <1>12
<1>14. ASSUME NEW i \in 1..n, i - 1 \in Q PROVE i \in Q
  <2>1. WalkedSoFar(g[i - 1], deltas, i - 1)
    BY <1>14
  <2>2. WalkedSoFar(Walked(g[i - 1], deltas[i], ids), deltas, i)
    BY <1>2, <2>1, WalksOn DEF n, ids
  <2> QED
    BY <1>12, <2>2
<1> HIDE DEF Q
<1>15. WalkedSoFar(g[n], deltas, n)
  <2>1. \A i \in 0..n : i \in Q
    BY <1>3, <1>13, <1>14, CountUp
  <2>2. n \in Q
    BY <1>3, <2>1
  <2> QED
    BY <2>2 DEF Q
<1>16. Breaks(tape) = g[n].breaks
  BY DEF Breaks, g, n, ids, deltas
<1> QED
  BY <1>15, <1>16 DEF WalkedSoFar

-----------------------------------------------------------------------------
\* The reconstructions.

Outcome == [ok : BOOLEAN, book : Book]

Sound(acc) == acc \in Outcome /\ Faithful(acc.book)

(* A reconstruction starts from a faithful book.                           *)
LEMMA StartsSound ==
  ASSUME NEW r \in GoodSnaps
  PROVE  LET b == ApplyRow(EmptyBook, r)
         IN  Sound(Rebuilt(b)) /\ Rebuilt(b).ok /\ Rebuilt(b).book.last = r.u
<1>1. /\ ApplyRow(EmptyBook, r) \in Book /\ Faithful(ApplyRow(EmptyBook, r))
      /\ ApplyRow(EmptyBook, r).last = r.u
  BY SnapshotRead
<1> QED
  BY <1>1 DEF Rebuilt, Sound, Outcome

(* A diff extends a sound book to a sound one, or ends the reconstruction; *)
(* one that is newer is taken or refused (apply_delta).                    *)
LEMMA ExtendsSound ==
  ASSUME NEW acc, Sound(acc), NEW d \in GoodDiffs
  PROVE  /\ Sound(Extend(acc, d))
         /\ Extend(acc, d).ok => acc.ok
         /\ Extend(acc, d).ok /\ acc.book.last # NoId /\ acc.book.last < d.u =>
              Extend(acc, d).book.last = d.u
<1>1. acc.ok \in BOOLEAN /\ acc.book \in Book /\ Faithful(acc.book)
  BY DEF Sound, Outcome
<1>2. CASE ~acc.ok \/ Verdict(acc.book, d) = "gap"
  <2>1. Extend(acc, d) = Failed
    BY <1>2 DEF Extend
  <2>2. Failed.book = EmptyBook /\ ~Failed.ok /\ EmptyBook \in Book /\ Faithful(EmptyBook)
    BY DEF Failed, EmptyBook, Book, Faithful
  <2>3. Failed \in Outcome
    BY <2>2 DEF Failed, Outcome
  <2> QED
    BY <2>1, <2>2, <2>3 DEF Sound
<1>3. CASE acc.ok /\ Verdict(acc.book, d) # "gap"
  <2> DEFINE b == ApplyDelta(acc.book, d)
  <2>1. Extend(acc, d) = Rebuilt(b)
    BY <1>3 DEF Extend
  <2>2. Rebuilt(b).ok /\ Rebuilt(b).book = b
    BY DEF Rebuilt
  <2>3. CASE Verdict(acc.book, d) = "applied"
    <3>1. b \in Book /\ Faithful(b) /\ b.last = d.u
      BY <1>1, <2>3, DiffRead
    <3>2. Rebuilt(b) \in Outcome
      BY <3>1 DEF Rebuilt, Outcome
    <3> HIDE DEF b
    <3> QED
      BY <1>3, <2>1, <2>2, <3>1, <3>2 DEF Sound
  <2>4. CASE Verdict(acc.book, d) # "applied"
    <3>1. b = acc.book
      BY <1>3, <2>4 DEF ApplyDelta
    <3>2. Rebuilt(b) \in Outcome
      BY <1>1, <3>1 DEF Rebuilt, Outcome
    <3>3. ~(acc.book.last # NoId /\ acc.book.last < d.u)
      <4>1. acc.book.last \in Int /\ d.u \in Int
        BY <1>1, RowsAre DEF Book
      <4>2. acc.book.last = NoId \/ d.u < acc.book.last
        BY <1>3, <2>4 DEF Verdict
      <4> QED
        BY <4>1, <4>2
    <3> HIDE DEF b
    <3> QED
      BY <1>1, <1>3, <2>1, <2>2, <3>1, <3>2, <3>3 DEF Sound
  <2> QED
    BY <2>3, <2>4
<1> QED
  BY <1>2, <1>3

(* The same on the way to an update id.                                    *)
LEMMA TowardsSound ==
  ASSUME NEW acc, Sound(acc), NEW d \in GoodDiffs, NEW R
  PROVE  Sound(Towards(acc, d, R))
BY ExtendsSound DEF Towards

(* The same for every diff up to the id.                                   *)
LEMMA TowardsLoop ==
  ASSUME NEW b, Sound(Rebuilt(b)), NEW deltas \in Seq(GoodDiffs), NEW R
  PROVE  \A i \in 0..Len(deltas) : Sound(TowardsTable(b, deltas, R)[i])
<1> DEFINE n == Len(deltas)
           S == {acc \in Outcome : Sound(acc)}
           step == [i \in 1..n |-> [acc \in S |-> Towards(acc, deltas[i], R)]]
           Is(f) == f = [i \in 0..n |-> IF i = 0 THEN Rebuilt(b) ELSE Towards(f[i - 1], deltas[i], R)]
           g == TowardsTable(b, deltas, R)
<1>1. n \in Nat /\ \A i \in 1..n : deltas[i] \in GoodDiffs
  OBVIOUS
<1>2. Rebuilt(b) \in S
  BY DEF Sound
<1>3. \A i \in 1..n, acc \in S : Towards(acc, deltas[i], R) \in S
  <2> SUFFICES ASSUME NEW i \in 1..n, NEW acc \in S PROVE Towards(acc, deltas[i], R) \in S
    OBVIOUS
  <2>1. Sound(Towards(acc, deltas[i], R))
    BY <1>1, TowardsSound
  <2> QED
    BY <2>1 DEF Sound
<1>4. step \in [1..n -> [S -> S]]
  BY <1>3
<1>5. g = CHOOSE f : Is(f)
  BY DEF TowardsTable
<1> HIDE DEF n, step, S
<1>6. PICK f : LoopTable(f, n, S, Rebuilt(b), step)
  BY <1>1, <1>2, <1>4, LoopFound
<1>7. /\ f = [i \in 0..n |-> f[i]] /\ f[0] = Rebuilt(b)
      /\ \A i \in 1..n : f[i] = step[i][f[i - 1]]
      /\ \A i \in 0..n : f[i] \in S
  BY <1>6 DEF LoopTable
<1>8. Is(f)
  <2>1. ASSUME NEW i \in 0..n
        PROVE  f[i] = IF i = 0 THEN Rebuilt(b) ELSE Towards(f[i - 1], deltas[i], R)
    <3>1. CASE i = 0
      BY <1>7, <3>1
    <3>2. CASE i # 0
      <4>1. i \in 1..n /\ f[i - 1] \in S
        BY <1>1, <1>7, <3>2
      <4> QED
        BY <1>7, <3>2, <4>1 DEF step
    <3> QED
      BY <3>1, <3>2
  <2> QED
    BY <1>7, <2>1
<1>9. Is(g)
  <2> HIDE DEF g
  <2> QED
    BY <1>5, <1>8
<1>10. g[0] = Rebuilt(b) /\ \A i \in 1..n : g[i] = Towards(g[i - 1], deltas[i], R)
  <2> HIDE DEF g
  <2>1. 0 \in 0..n /\ \A i \in 1..n : i \in 0..n /\ i # 0
    BY <1>1
  <2> QED
    BY <1>9, <2>1
<1> HIDE DEF g
<1>11. \A i \in 0..n : g[i] \in S
  <2>1. \A i \in 1..n : g[i - 1] \in S => g[i] \in S
    BY <1>3, <1>10
  <2> QED
    BY <1>1, <1>2, <1>10, <2>1, LoopStays
<1> QED
  BY <1>11 DEF S, g, n

\* A snapshot to start from.
LEMMA LatestAre ==
  ASSUME NEW S, S \subseteq GoodSnaps, IsFiniteSet(S), S # {}
  PROVE  LatestId(S) \in S /\ LatestTime(S) \in S
<1> DEFINE byId == {p \in S \X S : p[2].u < p[1].u \/ (p[2].u = p[1].u /\ p[2].ts <= p[1].ts)}
           byTime == {p \in S \X S : p[2].ts < p[1].ts \/ (p[2].ts = p[1].ts /\ p[2].u <= p[1].u)}
<1>1. \A r \in S : r.u \in Int /\ r.ts \in Int
  BY RowsAre
<1>2. /\ \A r, s \in S : <<r, s>> \in byId <=> s.u < r.u \/ (s.u = r.u /\ s.ts <= r.ts)
      /\ \A r, s \in S : <<r, s>> \in byTime <=> s.ts < r.ts \/ (s.ts = r.ts /\ s.u <= r.u)
  OBVIOUS
<1> HIDE DEF byId, byTime
<1>3. Compares(byId, S) /\ Compares(byTime, S)
  BY <1>1, <1>2 DEF Compares
<1>4. /\ FirstOf(S, byId) \in S /\ \A s \in S : <<FirstOf(S, byId), s>> \in byId
      /\ FirstOf(S, byTime) \in S /\ \A s \in S : <<FirstOf(S, byTime), s>> \in byTime
  BY <1>3, FirstIsFirst
<1>5. PICK r \in S : \A s \in S : s.u < r.u \/ (s.u = r.u /\ s.ts <= r.ts)
  BY <1>2, <1>4
<1>6. PICK r2 \in S : \A s \in S : s.ts < r2.ts \/ (s.ts = r2.ts /\ s.u <= r2.u)
  BY <1>2, <1>4
<1>7. LatestId(S) \in S
  BY <1>5, Zenon DEF LatestId
<1>8. LatestTime(S) \in S
  BY <1>6, Zenon DEF LatestTime
<1> QED
  BY <1>7, <1>8

(* The reconstruction at an update id.                                     *)
LEMMA AtIdIsFaithful ==
  ASSUME NEW tape, GoodTape(tape), NEW R \in UpdateId, BookAtId(tape, R).ok
  PROVE  BookAtId(tape, R).book.last >= R /\ Faithful(BookAtId(tape, R).book)
<1> DEFINE eligible == {r \in tape.snapshot : r.u <= R}
           chosen == LatestId(eligible)
           later == {d \in tape.depth : d.u > chosen.u}
           deltas == SortedRows(later, ById(later))
           b == ApplyRow(EmptyBook, chosen)
           result == TowardsTable(b, deltas, R)[Len(deltas)]
<1>1. BookAtId(tape, R) = IF eligible = {} \/ result.book.last < R THEN Failed ELSE result
  BY DEF BookAtId
<1> HIDE DEF result
<1>2. BookAtId(tape, R) = result /\ eligible # {} /\ ~(result.book.last < R)
  BY <1>1 DEF Failed
<1>3. chosen \in GoodSnaps
  <2>1. IsFiniteSet(eligible) /\ eligible \subseteq GoodSnaps
    BY FS_Subset DEF GoodTape
  <2> HIDE DEF eligible
  <2>2. chosen \in eligible
    BY <1>2, <2>1, LatestAre
  <2> QED
    BY <2>1, <2>2
<1> HIDE DEF chosen
<1>4. Sorts(deltas, later, ById(later)) /\ later \subseteq GoodDiffs
  <2>1. IsFiniteSet(later) /\ later \subseteq GoodDiffs
    BY FS_Subset DEF GoodTape
  <2> HIDE DEF later
  <2>2. \A d \in later : d.u \in Int
    BY <2>1, RowsAre
  <2>3. Compares(ById(later), later)
    BY <2>2 DEF Compares, ById
  <2> QED
    BY <2>1, <2>3, SortedIs
<1> HIDE DEF later, deltas
<1>5. deltas \in Seq(GoodDiffs) /\ Len(deltas) \in Nat
  BY <1>4 DEF Sorts
<1>6. Sound(Rebuilt(b))
  BY <1>3, StartsSound
<1> HIDE DEF b
<1>7. Sound(result)
  BY <1>5, <1>6, TowardsLoop DEF result
<1>8. result.book.last >= R
  <2>1. result.book.last \in Int /\ R \in Int
    BY <1>7, RowsAre DEF Sound, Outcome, Book
  <2> QED
    BY <1>2, <2>1
<1> QED
  BY <1>2, <1>7, <1>8 DEF Sound

\* A reconstruction in time: where it starts, and that it keeps up.
KeptUp(acc, c, deltas, i) ==
  /\ Sound(acc)
  /\ acc.ok => acc.book.last = IF i = 0 THEN c.u ELSE deltas[i].u

\* The diffs of a time span, in order.
Climbs(deltas, c) ==
  /\ deltas \in Seq(GoodDiffs) /\ Len(deltas) \in Nat
  /\ \A i \in 1..Len(deltas) : c.u < deltas[i].u
  /\ \A i, j \in 1..Len(deltas) : i < j => deltas[i].u < deltas[j].u

(* The same for every diff of a time span, none of which is passed over.   *)
LEMMA ExtendLoop ==
  ASSUME NEW c \in GoodSnaps, NEW deltas, Climbs(deltas, c)
  PROVE  \A i \in 0..Len(deltas) :
           KeptUp(ExtendTable(ApplyRow(EmptyBook, c), deltas)[i], c, deltas, i)
<1> DEFINE n == Len(deltas)
           b == ApplyRow(EmptyBook, c)
           S == {acc \in Outcome : Sound(acc)}
           step == [i \in 1..n |-> [acc \in S |-> Extend(acc, deltas[i])]]
           Is(f) == f = [i \in 0..n |-> IF i = 0 THEN Rebuilt(b) ELSE Extend(f[i - 1], deltas[i])]
           g == ExtendTable(b, deltas)
<1>1. n \in Nat /\ \A i \in 1..n : deltas[i] \in GoodDiffs
  BY DEF Climbs
<1>2. Rebuilt(b) \in S /\ KeptUp(Rebuilt(b), c, deltas, 0)
  <2>1. Sound(Rebuilt(b)) /\ Rebuilt(b).book.last = c.u
    BY StartsSound
  <2> HIDE DEF b
  <2> QED
    BY <2>1 DEF Sound, KeptUp
<1> HIDE DEF b
<1>3. \A i \in 1..n, acc \in S : Extend(acc, deltas[i]) \in S
  <2> SUFFICES ASSUME NEW i \in 1..n, NEW acc \in S PROVE Extend(acc, deltas[i]) \in S
    OBVIOUS
  <2>1. Sound(Extend(acc, deltas[i]))
    BY <1>1, ExtendsSound
  <2> QED
    BY <2>1 DEF Sound
<1>4. step \in [1..n -> [S -> S]]
  BY <1>3
<1>5. g = CHOOSE f : Is(f)
  BY DEF ExtendTable
<1> HIDE DEF n, step, S
<1>6. PICK f : LoopTable(f, n, S, Rebuilt(b), step)
  BY <1>1, <1>2, <1>4, LoopFound
<1>7. /\ f = [i \in 0..n |-> f[i]] /\ f[0] = Rebuilt(b)
      /\ \A i \in 1..n : f[i] = step[i][f[i - 1]]
      /\ \A i \in 0..n : f[i] \in S
  BY <1>6 DEF LoopTable
<1>8. Is(f)
  <2>1. ASSUME NEW i \in 0..n
        PROVE  f[i] = IF i = 0 THEN Rebuilt(b) ELSE Extend(f[i - 1], deltas[i])
    <3>1. CASE i = 0
      BY <1>7, <3>1
    <3>2. CASE i # 0
      <4>1. i \in 1..n /\ f[i - 1] \in S
        BY <1>1, <1>7, <3>2
      <4> QED
        BY <1>7, <3>2, <4>1 DEF step
    <3> QED
      BY <3>1, <3>2
  <2> QED
    BY <1>7, <2>1
<1>9. Is(g)
  <2> HIDE DEF g
  <2> QED
    BY <1>5, <1>8
<1>10. g[0] = Rebuilt(b) /\ \A i \in 1..n : g[i] = Extend(g[i - 1], deltas[i])
  <2> HIDE DEF g
  <2>1. 0 \in 0..n /\ \A i \in 1..n : i \in 0..n /\ i # 0
    BY <1>1
  <2> QED
    BY <1>9, <2>1
<1> HIDE DEF g
<1> DEFINE Q == {i \in 0..n : KeptUp(g[i], c, deltas, i)}
<1>11. 0 \in Q
  BY <1>1, <1>2, <1>10
<1>12. ASSUME NEW i \in 1..n, i - 1 \in Q PROVE i \in Q
  <2> DEFINE acc == g[i - 1]
             d == deltas[i]
  <2>1. KeptUp(acc, c, deltas, i - 1) /\ d \in GoodDiffs /\ i \in 0..n /\ i # 0
    BY <1>1, <1>12
  <2>2. acc.ok => acc.book.last # NoId /\ acc.book.last < d.u
    <3> SUFFICES ASSUME acc.ok PROVE acc.book.last # NoId /\ acc.book.last < d.u
      OBVIOUS
    <3>1. CASE i = 1
      <4>1. acc.book.last = c.u
        BY <2>1, <3>1 DEF KeptUp
      <4>2. c.u < d.u /\ c.u # NoId
        BY <1>1, RowsAre DEF Climbs, n
      <4> QED
        BY <4>1, <4>2
    <3>2. CASE i # 1
      <4>1. i - 1 # 0 /\ i - 1 \in 1..n /\ i - 1 < i
        BY <1>1, <3>2
      <4>2. acc.book.last = deltas[i - 1].u
        BY <2>1, <4>1 DEF KeptUp
      <4>3. deltas[i - 1].u < d.u /\ deltas[i - 1].u # NoId
        <5>1. deltas[i - 1].u < d.u
          BY <4>1 DEF Climbs, n
        <5>2. deltas[i - 1].u # NoId
          BY <1>1, <4>1, RowsAre
        <5> QED
          BY <5>1, <5>2
      <4> QED
        BY <4>2, <4>3
    <3> QED
      BY <3>1, <3>2
  <2>3. Sound(acc)
    BY <2>1 DEF KeptUp
  <2> HIDE DEF acc, d
  <2>4. Sound(Extend(acc, d)) /\ (Extend(acc, d).ok => Extend(acc, d).book.last = d.u)
    BY <2>1, <2>2, <2>3, ExtendsSound
  <2>5. KeptUp(Extend(acc, d), c, deltas, i)
    BY <2>1, <2>4 DEF KeptUp, d
  <2> QED
    BY <1>10, <2>1, <2>5 DEF acc, d
<1>13. \A i \in 0..n : i \in Q
  <2> HIDE DEF Q
  <2> QED
    BY <1>1, <1>11, <1>12, CountUp
<1> QED
  BY <1>13 DEF g, n, b

(* The reconstruction at a time.                                           *)
LEMMA AtTimeIsFaithful ==
  ASSUME NEW tape, GoodTape(tape), NEW T \in UpdateId, BookAtTime(tape, T).ok
  PROVE  LET b == BookAtTime(tape, T)
         IN  /\ b.book.last <= T /\ Faithful(b.book)
             /\ \A d \in tape.depth :
                  d.ts <= T /\ d.u > b.book.last =>
                    \E s \in tape.snapshot : s.u = b.book.last /\ d.ts <= s.ts
<1> DEFINE eligible == {r \in tape.snapshot : r.ts <= T}
           c == LatestTime(eligible)
           later == {d \in tape.depth : c.ts < d.ts /\ d.ts <= T}
           deltas == SortedRows(later, ByTime(later))
           n == Len(deltas)
           result == ExtendTable(ApplyRow(EmptyBook, c), deltas)[n]
<1>1. BookAtTime(tape, T) = IF eligible = {} THEN Failed ELSE result
  BY DEF BookAtTime
<1> HIDE DEF result
<1>2. BookAtTime(tape, T) = result /\ eligible # {} /\ result.ok
  BY <1>1 DEF Failed
<1>3. c \in GoodSnaps /\ c \in tape.snapshot /\ c.ts <= T
  <2>1. IsFiniteSet(eligible) /\ eligible \subseteq GoodSnaps
    BY FS_Subset DEF GoodTape
  <2>2. \A r \in eligible : r \in tape.snapshot /\ r.ts <= T
    OBVIOUS
  <2> HIDE DEF eligible
  <2>3. c \in eligible
    BY <1>2, <2>1, LatestAre
  <2> QED
    BY <2>1, <2>2, <2>3
<1>4. c.u \in Int /\ c.ts \in Int /\ c.u <= c.ts /\ T \in Int
  <2>1. c.u <= c.ts
    BY <1>3 DEF GoodSnaps
  <2> QED
    BY <1>3, <2>1, RowsAre
<1> HIDE DEF c
<1>5. \A d \in later : d \in GoodDiffs /\ d.u \in Int /\ d.ts = d.u /\ c.ts < d.ts /\ d.ts <= T
  <2>1. later \subseteq GoodDiffs
    BY DEF GoodTape
  <2> QED
    BY <2>1, RowsAre
<1>6. \A d, e \in later : d.u = e.u => d = e
  BY DEF GoodTape, InLine
<1>7. IsFiniteSet(later)
  BY FS_Subset DEF GoodTape
<1>8. \A d \in tape.depth : d.ts <= T /\ ~(d.ts <= c.ts) => d \in later
  <2>1. \A d \in tape.depth : d.ts \in Int
    BY RowsAre DEF GoodTape
  <2> QED
    BY <1>4, <2>1
<1> HIDE DEF later
<1>9. Sorts(deltas, later, ByTime(later))
  <2>1. Compares(ByTime(later), later)
    BY <1>5 DEF Compares, ByTime
  <2> QED
    BY <1>7, <2>1, SortedIs
<1> HIDE DEF deltas
<1>10. /\ deltas \in Seq(later) /\ n \in Nat /\ \A i \in 1..n : deltas[i] \in later
       /\ \A d \in later : \E i \in 1..n : deltas[i] = d
  <2>1. deltas \in Seq(later) /\ n \in Nat /\ \A d \in later : \E i \in 1..n : deltas[i] = d
    BY <1>9 DEF Sorts
  <2> QED
    BY <2>1
<1>11. ASSUME NEW i \in 1..n, NEW j \in 1..n, i < j PROVE deltas[i].u < deltas[j].u
  <2>1. deltas[i] # deltas[j] /\ <<deltas[i], deltas[j]>> \in ByTime(later)
    BY <1>9, <1>11 DEF Sorts
  <2> DEFINE d == deltas[i]
             e == deltas[j]
  <2>2. d \in later /\ e \in later /\ d # e /\ (d.ts < e.ts \/ (d.ts = e.ts /\ d.u <= e.u))
    BY <1>10, <2>1 DEF ByTime
  <2> HIDE DEF d, e
  <2>3. d.u < e.u
    BY <1>5, <1>6, <2>2
  <2> QED
    BY <2>3 DEF d, e
<1>12. Climbs(deltas, c)
  <2>1. deltas \in Seq(GoodDiffs)
    BY <1>5, <1>10
  <2>2. ASSUME NEW d \in later PROVE c.u < d.u
    <3>1. d.u \in Int /\ d.ts = d.u /\ c.ts < d.ts
      BY <1>5
    <3> QED
      BY <1>4, <3>1
  <2>3. \A i \in 1..n : c.u < deltas[i].u
    BY <1>10, <2>2
  <2> QED
    BY <1>10, <1>11, <2>1, <2>3 DEF Climbs
<1>13. KeptUp(result, c, deltas, n)
  BY <1>3, <1>10, <1>12, ExtendLoop DEF result
<1>14. Faithful(result.book) /\ result.book.last = IF n = 0 THEN c.u ELSE deltas[n].u
  BY <1>2, <1>13 DEF KeptUp, Sound
<1>15. CASE n = 0
  <2>1. result.book.last = c.u
    BY <1>14, <1>15
  <2>2. ASSUME NEW d \in tape.depth, d.ts <= T PROVE d.ts <= c.ts
    BY <1>8, <1>10, <1>15, <2>2
  <2>3. c.u <= T
    BY <1>3, <1>4
  <2> QED
    BY <1>2, <1>3, <1>14, <2>1, <2>2, <2>3
<1>16. CASE n # 0
  <2> DEFINE e == deltas[n]
  <2>1. n \in 1..n /\ e \in later
    BY <1>10, <1>16
  <2>2. result.book.last = e.u
    BY <1>14, <1>16
  <2>3. e.u \in Int /\ e.u <= T /\ c.ts < e.u
    BY <1>5, <2>1
  <2> HIDE DEF e
  <2>4. ASSUME NEW d \in tape.depth, d.ts <= T PROVE ~(d.u > e.u)
    <3>1. d.u \in Int /\ d.ts = d.u
      BY RowsAre DEF GoodTape
    <3>2. CASE d.ts <= c.ts
      BY <1>4, <2>3, <3>1, <3>2
    <3>3. CASE ~(d.ts <= c.ts)
      <4>1. d \in later
        BY <1>8, <2>4, <3>3
      <4>2. PICK i \in 1..n : deltas[i] = d
        BY <1>10, <4>1
      <4>3. CASE i = n
        BY <2>3, <4>2, <4>3 DEF e
      <4>4. CASE i # n
        <5>1. i < n
          BY <1>10, <4>4
        <5>2. deltas[i].u < deltas[n].u
          BY <1>11, <2>1, <5>1
        <5> QED
          BY <2>3, <3>1, <4>2, <5>2 DEF e
      <4> QED
        BY <4>3, <4>4
    <3> QED
      BY <3>2, <3>3
  <2> QED
    BY <1>2, <1>14, <2>2, <2>3, <2>4
<1> QED
  BY <1>15, <1>16

-----------------------------------------------------------------------------
\* The clock of a replay.

\* The least of the stamps from i on, each moved back to make room.
LeastFrom(v, stamps, i) ==
  /\ \A j \in i..Len(stamps) : v <= stamps[j] - (j - i)
  /\ \E j \in i..Len(stamps) : v = stamps[j] - (j - i)

(* One stamp is pulled back as far as the ones after it force, no further. *)
LEMMA PullsBack ==
  ASSUME NEW stamps \in Seq(Int), NEW i \in 1..(Len(stamps) - 1), NEW v \in Int,
         LeastFrom(v, stamps, i + 1)
  PROVE  LET w == PulledBack(stamps[i], v)
         IN  w \in Int /\ w < v /\ LeastFrom(w, stamps, i)
<1> DEFINE n == Len(stamps)
           w == PulledBack(stamps[i], v)
<1>1. n \in Nat /\ \A j \in 1..n : stamps[j] \in Int
  OBVIOUS
<1>2. w = IF stamps[i] >= v THEN v - 1 ELSE stamps[i]
  BY DEF PulledBack
<1>3. /\ \A j \in (i + 1)..n : v <= stamps[j] - (j - (i + 1))
      /\ \E j \in (i + 1)..n : v = stamps[j] - (j - (i + 1))
  BY DEF LeastFrom
<1> HIDE DEF w, n
<1>4. i \in 1..n /\ stamps[i] \in Int /\ i \in Int
  BY <1>1 DEF n
<1>5. w \in Int /\ w < v /\ w <= stamps[i] /\ w <= v - 1 /\ (w = stamps[i] \/ w = v - 1)
  BY <1>2, <1>4
<1>6. \A j \in i..n : w <= stamps[j] - (j - i)
  <2> SUFFICES ASSUME NEW j \in i..n PROVE w <= stamps[j] - (j - i)
    OBVIOUS
  <2>1. CASE j = i
    BY <1>4, <1>5, <2>1
  <2>2. CASE j # i
    <3>1. j \in (i + 1)..n /\ stamps[j] \in Int /\ j \in Int
      BY <1>1, <1>4, <2>2
    <3>2. v <= stamps[j] - (j - (i + 1))
      BY <1>3, <3>1
    <3> QED
      BY <1>4, <1>5, <3>1, <3>2
  <2> QED
    BY <2>1, <2>2
<1>7. \E j \in i..n : w = stamps[j] - (j - i)
  <2>1. CASE w = stamps[i]
    <3>1. i \in i..n /\ w = stamps[i] - (i - i)
      BY <1>1, <1>4, <2>1
    <3> QED
      BY <3>1
  <2>2. CASE w = v - 1
    <3>1. PICK j \in (i + 1)..n : v = stamps[j] - (j - (i + 1))
      BY <1>3
    <3>2. j \in i..n /\ stamps[j] \in Int /\ j \in Int
      BY <1>1, <1>4
    <3>3. w = stamps[j] - (j - i)
      BY <1>4, <2>2, <3>1, <3>2
    <3> QED
      BY <3>2, <3>3
  <2> QED
    BY <1>5, <2>1, <2>2
<1> QED
  BY <1>5, <1>6, <1>7 DEF LeastFrom, w, n

(* The stamps of a replay strictly increase, and each is as late as those  *)
(* after it allow (_restamp).                                              *)
LEMMA RestampIs ==
  ASSUME NEW stamps \in Seq(Int)
  PROVE  LET out == Restamp(stamps)
         IN  \A i \in 1..Len(stamps) :
               /\ i > 1 => out[i - 1] < out[i]
               /\ LeastFrom(out[i], stamps, i)
<1> DEFINE n == Len(stamps)
           m == n - 1
           start == stamps[n]
           step == [k \in 1..m |-> [v \in Int |-> PulledBack(stamps[n - k], v)]]
           Is(f) == f = [k \in 0..(n - 1) |-> IF k = 0 THEN stamps[n] ELSE PulledBack(stamps[n - k], f[k - 1])]
           g == RestampTable(stamps)
           out == Restamp(stamps)
<1>1. n \in Nat /\ \A j \in 1..n : stamps[j] \in Int
  OBVIOUS
<1>2. out = [i \in 1..n |-> g[n - i]]
  BY DEF Restamp
<1>3. CASE n = 0
  BY <1>3
<1>4. CASE n # 0
  <2>1. m \in Nat /\ n - 1 = m /\ start \in Int
    BY <1>1, <1>4
  <2>2. \A k \in 1..m : n - k \in 1..m /\ stamps[n - k] \in Int
    BY <1>1, <2>1
  <2>3. \A k \in 1..m, v \in Int : PulledBack(stamps[n - k], v) \in Int
    BY <2>2 DEF PulledBack
  <2>4. step \in [1..m -> [Int -> Int]]
    BY <2>3
  <2>5. g = CHOOSE f : Is(f)
    BY DEF RestampTable
  <2> HIDE DEF step, start, m
  <2>6. PICK f : LoopTable(f, m, Int, start, step)
    BY <2>1, <2>4, LoopFound
  <2>7. /\ f = [k \in 0..m |-> f[k]] /\ f[0] = start
        /\ \A k \in 1..m : f[k] = step[k][f[k - 1]]
        /\ \A k \in 0..m : f[k] \in Int
    BY <2>6 DEF LoopTable
  <2>8. Is(f)
    <3>1. ASSUME NEW k \in 0..m
          PROVE  f[k] = IF k = 0 THEN stamps[n] ELSE PulledBack(stamps[n - k], f[k - 1])
      <4>1. CASE k = 0
        BY <2>7, <4>1 DEF start
      <4>2. CASE k # 0
        <5>1. k \in 1..m /\ f[k - 1] \in Int
          BY <2>1, <2>7, <4>2
        <5> QED
          BY <2>7, <4>2, <5>1 DEF step
      <4> QED
        BY <4>1, <4>2
    <3> QED
      BY <2>1, <2>7, <3>1
  <2>9. Is(g)
    <3> HIDE DEF g
    <3> QED
      BY <2>5, <2>8
  <2>10. g[0] = stamps[n] /\ \A k \in 1..m : g[k] = PulledBack(stamps[n - k], g[k - 1])
    <3> HIDE DEF g
    <3>1. 0 \in 0..(n - 1) /\ \A k \in 1..m : k \in 0..(n - 1) /\ k # 0
      BY <2>1
    <3> QED
      BY <2>9, <3>1
  <2> HIDE DEF g
  <2> DEFINE Q == {k \in 0..m : /\ g[k] \in Int /\ LeastFrom(g[k], stamps, n - k)
                                /\ k > 0 => g[k] < g[k - 1]}
  <2>11. 0 \in Q
    <3>1. LeastFrom(stamps[n], stamps, n)
      BY <1>1, <1>4 DEF LeastFrom
    <3>2. n - 0 = n /\ 0 \in 0..m /\ stamps[n] \in Int
      BY <1>1, <1>4, <2>1
    <3> QED
      BY <2>10, <3>1, <3>2
  <2>12. ASSUME NEW k \in 1..m, k - 1 \in Q PROVE k \in Q
    <3> DEFINE i == n - k
    <3>1. i \in 1..(Len(stamps) - 1) /\ i + 1 = n - (k - 1)
      BY <1>1, <2>1, <2>2
    <3>2. g[k - 1] \in Int /\ LeastFrom(g[k - 1], stamps, i + 1)
      BY <2>12, <3>1
    <3> HIDE DEF i
    <3>3. /\ PulledBack(stamps[i], g[k - 1]) \in Int /\ PulledBack(stamps[i], g[k - 1]) < g[k - 1]
          /\ LeastFrom(PulledBack(stamps[i], g[k - 1]), stamps, i)
      BY <3>1, <3>2, PullsBack
    <3>4. g[k] = PulledBack(stamps[i], g[k - 1])
      BY <2>10 DEF i
    <3>5. g[k] \in Int /\ LeastFrom(g[k], stamps, n - k) /\ g[k] < g[k - 1] /\ k \in 0..m
      BY <2>1, <3>3, <3>4 DEF i
    <3> QED
      BY <3>5
  <2>13. \A k \in 0..m : k \in Q
    <3> HIDE DEF Q
    <3> QED
      BY <2>1, <2>11, <2>12, CountUp
  <2>14. ASSUME NEW i \in 1..n
         PROVE  (i > 1 => out[i - 1] < out[i]) /\ LeastFrom(out[i], stamps, i)
    <3>1. n - i \in 0..m /\ n - (n - i) = i /\ out[i] = g[n - i]
      BY <1>1, <1>2, <2>1
    <3>2. LeastFrom(out[i], stamps, i)
      <4>1. LeastFrom(g[n - i], stamps, n - (n - i))
        BY <2>13, <3>1
      <4> QED
        BY <3>1, <4>1
    <3>3. ASSUME i > 1 PROVE out[i - 1] < out[i]
      <4>1. n - (i - 1) \in 0..m /\ n - (i - 1) > 0 /\ (n - (i - 1)) - 1 = n - i /\ i - 1 \in 1..n
        BY <1>1, <2>1, <3>3
      <4>2. g[n - (i - 1)] < g[(n - (i - 1)) - 1]
        BY <2>13, <4>1
      <4>3. out[i - 1] = g[n - (i - 1)]
        BY <1>2, <4>1
      <4> QED
        BY <3>1, <4>1, <4>2, <4>3
    <3> QED
      BY <3>2, <3>3
  <2> HIDE DEF out, n
  <2> QED
    BY <2>14 DEF n, out
<1> QED
  BY <1>3, <1>4

(* The clock of a replay strictly increases.                               *)
LEMMA ClockRuns ==
  ASSUME NEW R, R \subseteq GoodRows, NEW s, Selected(s, R)
  PROVE  ReplayClock(s)
<1> DEFINE kept == s.kept
           ts == [i \in DOMAIN kept |-> kept[i].ts]
           out == Restamp(ts)
<1>1. kept \in Seq(R)
  BY DEF Selected, Selecting
<1>2. \A r \in R : r.ts \in Int
  <2>1. \A r \in GoodRows : r.ts \in UpdateId
    BY RowsAre DEF GoodRows
  <2> QED
    BY <2>1, RowsAre
<1> HIDE DEF kept
<1>3. Len(kept) \in Nat /\ DOMAIN kept = 1..Len(kept) /\ \A i \in 1..Len(kept) : kept[i] \in R
  BY <1>1
<1>4. ts \in Seq(Int) /\ Len(ts) = Len(kept) /\ DOMAIN ts = 1..Len(ts)
  BY <1>2, <1>3
<1> HIDE DEF ts
<1>5. \A i \in 1..Len(ts) : (i > 1 => out[i - 1] < out[i]) /\ LeastFrom(out[i], ts, i)
  BY <1>4, RestampIs
<1>6. ASSUME NEW i \in 1..Len(ts)
      PROVE  out[i] = Min({ts[j] - (j - i) : j \in i..Len(ts)})
  <2> DEFINE V == {ts[j] - (j - i) : j \in i..Len(ts)}
  <2>1. /\ \A j \in i..Len(ts) : out[i] <= ts[j] - (j - i)
        /\ \E j \in i..Len(ts) : out[i] = ts[j] - (j - i)
    BY <1>5 DEF LeastFrom
  <2>2. \A v \in V : v \in Int
    <3>1. \A j \in i..Len(ts) : ts[j] \in Int /\ j \in Int
      BY <1>4
    <3> QED
      BY <3>1
  <2> HIDE DEF out
  <2>3. out[i] \in V /\ \A v \in V : out[i] <= v
    BY <2>1
  <2> HIDE DEF V
  <2>4. \A x \in V : (\A y \in V : x <= y) => x = out[i]
    BY <2>2, <2>3
  <2>5. Min(V) = out[i]
    BY <2>3, <2>4 DEF Min
  <2> QED
    BY <2>5 DEF V
<1> HIDE DEF out
<1>7. \A i \in DOMAIN ts : /\ i > 1 => out[i - 1] < out[i]
                           /\ out[i] = Min({ts[j] - (j - i) : j \in i..Len(ts)})
  BY <1>4, <1>5, <1>6
<1> QED
  BY <1>7 DEF ReplayClock, out, ts, kept

-----------------------------------------------------------------------------
\* What the three readers make of a good tape.

(* What the replay selects of a good tape is linked.                       *)
LEMMA SelectedIs ==
  ASSUME NEW tape, GoodTape(tape)
  PROVE  Selected(Select(tape), RowsOf(tape)) /\ RowsOf(tape) \subseteq GoodRows
<1> DEFINE q == Ordered(tape)
<1>1. InOrder(q, RowsOf(tape)) /\ RowsOf(tape) \subseteq GoodRows
  BY OrderedIs DEF GoodTape, RowsOf, GoodRows
<1>2. q \in Seq(RowsOf(tape)) /\ Len(q) \in Nat /\ Len(q) \in 0..Len(q)
  BY <1>1 DEF InOrder
<1>3. Selected(SelectTable(q)[Len(q)], RowsOf(tape))
  BY <1>1, <1>2, SelectLoop
<1> QED
  BY <1>1, <1>3 DEF Select

(* A replay refuses nothing and yields faithful books, and ends where the  *)
(* selection does (_iter_synced_books).                                    *)
LEMMA ReplayIs ==
  ASSUME NEW tape, GoodTape(tape)
  PROVE  LET r == Replay(tape)
         IN  /\ ~r.refused /\ r.book \in Book /\ Faithful(r.book)
             /\ \A i \in DOMAIN r.books : Faithful(r.books[i])
             /\ r.book.last = Select(tape).last
<1> DEFINE kept == Select(tape).kept
           n == Len(kept)
           r == Replay(tape)
<1>1. Selected(Select(tape), RowsOf(tape)) /\ RowsOf(tape) \subseteq GoodRows
  BY SelectedIs
<1>2. kept \in Seq(RowsOf(tape)) /\ Linked(kept) /\ EndsAt(Select(tape))
  BY <1>1 DEF Selected, Selecting
<1>3. kept \in Seq(GoodRows) /\ n \in Nat
  <2> HIDE DEF kept
  <2> QED
    BY <1>1, <1>2
<1>4. r = YieldTable(kept)[n]
  BY DEF Replay
<1>5. CASE n = 0
  <2>1. kept = << >>
    BY <1>3, <1>5
  <2>2. Select(tape).last = NoId
    BY <1>2, <2>1 DEF EndsAt
  <2> HIDE DEF kept, r
  <2>3. ReadSoFar(r, kept, 0)
    <3>1. 0 \in 0..n /\ r = YieldTable(kept)[0]
      BY <1>3, <1>4, <1>5
    <3>2. \A i \in 0..n : ReadSoFar(YieldTable(kept)[i], kept, i)
      BY <1>2, <1>3, YieldLoop
    <3> QED
      BY <3>1, <3>2
  <2>4. r.book = EmptyBook /\ r \in Reader /\ ~r.refused /\ Faithful(r.book)
        /\ \A j \in 1..Len(r.books) : Faithful(r.books[j])
    BY <2>3 DEF ReadSoFar
  <2>5. r.book.last = NoId
    BY <2>4 DEF EmptyBook
  <2> QED
    BY <2>2, <2>4, <2>5 DEF Reader, r
<1>6. CASE n # 0
  <2>1. kept # << >>
    BY <1>3, <1>6
  <2>2. Select(tape).last = kept[n].u
    BY <1>2, <2>1 DEF EndsAt
  <2> HIDE DEF kept, r
  <2>3. ReadSoFar(r, kept, n)
    <3>1. n \in 0..n
      BY <1>3
    <3> QED
      BY <1>2, <1>3, <1>4, <3>1, YieldLoop
  <2>4. r.book.last = kept[n].u /\ r \in Reader /\ ~r.refused /\ Faithful(r.book)
        /\ \A j \in 1..Len(r.books) : Faithful(r.books[j])
    BY <1>6, <2>3 DEF ReadSoFar
  <2> QED
    BY <2>2, <2>4 DEF Reader, r
<1> QED
  BY <1>5, <1>6

(* Every reader finds a good tape good.                                    *)
LEMMA GoodTapeIsRead ==
  ASSUME GoodTape(disk)
  PROVE  TapeReplays /\ TapeInOrder /\ RebuiltIsFaithful
<1>1. TapeReplays
  BY ReplayIs DEF TapeReplays
<1>2. NothingOffChain(Select(disk)) /\ ChainIsUnbroken /\ ReplayClock(Select(disk))
  <2>1. Select(disk).offChain > 0 => Stranded(disk)
    BY NothingDropped
  <2>2. ReplayClock(Select(disk))
    BY SelectedIs, ClockRuns
  <2> QED
    BY <2>1, <2>2, NoBreaks DEF NothingOffChain, ChainIsUnbroken
<1>3. AlignedIsFaithful
  BY AtIdIsFaithful DEF AlignedIsFaithful
<1>4. TimedIsFaithful
  BY AtTimeIsFaithful DEF TimedIsFaithful
<1> QED
  BY <1>1, <1>2, <1>3, <1>4 DEF TapeInOrder, RebuiltIsFaithful

-----------------------------------------------------------------------------
\* The recorder: a failed write ends its run.

(* While rows are being written none are buffered; after a failed write    *)
(* the run is on its way out with nothing left to write.                   *)
HoleInv ==
  /\ rpc \in {"flush", "closing"} => rows = NoRows
  /\ "failed" \in lost =>
       /\ rpc \in {"ending", "closing", "done", "dead"}
       /\ rows = NoRows /\ batch = NoRows

(* No rows are no rows.                                                    *)
LEMMA NothingPending == Pending(NoRows) = 0
BY FS_EmptySet DEF Pending, NoRows

(* A run starts without a hole.                                            *)
LEMMA HoleInit == RInit => HoleInv
BY DEF RInit, HoleInv

\* A turn of the loop comes before any failure.
LEMMA HoleTurn ==
  ASSUME HoleInv, rpc \in {"run", "wait"}, NEW events, Turn(events)
  PROVE  HoleInv'
<1>1. "failed" \notin lost /\ lost' = lost
  BY DEF HoleInv, Turn
<1>2. \/ rows' = NoRows /\ rpc' = "flush"
      \/ rpc' = "ending"
      \/ rpc' = "run"
  BY DEF Turn, Flush
<1> QED BY <1>1, <1>2 DEF HoleInv

(* The loop leaves no hole but at its end.                                 *)
LEMMA HoleLoop == HoleInv /\ LoopStep => HoleInv'
<1> SUFFICES ASSUME HoleInv, LoopStep PROVE HoleInv'
  OBVIOUS
<1>1. CASE RecordEvent
  BY <1>1, HoleTurn DEF RecordEvent
<1>2. CASE WaitForEvent
  BY <1>2 DEF WaitForEvent, HoleInv, writerVars
<1>3. CASE WaitTimesOut
  BY <1>3, HoleTurn DEF WaitTimesOut
<1>4. CASE EndLoop
  BY <1>4 DEF EndLoop, HoleInv, writerVars
<1>5. CASE Finish
  <2>1. "failed" \in lost' => "failed" \in lost
    BY <1>5 DEF Finish
  <2>2. CASE rpc' = "closing"
    <3>1. rows' = NoRows /\ batch' = rows
      BY <1>5, <2>2 DEF Finish
    <3> QED BY <2>1, <2>2, <3>1 DEF HoleInv
  <2>3. CASE rpc' # "closing"
    <3>1. rpc' = "done" /\ rows' = NoRows /\ Pending(rows) > 0
      BY <1>5, <2>3 DEF Finish
    <3>2. rows # NoRows
      BY <3>1, NothingPending
    <3> QED BY <2>1, <3>1, <3>2 DEF HoleInv
  <2> QED BY <2>2, <2>3
<1> QED BY <1>1, <1>2, <1>3, <1>4, <1>5 DEF LoopStep

(* A failed write leaves nothing behind that could be written later.       *)
LEMMA HoleWrite == HoleInv /\ WriteStep => HoleInv'
<1> SUFFICES ASSUME HoleInv, WriteStep PROVE HoleInv'
  OBVIOUS
<1>1. CASE WritePart
  BY <1>1 DEF WritePart, Writing, HoleInv
<1>2. CASE WriteFails
  <2>1. rpc \in {"flush", "closing"} /\ rows' = NoRows /\ batch' = NoRows
    BY <1>2 DEF WriteFails, Writing, HoleInv
  <2>2. rpc' \in {"ending", "dead"}
    BY <1>2 DEF WriteFails
  <2> QED BY <2>1, <2>2 DEF HoleInv
<1>3. CASE BatchWritten
  BY <1>3 DEF BatchWritten, HoleInv, writerVars
<1> QED BY <1>1, <1>2, <1>3 DEF WriteStep

(* Nor does a crash, and the next run starts afresh.                       *)
LEMMA HoleRun == HoleInv /\ RunStep => HoleInv'
<1> SUFFICES ASSUME HoleInv, RunStep PROVE HoleInv'
  OBVIOUS
<1>1. CASE Signal
  BY <1>1 DEF Signal, HoleInv, writerVars
<1>2. CASE Crash
  BY <1>2 DEF Crash, HoleInv
<1>3. CASE NextRun
  BY <1>3 DEF NextRun, HoleInv
<1> QED BY <1>1, <1>2, <1>3 DEF RunStep

(* The hole invariant is inductive.                                        *)
LEMMA HoleNext == HoleInv /\ [RNext]_rvars => HoleInv'
<1> SUFFICES ASSUME HoleInv, [RNext]_rvars PROVE HoleInv'
  OBVIOUS
<1>1. CASE VenueStep
  BY <1>1 DEF VenueStep, HoleInv, writerVars
<1>2. CASE FeedStep
  BY <1>2 DEF FeedStep, HoleInv, writerVars
<1>3. CASE UNCHANGED rvars
  BY <1>3 DEF rvars, HoleInv, writerVars
<1> QED BY <1>1, <1>2, <1>3, HoleLoop, HoleWrite, HoleRun DEF RNext

(* A hole is at the end of its run: with a batch that failed, everything   *)
(* the run still had is gone (record_l2.py, _record; parquet.py).          *)
THEOREM HoleInvariant == RSpec => []HoleInv
BY HoleInit, HoleNext, PTL DEF RSpec

(* Once a write has failed, no row of that run is added to the disk        *)
(* (record_l2.py, the finally clause; parquet.py, flush_async).            *)
THEOREM NothingIsWrittenAfterAHole == RSpec => NothingAfterAHole
<1>1. HoleInv /\ [RNext]_rvars => [("failed" \in lost /\ run' = run) => disk' = disk]_rvars
  <2> SUFFICES ASSUME HoleInv, RNext, "failed" \in lost, run' = run
               PROVE  disk' = disk
    OBVIOUS
  <2>1. rpc \in {"ending", "closing", "done", "dead"} /\ batch = NoRows
    BY DEF HoleInv
  <2>2. CASE LoopStep
    BY <2>1, <2>2 DEF LoopStep, RecordEvent, WaitForEvent, WaitTimesOut, EndLoop, Finish, writerVars
  <2>3. CASE WriteStep
    BY <2>1, <2>3 DEF WriteStep, WritePart, WriteFails, BatchWritten, Writing, writerVars
  <2>4. CASE RunStep
    BY <2>4 DEF RunStep, Signal, Crash, NextRun, writerVars
  <2>5. CASE VenueStep \/ FeedStep
    BY <2>5 DEF VenueStep, FeedStep, writerVars
  <2> QED BY <2>2, <2>3, <2>4, <2>5 DEF RNext
<1> QED BY <1>1, HoleInvariant, PTL DEF RSpec, NothingAfterAHole

-----------------------------------------------------------------------------
\* The recorder's inductive invariant.

\* The venue's diffs so far, and as they are published.
VenueGood ==
  /\ head \in UpdateId /\ IsFiniteSet(closed)
  /\ \A d \in closed : d \in Msg /\ IsDiff(d) /\ d.u <= head
  /\ InLine(closed)

Diffs  == {Stamped(d, d.u) : d \in closed}
Answers == {e \in [kind : {"snapshot"}, U : {0}, u : UpdateId, pu : {0}, ts : 0..head] : e.u <= e.ts}
Prints == [kind : {"trade"}, U : {0}, u : Nat, pu : {0}, ts : 0..head]
Events == Diffs \cup Answers \cup Prints

\* Where an event leads a book: from place to place, every diff accepted.
Place == [last : UpdateId \cup {NoId}, seqReady : BOOLEAN]
Standing(b) == [last |-> b.last, seqReady |-> b.seqReady]

PlaceAfter(p, e) ==
  IF e.kind = "trade" THEN p ELSE [last |-> e.u, seqReady |-> e.kind = "depth"]

Path(pos, q) ==
  \A i \in 1..Len(q) : /\ pos[i] = PlaceAfter(pos[i - 1], q[i])
                       /\ q[i].kind = "depth" => Verdict(pos[i - 1], q[i]) = "applied"

Leads(p, q, t) ==
  \E pos \in [0..Len(q) -> Place] : pos[0] = p /\ pos[Len(q)] = t /\ Path(pos, q)

\* The queue leads from the recorder's book to where the stream stands, until
\* the run has stopped its feed.
Feeding == rpc \in {"run", "wait", "flush", "ending"}

QueueGood ==
  /\ trades \in 0..MaxTrades
  /\ queue \in Seq(Events) /\ Len(queue) <= MaxQueue /\ tip \in Place
  /\ Feeding => Leads(Standing(book), queue, tip)

Stands(b, ts) ==
  /\ b \in Book /\ Faithful(b) /\ ts \in UpdateId
  /\ b.last <= ts
  /\ b.isSynced => b.last # NoId

BookGood == Stands(book, bookTs)

\* What is held, in the buffer, with the worker or on disk.
RowSets == [snapshot : SUBSET GoodSnaps, depth : SUBSET Diffs, trade : SUBSET Prints]
Finite(r) == IsFiniteSet(r.snapshot) /\ IsFiniteSet(r.depth) /\ IsFiniteSet(r.trade)

RowsGood ==
  /\ rows \in RowSets /\ batch \in RowSets /\ disk \in RowSets
  /\ Finite(rows) /\ Finite(batch) /\ Finite(disk)

HeldDiffs == disk.depth \cup batch.depth \cup rows.depth
HeldSnaps == disk.snapshot \cup batch.snapshot \cup rows.snapshot

\* What a row follows is on disk or goes there before it.
AllAnchored(D, E, S) == \A d \in D : Anchors(d, E, S)

RowsAnchored ==
  /\ Anchored(disk.depth, disk.snapshot)
  /\ AllAnchored(batch.depth, disk.depth \cup batch.depth, disk.snapshot \cup batch.snapshot)
  /\ AllAnchored(rows.depth, HeldDiffs, HeldSnaps)

\* A row holds what the book stands on.
StandsOn(b, D, S) ==
  b.last # NoId => \/ \E s \in S : s.u = b.last
                   \/ b.seqReady /\ \E d \in D : d.u = b.last

BookHeld ==
  rpc # "dead" /\ lost \subseteq {"unread"} =>
    StandsOn(book, HeldDiffs, HeldSnaps)

\* Where the loop is, and what has been lost on the way.
LoopGood ==
  /\ rpc \in Rpc /\ run \in 1..MaxRuns /\ shutdown \in BOOLEAN /\ error \in BOOLEAN
  /\ lost \subseteq {"unread", "failed", "unflushed"}
  /\ rpc \in {"run", "wait", "flush"} => lost = {}
  /\ rpc = "ending" => lost \subseteq {"failed"}
  /\ "failed" \in lost \/ "unflushed" \in lost => error
  /\ rpc \in {"run", "wait"} => Pending(rows) < BufferSize
  /\ Pending(rows) < BufferSize + 2
  /\ rpc \notin {"flush", "closing"} => batch = NoRows
  /\ rpc \in {"done", "dead"} => rows = NoRows

RecorderIInv ==
  /\ VenueGood /\ QueueGood /\ BookGood /\ RowsGood /\ RowsAnchored
  /\ BookHeld /\ LoopGood /\ HoleInv

-----------------------------------------------------------------------------
\* Paths of events.

(* An empty queue leads nowhere.                                           *)
LEMMA PathEmpty ==
  ASSUME NEW p \in Place
  PROVE  Leads(p, << >>, p)
<1> DEFINE pos == [i \in 0..0 |-> p]
<1>1. Len(<< >>) = 0 /\ pos \in [0..0 -> Place] /\ pos[0] = p
  OBVIOUS
<1>2. \A i : i \notin 1..0
  OBVIOUS
<1> HIDE DEF pos
<1>3. Path(pos, << >>)
  BY <1>1, <1>2 DEF Path
<1> QED
  BY <1>1, <1>3 DEF Leads

(* An event that the stream's end accepts makes the path one step longer.  *)
LEMMA PathAppend ==
  ASSUME NEW E, NEW q \in Seq(E), NEW p, NEW t, Leads(p, q, t), NEW e \in E,
         PlaceAfter(t, e) \in Place, e.kind = "depth" => Verdict(t, e) = "applied"
  PROVE  Leads(p, Append(q, e), PlaceAfter(t, e))
<1> DEFINE n == Len(q)
           more == Append(q, e)
           t2 == PlaceAfter(t, e)
<1>1. PICK pos \in [0..n -> Place] : pos[0] = p /\ pos[n] = t /\ Path(pos, q)
  BY DEF Leads
<1> DEFINE on == [i \in 0..(n + 1) |-> IF i = n + 1 THEN t2 ELSE pos[i]]
<1>2. n \in Nat /\ Len(more) = n + 1 /\ more[n + 1] = e /\ \A i \in 1..n : more[i] = q[i]
  OBVIOUS
<1> HIDE DEF n, more, t2
<1>3. on \in [0..(n + 1) -> Place] /\ on[0] = p /\ on[n + 1] = t2 /\ \A i \in 0..n : on[i] = pos[i]
  <2>1. t2 \in Place
    BY DEF t2
  <2> QED
    BY <1>1, <1>2, <2>1
<1> HIDE DEF on
<1>4. ASSUME NEW i \in 1..(n + 1)
      PROVE  /\ on[i] = PlaceAfter(on[i - 1], more[i])
             /\ more[i].kind = "depth" => Verdict(on[i - 1], more[i]) = "applied"
  <2>1. CASE i = n + 1
    <3>1. i - 1 = n /\ n \in 0..n /\ on[i - 1] = t
      BY <1>1, <1>2, <1>3, <2>1
    <3> QED
      BY <1>2, <1>3, <2>1, <3>1 DEF t2
  <2>2. CASE i # n + 1
    <3>1. i \in 1..n /\ i - 1 \in 0..n /\ i \in 0..n
      BY <1>2, <2>2
    <3>2. on[i] = pos[i] /\ on[i - 1] = pos[i - 1] /\ more[i] = q[i]
      BY <1>2, <1>3, <3>1
    <3> QED
      BY <1>1, <3>1, <3>2 DEF Path, n
  <2> QED
    BY <2>1, <2>2
<1>5. Path(on, more)
  BY <1>2, <1>4 DEF Path
<1> QED
  BY <1>2, <1>3, <1>5 DEF Leads, more, t2

(* The head of the queue is accepted where the path starts, and the rest   *)
(* leads on from there.                                                    *)
LEMMA PathTail ==
  ASSUME NEW E, NEW q \in Seq(E), q # << >>, NEW p, NEW t, Leads(p, q, t)
  PROVE  /\ PlaceAfter(p, Head(q)) \in Place
         /\ Head(q).kind = "depth" => Verdict(p, Head(q)) = "applied"
         /\ Leads(PlaceAfter(p, Head(q)), Tail(q), t)
<1> DEFINE n == Len(q)
           m == n - 1
           rest == Tail(q)
<1>1. PICK pos \in [0..n -> Place] : pos[0] = p /\ pos[n] = t /\ Path(pos, q)
  BY DEF Leads
<1>2. /\ n \in Nat /\ m \in Nat /\ n = m + 1 /\ Len(rest) = m /\ Head(q) = q[1]
      /\ \A i \in 1..m : rest[i] = q[i + 1]
  OBVIOUS
<1> HIDE DEF n, m, rest
<1> DEFINE on == [i \in 0..m |-> pos[i + 1]]
<1>3. 1 \in 1..n /\ 1 \in 0..n /\ 1 - 1 = 0
  BY <1>2
<1>4. pos[1] = PlaceAfter(p, q[1]) /\ (q[1].kind = "depth" => Verdict(p, q[1]) = "applied")
  BY <1>1, <1>3 DEF Path, n
<1>5. on \in [0..m -> Place] /\ on[0] = pos[1] /\ on[m] = t /\ \A i \in 0..m : on[i] = pos[i + 1]
  <2>1. \A i \in 0..m : i + 1 \in 0..n
    BY <1>2
  <2> QED
    BY <1>1, <1>2, <2>1
<1> HIDE DEF on
<1>6. ASSUME NEW i \in 1..m
      PROVE  /\ on[i] = PlaceAfter(on[i - 1], rest[i])
             /\ rest[i].kind = "depth" => Verdict(on[i - 1], rest[i]) = "applied"
  <2>1. i \in 0..m /\ i - 1 \in 0..m /\ i + 1 \in 1..n /\ (i - 1) + 1 = i /\ (i + 1) - 1 = i
    BY <1>2
  <2>2. on[i] = pos[i + 1] /\ on[i - 1] = pos[i] /\ rest[i] = q[i + 1]
    BY <1>2, <1>5, <2>1
  <2>3. /\ pos[i + 1] = PlaceAfter(pos[(i + 1) - 1], q[i + 1])
        /\ q[i + 1].kind = "depth" => Verdict(pos[(i + 1) - 1], q[i + 1]) = "applied"
    BY <1>1, <2>1 DEF Path, n
  <2> QED
    BY <2>1, <2>2, <2>3
<1>7. Path(on, rest)
  BY <1>2, <1>6 DEF Path
<1>8. Leads(pos[1], rest, t)
  BY <1>2, <1>5, <1>7 DEF Leads
<1>9. pos[1] \in Place
  BY <1>1, <1>3
<1> QED
  BY <1>2, <1>4, <1>8, <1>9 DEF rest

-----------------------------------------------------------------------------
\* The venue and the events of the stream.

(* The venue's diffs, stamped, are good rows, one after another.           *)
LEMMA DiffsAre ==
  ASSUME VenueGood
  PROVE  /\ Diffs \subseteq GoodDiffs /\ InLine(Diffs)
         /\ \A d \in Diffs : d.kind = "depth" /\ d.u \in UpdateId /\ d.ts = d.u /\ d.u <= head
<1>1. ASSUME NEW c \in closed
      PROVE  /\ Stamped(c, c.u) \in GoodDiffs /\ c.u <= head
             /\ Stamped(c, c.u).u = c.u /\ Stamped(c, c.u).pu = c.pu
  <2>1. c \in Msg /\ IsDiff(c) /\ c.u <= head
    BY DEF VenueGood
  <2>2. c.kind = "depth" /\ c.u \in UpdateId /\ c.U \in UpdateId /\ c.pu \in UpdateId
    BY <2>1 DEF Msg, IsDiff
  <2> DEFINE s == Stamped(c, c.u)
  <2>3. s.kind = c.kind /\ s.U = c.U /\ s.u = c.u /\ s.pu = c.pu /\ s.ts = c.u /\ s \in DiffRow
    BY <2>2 DEF Stamped, DiffRow
  <2> HIDE DEF s
  <2>4. IsDiff(s)
    BY <2>1, <2>3 DEF IsDiff
  <2> QED
    BY <2>1, <2>3, <2>4 DEF GoodDiffs, s
<1>2. Diffs \subseteq GoodDiffs
  BY <1>1 DEF Diffs
<1>3. InLine(Diffs)
  <2>1. InLine(closed)
    BY DEF VenueGood
  <2> SUFFICES ASSUME NEW c \in closed, NEW e \in closed
               PROVE  LET s == Stamped(c, c.u)
                          f == Stamped(e, e.u)
                      IN  (s.u < f.u => s.u <= f.pu) /\ (s.u = f.u => s = f)
    BY Zenon DEF InLine, Diffs
  <2>2. (c.u < e.u => c.u <= e.pu) /\ (c.u = e.u => c = e)
    BY <2>1 DEF InLine
  <2> QED
    BY <1>1, <2>2
<1>4. \A d \in Diffs : d.u <= head
  BY <1>1 DEF Diffs
<1> QED
  BY <1>2, <1>3, <1>4, RowsAre

(* What the venue has sent stays sent.                                     *)
LEMMA EventsGrow ==
  ASSUME head \in Nat, head' \in Nat, head <= head', closed \subseteq closed'
  PROVE  /\ Diffs \subseteq Diffs' /\ Answers \subseteq Answers'
         /\ Prints \subseteq Prints' /\ Events \subseteq Events'
<1>1. Diffs \subseteq Diffs'
  BY DEF Diffs
<1>2. 0..head \subseteq 0..head'
  OBVIOUS
<1>3. Answers \subseteq Answers' /\ Prints \subseteq Prints'
  BY <1>2 DEF Answers, Prints
<1> QED
  BY <1>1, <1>3 DEF Events

(* The last batch of the venue ends within its ids.                        *)
LEMMA BatchEndIs ==
  ASSUME VenueGood
  PROVE  BatchEnd \in 0..head /\ \A d \in closed : d.u <= BatchEnd
<1> DEFINE U == {d.u : d \in closed}
           order == {p \in closed \X closed : p[2].u <= p[1].u}
<1>1. head \in Nat /\ \A d \in closed : d.u \in 0..head
  <2>1. head \in UpdateId /\ \A d \in closed : d.u \in UpdateId /\ d.u <= head
    BY DEF VenueGood, Msg
  <2> QED
    BY <2>1, VenueAssumption DEF UpdateId
<1>2. CASE closed = {}
  BY <1>1, <1>2 DEF BatchEnd
<1>3. CASE closed # {}
  <2>1. Compares(order, closed)
    BY <1>1 DEF Compares
  <2>2. IsFiniteSet(closed)
    BY DEF VenueGood
  <2> DEFINE m == FirstOf(closed, order)
  <2>3. m \in closed /\ \A d \in closed : <<m, d>> \in order
    BY <1>3, <2>1, <2>2, FirstIsFirst
  <2> HIDE DEF m
  <2>4. m.u \in U /\ \A d \in closed : d.u <= m.u
    BY <2>3
  <2>5. BatchEnd = CHOOSE u \in U : \A d \in closed : d.u <= u
    BY <1>3 DEF BatchEnd
  <2>6. BatchEnd \in U /\ \A d \in closed : d.u <= BatchEnd
    <3> HIDE DEF U
    <3> QED
      BY <2>4, <2>5, Zenon
  <2> QED
    BY <1>1, <2>6
<1> QED
  BY <1>2, <1>3

(* The venue's steps keep its diffs in line.                               *)
LEMMA VenueStays ==
  ASSUME VenueGood, VenueMoves
  PROVE  VenueGood' /\ head' \in Nat /\ head <= head' /\ closed \subseteq closed'
<1>1. head \in UpdateId /\ head \in Nat /\ MaxId \in Nat
  BY RowsAre, VenueAssumption DEF VenueGood
<1>2. CASE VenueUpdate
  <2>1. head' = head + 1 /\ head' \in UpdateId /\ closed' = closed
    BY <1>1, <1>2 DEF VenueUpdate, UpdateId
  <2>2. \A d \in closed : d.u \in Nat
    BY RowsAre DEF VenueGood, Msg
  <2>3. \A d \in closed : d.u <= head'
    BY <1>1, <2>1, <2>2 DEF VenueGood
  <2> QED
    BY <1>1, <2>1, <2>3 DEF VenueGood
<1>3. CASE VenueDiff
  <2>1. PICK U \in (BatchEnd + 1)..head :
          IsDiff(Diff(U, head, BatchEnd)) /\ closed' = closed \cup {Diff(U, head, BatchEnd)}
    BY <1>3 DEF VenueDiff
  <2>2. BatchEnd < head /\ head' = head
    BY <1>3 DEF VenueDiff
  <2> DEFINE n == Diff(U, head, BatchEnd)
  <2>3. BatchEnd \in 0..head /\ \A d \in closed : d.u <= BatchEnd
    BY BatchEndIs
  <2>4. n \in Msg /\ n.u = head /\ n.pu = BatchEnd
    BY <1>1, <2>3 DEF Diff, Msg, Kind, UpdateId
  <2>5. \A d \in closed : d.u \in Int
    BY RowsAre DEF VenueGood, Msg
  <2> HIDE DEF n
  <2>6. IsFiniteSet(closed')
    BY <2>1, FS_AddElement DEF VenueGood
  <2>7. InLine(closed')
    <3> SUFFICES ASSUME NEW d \in closed', NEW e \in closed'
                 PROVE  (d.u < e.u => d.u <= e.pu) /\ (d.u = e.u => d = e)
      BY DEF InLine
    <3>1. CASE d \in closed /\ e \in closed
      BY <3>1 DEF VenueGood, InLine
    <3>2. CASE d \in closed /\ e = n
      BY <1>1, <2>2, <2>3, <2>4, <2>5, <3>2
    <3>3. CASE d = n /\ e \in closed
      BY <1>1, <2>2, <2>3, <2>4, <2>5, <3>3
    <3>4. CASE d = n /\ e = n
      BY <1>1, <2>4, <3>4
    <3> QED
      BY <2>1, <3>1, <3>2, <3>3, <3>4 DEF n
  <2>8. \A d \in closed' : d \in Msg /\ IsDiff(d) /\ d.u <= head'
    BY <1>1, <2>1, <2>2, <2>4 DEF VenueGood, n
  <2> QED
    BY <1>1, <2>1, <2>2, <2>6, <2>7, <2>8 DEF VenueGood
<1> QED
  BY <1>2, <1>3 DEF VenueMoves

-----------------------------------------------------------------------------
\* One more row in the buffer.

(* What a diff follows stays when rows are added.                          *)
LEMMA AnchorsStay ==
  ASSUME NEW d, NEW D, NEW D2, D \subseteq D2, NEW S, NEW S2, S \subseteq S2, Anchors(d, D, S)
  PROVE  Anchors(d, D2, S2)
BY DEF Anchors

\* The buffer r, written now, would leave a tape on which book b stands.
Carries(r, b) ==
  /\ r \in RowSets /\ Finite(r)
  /\ AllAnchored(r.depth, disk.depth \cup r.depth, disk.snapshot \cup r.snapshot)
  /\ StandsOn(b, disk.depth \cup r.depth, disk.snapshot \cup r.snapshot)

(* Buffering a row, type by type.                                          *)
LEMMA AddIs ==
  ASSUME NEW r \in RowSets, NEW x
  PROVE  /\ Add(r, "snapshot", x) = [snapshot |-> r.snapshot \cup {x}, depth |-> r.depth, trade |-> r.trade]
         /\ Add(r, "depth", x) = [snapshot |-> r.snapshot, depth |-> r.depth \cup {x}, trade |-> r.trade]
         /\ Add(r, "trade", x) = [snapshot |-> r.snapshot, depth |-> r.depth, trade |-> r.trade \cup {x}]
<1>1. Add(r, "snapshot", x) = [r EXCEPT !.snapshot = @ \cup {x}]
  BY DEF Add, RowSets
<1>2. Add(r, "depth", x) = [r EXCEPT !.depth = @ \cup {x}]
  BY DEF Add, RowSets
<1>3. Add(r, "trade", x) = [r EXCEPT !.trade = @ \cup {x}]
  BY DEF Add, RowSets
<1>4. [r EXCEPT !.snapshot = @ \cup {x}] = [snapshot |-> r.snapshot \cup {x}, depth |-> r.depth, trade |-> r.trade]
  BY DEF RowSets
<1>5. [r EXCEPT !.depth = @ \cup {x}] = [snapshot |-> r.snapshot, depth |-> r.depth \cup {x}, trade |-> r.trade]
  BY DEF RowSets
<1>6. [r EXCEPT !.trade = @ \cup {x}] = [snapshot |-> r.snapshot, depth |-> r.depth, trade |-> r.trade \cup {x}]
  BY DEF RowSets
<1> QED
  BY <1>1, <1>2, <1>3, <1>4, <1>5, <1>6

(* A row makes the buffer at most one longer.                              *)
LEMMA PendingIs ==
  ASSUME NEW r \in RowSets, Finite(r)
  PROVE  /\ Pending(r) \in Nat
         /\ \A x : \A t \in {"snapshot", "depth", "trade"} :
               Pending(Add(r, t, x)) \in Nat /\ Pending(Add(r, t, x)) <= Pending(r) + 1
<1>1. IsFiniteSet(r.snapshot) /\ IsFiniteSet(r.depth) /\ IsFiniteSet(r.trade)
  BY DEF Finite
<1>2. Cardinality(r.snapshot) \in Nat /\ Cardinality(r.depth) \in Nat /\ Cardinality(r.trade) \in Nat
  BY <1>1, FS_CardinalityType
<1>3. ASSUME NEW T, IsFiniteSet(T), NEW x
      PROVE  Cardinality(T \cup {x}) \in Nat /\ Cardinality(T \cup {x}) <= Cardinality(T) + 1
  <2>1. Cardinality(T) \in Nat
    BY <1>3, FS_CardinalityType
  <2>2. Cardinality(T \cup {x}) = IF x \in T THEN Cardinality(T) ELSE Cardinality(T) + 1
    BY <1>3, FS_AddElement
  <2> QED
    BY <2>1, <2>2
<1>4. Pending(r) \in Nat
  BY <1>2 DEF Pending
<1>5. ASSUME NEW x
      PROVE  \A t \in {"snapshot", "depth", "trade"} :
               Pending(Add(r, t, x)) \in Nat /\ Pending(Add(r, t, x)) <= Pending(r) + 1
  <2>3. /\ Pending(Add(r, "snapshot", x)) = Cardinality(r.snapshot \cup {x}) + Cardinality(r.depth) + Cardinality(r.trade)
        /\ Pending(Add(r, "depth", x)) = Cardinality(r.snapshot) + Cardinality(r.depth \cup {x}) + Cardinality(r.trade)
        /\ Pending(Add(r, "trade", x)) = Cardinality(r.snapshot) + Cardinality(r.depth) + Cardinality(r.trade \cup {x})
    <3> DEFINE a == Add(r, "snapshot", x)
               b == Add(r, "depth", x)
               c == Add(r, "trade", x)
    <3>1. /\ a = [snapshot |-> r.snapshot \cup {x}, depth |-> r.depth, trade |-> r.trade]
          /\ b = [snapshot |-> r.snapshot, depth |-> r.depth \cup {x}, trade |-> r.trade]
          /\ c = [snapshot |-> r.snapshot, depth |-> r.depth, trade |-> r.trade \cup {x}]
      BY AddIs
    <3> HIDE DEF a, b, c
    <3>2. /\ a.snapshot = r.snapshot \cup {x} /\ a.depth = r.depth /\ a.trade = r.trade
          /\ b.snapshot = r.snapshot /\ b.depth = r.depth \cup {x} /\ b.trade = r.trade
          /\ c.snapshot = r.snapshot /\ c.depth = r.depth /\ c.trade = r.trade \cup {x}
      BY <3>1
    <3>3. /\ Pending(a) = Cardinality(r.snapshot \cup {x}) + Cardinality(r.depth) + Cardinality(r.trade)
          /\ Pending(b) = Cardinality(r.snapshot) + Cardinality(r.depth \cup {x}) + Cardinality(r.trade)
          /\ Pending(c) = Cardinality(r.snapshot) + Cardinality(r.depth) + Cardinality(r.trade \cup {x})
      BY <3>2 DEF Pending
    <3> QED
      BY <3>3 DEF a, b, c
  <2>4. /\ Cardinality(r.snapshot \cup {x}) \in Nat /\ Cardinality(r.snapshot \cup {x}) <= Cardinality(r.snapshot) + 1
        /\ Cardinality(r.depth \cup {x}) \in Nat /\ Cardinality(r.depth \cup {x}) <= Cardinality(r.depth) + 1
        /\ Cardinality(r.trade \cup {x}) \in Nat /\ Cardinality(r.trade \cup {x}) <= Cardinality(r.trade) + 1
    BY <1>1, <1>3
  <2>5. Pending(r) = Cardinality(r.snapshot) + Cardinality(r.depth) + Cardinality(r.trade)
    BY DEF Pending
  <2> QED
    BY <1>2, <2>3, <2>4, <2>5
<1> QED
  BY <1>4, <1>5

(* A snapshot row needs nothing, and the book may stand on it.             *)
LEMMA SnapshotCarried ==
  ASSUME NEW r, NEW b, Carries(r, b), NEW x \in GoodSnaps, NEW b2, b2.last = x.u
  PROVE  Carries(Add(r, "snapshot", x), b2)
<1> DEFINE a == Add(r, "snapshot", x)
<1>1. r \in RowSets /\ Finite(r)
  BY DEF Carries
<1>2. a = [snapshot |-> r.snapshot \cup {x}, depth |-> r.depth, trade |-> r.trade]
  BY <1>1, AddIs
<1> HIDE DEF a
<1>3. a \in RowSets /\ Finite(a)
  BY <1>1, <1>2, FS_AddElement DEF RowSets, Finite
<1>4. a.depth = r.depth /\ a.snapshot = r.snapshot \cup {x}
  BY <1>2
<1>5. AllAnchored(a.depth, disk.depth \cup a.depth, disk.snapshot \cup a.snapshot)
  <2> SUFFICES ASSUME NEW d \in r.depth
               PROVE  Anchors(d, disk.depth \cup a.depth, disk.snapshot \cup a.snapshot)
    BY <1>4 DEF AllAnchored
  <2>1. Anchors(d, disk.depth \cup r.depth, disk.snapshot \cup r.snapshot)
    BY DEF Carries, AllAnchored
  <2> QED
    BY <1>4, <2>1 DEF Anchors
<1>6. StandsOn(b2, disk.depth \cup a.depth, disk.snapshot \cup a.snapshot)
  BY <1>4 DEF StandsOn
<1> QED
  BY <1>3, <1>5, <1>6 DEF Carries, a

(* A trade changes nothing of this.                                        *)
LEMMA TradeCarried ==
  ASSUME NEW r, NEW b, Carries(r, b), NEW x \in Prints
  PROVE  Carries(Add(r, "trade", x), b)
<1> DEFINE a == Add(r, "trade", x)
<1>1. r \in RowSets /\ Finite(r)
  BY DEF Carries
<1>2. a = [snapshot |-> r.snapshot, depth |-> r.depth, trade |-> r.trade \cup {x}]
  BY <1>1, AddIs
<1> HIDE DEF a
<1>3. a \in RowSets /\ Finite(a)
  BY <1>1, <1>2, FS_AddElement DEF RowSets, Finite
<1>4. a.depth = r.depth /\ a.snapshot = r.snapshot
  BY <1>2
<1> QED
  BY <1>3, <1>4 DEF Carries, a

(* A diff follows what the book stood on, and the book stands on it.       *)
LEMMA DiffCarried ==
  ASSUME NEW r, NEW b \in Book, Carries(r, b), NEW d \in Diffs, d.kind = "depth", Verdict(b, d) = "applied",
         NEW b2, b2.last = d.u, b2.seqReady
  PROVE  Carries(Add(r, "depth", d), b2)
<1> DEFINE a == Add(r, "depth", d)
<1>1. r \in RowSets /\ Finite(r)
  BY DEF Carries
<1>2. a = [snapshot |-> r.snapshot, depth |-> r.depth \cup {d}, trade |-> r.trade]
  BY <1>1, AddIs
<1> HIDE DEF a
<1>3. a \in RowSets /\ Finite(a)
  BY <1>1, <1>2, FS_AddElement DEF RowSets, Finite
<1>4. a.depth = r.depth \cup {d} /\ a.snapshot = r.snapshot
  BY <1>2
<1>5. Anchors(d, disk.depth \cup r.depth, disk.snapshot \cup r.snapshot)
  <2>1. b.last # NoId /\ (d.pu = b.last \/ (~b.seqReady /\ Brackets(d, b.last)))
    BY DEF Verdict
  <2>2. \/ \E s \in disk.snapshot \cup r.snapshot : s.u = b.last
        \/ b.seqReady /\ \E e \in disk.depth \cup r.depth : e.u = b.last
    BY <2>1 DEF Carries, StandsOn
  <2> QED
    BY <2>1, <2>2 DEF Anchors
<1>6. AllAnchored(a.depth, disk.depth \cup a.depth, disk.snapshot \cup a.snapshot)
  <2> SUFFICES ASSUME NEW e \in a.depth
               PROVE  Anchors(e, disk.depth \cup a.depth, disk.snapshot \cup a.snapshot)
    BY DEF AllAnchored
  <2>1. Anchors(e, disk.depth \cup r.depth, disk.snapshot \cup r.snapshot)
    <3>1. CASE e = d
      BY <1>5, <3>1
    <3>2. CASE e # d
      <4>1. e \in r.depth
        BY <1>4, <3>2
      <4> QED
        BY <4>1 DEF Carries, AllAnchored
    <3> QED
      BY <3>1, <3>2
  <2> QED
    BY <1>4, <2>1 DEF Anchors
<1>7. StandsOn(b2, disk.depth \cup a.depth, disk.snapshot \cup a.snapshot)
  BY <1>4 DEF StandsOn
<1> QED
  BY <1>3, <1>6, <1>7 DEF Carries, a

-----------------------------------------------------------------------------
\* A turn of the loop.

(* The kinds of events, and what each one carries.                         *)
LEMMA EventIs ==
  ASSUME VenueGood, NEW e \in Events
  PROVE  /\ e.kind \in {"snapshot", "depth", "trade"} /\ e.ts \in UpdateId
         /\ e.kind = "depth" => e \in Diffs /\ e \in GoodDiffs
         /\ e.kind = "snapshot" => e.u \in UpdateId /\ e.u <= e.ts
         /\ e.kind = "trade" => e \in Prints
<1>1. 0..head \subseteq UpdateId
  BY VenueAssumption DEF VenueGood, UpdateId
<1>2. CASE e \in Diffs
  BY <1>2, DiffsAre
<1>3. CASE e \in Answers
  BY <1>1, <1>3 DEF Answers
<1>4. CASE e \in Prints
  BY <1>1, <1>4 DEF Prints
<1> QED
  BY <1>2, <1>3, <1>4 DEF Events

(* A copy of a faithful book is a good snapshot row.                       *)
LEMMA CopyIsGood ==
  ASSUME NEW b, NEW ts, Stands(b, ts), b.last # NoId
  PROVE  SnapshotRow(b, ts) \in GoodSnaps /\ SnapshotRow(b, ts).u = b.last
<1> DEFINE r == SnapshotRow(b, ts)
<1>1. b \in Book /\ ts \in UpdateId /\ b.last <= ts /\ Faithful(b)
  BY DEF Stands
<1>2. b.last \in UpdateId /\ b.levels \in [Level -> Nat] /\ b.known \in SUBSET Level
  BY <1>1 DEF Book
<1>3. r.u = b.last /\ r.levels = b.levels /\ r.known = b.known /\ r.ts = ts /\ r \in SnapRow
  BY <1>1, <1>2 DEF SnapshotRow, SnapRow
<1>4. \A p \in Level : b.levels[p] = IF p \in b.known THEN History[b.last][p] ELSE 0
  BY <1>1 DEF Faithful
<1> HIDE DEF r
<1> QED
  BY <1>1, <1>3, <1>4 DEF GoodSnaps, r

(* An event of the stream leaves the book faithful, one place further      *)
(* (record_l2.py, _apply).                                                 *)
LEMMA EventApplied ==
  ASSUME VenueGood, BookGood, NEW e \in Events, e.kind # "trade",
         e.kind = "depth" => Verdict(Standing(book), e) = "applied"
  PROVE  LET b == ApplyEvent(book, e)
         IN  /\ Stands(b, e.ts) /\ b.last = e.u /\ b.last # NoId
             /\ Standing(b) = PlaceAfter(Standing(book), e)
             /\ e.kind = "depth" => Verdict(book, e) = "applied" /\ b.seqReady
             /\ e.kind = "snapshot" => b = ApplySnapshot(e.u)
<1>1. book \in Book /\ Faithful(book) /\ e.ts \in UpdateId /\ (book.isSynced => book.last # NoId)
  BY EventIs DEF BookGood, Stands
<1>2. CASE e.kind = "snapshot"
  <2> DEFINE b == ApplySnapshot(e.u)
  <2>1. ApplyEvent(book, e) = b /\ e.u \in UpdateId /\ e.u <= e.ts
    BY <1>2, EventIs DEF ApplyEvent
  <2>2. b \in Book /\ Faithful(b)
    BY <2>1, SnapshotIsFaithful
  <2>3. b.last = e.u /\ b.isSynced /\ b.seqReady = FALSE
    BY DEF ApplySnapshot
  <2>4. e.u # NoId
    BY <2>1, RowsAre
  <2> HIDE DEF b
  <2>5. Standing(b) = PlaceAfter(Standing(book), e)
    BY <1>2, <2>3 DEF Standing, PlaceAfter
  <2>6. Stands(b, e.ts)
    BY <1>1, <2>1, <2>2, <2>3, <2>4 DEF Stands
  <2> QED
    BY <1>2, <2>1, <2>3, <2>4, <2>5, <2>6 DEF b
<1>3. CASE e.kind = "depth"
  <2> DEFINE b == ApplyDelta(book, e)
  <2>1. ApplyEvent(book, e) = b /\ e \in GoodDiffs
    BY <1>3, EventIs DEF ApplyEvent
  <2>2. Verdict(book, e) = "applied"
    <3>1. Verdict(Standing(book), e) = Verdict(book, e)
      BY DEF Verdict, Standing
    <3> QED
      BY <1>3, <3>1
  <2>3. b \in Book /\ Faithful(b) /\ b.last = e.u /\ b.seqReady
    BY <1>1, <2>1, <2>2, DiffRead
  <2>4. e.u # NoId /\ e.ts = e.u /\ e.u \in Int
    BY <2>1, RowsAre
  <2> HIDE DEF b
  <2>5. b.seqReady = TRUE
    BY <2>3, Zenon DEF Book
  <2>6. Standing(b) = PlaceAfter(Standing(book), e)
    BY <1>3, <2>3, <2>5 DEF Standing, PlaceAfter
  <2>7. Stands(b, e.ts)
    BY <1>1, <2>3, <2>4 DEF Stands
  <2> QED
    BY <1>3, <2>1, <2>2, <2>3, <2>4, <2>6, <2>7 DEF b
<1> QED
  BY <1>2, <1>3, EventIs

(* The row of an event goes where the event has moved the book.            *)
LEMMA EventCarried ==
  ASSUME VenueGood, BookGood, NEW r, Carries(r, book), NEW e \in Events,
         e.kind = "depth" => Verdict(Standing(book), e) = "applied",
         NEW b, b = IF e.kind # "trade" THEN ApplyEvent(book, e) ELSE book
  PROVE  Carries(Add(r, e.kind, RowOf(e)), b)
<1>1. e.kind \in {"snapshot", "depth", "trade"}
  BY EventIs
<1>2. CASE e.kind = "snapshot"
  <2>1. b = ApplyEvent(book, e) /\ Stands(b, e.ts) /\ b.last # NoId /\ b = ApplySnapshot(e.u)
    BY <1>2, EventApplied
  <2>2. RowOf(e) = SnapshotRow(b, e.ts)
    BY <1>2, <2>1 DEF RowOf
  <2>3. RowOf(e) \in GoodSnaps /\ b.last = RowOf(e).u
    BY <2>1, <2>2, CopyIsGood
  <2> QED
    BY <1>2, <2>3, SnapshotCarried
<1>3. CASE e.kind = "depth"
  <2>1. b = ApplyEvent(book, e) /\ b.last = e.u /\ b.seqReady /\ Verdict(book, e) = "applied"
    BY <1>3, EventApplied
  <2>2. RowOf(e) = e /\ e \in Diffs /\ book \in Book
    BY <1>3, EventIs DEF RowOf, BookGood, Stands
  <2> QED
    BY <1>3, <2>1, <2>2, DiffCarried
<1>4. CASE e.kind = "trade"
  <2>1. b = book /\ RowOf(e) = e /\ e \in Prints
    BY <1>4, EventIs DEF RowOf
  <2> QED
    BY <1>4, <2>1, TradeCarried
<1> QED
  BY <1>1, <1>2, <1>3, <1>4

(* No rows, type by type.                                                  *)
LEMMA NothingIs ==
  /\ NoRows \in RowSets /\ Finite(NoRows) /\ Pending(NoRows) = 0
  /\ NoRows.snapshot = {} /\ NoRows.depth = {} /\ NoRows.trade = {}
<1>1. NoRows.snapshot = {} /\ NoRows.depth = {} /\ NoRows.trade = {} /\ NoRows \in RowSets
  BY DEF NoRows, RowSets
<1> QED
  BY <1>1, NothingPending, FS_EmptySet DEF Finite

\* What the loop may have in hand: nothing, or the next event.
InHand(events) ==
  events # << >> => /\ Head(events) \in Events
                    /\ Head(events).kind = "depth" => Verdict(Standing(book), Head(events)) = "applied"

(* A turn moves the book along the stream, and what it leaves in the       *)
(* buffer holds what the book stands on.                                   *)
LEMMA TurnCarries ==
  ASSUME VenueGood, BookGood, RowsGood, RowsAnchored, BookHeld, LoopGood,
         rpc \in {"run", "wait"}, NEW events, InHand(events), Turn(events)
  PROVE  /\ Stands(book', bookTs')
         /\ Standing(book') = IF events = << >> THEN Standing(book)
                              ELSE PlaceAfter(Standing(book), Head(events))
         /\ \E r : /\ Carries(r, book') /\ Pending(r) \in Nat /\ Pending(r) < BufferSize + 2
                   /\ \/ Flush(r)
                      \/ Pending(r) < BufferSize /\ rows' = r /\ rpc' = "run" /\ UNCHANGED <<batch, error>>
<1> DEFINE e == Head(events)
           moved == events # << >> /\ e.kind # "trade"
           b == IF moved THEN ApplyEvent(book, e) ELSE book
           ts == IF moved THEN e.ts ELSE bookTs
           taken == Buffered(rows, events)
<1>1. batch = NoRows /\ lost = {} /\ rpc # "dead" /\ Pending(rows) < BufferSize
  BY DEF LoopGood
<1>2. rows \in RowSets /\ Finite(rows) /\ Pending(rows) \in Nat
  BY PendingIs DEF RowsGood
<1>3. Carries(rows, book)
  <2>1. HeldDiffs = disk.depth \cup rows.depth /\ HeldSnaps = disk.snapshot \cup rows.snapshot
    BY <1>1, NothingIs DEF HeldDiffs, HeldSnaps
  <2>2. StandsOn(book, HeldDiffs, HeldSnaps)
    BY <1>1 DEF BookHeld
  <2>3. AllAnchored(rows.depth, HeldDiffs, HeldSnaps)
    BY DEF RowsAnchored
  <2> QED
    BY <1>2, <2>1, <2>2, <2>3 DEF Carries
<1>4. /\ Stands(b, ts)
      /\ Standing(b) = IF events = << >> THEN Standing(book) ELSE PlaceAfter(Standing(book), e)
  <2>1. CASE moved
    <3>1. e \in Events /\ e.kind # "trade" /\ (e.kind = "depth" => Verdict(Standing(book), e) = "applied")
      BY <2>1 DEF InHand
    <3> HIDE DEF e
    <3>2. Stands(ApplyEvent(book, e), e.ts) /\ Standing(ApplyEvent(book, e)) = PlaceAfter(Standing(book), e)
      BY <3>1, EventApplied
    <3> QED
      BY <2>1, <3>2
  <2>2. CASE ~moved
    <3>1. b = book /\ ts = bookTs
      BY <2>2
    <3>2. events # << >> => PlaceAfter(Standing(book), e) = Standing(book)
      BY <2>2 DEF PlaceAfter
    <3> QED
      BY <3>1, <3>2 DEF BookGood
  <2> QED
    BY <2>1, <2>2
<1>5. Carries(taken, b) /\ Pending(taken) \in Nat /\ Pending(taken) <= Pending(rows) + 1
  <2>1. CASE events = << >>
    <3>1. taken = rows /\ b = book
      BY <2>1 DEF Buffered
    <3> HIDE DEF taken, b
    <3> QED
      BY <1>2, <1>3, <3>1
  <2>2. CASE events # << >>
    <3>1. taken = Add(rows, e.kind, RowOf(e)) /\ e \in Events
          /\ (e.kind = "depth" => Verdict(Standing(book), e) = "applied")
      BY <2>2 DEF Buffered, InHand
    <3>2. b = IF e.kind # "trade" THEN ApplyEvent(book, e) ELSE book
      BY <2>2
    <3> HIDE DEF e, b, taken
    <3>3. Carries(taken, b)
      BY <1>3, <3>1, <3>2, EventCarried
    <3>4. e.kind \in {"snapshot", "depth", "trade"}
      BY <3>1, EventIs
    <3> QED
      BY <1>2, <3>1, <3>3, <3>4, PendingIs
  <2> QED
    BY <2>1, <2>2
<1>6. ASSUME b.isSynced
      PROVE  LET r == Copied(taken, b, ts)
             IN  Carries(r, b) /\ Pending(r) \in Nat /\ Pending(r) <= Pending(rows) + 2
  <2>1. b.last # NoId
    BY <1>4, <1>6 DEF Stands
  <2> HIDE DEF b, ts, taken
  <2>2. SnapshotRow(b, ts) \in GoodSnaps /\ SnapshotRow(b, ts).u = b.last
    BY <1>4, <2>1, CopyIsGood
  <2>3. Copied(taken, b, ts) = Add(taken, "snapshot", SnapshotRow(b, ts))
    BY DEF Copied
  <2>4. Carries(Copied(taken, b, ts), b)
    BY <1>5, <2>2, <2>3, SnapshotCarried
  <2>5. taken \in RowSets /\ Finite(taken)
    BY <1>5 DEF Carries
  <2>6. Pending(Copied(taken, b, ts)) \in Nat /\ Pending(Copied(taken, b, ts)) <= Pending(taken) + 1
    BY <2>3, <2>5, PendingIs
  <2> QED
    BY <1>2, <1>5, <2>4, <2>6
<1>7. /\ book' = b /\ bookTs' = ts
      /\ \E r \in {taken} \cup (IF Periodic /\ b.isSynced THEN {Copied(taken, b, ts)} ELSE {}) :
           \/ Flush(r)
           \/ Pending(r) < BufferSize /\ rows' = r /\ rpc' = "run" /\ UNCHANGED <<batch, error>>
  <2> HIDE DEF b, ts, taken
  <2> QED
    BY Zenon DEF Turn, b, ts, taken, moved, e
<1> HIDE DEF b, ts, taken
<1>8. PICK r \in {taken} \cup (IF Periodic /\ b.isSynced THEN {Copied(taken, b, ts)} ELSE {}) :
        \/ Flush(r)
        \/ Pending(r) < BufferSize /\ rows' = r /\ rpc' = "run" /\ UNCHANGED <<batch, error>>
  BY <1>7
<1>9. r = taken \/ (b.isSynced /\ r = Copied(taken, b, ts))
  BY <1>8
<1>10. Carries(r, b) /\ Pending(r) \in Nat /\ Pending(r) <= Pending(rows) + 2
  BY <1>2, <1>5, <1>6, <1>9
<1>11. Pending(r) < BufferSize + 2
  BY <1>1, <1>2, <1>10, RecorderAssumption
<1>12. Stands(book', bookTs') /\ Carries(r, book')
  BY <1>4, <1>7, <1>10
<1>13. Standing(book') = IF events = << >> THEN Standing(book) ELSE PlaceAfter(Standing(book), e)
  BY <1>4, <1>7
<1> QED
  BY <1>8, <1>10, <1>11, <1>12, <1>13

(* A turn of the loop keeps the recorder's invariant (record_l2.py,        *)
(* _record).                                                               *)
LEMMA TurnKeeps ==
  ASSUME VenueGood, BookGood, RowsGood, RowsAnchored, BookHeld, LoopGood,
         rpc \in {"run", "wait"}, NEW events, InHand(events), Turn(events),
         head' = head, closed' = closed
  PROVE  BookGood' /\ RowsGood' /\ RowsAnchored' /\ BookHeld' /\ LoopGood'
<1>1. PICK r : /\ Carries(r, book') /\ Pending(r) \in Nat /\ Pending(r) < BufferSize + 2
               /\ \/ Flush(r)
                  \/ Pending(r) < BufferSize /\ rows' = r /\ rpc' = "run" /\ UNCHANGED <<batch, error>>
  BY TurnCarries
<1>2. BookGood'
  BY TurnCarries DEF BookGood
<1>3. disk' = disk /\ lost' = lost /\ run' = run /\ shutdown' = shutdown
  BY DEF Turn
<1>4. batch = NoRows /\ lost = {} /\ disk \in RowSets /\ Finite(disk) /\ error \in BOOLEAN
  BY DEF LoopGood, RowsGood
<1>5. Diffs' = Diffs /\ Prints' = Prints
  BY DEF Diffs, Prints
<1>6. RowSets' = RowSets
  BY <1>5 DEF RowSets
<1>7. /\ r \in RowSets /\ Finite(r)
      /\ AllAnchored(r.depth, disk.depth \cup r.depth, disk.snapshot \cup r.snapshot)
      /\ StandsOn(book', disk.depth \cup r.depth, disk.snapshot \cup r.snapshot)
  BY <1>1 DEF Carries
<1>8. \/ rows' = NoRows /\ batch' = r /\ rpc' = "flush" /\ error' = error
      \/ rows' = r /\ batch' = NoRows /\ rpc' = "ending" /\ error' = TRUE
      \/ rows' = r /\ batch' = NoRows /\ rpc' = "run" /\ error' = error /\ Pending(r) < BufferSize
  BY <1>1, <1>4 DEF Flush
<1>9. RowsGood'
  <2>1. rows' \in RowSets /\ batch' \in RowSets /\ Finite(rows') /\ Finite(batch')
    BY <1>7, <1>8, NothingIs
  <2> QED
    BY <1>3, <1>4, <1>6, <2>1 DEF RowsGood
<1>10. /\ disk'.depth \cup batch'.depth \cup rows'.depth = disk.depth \cup r.depth
       /\ disk'.snapshot \cup batch'.snapshot \cup rows'.snapshot = disk.snapshot \cup r.snapshot
  BY <1>3, <1>8, NothingIs
<1>11. HeldDiffs' = disk.depth \cup r.depth /\ HeldSnaps' = disk.snapshot \cup r.snapshot
  BY <1>10 DEF HeldDiffs, HeldSnaps
<1>12. RowsAnchored'
  <2>1. Anchored(disk.depth, disk.snapshot)
    BY DEF RowsAnchored
  <2>2. AllAnchored(batch'.depth, disk'.depth \cup batch'.depth, disk'.snapshot \cup batch'.snapshot)
    BY <1>3, <1>7, <1>8, NothingIs DEF AllAnchored
  <2>3. AllAnchored(rows'.depth, HeldDiffs', HeldSnaps')
    BY <1>7, <1>8, <1>11, NothingIs DEF AllAnchored
  <2> QED
    BY <1>3, <2>1, <2>2, <2>3 DEF RowsAnchored
<1>13. BookHeld'
  BY <1>7, <1>11 DEF BookHeld
<1>14. LoopGood'
  <2>1. Pending(rows') < BufferSize + 2 /\ (rpc' \in {"run", "wait"} => Pending(rows') < BufferSize)
    BY <1>1, <1>8, NothingIs, RecorderAssumption
  <2> QED
    BY <1>3, <1>4, <1>8, <2>1 DEF LoopGood, Rpc
<1> QED
  BY <1>2, <1>9, <1>12, <1>13, <1>14

-----------------------------------------------------------------------------
\* The start of a run.

(* A new run's book and stream stand at the same place.                    *)
LEMMA StartStands ==
  /\ Stands(EmptyBook, 0) /\ Standing(EmptyBook) = NoTip /\ EmptyBook.last = NoId
  /\ NoTip \in Place
<1>1. 0 \in UpdateId /\ NoId \in Int /\ NoId < 0
  BY VenueAssumption DEF UpdateId, NoId
<1>2. EmptyBook \in Book /\ Faithful(EmptyBook)
  BY DEF EmptyBook, Book, Faithful
<1>3. EmptyBook.last = NoId /\ EmptyBook.isSynced = FALSE /\ EmptyBook.seqReady = FALSE
  BY DEF EmptyBook
<1>4. Stands(EmptyBook, 0)
  BY <1>1, <1>2, <1>3 DEF Stands
<1>5. Standing(EmptyBook) = NoTip /\ NoTip \in Place
  BY <1>3 DEF Standing, NoTip, Place
<1> QED
  BY <1>3, <1>4, <1>5

(* The invariant holds at the start.                                       *)
LEMMA RecorderStarts == RInit => RecorderIInv
<1> SUFFICES ASSUME RInit PROVE RecorderIInv
  OBVIOUS
<1>1. VenueGood
  BY VenueAssumption, FS_EmptySet DEF RInit, StreamInit, VenueGood, InLine, UpdateId
<1>2. BookGood /\ Standing(book) = NoTip /\ book.last = NoId
  BY StartStands DEF RInit, BookGood
<1>3. QueueGood
  <2>1. Leads(NoTip, << >>, NoTip)
    BY PathEmpty, StartStands
  <2>2. queue = << >> /\ tip = NoTip /\ trades = 0
    BY DEF RInit, StreamInit
  <2>3. queue \in Seq(Events) /\ Len(queue) <= MaxQueue
    BY <2>2, RecorderAssumption
  <2> QED
    BY <1>2, <2>1, <2>2, <2>3, StartStands, PublisherAssumption DEF QueueGood
<1>4. rows = NoRows /\ batch = NoRows /\ disk = NoRows /\ lost = {}
  BY DEF RInit
<1>5. RowsGood /\ RowsAnchored
  BY <1>4, NothingIs DEF RowsGood, RowsAnchored, Anchored, AllAnchored
<1>6. BookHeld
  BY <1>2 DEF BookHeld, StandsOn
<1>7. LoopGood
  <2>1. rpc = "run" /\ run = 1 /\ shutdown = FALSE /\ error = FALSE
    BY DEF RInit
  <2>2. run \in 1..MaxRuns /\ shutdown \in BOOLEAN /\ error \in BOOLEAN
    <3>1. shutdown \in BOOLEAN /\ error \in BOOLEAN
      BY <2>1, Zenon
    <3> QED
      BY <2>1, <3>1, RecorderAssumption
  <2>3. Pending(rows) < BufferSize /\ Pending(rows) < BufferSize + 2
    BY <1>4, NothingIs, RecorderAssumption
  <2>4. rpc \in Rpc /\ rpc \notin {"done", "dead"}
    BY <2>1 DEF Rpc
  <2>5. "failed" \notin lost /\ "unflushed" \notin lost
    BY <1>4
  <2> QED
    BY <1>4, <2>2, <2>3, <2>4, <2>5 DEF LoopGood
<1> QED
  BY <1>1, <1>2, <1>3, <1>5, <1>6, <1>7, HoleInit DEF RecorderIInv

-----------------------------------------------------------------------------
\* The venue and the feed move; the recorder's own state stays.

(* When only the venue or the stream moves, what the recorder has stays    *)
(* good.                                                                   *)
LEMMA OthersStay ==
  ASSUME RecorderIInv, VenueGood', head' \in Nat, head <= head', closed \subseteq closed',
         UNCHANGED <<rpc, run, shutdown, error, bookVars, writerVars, lost>>
  PROVE  BookGood' /\ RowsGood' /\ RowsAnchored' /\ BookHeld' /\ LoopGood'
<1>1. /\ book' = book /\ bookTs' = bookTs /\ rows' = rows /\ batch' = batch /\ disk' = disk
      /\ rpc' = rpc /\ run' = run /\ shutdown' = shutdown /\ error' = error /\ lost' = lost
  BY DEF bookVars, writerVars
<1>2. head \in Nat
  BY RowsAre DEF RecorderIInv, VenueGood
<1>3. Diffs \subseteq Diffs' /\ Prints \subseteq Prints'
  BY <1>2, EventsGrow
<1>4. BookGood'
  BY <1>1 DEF RecorderIInv, BookGood
<1>5. RowSets \subseteq RowSets'
  BY <1>3 DEF RowSets
<1>6. RowsGood'
  BY <1>1, <1>5 DEF RecorderIInv, RowsGood
<1>7. HeldDiffs' = HeldDiffs /\ HeldSnaps' = HeldSnaps
  BY <1>1 DEF HeldDiffs, HeldSnaps
<1>8. RowsAnchored'
  BY <1>1, <1>7 DEF RecorderIInv, RowsAnchored
<1>9. BookHeld'
  BY <1>1, <1>7 DEF RecorderIInv, BookHeld
<1>10. LoopGood'
  BY <1>1 DEF RecorderIInv, LoopGood
<1> QED
  BY <1>4, <1>6, <1>8, <1>9, <1>10

(* The venue may send at any time.                                         *)
LEMMA VenueStepKeeps ==
  ASSUME RecorderIInv, VenueStep
  PROVE  VenueGood' /\ QueueGood' /\ BookGood' /\ RowsGood' /\ RowsAnchored' /\ BookHeld' /\ LoopGood'
<1>1. VenueGood' /\ head' \in Nat /\ head <= head' /\ closed \subseteq closed'
  BY VenueStays DEF RecorderIInv, VenueStep
<1>2. head \in Nat
  BY RowsAre DEF RecorderIInv, VenueGood
<1>3. Events \subseteq Events'
  BY <1>1, <1>2, EventsGrow
<1>4. queue' = queue /\ tip' = tip /\ trades' = trades /\ rpc' = rpc /\ book' = book
  BY DEF VenueStep, VenueMoves, VenueUpdate, VenueDiff, bookVars
<1>5. QueueGood'
  <2>1. queue \in Seq(Events')
    BY <1>3 DEF RecorderIInv, QueueGood
  <2> QED
    BY <1>4, <2>1 DEF RecorderIInv, QueueGood, Feeding
<1>6. BookGood' /\ RowsGood' /\ RowsAnchored' /\ BookHeld' /\ LoopGood'
  BY <1>1, OthersStay DEF VenueStep
<1> QED
  BY <1>1, <1>5, <1>6

(* The fields of an event.                                                 *)
LEMMA StampedIs ==
  ASSUME NEW m, NEW ts
  PROVE  LET e == Stamped(m, ts)
         IN  /\ e = [kind |-> m.kind, U |-> m.U, u |-> m.u, pu |-> m.pu, ts |-> ts]
             /\ e.kind = m.kind /\ e.U = m.U /\ e.u = m.u /\ e.pu = m.pu /\ e.ts = ts
BY DEF Stamped

(* The feed publishes only what the stream's end accepts.                  *)
LEMMA Published ==
  ASSUME RecorderIInv, FeedStep
  PROVE  \E e \in Events : /\ queue' = Append(queue, e)
                           /\ e.kind = "depth" => Verdict(tip, e) = "applied"
                           /\ tip' = PlaceAfter(tip, e) /\ tip' \in Place
                           /\ trades' \in 0..MaxTrades
<1>1. tip \in Place /\ trades \in 0..MaxTrades /\ head \in Nat
  BY RowsAre DEF RecorderIInv, QueueGood, VenueGood
<1>2. CASE PublishSnapshot
  <2>1. PICK ts \in 0..head, L \in UpdateId :
          /\ L <= ts
          /\ queue' = Append(queue, Stamped(Snapshot(L), ts))
          /\ tip' = [last |-> L, seqReady |-> FALSE]
    BY <1>2 DEF PublishSnapshot
  <2> DEFINE e == Stamped(Snapshot(L), ts)
  <2>2. e = [kind |-> "snapshot", U |-> 0, u |-> L, pu |-> 0, ts |-> ts]
    BY DEF Stamped, Snapshot
  <2> HIDE DEF e
  <2>3. e.kind = "snapshot" /\ e.u = L /\ e.ts = ts
    BY <2>2
  <2>4. e \in Events
    BY <2>1, <2>2, <2>3 DEF Events, Answers
  <2>5. tip' = PlaceAfter(tip, e) /\ tip' \in Place
    BY <2>1, <2>3 DEF PlaceAfter, Place
  <2>6. trades' = trades
    BY <1>2 DEF PublishSnapshot
  <2> QED
    BY <1>1, <2>1, <2>3, <2>4, <2>5, <2>6 DEF e
<1>3. CASE PublishDiff
  <2>1. PICK d \in closed :
          /\ Verdict(tip, d) = "applied"
          /\ queue' = Append(queue, Stamped(d, d.u))
          /\ tip' = [last |-> d.u, seqReady |-> TRUE]
    BY <1>3, Zenon DEF PublishDiff
  <2> DEFINE e == Stamped(d, d.u)
  <2>2. e.kind = d.kind /\ e.U = d.U /\ e.u = d.u /\ e.pu = d.pu
    BY StampedIs
  <2>3. d.kind = "depth" /\ d.u \in UpdateId
    BY DEF RecorderIInv, VenueGood, IsDiff, Msg
  <2>4. e \in Events
    BY DEF Events, Diffs
  <2> HIDE DEF e
  <2>5. Verdict(tip, e) = Verdict(tip, d)
    BY <2>2 DEF Verdict, Brackets
  <2>6. tip' = PlaceAfter(tip, e) /\ tip' \in Place
    BY <2>1, <2>2, <2>3 DEF PlaceAfter, Place
  <2>7. trades' = trades
    BY <1>3 DEF PublishDiff
  <2> QED
    BY <1>1, <2>1, <2>4, <2>5, <2>6, <2>7 DEF e
<1>4. CASE PublishTrade
  <2>1. /\ trades < MaxTrades /\ trades' = trades + 1 /\ tip' = tip
        /\ queue' = Append(queue, Stamped(Trade(trades), head))
    BY <1>4 DEF PublishTrade
  <2> DEFINE e == Stamped(Trade(trades), head)
  <2>2. Trade(trades) = [kind |-> "trade", U |-> 0, u |-> trades, pu |-> 0]
    BY DEF Trade, Mark
  <2>3. e = [kind |-> "trade", U |-> 0, u |-> trades, pu |-> 0, ts |-> head]
    BY <2>2 DEF Stamped
  <2> HIDE DEF e
  <2>4. e.kind = "trade" /\ trades \in Nat /\ head \in 0..head
    BY <1>1, <2>3, PublisherAssumption
  <2>5. e \in Events
    BY <2>3, <2>4 DEF Events, Prints
  <2>6. tip' = PlaceAfter(tip, e)
    BY <2>1, <2>4 DEF PlaceAfter
  <2>7. trades' \in 0..MaxTrades
    BY <1>1, <2>1, PublisherAssumption
  <2> QED
    BY <1>1, <2>1, <2>4, <2>5, <2>6, <2>7 DEF e
<1> QED
  BY <1>2, <1>3, <1>4 DEF FeedStep

(* The feed may publish at any time before its end.                        *)
LEMMA FeedStepKeeps ==
  ASSUME RecorderIInv, FeedStep
  PROVE  VenueGood' /\ QueueGood' /\ BookGood' /\ RowsGood' /\ RowsAnchored' /\ BookHeld' /\ LoopGood'
<1>1. head' = head /\ closed' = closed
  BY DEF FeedStep, PublishSnapshot, PublishDiff, PublishTrade
<1>2. VenueGood' /\ head' \in Nat /\ head <= head' /\ closed \subseteq closed'
  BY <1>1, RowsAre DEF RecorderIInv, VenueGood
<1>3. UNCHANGED <<rpc, run, shutdown, error, bookVars, writerVars, lost>>
  BY DEF FeedStep
<1>4. PICK e \in Events : /\ queue' = Append(queue, e)
                          /\ e.kind = "depth" => Verdict(tip, e) = "applied"
                          /\ tip' = PlaceAfter(tip, e) /\ tip' \in Place
                          /\ trades' \in 0..MaxTrades
  BY Published
<1>5. /\ queue \in Seq(Events) /\ Len(queue) < MaxQueue /\ Feeding
      /\ Leads(Standing(book), queue, tip)
  BY DEF RecorderIInv, QueueGood, FeedStep, Feeding
<1>6. Leads(Standing(book), queue', tip')
  BY <1>4, <1>5, PathAppend
<1>7. Events' = Events
  BY <1>1 DEF Events, Diffs, Answers, Prints
<1>8. queue' \in Seq(Events) /\ Len(queue') <= MaxQueue
  BY <1>4, <1>5, RecorderAssumption
<1>9. book' = book
  BY <1>3 DEF bookVars
<1>10. QueueGood'
  BY <1>4, <1>6, <1>7, <1>8, <1>9 DEF QueueGood
<1> QED
  BY <1>2, <1>3, <1>10, OthersStay

-----------------------------------------------------------------------------
\* The loop's steps.

(* An event is taken from the queue: the path it was on starts one step    *)
(* later.                                                                  *)
LEMMA RecordEventKeeps ==
  ASSUME RecorderIInv, RecordEvent
  PROVE  VenueGood' /\ QueueGood' /\ BookGood' /\ RowsGood' /\ RowsAnchored' /\ BookHeld' /\ LoopGood'
<1> DEFINE e == Head(queue)
           events == <<e>>
<1>1. /\ queue # << >> /\ rpc \in {"run", "wait"} /\ queue' = Tail(queue) /\ Turn(events)
      /\ head' = head /\ closed' = closed /\ trades' = trades /\ tip' = tip
  BY DEF RecordEvent
<1>2. /\ VenueGood /\ QueueGood /\ BookGood /\ RowsGood /\ RowsAnchored /\ BookHeld /\ LoopGood
      /\ VenueGood'
  BY <1>1 DEF RecorderIInv, VenueGood
<1>3. queue \in Seq(Events) /\ Leads(Standing(book), queue, tip)
  BY <1>1, <1>2 DEF QueueGood, Feeding
<1>4. events # << >> /\ Head(events) = e /\ e \in Events
  BY <1>1, <1>3
<1>5. /\ PlaceAfter(Standing(book), e) \in Place
      /\ e.kind = "depth" => Verdict(Standing(book), e) = "applied"
      /\ Leads(PlaceAfter(Standing(book), e), Tail(queue), tip)
  BY <1>1, <1>3, PathTail
<1> HIDE DEF events, e
<1>6. InHand(events)
  BY <1>4, <1>5 DEF InHand
<1>7. BookGood' /\ RowsGood' /\ RowsAnchored' /\ BookHeld' /\ LoopGood'
  BY <1>1, <1>2, <1>6, TurnKeeps
<1>8. Standing(book') = PlaceAfter(Standing(book), e)
  <2>1. Standing(book') = IF events = << >> THEN Standing(book)
                          ELSE PlaceAfter(Standing(book), Head(events))
    BY <1>1, <1>2, <1>6, TurnCarries
  <2> QED
    BY <1>4, <2>1
<1>9. QueueGood'
  <2>1. Events' = Events
    BY <1>1 DEF Events, Diffs, Answers, Prints
  <2>2. queue' \in Seq(Events) /\ Len(queue') <= MaxQueue
    BY <1>1, <1>2, <1>3, RecorderAssumption DEF QueueGood
  <2>3. Leads(Standing(book'), queue', tip')
    BY <1>1, <1>5, <1>8
  <2> QED
    BY <1>1, <1>2, <2>1, <2>2, <2>3 DEF QueueGood
<1> QED
  BY <1>2, <1>7, <1>9

(* The loop turns without an event.                                        *)
LEMMA WaitTimesOutKeeps ==
  ASSUME RecorderIInv, WaitTimesOut
  PROVE  VenueGood' /\ QueueGood' /\ BookGood' /\ RowsGood' /\ RowsAnchored' /\ BookHeld' /\ LoopGood'
<1> DEFINE events == << >>
<1>1. /\ rpc = "wait" /\ Turn(events)
      /\ head' = head /\ closed' = closed /\ trades' = trades /\ tip' = tip /\ queue' = queue
  BY DEF WaitTimesOut, streamVars
<1>2. /\ VenueGood /\ QueueGood /\ BookGood /\ RowsGood /\ RowsAnchored /\ BookHeld /\ LoopGood
      /\ VenueGood'
  BY <1>1 DEF RecorderIInv, VenueGood
<1>3. InHand(events)
  BY DEF InHand
<1>4. BookGood' /\ RowsGood' /\ RowsAnchored' /\ BookHeld' /\ LoopGood'
  <2> HIDE DEF events
  <2> QED
    BY <1>1, <1>2, <1>3, TurnKeeps
<1>5. Standing(book') = Standing(book)
  <2>1. events = << >>
    OBVIOUS
  <2> HIDE DEF events
  <2>2. Standing(book') = IF events = << >> THEN Standing(book)
                          ELSE PlaceAfter(Standing(book), Head(events))
    BY <1>1, <1>2, <1>3, TurnCarries
  <2> QED
    BY <2>1, <2>2
<1>6. QueueGood'
  <2>1. Events' = Events
    BY <1>1 DEF Events, Diffs, Answers, Prints
  <2>2. Leads(Standing(book'), queue', tip')
    BY <1>1, <1>2, <1>5 DEF QueueGood, Feeding
  <2> QED
    BY <1>1, <1>2, <2>1, <2>2 DEF QueueGood
<1> QED
  BY <1>2, <1>4, <1>6

\* A step that moves neither venue, stream, book nor rows, and revives nothing.
LEMMA LoopMoves ==
  ASSUME RecorderIInv, UNCHANGED <<streamVars, bookVars, writerVars, lost>>, LoopGood',
         Feeding' => Feeding, rpc' = "dead" \/ rpc # "dead"
  PROVE  VenueGood' /\ QueueGood' /\ BookGood' /\ RowsGood' /\ RowsAnchored' /\ BookHeld' /\ LoopGood'
<1>1. /\ head' = head /\ closed' = closed /\ trades' = trades /\ tip' = tip /\ queue' = queue
      /\ book' = book /\ bookTs' = bookTs /\ rows' = rows /\ batch' = batch /\ disk' = disk
      /\ lost' = lost
  BY DEF streamVars, bookVars, writerVars
<1>2. VenueGood /\ QueueGood /\ BookGood /\ RowsGood /\ RowsAnchored /\ BookHeld /\ LoopGood
  BY DEF RecorderIInv
<1>3. VenueGood'
  BY <1>1, <1>2 DEF VenueGood
<1>4. Diffs' = Diffs /\ Prints' = Prints /\ Events' = Events
  BY <1>1 DEF Events, Diffs, Answers, Prints
<1>5. QueueGood'
  BY <1>1, <1>2, <1>4 DEF QueueGood
<1>6. BookGood'
  BY <1>1, <1>2 DEF BookGood
<1>7. RowsGood'
  BY <1>1, <1>2, <1>4 DEF RowsGood, RowSets
<1>8. HeldDiffs' = HeldDiffs /\ HeldSnaps' = HeldSnaps
  BY <1>1 DEF HeldDiffs, HeldSnaps
<1>9. RowsAnchored'
  BY <1>1, <1>2, <1>8 DEF RowsAnchored
<1>10. BookHeld'
  BY <1>1, <1>2, <1>8 DEF BookHeld
<1> QED
  BY <1>3, <1>5, <1>6, <1>7, <1>9, <1>10

(* The end of a run: the queue is gone, the buffer with the worker or      *)
(* dropped with an error.                                                  *)
LEMMA FinishKeeps ==
  ASSUME RecorderIInv, Finish
  PROVE  VenueGood' /\ QueueGood' /\ BookGood' /\ RowsGood' /\ RowsAnchored' /\ BookHeld' /\ LoopGood'
<1>1. /\ rpc = "ending" /\ queue' = << >>
      /\ head' = head /\ closed' = closed /\ trades' = trades /\ tip' = tip
      /\ run' = run /\ shutdown' = shutdown /\ book' = book /\ bookTs' = bookTs /\ disk' = disk
  BY DEF Finish, bookVars
<1>2. /\ VenueGood /\ QueueGood /\ BookGood /\ RowsGood /\ RowsAnchored /\ BookHeld /\ LoopGood
  BY DEF RecorderIInv
<1>3. lost \subseteq {"failed"} /\ batch = NoRows /\ error \in BOOLEAN /\ Pending(rows) < BufferSize + 2
  BY <1>1, <1>2 DEF LoopGood
<1>4. \/ /\ batch' = rows /\ rows' = NoRows /\ rpc' = "closing" /\ error' = error
         /\ lost' \subseteq lost \cup {"unread"} /\ lost \subseteq lost'
      \/ /\ batch' = NoRows /\ rows' = NoRows /\ rpc' = "done" /\ error' = TRUE
         /\ lost' \subseteq lost \cup {"unread", "unflushed"} /\ "unflushed" \in lost'
  BY <1>3 DEF Finish
<1>5. VenueGood'
  BY <1>1, <1>2 DEF VenueGood
<1>6. Diffs' = Diffs /\ Prints' = Prints /\ Events' = Events
  BY <1>1 DEF Events, Diffs, Answers, Prints
<1>7. QueueGood'
  <2>1. ~Feeding'
    BY <1>4 DEF Feeding
  <2>2. queue' \in Seq(Events) /\ Len(queue') <= MaxQueue
    BY <1>1, RecorderAssumption
  <2> QED
    BY <1>1, <1>2, <1>6, <2>1, <2>2 DEF QueueGood
<1>8. BookGood'
  BY <1>1, <1>2 DEF BookGood
<1>9. RowSets' = RowSets
  BY <1>6 DEF RowSets
<1>10. RowsGood'
  <2>1. rows \in RowSets /\ Finite(rows) /\ disk \in RowSets /\ Finite(disk)
    BY <1>2 DEF RowsGood
  <2>2. rows' \in RowSets /\ Finite(rows') /\ batch' \in RowSets /\ Finite(batch')
    BY <1>4, <2>1, NothingIs
  <2> QED
    BY <1>1, <1>9, <2>1, <2>2 DEF RowsGood
<1>11. HeldDiffs = disk.depth \cup rows.depth /\ HeldSnaps = disk.snapshot \cup rows.snapshot
  BY <1>3, NothingIs DEF HeldDiffs, HeldSnaps
<1>12. RowsAnchored'
  <2>1. Anchored(disk.depth, disk.snapshot) /\ AllAnchored(rows.depth, HeldDiffs, HeldSnaps)
    BY <1>2 DEF RowsAnchored
  <2>2. AllAnchored(batch'.depth, disk'.depth \cup batch'.depth, disk'.snapshot \cup batch'.snapshot)
    BY <1>1, <1>4, <1>11, <2>1, NothingIs DEF AllAnchored
  <2>3. rows'.depth = {}
    BY <1>4, NothingIs
  <2>4. AllAnchored(rows'.depth, HeldDiffs', HeldSnaps')
    BY <2>3 DEF AllAnchored
  <2> QED
    BY <1>1, <2>1, <2>2, <2>4 DEF RowsAnchored
<1>13. BookHeld'
  <2> SUFFICES ASSUME lost' \subseteq {"unread"} PROVE StandsOn(book', HeldDiffs', HeldSnaps')
    BY DEF BookHeld
  <2>1. batch' = rows /\ rows' = NoRows /\ lost \subseteq {"unread"}
    BY <1>4
  <2>2. disk'.depth \cup batch'.depth \cup rows'.depth = disk.depth \cup rows.depth
        /\ disk'.snapshot \cup batch'.snapshot \cup rows'.snapshot = disk.snapshot \cup rows.snapshot
    BY <1>1, <2>1, NothingIs
  <2>3. HeldDiffs' = HeldDiffs /\ HeldSnaps' = HeldSnaps
    BY <1>11, <2>2 DEF HeldDiffs, HeldSnaps
  <2> QED
    BY <1>1, <1>2, <2>1, <2>3 DEF BookHeld
<1>14. LoopGood'
  <2>1. Pending(rows') < BufferSize + 2
    BY <1>4, NothingIs, RecorderAssumption
  <2>2. rpc' \in {"closing", "done"} /\ rows' = NoRows /\ (rpc' = "done" => batch' = NoRows)
    BY <1>4
  <2>3. error' \in BOOLEAN /\ ("failed" \in lost' \/ "unflushed" \in lost' => error')
    <3>1. "failed" \in lost => error
      BY <1>2 DEF LoopGood
    <3>2. CASE error' = error
      <4>1. lost' \subseteq lost \cup {"unread"} \/ error'
        BY <1>4
      <4> QED
        BY <1>3, <3>1, <3>2, <4>1
    <3>3. CASE error' = TRUE
      <4>1. error' \in BOOLEAN /\ error'
        BY <3>3, Zenon
      <4> QED
        BY <4>1
    <3> QED
      BY <1>4, <3>2, <3>3
  <2>4. lost' \subseteq {"unread", "failed", "unflushed"}
    BY <1>3, <1>4
  <2>5. run' \in 1..MaxRuns /\ shutdown' \in BOOLEAN
    BY <1>1, <1>2 DEF LoopGood
  <2> QED
    BY <2>1, <2>2, <2>3, <2>4, <2>5 DEF LoopGood, Rpc
<1> QED
  BY <1>5, <1>7, <1>8, <1>10, <1>12, <1>13, <1>14

(* The loop keeps the invariant.                                           *)
LEMMA LoopStepKeeps ==
  ASSUME RecorderIInv, LoopStep
  PROVE  VenueGood' /\ QueueGood' /\ BookGood' /\ RowsGood' /\ RowsAnchored' /\ BookHeld' /\ LoopGood'
<1>1. CASE RecordEvent
  BY <1>1, RecordEventKeeps
<1>2. CASE WaitForEvent
  <2>1. UNCHANGED <<streamVars, run, shutdown, error, bookVars, writerVars, lost>>
        /\ rpc = "run" /\ rpc' = "wait"
    BY <1>2 DEF WaitForEvent
  <2>2. rows' = rows /\ batch' = batch
    BY <2>1 DEF writerVars
  <2>3. LoopGood'
    BY <2>1, <2>2 DEF RecorderIInv, LoopGood, Rpc
  <2> QED
    BY <2>1, <2>3, LoopMoves DEF Feeding
<1>3. CASE WaitTimesOut
  BY <1>3, WaitTimesOutKeeps
<1>4. CASE EndLoop
  <2>1. UNCHANGED <<streamVars, run, shutdown, bookVars, writerVars, lost>>
        /\ rpc = "run" /\ rpc' = "ending" /\ (error' = error \/ error' = TRUE)
    BY <1>4 DEF EndLoop
  <2>2. rows' = rows /\ batch' = batch
    BY <2>1 DEF writerVars
  <2>3. LoopGood'
    <3>1. LoopGood
      BY DEF RecorderIInv
    <3>2. error' \in BOOLEAN
      <4>1. error \in BOOLEAN
        BY <3>1 DEF LoopGood
      <4> QED
        BY <2>1, <4>1, Zenon
    <3>3. lost' = {} /\ lost = {}
      BY <2>1, <3>1 DEF LoopGood
    <3> QED
      BY <2>1, <2>2, <3>1, <3>2, <3>3 DEF LoopGood, Rpc
  <2> QED
    BY <2>1, <2>3, LoopMoves DEF Feeding
<1>5. CASE Finish
  BY <1>5, FinishKeeps
<1> QED
  BY <1>1, <1>2, <1>3, <1>4, <1>5 DEF LoopStep

-----------------------------------------------------------------------------
\* The worker's steps.

Into(r, t, part)  == [r EXCEPT ![t] = @ \cup part]
OutOf(r, t, part) == [r EXCEPT ![t] = @ \ part]

(* Rows put on disk, type by type.                                         *)
LEMMA IntoIs ==
  ASSUME NEW r \in RowSets, NEW P
  PROVE  /\ Into(r, "snapshot", P) = [snapshot |-> r.snapshot \cup P, depth |-> r.depth, trade |-> r.trade]
         /\ Into(r, "depth", P) = [snapshot |-> r.snapshot, depth |-> r.depth \cup P, trade |-> r.trade]
         /\ Into(r, "trade", P) = [snapshot |-> r.snapshot, depth |-> r.depth, trade |-> r.trade \cup P]
<1>1. Into(r, "snapshot", P) = [r EXCEPT !.snapshot = @ \cup P]
  BY DEF Into, RowSets
<1>2. Into(r, "depth", P) = [r EXCEPT !.depth = @ \cup P]
  BY DEF Into, RowSets
<1>3. Into(r, "trade", P) = [r EXCEPT !.trade = @ \cup P]
  BY DEF Into, RowSets
<1>4. [r EXCEPT !.snapshot = @ \cup P] = [snapshot |-> r.snapshot \cup P, depth |-> r.depth, trade |-> r.trade]
  BY DEF RowSets
<1>5. [r EXCEPT !.depth = @ \cup P] = [snapshot |-> r.snapshot, depth |-> r.depth \cup P, trade |-> r.trade]
  BY DEF RowSets
<1>6. [r EXCEPT !.trade = @ \cup P] = [snapshot |-> r.snapshot, depth |-> r.depth, trade |-> r.trade \cup P]
  BY SMTT(30) DEF RowSets
<1> QED
  BY <1>1, <1>2, <1>3, <1>4, <1>5, <1>6

(* Rows taken from the batch, type by type.                                *)
LEMMA OutOfIs ==
  ASSUME NEW r \in RowSets, NEW P
  PROVE  /\ OutOf(r, "snapshot", P) = [snapshot |-> r.snapshot \ P, depth |-> r.depth, trade |-> r.trade]
         /\ OutOf(r, "depth", P) = [snapshot |-> r.snapshot, depth |-> r.depth \ P, trade |-> r.trade]
         /\ OutOf(r, "trade", P) = [snapshot |-> r.snapshot, depth |-> r.depth, trade |-> r.trade \ P]
<1>1. OutOf(r, "snapshot", P) = [r EXCEPT !.snapshot = @ \ P]
  BY DEF OutOf, RowSets
<1>2. OutOf(r, "depth", P) = [r EXCEPT !.depth = @ \ P]
  BY DEF OutOf, RowSets
<1>3. OutOf(r, "trade", P) = [r EXCEPT !.trade = @ \ P]
  BY DEF OutOf, RowSets
<1>4. [r EXCEPT !.snapshot = @ \ P] = [snapshot |-> r.snapshot \ P, depth |-> r.depth, trade |-> r.trade]
  BY DEF RowSets
<1>5. [r EXCEPT !.depth = @ \ P] = [snapshot |-> r.snapshot, depth |-> r.depth \ P, trade |-> r.trade]
  BY DEF RowSets
<1>6. [r EXCEPT !.trade = @ \ P] = [snapshot |-> r.snapshot, depth |-> r.depth, trade |-> r.trade \ P]
  BY DEF RowSets
<1> QED
  BY <1>1, <1>2, <1>3, <1>4, <1>5, <1>6

(* The type written next has rows, and the ones before it have none left. *)
LEMMA NextTypeIs ==
  ASSUME batch \in RowSets, batch # NoRows
  PROVE  /\ NextType \in {"snapshot", "depth", "trade"}
         /\ NextType = "depth" => batch.snapshot = {}
<1> DEFINE P(i) == batch[Type[i]] # {} /\ \A j \in 1..(i - 1) : batch[Type[j]] = {}
<1>1. Type[1] = "snapshot" /\ Type[2] = "depth" /\ Type[3] = "trade" /\ DOMAIN Type = {1, 2, 3}
  BY DEF Type
<1>2. batch = [snapshot |-> batch.snapshot, depth |-> batch.depth, trade |-> batch.trade]
  BY DEF RowSets
<1>3. /\ batch["snapshot"] = batch.snapshot /\ batch["depth"] = batch.depth
      /\ batch["trade"] = batch.trade
  OBVIOUS
<1>4. batch.snapshot # {} \/ batch.depth # {} \/ batch.trade # {}
  BY <1>2 DEF NoRows
<1>5. \E i \in DOMAIN Type : P(i)
  <2>1. CASE batch.snapshot # {}
    <3>1. \A j : j \notin 1..(1 - 1)
      OBVIOUS
    <3>2. P(1)
      BY <1>1, <1>3, <2>1, <3>1
    <3> QED
      BY <1>1, <3>2
  <2>2. CASE batch.snapshot = {} /\ batch.depth # {}
    <3>1. \A j \in 1..(2 - 1) : j = 1
      OBVIOUS
    <3>2. P(2)
      BY <1>1, <1>3, <2>2, <3>1
    <3> QED
      BY <1>1, <3>2
  <2>3. CASE batch.snapshot = {} /\ batch.depth = {}
    <3>1. \A j \in 1..(3 - 1) : j = 1 \/ j = 2
      OBVIOUS
    <3>2. P(3)
      BY <1>1, <1>3, <1>4, <2>3, <3>1
    <3> QED
      BY <1>1, <3>2
  <2> QED
    BY <2>1, <2>2, <2>3
<1> DEFINE k == CHOOSE i \in DOMAIN Type : P(i)
<1>6. NextType = Type[k]
  BY Zenon DEF NextType
<1>7. k \in DOMAIN Type /\ P(k)
  <2> HIDE DEF P
  <2> QED
    BY <1>5, Zenon
<1>8. k = 1 \/ k = 2 \/ k = 3
  BY <1>1, <1>7
<1>9. NextType \in {"snapshot", "depth", "trade"} /\ (NextType = "depth" => k = 2)
  <2> HIDE DEF k
  <2> QED
    BY <1>1, <1>6, <1>8
<1>10. k = 2 => batch.snapshot = {}
  <2> HIDE DEF k
  <2>1. 1 \in 1..(2 - 1)
    OBVIOUS
  <2> QED
    BY <1>1, <1>3, <1>7, <2>1
<1> QED
  BY <1>9, <1>10

(* A part file takes rows of one type from the batch to the disk; a part   *)
(* of diffs comes after every snapshot and holds the earliest ones         *)
(* (_write_batch).                                                         *)
LEMMA PartIs ==
  ASSUME batch \in RowSets, disk \in RowSets, WritePart
  PROVE  \E S \in SUBSET batch.snapshot, D \in SUBSET batch.depth, Q \in SUBSET batch.trade :
           /\ disk' = [snapshot |-> disk.snapshot \cup S, depth |-> disk.depth \cup D, trade |-> disk.trade \cup Q]
           /\ batch' = [snapshot |-> batch.snapshot \ S, depth |-> batch.depth \ D, trade |-> batch.trade \ Q]
           /\ D # {} => batch.snapshot = {}
           /\ D # {} => \E midnight \in UpdateId : D = {r \in batch.depth : r.ts <= midnight}
<1> DEFINE t == NextType
<1>1. t \in {"snapshot", "depth", "trade"} /\ (t = "depth" => batch.snapshot = {})
  BY NextTypeIs DEF WritePart, Writing
<1>2. PICK midnight \in UpdateId :
        LET part == {r \in batch[t] : r.ts <= midnight}
        IN  disk' = Into(disk, t, part) /\ batch' = OutOf(batch, t, part)
  BY Zenon DEF WritePart, Into, OutOf
<1> DEFINE part == {r \in batch[t] : r.ts <= midnight}
<1>3. disk' = Into(disk, t, part) /\ batch' = OutOf(batch, t, part)
  BY <1>2
<1> HIDE DEF t
<1>4. part \subseteq batch[t]
  OBVIOUS
<1>5. CASE t = "snapshot"
  <2>1. part \in SUBSET batch.snapshot /\ {} \in SUBSET batch.depth /\ {} \in SUBSET batch.trade
    BY <1>4, <1>5
  <2> HIDE DEF part
  <2>2. disk' = [snapshot |-> disk.snapshot \cup part, depth |-> disk.depth \cup {}, trade |-> disk.trade \cup {}]
    <3>1. disk.depth \cup {} = disk.depth /\ disk.trade \cup {} = disk.trade
      OBVIOUS
    <3> QED
      BY <1>3, <1>5, <3>1, IntoIs
  <2>3. batch' = [snapshot |-> batch.snapshot \ part, depth |-> batch.depth \ {}, trade |-> batch.trade \ {}]
    <3>1. batch.depth \ {} = batch.depth /\ batch.trade \ {} = batch.trade
      OBVIOUS
    <3> QED
      BY <1>3, <1>5, <3>1, OutOfIs
  <2> QED
    BY <2>1, <2>2, <2>3
<1>6. CASE t = "depth"
  <2>1. part = {r \in batch.depth : r.ts <= midnight} /\ part \in SUBSET batch.depth
        /\ {} \in SUBSET batch.snapshot /\ {} \in SUBSET batch.trade
    BY <1>6
  <2> HIDE DEF part
  <2>2. disk' = [snapshot |-> disk.snapshot \cup {}, depth |-> disk.depth \cup part, trade |-> disk.trade \cup {}]
    <3>1. disk.snapshot \cup {} = disk.snapshot /\ disk.trade \cup {} = disk.trade
      OBVIOUS
    <3> QED
      BY <1>3, <1>6, <3>1, IntoIs
  <2>3. batch' = [snapshot |-> batch.snapshot \ {}, depth |-> batch.depth \ part, trade |-> batch.trade \ {}]
    <3>1. batch.snapshot \ {} = batch.snapshot /\ batch.trade \ {} = batch.trade
      OBVIOUS
    <3> QED
      BY <1>3, <1>6, <3>1, OutOfIs
  <2> QED
    BY <1>1, <1>6, <2>1, <2>2, <2>3
<1>7. CASE t = "trade"
  <2>1. part \in SUBSET batch.trade /\ {} \in SUBSET batch.snapshot /\ {} \in SUBSET batch.depth
    BY <1>4, <1>7
  <2> HIDE DEF part
  <2>2. disk' = [snapshot |-> disk.snapshot \cup {}, depth |-> disk.depth \cup {}, trade |-> disk.trade \cup part]
    <3>1. disk.snapshot \cup {} = disk.snapshot /\ disk.depth \cup {} = disk.depth
      OBVIOUS
    <3> QED
      BY <1>3, <1>7, <3>1, IntoIs
  <2>3. batch' = [snapshot |-> batch.snapshot \ {}, depth |-> batch.depth \ {}, trade |-> batch.trade \ part]
    <3>1. batch.snapshot \ {} = batch.snapshot /\ batch.depth \ {} = batch.depth
      OBVIOUS
    <3> QED
      BY <1>3, <1>7, <3>1, OutOfIs
  <2> QED
    BY <2>1, <2>2, <2>3
<1> QED
  BY <1>1, <1>5, <1>6, <1>7

(* A part file leaves a good tape behind, wherever the batch was cut: what *)
(* a diff of the part follows is on disk, or is an earlier diff of the     *)
(* same part.                                                              *)
LEMMA WritePartKeeps ==
  ASSUME RecorderIInv, WritePart
  PROVE  VenueGood' /\ QueueGood' /\ BookGood' /\ RowsGood' /\ RowsAnchored' /\ BookHeld' /\ LoopGood'
<1>1. /\ rpc \in {"flush", "closing"} /\ rpc' = rpc /\ rows' = rows
      /\ head' = head /\ closed' = closed /\ trades' = trades /\ tip' = tip /\ queue' = queue
      /\ book' = book /\ bookTs' = bookTs /\ lost' = lost
      /\ run' = run /\ shutdown' = shutdown /\ error' = error
  BY DEF WritePart, Writing, streamVars, bookVars
<1>2. /\ VenueGood /\ QueueGood /\ BookGood /\ RowsGood /\ RowsAnchored /\ BookHeld /\ LoopGood
      /\ rows = NoRows
  BY <1>1 DEF RecorderIInv, HoleInv
<1>3. batch \in RowSets /\ disk \in RowSets /\ Finite(batch) /\ Finite(disk)
  BY <1>2 DEF RowsGood
<1>4. PICK S \in SUBSET batch.snapshot, D \in SUBSET batch.depth, Q \in SUBSET batch.trade :
        /\ disk' = [snapshot |-> disk.snapshot \cup S, depth |-> disk.depth \cup D, trade |-> disk.trade \cup Q]
        /\ batch' = [snapshot |-> batch.snapshot \ S, depth |-> batch.depth \ D, trade |-> batch.trade \ Q]
        /\ D # {} => batch.snapshot = {}
        /\ D # {} => \E midnight \in UpdateId : D = {r \in batch.depth : r.ts <= midnight}
  BY <1>1, <1>3, PartIs
<1>5. /\ disk'.snapshot = disk.snapshot \cup S /\ disk'.depth = disk.depth \cup D
      /\ disk'.trade = disk.trade \cup Q
      /\ batch'.snapshot = batch.snapshot \ S /\ batch'.depth = batch.depth \ D
      /\ batch'.trade = batch.trade \ Q
  BY <1>4
<1>6. VenueGood' /\ BookGood' /\ Diffs' = Diffs /\ Prints' = Prints /\ Events' = Events
  BY <1>1, <1>2 DEF VenueGood, BookGood, Events, Diffs, Answers, Prints
<1>7. QueueGood'
  BY <1>1, <1>2, <1>6 DEF QueueGood, Feeding
<1>8. RowSets' = RowSets
  BY <1>6 DEF RowSets
<1>9. RowsGood'
  <2>1. disk' \in RowSets /\ batch' \in RowSets
    BY <1>3, <1>4 DEF RowSets
  <2>2. /\ IsFiniteSet(batch.snapshot) /\ IsFiniteSet(batch.depth) /\ IsFiniteSet(batch.trade)
        /\ IsFiniteSet(disk.snapshot) /\ IsFiniteSet(disk.depth) /\ IsFiniteSet(disk.trade)
    BY <1>3 DEF Finite
  <2>3. /\ IsFiniteSet(S) /\ IsFiniteSet(D) /\ IsFiniteSet(Q)
        /\ IsFiniteSet(batch.snapshot \ S) /\ IsFiniteSet(batch.depth \ D) /\ IsFiniteSet(batch.trade \ Q)
    BY <2>2, FS_Subset
  <2>4. /\ IsFiniteSet(disk.snapshot \cup S) /\ IsFiniteSet(disk.depth \cup D)
        /\ IsFiniteSet(disk.trade \cup Q)
    BY <2>2, <2>3, FS_Union
  <2>5. Finite(disk') /\ Finite(batch')
    BY <1>5, <2>3, <2>4 DEF Finite
  <2> QED
    BY <1>1, <1>2, <1>8, <2>1, <2>5 DEF RowsGood
<1>10. /\ disk'.depth \cup batch'.depth = disk.depth \cup batch.depth
       /\ disk'.snapshot \cup batch'.snapshot = disk.snapshot \cup batch.snapshot
  BY <1>5
<1>11. HeldDiffs' = HeldDiffs /\ HeldSnaps' = HeldSnaps
  BY <1>1, <1>10 DEF HeldDiffs, HeldSnaps
<1>12. /\ Anchored(disk.depth, disk.snapshot)
       /\ AllAnchored(batch.depth, disk.depth \cup batch.depth, disk.snapshot \cup batch.snapshot)
       /\ AllAnchored(rows.depth, HeldDiffs, HeldSnaps)
  BY <1>2 DEF RowsAnchored
<1>13. Anchored(disk'.depth, disk'.snapshot)
  <2> SUFFICES ASSUME NEW d \in disk.depth \cup D
               PROVE  Anchors(d, disk'.depth, disk'.snapshot)
    BY <1>5 DEF Anchored
  <2>1. disk.depth \subseteq disk'.depth /\ disk.snapshot \subseteq disk'.snapshot
    BY <1>5
  <2>2. CASE d \in disk.depth
    BY <1>12, <2>1, <2>2, AnchorsStay DEF Anchored
  <2>3. CASE d \in D
    <3>1. PICK midnight \in UpdateId : D = {r \in batch.depth : r.ts <= midnight}
      BY <1>4, <2>3
    <3>2. batch.snapshot = {}
      BY <1>4, <2>3
    <3>3. Anchors(d, disk.depth \cup batch.depth, disk.snapshot)
      <4>1. disk.snapshot \cup batch.snapshot = disk.snapshot
        BY <3>2
      <4> QED
        BY <1>12, <2>3, <4>1 DEF AllAnchored
    <3>4. CASE \E s \in disk.snapshot : s.u = d.pu \/ Brackets(d, s.u)
      BY <2>1, <3>4 DEF Anchors
    <3>5. CASE \E e \in disk.depth \cup batch.depth : e.u = d.pu
      <4>1. PICK e \in disk.depth \cup batch.depth : e.u = d.pu
        BY <3>5
      <4>2. CASE e \in disk.depth
        BY <2>1, <4>1, <4>2 DEF Anchors
      <4>3. CASE e \in batch.depth
        <5>1. batch.depth \subseteq GoodDiffs
          BY <1>2, <1>3, DiffsAre DEF RowSets
        <5>2. d \in GoodDiffs /\ e \in GoodDiffs /\ d.ts <= midnight
          BY <2>3, <3>1, <4>3, <5>1
        <5>3. e.ts = e.u /\ d.ts = d.u /\ d.pu < d.U /\ d.U <= d.u
              /\ d.pu \in Nat /\ d.U \in Nat /\ d.u \in Nat /\ midnight \in Nat
          BY <5>2, RowsAre
        <5>4. e.ts <= midnight
          BY <4>1, <5>2, <5>3
        <5>5. e \in disk'.depth
          BY <1>5, <3>1, <4>3, <5>4
        <5> QED
          BY <4>1, <5>5 DEF Anchors
      <4> QED
        BY <4>1, <4>2, <4>3
    <3> QED
      BY <3>3, <3>4, <3>5 DEF Anchors
  <2> QED
    BY <2>2, <2>3
<1>14. RowsAnchored'
  <2>1. AllAnchored(batch'.depth, disk'.depth \cup batch'.depth, disk'.snapshot \cup batch'.snapshot)
    BY <1>5, <1>10, <1>12 DEF AllAnchored
  <2> QED
    BY <1>1, <1>11, <1>12, <1>13, <2>1 DEF RowsAnchored
<1>15. BookHeld'
  BY <1>1, <1>2, <1>11 DEF BookHeld
<1>16. LoopGood'
  BY <1>1, <1>2 DEF LoopGood
<1> QED
  BY <1>6, <1>7, <1>9, <1>14, <1>15, <1>16

(* A failed write loses the rest of the batch, not the tape.               *)
LEMMA WriteFailsKeeps ==
  ASSUME RecorderIInv, WriteFails
  PROVE  VenueGood' /\ QueueGood' /\ BookGood' /\ RowsGood' /\ RowsAnchored' /\ BookHeld' /\ LoopGood'
<1>1. /\ rpc \in {"flush", "closing"} /\ rows' = rows /\ disk' = disk /\ batch' = NoRows
      /\ rpc' = (IF rpc = "flush" THEN "ending" ELSE "dead")
      /\ head' = head /\ closed' = closed /\ trades' = trades /\ tip' = tip /\ queue' = queue
      /\ book' = book /\ bookTs' = bookTs /\ lost' = lost \cup {"failed"}
      /\ run' = run /\ shutdown' = shutdown /\ error' = TRUE
  BY DEF WriteFails, Writing, streamVars, bookVars
<1>2. /\ VenueGood /\ QueueGood /\ BookGood /\ RowsGood /\ RowsAnchored /\ BookHeld /\ LoopGood
      /\ rows = NoRows
  BY <1>1 DEF RecorderIInv, HoleInv
<1>3. VenueGood' /\ BookGood' /\ Diffs' = Diffs /\ Prints' = Prints /\ Events' = Events
  BY <1>1, <1>2 DEF VenueGood, BookGood, Events, Diffs, Answers, Prints
<1>4. QueueGood'
  BY <1>1, <1>2, <1>3 DEF QueueGood, Feeding
<1>5. RowsGood'
  <2>1. RowSets' = RowSets
    BY <1>3 DEF RowSets
  <2> QED
    BY <1>1, <1>2, <2>1, NothingIs DEF RowsGood
<1>6. RowsAnchored'
  <2>1. batch'.depth = {} /\ rows'.depth = {}
    BY <1>1, <1>2, NothingIs
  <2> QED
    BY <1>1, <1>2, <2>1 DEF RowsAnchored, AllAnchored
<1>7. BookHeld'
  <2>1. "failed" \in lost'
    BY <1>1
  <2> QED
    BY <2>1 DEF BookHeld
<1>8. LoopGood'
  <2>1. error' \in BOOLEAN /\ error'
    BY <1>1, Zenon
  <2>2. rpc = "flush" => lost = {}
    BY <1>2 DEF LoopGood
  <2>3. rpc' \in {"ending", "dead"} /\ (rpc' = "ending" => lost' \subseteq {"failed"})
    BY <1>1, <2>2
  <2>4. lost' \subseteq {"unread", "failed", "unflushed"} /\ Pending(rows') < BufferSize + 2
    BY <1>1, <1>2 DEF LoopGood
  <2> QED
    BY <1>1, <1>2, <2>1, <2>3, <2>4 DEF LoopGood, Rpc
<1> QED
  BY <1>3, <1>4, <1>5, <1>6, <1>7, <1>8

(* The worker keeps the invariant.                                         *)
LEMMA WriteStepKeeps ==
  ASSUME RecorderIInv, WriteStep
  PROVE  VenueGood' /\ QueueGood' /\ BookGood' /\ RowsGood' /\ RowsAnchored' /\ BookHeld' /\ LoopGood'
<1>1. CASE WritePart
  BY <1>1, WritePartKeeps
<1>2. CASE WriteFails
  BY <1>2, WriteFailsKeeps
<1>3. CASE BatchWritten
  <2>1. /\ UNCHANGED <<streamVars, run, shutdown, error, bookVars, writerVars, lost>>
        /\ rpc \in {"flush", "closing"} /\ batch = NoRows
        /\ rpc' = (IF rpc = "flush" THEN "run" ELSE "done")
    BY <1>3 DEF BatchWritten
  <2>2. rows' = rows /\ batch' = batch /\ rows = NoRows
    BY <2>1 DEF writerVars, RecorderIInv, HoleInv
  <2>3. Pending(rows) < BufferSize
    BY <2>2, NothingIs, RecorderAssumption
  <2>4. LoopGood'
    <3>1. LoopGood
      BY DEF RecorderIInv
    <3>2. rpc' = "run" => lost' = {}
      BY <2>1, <3>1 DEF LoopGood
    <3>3. rpc' \in {"run", "done"}
      BY <2>1
    <3> QED
      BY <2>1, <2>2, <2>3, <3>1, <3>2, <3>3 DEF LoopGood, Rpc
  <2> QED
    BY <2>1, <2>4, LoopMoves DEF Feeding
<1> QED
  BY <1>1, <1>2, <1>3 DEF WriteStep

-----------------------------------------------------------------------------
\* Signals, crashes and the next run.

(* A crash loses the buffer and the batch, not the tape.                   *)
LEMMA CrashKeeps ==
  ASSUME RecorderIInv, Crash
  PROVE  VenueGood' /\ QueueGood' /\ BookGood' /\ RowsGood' /\ RowsAnchored' /\ BookHeld' /\ LoopGood'
<1>1. /\ rows' = NoRows /\ disk' = disk /\ batch' = NoRows /\ rpc' = "dead"
      /\ head' = head /\ closed' = closed /\ trades' = trades /\ tip' = tip /\ queue' = queue
      /\ book' = book /\ bookTs' = bookTs /\ lost' = lost
      /\ run' = run /\ shutdown' = shutdown /\ error' = error
  BY DEF Crash, streamVars, bookVars
<1>2. VenueGood /\ QueueGood /\ BookGood /\ RowsGood /\ RowsAnchored /\ BookHeld /\ LoopGood
  BY DEF RecorderIInv
<1>3. VenueGood' /\ BookGood' /\ Diffs' = Diffs /\ Prints' = Prints /\ Events' = Events
  BY <1>1, <1>2 DEF VenueGood, BookGood, Events, Diffs, Answers, Prints
<1>4. QueueGood'
  BY <1>1, <1>2, <1>3 DEF QueueGood, Feeding
<1>5. RowsGood'
  <2>1. RowSets' = RowSets
    BY <1>3 DEF RowSets
  <2> QED
    BY <1>1, <1>2, <2>1, NothingIs DEF RowsGood
<1>6. RowsAnchored'
  <2>1. batch'.depth = {} /\ rows'.depth = {}
    BY <1>1, NothingIs
  <2> QED
    BY <1>1, <1>2, <2>1 DEF RowsAnchored, AllAnchored
<1>7. BookHeld'
  BY <1>1 DEF BookHeld
<1>8. LoopGood'
  <2>1. Pending(rows') < BufferSize + 2
    BY <1>1, NothingIs, RecorderAssumption
  <2> QED
    BY <1>1, <1>2, <2>1 DEF LoopGood, Rpc
<1> QED
  BY <1>3, <1>4, <1>5, <1>6, <1>7, <1>8

(* The next run starts on the same tape with a stream of its own.          *)
LEMMA NextRunKeeps ==
  ASSUME RecorderIInv, NextRun
  PROVE  VenueGood' /\ QueueGood' /\ BookGood' /\ RowsGood' /\ RowsAnchored' /\ BookHeld' /\ LoopGood'
<1>1. /\ rpc \in {"done", "dead"} /\ run < MaxRuns /\ run' = run + 1 /\ rpc' = "run"
      /\ shutdown' = FALSE /\ error' = FALSE /\ lost' = {}
      /\ book' = EmptyBook /\ bookTs' = 0 /\ queue' = << >> /\ tip' = NoTip
      /\ head' = head /\ closed' = closed /\ trades' = trades
      /\ rows' = rows /\ batch' = batch /\ disk' = disk
  BY DEF NextRun, writerVars
<1>2. VenueGood /\ QueueGood /\ BookGood /\ RowsGood /\ RowsAnchored /\ BookHeld /\ LoopGood
  BY DEF RecorderIInv
<1>3. VenueGood' /\ Diffs' = Diffs /\ Prints' = Prints /\ Events' = Events
  BY <1>1, <1>2 DEF VenueGood, Events, Diffs, Answers, Prints
<1>4. BookGood' /\ Standing(book') = NoTip /\ book'.last = NoId
  BY <1>1, StartStands DEF BookGood
<1>5. QueueGood'
  <2>1. Leads(NoTip, << >>, NoTip)
    BY PathEmpty, StartStands
  <2>2. queue' \in Seq(Events) /\ Len(queue') <= MaxQueue
    BY <1>1, RecorderAssumption
  <2> QED
    BY <1>1, <1>2, <1>3, <1>4, <2>1, <2>2, StartStands DEF QueueGood
<1>6. RowsGood'
  BY <1>1, <1>2, <1>3 DEF RowsGood, RowSets
<1>7. RowsAnchored'
  BY <1>1, <1>2 DEF RowsAnchored, HeldDiffs, HeldSnaps
<1>8. BookHeld'
  BY <1>4 DEF BookHeld, StandsOn
<1>9. LoopGood'
  <2>1. rows = NoRows /\ batch = NoRows
    BY <1>1, <1>2 DEF LoopGood
  <2>2. Pending(rows') < BufferSize /\ Pending(rows') < BufferSize + 2
    BY <1>1, <2>1, NothingIs, RecorderAssumption
  <2>3. shutdown' \in BOOLEAN /\ error' \in BOOLEAN
    BY <1>1, Zenon
  <2>4. run' \in 1..MaxRuns
    BY <1>1, <1>2, RecorderAssumption DEF LoopGood
  <2>5. "failed" \notin lost' /\ "unflushed" \notin lost' /\ lost' = {}
    BY <1>1
  <2>6. rpc' = "run" /\ batch' = NoRows
    BY <1>1, <2>1
  <2> QED
    BY <2>2, <2>3, <2>4, <2>5, <2>6 DEF LoopGood, Rpc
<1> QED
  BY <1>3, <1>4, <1>5, <1>6, <1>7, <1>8, <1>9

(* Signals, crashes and restarts keep the invariant.                       *)
LEMMA RunStepKeeps ==
  ASSUME RecorderIInv, RunStep
  PROVE  VenueGood' /\ QueueGood' /\ BookGood' /\ RowsGood' /\ RowsAnchored' /\ BookHeld' /\ LoopGood'
<1>1. CASE Signal
  <2>1. /\ UNCHANGED <<streamVars, rpc, run, error, bookVars, writerVars, lost>>
        /\ shutdown' = TRUE
    BY <1>1 DEF Signal
  <2>2. rows' = rows /\ batch' = batch /\ shutdown' \in BOOLEAN
    <3>1. shutdown' \in BOOLEAN
      BY <2>1, Zenon
    <3> QED
      BY <2>1, <3>1 DEF writerVars
  <2>3. LoopGood'
    BY <2>1, <2>2 DEF RecorderIInv, LoopGood
  <2> QED
    BY <2>1, <2>3, LoopMoves DEF Feeding
<1>2. CASE Crash
  BY <1>2, CrashKeeps
<1>3. CASE NextRun
  BY <1>3, NextRunKeeps
<1> QED
  BY <1>1, <1>2, <1>3 DEF RunStep

(* So does no step at all.                                                 *)
LEMMA RecorderStands ==
  ASSUME RecorderIInv, UNCHANGED rvars
  PROVE  VenueGood' /\ QueueGood' /\ BookGood' /\ RowsGood' /\ RowsAnchored' /\ BookHeld' /\ LoopGood'
<1>1. UNCHANGED <<streamVars, rpc, run, shutdown, error, bookVars, writerVars, lost>>
  BY DEF rvars
<1>2. LoopGood'
  BY <1>1 DEF RecorderIInv, LoopGood, writerVars
<1> QED
  BY <1>1, <1>2, LoopMoves DEF Feeding

(* The recorder's inductive invariant: the queue leads the book along the  *)
(* venue's diffs, every row held follows a row held or on disk, and the    *)
(* book stands on one (record_l2.py, _record; parquet.py, _write_batch).   *)
THEOREM RecorderInvariance == RSpec => []RecorderIInv
<1>1. RecorderIInv /\ [RNext]_rvars => RecorderIInv'
  <2> SUFFICES ASSUME RecorderIInv, [RNext]_rvars PROVE RecorderIInv'
    OBVIOUS
  <2>1. HoleInv'
    BY HoleNext DEF RecorderIInv
  <2>2. VenueGood' /\ QueueGood' /\ BookGood' /\ RowsGood' /\ RowsAnchored' /\ BookHeld' /\ LoopGood'
    BY LoopStepKeeps, WriteStepKeeps, RunStepKeeps, VenueStepKeeps, FeedStepKeeps, RecorderStands DEF RNext
  <2> QED
    BY <2>1, <2>2 DEF RecorderIInv
<1> QED
  BY RecorderStarts, <1>1, PTL DEF RSpec

-----------------------------------------------------------------------------
\* What follows for the tape.

(* What the invariant makes of the disk: a good tape.                      *)
LEMMA DiskIsGood ==
  ASSUME RecorderIInv
  PROVE  GoodTape(disk)
<1>1. disk \in RowSets /\ Finite(disk) /\ Anchored(disk.depth, disk.snapshot)
  BY DEF RecorderIInv, RowsGood, RowsAnchored
<1>2. disk.snapshot \subseteq GoodSnaps /\ disk.depth \subseteq Diffs
  BY <1>1 DEF RowSets
<1>3. Diffs \subseteq GoodDiffs /\ InLine(Diffs)
  BY DiffsAre DEF RecorderIInv
<1>4. InLine(disk.depth)
  BY <1>2, <1>3 DEF InLine
<1> QED
  BY <1>1, <1>2, <1>3, <1>4 DEF GoodTape, Finite

(* The tape replays at every moment a reader may open it, for every        *)
(* future of the venue, every cut of the batches into part files and every *)
(* crash, failure and restart (reconstruct.py, _iter_synced_books).        *)
THEOREM TapeAlwaysReplays == RSpec => []TapeReplays
<1>1. RecorderIInv => TapeReplays
  BY DiskIsGood, GoodTapeIsRead
<1> QED
  BY RecorderInvariance, <1>1, PTL

(* The replay drops no diff but one that a snapshot strands, the integrity *)
(* check finds no break, and the clock runs forward (reconstruct.py,       *)
(* _select and _restamp; quality.py, _chain).                              *)
THEOREM TapeIsAlwaysInOrder == RSpec => []TapeInOrder
<1>1. RecorderIInv => TapeInOrder
  BY DiskIsGood, GoodTapeIsRead
<1> QED
  BY RecorderInvariance, <1>1, PTL

(* A book rebuilt from the tape is the venue's, whenever it is rebuilt     *)
(* (reconstruct.py, reconstruct_book and reconstruct_book_at_update_id).   *)
THEOREM RebuiltBooksAreFaithful == RSpec => []RebuiltIsFaithful
<1>1. RecorderIInv => RebuiltIsFaithful
  BY DiskIsGood, GoodTapeIsRead
<1> QED
  BY RecorderInvariance, <1>1, PTL

(* A run that ends in silence has on disk what its book stands on.         *)
LEMMA DoneIsComplete ==
  ASSUME RecorderIInv, rpc = "done", ~error, book.last # NoId
  PROVE  LET r == Replay(disk)
         IN  /\ lost \subseteq {"unread"}
             /\ \E row \in disk.snapshot \cup disk.depth : row.u = book.last
             /\ r.book.last >= book.last \/ Stranded(disk)
             /\ r.book.last = book.last =>
                  \A p \in book.known \cap r.book.known : r.book.levels[p] = book.levels[p]
<1>1. lost \subseteq {"unread"} /\ rows = NoRows /\ batch = NoRows
  BY DEF RecorderIInv, LoopGood
<1>2. HeldDiffs = disk.depth /\ HeldSnaps = disk.snapshot
  BY <1>1, NothingIs DEF HeldDiffs, HeldSnaps
<1>3. StandsOn(book, disk.depth, disk.snapshot)
  BY <1>1, <1>2 DEF RecorderIInv, BookHeld
<1>4. \E row \in RowsOf(disk) : row.u = book.last
  BY <1>3 DEF StandsOn, RowsOf
<1> DEFINE r == Replay(disk)
<1>5. r.book \in Book /\ Faithful(r.book) /\ r.book.last = Select(disk).last
  BY DiskIsGood, ReplayIs
<1>6. book \in Book /\ Faithful(book)
  BY DEF RecorderIInv, BookGood, Stands
<1> HIDE DEF r
<1>7. r.book.last >= book.last \/ Stranded(disk)
  <2> SUFFICES ASSUME ~Stranded(disk) PROVE r.book.last >= book.last
    OBVIOUS
  <2>1. PICK row \in RowsOf(disk) : row.u = book.last
    BY <1>4
  <2>2. row.u <= Select(disk).last
    BY DiskIsGood, NothingDropped
  <2>3. book.last \in Int /\ r.book.last \in Int
    BY <1>5, <1>6, RowsAre DEF Book
  <2> QED
    BY <1>5, <2>1, <2>2, <2>3
<1>8. ASSUME r.book.last = book.last, NEW p \in book.known \cap r.book.known
      PROVE  r.book.levels[p] = book.levels[p]
  <2>1. p \in Level
    BY <1>6, <1>8 DEF Book
  <2> QED
    BY <1>5, <1>6, <1>8, <2>1 DEF Faithful
<1> QED
  BY <1>1, <1>4, <1>7, <1>8 DEF r, RowsOf

(* The recorder's types, and a silent end means a complete tape, for every *)
(* buffer size, queue and number of runs (record_l2.py, `error` and        *)
(* _end_reconstruct_match).                                                *)
THEOREM SilenceIsKept == RSpec => []RecorderInv
<1>1. RecorderIInv => RTypeOK
  <2> SUFFICES ASSUME RecorderIInv PROVE RTypeOK
    OBVIOUS
  <2>1. head \in UpdateId /\ trades \in 0..MaxTrades /\ Len(queue) <= MaxQueue
    BY DEF RecorderIInv, VenueGood, QueueGood
  <2>2. book \in Book /\ bookTs \in UpdateId
    BY DEF RecorderIInv, BookGood, Stands
  <2> QED
    BY <2>1, <2>2 DEF RecorderIInv, LoopGood, RTypeOK
<1>2. RecorderIInv => SilenceMeansComplete
  BY DoneIsComplete DEF SilenceMeansComplete
<1>3. RecorderIInv => RecorderInv
  BY <1>1, <1>2 DEF RecorderInv
<1> QED
  BY RecorderInvariance, <1>3, PTL

-----------------------------------------------------------------------------
\* The latency audit.

Sample == [before : Int, server : Int, after : Int, phase : Phases]
Update == [pu : Nat, u : Nat \ {0}, at : Int, recv : Int]
Frame  == [kind : {"depth"}, pu : Nat, u : Nat \ {0}, at : Int]
            \cup [kind : {"trade", "junk", "unknown"}]

AuditTypes ==
  /\ phase \in Phases \cup {"loop", "draining", "closed", "done", "failed"}
  /\ samples \in Seq(Sample) /\ depth \in Seq(Update) /\ socket \in Seq(Frame)
  /\ nTrade \in Nat /\ decodeErrors \in Nat /\ gaps \in Nat /\ lastU \in Nat
  /\ reconnects \in Nat /\ {midSampled, expired} \subseteq BOOLEAN
  /\ now \in Nat /\ venueU \in Nat \ {0}

\* A diff follows the one before it on the venue's side, recorded or not.
Follows(f) == f.u = f.pu + 1

Chained ==
  /\ \A i \in 1..Len(depth) : Follows(depth[i])
  /\ \A i \in 1..Len(socket) : socket[i].kind = "depth" => Follows(socket[i])
  /\ lastU = IF depth = << >> THEN None ELSE depth[Len(depth)].u

Holes(d) == {i \in 1..(Len(d) - 1) : d[i + 1].u # d[i].u + 1}

HolesCounted == gaps = Cardinality(Holes(depth))

\* How far the record and the connections are.
Progress ==
  /\ Len(depth) <= NEvents /\ reconnects <= MaxReconnects + 1
  /\ phase = "draining" => Len(depth) < NEvents
  /\ phase = "start" => Len(depth) = 0
  /\ phase \in {"draining", "mid", "closed"} => reconnects <= MaxReconnects
  /\ phase \in {"end", "done"} =>
       Len(depth) >= NEvents \/ expired \/ reconnects = MaxReconnects + 1

\* The samples taken so far: a at the start, b halfway, the rest at the end.
InBlocks(a, b) ==
  \A i \in 1..Len(samples) :
    samples[i].phase = IF i <= a THEN "start" ELSE IF i <= a + b THEN "mid" ELSE "end"

MidBlock == IF midSampled THEN OffsetSamples ELSE 0

Blocks ==
  /\ Len(samples) <= 3 * OffsetSamples
  /\ phase # "failed" => (midSampled <=> Len(depth) >= Halfway)
  /\ phase = "start" => InBlocks(OffsetSamples, 0) /\ Len(samples) < OffsetSamples
  /\ phase \in {"loop", "draining", "closed"} =>
       InBlocks(OffsetSamples, MidBlock) /\ Len(samples) = OffsetSamples + MidBlock
  /\ phase = "mid" =>
       /\ InBlocks(OffsetSamples, OffsetSamples) /\ midSampled
       /\ Len(samples) \in OffsetSamples .. (2 * OffsetSamples - 1)
  /\ phase = "end" =>
       /\ InBlocks(OffsetSamples, MidBlock)
       /\ Len(samples) - OffsetSamples - MidBlock \in 0 .. (OffsetSamples - 1)
  /\ phase = "done" =>
       InBlocks(OffsetSamples, MidBlock) /\ Len(samples) = 2 * OffsetSamples + MidBlock

\* An offset is the clocks' difference and part of a round trip.
Bracketed ==
  \A i \in 1..Len(samples) : Skew <= Offset(samples[i]) /\ Offset(samples[i]) - Skew <= Rtt(samples[i])

AuditIInv == AuditTypes /\ Chained /\ HolesCounted /\ Progress /\ Blocks /\ Bracketed

AccType == [depth : Seq(Update), nTrade : Nat, gaps : Nat, decodeErrors : Nat, lastU : Nat]

\* What is recorded of a diff.
Recorded(f, recv) == [pu |-> f.pu, u |-> f.u, at |-> f.at, recv |-> recv]

Skips(acc, f) == acc.lastU # None /\ f.pu # acc.lastU

(* ingest_raw, field by field.                                             *)
LEMMA IngestIs ==
  ASSUME NEW acc \in AccType, NEW f \in Frame, NEW recv \in Int
  PROVE  LET next == Ingest(acc, f, recv)
         IN  /\ next.nTrade \in Nat /\ next.decodeErrors \in Nat
             /\ f.kind = "depth" =>
                  /\ Recorded(f, recv) \in Update
                  /\ next.depth = Append(acc.depth, Recorded(f, recv)) /\ next.lastU = f.u
                  /\ next.gaps = IF Skips(acc, f) THEN acc.gaps + 1 ELSE acc.gaps
             /\ f.kind # "depth" =>
                  next.depth = acc.depth /\ next.gaps = acc.gaps /\ next.lastU = acc.lastU
<1>1. /\ acc.nTrade \in Nat /\ acc.decodeErrors \in Nat
      /\ acc = [depth |-> acc.depth, nTrade |-> acc.nTrade, gaps |-> acc.gaps,
                decodeErrors |-> acc.decodeErrors, lastU |-> acc.lastU]
  BY DEF AccType
<1>2. CASE f.kind = "depth"
  <2>1. f \in [kind : {"depth"}, pu : Nat, u : Nat \ {0}, at : Int]
    BY <1>2 DEF Frame
  <2>2. Recorded(f, recv) \in Update
    BY <2>1 DEF Recorded, Update
  <2>3. Ingest(acc, f, recv) =
          [acc EXCEPT !.depth = Append(acc.depth, Recorded(f, recv)),
                      !.gaps = IF Skips(acc, f) THEN acc.gaps + 1 ELSE acc.gaps,
                      !.lastU = f.u]
    BY <1>2 DEF Ingest, Recorded, Skips
  <2>4. Ingest(acc, f, recv) =
          [depth |-> Append(acc.depth, Recorded(f, recv)), nTrade |-> acc.nTrade,
           gaps |-> IF Skips(acc, f) THEN acc.gaps + 1 ELSE acc.gaps,
           decodeErrors |-> acc.decodeErrors, lastU |-> f.u]
    BY <1>1, <2>3
  <2> QED
    BY <1>1, <1>2, <2>2, <2>4
<1>3. CASE f.kind # "depth"
  <2>1. \/ Ingest(acc, f, recv) = acc
        \/ Ingest(acc, f, recv) = [acc EXCEPT !.nTrade = acc.nTrade + 1]
        \/ Ingest(acc, f, recv) = [acc EXCEPT !.decodeErrors = acc.decodeErrors + 1]
    BY <1>3 DEF Ingest
  <2>2. ASSUME NEW n \in Nat PROVE n + 1 \in Nat
    OBVIOUS
  <2> QED
    BY <1>1, <1>3, <2>1, <2>2
<1> QED
  BY <1>2, <1>3

(* One more diff adds a hole exactly when it does not continue the last.   *)
LEMMA HolesOn ==
  ASSUME NEW d \in Seq(Update), NEW e \in Update, Follows(e)
  PROVE  /\ Cardinality(Holes(d)) \in Nat
         /\ Cardinality(Holes(Append(d, e))) =
              IF d # << >> /\ e.pu # d[Len(d)].u THEN Cardinality(Holes(d)) + 1
              ELSE Cardinality(Holes(d))
<1> DEFINE n == Len(d)
           more == Append(d, e)
<1>1. /\ n \in Nat /\ Len(more) = n + 1 /\ more[n + 1] = e
      /\ \A i \in 1..n : more[i] = d[i]
      /\ d # << >> <=> n >= 1
  OBVIOUS
<1>2. IsFiniteSet(Holes(d)) /\ Cardinality(Holes(d)) \in Nat
  <2>1. IsFiniteSet(1..(n - 1))
    <3>1. n - 1 \in Int
      BY <1>1
    <3> QED
      BY <3>1, FS_Interval
  <2>2. Holes(d) \subseteq 1..(n - 1)
    BY DEF Holes
  <2> QED
    BY <2>1, <2>2, FS_Subset, FS_CardinalityType
<1>3. e.u \in Nat /\ e.pu \in Nat /\ e.u = e.pu + 1
  BY DEF Update, Follows
<1> HIDE DEF n, more
<1>4. n \notin Holes(d)
  BY <1>1 DEF Holes, n
<1>5. CASE n >= 1
  <2>1. d[n].u \in Nat
    <3>1. d[n] \in Update
      BY <1>1, <1>5 DEF n
    <3> QED
      BY <3>1 DEF Update
  <2>2. \A i : i \in Holes(more) <=> i \in Holes(d) \/ (i = n /\ e.pu # d[n].u)
    <3>1. \A i : i \in Holes(more) <=> i \in 1..n /\ more[i + 1].u # more[i].u + 1
      BY <1>1 DEF Holes
    <3>2. ASSUME NEW i \in 1..n, i # n PROVE more[i + 1] = d[i + 1] /\ more[i] = d[i] /\ i \in 1..(n - 1)
      BY <1>1, <3>2
    <3>3. more[n + 1].u # more[n].u + 1 <=> e.pu # d[n].u
      BY <1>1, <1>3, <1>5, <2>1
    <3>4. \A i : i \in Holes(d) <=> i \in 1..(n - 1) /\ d[i + 1].u # d[i].u + 1
      BY DEF Holes, n
    <3>5. n \in 1..n /\ \A i \in 1..(n - 1) : i \in 1..n /\ i # n
      BY <1>1, <1>5
    <3>6. ASSUME NEW i, i # n PROVE i \in Holes(more) <=> i \in Holes(d)
      <4>1. CASE i \in 1..n
        <5>1. more[i + 1] = d[i + 1] /\ more[i] = d[i] /\ i \in 1..(n - 1)
          BY <3>2, <3>6, <4>1
        <5> QED
          BY <3>1, <3>4, <4>1, <5>1
      <4>2. CASE i \notin 1..n
        BY <3>1, <3>4, <3>5, <4>2
      <4> QED
        BY <4>1, <4>2
    <3>7. n \in Holes(more) <=> e.pu # d[n].u
      BY <3>1, <3>3, <3>5
    <3> QED
      BY <1>4, <3>6, <3>7
  <2>3. CASE e.pu # d[n].u
    <3>1. Holes(more) = Holes(d) \cup {n}
      BY <2>2, <2>3
    <3> QED
      BY <1>1, <1>2, <1>4, <1>5, <2>3, <3>1, FS_AddElement DEF n, more
  <2>4. CASE e.pu = d[n].u
    <3>1. Holes(more) = Holes(d)
      BY <2>2, <2>4
    <3> QED
      BY <1>1, <1>2, <1>5, <2>4, <3>1 DEF n, more
  <2> QED
    BY <2>3, <2>4
<1>6. CASE n = 0
  <2>1. Holes(more) = {} /\ Holes(d) = {}
    BY <1>1, <1>6 DEF Holes, n
  <2> QED
    BY <1>1, <1>2, <1>6, <2>1 DEF n, more
<1> QED
  BY <1>1, <1>5, <1>6

(* A frame read keeps the record and its count of gaps.                    *)
LEMMA AuditReceives ==
  ASSUME AuditIInv, Receive
  PROVE  AuditIInv'
<1> DEFINE f == Head(socket)
           acc == Ingest(Acc, f, now + Skew)
           n == Len(acc.depth)
<1>1. /\ socket \in Seq(Frame) /\ socket # << >> /\ phase = "draining"
      /\ depth' = acc.depth /\ nTrade' = acc.nTrade /\ gaps' = acc.gaps
      /\ decodeErrors' = acc.decodeErrors /\ lastU' = acc.lastU
      /\ midSampled' = (midSampled \/ MidDue(midSampled, n))
      /\ phase' = CASE MidDue(midSampled, n) -> "mid"
                    [] ~MidDue(midSampled, n) /\ Enough(n) -> "closed"
                    [] OTHER -> phase
      /\ socket' = Tail(socket)
      /\ UNCHANGED <<samples, reconnects, expired, now, venueU, others>>
  BY DEF Receive, AuditIInv, AuditTypes
<1>2. f \in Frame /\ f = socket[1] /\ Len(socket) >= 1 /\ Len(socket) \in Nat
      /\ Tail(socket) \in Seq(Frame) /\ Len(Tail(socket)) = Len(socket) - 1
      /\ \A i \in 1..Len(Tail(socket)) : Tail(socket)[i] = socket[i + 1]
  BY <1>1
<1>3. Acc \in AccType /\ now + Skew \in Int
  BY AuditAssumption DEF AuditIInv, AuditTypes, AccType, Acc
<1>4. /\ acc.nTrade \in Nat /\ acc.decodeErrors \in Nat
      /\ f.kind = "depth" =>
           /\ Recorded(f, now + Skew) \in Update
           /\ acc.depth = Append(depth, Recorded(f, now + Skew)) /\ acc.lastU = f.u
           /\ acc.gaps = IF lastU # None /\ f.pu # lastU THEN gaps + 1 ELSE gaps
      /\ f.kind # "depth" => acc.depth = depth /\ acc.gaps = gaps /\ acc.lastU = lastU
  <2>1. Acc.depth = depth /\ Acc.gaps = gaps /\ Acc.lastU = lastU
    BY DEF Acc
  <2> QED
    BY <1>2, <1>3, <2>1, IngestIs DEF Skips
<1>5. f.kind = "depth" => Follows(f) /\ f.u \in Nat \ {0} /\ f.pu \in Nat
  <2>1. f.kind = "depth" => f \in [kind : {"depth"}, pu : Nat, u : Nat \ {0}, at : Int]
    BY <1>2 DEF Frame
  <2>2. 1 \in 1..Len(socket)
    BY <1>2
  <2> QED
    BY <1>2, <2>1, <2>2 DEF AuditIInv, Chained
<1>6. depth \in Seq(Update) /\ gaps \in Nat /\ lastU \in Nat /\ Len(depth) \in Nat
  BY DEF AuditIInv, AuditTypes
<1>6a. Len(depth') = n
  BY <1>1
<1> HIDE DEF f, acc, n
<1>7. /\ depth' \in Seq(Update) /\ gaps' \in Nat /\ lastU' \in Nat
      /\ n \in Nat /\ Len(depth) <= n /\ n <= Len(depth) + 1
  <2>1. CASE f.kind = "depth"
    <3>1. depth' = Append(depth, Recorded(f, now + Skew)) /\ lastU' = f.u
      BY <1>1, <1>4, <2>1
    <3>2. depth' \in Seq(Update) /\ Len(depth') = Len(depth) + 1
      BY <1>4, <1>6, <2>1, <3>1
    <3>3. gaps' \in Nat
      BY <1>1, <1>4, <1>6, <2>1
    <3> QED
      BY <1>5, <1>6, <1>6a, <2>1, <3>1, <3>2, <3>3
  <2>2. CASE f.kind # "depth"
    BY <1>1, <1>4, <1>6, <1>6a, <2>2
  <2> QED
    BY <2>1, <2>2
<1>7a. /\ midSampled' = (midSampled \/ MidDue(midSampled, n))
       /\ MidDue(midSampled, n) => phase' = "mid"
       /\ ~MidDue(midSampled, n) /\ Enough(n) => phase' = "closed"
       /\ ~MidDue(midSampled, n) /\ ~Enough(n) => phase' = "draining"
  BY <1>1
<1>7b. midSampled \in BOOLEAN
  BY DEF AuditIInv, AuditTypes
<1>8. AuditTypes'
  <2>1. phase' \in {"mid", "closed", "draining"} /\ midSampled' \in BOOLEAN
    BY <1>7a, <1>7b
  <2>2. nTrade' \in Nat /\ decodeErrors' \in Nat /\ socket' \in Seq(Frame)
    BY <1>1, <1>2, <1>4
  <2>3. /\ samples' \in Seq(Sample) /\ reconnects' \in Nat /\ now' \in Nat
        /\ venueU' \in Nat \ {0} /\ expired' \in BOOLEAN
    BY <1>1 DEF AuditIInv, AuditTypes
  <2>4. phase' \in Phases \cup {"loop", "draining", "closed", "done", "failed"}
    BY <2>1 DEF Phases
  <2> QED
    BY <1>7, <2>1, <2>2, <2>3, <2>4, Zenon DEF AuditTypes
<1>9. Chained' /\ HolesCounted'
  <2>1. \A i \in 1..Len(socket') : socket'[i].kind = "depth" => Follows(socket'[i])
    <3> SUFFICES ASSUME NEW i \in 1..Len(Tail(socket)), Tail(socket)[i].kind = "depth"
                 PROVE  Follows(Tail(socket)[i])
      BY <1>1
    <3>1. i + 1 \in 1..Len(socket) /\ Tail(socket)[i] = socket[i + 1]
      BY <1>2
    <3> QED
      BY <3>1 DEF AuditIInv, Chained
  <2>2. CASE f.kind = "depth"
    <3> DEFINE e == Recorded(f, now + Skew)
    <3>1. /\ e \in Update /\ Follows(e) /\ e.u = f.u /\ e.pu = f.pu
          /\ depth' = Append(depth, e) /\ lastU' = e.u
          /\ gaps' = IF lastU # None /\ e.pu # lastU THEN gaps + 1 ELSE gaps
      BY <1>1, <1>4, <1>5, <2>2 DEF Recorded, Follows
    <3> HIDE DEF e
    <3>2. /\ Len(depth') = Len(depth) + 1 /\ depth'[Len(depth) + 1] = e /\ depth' # << >>
          /\ \A i \in 1..Len(depth) : depth'[i] = depth[i]
      BY <1>6, <3>1
    <3>3. Chained'
      <4>1. \A i \in 1..Len(depth') : i \in 1..Len(depth) \/ i = Len(depth) + 1
        BY <1>6, <3>2
      <4>2. \A i \in 1..Len(depth') : Follows(depth'[i])
        BY <3>1, <3>2, <4>1 DEF AuditIInv, Chained
      <4> QED
        BY <2>1, <3>1, <3>2, <4>2 DEF Chained
    <3>4. lastU # None <=> depth # << >>
      <4>1. depth # << >> => depth[Len(depth)] \in Update
        BY <1>6
      <4>2. depth # << >> => depth[Len(depth)].u # 0
        BY <4>1 DEF Update
      <4> QED
        BY <4>2 DEF AuditIInv, Chained, None
    <3>5. depth # << >> => lastU = depth[Len(depth)].u
      BY DEF AuditIInv, Chained
    <3>6. gaps' = Cardinality(Holes(depth'))
      BY <1>6, <3>1, <3>4, <3>5, HolesOn DEF AuditIInv, HolesCounted
    <3> QED
      BY <3>3, <3>6 DEF HolesCounted
  <2>3. CASE f.kind # "depth"
    <3>1. depth' = depth /\ gaps' = gaps /\ lastU' = lastU
      BY <1>1, <1>4, <2>3
    <3> QED
      BY <2>1, <3>1 DEF AuditIInv, Chained, HolesCounted
  <2> QED
    BY <2>2, <2>3
<1>10. Halfway \in Nat /\ Halfway <= NEvents /\ NEvents \in Nat /\ OffsetSamples \in Nat \ {0}
  BY AuditAssumption DEF Halfway
<1>11. (midSampled <=> Len(depth) >= Halfway) /\ Len(depth) < NEvents /\ midSampled \in BOOLEAN
  BY <1>1 DEF AuditIInv, Blocks, Progress, AuditTypes
<1>12. /\ midSampled' <=> n >= Halfway
       /\ phase' = "mid" <=> ~midSampled /\ n >= Halfway
       /\ phase' # "mid" => phase' = IF n >= NEvents THEN "closed" ELSE "draining"
       /\ phase' \in {"mid", "closed", "draining"}
       /\ phase' # "mid" => midSampled' = midSampled
  <2>1. MidDue(midSampled, n) <=> ~midSampled /\ n >= Halfway
    BY DEF MidDue
  <2>2. Enough(n) <=> n >= NEvents
    BY DEF Enough
  <2>3. midSampled => n >= Halfway
    BY <1>7, <1>10, <1>11, <1>6
  <2>4. midSampled' <=> n >= Halfway
    BY <1>7a, <1>7b, <2>1, <2>3
  <2> QED
    BY <1>7a, <1>7b, <2>1, <2>2, <2>4
<1>13. Progress'
  <2>1. n <= NEvents
    BY <1>6, <1>7, <1>10, <1>11
  <2>2. phase' = "draining" => n < NEvents
    BY <1>7, <1>7a, <1>10 DEF Enough, MidDue
  <2> QED
    BY <1>1, <1>6a, <1>12, <2>1, <2>2 DEF AuditIInv, Progress
<1>14. Blocks'
  <2>1. /\ InBlocks(OffsetSamples, MidBlock) /\ Len(samples) = OffsetSamples + MidBlock
        /\ Len(samples) <= 3 * OffsetSamples
    BY <1>1 DEF AuditIInv, Blocks
  <2>2. CASE phase' = "mid"
    <3>1. MidBlock = 0 /\ midSampled'
      BY <1>11, <1>12, <1>7, <1>10, <2>2 DEF MidBlock
    <3>2. \A i \in 1..Len(samples) : i <= OffsetSamples
      BY <1>10, <2>1, <3>1
    <3>3. InBlocks(OffsetSamples, OffsetSamples)'
      BY <1>1, <2>1, <3>2 DEF InBlocks
    <3>4. Len(samples) \in OffsetSamples .. (2 * OffsetSamples - 1)
      BY <1>10, <2>1, <3>1
    <3> QED
      BY <1>1, <1>6a, <1>12, <2>1, <2>2, <3>1, <3>3, <3>4 DEF Blocks
  <2>3. CASE phase' # "mid"
    <3>1. MidBlock' = MidBlock
      BY <1>12, <2>3 DEF MidBlock
    <3>2. InBlocks(OffsetSamples, MidBlock)'
      BY <1>1, <2>1, <3>1 DEF InBlocks
    <3> QED
      BY <1>1, <1>6a, <1>12, <2>1, <2>3, <3>1, <3>2 DEF Blocks
  <2> QED
    BY <2>2, <2>3
<1>15. Bracketed'
  BY <1>1 DEF AuditIInv, Bracketed
<1> QED
  BY <1>8, <1>9, <1>13, <1>14, <1>15 DEF AuditIInv

(* A sample taken extends the block of its phase.                          *)
LEMMA AuditSamples ==
  ASSUME AuditIInv, ServerTime
  PROVE  AuditIInv'
<1>1. PICK out \in 0..MaxDelay, back \in 0..MaxDelay :
         /\ now' = now + out + back
         /\ samples' = Append(samples, [before |-> now + Skew, server |-> now + out,
                                        after  |-> now + out + back + Skew, phase |-> phase])
  BY DEF ServerTime
<1> DEFINE x == [before |-> now + Skew, server |-> now + out,
                 after  |-> now + out + back + Skew, phase |-> phase]
           len == Len(samples)
<1>2. /\ phase \in Phases
      /\ phase' = IF SamplesOf(phase) + 1 >= OffsetSamples THEN AfterSamples ELSE phase
      /\ UNCHANGED <<accVars, midSampled, reconnects, expired, venueU, others, socket>>
  BY DEF ServerTime
<1>3. /\ now \in Nat /\ out \in Nat /\ back \in Nat /\ Skew \in Int /\ samples \in Seq(Sample)
      /\ OffsetSamples \in Nat \ {0} /\ len \in Nat
      /\ Len(depth) \in Nat /\ NEvents \in Nat /\ midSampled \in BOOLEAN
  BY AuditAssumption DEF AuditIInv, AuditTypes
<1>4. x \in Sample /\ now' \in Nat
  BY <1>1, <1>2, <1>3 DEF Sample
<1>5. /\ samples' = Append(samples, x) /\ samples' \in Seq(Sample) /\ Len(samples') = len + 1
      /\ samples'[len + 1] = x /\ \A i \in 1..len : samples'[i] = samples[i]
  BY <1>1, <1>3, <1>4
<1>6. x.phase = phase /\ Skew <= Offset(x) /\ Offset(x) - Skew <= Rtt(x)
  BY <1>3 DEF Offset, Rtt
<1> HIDE DEF x, len
<1>7. Bracketed'
  <2>1. \A i \in 1..Len(samples') : i \in 1..len \/ i = len + 1
    BY <1>3, <1>5
  <2> QED
    BY <1>5, <1>6, <2>1 DEF AuditIInv, Bracketed, len
<1>8. Chained' /\ HolesCounted'
  BY <1>2 DEF AuditIInv, Chained, HolesCounted, accVars
<1>9. depth' = depth /\ midSampled' = midSampled /\ MidBlock' = MidBlock
  BY <1>2 DEF accVars, MidBlock
<1>10. ASSUME NEW a \in Nat, NEW b \in Nat, InBlocks(a, b),
              phase = IF len + 1 <= a THEN "start" ELSE IF len + 1 <= a + b THEN "mid" ELSE "end"
       PROVE  InBlocks(a, b)'
  <2>1. \A i \in 1..Len(samples') : i \in 1..len \/ i = len + 1
    BY <1>3, <1>5
  <2> QED
    BY <1>5, <1>6, <1>10, <2>1 DEF InBlocks, len
<1>11. DOMAIN samples = 1..len
  BY <1>3 DEF len
<1> DEFINE Stays == /\ Blocks' /\ Progress'
                    /\ phase' \in Phases \cup {"loop", "draining", "closed", "done", "failed"}
<1>12. ASSUME NEW a \in Nat, \A i \in 1..len : samples[i].phase = phase <=> a < i, a <= len
       PROVE  SamplesOf(phase) = len - a
  <2>1. {i \in DOMAIN samples : samples[i].phase = phase} = (a + 1)..len
    BY <1>3, <1>11, <1>12
  <2>2. Cardinality((a + 1)..len) = len - a
    <3>1. a + 1 \in Int /\ len \in Int /\ len - (a + 1) + 1 = len - a
      BY <1>3, <1>12
    <3>2. Cardinality((a + 1)..len) = IF a + 1 > len THEN 0 ELSE len - (a + 1) + 1
      BY <3>1, FS_Interval
    <3> QED
      BY <1>3, <1>12, <3>1, <3>2
  <2> QED
    BY <2>1, <2>2 DEF SamplesOf
<1>13. ASSUME phase = "start" PROVE Stays
  <2>1. InBlocks(OffsetSamples, 0) /\ len < OffsetSamples /\ Len(depth) = 0
    BY <1>13 DEF AuditIInv, Blocks, Progress, len
  <2>2. SamplesOf(phase) = len
    <3>1. \A i \in 1..len : samples[i].phase = phase <=> 0 < i
      BY <1>3, <1>13, <2>1 DEF InBlocks, len
    <3>2. 0 \in Nat /\ 0 <= len
      BY <1>3
    <3>3. SamplesOf(phase) = len - 0
      BY <1>12, <3>1, <3>2, Zenon
    <3> QED
      BY <1>3, <3>3
  <2>3. phase' = IF len + 1 >= OffsetSamples THEN "loop" ELSE "start"
    BY <1>2, <1>13, <2>2 DEF AfterSamples
  <2>4. InBlocks(OffsetSamples, 0)'
    BY <1>3, <1>10, <1>13, <2>1
  <2>5. ~midSampled /\ MidBlock = 0
    <3>1. Halfway >= 1 /\ Halfway \in Nat
      BY AuditAssumption DEF Halfway
    <3>2. midSampled <=> Len(depth) >= Halfway
      BY <1>13 DEF AuditIInv, Blocks
    <3> QED
      BY <2>1, <3>1, <3>2 DEF MidBlock
  <2>6. Blocks'
    BY <1>3, <1>5, <1>9, <2>1, <2>3, <2>4, <2>5, <1>13 DEF AuditIInv, Blocks
  <2>7. Progress'
    BY <1>2, <1>9, <1>13, <2>3 DEF AuditIInv, Progress
  <2>8. phase' \in {"loop", "start"}
    BY <2>3
  <2> QED
    BY <2>6, <2>7, <2>8 DEF Phases
<1>14. ASSUME phase = "mid" PROVE Stays
  <2>1. /\ InBlocks(OffsetSamples, OffsetSamples) /\ midSampled /\ MidBlock = OffsetSamples
        /\ len \in OffsetSamples .. (2 * OffsetSamples - 1)
        /\ midSampled <=> Len(depth) >= Halfway
    BY <1>14 DEF AuditIInv, Blocks, len, MidBlock
  <2>2. SamplesOf(phase) = len - OffsetSamples
    <3>1. \A i \in 1..len : samples[i].phase = IF i <= OffsetSamples THEN "start" ELSE "mid"
      <4>1. \A i \in 1..len : samples[i].phase =
              IF i <= OffsetSamples THEN "start"
              ELSE IF i <= OffsetSamples + OffsetSamples THEN "mid" ELSE "end"
        BY <2>1, Zenon DEF InBlocks, len
      <4>2. \A i \in 1..len : i <= OffsetSamples + OffsetSamples
        BY <1>3, <2>1
      <4> QED
        BY <4>1, <4>2
    <3>2. \A i \in 1..len : OffsetSamples < i <=> ~(i <= OffsetSamples)
      BY <1>3, <2>1
    <3>3. \A i \in 1..len : samples[i].phase = phase <=> OffsetSamples < i
      BY <1>14, <3>1, <3>2
    <3> QED
      BY <1>3, <1>12, <2>1, <3>3
  <2>3. phase' = IF len - OffsetSamples + 1 >= OffsetSamples
                 THEN IF Len(depth) >= NEvents THEN "closed" ELSE "draining" ELSE "mid"
    BY <1>2, <1>14, <2>2 DEF AfterSamples
  <2>4. InBlocks(OffsetSamples, OffsetSamples)'
    BY <1>3, <1>10, <1>14, <2>1
  <2>5. phase' # "mid" => len + 1 = OffsetSamples + OffsetSamples
    BY <1>3, <2>1, <2>3
  <2>6. phase' = "mid" => len + 1 \in OffsetSamples .. (2 * OffsetSamples - 1)
    BY <1>3, <2>1, <2>3
  <2>7. len + 1 <= 3 * OffsetSamples
    BY <1>3, <2>1
  <2>8. phase' \in {"closed", "draining", "mid"}
    BY <2>3
  <2>9. Blocks'
    BY <1>5, <1>9, <2>1, <2>4, <2>5, <2>6, <2>7, <2>8 DEF Blocks
  <2>10. Progress'
    <3>1. phase' = "draining" => Len(depth) < NEvents
      BY <1>3, <2>3
    <3> QED
      BY <1>2, <1>9, <1>14, <2>8, <3>1 DEF AuditIInv, Progress
  <2> QED
    BY <2>8, <2>9, <2>10 DEF Phases
<1>15. ASSUME phase = "end" PROVE Stays
  <2> DEFINE a == OffsetSamples + MidBlock
  <2>1. /\ InBlocks(OffsetSamples, MidBlock) /\ MidBlock \in {0, OffsetSamples}
        /\ len - OffsetSamples - MidBlock \in 0 .. (OffsetSamples - 1)
        /\ midSampled <=> Len(depth) >= Halfway
    BY <1>15 DEF AuditIInv, Blocks, len, MidBlock
  <2>2. a \in Nat /\ a <= len /\ len - a = len - OffsetSamples - MidBlock /\ MidBlock \in Nat
    BY <1>3, <2>1
  <2>3. SamplesOf(phase) = len - a
    <3>1. \A i \in 1..len : samples[i].phase = phase <=> a < i
      BY <1>3, <1>15, <2>1, <2>2 DEF InBlocks, len
    <3> HIDE DEF a
    <3> QED
      BY <1>12, <2>2, <3>1
  <2>4. phase' = IF (len - a) + 1 >= OffsetSamples THEN "done" ELSE "end"
    BY <1>2, <1>15, <2>3 DEF AfterSamples
  <2>5. InBlocks(OffsetSamples, MidBlock)'
    <3>1. ~(len + 1 <= OffsetSamples) /\ ~(len + 1 <= OffsetSamples + MidBlock)
      BY <1>3, <2>2
    <3>2. PICK b \in Nat : b = MidBlock
      BY <2>2
    <3>3. InBlocks(OffsetSamples, b)
      BY <2>1, <3>2
    <3>4. InBlocks(OffsetSamples, b)'
      BY <1>3, <1>10, <1>15, <3>1, <3>2, <3>3
    <3>5. MidBlock' = b
      BY <1>9, <3>2
    <3> QED
      BY <3>4, <3>5 DEF InBlocks
  <2>6. phase' = "done" => len + 1 = 2 * OffsetSamples + MidBlock
    BY <1>3, <2>1, <2>2, <2>4
  <2>7. phase' = "end" => (len + 1) - OffsetSamples - MidBlock \in 0 .. (OffsetSamples - 1)
    BY <1>3, <2>1, <2>2, <2>4
  <2>8. len + 1 <= 3 * OffsetSamples
    BY <1>3, <2>1
  <2>9. phase' \in {"done", "end"}
    BY <2>4
  <2>10. Blocks'
    BY <1>5, <1>9, <2>1, <2>5, <2>6, <2>7, <2>8, <2>9 DEF Blocks
  <2>11. Progress'
    BY <1>2, <1>9, <1>15, <2>9 DEF AuditIInv, Progress
  <2> QED
    BY <2>9, <2>10, <2>11 DEF Phases
<1>16. Stays
  BY <1>2, <1>13, <1>14, <1>15 DEF Phases
<1>17. AuditTypes'
  BY <1>2, <1>4, <1>5, <1>16 DEF AuditIInv, AuditTypes, accVars
<1> QED
  BY <1>7, <1>8, <1>16, <1>17 DEF AuditIInv

(* The venue sends on, and connections come and go.                        *)
LEMMA AuditElsewhere ==
  ASSUME AuditIInv,
         \/ VenueDepth \/ VenueOther \/ CapPasses \/ RequestFails \/ Connect
         \/ GivesUp \/ SocketEnds \/ Closed \/ UNCHANGED vars
  PROVE  AuditIInv'
<1>1. /\ samples' = samples /\ depth' = depth /\ nTrade' = nTrade /\ gaps' = gaps
      /\ decodeErrors' = decodeErrors /\ lastU' = lastU /\ midSampled' = midSampled
  BY DEF VenueDepth, VenueOther, CapPasses, RequestFails, Connect, GivesUp, SocketEnds, Closed,
         vars, accVars, venueVars
<1>2. HolesCounted' /\ Bracketed'
  BY <1>1 DEF AuditIInv, HolesCounted, Bracketed
<1>3. /\ samples' \in Seq(Sample) /\ depth' \in Seq(Update) /\ nTrade' \in Nat
      /\ decodeErrors' \in Nat /\ gaps' \in Nat /\ lastU' \in Nat /\ midSampled' \in BOOLEAN
      /\ socket \in Seq(Frame) /\ now \in Nat /\ venueU \in Nat \ {0} /\ expired \in BOOLEAN
      /\ reconnects \in Nat /\ Len(depth) \in Nat /\ NEvents \in Nat /\ MaxReconnects \in Nat
  BY <1>1, AuditAssumption DEF AuditIInv, AuditTypes
<1>4. MidBlock' = MidBlock
  BY <1>1 DEF MidBlock
<1> DEFINE Arrived(q) == /\ q \in Seq(Frame)
                         /\ \A i \in 1..Len(q) : q[i].kind = "depth" => Follows(q[i])
<1>5. Arrived(socket) /\ Arrived(<< >>)
  BY DEF AuditIInv, AuditTypes, Chained
<1>6. ASSUME NEW e \in Frame, e.kind = "depth" => Follows(e)
      PROVE  Arrived(Append(socket, e))
  <2>1. /\ Len(Append(socket, e)) = Len(socket) + 1 /\ Append(socket, e)[Len(socket) + 1] = e
        /\ \A i \in 1..Len(socket) : Append(socket, e)[i] = socket[i]
        /\ Append(socket, e) \in Seq(Frame) /\ Len(socket) \in Nat
    BY <1>3
  <2>2. \A i \in 1..(Len(socket) + 1) : i \in 1..Len(socket) \/ i = Len(socket) + 1
    BY <2>1
  <2> QED
    BY <1>5, <1>6, <2>1, <2>2
<1>7. ASSUME Arrived(socket') PROVE Chained'
  BY <1>1, <1>7 DEF AuditIInv, Chained
<1> HIDE DEF Arrived
<1>8. Arrived(socket') /\ now' \in Nat /\ venueU' \in Nat \ {0}
  <2>1. CASE VenueDepth
    <3> DEFINE e == [kind |-> "depth", pu |-> venueU, u |-> venueU + 1, at |-> now + 1]
    <3>1. e \in Frame /\ (e.kind = "depth" => Follows(e))
      BY <1>3 DEF Frame, Follows
    <3>2. socket' \in {socket} \cup (IF Connected THEN {Append(socket, e)} ELSE {})
      BY <2>1 DEF VenueDepth
    <3>3. now' = now + 1 /\ venueU' = venueU + 1
      BY <2>1 DEF VenueDepth
    <3> HIDE DEF e
    <3>4. socket' = socket \/ socket' = Append(socket, e)
      BY <3>2
    <3>5. Arrived(Append(socket, e))
      BY <1>6, <3>1
    <3>6. Arrived(socket')
      BY <1>5, <3>4, <3>5
    <3>7. now' \in Nat /\ venueU' \in Nat \ {0}
      BY <1>3, <3>3
    <3> QED
      BY <3>6, <3>7
  <2>2. CASE VenueOther
    <3>1. PICK kind \in {"trade", "junk", "unknown"} : socket' = Append(socket, [kind |-> kind])
      BY <2>2 DEF VenueOther
    <3>2. [kind |-> kind] \in Frame /\ [kind |-> kind].kind # "depth"
      BY DEF Frame
    <3>3. now' = now /\ venueU' = venueU
      BY <2>2 DEF VenueOther
    <3> QED
      BY <1>3, <1>6, <3>1, <3>2, <3>3
  <2>3. CASE CapPasses \/ RequestFails \/ Connect \/ GivesUp \/ SocketEnds \/ Closed \/ UNCHANGED vars
    <3>1. now' = now /\ venueU' = venueU /\ socket' \in {socket, << >>}
      BY <2>3 DEF CapPasses, RequestFails, Connect, GivesUp, SocketEnds, Closed, vars, venueVars
    <3> QED
      BY <1>3, <1>5, <3>1
  <2> QED
    BY <2>1, <2>2, <2>3
<1>9. ASSUME phase' = phase, reconnects' = reconnects, expired => expired'
      PROVE  Progress' /\ Blocks'
  <2>1. Progress'
    BY <1>1, <1>9 DEF AuditIInv, Progress
  <2>2. Blocks'
    BY <1>1, <1>4, <1>9 DEF AuditIInv, Blocks, InBlocks
  <2> QED
    BY <2>1, <2>2
<1>10. \A a, b \in Nat : InBlocks(a, b) => InBlocks(a, b)'
  BY <1>1 DEF InBlocks
<1>11. MidBlock \in Nat /\ OffsetSamples \in Nat \ {0}
  BY AuditAssumption DEF MidBlock
\* An audit between connections, and what the record and the samples were.
<1> DEFINE Between(p) == /\ p \in {"loop", "draining", "closed"}
                         /\ Len(samples) = OffsetSamples + MidBlock
                         /\ InBlocks(OffsetSamples, MidBlock)
<1>12. ASSUME Between(phase), phase' \in {"loop", "draining", "closed", "end", "failed"}
       PROVE  Blocks'
  <2>1. InBlocks(OffsetSamples, MidBlock)'
    <3>1. PICK b \in Nat : b = MidBlock
      BY <1>11
    <3> QED
      BY <1>4, <1>10, <1>11, <1>12, <3>1 DEF InBlocks
  <2>2. Len(samples') = OffsetSamples + MidBlock' /\ Len(samples') <= 3 * OffsetSamples
    BY <1>1, <1>4, <1>12 DEF AuditIInv, Blocks
  <2>3. Len(samples') - OffsetSamples - MidBlock' \in 0..(OffsetSamples - 1)
    BY <1>4, <1>11, <2>2
  <2>4. midSampled' <=> Len(depth') >= Halfway
    BY <1>1, <1>12 DEF AuditIInv, Blocks
  <2> QED
    BY <1>12, <2>1, <2>2, <2>3, <2>4 DEF Blocks
<1>13. phase \in {"loop", "draining", "closed"} => Between(phase)
  BY DEF AuditIInv, Blocks
<1>14. /\ Progress' /\ Blocks'
       /\ phase' \in Phases \cup {"loop", "draining", "closed", "done", "failed"}
       /\ reconnects' \in Nat /\ expired' \in BOOLEAN
  <2>1. phase \in Phases \cup {"loop", "draining", "closed", "done", "failed"}
    BY DEF AuditIInv, AuditTypes
  <2>2. CASE VenueDepth \/ VenueOther \/ CapPasses \/ UNCHANGED vars
    <3>1. phase' = phase /\ reconnects' = reconnects /\ (expired' = expired \/ expired' = TRUE)
      BY <2>2 DEF VenueDepth, VenueOther, CapPasses, vars, venueVars
    <3> QED
      BY <1>3, <1>9, <2>1, <3>1
  <2>3. CASE RequestFails
    <3>1. phase' = "failed" /\ reconnects' = reconnects /\ expired' = expired
      BY <2>3 DEF RequestFails
    <3>2. Blocks' /\ Progress'
      BY <1>1, <3>1 DEF AuditIInv, Blocks, Progress
    <3> QED
      BY <1>3, <3>1, <3>2
  <2>4. CASE Connect
    <3>1. /\ phase = "loop" /\ phase' \in {"draining", "closed", "failed"}
          /\ reconnects' = reconnects /\ expired' = expired
          /\ Len(depth) < NEvents /\ reconnects <= MaxReconnects
      BY <2>4 DEF Connect, MayConnect
    <3>2. Progress'
      BY <1>1, <3>1 DEF AuditIInv, Progress
    <3>3. Blocks'
      BY <1>12, <1>13, <3>1
    <3> QED
      BY <1>3, <3>1, <3>2, <3>3
  <2>5. CASE GivesUp
    <3>1. /\ phase = "loop" /\ phase' = "end" /\ reconnects' = reconnects /\ expired' = expired
          /\ ~(Len(depth) < NEvents /\ ~expired /\ reconnects <= MaxReconnects)
      BY <2>5 DEF GivesUp, MayConnect
    <3>2. Progress'
      BY <1>1, <1>3, <3>1 DEF AuditIInv, Progress
    <3>3. Blocks'
      BY <1>12, <1>13, <3>1
    <3> QED
      BY <1>3, <3>1, <3>2, <3>3 DEF Phases
  <2>6. CASE SocketEnds
    <3>1. phase = "draining" /\ phase' = "closed" /\ reconnects' = reconnects /\ expired' = expired
      BY <2>6 DEF SocketEnds
    <3>2. Progress'
      BY <1>1, <3>1 DEF AuditIInv, Progress
    <3>3. Blocks'
      BY <1>12, <1>13, <3>1
    <3> QED
      BY <1>3, <3>1, <3>2, <3>3
  <2>7. CASE Closed
    <3>1. /\ phase = "closed" /\ expired' = expired
          /\ \/ Len(depth) >= NEvents /\ phase' = "end" /\ reconnects' = reconnects
             \/ phase' = "loop" /\ reconnects' = reconnects + 1
      BY <2>7 DEF Closed
    <3>2. Progress' /\ reconnects' \in Nat
      BY <1>1, <1>3, <3>1 DEF AuditIInv, Progress
    <3>3. Blocks'
      BY <1>12, <1>13, <3>1
    <3> QED
      BY <1>3, <3>1, <3>2, <3>3 DEF Phases
  <2> QED
    BY <2>2, <2>3, <2>4, <2>5, <2>6, <2>7
<1>15. socket' \in Seq(Frame) /\ Chained'
  BY <1>7, <1>8 DEF Arrived
<1>16. AuditTypes'
  BY <1>3, <1>8, <1>14, <1>15 DEF AuditTypes
<1> QED
  BY <1>2, <1>14, <1>15, <1>16 DEF AuditIInv

(* AuditIInv is inductive: it holds at the start, and every step keeps it. *)
LEMMA AuditStarts == Init => AuditIInv
<1> SUFFICES ASSUME Init PROVE AuditIInv
  OBVIOUS
<1>1. AuditTypes
  <2>1. {midSampled, expired} \subseteq BOOLEAN
    BY DEF Init
  <2>2. phase \in Phases \cup {"loop", "draining", "closed", "done", "failed"}
    BY DEF Init, Phases
  <2>3. /\ samples \in Seq(Sample) /\ depth \in Seq(Update) /\ socket \in Seq(Frame)
        /\ nTrade \in Nat /\ decodeErrors \in Nat /\ gaps \in Nat /\ lastU \in Nat
        /\ reconnects \in Nat /\ now \in Nat /\ venueU \in Nat \ {0}
    BY DEF Init, None
  <2> QED
    BY <2>1, <2>2, <2>3 DEF AuditTypes
<1>2. Holes(depth) = {} /\ Cardinality({}) = 0
  BY FS_EmptySet DEF Init, Holes
<1>3. Chained /\ HolesCounted /\ Bracketed
  BY <1>2 DEF Init, Chained, HolesCounted, Bracketed
<1>4. Progress
  BY AuditAssumption DEF Init, Progress
<1>5. Blocks
  BY AuditAssumption DEF Init, Blocks, InBlocks, Halfway
<1> QED
  BY <1>1, <1>3, <1>4, <1>5 DEF AuditIInv

(* The step, by what it leaves alone (run_latency_audit).                  *)
LEMMA AuditSteps == AuditIInv /\ [Next]_vars => AuditIInv'
<1> SUFFICES ASSUME AuditIInv, [Next]_vars PROVE AuditIInv'
  OBVIOUS
<1>1. CASE ServerTime
  BY <1>1, AuditSamples
<1>2. CASE Receive
  BY <1>2, AuditReceives
<1>3. CASE \/ VenueDepth \/ VenueOther \/ CapPasses \/ RequestFails \/ Connect
           \/ GivesUp \/ SocketEnds \/ Closed \/ UNCHANGED vars
  BY <1>3, AuditElsewhere
<1>4. CASE Over
  BY <1>4, AuditElsewhere DEF Over
<1> QED
  BY <1>1, <1>2, <1>3, <1>4 DEF Next, Venue, Auditor

(* Every reachable state of an audit satisfies it.                         *)
THEOREM AuditInvariant == Spec => []AuditIInv
BY AuditStarts, AuditSteps, PTL DEF Spec

(* For every length of record, number of samples and of connections, the   *)
(* record never grows past what was asked for and falls short of it only   *)
(* when time or connections ran out (_collect_with_reconnect).             *)
THEOREM AuditIsExplained == Spec => []AuditInv
<1>1. AuditIInv => AuditInv
  <2> SUFFICES ASSUME AuditIInv PROVE TypeOK /\ IncompleteIsExplained
    BY DEF AuditInv
  <2>1. /\ reconnects \in Nat /\ MaxReconnects \in Nat /\ Len(depth) \in Nat /\ NEvents \in Nat
        /\ reconnects <= MaxReconnects + 1
    BY AuditAssumption DEF AuditIInv, AuditTypes, Progress
  <2>2. TypeOK
    BY <2>1 DEF AuditIInv, AuditTypes, Progress, Blocks, TypeOK
  <2>3. IncompleteIsExplained
    BY <2>1 DEF AuditIInv, Progress, IncompleteIsExplained, ExitCode
  <2> QED
    BY <2>2, <2>3
<1> QED
  BY <1>1, AuditInvariant, PTL

(* However many connections a record was put together from, its count of   *)
(* gaps is the number of places where the venue sent something it lacks    *)
(* (ProbeAccumulator.ingest_raw).                                          *)
THEOREM GapsAreTheHoles == Spec => []GapsAreHoles
<1>1. AuditIInv => GapsAreHoles
  BY DEF AuditIInv, HolesCounted, GapsAreHoles, Holes
<1> QED
  BY <1>1, AuditInvariant, PTL

(* Whatever arrives while a sample is awaited and whatever is lost between *)
(* connections, a report has its samples from before, halfway and after    *)
(* the record (run_latency_audit).                                         *)
THEOREM ClockIsBracketed == Spec => []ClockBracketsRecord
<1>1. ASSUME AuditIInv, phase = "done"
      PROVE  LET block(p) == [i \in 1..OffsetSamples |-> p]
             IN  Each(samples, LAMBDA x : x.phase)
                   = block("start") \o (IF Len(depth) >= Halfway THEN block("mid") ELSE << >>)
                       \o block("end")
  <2> DEFINE N == OffsetSamples
             first == [i \in 1..N |-> "start"]
             mid == IF Len(depth) >= Halfway THEN [i \in 1..N |-> "mid"] ELSE << >>
             last == [i \in 1..N |-> "end"]
             phases == [i \in DOMAIN samples |-> samples[i].phase]
             front == first \o mid
             all == front \o last
  <2>1. /\ N \in Nat /\ samples \in Seq(Sample) /\ DOMAIN samples = 1..Len(samples)
        /\ Len(samples) \in Nat
    <3>1. N \in Nat
      BY AuditAssumption
    <3>2. samples \in Seq(Sample)
      BY <1>1 DEF AuditIInv, AuditTypes
    <3> QED
      BY <3>1, <3>2
  <2>2. /\ InBlocks(N, MidBlock) /\ Len(samples) = 2 * N + MidBlock
        /\ midSampled <=> Len(depth) >= Halfway
    BY <1>1 DEF AuditIInv, Blocks
  <2>3. /\ first \in Seq(Phases) /\ Len(first) = N /\ \A i \in 1..N : first[i] = "start"
        /\ last \in Seq(Phases) /\ Len(last) = N /\ \A i \in 1..N : last[i] = "end"
    <3>1. ASSUME NEW p \in Phases PROVE [i \in 1..N |-> p] \in Seq(Phases) /\ Len([i \in 1..N |-> p]) = N
      BY <2>1
    <3>2. "start" \in Phases /\ "end" \in Phases
      BY DEF Phases
    <3> QED
      BY <3>1, <3>2
  <2>4. /\ mid \in Seq(Phases) /\ Len(mid) = MidBlock /\ \A i \in 1..MidBlock : mid[i] = "mid"
        /\ MidBlock \in Nat
    <3>1. CASE Len(depth) >= Halfway
      <4>1. MidBlock = N /\ mid = [i \in 1..N |-> "mid"] /\ "mid" \in Phases
        BY <2>2, <3>1 DEF MidBlock, Phases
      <4> HIDE DEF N, mid
      <4> QED
        BY <2>1, <4>1
    <3>2. CASE ~(Len(depth) >= Halfway)
      <4>1. MidBlock = 0 /\ mid = << >>
        BY <2>2, <3>2 DEF MidBlock
      <4> HIDE DEF mid
      <4> QED
        BY <4>1
    <3> QED
      BY <3>1, <3>2
  <2>5. /\ phases \in Seq(Phases) /\ Len(phases) = 2 * N + MidBlock
        /\ \A i \in 1..Len(samples) : phases[i] = samples[i].phase
    <3>1. \A i \in 1..Len(samples) : samples[i].phase \in Phases
      <4>1. \A i \in 1..Len(samples) : samples[i] \in Sample
        BY <2>1
      <4> QED
        BY <4>1 DEF Sample
    <3> QED
      BY <2>1, <2>2, <3>1
  <2>6. Each(samples, LAMBDA x : x.phase) = phases
    BY DEF Each
  <2> HIDE DEF N, first, mid, last, phases
  <2>7. /\ front \in Seq(Phases) /\ Len(front) = N + MidBlock
        /\ \A i \in 1..(N + MidBlock) : front[i] = IF i <= N THEN "start" ELSE "mid"
    <3>1. front \in Seq(Phases) /\ Len(front) = N + MidBlock
      BY <2>1, <2>3, <2>4
    <3>2. ASSUME NEW i \in 1..(N + MidBlock) PROVE front[i] = IF i <= N THEN "start" ELSE "mid"
      <4>1. front[i] = IF i <= Len(first) THEN first[i] ELSE mid[i - Len(first)]
        BY <2>1, <2>3, <2>4
      <4>2. i <= N => i \in 1..N
        BY <2>1, <2>4
      <4>3. ~(i <= N) => i - N \in 1..MidBlock
        BY <2>1, <2>4
      <4> QED
        BY <2>3, <2>4, <4>1, <4>2, <4>3
    <3> QED
      BY <3>1, <3>2
  <2> HIDE DEF front
  <2>8. /\ all \in Seq(Phases) /\ Len(all) = 2 * N + MidBlock
        /\ \A i \in 1..(2 * N + MidBlock) :
             all[i] = IF i <= N THEN "start" ELSE IF i <= N + MidBlock THEN "mid" ELSE "end"
    <3>1. all \in Seq(Phases) /\ Len(all) = 2 * N + MidBlock
      <4>1. all \in Seq(Phases) /\ Len(all) = Len(front) + Len(last)
        BY <2>3, <2>7
      <4> QED
        BY <2>1, <2>3, <2>4, <2>7, <4>1
    <3>2. ASSUME NEW i \in 1..(2 * N + MidBlock)
          PROVE  all[i] = IF i <= N THEN "start" ELSE IF i <= N + MidBlock THEN "mid" ELSE "end"
      <4>1. all[i] = IF i <= Len(front) THEN front[i] ELSE last[i - Len(front)]
        BY <2>1, <2>3, <2>4, <2>7
      <4>2. i <= N + MidBlock => i \in 1..(N + MidBlock)
        BY <2>1, <2>4
      <4>3. ~(i <= N + MidBlock) => i - (N + MidBlock) \in 1..N /\ ~(i <= N)
        BY <2>1, <2>4
      <4> QED
        BY <2>3, <2>7, <4>1, <4>2, <4>3
    <3> QED
      BY <3>1, <3>2
  <2> HIDE DEF all
  <2>9. \A i \in 1..Len(phases) : phases[i] = all[i]
    BY <2>2, <2>5, <2>8 DEF InBlocks
  <2>10. phases = all
    BY <2>5, <2>8, <2>9, SeqEqual
  <2> QED
    BY <2>6, <2>10 DEF all, front, first, mid, last, N
<1>2. AuditIInv => ClockBracketsRecord
  BY <1>1 DEF ClockBracketsRecord
<1> QED
  BY <1>2, AuditInvariant, PTL

(* The one offset of a report lies between the least and the greatest of   *)
(* its samples' offsets, rounding included (offset_summary).               *)
LEMMA MeanWithin ==
  ASSUME NEW n \in Nat \ {0}, NEW s, DOMAIN s = 1..n, Len(s) = n, NEW lo \in Int, NEW hi \in Int,
         \A i \in 1..n : Offset(s[i]) \in Int /\ lo <= Offset(s[i]) /\ Offset(s[i]) <= hi
  PROVE  MeanOffset(s) \in lo..hi
<1> DEFINE f == [i \in 1..n |-> Offset(s[i])]
           total == Total(f)
           floor == total \div n
           rest == 2 * (total % n)
<1>1. total \in Int /\ n * lo <= total /\ total <= n * hi
  <2>1. f \in [1..n -> Int] /\ \A i \in 1..n : lo <= f[i] /\ f[i] <= hi
    OBVIOUS
  <2> HIDE DEF f
  <2> QED
    BY <2>1, SumWithin
<1>2. Each(s, Offset) = f
  BY DEF Each
<1> HIDE DEF f
<1>3. MeanOffset(s) = IF rest < n \/ (rest = n /\ floor % 2 = 0) THEN floor ELSE floor + 1
  BY <1>2 DEF MeanOffset
<1> HIDE DEF total
<1>4. floor \in Int /\ total % n \in 0..(n - 1) /\ total = n * floor + (total % n)
  BY <1>1
<1> DEFINE mod == total % n
<1>5. rest = 2 * mod /\ mod \in Nat /\ mod < n /\ total = n * floor + mod
  BY <1>4
<1> HIDE DEF floor, rest, mod
<1>6. \A a, b \in Int : n * a <= n * b + mod => a <= b
  <2> SUFFICES ASSUME NEW a \in Int, NEW b \in Int, n * a <= n * b + mod, b + 1 <= a PROVE FALSE
    OBVIOUS
  <2>1. n * (b + 1) <= n * a
    OBVIOUS
  <2>2. n * (b + 1) = n * b + n
    OBVIOUS
  <2>3. n * b \in Int /\ n * a \in Int
    OBVIOUS
  <2> QED
    BY <1>5, <2>1, <2>2, <2>3
<1>7. lo <= floor
  BY <1>1, <1>4, <1>5, <1>6
<1>8. floor <= hi /\ (mod > 0 => floor < hi)
  <2>1. n * floor \in Int /\ n * hi \in Int
    BY <1>4
  <2>2. ASSUME hi + 1 <= floor PROVE FALSE
    <3>1. n * (hi + 1) <= n * floor
      BY <1>4, <2>2
    <3>2. n * (hi + 1) = n * hi + n
      OBVIOUS
    <3> QED
      BY <1>1, <1>5, <2>1, <3>1, <3>2
  <2>3. ASSUME floor = hi, mod > 0 PROVE FALSE
    BY <1>1, <1>5, <2>1, <2>3
  <2> QED
    BY <1>4, <2>2, <2>3
<1>9. mod = 0 => MeanOffset(s) = floor
  BY <1>3, <1>5
<1>10. MeanOffset(s) \in {floor, floor + 1}
  BY <1>3
<1> QED
  BY <1>4, <1>5, <1>7, <1>8, <1>9, <1>10

(* The longest of a list of round trips is one of them, and none is longer. *)
LEMMA GreatestIs ==
  ASSUME NEW n \in Nat \ {0}, NEW f \in [1..n -> Int]
  PROVE  Greatest(f) \in Int /\ \A i \in 1..n : f[i] <= Greatest(f)
<1>1. PICK j \in 1..n : \A i \in 1..n : f[i] <= f[j]
  BY ListHasGreatest
<1>2. f[j] \in Range(f) /\ Range(f) \subseteq Int /\ \A i \in 1..n : f[i] \in Range(f)
  BY DEF Range
<1>3. \A y \in Range(f) : f[j] >= y
  BY <1>1, <1>2 DEF Range
<1>4. Greatest(f) \in Range(f) /\ \A y \in Range(f) : Greatest(f) >= y
  BY <1>2, <1>3, Zenon DEF Greatest
<1> HIDE DEF Greatest
<1> QED
  BY <1>2, <1>4

(* The offset of a report is the clocks' skew, and at most the longest     *)
(* round trip more.                                                        *)
LEMMA OffsetWithin ==
  ASSUME AuditIInv, phase = "done"
  PROVE  /\ Greatest(Each(samples, Rtt)) \in Int /\ MeanOffset(samples) \in Int
         /\ Skew <= MeanOffset(samples)
         /\ MeanOffset(samples) <= Skew + Greatest(Each(samples, Rtt))
<1> DEFINE n    == Len(samples)
           rtts == [j \in 1..n |-> Rtt(samples[j])]
           most == Greatest(rtts)
<1>1. n \in Nat \ {0} /\ DOMAIN samples = 1..n /\ \A j \in 1..n : samples[j] \in Sample
  BY AuditAssumption DEF AuditIInv, AuditTypes, Blocks, MidBlock
<1>2. \A j \in 1..n : /\ Offset(samples[j]) \in Int /\ Rtt(samples[j]) \in Int
                      /\ Skew <= Offset(samples[j])
                      /\ Offset(samples[j]) - Skew <= Rtt(samples[j])
  <2>1. \A j \in 1..n : Offset(samples[j]) \in Int /\ Rtt(samples[j]) \in Int
    BY <1>1 DEF Sample, Offset, Rtt
  <2> QED
    BY <2>1 DEF AuditIInv, Bracketed
<1>3. Each(samples, Rtt) = rtts /\ rtts \in [1..n -> Int]
  BY <1>1, <1>2 DEF Each
<1> HIDE DEF n
<1>4. most \in Int /\ \A j \in 1..n : Rtt(samples[j]) <= most
  <2>1. rtts \in [1..n -> Int] /\ \A j \in 1..n : rtts[j] = Rtt(samples[j])
    BY <1>3
  <2> HIDE DEF rtts
  <2> QED
    BY <1>1, <2>1, GreatestIs
<1> HIDE DEF rtts, most
<1>5. Skew \in Int /\ \A j \in 1..n : Skew <= Offset(samples[j]) /\ Offset(samples[j]) <= Skew + most
  BY AuditAssumption, <1>2, <1>4
<1>6. MeanOffset(samples) \in Skew..(Skew + most)
  <2>1. Skew + most \in Int /\ Len(samples) = n
    BY <1>4, <1>5 DEF n
  <2> QED
    BY <1>1, <1>2, <1>5, <2>1, MeanWithin
<1> QED
  BY <1>3, <1>4, <1>5, <1>6 DEF most

(* Whatever the two legs of a server-time request take and however many    *)
(* samples a report averages, what it calls adjusted is the true delay     *)
(* from the event to its stamp, short of it by at most the longest round   *)
(* trip (event_latencies, raw_and_adjusted_ns).                            *)
THEOREM AdjustedIsTrue == Spec => []AdjustedWithinRtt
<1>1. ASSUME AuditIInv, phase = "done", NEW i \in DOMAIN depth
      PROVE  LET actual == depth[i].recv - Skew - depth[i].at
                 a      == Report.adjustedNs[i]
             IN  a <= actual /\ actual - a <= Greatest(Each(samples, Rtt))
  <2> DEFINE offset == MeanOffset(samples)
             most   == Greatest(Each(samples, Rtt))
  <2>1. /\ most \in Int /\ offset \in Int /\ Skew \in Int
        /\ Skew <= offset /\ offset <= Skew + most
    BY <1>1, AuditAssumption, OffsetWithin
  <2>2. depth[i].recv \in Int /\ depth[i].at \in Int
    <3>1. depth[i] \in Update
      BY <1>1 DEF AuditIInv, AuditTypes
    <3> QED
      BY <3>1 DEF Update
  <2>3. Report.adjustedNs[i] = depth[i].recv - depth[i].at - offset
    BY <1>1 DEF Report, Delays, Each
  <2> HIDE DEF offset, most
  <2> QED
    BY <2>1, <2>2, <2>3 DEF most
<1>2. AuditIInv => AdjustedWithinRtt
  BY <1>1, Zenon DEF AdjustedWithinRtt
<1> QED
  BY <1>2, AuditInvariant, PTL

-----------------------------------------------------------------------------
\* The percentiles of a report.

(* None of a list of numbers is less than its least.                       *)
LEMMA LeastIs ==
  ASSUME NEW n \in Nat \ {0}, NEW f \in [1..n -> Int]
  PROVE  Least(f) \in Int /\ \A i \in 1..n : Least(f) <= f[i]
<1> DEFINE minus == [i \in 1..n |-> 0 - f[i]]
<1>1. PICK j \in 1..n : \A i \in 1..n : minus[i] <= minus[j]
  <2>1. minus \in [1..n -> Int]
    OBVIOUS
  <2> HIDE DEF minus
  <2> QED
    BY <2>1, ListHasGreatest
<1>2. f[j] \in Range(f) /\ Range(f) \subseteq Int /\ \A i \in 1..n : f[i] \in Range(f)
  BY DEF Range
<1>3. \A y \in Range(f) : f[j] <= y
  <2>1. \A i \in 1..n : f[j] <= f[i]
    BY <1>1
  <2> HIDE DEF minus
  <2> QED
    BY <2>1 DEF Range
<1>4. Least(f) \in Range(f) /\ \A y \in Range(f) : Least(f) <= y
  BY <1>2, <1>3, Zenon DEF Least
<1> HIDE DEF Least
<1> QED
  BY <1>2, <1>4

(* What is counted under a value, and up to it: a rank.                    *)
LEMMA CountsAre ==
  ASSUME NEW n \in Nat, NEW f \in [1..n -> Int], NEW v \in Int, NEW w \in Int
  PROVE  /\ Cardinality(Under(f, v)) \in Nat /\ Cardinality(UpTo(f, v)) \in Nat
         /\ Cardinality(UpTo(f, v)) <= n
         /\ v <= w => /\ Cardinality(Under(f, v)) <= Cardinality(Under(f, w))
                      /\ Cardinality(UpTo(f, v)) <= Cardinality(UpTo(f, w))
         /\ v < w => Cardinality(UpTo(f, v)) <= Cardinality(Under(f, w))
<1>1. IsFiniteSet(1..n) /\ Cardinality(1..n) = n
  BY FS_Interval
<1>2. ASSUME NEW S \in SUBSET (1..n)
      PROVE  IsFiniteSet(S) /\ Cardinality(S) \in Nat /\ Cardinality(S) <= n
  <2>1. IsFiniteSet(S) /\ Cardinality(S) <= Cardinality(1..n)
    BY <1>1, FS_Subset
  <2> QED
    BY <1>1, <2>1, FS_CardinalityType
<1>3. \A T \in SUBSET (1..n) : \A S \in SUBSET T : Cardinality(S) <= Cardinality(T)
  BY <1>2, FS_Subset
<1>4. \A x \in Int : Under(f, x) \in SUBSET (1..n) /\ UpTo(f, x) \in SUBSET (1..n)
  BY DEF Under, UpTo
<1>5. v <= w => Under(f, v) \in SUBSET Under(f, w) /\ UpTo(f, v) \in SUBSET UpTo(f, w)
  BY DEF Under, UpTo
<1>6. v < w => UpTo(f, v) \in SUBSET Under(f, w)
  BY DEF Under, UpTo
<1> QED
  BY <1>2, <1>3, <1>4, <1>5, <1>6

(* Every rank has a sample: fewer are under it, and as many are up to it.  *)
LEMMA RankedIs ==
  ASSUME NEW n \in Nat \ {0}, NEW f \in [1..n -> Int], NEW k \in 1..n
  PROVE  /\ Ranked(f, k) \in Int /\ \E i \in 1..n : Ranked(f, k) = f[i]
         /\ Cardinality(Under(f, Ranked(f, k))) < k
         /\ k <= Cardinality(UpTo(f, Ranked(f, k)))
<1> DEFINE count(i) == Cardinality(UpTo(f, f[i]))
           Counts   == {c \in Nat : k <= c /\ \E i \in 1..n : c = count(i)}
<1>1. IsFiniteSet(1..n) /\ Cardinality(1..n) = n
  BY FS_Interval
<1>2. \A i \in 1..n : count(i) \in Nat
  BY CountsAre
<1>3. Counts # {}
  <2>1. PICK j \in 1..n : \A i \in 1..n : f[i] <= f[j]
    BY ListHasGreatest
  <2>2. UpTo(f, f[j]) = 1..n
    BY <2>1 DEF UpTo
  <2>3. count(j) = n
    BY <1>1, <2>2
  <2>4. n \in Nat /\ k <= n /\ \E i \in 1..n : n = count(i)
    BY <2>3
  <2> HIDE DEF count
  <2> QED
    BY <2>4
<1>4. PICK c \in Counts : \A b \in Counts : c <= b
  <2>1. Counts \in SUBSET Nat
    OBVIOUS
  <2> HIDE DEF Counts
  <2> QED
    BY <1>3, <2>1, SmallestNat
<1>5. PICK i \in 1..n : c = count(i) /\ k <= c /\ c \in Nat
  OBVIOUS
<1>6. Cardinality(Under(f, f[i])) < k
  <2> DEFINE under == Under(f, f[i])
             upto  == UpTo(f, f[i])
  <2>0. Cardinality(under) \in Nat
    BY CountsAre
  <2> SUFFICES ASSUME k <= Cardinality(under) PROVE FALSE
    BY <2>0
  <2>1. under # {}
    <3>1. Cardinality(under) # 0
      BY <2>0
    <3> HIDE DEF under
    <3> QED
      BY <3>1, FS_EmptySet
  <2>2. PICK b \in 1..n : f[b] < f[i]
    BY <2>1 DEF Under
  <2> DEFINE low == [j \in 1..n |-> IF f[j] < f[i] THEN f[j] ELSE f[b]]
  <2>3. PICK g \in 1..n : \A j \in 1..n : low[j] <= low[g]
    <3>1. low \in [1..n -> Int]
      OBVIOUS
    <3> HIDE DEF low
    <3> QED
      BY <3>1, ListHasGreatest
  <2>4. PICK m \in 1..n : f[m] = low[g] /\ f[m] < f[i]
    BY <2>2
  <2>5. UpTo(f, f[m]) = under
    BY <2>3, <2>4 DEF Under, UpTo
  <2>6. count(m) \in Counts
    BY <1>2, <2>5
  <2>7. Cardinality(under) < c
    <3>1. IsFiniteSet(upto) /\ under \in SUBSET upto /\ i \in upto /\ i \notin under
      BY <1>1, FS_Subset DEF Under, UpTo
    <3>2. Cardinality(under) <= Cardinality(upto) /\ Cardinality(under) # Cardinality(upto)
      BY <3>1, FS_Subset
    <3> QED
      BY <1>5, <2>0, <3>2
  <2> QED
    BY <1>4, <1>5, <2>0, <2>5, <2>6, <2>7, SMTT(30)
<1> DEFINE Is(v) == Cardinality(Under(f, v)) < k /\ k <= Cardinality(UpTo(f, v))
<1>7. \E v \in Range(f) : Is(v)
  BY <1>5, <1>6 DEF Range
<1>8. Ranked(f, k) = CHOOSE v \in Range(f) : Is(v)
  BY DEF Ranked
<1>9. Ranked(f, k) \in Range(f) /\ Is(Ranked(f, k))
  <2> HIDE DEF Is
  <2> QED
    BY <1>7, <1>8, Zenon
<1> QED
  BY <1>9 DEF Range

(* Ranks are in order, from the least of the samples to the greatest.      *)
LEMMA RanksRise ==
  ASSUME NEW n \in Nat \ {0}, NEW f \in [1..n -> Int], NEW k \in 1..n, NEW m \in 1..n, k <= m
  PROVE  Ranked(f, k) <= Ranked(f, m)
<1>1. Ranked(f, k) \in Int /\ Cardinality(Under(f, Ranked(f, k))) < k
  BY RankedIs
<1>2. Ranked(f, m) \in Int /\ m <= Cardinality(UpTo(f, Ranked(f, m)))
  BY RankedIs
<1> DEFINE v == Ranked(f, k)
           w == Ranked(f, m)
<1> HIDE DEF v, w
<1>3. v \in Int /\ w \in Int /\ Cardinality(Under(f, v)) < k /\ m <= Cardinality(UpTo(f, w))
  BY <1>1, <1>2 DEF v, w
<1>4. Cardinality(Under(f, v)) \in Nat /\ Cardinality(UpTo(f, w)) \in Nat
  BY <1>3, CountsAre
<1>5. ~(w < v)
  BY <1>3, <1>4, CountsAre
<1> QED
  BY <1>3, <1>5 DEF v, w

(* Samples that all shift by as much shift every rank by it.               *)
LEMMA RanksShift ==
  ASSUME NEW n \in Nat \ {0}, NEW f \in [1..n -> Int], NEW g \in [1..n -> Int], NEW c \in Int,
         \A i \in 1..n : f[i] = g[i] + c, NEW k \in 1..n
  PROVE  Ranked(f, k) = Ranked(g, k) + c
<1> DEFINE v == Ranked(f, k)
           w == Ranked(g, k)
<1>1. /\ v \in Int /\ Cardinality(Under(f, v)) < k /\ k <= Cardinality(UpTo(f, v))
      /\ w \in Int /\ Cardinality(Under(g, w)) < k /\ k <= Cardinality(UpTo(g, w))
  BY RankedIs
<1> HIDE DEF v, w
<1>2. Under(g, w) = Under(f, w + c) /\ UpTo(g, w) = UpTo(f, w + c)
  <2>1. \A i \in 1..n : (g[i] < w <=> f[i] < w + c) /\ (g[i] <= w <=> f[i] <= w + c)
    BY <1>1, SMTT(30)
  <2>2. DOMAIN f = 1..n /\ DOMAIN g = 1..n
    OBVIOUS
  <2> QED
    BY <2>1, <2>2 DEF Under, UpTo
<1> DEFINE x == w + c
<1>3. /\ x \in Int /\ Cardinality(Under(f, x)) < k /\ k <= Cardinality(UpTo(f, x))
  BY <1>1, <1>2
<1> HIDE DEF x
<1>4. /\ Cardinality(Under(f, v)) \in Nat /\ Cardinality(UpTo(f, x)) \in Nat
      /\ Cardinality(Under(f, x)) \in Nat /\ Cardinality(UpTo(f, v)) \in Nat
  BY <1>1, <1>3, CountsAre
<1>5. /\ x < v => Cardinality(UpTo(f, x)) <= Cardinality(Under(f, v))
      /\ v < x => Cardinality(UpTo(f, v)) <= Cardinality(Under(f, x))
  BY <1>1, <1>3, CountsAre
<1>6. v = x
  BY <1>1, <1>3, <1>4, <1>5, SMTT(30)
<1> QED
  BY <1>6 DEF v, w, x

\* A percentage, in thousandths, and the weight of a rank.
Thousandths == 0..1000

\* A value between those of two ranks.
Mix(a, b, w) == a * (1000 - w) + b * w

(* Between two ranks the value is between theirs, and grows with the       *)
(* weight of the second.                                                   *)
LEMMA Between ==
  ASSUME NEW a \in Int, NEW b \in Int, a <= b, NEW p \in Thousandths
  PROVE  /\ Mix(a, b, p) \in Int /\ 1000 * a <= Mix(a, b, p) /\ Mix(a, b, p) <= 1000 * b
         /\ \A q \in Thousandths : p <= q => Mix(a, b, p) <= Mix(a, b, q)
<1> USE DEF Thousandths
<1>1. PICK d \in Nat : b = a + d
  BY b - a \in Nat
<1>2. \A r \in Int : Mix(a, b, r) = 1000 * a + d * r /\ d * r \in Int
  BY <1>1 DEF Mix
<1>3. ASSUME NEW r \in 0..1000, NEW s \in 0..1000, r <= s PROVE d * r <= d * s
  <2>1. PICK t \in Nat : s = r + t
    <3>1. s - r \in Nat
      BY <1>3
    <3> QED
      BY <3>1
  <2>2. d * (r + t) = d * r + d * t /\ d * t \in Nat /\ d * r \in Int
    BY <1>1, <2>1
  <2> QED
    BY <2>1, <2>2
<1> DEFINE top == 1000
<1>4. top \in 0..1000 /\ d * top = 1000 * d /\ top \in Int
  BY <1>1
<1> HIDE DEF top
<1>6. d * p <= d * top
  <2>1. p <= top /\ top \in 0..1000
    BY DEF top
  <2> QED
    BY <1>3, <2>1, ZenonT(30)
<1>7. PICK x \in Nat, z \in Nat : x = d * p /\ z = d * top
  <2>1. d * p \in Nat /\ d * top \in Nat
    <3>1. ASSUME NEW r \in Nat PROVE d * r \in Nat
      <4>1. d * r \in Int /\ d >= 0 /\ r >= 0
        OBVIOUS
      <4> QED
        BY <4>1
    <3>2. p \in Nat /\ top \in Nat
      BY <1>4
    <3> QED
      BY <3>1, <3>2
  <2> QED
    BY <2>1
<1>8. Mix(a, b, p) = 1000 * a + x
  <2>1. p \in Int
    OBVIOUS
  <2> QED
    BY <1>2, <1>7, <2>1
<1>9. 1000 * b = 1000 * a + z
  BY <1>1, <1>4, <1>7
<1>10. x <= z
  BY <1>6, <1>7
<1>11. ASSUME NEW q \in Thousandths, p <= q PROVE Mix(a, b, p) <= Mix(a, b, q)
  <2>1. d * p <= d * q
    <3>1. \A r, s \in Thousandths : r <= s => d * r <= d * s
      BY <1>3, ZenonT(30)
    <3> QED
      BY <1>11, <3>1, ZenonT(30)
  <2>2. PICK y \in Int : y = d * q /\ Mix(a, b, q) = 1000 * a + y
    <3>1. q \in Int
      OBVIOUS
    <3> QED
      BY <1>2, <3>1
  <2>3. x <= y
    BY <1>7, <2>1, <2>2
  <2> QED
    BY <1>8, <2>2, <2>3
<1> QED
  BY <1>8, <1>9, <1>10, <1>11

(* The bounds alone, as PercentileWithin needs them.                       *)
LEMMA MixWithin ==
  ASSUME NEW a \in Int, NEW b \in Int, a <= b, NEW w \in Thousandths
  PROVE  Mix(a, b, w) \in Int /\ 1000 * a <= Mix(a, b, w) /\ Mix(a, b, w) <= 1000 * b
  BY Between

\* Where a percentile falls: above the rank `LowRank`, by `RankWeight` thousandths.
LowRank(n, pct)  == (pct * (n - 1)) \div 1000 + 1
RankWeight(n, pct) == (pct * (n - 1)) % 1000
HighRank(n, pct) == IF LowRank(n, pct) + 1 > n THEN n ELSE LowRank(n, pct) + 1

(* A place is one of the list's, and they rise with the percentage.        *)
LEMMA RankPlaceIs ==
  ASSUME NEW n \in Nat \ {0}, NEW p \in Thousandths
  PROVE  /\ LowRank(n, p) \in 1..n /\ HighRank(n, p) \in 1..n
         /\ RankWeight(n, p) \in Thousandths /\ RankWeight(n, p) < 1000
         /\ LowRank(n, p) <= HighRank(n, p) /\ HighRank(n, p) <= LowRank(n, p) + 1
         /\ p * (n - 1) = 1000 * (LowRank(n, p) - 1) + RankWeight(n, p)
<1> DEFINE r == p * (n - 1)
           lo == r \div 1000
           wt == r % 1000
<1>1. PICK m \in Nat : n = m + 1
  <2>1. n - 1 \in Nat
    OBVIOUS
  <2> QED
    BY <2>1
<1>2. r = p * m
  BY <1>1
<1>3. r \in Nat /\ r <= 1000 * m
  <2>1. PICK t \in Nat : 1000 = p + t
    <3>1. 1000 - p \in Nat
      BY DEF Thousandths
    <3> QED
      BY <3>1 DEF Thousandths
  <2>2. p * m \in Nat /\ t * m \in Nat
    <3>1. \A x \in Nat : x * m \in Nat
      OBVIOUS
    <3>2. p \in Nat
      BY DEF Thousandths
    <3> QED
      BY <3>1, <3>2
  <2>3. (p + t) * m = p * m + t * m
    BY <2>1 DEF Thousandths
  <2> QED
    BY <1>2, <2>1, <2>2, <2>3
<1> HIDE DEF r
<1>4. lo \in Nat /\ wt \in 0..999 /\ r = 1000 * lo + wt
  BY <1>3
<1> HIDE DEF lo, wt
<1>5. lo <= m
  BY <1>3, <1>4
<1>6. LowRank(n, p) = lo + 1 /\ RankWeight(n, p) = wt
  BY DEF LowRank, RankWeight, lo, wt, r
<1>7. HighRank(n, p) = IF lo + 2 > n THEN n ELSE lo + 2
  <2>1. (lo + 1) + 1 = lo + 2
    BY <1>4
  <2> QED
    BY <1>6, <2>1 DEF HighRank
<1> QED
  BY <1>1, <1>4, <1>5, <1>6, <1>7 DEF r, Thousandths

(* The same without the arithmetic.                                        *)
LEMMA RankPlaces ==
  ASSUME NEW n \in Nat \ {0}, NEW p \in Thousandths
  PROVE  /\ LowRank(n, p) \in 1..n /\ HighRank(n, p) \in 1..n /\ RankWeight(n, p) \in Thousandths
         /\ LowRank(n, p) <= HighRank(n, p) /\ HighRank(n, p) <= LowRank(n, p) + 1
  BY RankPlaceIs

(* A larger percentage falls at a higher place, or at the same one with no *)
(* less weight.                                                            *)
LEMMA RankPlacesRise ==
  ASSUME NEW n \in Nat \ {0}, NEW p \in Thousandths, NEW q \in Thousandths, p <= q
  PROVE  \/ LowRank(n, p) = LowRank(n, q) /\ RankWeight(n, p) <= RankWeight(n, q)
         \/ LowRank(n, p) < LowRank(n, q)
<1>1. PICK m \in Nat : n = m + 1
  <2>1. n - 1 \in Nat
    OBVIOUS
  <2> QED
    BY <2>1
<1>2. PICK t \in Nat : q = p + t
  <2>1. q - p \in Nat
    BY DEF Thousandths
  <2> QED
    BY <2>1 DEF Thousandths
<1>3. p * m <= q * m
  <2>1. (p + t) * m = p * m + t * m
    BY <1>2 DEF Thousandths
  <2>2. p * m \in Int /\ t * m \in Nat
    <3>1. \A x \in Nat : x * m \in Nat
      OBVIOUS
    <3>2. p \in Nat
      BY DEF Thousandths
    <3> QED
      BY <3>1, <3>2
  <2> QED
    BY <1>2, <2>1, <2>2
<1>4. p * (n - 1) = p * m /\ q * (n - 1) = q * m
  BY <1>1
<1> DEFINE a == LowRank(n, p)
           b == LowRank(n, q)
           v == RankWeight(n, p)
           w == RankWeight(n, q)
<1>5. a \in Nat /\ b \in Nat /\ v \in Nat /\ w \in Nat /\ v < 1000 /\ w < 1000
  <2>1. /\ a \in 1..n /\ b \in 1..n /\ v \in Thousandths /\ w \in Thousandths
        /\ v < 1000 /\ w < 1000
    BY RankPlaceIs
  <2> HIDE DEF a, b, v, w
  <2> QED
    BY <2>1 DEF Thousandths
<1>6. p * m = 1000 * (a - 1) + v /\ q * m = 1000 * (b - 1) + w
  BY <1>4, RankPlaceIs
<1> HIDE DEF a, b, v, w
<1>7. 1000 * (a - 1) + v <= 1000 * (b - 1) + w
  BY <1>3, <1>6
<1>8. (a = b /\ v <= w) \/ a < b
  BY <1>5, <1>7
<1> QED
  BY <1>8 DEF a, b, v, w

(* percentile: a mix of the samples at its two ranks.                      *)
LEMMA PercentileIs ==
  ASSUME NEW n \in Nat \ {0}, NEW f \in [1..n -> Int], NEW p \in Thousandths
  PROVE  Percentile(f, p)
           = Mix(Ranked(f, LowRank(n, p)), Ranked(f, HighRank(n, p)), RankWeight(n, p))
<1> DEFINE lo == (p * (n - 1)) \div 1000
           at(i) == Ranked(f, IF i + 1 > Len(f) THEN Len(f) ELSE i + 1)
<1>1. Len(f) = n
  OBVIOUS
<1>2. Percentile(f, p) = Mix(at(lo), at(lo + 1), RankWeight(n, p))
  BY <1>1 DEF Percentile, RankWeight, Mix
<1>3. LowRank(n, p) = lo + 1
  BY DEF LowRank
<1>4. LowRank(n, p) \in 1..n
  BY RankPlaces
<1> HIDE DEF lo
<1>5. at(lo) = Ranked(f, LowRank(n, p))
  BY <1>1, <1>3, <1>4
<1>6. at(lo + 1) = Ranked(f, HighRank(n, p))
  BY <1>1, <1>3 DEF HighRank
<1> HIDE DEF at
<1> QED
  BY <1>2, <1>5, <1>6

(* It is no less than the first of them and no more than the second.       *)
LEMMA PercentileWithin ==
  ASSUME NEW n \in Nat \ {0}, NEW f \in [1..n -> Int], NEW p \in Thousandths
  PROVE  /\ Percentile(f, p) \in Int
         /\ 1000 * Ranked(f, LowRank(n, p)) <= Percentile(f, p)
         /\ Percentile(f, p) <= 1000 * Ranked(f, HighRank(n, p))
<1>1. PICK k \in 1..n, m \in 1..n, w \in Thousandths :
        k = LowRank(n, p) /\ m = HighRank(n, p) /\ w = RankWeight(n, p) /\ k <= m
  BY RankPlaces
<1>2. PICK a \in Int, b \in Int : a = Ranked(f, k) /\ b = Ranked(f, m) /\ a <= b
  BY <1>1, RankedIs, RanksRise
<1>3. Percentile(f, p) = Mix(a, b, w)
  BY <1>1, <1>2, PercentileIs
<1>4. Mix(a, b, w) \in Int /\ 1000 * a <= Mix(a, b, w) /\ Mix(a, b, w) <= 1000 * b
  <2>1. Mix(a, b, w) \in Int
    BY <1>2, MixWithin
  <2>2. 1000 * a <= Mix(a, b, w)
    BY <1>2, MixWithin
  <2>3. Mix(a, b, w) <= 1000 * b
    BY <1>2, MixWithin
  <2> QED
    BY <2>1, <2>2, <2>3
<1> QED
  BY <1>1, <1>2, <1>3, <1>4

(* A larger percentage has no smaller percentile.                          *)
LEMMA PercentilesRise ==
  ASSUME NEW n \in Nat \ {0}, NEW f \in [1..n -> Int],
         NEW p \in Thousandths, NEW q \in Thousandths, p <= q
  PROVE  Percentile(f, p) <= Percentile(f, q)
<1> DEFINE k == LowRank(n, p)
           m == HighRank(n, p)
           l == LowRank(n, q)
<1>1. k \in 1..n /\ m \in 1..n /\ l \in 1..n /\ k <= m /\ m <= k + 1
  BY RankPlaces
<1>2. CASE LowRank(n, p) = LowRank(n, q) /\ RankWeight(n, p) <= RankWeight(n, q)
  <2> DEFINE a == Ranked(f, k)
             b == Ranked(f, m)
             v == RankWeight(n, p)
             w == RankWeight(n, q)
  <2>1. HighRank(n, p) = HighRank(n, q)
    BY <1>2 DEF HighRank
  <2>2. Percentile(f, p) = Mix(a, b, v) /\ Percentile(f, q) = Mix(a, b, w)
    <3>1. Percentile(f, p) = Mix(a, b, v)
      BY PercentileIs
    <3>2. Percentile(f, q) = Mix(Ranked(f, l), Ranked(f, HighRank(n, q)), w)
      BY PercentileIs
    <3> QED
      BY <1>2, <2>1, <3>1, <3>2
  <2>3. v \in Thousandths /\ w \in Thousandths /\ v <= w
    BY <1>2, RankPlaces
  <2> HIDE DEF v, w, k, m
  <2>4. a \in Int /\ b \in Int /\ a <= b
    BY <1>1, RankedIs, RanksRise
  <2> HIDE DEF a, b
  <2> QED
    BY <2>2, <2>3, <2>4, Between
<1>3. CASE LowRank(n, p) < LowRank(n, q)
  <2>1. /\ Percentile(f, p) \in Int /\ Percentile(f, p) <= 1000 * Ranked(f, m)
        /\ Percentile(f, q) \in Int /\ 1000 * Ranked(f, l) <= Percentile(f, q)
    BY PercentileWithin
  <2>2. k < l
    BY <1>3
  <2> HIDE DEF k, m, l
  <2>3. m <= l
    BY <1>1, <2>2
  <2>4. Ranked(f, m) \in Int /\ Ranked(f, l) \in Int /\ Ranked(f, m) <= Ranked(f, l)
    BY <1>1, <2>3, RankedIs, RanksRise
  <2> QED
    BY <2>1, <2>4
<1> QED
  BY <1>2, <1>3, RankPlacesRise


(* No percentile is less than the least of the samples, or more than the   *)
(* greatest.                                                               *)
LEMMA PercentileInRange ==
  ASSUME NEW n \in Nat \ {0}, NEW f \in [1..n -> Int], NEW p \in Thousandths
  PROVE  /\ 1000 * Least(f) <= Percentile(f, p)
         /\ Percentile(f, p) <= 1000 * Greatest(f)
<1> DEFINE a == Ranked(f, LowRank(n, p))
           b == Ranked(f, HighRank(n, p))
<1>1. /\ Percentile(f, p) \in Int
      /\ 1000 * a <= Percentile(f, p) /\ Percentile(f, p) <= 1000 * b
  BY PercentileWithin
<1>2. a \in Int /\ b \in Int /\ (\E i \in 1..n : a = f[i]) /\ (\E i \in 1..n : b = f[i])
  <2>1. LowRank(n, p) \in 1..n /\ HighRank(n, p) \in 1..n
    BY RankPlaces
  <2> QED
    BY <2>1, RankedIs
<1> HIDE DEF a, b
<1>3. Least(f) \in Int /\ Least(f) <= a
  BY <1>2, LeastIs
<1>4. Greatest(f) \in Int /\ b <= Greatest(f)
  BY <1>2, GreatestIs
<1> QED
  BY <1>1, <1>2, <1>3, <1>4, SMTT(30)

(* Half of the samples are no more than the median, and half no less.      *)
LEMMA MedianHalves ==
  ASSUME NEW n \in Nat \ {0}, NEW f \in [1..n -> Int]
  PROVE  /\ 2 * Cardinality({i \in 1..n : 1000 * f[i] < Percentile(f, 500)}) <= n
         /\ 2 * Cardinality({i \in 1..n : 1000 * f[i] > Percentile(f, 500)}) <= n
<1> DEFINE k == LowRank(n, 500)
           m == HighRank(n, 500)
           w == RankWeight(n, 500)
           a == Ranked(f, k)
           b == Ranked(f, m)
           p == Percentile(f, 500)
           less == {i \in 1..n : 1000 * f[i] < p}
           more == {i \in 1..n : 1000 * f[i] > p}
<1>1. 500 \in Thousandths
  BY DEF Thousandths
<1>2. k \in 1..n /\ m \in 1..n /\ w \in Thousandths /\ k <= m
  BY <1>1, RankPlaces
<1>3. \/ w = 0 /\ 2 * k = n + 1
      \/ 2 * k = n /\ m = k + 1
  <2>1. w < 1000 /\ 500 * (n - 1) = 1000 * (k - 1) + w
    BY <1>1, RankPlaceIs
  <2>2. m = IF k + 1 > n THEN n ELSE k + 1
    BY DEF HighRank
  <2> HIDE DEF k, m, w
  <2> QED
    BY <1>2, <2>1, <2>2 DEF Thousandths
<1>4. p \in Int /\ 1000 * a <= p /\ p <= 1000 * b /\ p = Mix(a, b, w)
  BY <1>1, PercentileWithin, PercentileIs
<1> HIDE DEF k, m, w, p
<1>5. /\ a \in Int /\ Cardinality(Under(f, a)) < k /\ k <= Cardinality(UpTo(f, a))
      /\ b \in Int /\ Cardinality(Under(f, b)) < m
  BY <1>2, RankedIs
<1> HIDE DEF a, b
<1>6. w = 0 => p = 1000 * a
  BY <1>4, <1>5 DEF Mix
<1>7. IsFiniteSet(1..n) /\ Cardinality(1..n) = n
  BY FS_Interval
<1>8. /\ Cardinality(Under(f, a)) \in Nat /\ Cardinality(Under(f, b)) \in Nat
      /\ Cardinality(UpTo(f, a)) \in Nat
  BY <1>5, CountsAre
<1>9. 2 * Cardinality(less) <= n
  <2>1. ASSUME NEW c \in Int, p <= 1000 * c
        PROVE  Cardinality(less) \in Nat /\ Cardinality(less) <= Cardinality(Under(f, c))
    <3>1. less \in SUBSET Under(f, c)
      BY <1>4, <2>1 DEF Under
    <3>2. IsFiniteSet(Under(f, c))
      <4>1. Under(f, c) \in SUBSET (1..n)
        BY DEF Under
      <4> QED
        BY <1>7, <4>1, FS_Subset
    <3> HIDE DEF less
    <3> QED
      BY <3>1, <3>2, FS_Subset, FS_CardinalityType
  <2> HIDE DEF less
  <2>2. CASE w = 0 /\ 2 * k = n + 1
    <3>1. Cardinality(less) \in Nat /\ Cardinality(less) <= Cardinality(Under(f, a))
      BY <1>4, <1>5, <1>6, <2>1, <2>2
    <3> QED
      BY <1>2, <1>5, <1>8, <2>2, <3>1
  <2>3. CASE 2 * k = n /\ m = k + 1
    <3>1. Cardinality(less) \in Nat /\ Cardinality(less) <= Cardinality(Under(f, b))
      BY <1>4, <1>5, <2>1
    <3> QED
      BY <1>2, <1>5, <1>8, <2>3, <3>1
  <2> QED
    BY <1>3, <2>2, <2>3
<1>10. 2 * Cardinality(more) <= n
  <2> DEFINE over == (1..n) \ UpTo(f, a)
  <2>1. more \in SUBSET over
    BY <1>4, <1>5 DEF UpTo
  <2>2. IsFiniteSet(over) /\ Cardinality(over) = n - Cardinality(UpTo(f, a))
    <3>1. (1..n) \cap UpTo(f, a) = UpTo(f, a)
      BY DEF UpTo
    <3>2. \A T : /\ IsFiniteSet((1..n) \ T)
                 /\ Cardinality((1..n) \ T) = Cardinality(1..n) - Cardinality((1..n) \cap T)
      BY <1>7, FS_Difference, Zenon
    <3> QED
      BY <1>7, <3>1, <3>2
  <2> HIDE DEF more, over
  <2>3. Cardinality(more) \in Nat /\ Cardinality(more) <= Cardinality(over)
    BY <2>1, <2>2, FS_Subset, FS_CardinalityType
  <2>4. Cardinality(more) <= n - k
    BY <1>2, <1>5, <1>8, <2>2, <2>3
  <2>5. 2 * (n - k) <= n
    BY <1>2, <1>3
  <2> QED
    BY <1>2, <2>3, <2>4, <2>5
<1> QED
  BY <1>9, <1>10 DEF p

\* A list and one it is shifted from.
Shifted(f, g, n, c) == \A i \in 1..n : f[i] = g[i] + c

(* Delays that all shift by as much shift every percentile by it.          *)
LEMMA PercentilesShift ==
  ASSUME NEW n \in Nat \ {0}, NEW f \in [1..n -> Int], NEW g \in [1..n -> Int], NEW c \in Int,
         Shifted(f, g, n, c), NEW p \in Thousandths
  PROVE  Percentile(f, p) = Percentile(g, p) + 1000 * c
<1> DEFINE w == RankWeight(n, p)
           a == Ranked(g, LowRank(n, p))
           b == Ranked(g, HighRank(n, p))
<1>1. LowRank(n, p) \in 1..n /\ HighRank(n, p) \in 1..n /\ w \in Thousandths
  BY RankPlaces
<1>2. a \in Int /\ b \in Int
  BY <1>1, RankedIs
<1>3. Ranked(f, LowRank(n, p)) = a + c /\ Ranked(f, HighRank(n, p)) = b + c
  BY <1>1, RanksShift, ZenonT(30) DEF Shifted
<1>4. Percentile(f, p) = Mix(a + c, b + c, w) /\ Percentile(g, p) = Mix(a, b, w)
  BY <1>3, PercentileIs
<1> HIDE DEF w, a, b
<1>5. Mix(a + c, b + c, w) = Mix(a, b, w) + 1000 * c
  <2>1. w \in Int
    BY <1>1 DEF Thousandths
  <2>2. (a + c) * (1000 - w) = a * (1000 - w) + c * (1000 - w)
    BY <1>2, <2>1
  <2>3. (b + c) * w = b * w + c * w
    BY <1>2, <2>1
  <2>4. c * (1000 - w) + c * w = 1000 * c
    BY <2>1
  <2>5. /\ a * (1000 - w) \in Int /\ c * (1000 - w) \in Int
        /\ b * w \in Int /\ c * w \in Int
    BY <1>2, <2>1
  <2> QED
    BY <2>2, <2>3, <2>4, <2>5 DEF Mix
<1> QED
  BY <1>4, <1>5

(* Whatever is recorded, the percentiles of a report are in order between  *)
(* its extremes, its median has no more than half of the delays on either  *)
(* side, and the clocks' offset shifts the 99th percentile like any delay  *)
(* (percentile, distribution, build_audit_results).                        *)
THEOREM PercentilesAreSound == Spec => []DistributionIsSound
<1>1. ASSUME AuditIInv, phase = "done", depth # << >>
      PROVE  LET report == Report
                 d      == report.adjusted
                 delays == report.adjustedNs
                 n      == Len(depth)
             IN  /\ d.min <= d.p50 /\ d.p50 <= d.p90 /\ d.p90 <= d.p99 /\ d.p99 <= d.p99_9
                 /\ d.p99_9 <= d.max
                 /\ 2 * Cardinality({i \in 1..n : 1000 * delays[i] < d.p50}) <= n
                 /\ 2 * Cardinality({i \in 1..n : 1000 * delays[i] > d.p50}) <= n
                 /\ report.raw.p99 - d.p99 = 1000 * report.offset
  <2> DEFINE n      == Len(depth)
             offset == MeanOffset(samples)
             raw    == [i \in 1..n |-> depth[i].recv - depth[i].at]
             f      == [i \in 1..n |-> depth[i].recv - depth[i].at - offset]
  <2>1. n \in Nat \ {0} /\ DOMAIN depth = 1..n /\ \A i \in 1..n : depth[i] \in Update
    BY <1>1 DEF AuditIInv, AuditTypes
  <2>2. offset \in Int
    BY <1>1, OffsetWithin
  <2>3. Each(depth, LAMBDA e : e.recv - e.at) = raw
       /\ Each(depth, LAMBDA e : e.recv - e.at - offset) = f
    BY <2>1 DEF Each
  <2> HIDE DEF n, offset
  <2>4. raw \in [1..n -> Int] /\ f \in [1..n -> Int] /\ Shifted(raw, f, n, offset)
    <3>1. \A i \in 1..n : depth[i].recv \in Int /\ depth[i].at \in Int
      BY <2>1 DEF Update
    <3> QED
      BY <2>2, <3>1 DEF Shifted
  <2>5. Report = [offset |-> offset, raw |-> Distribution(raw), adjusted |-> Distribution(f),
                 adjustedNs |-> f]
    BY <2>3 DEF Report, Delays, offset
  <2> HIDE DEF raw, f
  <2>6. /\ Report.offset = offset /\ Report.adjustedNs = f
        /\ Report.raw.p99 = Percentile(raw, 990)
        /\ Report.adjusted.min = 1000 * Least(f) /\ Report.adjusted.max = 1000 * Greatest(f)
        /\ Report.adjusted.p50 = Percentile(f, 500) /\ Report.adjusted.p90 = Percentile(f, 900)
        /\ Report.adjusted.p99 = Percentile(f, 990) /\ Report.adjusted.p99_9 = Percentile(f, 999)
    BY <2>5 DEF Distribution
  <2> DEFINE p50   == 500
             p90   == 900
             p99   == 990
             p99_9 == 999
  <2>7. /\ p50 \in Thousandths /\ p90 \in Thousandths /\ p99 \in Thousandths /\ p99_9 \in Thousandths
        /\ p50 <= p90 /\ p90 <= p99 /\ p99 <= p99_9
    BY DEF Thousandths
  <2>8. /\ 2 * Cardinality({i \in 1..n : 1000 * f[i] < Percentile(f, p50)}) <= n
        /\ 2 * Cardinality({i \in 1..n : 1000 * f[i] > Percentile(f, p50)}) <= n
    BY <2>1, <2>4, MedianHalves
  <2> HIDE DEF p50, p90, p99, p99_9
  <2>9. 1000 * Least(f) <= Percentile(f, p50)
    BY <2>1, <2>4, <2>7, PercentileInRange
  <2>10. Percentile(f, p99_9) <= 1000 * Greatest(f)
    BY <2>1, <2>4, <2>7, PercentileInRange
  <2>11. /\ Percentile(f, p50) <= Percentile(f, p90) /\ Percentile(f, p90) <= Percentile(f, p99)
         /\ Percentile(f, p99) <= Percentile(f, p99_9)
    BY <2>1, <2>4, <2>7, PercentilesRise
  <2>12. Percentile(raw, p99) - Percentile(f, p99) = 1000 * offset
    <3>1. Percentile(raw, p99) = Percentile(f, p99) + 1000 * offset
      <4>1. n \in Nat \ {0} /\ p99 \in Thousandths
        BY <2>1, <2>7
      <4> QED
        BY <2>2, <2>4, <4>1, PercentilesShift
    <3>2. Percentile(f, p99) \in Int
      BY <2>1, <2>4, <2>7, PercentileWithin
    <3> QED
      BY <2>2, <3>1, <3>2
  <2> QED
    BY <2>6, <2>8, <2>9, <2>10, <2>11, <2>12 DEF n, p50, p90, p99, p99_9
<1>2. AuditIInv => DistributionIsSound
  BY <1>1 DEF DistributionIsSound
<1> QED
  BY <1>2, AuditInvariant, PTL

(* A report's numbers, together.                                           *)
THEOREM ReportsAreSound == Spec => []ReportIsSound
<1>1. AdjustedWithinRtt /\ DistributionIsSound => ReportIsSound
  BY DEF ReportIsSound
<1> QED
  BY <1>1, AdjustedIsTrue, PercentilesAreSound, PTL
=============================================================================
