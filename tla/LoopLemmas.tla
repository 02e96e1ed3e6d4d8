----------------------------- MODULE LoopLemmas -----------------------------
(***************************************************************************)
(* A loop over the members of a list, written as the table of its          *)
(* intermediate states: the table exists, and what every step preserves    *)
(* holds throughout.  A natural number that is least in its set takes the  *)
(* place of the induction.                                                 *)
(***************************************************************************)
EXTENDS Sums, TLAPS, WellFoundedInduction

(* Every set of naturals that is not empty has a smallest member.          *)
LEMMA SmallestNat ==
  ASSUME NEW T \in SUBSET Nat, T # {}
  PROVE  \E x \in T : \A y \in T : x <= y
<1> DEFINE R == {ss \in Nat \X Nat : ss[1] < ss[2]}
<1>1. IsWellFoundedOn(R, Nat)
  BY NatLessThanWellFounded DEF OpToRel
<1>2. \E x \in T : \A y \in T : ~(<<y, x>> \in R)
  <2> HIDE DEF R
  <2> QED
    BY <1>1, WFMin
<1>3. \A x, y \in T : y < x => <<y, x>> \in R
  OBVIOUS
<1>4. \A x, y \in T : ~(y < x) => x <= y
  OBVIOUS
<1> QED
  BY <1>2, <1>3, <1>4

(* Induction along 0..n, for the members of a set.                         *)
LEMMA CountUp ==
  ASSUME NEW n \in Nat, NEW Q, 0 \in Q, \A i \in 1..n : i - 1 \in Q => i \in Q
  PROVE  \A i \in 0..n : i \in Q
<1> SUFFICES ASSUME NEW k \in 0..n, k \notin Q PROVE FALSE
  OBVIOUS
<1> DEFINE Bad == {i \in 0..n : i \notin Q}
<1>1. Bad \in SUBSET Nat /\ Bad # {}
  OBVIOUS
<1>2. PICK x \in Bad : \A y \in Bad : x <= y
  <2> HIDE DEF Bad
  <2> QED
    BY <1>1, SmallestNat
<1>3. x # 0 /\ x \in 1..n /\ x - 1 \in 0..n
  OBVIOUS
<1>4. x - 1 \in Q
  BY <1>2, <1>3
<1> QED
  BY <1>3, <1>4

(* A loop over the first n members of something, one function per step:    *)
(* the table of its intermediate states exists, and is in S throughout     *)
(* when S holds at the start and every step stays in S.                    *)
LEMMA LoopStays ==
  ASSUME NEW n \in Nat, NEW S, NEW f, f[0] \in S,
         \A i \in 1..n : f[i - 1] \in S => f[i] \in S
  PROVE  \A i \in 0..n : f[i] \in S
<1> DEFINE Q == {i \in 0..n : f[i] \in S}
<1>1. 0 \in Q /\ \A i \in 1..n : i - 1 \in Q => i \in Q
  OBVIOUS
<1>2. \A i \in 0..n : i \in Q
  <2> HIDE DEF Q
  <2> QED
    BY <1>1, CountUp
<1> QED
  BY <1>2

LEMMA LoopExists ==
  ASSUME NEW n \in Nat, NEW S, NEW start \in S, NEW step \in [1..n -> [S -> S]]
  PROVE  \E f : f = [i \in 0..n |-> IF i = 0 THEN start ELSE step[i][f[i - 1]]]
<1> DEFINE Loop(f, m) == f = [i \in 0..m |-> IF i = 0 THEN start ELSE step[i][f[i - 1]]]
           Bad == {m \in 0..n : ~ \E f : Loop(f, m)}
<1>1. SUFFICES ASSUME Bad # {} PROVE FALSE
  BY <1>1
<1>2. Bad \in SUBSET Nat
  OBVIOUS
<1>3. PICK m \in Bad : \A y \in Bad : m <= y
  <2> HIDE DEF Bad
  <2> QED
    BY <1>1, <1>2, SmallestNat
<1>4. CASE m = 0
  <2>1. Loop([i \in 0..0 |-> start], 0)
    OBVIOUS
  <2> QED
    BY <1>4, <2>1
<1>5. CASE m # 0
  <2>1. m \in Nat /\ m - 1 \in 0..n
    BY <1>5
  <2>2. m - 1 \notin Bad
    <3> HIDE DEF Bad
    <3> QED
      BY <1>3, <2>1
  <2>3. PICK f : Loop(f, m - 1)
    BY <2>1, <2>2
  <2> DEFINE g == [i \in 0..m |-> IF i = m THEN step[m][f[m - 1]] ELSE f[i]]
  <2>4. ASSUME NEW i \in 0..m
        PROVE  g[i] = IF i = 0 THEN start ELSE step[i][g[i - 1]]
    <3>1. \A j \in 0..(m - 1) : f[j] = IF j = 0 THEN start ELSE step[j][f[j - 1]]
      BY <2>3
    <3>2. CASE i = m
      BY <1>5, <2>1, <3>2
    <3>3. CASE i # m
      BY <2>1, <3>1, <3>3
    <3> QED
      BY <3>2, <3>3
  <2>5. Loop(g, m)
    <3>1. g = [i \in 0..m |-> g[i]]
      OBVIOUS
    <3> HIDE DEF g
    <3> QED
      BY <2>4, <3>1
  <2> QED
    BY <2>5
<1> QED
  BY <1>4, <1>5

\* The same table by its entries.
LoopTable(f, n, S, start, step) ==
  /\ f = [i \in 0..n |-> f[i]] /\ f[0] = start
  /\ \A i \in 1..n : f[i] = step[i][f[i - 1]]
  /\ \A i \in 0..n : f[i] \in S

LEMMA LoopFound ==
  ASSUME NEW n \in Nat, NEW S, NEW start \in S, NEW step \in [1..n -> [S -> S]]
  PROVE  \E f : LoopTable(f, n, S, start, step)
<1>1. PICK f : f = [i \in 0..n |-> IF i = 0 THEN start ELSE step[i][f[i - 1]]]
  BY LoopExists
<1>2. f[0] = start /\ \A i \in 1..n : f[i] = step[i][f[i - 1]]
  BY <1>1
<1>3. \A i \in 1..n : f[i - 1] \in S => f[i] \in S
  BY <1>2
<1>4. \A i \in 0..n : f[i] \in S
  BY <1>2, <1>3, LoopStays
<1>5. f = [i \in 0..n |-> f[i]]
  BY <1>1
<1> QED
  BY <1>2, <1>4, <1>5 DEF LoopTable

(* The sum of a list, entry by entry.                                      *)
LEMMA SumLoop ==
  ASSUME NEW n \in Nat, NEW f \in [1..n -> Int]
  PROVE  /\ TotalTable(f) \in [0..n -> Int] /\ TotalTable(f)[0] = 0 /\ Total(f) = TotalTable(f)[n]
         /\ \A i \in 1..n : TotalTable(f)[i] = TotalTable(f)[i - 1] + f[i]
<1> DEFINE T == Int
           start == 0
           step == [i \in 1..n |-> [c \in Int |-> c + f[i]]]
           Is(t) == t = [i \in 0..n |-> IF i = 0 THEN 0 ELSE t[i - 1] + f[i]]
<1>1. Len(f) = n
  OBVIOUS
<1>2. /\ step \in [1..n -> [T -> T]] /\ start \in T
      /\ \A i \in 1..n, c \in T : step[i][c] = c + f[i]
  OBVIOUS
<1>3. TotalTable(f) = CHOOSE t : Is(t)
  BY <1>1 DEF TotalTable
<1> HIDE DEF step, start, T
<1>3a. PICK t : LoopTable(t, n, T, start, step)
  BY <1>2, LoopFound
<1>4. /\ t = [i \in 0..n |-> t[i]] /\ t[0] = start
      /\ \A i \in 1..n : t[i] = step[i][t[i - 1]]
      /\ \A i \in 0..n : t[i] \in T
  BY <1>3a DEF LoopTable
<1>5. Is(t)
  <2>1. ASSUME NEW i \in 0..n
        PROVE  t[i] = IF i = 0 THEN 0 ELSE t[i - 1] + f[i]
    <3>1. CASE i = 0
      BY <1>4, <3>1 DEF start
    <3>2. CASE i # 0
      <4>1. i \in 1..n /\ i - 1 \in 0..n
        BY <3>2
      <4>2. t[i] = step[i][t[i - 1]] /\ t[i - 1] \in T
        BY <1>4, <4>1
      <4>3. step[i][t[i - 1]] = t[i - 1] + f[i]
        BY <1>2, <4>1, <4>2
      <4> QED
        BY <3>2, <4>2, <4>3
    <3> QED
      BY <3>1, <3>2
  <2> QED
    BY <1>4, <2>1
<1>6. PICK g : g = TotalTable(f) /\ Is(g)
  <2> HIDE DEF Is
  <2> QED
    BY <1>3, <1>5
<1>7. g[0] = 0 /\ \A i \in 1..n : g[i] = g[i - 1] + f[i]
  <2>1. \A i \in 0..n : g[i] = IF i = 0 THEN 0 ELSE g[i - 1] + f[i]
    BY <1>6
  <2>2. \A i \in 1..n : i \in 0..n /\ i # 0
    OBVIOUS
  <2> HIDE DEF Is
  <2> QED
    BY <2>1, <2>2
<1>8. g[0] \in T /\ \A i \in 1..n : g[i - 1] \in T => g[i] \in T
  BY <1>7 DEF T
<1>9. \A i \in 0..n : g[i] \in T
  BY <1>8, LoopStays
<1>10. g \in [0..n -> Int]
  BY <1>6, <1>9 DEF T
<1>11. Total(f) = g[n]
  BY <1>1, <1>6 DEF Total
<1> QED
  BY <1>6, <1>7, <1>10, <1>11
-----------------------------------------------------------------------------
\* A sum over the places of a list is the sum over those that hold something.

\* f lies in g at the places p, in order, and g is 0 elsewhere.
Lies(f, g, p, N, L) ==
  /\ \A i \in 1..N : p[i] \in 1..L /\ g[p[i]] = f[i]
  /\ \A i, j \in 1..N : i < j => p[i] < p[j]
  /\ \A n \in 1..L : (\A i \in 1..N : p[i] # n) => g[n] = 0

\* The first c places are those up to n.
SplitAt(p, N, c, n) ==
  /\ \A i \in 1..N : i <= c => p[i] <= n
  /\ \A i \in 1..N : c < i => n < p[i]

LEMMA SumOfPlaces ==
  ASSUME NEW N \in Nat, NEW L \in Nat, NEW f \in [1..N -> Int], NEW g \in [1..L -> Int],
         NEW p, Lies(f, g, p, N, L)
  PROVE  Total(g) = Total(f)
<1> DEFINE F == TotalTable(f)
           G == TotalTable(g)
           Q == {n \in 0..L : \E c \in 0..N : SplitAt(p, N, c, n) /\ G[n] = F[c]}
<1>1. /\ F \in [0..N -> Int] /\ F[0] = 0 /\ Total(f) = F[N]
      /\ \A i \in 1..N : F[i] = F[i - 1] + f[i]
  BY SumLoop
<1>2. /\ G \in [0..L -> Int] /\ G[0] = 0 /\ Total(g) = G[L]
      /\ \A n \in 1..L : G[n] = G[n - 1] + g[n]
  BY SumLoop
<1>3. /\ \A i \in 1..N : p[i] \in 1..L /\ g[p[i]] = f[i]
      /\ \A i, j \in 1..N : i < j => p[i] < p[j]
      /\ \A n \in 1..L : (\A i \in 1..N : p[i] # n) => g[n] = 0
  BY DEF Lies
<1> HIDE DEF F, G
<1>4. 0 \in Q
  <2>1. SplitAt(p, N, 0, 0)
    BY <1>3 DEF SplitAt
  <2> QED
    BY <1>1, <1>2, <2>1
<1>5. ASSUME NEW n \in 1..L, n - 1 \in Q
      PROVE  n \in Q
  <2> SUFFICES \E c \in 0..N : SplitAt(p, N, c, n) /\ G[n] = F[c]
    OBVIOUS
  <2>1. PICK c \in 0..N : SplitAt(p, N, c, n - 1) /\ G[n - 1] = F[c]
    BY <1>5
  <2>2. /\ \A i \in 1..N : i <= c => p[i] <= n - 1
        /\ \A i \in 1..N : c < i => n - 1 < p[i]
    BY <2>1 DEF SplitAt
  <2>3. G[n] = F[c] + g[n] /\ F[c] \in Int
    BY <1>1, <1>2, <2>1
  <2>4. CASE c + 1 \in 1..N /\ p[c + 1] = n
    <3>1. g[n] = f[c + 1] /\ F[c + 1] = F[c] + f[c + 1]
      <4>1. (c + 1) - 1 = c
        OBVIOUS
      <4> QED
        BY <1>1, <1>3, <2>4, <4>1
    <3>2. \A i \in 1..N : i <= c + 1 => p[i] <= n
      <4> SUFFICES ASSUME NEW i \in 1..N, i <= c + 1 PROVE p[i] <= n
        OBVIOUS
      <4>1. i <= c \/ i = c + 1
        OBVIOUS
      <4> QED
        BY <1>3, <2>2, <2>4, <4>1, SMTT(30)
    <3>3. \A i \in 1..N : c + 1 < i => n < p[i]
      BY <1>3, <2>4
    <3>4. SplitAt(p, N, c + 1, n)
      BY <3>2, <3>3 DEF SplitAt
    <3>5. c + 1 \in 0..N /\ G[n] = F[c + 1]
      BY <2>3, <2>4, <3>1
    <3> QED
      BY <3>4, <3>5
  <2>5. CASE ~(c + 1 \in 1..N /\ p[c + 1] = n)
    <3>1. ASSUME NEW i \in 1..N, c < i PROVE n < p[i]
      <4>1. p[i] \in Nat /\ n <= p[i] /\ c + 1 \in 1..N
        BY <1>3, <2>2, <3>1
      <4>2. p[c + 1] \in Nat /\ n <= p[c + 1] /\ p[c + 1] # n
        BY <1>3, <2>2, <2>5, <4>1
      <4>3. CASE i = c + 1
        BY <4>2, <4>3
      <4>4. CASE c + 1 < i
        <5>1. p[c + 1] < p[i]
          BY <1>3, <4>1, <4>4
        <5> QED
          BY <4>1, <4>2, <5>1
      <4>5. c \in Int /\ i \in Int
        OBVIOUS
      <4> QED
        BY <3>1, <4>3, <4>4, <4>5
    <3>2. \A i \in 1..N : i <= c => p[i] < n
      BY <1>3, <2>2
    <3>3. \A i \in 1..N : p[i] # n
      <4> TAKE i \in 1..N
      <4>1. i <= c \/ c < i
        OBVIOUS
      <4>2. p[i] \in Int /\ n \in Int
        BY <1>3
      <4>3. p[i] < n \/ n < p[i]
        BY <3>1, <3>2, <4>1
      <4> QED
        BY <4>2, <4>3
    <3>4. g[n] = 0
      BY <1>3, <3>3
    <3>5. SplitAt(p, N, c, n)
      BY <1>3, <3>1, <3>2 DEF SplitAt
    <3> QED
      BY <2>3, <3>4, <3>5
  <2> QED
    BY <2>4, <2>5
<1> HIDE DEF Q
<1>6. L \in Q
  <2>1. \A n \in 0..L : n \in Q
    BY <1>4, <1>5, CountUp
  <2> QED
    BY <2>1
<1>7. PICK c \in 0..N : SplitAt(p, N, c, L) /\ G[L] = F[c]
  BY <1>6 DEF Q
<1>8. c = N
  <2> SUFFICES ASSUME c < N PROVE FALSE
    OBVIOUS
  <2>1. c + 1 \in 1..N
    OBVIOUS
  <2>2. L < p[c + 1]
    BY <1>7, <2>1 DEF SplitAt
  <2>3. p[c + 1] \in 1..L
    BY <1>3, <2>1
  <2> QED
    BY <2>2, <2>3
<1> QED
  BY <1>1, <1>2, <1>7, <1>8

(* A sum of numbers between two others lies between their multiples.       *)
LEMMA SumWithin ==
  ASSUME NEW n \in Nat, NEW f \in [1..n -> Int], NEW lo \in Int, NEW hi \in Int,
         \A i \in 1..n : lo <= f[i] /\ f[i] <= hi
  PROVE  Total(f) \in Int /\ n * lo <= Total(f) /\ Total(f) <= n * hi
<1> DEFINE F == TotalTable(f)
           Q == {i \in 0..n : i * lo <= F[i] /\ F[i] <= i * hi}
<1>1. /\ F \in [0..n -> Int] /\ F[0] = 0 /\ Total(f) = F[n]
      /\ \A i \in 1..n : F[i] = F[i - 1] + f[i]
  BY SumLoop
<1> HIDE DEF F
<1>2. 0 \in Q
  BY <1>1
<1>3. ASSUME NEW i \in 1..n, i - 1 \in Q PROVE i \in Q
  <2>1. i - 1 \in 0..n /\ (i - 1) * lo <= F[i - 1] /\ F[i - 1] <= (i - 1) * hi
    BY <1>3
  <2>2. F[i] = F[i - 1] + f[i] /\ F[i - 1] \in Int /\ f[i] \in Int /\ lo <= f[i] /\ f[i] <= hi
    BY <1>1, <2>1
  <2>3. i * lo = (i - 1) * lo + lo /\ i * hi = (i - 1) * hi + hi
    OBVIOUS
  <2>4. (i - 1) * lo \in Int /\ (i - 1) * hi \in Int
    OBVIOUS
  <2>5. i * lo <= F[i] /\ F[i] <= i * hi
    BY <2>1, <2>2, <2>3, <2>4
  <2> QED
    BY <2>5
<1> HIDE DEF Q
<1>4. \A i \in 0..n : i \in Q
  BY <1>2, <1>3, CountUp
<1>5. n \in Q
  BY <1>4
<1> QED
  BY <1>1, <1>5 DEF Q

(* A list of numbers has a greatest one.                                   *)
LEMMA ListHasGreatest ==
  ASSUME NEW n \in Nat \ {0}, NEW f \in [1..n -> Int]
  PROVE  \E j \in 1..n : \A i \in 1..n : f[i] <= f[j]
<1> DEFINE Q == {k \in 0..(n - 1) : \E j \in 1..(k + 1) : \A i \in 1..(k + 1) : f[i] <= f[j]}
<1>1. 0 \in Q
  OBVIOUS
<1>2. ASSUME NEW k \in 1..(n - 1), k - 1 \in Q PROVE k \in Q
  <2>1. PICK j \in 1..k : \A i \in 1..k : f[i] <= f[j]
    BY <1>2
  <2>2. /\ k + 1 \in 1..n /\ j \in 1..n /\ j \in 1..(k + 1) /\ k + 1 \in 1..(k + 1)
        /\ \A i \in 1..(k + 1) : i \in 1..n /\ (i \in 1..k \/ i = k + 1)
    OBVIOUS
  <2>3. CASE f[k + 1] <= f[j]
    <3>1. \A i \in 1..(k + 1) : f[i] <= f[j]
      BY <2>1, <2>2, <2>3
    <3> QED
      BY <2>2, <3>1
  <2>4. CASE ~(f[k + 1] <= f[j])
    <3>1. \A i \in 1..(k + 1) : f[i] <= f[k + 1]
      BY <2>1, <2>2, <2>4
    <3> QED
      BY <2>2, <3>1
  <2> QED
    BY <2>3, <2>4
<1> HIDE DEF Q
<1>3. \A k \in 0..(n - 1) : k \in Q
  <2>1. n - 1 \in Nat
    OBVIOUS
  <2> QED
    BY <1>1, <1>2, <2>1, CountUp
<1>4. n - 1 \in Q /\ (n - 1) + 1 = n
  BY <1>3
<1> QED
  BY <1>4 DEF Q

(* Lists that begin alike have the same sums so far.                       *)
LEMMA SumBegins ==
  ASSUME NEW m \in Nat, NEW n \in Nat, m <= n, NEW f \in [1..m -> Int], NEW g \in [1..n -> Int],
         \A i \in 1..m : g[i] = f[i]
  PROVE  TotalTable(g)[m] = Total(f)
<1> DEFINE F == TotalTable(f)
           G == TotalTable(g)
           Q == {i \in 0..m : G[i] = F[i]}
<1>1. /\ F \in [0..m -> Int] /\ F[0] = 0 /\ Total(f) = F[m]
      /\ \A i \in 1..m : F[i] = F[i - 1] + f[i]
  BY SumLoop
<1>2. /\ G \in [0..n -> Int] /\ G[0] = 0
      /\ \A i \in 1..n : G[i] = G[i - 1] + g[i]
  BY SumLoop
<1> HIDE DEF F, G
<1>3. 0 \in Q
  BY <1>1, <1>2
<1>4. ASSUME NEW i \in 1..m, i - 1 \in Q PROVE i \in Q
  <2>1. i \in 1..n /\ i \in 0..m
    OBVIOUS
  <2>2. G[i - 1] = F[i - 1]
    BY <1>4
  <2> QED
    BY <1>1, <1>2, <2>1, <2>2
<1> HIDE DEF Q
<1>5. \A i \in 0..m : i \in Q
  BY <1>3, <1>4, CountUp
<1>6. m \in Q
  BY <1>5
<1> QED
  BY <1>1, <1>6 DEF Q, G

(* One more number.                                                        *)
LEMMA SumOneMore ==
  ASSUME NEW n \in Nat, NEW f \in [1..n -> Int], NEW g \in [1..(n + 1) -> Int],
         \A i \in 1..n : g[i] = f[i]
  PROVE  Total(f) \in Int /\ Total(g) \in Int /\ Total(g) = Total(f) + g[n + 1]
<1>1. TotalTable(g)[n] = Total(f)
  BY SumBegins
<1>2. /\ TotalTable(g) \in [0..(n + 1) -> Int]
      /\ Total(g) = TotalTable(g)[n + 1]
      /\ TotalTable(g)[n + 1] = TotalTable(g)[n] + g[n + 1]
  <2> DEFINE k == n + 1
  <2>1. k \in Nat /\ k \in 1..k /\ k - 1 = n /\ g \in [1..k -> Int]
    OBVIOUS
  <2> HIDE DEF k
  <2>2. /\ TotalTable(g) \in [0..k -> Int] /\ Total(g) = TotalTable(g)[k]
        /\ TotalTable(g)[k] = TotalTable(g)[k - 1] + g[k]
    BY <2>1, SumLoop
  <2> QED
    BY <2>1, <2>2 DEF k
<1>3. TotalTable(g)[n] \in Int /\ TotalTable(g)[n + 1] \in Int
  BY <1>2
<1> QED
  BY <1>1, <1>2, <1>3

(* No numbers.                                                             *)
LEMMA SumOfNone ==
  ASSUME NEW n \in Nat, n = 0, NEW f \in [1..n -> Int]
  PROVE  Total(f) = 0
<1>1. TotalTable(f)[0] = 0 /\ Total(f) = TotalTable(f)[n]
  BY SumLoop
<1> QED
  BY <1>1

(* Zeros at the end add nothing.                                           *)
LEMMA SumPadded ==
  ASSUME NEW m \in Nat, NEW n \in Nat, m <= n, NEW f \in [1..m -> Int], NEW g \in [1..n -> Int],
         \A i \in 1..n : g[i] = IF i <= m THEN f[i] ELSE 0
  PROVE  Total(g) = Total(f)
<1> DEFINE G == TotalTable(g)
           Q == {i \in 0..(n - m) : G[m + i] = Total(f)}
<1>1. /\ G \in [0..n -> Int] /\ Total(g) = G[n]
      /\ \A i \in 1..n : G[i] = G[i - 1] + g[i]
  BY SumLoop
<1>2. G[m] = Total(f)
  BY SumBegins
<1> HIDE DEF G
<1>3. 0 \in Q /\ n - m \in Nat
  BY <1>2
<1>4. ASSUME NEW i \in 1..(n - m), i - 1 \in Q PROVE i \in Q
  <2>1. m + i \in 1..n /\ ~(m + i <= m) /\ (m + i) - 1 = m + (i - 1) /\ i \in 0..(n - m)
    OBVIOUS
  <2>2. G[m + (i - 1)] = Total(f)
    BY <1>4
  <2>3. G[m + i] = G[m + (i - 1)] + g[m + i] /\ g[m + i] = 0
    BY <1>1, <2>1
  <2>4. G[m + (i - 1)] \in Int
    BY <1>1, <2>1
  <2>5. G[m + i] = Total(f)
    BY <2>2, <2>3, <2>4
  <2> QED
    BY <2>1, <2>5
<1> HIDE DEF Q
<1>5. \A i \in 0..(n - m) : i \in Q
  BY <1>3, <1>4, CountUp
<1>6. n - m \in Q
  BY <1>3, <1>5
<1> QED
  BY <1>1, <1>6 DEF Q

(* The sum of two lists, place by place.                                   *)
LEMMA SumAdds ==
  ASSUME NEW n \in Nat, NEW f \in [1..n -> Int], NEW g \in [1..n -> Int], NEW h \in [1..n -> Int],
         \A i \in 1..n : h[i] = f[i] + g[i]
  PROVE  Total(h) = Total(f) + Total(g)
<1> DEFINE F == TotalTable(f)
           G == TotalTable(g)
           H == TotalTable(h)
           Q == {i \in 0..n : H[i] = F[i] + G[i]}
<1>1. /\ F \in [0..n -> Int] /\ F[0] = 0 /\ Total(f) = F[n]
      /\ \A i \in 1..n : F[i] = F[i - 1] + f[i]
  BY SumLoop
<1>2. /\ G \in [0..n -> Int] /\ G[0] = 0 /\ Total(g) = G[n]
      /\ \A i \in 1..n : G[i] = G[i - 1] + g[i]
  BY SumLoop
<1>3. /\ H \in [0..n -> Int] /\ H[0] = 0 /\ Total(h) = H[n]
      /\ \A i \in 1..n : H[i] = H[i - 1] + h[i]
  BY SumLoop
<1> HIDE DEF F, G, H
<1>4. 0 \in Q
  BY <1>1, <1>2, <1>3
<1>5. ASSUME NEW i \in 1..n, i - 1 \in Q PROVE i \in Q
  <2>1. i - 1 \in 0..n /\ i \in 0..n /\ H[i - 1] = F[i - 1] + G[i - 1]
    BY <1>5
  <2>2. F[i - 1] \in Int /\ G[i - 1] \in Int
    BY <1>1, <1>2, <2>1
  <2>3. H[i] = (F[i - 1] + G[i - 1]) + (f[i] + g[i])
    BY <1>3, <2>1
  <2>4. F[i] + G[i] = (F[i - 1] + f[i]) + (G[i - 1] + g[i])
    BY <1>1, <1>2
  <2> QED
    BY <2>1, <2>2, <2>3, <2>4
<1> HIDE DEF Q
<1>6. \A i \in 0..n : i \in Q
  BY <1>4, <1>5, CountUp
<1>7. n \in Q
  BY <1>6
<1> QED
  BY <1>1, <1>2, <1>3, <1>7 DEF Q
=============================================================================
