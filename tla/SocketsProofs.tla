---------------------------- MODULE SocketsProofs ----------------------------
(***************************************************************************)
(* What a session reads from its two sockets is whole, for any number of   *)
(* frames and any capacities.  A step of a task moves a frame from one     *)
(* queue into the next, which leaves OnTheWay of its stream as it is and   *)
(* puts an item of another stream, or a sentinel, into OnTheWay of the     *)
(* other one; the sentinels are counted to know that the last of them is   *)
(* behind everything.                                                      *)
(***************************************************************************)
EXTENDS Sockets, SequenceTheorems, FunctionTheorems, FiniteSetTheorems, TLAPS

Frames == [stream : Stream, n : Nat]
Of(s)  == [stream : {s}, n : Nat]
Item   == Frames \cup {End}

Ends(q) == {i \in DOMAIN q : q[i] = End}

\* An item that is not of stream s changes nothing for s, wherever it goes.
LEMMA WholeInsert ==
  ASSUME NEW A \in Seq(Item), NEW B \in Seq(Item), NEW x \in Item,
         NEW s \in Stream, NEW m \in Nat, x.stream # s
  PROVE  Whole(A \o <<x>> \o B, s, m) <=> Whole(A \o B, s, m)
<1> DEFINE q == A \o B
           r == A \o <<x>> \o B
           at == [i \in 1..(Len(A) + Len(B)) |-> IF i <= Len(A) THEN i ELSE i + 1]
<1>1. /\ Len(A) \in Nat /\ Len(B) \in Nat
      /\ DOMAIN q = 1..(Len(A) + Len(B))
      /\ DOMAIN r = 1..(Len(A) + Len(B) + 1)
      /\ r[Len(A) + 1] = x
  OBVIOUS
<1>2. \A i \in DOMAIN q : at[i] \in DOMAIN r /\ r[at[i]] = q[i]
  OBVIOUS
<1>3. \A j \in DOMAIN r : j # Len(A) + 1 => \E i \in DOMAIN q : at[i] = j
  <2> SUFFICES ASSUME NEW j \in DOMAIN r, j # Len(A) + 1 PROVE \E i \in DOMAIN q : at[i] = j
    OBVIOUS
  <2>1. CASE j <= Len(A)
    <3>1. j \in DOMAIN q /\ at[j] = j
      BY <2>1, <1>1
    <3> QED BY <3>1
  <2>2. CASE j > Len(A) + 1
    <3>1. j - 1 \in DOMAIN q /\ at[j - 1] = j
      BY <2>2, <1>1
    <3> QED BY <3>1
  <2> QED BY <2>1, <2>2, <1>1
<1>4. \A i, j \in DOMAIN q : i < j <=> at[i] < at[j]
  BY <1>1
<1>5. Frame(s, 0).stream = s /\ \A n \in Nat : Frame(s, n) # x
  BY DEF Frame
<1> HIDE DEF q, r, at
<1>6. \A j \in DOMAIN r : r[j].stream = s => \E i \in DOMAIN q : at[i] = j /\ r[j] = q[i]
  BY <1>1, <1>2, <1>3
<1>7. Whole(r, s, m) <=> Whole(q, s, m)
  <2>1. ASSUME Whole(q, s, m) PROVE Whole(r, s, m)
    <3>1. \A n \in 1..m : \E i \in DOMAIN r : r[i] = Frame(s, n)
      BY <2>1, <1>2 DEF Whole
    <3>2. \A i \in DOMAIN r : r[i].stream = s => r[i].n \in 1..m
      BY <2>1, <1>6 DEF Whole
    <3>3. \A i, j \in DOMAIN r : i < j /\ r[i].stream = s /\ r[j].stream = s => r[i].n < r[j].n
      <4> SUFFICES ASSUME NEW i \in DOMAIN r, NEW j \in DOMAIN r, i < j,
                          r[i].stream = s, r[j].stream = s
                   PROVE  r[i].n < r[j].n
        OBVIOUS
      <4>1. PICK k \in DOMAIN q : at[k] = i /\ r[i] = q[k]
        BY <1>6
      <4>2. PICK l \in DOMAIN q : at[l] = j /\ r[j] = q[l]
        BY <1>6
      <4> QED BY <2>1, <4>1, <4>2, <1>4 DEF Whole
    <3> QED BY <3>1, <3>2, <3>3 DEF Whole
  <2>2. ASSUME Whole(r, s, m) PROVE Whole(q, s, m)
    <3>1. \A n \in 1..m : \E i \in DOMAIN q : q[i] = Frame(s, n)
      <4> TAKE n \in 1..m
      <4>1. PICK j \in DOMAIN r : r[j] = Frame(s, n)
        BY <2>2 DEF Whole
      <4>2. j # Len(A) + 1
        BY <4>1, <1>1, <1>5
      <4> QED BY <4>1, <4>2, <1>2, <1>3
    <3>2. \A i \in DOMAIN q : q[i].stream = s => q[i].n \in 1..m
      BY <2>2, <1>2 DEF Whole
    <3>3. \A i, j \in DOMAIN q : i < j /\ q[i].stream = s /\ q[j].stream = s => q[i].n < q[j].n
      BY <2>2, <1>2, <1>4 DEF Whole
    <3> QED BY <3>1, <3>2, <3>3 DEF Whole
  <2> QED BY <2>1, <2>2
<1> QED BY <1>7 DEF q, r

\* The next frame of a stream, behind all the others, extends it.
LEMMA WholeAppend ==
  ASSUME NEW q \in Seq(Item), NEW s \in Stream, NEW m \in Nat, Whole(q, s, m)
  PROVE  Whole(Append(q, Frame(s, m + 1)), s, m + 1)
<1> DEFINE r == Append(q, Frame(s, m + 1))
<1>1. /\ Len(q) \in Nat /\ DOMAIN q = 1..Len(q) /\ DOMAIN r = 1..(Len(q) + 1)
      /\ r[Len(q) + 1] = Frame(s, m + 1)
      /\ \A i \in 1..Len(q) : r[i] = q[i]
  BY DEF Item, Frames, Frame, End
<1>2. Frame(s, m + 1).n = m + 1
  BY DEF Frame
<1> HIDE DEF r
<1>3. \A n \in 1..(m + 1) : \E i \in DOMAIN r : r[i] = Frame(s, n)
  <2> TAKE n \in 1..(m + 1)
  <2>1. CASE n = m + 1
    BY <2>1, <1>1
  <2>2. CASE n \in 1..m
    BY <2>2, <1>1 DEF Whole
  <2> QED BY <2>1, <2>2
<1>4. \A i \in DOMAIN r : r[i].stream = s => r[i].n \in 1..(m + 1)
  BY <1>1, <1>2 DEF Whole
<1>5. \A i, j \in DOMAIN r : i < j /\ r[i].stream = s /\ r[j].stream = s => r[i].n < r[j].n
  <2> SUFFICES ASSUME NEW i \in DOMAIN r, NEW j \in DOMAIN r, i < j,
                      r[i].stream = s, r[j].stream = s
               PROVE  r[i].n < r[j].n
    OBVIOUS
  <2>1. i \in DOMAIN q /\ r[i] = q[i] /\ r[i].n \in 1..m
    BY <1>1 DEF Whole
  <2>2. CASE j = Len(q) + 1
    BY <2>1, <2>2, <1>1, <1>2
  <2>3. CASE j \in DOMAIN q
    BY <2>1, <2>3, <1>1 DEF Whole
  <2> QED BY <2>2, <2>3, <1>1
<1> QED BY <1>3, <1>4, <1>5 DEF r, Whole
-----------------------------------------------------------------------------
Spent == {s \in Stream : pump[s] \in Over}

SocketsType ==
  /\ sent \in [Stream -> Nat] /\ wire \in [Stream -> Seq(Frames)]
  /\ \A s \in Stream : \A i \in DOMAIN wire[s] : wire[s][i].stream = s
  /\ sock \in [Stream -> {"open", "eof", "error"}]
  /\ pump \in [Stream -> Over \cup {"reading", "putting", "ending"}]
  /\ hand \in [Stream -> Seq(Frames)]
  /\ \A s \in Stream : \A i \in DOMAIN hand[s] : hand[s][i].stream = s
  /\ \A s \in Stream : Len(hand[s]) = (IF pump[s] = "putting" THEN 1 ELSE 0) \/ pump[s] = "cancelled"
  /\ merged \in Seq(Item) /\ Len(merged) <= MergedMax
  /\ finished \in 0..2
  /\ outer \in Over \cup {"getting", "putting", "ending"}
  /\ held \in Seq(Frames) /\ (outer = "putting" => Len(held) = 1)
  /\ raw \in Seq(Item) /\ Len(raw) <= RawMax
  /\ owner \in {"reading", "unwinding", "closed"}
  /\ taken \in Seq(Frames)

\* A session that reads has cancelled nothing.
NoneCancelled ==
  owner = "reading" =>
    /\ \A s \in Stream : pump[s] # "cancelled"
    /\ outer \in {"getting", "putting", "ending", "done"}

\* What a task holds it holds while it waits for room.
HandsHold ==
  owner = "reading" =>
    /\ \A s \in Stream : pump[s] # "putting" => hand[s] = << >>
    /\ outer # "putting" => held = << >>

\* A pump goes on until its socket has ended and is read out.
PumpsDrain ==
  owner = "reading" =>
    \A s \in Stream : pump[s] \in {"ending", "done", "raised"} => sock[s] # "open" /\ wire[s] = << >>

\* Every pump that is over has put one sentinel, taken or in the queue, and
\* behind the last one there is nothing.
SentinelsCounted ==
  owner = "reading" =>
    /\ finished + Cardinality(Ends(merged)) = Cardinality(Spent)
    /\ Spent = Stream /\ merged # << >> => merged[Len(merged)] = End

\* The pump into the raw queue ends on the last of them, and puts one of its own.
EndsOnLast ==
  /\ owner = "reading" =>
       /\ outer \in {"ending", "done"} <=> finished = 2
       /\ \A i \in DOMAIN raw : raw[i] = End => outer = "done" /\ i = Len(raw)
  /\ owner # "reading" => outer \notin {"getting", "putting"}

SocketsInv ==
  /\ SocketsType /\ NoneCancelled /\ HandsHold /\ PumpsDrain
  /\ SentinelsCounted /\ EndsOnLast /\ FramesInOrder

-----------------------------------------------------------------------------
LEMMA ConcatItems ==
  /\ \A A, B \in Seq(Item) : A \o B \in Seq(Item)
  /\ \A A \in Seq(Item) : A \o << >> = A
  /\ \A A, B, C \in Seq(Item) : (A \o B) \o C = A \o (B \o C)
  /\ \A A \in Seq(Item), x \in Item : Append(A, x) = A \o <<x>> /\ <<x>> \in Seq(Item)
BY ConcatProperties, ConcatEmptySeq, ConcatAssociative, AppendIsConcat

\* Reading a queue into another one leaves their concatenation alone.
LEMMA MoveHead ==
  ASSUME NEW A \in Seq(Item), NEW B \in Seq(Item), B # << >>
  PROVE  /\ Append(A, Head(B)) \o Tail(B) = A \o B
         /\ <<Head(B)>> \o Tail(B) = B
         /\ Head(B) \in Item /\ Tail(B) \in Seq(Item)
<1>1. /\ Len(A) \in Nat /\ Len(B) \in Nat /\ Len(B) >= 1
      /\ Head(B) \in Item /\ Tail(B) \in Seq(Item)
  OBVIOUS
<1>2. Append(A, Head(B)) \o Tail(B) = A \o B
  <2>1. /\ Append(A, Head(B)) \o Tail(B) \in Seq(Item) /\ A \o B \in Seq(Item)
        /\ Len(Append(A, Head(B)) \o Tail(B)) = Len(A \o B)
    BY <1>1
  <2>2. \A i \in 1..Len(A \o B) : (Append(A, Head(B)) \o Tail(B))[i] = (A \o B)[i]
    BY <1>1
  <2> QED BY <2>1, <2>2, SeqEqual
<1>3. <<Head(B)>> \o Tail(B) = B
  <2>1. /\ <<Head(B)>> \o Tail(B) \in Seq(Item)
        /\ Len(<<Head(B)>> \o Tail(B)) = Len(B)
    BY <1>1
  <2>2. \A i \in 1..Len(<<Head(B)>> \o Tail(B)) : (<<Head(B)>> \o Tail(B))[i] = B[i]
    BY <1>1
  <2> QED BY <2>1, <2>2, SeqEqual
<1> QED BY <1>1, <1>2, <1>3

\* A frame held in one hand.
LEMMA HeldFrame ==
  ASSUME NEW h \in Seq(Frames), Len(h) = 1
  PROVE  h[1] \in Frames /\ h[1] # End /\ h = <<h[1]>>
<1>1. 1 \in DOMAIN h /\ h[1] \in Frames
  OBVIOUS
<1>2. h[1] # End
  BY <1>1 DEF Frames, Stream, End
<1>3. h = <<h[1]>>
  BY <1>1, SeqEqual
<1> QED BY <1>1, <1>2, <1>3

LEMMA FrameItems ==
  /\ \A s \in Stream, n \in Nat : Frame(s, n) \in Frames
  /\ \A x \in Frames : x # End /\ x \in Item
  /\ \A x \in Item : x # End => x \in Frames
  /\ End \in Item /\ \A s \in Stream : End.stream # s
  /\ \A q \in Seq(Frames) : q \in Seq(Item) /\ \A i \in DOMAIN q : q[i] # End
<1>1. \A x \in Frames : x # End
  BY DEF Frames, End, Stream
<1>2. \A s \in Stream : End.stream # s
  BY DEF End, Stream
<1>3. \A q \in Seq(Frames) : q \in Seq(Item) /\ \A i \in DOMAIN q : q[i] \in Frames
  BY DEF Item
<1> QED BY <1>1, <1>2, <1>3 DEF Frames, Frame, Item

LEMMA EndsFinite ==
  ASSUME NEW q \in Seq(Item)
  PROVE  IsFiniteSet(Ends(q)) /\ Cardinality(Ends(q)) \in Nat
<1>1. IsFiniteSet(1..Len(q)) /\ Ends(q) \in SUBSET (1..Len(q))
  BY FS_Interval DEF Ends
<1> QED BY <1>1, FS_Subset, FS_CardinalityType

LEMMA EndsAppend ==
  ASSUME NEW q \in Seq(Item), NEW x \in Item
  PROVE  Cardinality(Ends(Append(q, x))) = Cardinality(Ends(q)) + (IF x = End THEN 1 ELSE 0)
<1>1. Ends(Append(q, x)) = Ends(q) \cup (IF x = End THEN {Len(q) + 1} ELSE {})
  BY DEF Ends
<1>2. Len(q) + 1 \notin Ends(q)
  BY DEF Ends
<1>3. CASE x = End
  <2>1. Ends(Append(q, x)) = Ends(q) \cup {Len(q) + 1}
    BY <1>1, <1>3
  <2> QED BY <2>1, <1>2, <1>3, EndsFinite, FS_AddElement
<1>4. CASE x # End
  BY <1>1, <1>4, EndsFinite
<1> QED BY <1>3, <1>4

LEMMA EndsTail ==
  ASSUME NEW q \in Seq(Item), q # << >>
  PROVE  Cardinality(Ends(q)) = Cardinality(Ends(Tail(q))) + (IF Head(q) = End THEN 1 ELSE 0)
<1> DEFINE later == Ends(q) \ {1}
           f == [i \in later |-> i - 1]
<1>1. Len(q) \in Nat /\ Len(q) >= 1 /\ Tail(q) \in Seq(Item) /\ Len(Tail(q)) = Len(q) - 1
  OBVIOUS
<1>2. \A i \in 1..Len(Tail(q)) : Tail(q)[i] = q[i + 1]
  BY <1>1
<1>3. f \in Bijection(later, Ends(Tail(q)))
  <2>1. \A i \in later : i \in 2..Len(q) /\ f[i] = i - 1 /\ f[i] \in Ends(Tail(q))
    BY <1>1, <1>2 DEF Ends
  <2>2. \A j \in Ends(Tail(q)) : j + 1 \in later /\ f[j + 1] = j
    BY <1>1, <1>2 DEF Ends
  <2>3. f \in [later -> Ends(Tail(q))]
    BY <2>1
  <2>4. \A a, b \in later : f[a] = f[b] => a = b
    BY <2>1
  <2> HIDE DEF f, later
  <2> QED BY <2>2, <2>3, <2>4, Fun_IsBij
<1>4. IsFiniteSet(Ends(q)) /\ IsFiniteSet(later)
  BY EndsFinite, FS_RemoveElement
<1>5. Cardinality(Ends(Tail(q))) = Cardinality(later)
  BY <1>3, <1>4, FS_Bijection DEF ExistsBijection
<1>6. 1 \in Ends(q) <=> Head(q) = End
  BY <1>1 DEF Ends
<1>7. Cardinality(later) = IF 1 \in Ends(q) THEN Cardinality(Ends(q)) - 1 ELSE Cardinality(Ends(q))
  BY <1>4, FS_RemoveElement
<1>8. Cardinality(Ends(q)) \in Nat
  BY EndsFinite
<1> QED BY <1>5, <1>6, <1>7, <1>8

LEMMA SpentCount ==
  /\ Cardinality(Stream) = 2
  /\ IsFiniteSet(Spent) /\ Cardinality(Spent) \in 0..2
  /\ Cardinality(Spent) = 2 => Spent = Stream
<1>1. IsFiniteSet(Stream) /\ Cardinality(Stream) = 2
  <2>1. Stream = {"depth"} \cup {"trade"} /\ "trade" \notin {"depth"}
    BY DEF Stream
  <2>2. IsFiniteSet({"depth"}) /\ Cardinality({"depth"}) = 1
    BY FS_Singleton
  <2>3. /\ IsFiniteSet({"depth"} \cup {"trade"})
        /\ Cardinality({"depth"} \cup {"trade"}) =
             IF "trade" \in {"depth"} THEN Cardinality({"depth"}) ELSE Cardinality({"depth"}) + 1
    BY <2>2, FS_AddElement
  <2> QED BY <2>1, <2>2, <2>3
<1>2. Spent \in SUBSET Stream
  BY DEF Spent
<1> QED BY <1>1, <1>2, FS_Subset, FS_CardinalityType

-----------------------------------------------------------------------------
Before   == taken \o raw \o held \o merged
After(s) == hand[s] \o wire[s]

LEMMA RegroupLast ==
  ASSUME NEW P, P \in Seq(Item), NEW h, h \in Seq(Item), NEW w, w \in Seq(Item)
  PROVE  /\ h \o w \in Seq(Item)
         /\ (P \o h) \o w = P \o (h \o w)
         /\ (P \o h) \o w \in Seq(Item)
<1>1. h \o w \in Seq(Item) /\ (P \o h) \o w = P \o (h \o w)
  BY ConcatItems
<1> QED BY <1>1, ConcatItems

\* What is on the way of s, in two parts, before a step and after it.
LEMMA TheWay ==
  ASSUME NEW s \in Stream
  PROVE  /\ SocketsType =>
              /\ taken \in Seq(Item) /\ raw \in Seq(Item) /\ held \in Seq(Item) /\ merged \in Seq(Item)
              /\ hand[s] \in Seq(Item) /\ wire[s] \in Seq(Item)
              /\ Before \in Seq(Item) /\ After(s) \in Seq(Item)
              /\ OnTheWay(s) = Before \o After(s) /\ OnTheWay(s) \in Seq(Item)
              /\ sent[s] \in Nat
         /\ SocketsType' =>
              /\ After(s)' \in Seq(Item)
              /\ OnTheWay(s)' = Before' \o After(s)'
<1>1. SocketsType => /\ taken \in Seq(Item) /\ raw \in Seq(Item) /\ held \in Seq(Item)
                     /\ merged \in Seq(Item) /\ hand[s] \in Seq(Item) /\ wire[s] \in Seq(Item)
                     /\ sent[s] \in Nat
  BY FrameItems DEF SocketsType
<1>2. SocketsType' => /\ taken' \in Seq(Item) /\ raw' \in Seq(Item) /\ held' \in Seq(Item)
                      /\ merged' \in Seq(Item) /\ hand'[s] \in Seq(Item) /\ wire'[s] \in Seq(Item)
  BY FrameItems DEF SocketsType
<1>3. OnTheWay(s) = (Before \o hand[s]) \o wire[s] /\ After(s) = hand[s] \o wire[s]
  BY DEF OnTheWay, Before, After
<1>4. OnTheWay(s)' = (Before' \o hand'[s]) \o wire'[s] /\ After(s)' = hand'[s] \o wire'[s]
  BY DEF OnTheWay, Before, After
<1>5. ASSUME SocketsType PROVE Before \in Seq(Item)
  <2>1. taken \o raw \in Seq(Item)
    BY <1>1, <1>5, ConcatItems
  <2>2. taken \o raw \o held \in Seq(Item)
    BY <1>1, <1>5, <2>1, ConcatItems
  <2> QED BY <1>1, <1>5, <2>2, ConcatItems DEF Before
<1>6. ASSUME SocketsType' PROVE Before' \in Seq(Item)
  <2>1. taken' \o raw' \in Seq(Item)
    BY <1>2, <1>6, ConcatItems
  <2>2. taken' \o raw' \o held' \in Seq(Item)
    BY <1>2, <1>6, <2>1, ConcatItems
  <2> QED BY <1>2, <1>6, <2>2, ConcatItems DEF Before
<1>7. ASSUME SocketsType PROVE /\ After(s) \in Seq(Item) /\ OnTheWay(s) = Before \o After(s)
                               /\ OnTheWay(s) \in Seq(Item)
  <2>1. Before \in Seq(Item) /\ hand[s] \in Seq(Item) /\ wire[s] \in Seq(Item)
    BY <1>1, <1>5, <1>7
  <2>2. /\ hand[s] \o wire[s] \in Seq(Item)
        /\ (Before \o hand[s]) \o wire[s] = Before \o (hand[s] \o wire[s])
        /\ (Before \o hand[s]) \o wire[s] \in Seq(Item)
    BY <2>1, RegroupLast
  <2> QED BY <2>2, <1>3
<1>8. ASSUME SocketsType' PROVE After(s)' \in Seq(Item) /\ OnTheWay(s)' = Before' \o After(s)'
  <2>1. Before' \in Seq(Item) /\ hand'[s] \in Seq(Item) /\ wire'[s] \in Seq(Item)
    BY <1>2, <1>6, <1>8
  <2> DEFINE b == Before'
             h == hand'[s]
             w == wire'[s]
  <2> HIDE DEF b, h, w
  <2>2. b \in Seq(Item) /\ h \in Seq(Item) /\ w \in Seq(Item)
    BY <2>1 DEF b, h, w
  <2>3. h \o w \in Seq(Item) /\ (b \o h) \o w = b \o (h \o w)
    BY <2>2, RegroupLast
  <2> QED BY <2>3, <1>4 DEF b, h, w
<1> QED BY <1>1, <1>5, <1>7, <1>8

\* An item put behind A goes between A and what follows it.
LEMMA AppendConcat ==
  ASSUME NEW A \in Seq(Item), NEW B \in Seq(Item), NEW x \in Item
  PROVE  /\ Append(A, x) \o B = (A \o <<x>>) \o B
         /\ Append(A, x) \o B = A \o (<<x>> \o B)
         /\ A \o Append(B, x) = Append(A \o B, x)
         /\ Append(A, x) \in Seq(Item)
<1>1. /\ Append(A, x) = A \o <<x>> /\ Append(B, x) = B \o <<x>> /\ <<x>> \in Seq(Item)
      /\ A \o B \in Seq(Item) /\ Append(A \o B, x) = (A \o B) \o <<x>>
  BY ConcatItems
<1>2. (A \o <<x>>) \o B = A \o (<<x>> \o B) /\ (A \o B) \o <<x>> = A \o (B \o <<x>>)
  BY <1>1, ConcatItems
<1> QED BY <1>1, <1>2

LEMMA AppendForeign ==
  ASSUME NEW A \in Seq(Item), NEW B \in Seq(Item), NEW x \in Item,
         NEW t \in Stream, NEW m \in Nat, x.stream # t
  PROVE  Whole(Append(A, x) \o B, t, m) <=> Whole(A \o B, t, m)
<1>1. Append(A, x) \o B = (A \o <<x>>) \o B
  BY AppendConcat
<1> QED BY <1>1, WholeInsert

\* The step when the merge's queue grows by x, which s held or read, or by End.
LEMMA MergedGrows ==
  ASSUME SocketsType, NEW x \in Item, merged' = Append(merged, x),
         UNCHANGED <<taken, raw, held>>
  PROVE  Before' = Append(Before, x)
<1>1. Before = (taken \o raw \o held) \o merged /\ Before' = (taken \o raw \o held) \o Append(merged, x)
  BY DEF Before
<1>2. taken \in Seq(Item) /\ raw \in Seq(Item) /\ held \in Seq(Item) /\ merged \in Seq(Item)
  BY FrameItems DEF SocketsType
<1>3. taken \o raw \o held \in Seq(Item)
  BY <1>2, ConcatItems
<1> QED BY <1>1, <1>2, <1>3, AppendConcat

LEMMA StepForeign ==
  ASSUME SocketsType, NEW t \in Stream, NEW x \in Item, x.stream # t,
         Whole(OnTheWay(t), t, sent[t]),
         merged' = Append(merged, x), UNCHANGED <<taken, raw, held, sent>>,
         hand'[t] = hand[t], wire'[t] = wire[t]
  PROVE  Whole(OnTheWay(t), t, sent[t])'
<1>1. OnTheWay(t)' = (taken' \o raw' \o held' \o merged' \o hand'[t]) \o wire'[t]
  BY DEF OnTheWay
<1>2. (taken' \o raw' \o held' \o merged' \o hand'[t]) = Append(Before, x) \o hand[t]
  BY MergedGrows DEF Before
<1>3. /\ Before \in Seq(Item) /\ hand[t] \in Seq(Item) /\ wire[t] \in Seq(Item)
      /\ OnTheWay(t) = Before \o After(t) /\ After(t) \in Seq(Item) /\ sent[t] \in Nat
  BY TheWay
<1>4. Append(Before, x) \in Seq(Item)
  BY <1>3, AppendConcat
<1>5. (Append(Before, x) \o hand[t]) \o wire[t] = Append(Before, x) \o (hand[t] \o wire[t])
  <2>1. hand[t] \in Seq(Item) /\ wire[t] \in Seq(Item)
    BY <1>3
  <2> QED BY <2>1, <1>4, ConcatItems, ZenonT(30)
<1>6. OnTheWay(t)' = Append(Before, x) \o After(t)
  BY <1>1, <1>2, <1>5 DEF After
<1>7. Whole(OnTheWay(t)', t, sent[t])
  BY <1>3, <1>6, AppendForeign
<1> QED BY <1>7 DEF Whole

\* The step when x only moves on: Before grows by the head of After.
LEMMA StepOwn ==
  ASSUME SocketsType, NEW s \in Stream, NEW x \in Item, SocketsType',
         merged' = Append(merged, x), UNCHANGED <<taken, raw, held>>,
         After(s) = <<x>> \o After(s)'
  PROVE  OnTheWay(s)' = OnTheWay(s)
<1>1. OnTheWay(s) = Before \o After(s) /\ Before \in Seq(Item)
  BY TheWay
<1>2. OnTheWay(s)' = Before' \o After(s)' /\ After(s)' \in Seq(Item)
  BY TheWay
<1>3. Before' = Append(Before, x)
  BY MergedGrows
<1>4. Append(Before, x) \o After(s)' = Before \o (<<x>> \o After(s)')
  BY <1>1, <1>2, AppendConcat
<1> QED BY <1>1, <1>2, <1>3, <1>4

LEMMA DeliversStep ==
  ASSUME SocketsInv, NEW s \in Stream, Delivers(s)
  PROVE  SocketsInv'
<1> DEFINE x == Frame(s, sent[s] + 1)
<1> USE DEF SocketsInv
<1>1. /\ sock[s] = "open" /\ sent' = [sent EXCEPT ![s] = @ + 1]
      /\ wire' = [wire EXCEPT ![s] = Append(@, x)]
      /\ UNCHANGED <<sock, pump, hand, merged, finished, outer, held, raw, owner, taken>>
  BY DEF Delivers, inner
<1>2. sent[s] \in Nat /\ x \in Frames /\ x \in Item /\ x.stream = s
  <2>1. sent[s] \in Nat
    BY TheWay
  <2> QED BY <2>1, FrameItems DEF Frame
<1>0. OnTheWay(s) = (Before \o hand[s]) \o wire[s]
  BY DEF OnTheWay, Before
<1>3. SocketsType'
  BY <1>1, <1>2, SMTT(30) DEF SocketsType
<1>4. NoneCancelled' /\ HandsHold' /\ PumpsDrain' /\ SentinelsCounted' /\ EndsOnLast'
  <2>1. Spent' = Spent /\ Ends(merged)' = Ends(merged)
    BY <1>1 DEF Spent, Ends
  <2> QED BY <2>1, <1>1 DEF NoneCancelled, HandsHold, PumpsDrain, SentinelsCounted, EndsOnLast, SocketsType
<1>5. FramesInOrder'
  <2> SUFFICES ASSUME owner = "reading", NEW t \in Stream PROVE Whole(OnTheWay(t), t, sent[t])'
    BY <1>1 DEF FramesInOrder
  <2>1. Whole(OnTheWay(t), t, sent[t])
    BY DEF FramesInOrder
  <2>2. CASE t = s
    <3>1. OnTheWay(s)' = (Before \o hand[s]) \o Append(wire[s], x)
      <4>1. OnTheWay(s)' = Before \o hand[s] \o wire'[s]
        BY <1>1 DEF OnTheWay, Before
      <4>2. wire'[s] = Append(wire[s], x)
        BY <1>1 DEF SocketsType
      <4> QED BY <4>1, <4>2
    <3>2. Append(wire[s], x) = wire[s] \o <<x>>
      BY <1>2, TheWay, AppendIsConcat
    <3>3. OnTheWay(s)' = Append(OnTheWay(s), x)
      <4>1. Before \o hand[s] \in Seq(Item) /\ wire[s] \in Seq(Item) /\ <<x>> \in Seq(Item)
        BY <1>2, TheWay, ConcatItems
      <4>2. ((Before \o hand[s]) \o wire[s]) \o <<x>> = (Before \o hand[s]) \o (wire[s] \o <<x>>)
        BY <4>1, ConcatItems, Zenon
      <4>3. OnTheWay(s) \o <<x>> = Append(OnTheWay(s), x)
        BY TheWay, <1>2, AppendIsConcat
      <4> QED BY <4>2, <4>3, <3>1, <3>2, <1>0
    <3>4. sent'[s] = sent[s] + 1 /\ OnTheWay(s) \in Seq(Item)
      BY <1>1, TheWay DEF SocketsType
    <3>5. Whole(OnTheWay(s)', s, sent[s] + 1)
      BY <2>1, <2>2, <3>3, <3>4, <1>2, WholeAppend
    <3> QED BY <3>4, <3>5, <2>2 DEF Whole
  <2>3. CASE t # s
    <3>1. OnTheWay(t)' = OnTheWay(t) /\ sent'[t] = sent[t]
      BY <2>3, <1>1 DEF OnTheWay, SocketsType
    <3> QED BY <3>1, <2>1 DEF Whole
  <2> QED BY <2>2, <2>3
<1> QED BY <1>3, <1>4, <1>5

LEMMA SocketEndsStep ==
  ASSUME SocketsInv, NEW s \in Stream, SocketEnds(s)
  PROVE  SocketsInv'
<1> USE DEF SocketsInv
<1>1. PICK how \in {"eof", "error"} : sock' = [sock EXCEPT ![s] = how]
  BY DEF SocketEnds
<1>2. /\ sock[s] = "open"
      /\ UNCHANGED <<sent, wire, pump, hand, merged, finished, outer, held, raw, owner, taken>>
  BY DEF SocketEnds, inner
<1>3. SocketsType'
  BY <1>1, <1>2 DEF SocketsType
<1>4. Spent' = Spent /\ Ends(merged)' = Ends(merged)
  BY <1>2 DEF Spent, Ends
<1>5. NoneCancelled' /\ HandsHold' /\ PumpsDrain' /\ SentinelsCounted' /\ EndsOnLast'
  BY <1>1, <1>2, <1>4 DEF NoneCancelled, HandsHold, PumpsDrain, SentinelsCounted, EndsOnLast, SocketsType
<1>6. \A t \in Stream : OnTheWay(t)' = OnTheWay(t)
  BY <1>2 DEF OnTheWay
<1>7. FramesInOrder'
  BY <1>2, <1>6 DEF FramesInOrder, Whole
<1> QED BY <1>3, <1>5, <1>7

LEMMA PumpReadsStep ==
  ASSUME SocketsInv, NEW s \in Stream, PumpReads(s)
  PROVE  SocketsInv'
<1> DEFINE x == Head(wire[s])
<1> USE DEF SocketsInv
<1>1. /\ pump[s] = "reading" /\ wire[s] # << >>
      /\ wire' = [wire EXCEPT ![s] = Tail(@)]
      /\ UNCHANGED <<sent, sock, finished, outer, held, raw, owner, taken>>
  BY DEF PumpReads
<1>2. wire[s] \in Seq(Frames) /\ x \in Frames /\ x \in Item /\ x # End /\ x.stream = s
  <2>1. wire[s] \in Seq(Frames) /\ Len(wire[s]) >= 1 /\ x = wire[s][1] /\ 1 \in DOMAIN wire[s]
    BY <1>1 DEF SocketsType
  <2> QED BY <2>1, FrameItems DEF SocketsType
<1>3. /\ Tail(wire[s]) \in Seq(Frames)
      /\ \A i \in DOMAIN Tail(wire[s]) : Tail(wire[s])[i].stream = s
  <2>1. Tail(wire[s]) \in Seq(Frames) /\ \A i \in DOMAIN Tail(wire[s]) : i + 1 \in DOMAIN wire[s] /\ Tail(wire[s])[i] = wire[s][i + 1]
    BY <1>1, <1>2
  <2> QED BY <2>1 DEF SocketsType
<1>4. wire'[s] = Tail(wire[s]) /\ \A t \in Stream \ {s} : wire'[t] = wire[t]
  BY <1>1 DEF SocketsType
<1>5. /\ merged \in Seq(Item) /\ Len(merged) \in Nat
      /\ owner = "reading" => hand[s] = << >>
      /\ s \notin Spent
  BY <1>1 DEF SocketsType, HandsHold, Spent, Over
<1>6. CASE Room
  <2>1. merged' = Append(merged, x) /\ UNCHANGED <<pump, hand>>
    BY <1>6 DEF PumpReads
  <2>2. Append(merged, x) \in Seq(Item) /\ Len(Append(merged, x)) = Len(merged) + 1
    BY <1>2, <1>5
  <2>3. Len(merged) + 1 <= MergedMax
    BY <1>6, <1>5, SocketsAssumption DEF Room
  <2>4. SocketsType'
    BY <1>1, <1>3, <1>4, <2>1, <2>2, <2>3 DEF SocketsType
  <2>5. Cardinality(Ends(merged')) = Cardinality(Ends(merged)) /\ Spent' = Spent
    <3>1. Cardinality(Ends(merged')) = Cardinality(Ends(merged)) + 0
      BY <2>1, <1>2, <1>5, EndsAppend
    <3>2. Spent' = Spent
      BY <2>1 DEF Spent
    <3>3. Cardinality(Ends(merged)) \in Nat
      BY <1>5, EndsFinite
    <3> QED BY <3>1, <3>2, <3>3
  <2>6. NoneCancelled' /\ HandsHold' /\ PumpsDrain' /\ SentinelsCounted' /\ EndsOnLast'
    BY <1>1, <1>4, <1>5, <2>1, <2>5 DEF NoneCancelled, HandsHold, PumpsDrain, SentinelsCounted, EndsOnLast
  <2>7. FramesInOrder'
    <3> SUFFICES ASSUME owner = "reading", NEW t \in Stream PROVE Whole(OnTheWay(t), t, sent[t])'
      BY <1>1 DEF FramesInOrder
    <3>1. Whole(OnTheWay(t), t, sent[t])
      BY DEF FramesInOrder
    <3>2. CASE t = s
      <4>1. After(s) = <<x>> \o After(s)'
        <5>1. hand[s] = << >> /\ hand'[s] = << >> /\ wire[s] \in Seq(Item) /\ Tail(wire[s]) \in Seq(Item)
          BY <1>5, <2>1, <1>2, <1>3, FrameItems
        <5>2. After(s) = wire[s] /\ After(s)' = Tail(wire[s])
          BY <5>1, <1>4, ConcatEmptySeq DEF After
        <5> QED BY <5>1, <5>2, <1>1, MoveHead
      <4>2. OnTheWay(s)' = OnTheWay(s)
        BY <4>1, <2>1, <2>4, <1>1, <1>2, StepOwn
      <4> QED BY <3>1, <3>2, <4>2, <1>1 DEF Whole
    <3>3. CASE t # s
      BY <3>1, <3>3, <1>1, <1>2, <1>4, <2>1, StepForeign
    <3> QED BY <3>2, <3>3
  <2> QED BY <2>4, <2>6, <2>7
<1>7. CASE ~Room
  <2>1. /\ pump' = [pump EXCEPT ![s] = "putting"] /\ hand' = [hand EXCEPT ![s] = <<x>>]
        /\ merged' = merged
    BY <1>7 DEF PumpReads
  <2>2. <<x>> \in Seq(Frames) /\ Len(<<x>>) = 1 /\ \A i \in DOMAIN <<x>> : <<x>>[i].stream = s
    BY <1>2
  <2>3. SocketsType'
    BY <1>1, <1>3, <1>4, <2>1, <2>2 DEF SocketsType
  <2>4. Ends(merged)' = Ends(merged) /\ Spent' = Spent
    BY <2>1, <1>1 DEF Spent, Over, SocketsType, Ends
  <2>5. NoneCancelled' /\ HandsHold' /\ PumpsDrain' /\ SentinelsCounted' /\ EndsOnLast'
    BY <1>1, <1>4, <1>5, <2>1, <2>4 DEF NoneCancelled, HandsHold, PumpsDrain, SentinelsCounted, EndsOnLast, SocketsType
  <2>6. FramesInOrder'
    <3> SUFFICES ASSUME owner = "reading", NEW t \in Stream PROVE Whole(OnTheWay(t), t, sent[t])'
      BY <1>1 DEF FramesInOrder
    <3>1. Whole(OnTheWay(t), t, sent[t])
      BY DEF FramesInOrder
    <3>2. Before' = Before
      BY <1>1, <2>1 DEF Before
    <3>3. After(t)' = After(t)
      <4>1. CASE t = s
        <5>1. hand[s] = << >> /\ wire[s] \in Seq(Item) /\ hand'[s] = <<x>>
          BY <1>5, <2>1, <1>2, FrameItems DEF SocketsType
        <5>2. After(s) = wire[s] /\ After(s)' = <<x>> \o Tail(wire[s])
          BY <5>1, <1>4, ConcatEmptySeq DEF After
        <5> QED BY <4>1, <5>1, <5>2, <1>1, MoveHead
      <4>2. CASE t # s
        BY <4>2, <1>4, <2>1 DEF After, SocketsType
      <4> QED BY <4>1, <4>2
    <3>4. OnTheWay(t)' = OnTheWay(t)
      BY <2>3, <3>2, <3>3, TheWay
    <3> QED BY <3>1, <3>4, <1>1 DEF Whole
  <2> QED BY <2>3, <2>5, <2>6
<1> QED BY <1>6, <1>7

LEMMA PumpPutsStep ==
  ASSUME SocketsInv, NEW s \in Stream, PumpPuts(s)
  PROVE  SocketsInv'
<1> DEFINE x == hand[s][1]
<1> USE DEF SocketsInv
<1>1. /\ pump[s] = "putting" /\ Room
      /\ merged' = merged \o hand[s] /\ hand' = [hand EXCEPT ![s] = << >>]
      /\ pump' = [pump EXCEPT ![s] = "reading"]
      /\ UNCHANGED <<sent, wire, sock, finished, outer, held, raw, owner, taken>>
  BY DEF PumpPuts, sockets
<1>2. hand[s] = <<x>> /\ x \in Frames /\ x \in Item /\ x # End /\ x.stream = s
  <2>1. hand[s] \in Seq(Frames) /\ Len(hand[s]) = 1 /\ 1 \in DOMAIN hand[s]
    BY <1>1 DEF SocketsType
  <2>2. x.stream = s
    BY <2>1 DEF SocketsType
  <2> QED BY <2>1, <2>2, HeldFrame, FrameItems
<1> HIDE DEF x
<1>3. merged' = Append(merged, x) /\ merged \in Seq(Item) /\ Len(merged) \in Nat
  <2>1. merged \in Seq(Item)
    BY DEF SocketsType
  <2>2. Append(merged, x) = merged \o <<x>>
    BY <2>1, <1>2, AppendIsConcat
  <2> QED BY <2>1, <2>2, <1>1, <1>2
<1>4. Append(merged, x) \in Seq(Item) /\ Len(Append(merged, x)) <= MergedMax
  BY <1>1, <1>2, <1>3, SocketsAssumption DEF Room
<1>5. /\ hand'[s] = << >> /\ pump'[s] = "reading" /\ s \notin Spent
      /\ \A t \in Stream \ {s} : hand'[t] = hand[t] /\ pump'[t] = pump[t]
  BY <1>1 DEF SocketsType, Spent, Over
<1>6. SocketsType'
  <2>1. hand' \in [Stream -> Seq(Frames)] /\ pump' \in [Stream -> Over \cup {"reading", "putting", "ending"}]
    BY <1>1 DEF SocketsType
  <2>2. ASSUME NEW t \in Stream
        PROVE  /\ Len(hand'[t]) = (IF pump'[t] = "putting" THEN 1 ELSE 0) \/ pump'[t] = "cancelled"
               /\ \A i \in DOMAIN hand'[t] : hand'[t][i].stream = t
    <3>1. CASE t = s
      <4>1. Len(<< >>) = 0 /\ DOMAIN << >> = {}
        OBVIOUS
      <4> QED BY <3>1, <4>1, <1>5
    <3>2. CASE t # s
      <4>1. hand'[t] = hand[t] /\ pump'[t] = pump[t]
        BY <3>2, <1>5
      <4>2. /\ Len(hand[t]) = (IF pump[t] = "putting" THEN 1 ELSE 0) \/ pump[t] = "cancelled"
            /\ \A i \in DOMAIN hand[t] : hand[t][i].stream = t
        BY DEF SocketsType
      <4> QED BY <4>1, <4>2
    <3> QED BY <3>1, <3>2
  <2>4. merged' \in Seq(Item) /\ Len(merged') <= MergedMax
    BY <1>3, <1>4
  <2> QED BY <2>1, <2>2, <2>4, <1>1 DEF SocketsType
<1>7. Cardinality(Ends(merged')) = Cardinality(Ends(merged)) /\ Spent' = Spent
  <2>1. Cardinality(Ends(merged')) = Cardinality(Ends(merged)) + 0
    BY <1>2, <1>3, EndsAppend
  <2>2. Spent' = Spent
    BY <1>5 DEF Spent, Over
  <2>3. Cardinality(Ends(merged)) \in Nat
    BY <1>3, EndsFinite
  <2> QED BY <2>1, <2>2, <2>3
<1>8. NoneCancelled' /\ HandsHold' /\ PumpsDrain' /\ SentinelsCounted' /\ EndsOnLast'
  BY <1>1, <1>5, <1>7 DEF NoneCancelled, HandsHold, PumpsDrain, SentinelsCounted, EndsOnLast
<1>9. FramesInOrder'
  <2> SUFFICES ASSUME owner = "reading", NEW t \in Stream PROVE Whole(OnTheWay(t), t, sent[t])'
    BY <1>1 DEF FramesInOrder
  <2>1. Whole(OnTheWay(t), t, sent[t])
    BY DEF FramesInOrder
  <2>2. CASE t = s
    <3>1. wire[s] \in Seq(Item) /\ wire'[s] = wire[s]
      BY <1>1, FrameItems DEF SocketsType
    <3>2. After(s) = <<x>> \o After(s)'
      BY <1>2, <1>5, <3>1, ConcatEmptySeq DEF After
    <3>3. OnTheWay(s)' = OnTheWay(s)
      BY <3>2, <1>1, <1>2, <1>3, <1>6, StepOwn
    <3> QED BY <2>1, <2>2, <3>3, <1>1 DEF Whole
  <2>3. CASE t # s
    <3>1. x.stream # t /\ hand'[t] = hand[t] /\ wire'[t] = wire[t]
      BY <2>3, <1>1, <1>2, <1>5
    <3> QED BY <2>1, <3>1, <1>1, <1>2, <1>3, StepForeign
  <2> QED BY <2>2, <2>3
<1> QED BY <1>6, <1>8, <1>9

LEMMA PumpEndsStep ==
  ASSUME SocketsInv, NEW s \in Stream, PumpEnds(s)
  PROVE  SocketsInv'
<1> USE DEF SocketsInv
<1>1. /\ pump[s] \in {"reading", "ending"} /\ s \notin Spent
      /\ UNCHANGED <<sent, wire, sock, hand, finished, outer, held, raw, owner, taken>>
  BY DEF PumpEnds, sockets, Spent, Over
<1>2. owner = "reading" => wire[s] = << >> /\ sock[s] # "open"
  BY DEF PumpEnds, PumpsDrain
<1>3. merged \in Seq(Item) /\ Len(merged) \in Nat /\ End \in Item /\ Cardinality(Ends(merged)) \in Nat
  BY FrameItems, EndsFinite DEF SocketsType
<1>4. CASE Room
  <2>1. merged' = Append(merged, End) /\ pump' = [pump EXCEPT ![s] = Ended(s)] /\ Ended(s) \in {"done", "raised"}
    BY <1>4 DEF PumpEnds, Ended
  <2>2. /\ Append(merged, End) \in Seq(Item) /\ Len(Append(merged, End)) = Len(merged) + 1
        /\ Append(merged, End)[Len(merged) + 1] = End
    BY <1>3
  <2>3. Len(merged) + 1 <= MergedMax
    BY <1>4, <1>3, SocketsAssumption DEF Room
  <2>4. SocketsType'
    <3>1. pump' \in [Stream -> Over \cup {"reading", "putting", "ending"}]
      BY <2>1 DEF SocketsType, Over
    <3>2. ASSUME NEW t \in Stream
          PROVE  Len(hand[t]) = (IF pump'[t] = "putting" THEN 1 ELSE 0) \/ pump'[t] = "cancelled"
      BY <2>1, <1>1 DEF SocketsType
    <3> QED BY <1>1, <2>1, <2>2, <2>3, <3>1, <3>2 DEF SocketsType
  <2>5. Cardinality(Ends(merged')) = Cardinality(Ends(merged)) + 1
    BY <2>1, <1>3, EndsAppend
  <2>6. Cardinality(Spent') = Cardinality(Spent) + 1
    <3>1. Spent' = Spent \cup {s}
      BY <2>1, <1>1 DEF Spent, SocketsType, Over
    <3>2. IsFiniteSet(Spent)
      BY SpentCount
    <3> QED BY <3>1, <3>2, <1>1, FS_AddElement
  <2>7. SentinelsCounted'
    <3>1. Cardinality(Spent) \in 0..2 /\ finished \in 0..2
      BY SpentCount DEF SocketsType
    <3>2. owner = "reading" => finished + Cardinality(Ends(merged)) = Cardinality(Spent)
      BY DEF SentinelsCounted
    <3>3. owner = "reading" => finished + Cardinality(Ends(merged')) = Cardinality(Spent')
      BY <3>1, <3>2, <2>5, <2>6, <1>3
    <3>4. merged'[Len(merged')] = End
      BY <2>1, <2>2
    <3> QED BY <3>3, <3>4, <1>1 DEF SentinelsCounted
  <2>8. NoneCancelled' /\ HandsHold' /\ PumpsDrain' /\ EndsOnLast'
    BY <1>1, <1>2, <2>1 DEF NoneCancelled, HandsHold, PumpsDrain, EndsOnLast, SocketsType
  <2>9. FramesInOrder'
    <3> SUFFICES ASSUME owner = "reading", NEW t \in Stream PROVE Whole(OnTheWay(t), t, sent[t])'
      BY <1>1 DEF FramesInOrder
    <3>1. Whole(OnTheWay(t), t, sent[t]) /\ End.stream # t
      BY FrameItems DEF FramesInOrder
    <3> QED BY <3>1, <1>1, <1>3, <2>1, StepForeign
  <2> QED BY <2>4, <2>7, <2>8, <2>9
<1>5. CASE ~Room
  <2>1. merged' = merged /\ pump' = [pump EXCEPT ![s] = "ending"]
    BY <1>5 DEF PumpEnds
  <2>2. SocketsType'
    <3>1. pump' \in [Stream -> Over \cup {"reading", "putting", "ending"}]
      BY <2>1 DEF SocketsType, Over
    <3>2. ASSUME NEW t \in Stream
          PROVE  Len(hand[t]) = (IF pump'[t] = "putting" THEN 1 ELSE 0) \/ pump'[t] = "cancelled"
      BY <2>1, <1>1 DEF SocketsType
    <3> QED BY <1>1, <2>1, <3>1, <3>2 DEF SocketsType
  <2>3. Spent' = Spent /\ Ends(merged)' = Ends(merged)
    BY <1>1, <2>1 DEF Spent, Over, SocketsType, Ends
  <2>4. NoneCancelled' /\ HandsHold' /\ PumpsDrain' /\ SentinelsCounted' /\ EndsOnLast'
    BY <1>1, <1>2, <2>1, <2>3 DEF NoneCancelled, HandsHold, PumpsDrain, SentinelsCounted, EndsOnLast, SocketsType
  <2>5. \A t \in Stream : OnTheWay(t)' = OnTheWay(t)
    BY <1>1, <2>1 DEF OnTheWay
  <2> QED BY <2>2, <2>4, <2>5, <1>1 DEF FramesInOrder, Whole
<1> QED BY <1>4, <1>5

-----------------------------------------------------------------------------
\* What has reached the raw queue, when nothing is held in front of it.
LEMMA Reached ==
  /\ SocketsType /\ held = << >> => /\ taken \o raw \in Seq(Item) /\ merged \in Seq(Item)
                                   /\ Before = (taken \o raw) \o merged
  /\ SocketsType' /\ held' = << >> => Before' = (taken' \o raw') \o merged'
<1>1. SocketsType => taken \in Seq(Item) /\ raw \in Seq(Item) /\ merged \in Seq(Item)
  BY FrameItems DEF SocketsType
<1>2. SocketsType' => taken' \in Seq(Item) /\ raw' \in Seq(Item)
  BY FrameItems DEF SocketsType
<1>3. SocketsType => taken \o raw \in Seq(Item)
  BY <1>1, ConcatItems
<1>4. SocketsType' => taken' \o raw' \in Seq(Item)
  BY <1>2, ConcatItems
<1>5. SocketsType /\ held = << >> => (taken \o raw) \o held = taken \o raw
  BY <1>3, ConcatItems
<1>6. SocketsType' /\ held' = << >> => (taken' \o raw') \o held' = taken' \o raw'
  BY <1>4, ConcatItems
<1>7. Before = ((taken \o raw) \o held) \o merged /\ Before' = ((taken' \o raw') \o held') \o merged'
  BY DEF Before
<1> QED BY <1>1, <1>3, <1>5, <1>6, <1>7

\* The item at the head of the merge's queue moves into the raw queue.
LEMMA StepThrough ==
  ASSUME SocketsType, SocketsType', held = << >>, held' = << >>, merged # << >>,
         merged' = Tail(merged), raw' = Append(raw, Head(merged)), UNCHANGED <<taken, hand, wire>>
  PROVE  \A t \in Stream : OnTheWay(t)' = OnTheWay(t)
<1>1. Head(merged) \in Item /\ taken \in Seq(Item) /\ raw \in Seq(Item)
  BY FrameItems, MoveHead DEF SocketsType
<1>2. taken' \o raw' = Append(taken \o raw, Head(merged))
  BY <1>1, AppendConcat
<1>3. Before = (taken \o raw) \o merged /\ Before' = (taken' \o raw') \o Tail(merged)
  BY Reached
<1>4. taken \o raw \in Seq(Item) /\ merged \in Seq(Item)
  BY Reached
<1>5. Before' = Before
  <2> DEFINE k == taken \o raw
  <2>1. k \in Seq(Item) /\ Before = k \o merged /\ Before' = Append(k, Head(merged)) \o Tail(merged)
    BY <1>2, <1>3, <1>4
  <2> HIDE DEF k
  <2>2. Append(k, Head(merged)) \o Tail(merged) = k \o merged
    BY <2>1, <1>4, MoveHead
  <2> QED BY <2>1, <2>2
<1>6. ASSUME NEW t \in Stream PROVE OnTheWay(t)' = OnTheWay(t)
  <2>1. After(t)' = After(t)
    BY DEF After
  <2> QED BY <1>5, <2>1, TheWay
<1> QED BY <1>6

LEMMA TailLast ==
  ASSUME NEW q \in Seq(Item), q # << >>, Tail(q) # << >>
  PROVE  Tail(q)[Len(Tail(q))] = q[Len(q)]
<1>1. Len(q) \in Nat /\ Len(Tail(q)) = Len(q) - 1 /\ Len(Tail(q)) >= 1
  BY EmptySeq
<1> QED BY <1>1

LEMMA OuterFrameStep ==
  ASSUME SocketsInv, OuterFrame
  PROVE  SocketsInv'
<1> DEFINE x == Head(merged)
<1> USE DEF SocketsInv
<1>1. /\ outer = "getting" /\ merged # << >> /\ x # End /\ merged' = Tail(merged)
      /\ UNCHANGED <<sent, wire, sock, pump, hand, finished, owner, taken>>
  BY DEF OuterFrame, sockets
<1>2. owner = "reading" /\ held = << >>
  BY <1>1 DEF EndsOnLast, HandsHold
<1>3. /\ merged \in Seq(Item) /\ Tail(merged) \in Seq(Item) /\ Len(Tail(merged)) <= MergedMax
      /\ x \in Item /\ x \in Frames
  <2>1. merged \in Seq(Item)
    BY DEF SocketsType
  <2>2. Tail(merged) \in Seq(Item) /\ Len(Tail(merged)) = Len(merged) - 1 /\ x \in Item /\ Len(merged) \in Nat
    BY <2>1, <1>1
  <2> QED BY <2>1, <2>2, <1>1, FrameItems, SocketsAssumption DEF SocketsType
<1>4. raw \in Seq(Item) /\ Len(raw) \in Nat /\ \A i \in DOMAIN raw : raw[i] # End
  BY <1>1, <1>2 DEF SocketsType, EndsOnLast
<1>5. SentinelsCounted'
  <2>1. Cardinality(Ends(merged)) = Cardinality(Ends(merged')) + 0
    BY <1>1, <1>3, EndsTail
  <2>2. Cardinality(Ends(merged')) \in Nat /\ Spent' = Spent
    BY <1>1, <1>3, EndsFinite DEF Spent
  <2>3. merged' # << >> => merged'[Len(merged')] = merged[Len(merged)]
    BY <1>1, <1>3, TailLast
  <2> QED BY <1>1, <1>2, <2>1, <2>2, <2>3 DEF SentinelsCounted
<1>6. CASE RawRoom
  <2>1. raw' = Append(raw, x) /\ UNCHANGED <<outer, held>>
    BY <1>6 DEF OuterFrame
  <2>2. /\ raw' \in Seq(Item) /\ Len(raw') = Len(raw) + 1
        /\ \A i \in DOMAIN raw' : raw'[i] # End
    BY <2>1, <1>1, <1>3, <1>4
  <2>3. Len(raw') <= RawMax
    BY <2>2, <1>4, <1>6, SocketsAssumption DEF RawRoom
  <2>4. SocketsType'
    BY <1>1, <1>3, <2>1, <2>2, <2>3 DEF SocketsType
  <2>5. NoneCancelled' /\ HandsHold' /\ PumpsDrain' /\ EndsOnLast'
    BY <1>1, <2>1, <2>2 DEF NoneCancelled, HandsHold, PumpsDrain, EndsOnLast
  <2>6. \A t \in Stream : OnTheWay(t)' = OnTheWay(t)
    BY <1>1, <1>2, <2>1, <2>4, StepThrough
  <2> QED BY <1>1, <1>5, <2>4, <2>5, <2>6 DEF FramesInOrder, Whole
<1>7. CASE ~RawRoom
  <2>1. outer' = "putting" /\ held' = <<x>> /\ raw' = raw
    BY <1>7 DEF OuterFrame
  <2>2. SocketsType'
    BY <1>1, <1>3, <2>1 DEF SocketsType
  <2>3. NoneCancelled' /\ HandsHold' /\ PumpsDrain' /\ EndsOnLast'
    BY <1>1, <1>2, <1>4, <2>1 DEF NoneCancelled, HandsHold, PumpsDrain, EndsOnLast
  <2>4. Before' = Before
    <3> DEFINE k == taken \o raw
    <3>1. k \in Seq(Item) /\ Before = k \o merged
      BY <1>2, Reached
    <3>2. Before' = (k \o <<x>>) \o Tail(merged)
      BY <1>1, <2>1 DEF Before
    <3> HIDE DEF k
    <3>3. (k \o <<x>>) \o Tail(merged) = k \o merged
      BY <3>1, <1>1, <1>3, AppendConcat, MoveHead
    <3> QED BY <3>1, <3>2, <3>3
  <2>5. \A t \in Stream : OnTheWay(t)' = OnTheWay(t)
    <3> TAKE t \in Stream
    <3>1. After(t)' = After(t)
      BY <1>1 DEF After
    <3> QED BY <3>1, <2>2, <2>4, TheWay
  <2> QED BY <1>1, <1>5, <2>2, <2>3, <2>5 DEF FramesInOrder, Whole
<1> QED BY <1>6, <1>7

LEMMA OuterPutsStep ==
  ASSUME SocketsInv, OuterPuts
  PROVE  SocketsInv'
<1> USE DEF SocketsInv
<1>1. /\ outer = "putting" /\ RawRoom /\ raw' = raw \o held /\ held' = << >> /\ outer' = "getting"
      /\ UNCHANGED <<sent, wire, sock, pump, hand, merged, finished, owner, taken>>
  BY DEF OuterPuts, sockets, inner
<1>2. owner = "reading" /\ held \in Seq(Frames) /\ Len(held) = 1 /\ finished # 2
  BY <1>1 DEF EndsOnLast, SocketsType
<1>3. PICK x \in Frames : held = <<x>> /\ x # End /\ x \in Item
  BY <1>2, HeldFrame, FrameItems
<1>4. raw \in Seq(Item) /\ Len(raw) \in Nat /\ taken \in Seq(Item) /\ \A i \in DOMAIN raw : raw[i] # End
  BY <1>1, <1>2, FrameItems DEF SocketsType, EndsOnLast
<1>5. raw' = Append(raw, x)
  BY <1>1, <1>3, <1>4, AppendIsConcat
<1>6. raw' \in Seq(Item) /\ Len(raw') = Len(raw) + 1 /\ \A i \in DOMAIN raw' : raw'[i] # End
  BY <1>3, <1>4, <1>5
<1>7. Len(raw') <= RawMax
  BY <1>1, <1>4, <1>6, SocketsAssumption DEF RawRoom
<1>8. SocketsType'
  BY <1>1, <1>6, <1>7 DEF SocketsType
<1>9. Spent' = Spent /\ Ends(merged)' = Ends(merged)
  BY <1>1 DEF Spent, Ends
<1>10. NoneCancelled' /\ HandsHold' /\ PumpsDrain' /\ SentinelsCounted' /\ EndsOnLast'
  BY <1>1, <1>2, <1>6, <1>9 DEF NoneCancelled, HandsHold, PumpsDrain, SentinelsCounted, EndsOnLast
<1>11. Before' = Before
  <2>1. Before = ((taken \o raw) \o held) \o merged
    BY DEF Before
  <2>2. Before' = (taken \o (raw \o held)) \o merged
    <3>1. Before' = (taken' \o raw') \o merged'
      BY <1>1, <1>8, Reached
    <3> QED BY <3>1, <1>1
  <2>3. taken \o (raw \o held) = (taken \o raw) \o held
    <3>1. taken \in Seq(Item) /\ raw \in Seq(Item) /\ held \in Seq(Item)
      BY <1>2, <1>4, FrameItems
    <3> QED BY <3>1, RegroupLast
  <2> QED BY <2>1, <2>2, <2>3
<1>12. ASSUME NEW t \in Stream PROVE OnTheWay(t)' = OnTheWay(t)
  <2>1. After(t)' = After(t)
    BY <1>1 DEF After
  <2> QED BY <2>1, <1>8, <1>11, TheWay
<1> QED BY <1>1, <1>8, <1>10, <1>12 DEF FramesInOrder, Whole

\* The sentinel that is no longer needed leaves the queue.
LEMMA StepTaken ==
  ASSUME SocketsType, SocketsType', NEW t \in Stream, held = << >>, held' = << >>,
         merged # << >>, Head(merged) = End, merged' = Tail(merged),
         UNCHANGED <<taken, raw, hand, wire, sent>>, Whole(OnTheWay(t), t, sent[t])
  PROVE  Whole(OnTheWay(t), t, sent[t])'
<1> DEFINE k == taken \o raw
<1>1. /\ k \in Seq(Item) /\ Before = k \o merged /\ Before' = k \o Tail(merged)
      /\ merged \in Seq(Item)
  BY Reached
<1> HIDE DEF k
<1>2. Tail(merged) \in Seq(Item) /\ <<End>> \o Tail(merged) = merged
  BY <1>1, MoveHead
<1>3. End \in Item /\ End.stream # t /\ <<End>> \in Seq(Item)
  BY FrameItems, ConcatItems
<1>4. /\ OnTheWay(t) = Before \o After(t) /\ OnTheWay(t)' = Before' \o After(t)
      /\ After(t) \in Seq(Item) /\ sent[t] \in Nat
  <2>1. After(t)' = After(t)
    BY DEF After
  <2> QED BY <2>1, TheWay
<1> DEFINE A == After(t)
           T == Tail(merged)
<1>5. A \in Seq(Item) /\ T \in Seq(Item)
  BY <1>2, <1>4
<1> HIDE DEF A, T
<1> DEFINE e == <<End>>
<1>6. k \in Seq(Item) /\ e \in Seq(Item)
  BY <1>1, <1>3
<1> HIDE DEF e
<1>7. (k \o e) \o T = k \o (e \o T) /\ k \o e \in Seq(Item) /\ T \o A \in Seq(Item)
  <2>1. k \o e \in Seq(Item) /\ T \o A \in Seq(Item)
    BY <1>5, <1>6, ConcatItems
  <2>2. (k \o e) \o T = k \o (e \o T)
    BY <1>5, <1>6, ConcatAssociative
  <2> QED BY <2>1, <2>2
<1>8. ((k \o e) \o T) \o A = (k \o e) \o (T \o A) /\ (k \o T) \o A = k \o (T \o A)
  <2>1. ((k \o e) \o T) \o A = (k \o e) \o (T \o A)
    <3> DEFINE ke == k \o e
    <3>1. ke \in Seq(Item)
      BY <1>7
    <3> HIDE DEF ke
    <3>2. (ke \o T) \o A = ke \o (T \o A)
      BY <3>1, <1>5, ConcatAssociative
    <3> QED BY <3>2 DEF ke
  <2>2. (k \o T) \o A = k \o (T \o A)
    BY <1>5, <1>6, ConcatAssociative, SMTT(30)
  <2> QED BY <2>1, <2>2
<1>9. OnTheWay(t) = (k \o <<End>>) \o (T \o A) /\ OnTheWay(t)' = k \o (T \o A)
  BY <1>1, <1>2, <1>4, <1>7, <1>8 DEF A, T, e
<1>10. Whole((k \o <<End>>) \o (T \o A), t, sent[t]) <=> Whole(k \o (T \o A), t, sent[t])
  BY <1>1, <1>3, <1>4, <1>7, WholeInsert DEF e
<1>11. Whole(OnTheWay(t)', t, sent[t])
  BY <1>9, <1>10
<1> QED BY <1>11 DEF Whole

LEMMA OuterFinishStep ==
  ASSUME SocketsInv, OuterFinish
  PROVE  SocketsInv'
<1> USE DEF SocketsInv
<1>1. /\ outer = "getting" /\ merged # << >> /\ Head(merged) = End /\ merged' = Tail(merged)
      /\ finished' = finished + 1
      /\ UNCHANGED <<sent, wire, sock, pump, hand, held, owner, taken>>
  BY DEF OuterFinish, sockets
<1>2. owner = "reading" /\ held = << >> /\ finished # 2
  BY <1>1 DEF EndsOnLast, HandsHold
<1>3. merged \in Seq(Item) /\ Tail(merged) \in Seq(Item) /\ Len(Tail(merged)) <= MergedMax
  <2>1. merged \in Seq(Item)
    BY DEF SocketsType
  <2>2. Tail(merged) \in Seq(Item) /\ Len(Tail(merged)) = Len(merged) - 1 /\ Len(merged) \in Nat
    BY <2>1, <1>1
  <2> QED BY <2>1, <2>2, SocketsAssumption DEF SocketsType
<1>4. raw \in Seq(Item) /\ Len(raw) \in Nat /\ \A i \in DOMAIN raw : raw[i] # End
  BY <1>1, <1>2 DEF SocketsType, EndsOnLast
<1>5. SentinelsCounted' /\ finished' \in 0..2
  <2>1. Cardinality(Ends(merged)) = Cardinality(Ends(merged')) + 1
    BY <1>1, <1>3, EndsTail
  <2>2. Cardinality(Ends(merged')) \in Nat /\ Spent' = Spent /\ Cardinality(Spent) \in 0..2
    BY <1>1, <1>3, EndsFinite, SpentCount DEF Spent
  <2>3. merged' # << >> => merged'[Len(merged')] = merged[Len(merged)]
    BY <1>1, <1>3, TailLast
  <2>4. finished \in 0..2
    BY DEF SocketsType
  <2> QED BY <1>1, <1>2, <2>1, <2>2, <2>3, <2>4 DEF SentinelsCounted
<1>6. AllFinished(finished + 1) <=> finished' = 2
  BY <1>1, <1>2, <1>5, SpentCount DEF AllFinished
<1>7. CASE finished' = 2 /\ RawRoom
  <2>1. raw' = Append(raw, Head(merged)) /\ outer' = "done"
    BY <1>1, <1>6, <1>7 DEF OuterFinish, OuterSentinel
  <2>2. /\ raw' \in Seq(Item) /\ Len(raw') = Len(raw) + 1
        /\ \A i \in DOMAIN raw' : raw'[i] = End => i = Len(raw')
    BY <2>1, <1>1, <1>4, FrameItems
  <2>3. Len(raw') <= RawMax
    BY <2>2, <1>4, <1>7, SocketsAssumption DEF RawRoom
  <2>4. SocketsType'
    BY <1>1, <1>3, <1>5, <2>1, <2>2, <2>3 DEF SocketsType, Over
  <2>5. NoneCancelled' /\ HandsHold' /\ PumpsDrain' /\ EndsOnLast'
    BY <1>1, <1>2, <1>7, <2>1, <2>2 DEF NoneCancelled, HandsHold, PumpsDrain, EndsOnLast
  <2>6. \A t \in Stream : OnTheWay(t)' = OnTheWay(t)
    BY <1>1, <1>2, <2>1, <2>4, StepThrough
  <2> QED BY <1>1, <1>5, <2>4, <2>5, <2>6 DEF FramesInOrder, Whole
<1>8. CASE ~(finished' = 2 /\ RawRoom)
  <2>1. raw' = raw /\ outer' = IF finished' = 2 THEN "ending" ELSE "getting"
    BY <1>1, <1>6, <1>8 DEF OuterFinish, OuterSentinel
  <2>2. SocketsType'
    BY <1>1, <1>3, <1>5, <2>1 DEF SocketsType
  <2>3. NoneCancelled' /\ HandsHold' /\ PumpsDrain' /\ EndsOnLast'
    BY <1>1, <1>2, <1>4, <2>1 DEF NoneCancelled, HandsHold, PumpsDrain, EndsOnLast
  <2>4. FramesInOrder'
    <3> SUFFICES ASSUME NEW t \in Stream PROVE Whole(OnTheWay(t), t, sent[t])'
      BY DEF FramesInOrder
    <3>1. Whole(OnTheWay(t), t, sent[t])
      BY <1>2 DEF FramesInOrder
    <3> QED BY <3>1, <1>1, <1>2, <2>1, <2>2, StepTaken
  <2> QED BY <1>5, <2>2, <2>3, <2>4
<1> QED BY <1>7, <1>8

\* When the merge has ended there is nothing left on its way.
LEMMA MergeEmpty ==
  ASSUME SocketsInv, owner = "reading", outer \in {"ending", "done"}
  PROVE  /\ merged = << >> /\ held = << >>
         /\ \A s \in Stream : hand[s] = << >> /\ wire[s] = << >> /\ sock[s] # "open"
         /\ \A s \in Stream : OnTheWay(s) = taken \o raw
<1> USE DEF SocketsInv
<1>1. finished = 2 /\ held = << >>
  BY DEF EndsOnLast, HandsHold
<1>2. merged \in Seq(Item) /\ Cardinality(Ends(merged)) \in Nat /\ IsFiniteSet(Ends(merged))
  BY EndsFinite DEF SocketsType
<1>3. Spent = Stream /\ Cardinality(Ends(merged)) = 0
  BY <1>1, <1>2, SpentCount DEF SentinelsCounted
<1>4. merged = << >>
  <2>1. SUFFICES ASSUME merged # << >> PROVE FALSE
    OBVIOUS
  <2>2. merged[Len(merged)] = End /\ Len(merged) \in DOMAIN merged
    BY <2>1, <1>2, <1>3, EmptySeq DEF SentinelsCounted
  <2>3. Len(merged) \in Ends(merged) /\ Ends(merged) = {}
    BY <2>2, <1>2, <1>3, FS_EmptySet DEF Ends
  <2> QED BY <2>3
<1>5. \A s \in Stream : pump[s] \in {"done", "raised"}
  BY <1>3 DEF Spent, Over, NoneCancelled
<1>6. \A s \in Stream : hand[s] = << >> /\ wire[s] = << >> /\ sock[s] # "open"
  BY <1>5 DEF HandsHold, PumpsDrain
<1>7. ASSUME NEW s \in Stream PROVE OnTheWay(s) = taken \o raw
  <2> DEFINE k == taken \o raw
  <2>1. k \in Seq(Item) /\ OnTheWay(s) = k \o << >> \o << >> \o << >> \o << >>
    BY <1>1, <1>4, <1>6, Reached DEF OnTheWay
  <2> HIDE DEF k
  <2>2. k \o << >> = k
    BY <2>1, ConcatEmptySeq
  <2> QED BY <2>1, <2>2 DEF k
<1> QED BY <1>1, <1>4, <1>6, <1>7

LEMMA OuterEndsStep ==
  ASSUME SocketsInv, OuterEnds
  PROVE  SocketsInv'
<1> USE DEF SocketsInv
<1>1. /\ outer = "ending" /\ RawRoom /\ raw' = Append(raw, End) /\ outer' = "done"
      /\ UNCHANGED <<sent, wire, sock, pump, hand, merged, finished, held, owner, taken>>
  BY DEF OuterEnds, OuterSentinel, sockets, inner
<1>2. raw \in Seq(Item) /\ Len(raw) \in Nat /\ End \in Item /\ taken \in Seq(Item)
  BY FrameItems DEF SocketsType
<1>3. raw' \in Seq(Item) /\ Len(raw') = Len(raw) + 1 /\ Len(raw') <= RawMax
  BY <1>1, <1>2, SocketsAssumption DEF RawRoom
<1>4. owner = "reading" => \A i \in DOMAIN raw' : raw'[i] = End => i = Len(raw')
  <2>1. owner = "reading" => \A i \in DOMAIN raw : raw[i] # End
    BY <1>1 DEF EndsOnLast
  <2> QED BY <2>1, <1>1, <1>2
<1>5. SocketsType'
  BY <1>1, <1>3 DEF SocketsType, Over
<1>6. Spent' = Spent /\ Ends(merged)' = Ends(merged)
  BY <1>1 DEF Spent, Ends
<1>7. NoneCancelled' /\ HandsHold' /\ PumpsDrain' /\ SentinelsCounted' /\ EndsOnLast'
  BY <1>1, <1>4, <1>6 DEF NoneCancelled, HandsHold, PumpsDrain, SentinelsCounted, EndsOnLast
<1>8. FramesInOrder'
  <2> SUFFICES ASSUME owner = "reading", NEW t \in Stream PROVE Whole(OnTheWay(t), t, sent[t])'
    BY <1>1 DEF FramesInOrder
  <2>1. Whole(OnTheWay(t), t, sent[t]) /\ OnTheWay(t) = taken \o raw
    BY <1>1, MergeEmpty DEF FramesInOrder
  <2> DEFINE k == taken \o raw
  <2>2. k \in Seq(Item) /\ Append(k, End) \in Seq(Item) /\ taken \o Append(raw, End) = Append(k, End)
    BY <1>2, AppendConcat, ConcatItems
  <2>3. OnTheWay(t)' = taken' \o raw' \o << >> \o << >> \o << >> \o << >>
    BY <1>1, MergeEmpty DEF OnTheWay
  <2>4. OnTheWay(t)' = Append(k, End) \o << >> \o << >> \o << >> \o << >>
    BY <2>2, <2>3, <1>1
  <2>5. OnTheWay(t)' = Append(k, End) \o << >>
    BY <2>2, <2>4, ConcatEmptySeq
  <2>6. k \o << >> = k /\ << >> \in Seq(Item) /\ End.stream # t /\ sent[t] \in Nat
    BY <2>2, ConcatEmptySeq, FrameItems, TheWay
  <2> HIDE DEF k
  <2>7. Whole(Append(k, End) \o << >>, t, sent[t]) <=> Whole(k \o << >>, t, sent[t])
    BY <2>2, <2>6, <1>2, AppendForeign
  <2>8. Whole(OnTheWay(t)', t, sent[t])
    BY <2>1, <2>5, <2>6, <2>7 DEF k
  <2> QED BY <2>8, <1>1 DEF Whole
<1> QED BY <1>5, <1>7, <1>8

-----------------------------------------------------------------------------
LEMMA OwnerReadsStep ==
  ASSUME SocketsInv, OwnerReads
  PROVE  SocketsInv'
<1> USE DEF SocketsInv
<1>1. /\ owner = "reading" /\ raw # << >> /\ Head(raw) # End
      /\ raw' = Tail(raw) /\ taken' = Append(taken, Head(raw))
      /\ UNCHANGED <<sent, wire, sock, pump, hand, merged, finished, outer, held, owner>>
  BY DEF OwnerReads, sockets, inner
<1>2. raw \in Seq(Item) /\ Len(raw) \in Nat /\ taken \in Seq(Item) /\ taken \in Seq(Frames)
  BY FrameItems DEF SocketsType
<1>3. /\ Tail(raw) \in Seq(Item) /\ Len(Tail(raw)) = Len(raw) - 1
      /\ \A i \in DOMAIN Tail(raw) : i + 1 \in DOMAIN raw /\ Tail(raw)[i] = raw[i + 1]
      /\ Head(raw) \in Frames
  BY <1>1, <1>2, FrameItems
<1>4. taken' \in Seq(Frames) /\ Len(raw') <= RawMax
  BY <1>1, <1>2, <1>3, SocketsAssumption DEF SocketsType
<1>5. SocketsType'
  BY <1>1, <1>3, <1>4 DEF SocketsType
<1>6. Spent' = Spent /\ Ends(merged)' = Ends(merged)
  BY <1>1 DEF Spent, Ends
<1>7. \A i \in DOMAIN raw' : raw'[i] = End => outer = "done" /\ i = Len(raw')
  BY <1>1, <1>2, <1>3 DEF EndsOnLast
<1>8. NoneCancelled' /\ HandsHold' /\ PumpsDrain' /\ SentinelsCounted' /\ EndsOnLast'
  BY <1>1, <1>6, <1>7 DEF NoneCancelled, HandsHold, PumpsDrain, SentinelsCounted, EndsOnLast
<1>9. Before' = Before
  <2>1. Append(taken, Head(raw)) \o Tail(raw) = taken \o raw
    BY <1>1, <1>2, MoveHead
  <2> QED BY <2>1, <1>1 DEF Before
<1>10. ASSUME NEW t \in Stream PROVE OnTheWay(t)' = OnTheWay(t)
  <2>1. After(t)' = After(t)
    BY <1>1 DEF After
  <2> QED BY <2>1, <1>5, <1>9, TheWay
<1> QED BY <1>1, <1>5, <1>8, <1>10 DEF FramesInOrder, Whole

LEMMA OwnerEndsStep ==
  ASSUME SocketsInv, OwnerEnds
  PROVE  SocketsInv'
<1> USE DEF SocketsInv
<1>1. /\ owner = "reading" /\ raw # << >> /\ Head(raw) = End /\ owner' = "unwinding" /\ raw' = Tail(raw)
      /\ UNCHANGED <<sent, wire, sock, pump, hand, merged, finished, outer, held, taken>>
  BY DEF OwnerEnds, sockets, inner
<1>2. raw \in Seq(Item) /\ Len(raw) \in Nat
  BY DEF SocketsType
<1>3. Tail(raw) \in Seq(Item) /\ Len(Tail(raw)) = Len(raw) - 1 /\ 1 \in DOMAIN raw /\ raw[1] = End
  BY <1>1, <1>2
<1>4. Len(raw') <= RawMax
  BY <1>1, <1>2, <1>3, SocketsAssumption DEF SocketsType
<1>5. SocketsType'
  BY <1>1, <1>3, <1>4 DEF SocketsType
<1>6. outer = "done"
  BY <1>1, <1>3 DEF EndsOnLast
<1> QED BY <1>1, <1>5, <1>6 DEF NoneCancelled, HandsHold, PumpsDrain, SentinelsCounted, EndsOnLast, FramesInOrder

LEMMA OwnerLeavesStep ==
  ASSUME SocketsInv, OwnerLeaves
  PROVE  SocketsInv'
<1> USE DEF SocketsInv
<1>1. /\ owner = "reading" /\ owner' = "unwinding" /\ CancelOuter
      /\ UNCHANGED <<sent, wire, sock, hand, merged, finished, held, taken>>
  BY DEF OwnerLeaves, sockets
<1>2. raw \in Seq(Item) /\ Len(raw) \in Nat /\ End \in Item
  BY FrameItems DEF SocketsType
<1>3. outer \in {"getting", "putting", "ending", "done"}
  BY <1>1 DEF NoneCancelled
<1>4. /\ outer' \in {"ending", "done", "cancelled"}
      /\ raw' = raw \/ (raw' = Append(raw, End) /\ RawRoom)
      /\ pump' = pump \/ pump' = Stopped
  <2>1. CASE outer = "getting" /\ \E s \in Stream : pump[s] = "raised"
    BY <1>1, <2>1 DEF CancelOuter, OuterSentinel
  <2>2. CASE outer = "getting" /\ \A s \in Stream : pump[s] # "raised"
    BY <1>1, <2>2 DEF CancelOuter
  <2>3. CASE outer \in {"putting", "ending"}
    BY <1>1, <2>3 DEF CancelOuter
  <2>4. CASE outer = "done"
    BY <1>1, <2>4 DEF CancelOuter
  <2> QED BY <1>3, <2>1, <2>2, <2>3, <2>4
<1>5. raw' \in Seq(Item) /\ Len(raw') <= RawMax
  <2>1. Append(raw, End) \in Seq(Item) /\ Len(Append(raw, End)) = Len(raw) + 1
    BY <1>2
  <2>2. RawRoom => Len(raw) + 1 <= RawMax
    BY <1>2, SocketsAssumption DEF RawRoom
  <2> QED BY <1>2, <1>4, <2>1, <2>2 DEF SocketsType
<1>6. /\ pump' \in [Stream -> Over \cup {"reading", "putting", "ending"}]
      /\ \A s \in Stream : pump'[s] = pump[s] \/ pump'[s] = "cancelled"
  BY <1>4 DEF SocketsType, Stopped, Over
<1>7. SocketsType'
  BY <1>1, <1>4, <1>5, <1>6 DEF SocketsType, Over
<1> QED BY <1>1, <1>4, <1>7 DEF NoneCancelled, HandsHold, PumpsDrain, SentinelsCounted, EndsOnLast, FramesInOrder

LEMMA OwnerClosesStep ==
  ASSUME SocketsInv, OwnerCloses
  PROVE  SocketsInv'
<1> USE DEF SocketsInv
<1>1. /\ owner = "unwinding" /\ owner' = "closed" /\ pump' = Stopped
      /\ sock' = [s \in Stream |-> IF sock[s] = "open" THEN "eof" ELSE sock[s]]
      /\ UNCHANGED <<sent, wire, hand, merged, finished, outer, held, raw, taken>>
  BY DEF OwnerCloses
<1>2. /\ pump' \in [Stream -> Over \cup {"reading", "putting", "ending"}]
      /\ \A s \in Stream : pump'[s] = pump[s] \/ pump'[s] = "cancelled"
  BY <1>1 DEF SocketsType, Stopped, Over
<1>3. sock' \in [Stream -> {"open", "eof", "error"}]
  BY <1>1 DEF SocketsType
<1>4. SocketsType'
  BY <1>1, <1>2, <1>3 DEF SocketsType
<1> QED BY <1>1, <1>4 DEF NoneCancelled, HandsHold, PumpsDrain, SentinelsCounted, EndsOnLast, FramesInOrder

LEMMA SocketsStart == Init => SocketsInv
<1> SUFFICES ASSUME Init PROVE SocketsInv
  OBVIOUS
<1>1. << >> \in Seq(Frames) /\ << >> \in Seq(Item) /\ Len(<< >>) = 0 /\ DOMAIN << >> = {}
  OBVIOUS
<1>2. SocketsType
  BY <1>1, SocketsAssumption DEF Init, SocketsType, Over, Stream
<1>3. Spent = {} /\ Ends(merged) = {}
  BY <1>1 DEF Init, Spent, Ends, Over
<1>4. NoneCancelled /\ HandsHold /\ PumpsDrain /\ SentinelsCounted /\ EndsOnLast
  <2>1. Cardinality(Spent) = 0 /\ Cardinality(Ends(merged)) = 0 /\ finished = 0
    BY <1>3, FS_EmptySet DEF Init
  <2> QED BY <1>1, <2>1 DEF Init, NoneCancelled, HandsHold, PumpsDrain, SentinelsCounted, EndsOnLast
<1>5. \A s \in Stream : OnTheWay(s) = << >>
  <2>1. << >> \o << >> = << >>
    BY <1>1, ConcatEmptySeq
  <2> QED BY <2>1 DEF Init, OnTheWay
<1>6. FramesInOrder
  BY <1>1, <1>5 DEF Init, FramesInOrder, Whole
<1> QED BY <1>2, <1>4, <1>6 DEF SocketsInv

LEMMA SocketsStep == SocketsInv /\ [Next]_vars => SocketsInv'
<1> SUFFICES ASSUME SocketsInv, [Next]_vars PROVE SocketsInv'
  OBVIOUS
<1>1. ASSUME NEW s \in Stream, Delivers(s) \/ SocketEnds(s) PROVE SocketsInv'
  BY <1>1, DeliversStep, SocketEndsStep
<1>2. CASE Pumps
  BY <1>2, PumpReadsStep, PumpPutsStep, PumpEndsStep DEF Pumps
<1>3. CASE Outer
  BY <1>3, OuterFrameStep, OuterPutsStep, OuterFinishStep, OuterEndsStep DEF Outer
<1>4. CASE Owner
  BY <1>4, OwnerReadsStep, OwnerEndsStep, OwnerClosesStep DEF Owner
<1>5. CASE OwnerLeaves
  BY <1>5, OwnerLeavesStep
<1>6. CASE Gone \/ UNCHANGED vars
  <2>1. UNCHANGED <<sent, wire, sock, pump, hand, merged, finished, outer, held, raw, owner, taken>>
    BY <1>6 DEF Gone, vars, sockets, inner
  <2>2. Spent' = Spent /\ Ends(merged)' = Ends(merged)
    BY <2>1 DEF Spent, Ends
  <2>3. \A t \in Stream : OnTheWay(t)' = OnTheWay(t)
    BY <2>1 DEF OnTheWay
  <2>4. SocketsType'
    BY <2>1 DEF SocketsInv, SocketsType
  <2>5. NoneCancelled' /\ HandsHold' /\ PumpsDrain' /\ SentinelsCounted' /\ EndsOnLast'
    BY <2>1, <2>2 DEF SocketsInv, NoneCancelled, HandsHold, PumpsDrain, SentinelsCounted, EndsOnLast
  <2>6. FramesInOrder'
    BY <2>1, <2>3 DEF SocketsInv, FramesInOrder, Whole
  <2> QED BY <2>4, <2>5, <2>6 DEF SocketsInv
<1> QED BY <1>1, <1>2, <1>3, <1>4, <1>5, <1>6 DEF Next

LEMMA SocketsInvImplies == SocketsInv => StreamIsWhole
<1> SUFFICES ASSUME SocketsInv PROVE StreamIsWhole
  OBVIOUS
<1>1. TypeOK
  BY DEF SocketsInv, SocketsType, TypeOK
<1>2. EndIsLast
  <2> SUFFICES ASSUME owner = "reading", NEW i \in DOMAIN raw, raw[i] = End
               PROVE  i = Len(raw) /\ \A s \in Stream : sock[s] # "open" /\ Whole(taken \o raw, s, sent[s])
    BY DEF EndIsLast
  <2>1. i = Len(raw) /\ outer = "done"
    BY DEF SocketsInv, EndsOnLast
  <2>2. \A s \in Stream : OnTheWay(s) = taken \o raw /\ sock[s] # "open"
    BY <2>1, MergeEmpty
  <2> QED BY <2>1, <2>2 DEF SocketsInv, FramesInOrder
<1> QED BY <1>1, <1>2 DEF SocketsInv, StreamIsWhole

\* While a session reads its two sockets, what has been read and what is on
\* its way is, for either socket, everything it delivered, each frame once and
\* in order, and the announced end is behind all of it (_merge_raw_streams and
\* _pump_frames, for any capacities of the queues).
THEOREM WholeStream == Spec => []StreamIsWhole
<1>1. Spec => []SocketsInv
  BY SocketsStart, SocketsStep, PTL DEF Spec
<1> QED BY <1>1, SocketsInvImplies, PTL

=============================================================================
