----------------------------- MODULE SeatProofs -----------------------------
(***************************************************************************)
(* What the multi-seat agent keeps, for any hubs, seats, cards, tasks and  *)
(* devices coming and going: its state is typed, the allocator's counters  *)
(* are those of its sessions, no rebalance restarts a seat's encoder for   *)
(* nothing, and a task that destroys a seat takes that seat off the list.  *)
(*                                                                         *)
(* Three arguments carry it.  A set of naturals has a least element, which *)
(* gives induction over 0 .. n and with it the walk of rebalance over the  *)
(* sessions.  A session moves only to an encoder that is worth more than   *)
(* ten points more by itself, whatever the load, so that no walk brings it *)
(* back.  And what a destroying task knows of the list is stated with the  *)
(* list: its position is that of its seat until another pop shifts it.     *)
(***************************************************************************)
EXTENDS HotplugMonitor, FiniteSetTheorems, SequenceTheorems, WellFoundedInduction, TLAPS

(***************************************************************************)
(* Least elements, and the encoder allocator                               *)
(***************************************************************************)

\* A set of natural numbers that is not empty has a smallest one.
LEMMA Smallest ==
    ASSUME NEW S, S \subseteq Nat, S # {}
    PROVE  \E x \in S : \A y \in S : x <= y
<1>1. PICK x \in S : \A y \in S : ~(<<y, x>> \in OpToRel(<, Nat))
  BY WFMin, NatLessThanWellFounded
<1>2. \A y \in S : ~(y < x)
  BY <1>1 DEF OpToRel
<1> QED
  BY <1>2

\* Least, which stands for the first match of a loop, is the smallest one.
LEMMA LeastIs ==
    ASSUME NEW S, S \subseteq Nat, S # {}
    PROVE  Least(S) \in S /\ \A y \in S : Least(S) <= y
BY Smallest DEF Least

\* Induction over 0 .. n, for a set.
LEMMA UpTo ==
    ASSUME NEW n \in Nat, NEW S, 0 \in S, \A m \in 1 .. n : m - 1 \in S => m \in S
    PROVE  \A m \in 0 .. n : m \in S
<1> DEFINE T == (0 .. n) \ S
<1>1. SUFFICES ASSUME T # {}
               PROVE  FALSE
  OBVIOUS
<1>2. T \subseteq Nat
  OBVIOUS
<1>3. PICK m \in T : \A y \in T : m <= y
  <2> HIDE DEF T
  <2> QED
    BY <1>1, <1>2, Smallest
<1>4. m # 0 /\ m - 1 \in (0 .. n) /\ ~(m <= m - 1)
  BY <1>3
<1> QED
  BY <1>3, <1>4

\* What list.pop(i) leaves: the others, in their order.
LEMMA Removal ==
    ASSUME NEW S, NEW s \in Seq(S), NEW k \in 1 .. Len(s)
    PROVE  /\ RemoveAt(s, k) \in Seq(S)
           /\ Len(RemoveAt(s, k)) = Len(s) - 1
           /\ \A i \in 1 .. Len(s) - 1 : RemoveAt(s, k)[i] = s[IF i < k THEN i ELSE i + 1]
<1> DEFINE a == SubSeq(s, 1, k - 1)
           b == SubSeq(s, k + 1, Len(s))
<1>1. Len(s) \in Nat /\ k \in Nat /\ \A i \in 1 .. Len(s) : s[i] \in S
  BY ElementOfSeq, LenProperties
<1>2. /\ a \in Seq(S) /\ Len(a) = k - 1
      /\ \A i \in 1 .. k - 1 : a[i] = s[i]
  BY <1>1, SubSeqProperties
<1>3. /\ b \in Seq(S) /\ Len(b) = Len(s) - k
      /\ \A i \in 1 .. Len(s) - k : b[i] = s[k + i]
  <2>1. \A i \in k + 1 .. Len(s) : s[i] \in S
    BY <1>1
  <2>2. /\ b \in Seq(S) /\ Len(b) = IF k + 1 <= Len(s) THEN Len(s) - (k + 1) + 1 ELSE 0
        /\ \A i \in 1 .. Len(s) - (k + 1) + 1 : b[i] = s[k + 1 + i - 1]
    BY <1>1, <2>1, SubSeqProperties
  <2> QED
    BY <1>1, <2>2
<1> HIDE DEF a, b
<1>4. /\ a \o b \in Seq(S)
      /\ Len(a \o b) = Len(a) + Len(b)
      /\ \A i \in 1 .. Len(a) + Len(b) : (a \o b)[i] = IF i <= Len(a) THEN a[i] ELSE b[i - Len(a)]
  BY <1>2, <1>3, ConcatProperties
<1>5. \A i \in 1 .. Len(s) - 1 : (a \o b)[i] = s[IF i < k THEN i ELSE i + 1]
  <2> TAKE i \in 1 .. Len(s) - 1
  <2>1. CASE i < k
    BY <1>1, <1>2, <1>3, <1>4, <2>1
  <2>2. CASE ~(i < k)
    <3>1. i - (k - 1) \in 1 .. Len(s) - k /\ k + (i - (k - 1)) = i + 1
      BY <1>1, <2>2
    <3>2. (a \o b)[i] = b[i - (k - 1)]
      BY <1>1, <1>2, <1>3, <1>4, <2>2
    <3> QED
      BY <1>3, <2>2, <3>1, <3>2
  <2> QED
    BY <2>1, <2>2
<1>6. Len(a \o b) = Len(s) - 1
  BY <1>1, <1>2, <1>3, <1>4
<1>7. RemoveAt(s, k) = a \o b
  BY Zenon DEF RemoveAt, a, b
<1>8. ASSUME NEW r, r = a \o b
      PROVE  /\ r \in Seq(S)
             /\ Len(r) = Len(s) - 1
             /\ \A i \in 1 .. Len(s) - 1 : r[i] = s[IF i < k THEN i ELSE i + 1]
  BY <1>4, <1>5, <1>6, <1>8
<1> QED
  BY <1>7, <1>8

\* The places of the sessions on encoder e.
Slots(l, e) == {i \in DOMAIN l : l[i].enc = e}

\* A list has finitely many sessions on an encoder.
LEMMA SlotsFinite ==
    ASSUME NEW l \in Seq(Sessions), NEW e
    PROVE  IsFiniteSet(Slots(l, e)) /\ Cardinality(Slots(l, e)) \in Nat
<1>1. IsFiniteSet(1 .. Len(l)) /\ DOMAIN l = 1 .. Len(l)
  BY LenProperties, FS_Interval
<1> QED
  BY <1>1, FS_Subset, FS_CardinalityType DEF Slots

\* A new session is one more on its encoder.
LEMMA SlotsAppend ==
    ASSUME NEW l \in Seq(Sessions), NEW s \in Sessions, NEW e
    PROVE  Cardinality(Slots(Append(l, s), e)) =
               Cardinality(Slots(l, e)) + (IF s.enc = e THEN 1 ELSE 0)
<1>1. /\ DOMAIN l = 1 .. Len(l) /\ DOMAIN Append(l, s) = 1 .. Len(l) + 1
      /\ \A i \in 1 .. Len(l) : Append(l, s)[i] = l[i]
      /\ Append(l, s)[Len(l) + 1] = s /\ Len(l) \in Nat
  BY LenProperties, AppendProperties
<1>2. CASE s.enc = e
  <2>1. Slots(Append(l, s), e) = Slots(l, e) \cup {Len(l) + 1} /\ Len(l) + 1 \notin Slots(l, e)
    BY <1>1, <1>2 DEF Slots
  <2> QED
    BY <1>2, <2>1, SlotsFinite, FS_AddElement
<1>3. CASE s.enc # e
  <2>1. Slots(Append(l, s), e) = Slots(l, e)
    BY <1>1, <1>3 DEF Slots
  <2> QED
    BY <1>3, <2>1, SlotsFinite
<1> QED
  BY <1>2, <1>3

\* A session that is taken off is one less on its encoder.
LEMMA SlotsRemove ==
    ASSUME NEW l \in Seq(Sessions), NEW k \in 1 .. Len(l), NEW e
    PROVE  Cardinality(Slots(RemoveAt(l, k), e)) =
               Cardinality(Slots(l, e)) - (IF l[k].enc = e THEN 1 ELSE 0)
<1> DEFINE r == RemoveAt(l, k)
           up(i) == IF i < k THEN i ELSE i + 1
           f == [i \in Slots(r, e) |-> up(i)]
           T == Slots(l, e) \ {k}
<1>1. /\ r \in Seq(Sessions)
      /\ DOMAIN r = 1 .. Len(l) - 1
      /\ \A i \in 1 .. Len(l) - 1 : r[i] = l[up(i)]
      /\ DOMAIN l = 1 .. Len(l)
      /\ Len(l) \in Nat
  BY Removal, LenProperties
<1>2. f \in Bijection(Slots(r, e), T)
  <2>1. ASSUME NEW i \in Slots(r, e)
        PROVE  i \in Int /\ up(i) \in T
    BY <1>1, <2>1 DEF Slots
  <2>2. ASSUME NEW i \in Slots(r, e), NEW j \in Slots(r, e), up(i) = up(j)
        PROVE  i = j
    BY <2>1, <2>2
  <2>3. ASSUME NEW j \in T
        PROVE  \E i \in Slots(r, e) : up(i) = j
    <3> DEFINE i == IF j < k THEN j ELSE j - 1
    <3>1. j \in 1 .. Len(l) /\ j # k /\ l[j].enc = e
      BY <1>1, <2>3 DEF Slots
    <3>2. i \in 1 .. Len(l) - 1 /\ up(i) = j
      BY <1>1, <3>1
    <3>3. r[i] = l[j]
      BY <1>1, <3>2
    <3> QED
      BY <1>1, <3>1, <3>2, <3>3 DEF Slots
  <2> HIDE DEF T, r
  <2>4. f \in [Slots(r, e) -> T]
    BY <2>1
  <2>5. \A i, j \in Slots(r, e) : f[i] = f[j] => i = j
    BY <2>2
  <2>6. \A j \in T : \E i \in Slots(r, e) : f[i] = j
    BY <2>3
  <2> HIDE DEF f
  <2> QED
    BY <2>4, <2>5, <2>6 DEF Bijection, Injection, Surjection, IsInjective
<1>3. IsFiniteSet(Slots(r, e)) /\ IsFiniteSet(Slots(l, e)) /\ Cardinality(Slots(l, e)) \in Nat
  BY <1>1, SlotsFinite
<1>4. Cardinality(T) = Cardinality(Slots(r, e))
  <2> HIDE DEF r, T, f
  <2> QED
    BY <1>2, <1>3, FS_Bijection DEF ExistsBijection
<1>5. Cardinality(T) = IF k \in Slots(l, e) THEN Cardinality(Slots(l, e)) - 1 ELSE Cardinality(Slots(l, e))
  BY <1>3, FS_RemoveElement
<1>6. k \in Slots(l, e) <=> l[k].enc = e
  BY <1>1 DEF Slots
<1> QED
  BY <1>3, <1>4, <1>5, <1>6

\* Books the allocator can have.
BooksOK(b) == BooksTypeOK(b) /\ BooksBalance(b)

\* What an encoder scores by itself, free sessions aside.
Worth(e, gaming) == Base(e, gaming) + (10 - Inventory[e].latency)

\* The fields of an encoder, and that one has no limit.
LEMMA EncoderFields ==
    /\ Encoders = 1 .. Len(Inventory) /\ Len(Inventory) \in Nat
    /\ \A e \in Encoders : /\ Inventory[e].gpu \in Int
                           /\ Inventory[e].igpu \in BOOLEAN
                           /\ Inventory[e].max \in Nat
                           /\ Inventory[e].latency \in 0 .. 10
    /\ \E e \in Encoders : Inventory[e].max = 0
<1> DEFINE T == [gpu : Gpus \cup {NoGpu}, igpu : BOOLEAN, max : Nat, latency : 0 .. 10]
<1>1. Inventory \in Seq(T)
  BY InventoryAssumption
<1>2. Len(Inventory) \in Nat /\ DOMAIN Inventory = 1 .. Len(Inventory)
      /\ \A e \in 1 .. Len(Inventory) : Inventory[e] \in T
  <2> HIDE DEF T
  <2> QED
    BY <1>1, LenProperties, ElementOfSeq
<1>3. Gpus \cup {NoGpu} \subseteq Int
  BY InventoryAssumption DEF NoGpu
<1>4. ASSUME NEW e \in 1 .. Len(Inventory)
      PROVE  /\ Inventory[e].gpu \in Int
             /\ Inventory[e].igpu \in BOOLEAN
             /\ Inventory[e].max \in Nat
             /\ Inventory[e].latency \in 0 .. 10
  BY <1>2, <1>3, <1>4
<1>5. \E e \in DOMAIN Inventory : Inventory[e].max = 0
  BY InventoryAssumption
<1> QED
  BY <1>2, <1>4, <1>5 DEF Encoders

\* The bounds of what an encoder is worth by itself.
LEMMA WorthIn ==
    ASSUME NEW e \in Encoders, NEW gaming \in Hints
    PROVE  Worth(e, gaming) \in 20 .. 110
<1>1. Base(e, gaming) \in {20, 60, 70, 80, 100}
  <2>1. CASE Inventory[e].gpu = NoGpu
    BY <2>1 DEF Base
  <2>2. CASE Inventory[e].gpu # NoGpu /\ Inventory[e].igpu
    BY <2>2 DEF Base
  <2>3. CASE Inventory[e].gpu # NoGpu /\ ~Inventory[e].igpu
    BY <2>3 DEF Base
  <2> QED
    BY <2>1, <2>2, <2>3
<1>2. Base(e, gaming) \in 20 .. 100
  BY <1>1
<1>3. Inventory[e].latency \in 0 .. 10
  BY EncoderFields
<1> QED
  BY <1>2, <1>3 DEF Worth

\* The bonus for free sessions, without the Least it is written with.
LEMMA HeadroomIs ==
    ASSUME NEW b, NEW e \in Encoders, b.used[e] \in Nat,
           Inventory[e].max > 0 => b.used[e] <= Inventory[e].max
    PROVE  Headroom(b, e) = IF Inventory[e].max = 0 \/ 2 * (Inventory[e].max - b.used[e]) > 10
                            THEN 10 ELSE 2 * (Inventory[e].max - b.used[e])
<1>1. Inventory[e].max \in Nat
  BY EncoderFields
<1>2. CASE Inventory[e].max = 0
  BY <1>2 DEF Headroom
<1>3. CASE Inventory[e].max # 0
  <2> DEFINE r == 2 * (Inventory[e].max - b.used[e])
             S == {r, 10}
  <2>1. r \in Nat /\ S \subseteq Nat /\ S # {}
    BY <1>1, <1>3
  <2>2. Least(S) \in S /\ \A y \in S : Least(S) <= y
    <3> HIDE DEF S
    <3> QED
      BY <2>1, LeastIs
  <2>3. Headroom(b, e) = Least(S)
    BY <1>3 DEF Headroom
  <2> QED
    BY <1>1, <1>3, <2>1, <2>2, <2>3
<1> QED
  BY <1>2, <1>3

\* A score is the worth by itself and at most ten points for free sessions.
LEMMA ScoreIs ==
    ASSUME NEW b, BooksOK(b), NEW e \in Encoders, NEW gaming \in Hints
    PROVE  /\ Score(b, e, gaming) = Worth(e, gaming) + Headroom(b, e)
           /\ Headroom(b, e) \in 0 .. 10
           /\ Score(b, e, gaming) \in 20 .. 120
<1>1. b.used[e] \in Nat /\ (Inventory[e].max > 0 => b.used[e] <= Inventory[e].max)
  BY DEF BooksOK, BooksTypeOK, BooksBalance
<1>2. Headroom(b, e) \in 0 .. 10
  <2>1. Headroom(b, e) = IF Inventory[e].max = 0 \/ 2 * (Inventory[e].max - b.used[e]) > 10
                         THEN 10 ELSE 2 * (Inventory[e].max - b.used[e])
    BY <1>1, HeadroomIs
  <2>2. Inventory[e].max \in Nat
    BY EncoderFields
  <2> QED
    BY <1>1, <2>1, <2>2
<1>3. Score(b, e, gaming) = Worth(e, gaming) + Headroom(b, e)
  BY DEF Score, Worth
<1> QED
  BY <1>2, <1>3, WorthIn

\* _select_encoder finds a candidate, and none scores higher.
LEMMA BestIs ==
    ASSUME NEW b, BooksOK(b), NEW gaming \in Hints
    PROVE  /\ Best(b, gaming) \in Candidates(b)
           /\ \A e \in Candidates(b) : Score(b, Best(b, gaming), gaming) >= Score(b, e, gaming)
<1> DEFINE C == Candidates(b)
           F == {120 - Score(b, e, gaming) : e \in C}
           B == {e \in C : \A f \in C : Score(b, e, gaming) >= Score(b, f, gaming)}
<1>1. C \subseteq Encoders /\ C # {}
  BY EncoderFields DEF Candidates
<1>2. \A e \in C : Score(b, e, gaming) \in 20 .. 120
  BY <1>1, ScoreIs
<1>3. PICK m \in F : \A y \in F : m <= y
  <2>1. F \subseteq Nat /\ F # {}
    BY <1>1, <1>2
  <2> HIDE DEF F
  <2> QED
    BY <2>1, Smallest
<1>4. PICK e \in C : m = 120 - Score(b, e, gaming)
  BY <1>3
<1>5. \A f \in C : 120 - Score(b, e, gaming) <= 120 - Score(b, f, gaming)
  BY <1>3, <1>4
<1>6. e \in B
  <2> HIDE DEF C, F
  <2> QED
    BY <1>2, <1>4, <1>5
<1>7. B \subseteq Nat /\ B # {}
  BY <1>1, <1>6, EncoderFields
<1>8. Least(B) \in B
  <2> HIDE DEF B
  <2> QED
    BY <1>7, LeastIs
<1>9. Best(b, gaming) = Least(B)
  BY DEF Best
<1> QED
  BY <1>8, <1>9

\* The sessions, without their order.
Rows(b) == {b.list[i] : i \in DOMAIN b.list}

\* What balanced books are made of.
LEMMA BooksFields ==
    ASSUME NEW b, BooksOK(b)
    PROVE  /\ b = [list |-> b.list, used |-> b.used]
           /\ b.list \in Seq(Sessions) /\ b.used \in [Encoders -> Nat]
           /\ Len(b.list) \in Nat /\ DOMAIN b.list = 1 .. Len(b.list)
           /\ \A i \in DOMAIN b.list : b.list[i] \in Sessions
           /\ Rows(b) \subseteq Sessions
           /\ \A e \in Encoders : b.used[e] = Cardinality(Slots(b.list, e))
<1>1. b \in [list : Seq(Sessions), used : [Encoders -> Nat]]
  BY DEF BooksOK, BooksTypeOK
<1>2. b.list \in Seq(Sessions)
  BY <1>1
<1>3. Len(b.list) \in Nat /\ DOMAIN b.list = 1 .. Len(b.list)
      /\ \A i \in 1 .. Len(b.list) : b.list[i] \in Sessions
  BY <1>2, LenProperties, ElementOfSeq
<1>4. \A e \in Encoders : b.used[e] = Cardinality(Slots(b.list, e))
  BY DEF BooksOK, BooksBalance, Slots
<1> QED
  BY <1>1, <1>2, <1>3, <1>4 DEF Rows

\* A session is found under its seat: no seat has two.
LEMMA SessionIs ==
    ASSUME NEW b, BooksOK(b), NEW s \in Rows(b)
    PROVE  SessionOf(b, s.seat) = s
<1>1. PICK i \in DOMAIN b.list : b.list[i] = s
  BY DEF Rows
<1>2. \A j \in DOMAIN b.list : b.list[j].seat = s.seat => i = j
  BY <1>1 DEF BooksOK, BooksBalance
<1>3. PlaceOf(b, s.seat) = i
  BY <1>1, <1>2 DEF PlaceOf
<1> QED
  BY <1>1, <1>3 DEF SessionOf

\* release takes off the session of its seat, and no other, and keeps
\* the books balanced.
LEMMA ReleasedIs ==
    ASSUME NEW b, BooksOK(b), NEW n
    PROVE  /\ BooksOK(Released(b, n))
           /\ Rows(Released(b, n)) = {s \in Rows(b) : s.seat # n}
           /\ \A e \in Encoders : Released(b, n).used[e] <= b.used[e]
<1>1. CASE ~Holds(b, n)
  <2>1. Released(b, n) = b
    BY <1>1 DEF Released
  <2>2. \A s \in Rows(b) : s.seat # n
    BY <1>1 DEF Holds, Rows
  <2> QED
    BY <2>1, <2>2, BooksFields
<1>2. CASE Holds(b, n)
  <2> DEFINE k == PlaceOf(b, n)
             r == RemoveAt(b.list, k)
             x == b.list[k].enc
             u == [b.used EXCEPT ![x] = IF b.used[x] > 0 THEN b.used[x] - 1 ELSE 0]
  <2>1. k \in DOMAIN b.list /\ b.list[k].seat = n
    BY <1>2 DEF Holds, PlaceOf
  <2>2. \A i \in DOMAIN b.list : b.list[i].seat = n => i = k
    BY <2>1 DEF BooksOK, BooksBalance
  <2>3. x \in Encoders
    BY <2>1, BooksFields DEF Sessions
  <2>4. Released(b, n) = [list |-> r, used |-> u]
    BY <1>2 DEF Released, SessionOf
  <2> HIDE DEF k
  <2>5. /\ r \in Seq(Sessions)
        /\ DOMAIN r = 1 .. Len(b.list) - 1
        /\ \A i \in 1 .. Len(b.list) - 1 : r[i] = b.list[IF i < k THEN i ELSE i + 1]
    BY <2>1, BooksFields, Removal, LenProperties
  <2>6. ASSUME NEW e \in Encoders
        PROVE  Cardinality(Slots(r, e)) = Cardinality(Slots(b.list, e)) - (IF x = e THEN 1 ELSE 0)
    BY <2>1, BooksFields, SlotsRemove
  <2>7. ASSUME NEW e \in Encoders
        PROVE  Cardinality(Slots(r, e)) \in Nat
    BY <2>5, SlotsFinite
  <2> HIDE DEF r
  <2>8. ASSUME NEW e \in Encoders
        PROVE  u[e] = Cardinality(Slots(r, e)) /\ u[e] <= b.used[e]
    <3>1. b.used[e] = Cardinality(Slots(b.list, e)) /\ b.used[e] \in Nat
      BY BooksFields
    <3>2. CASE e = x
      <4>1. Cardinality(Slots(r, e)) = b.used[e] - 1 /\ Cardinality(Slots(r, e)) \in Nat
        BY <2>6, <2>7, <3>1, <3>2
      <4>2. b.used[e] > 0
        BY <3>1, <4>1
      <4>3. u[e] = b.used[e] - 1
        BY <2>3, <3>2, <4>2, BooksFields
      <4> QED
        BY <3>1, <4>1, <4>3
    <3>3. CASE e # x
      <4>1. u[e] = b.used[e]
        BY <2>3, <3>3, BooksFields
      <4> QED
        BY <2>6, <3>1, <3>3, <4>1
    <3> QED
      BY <3>2, <3>3
  <2>9. u \in [Encoders -> Nat]
    <3>1. u \in [Encoders -> Int] /\ \A e \in Encoders : u[e] \in Nat
      BY <2>3, <2>7, <2>8, BooksFields
    <3> QED
      BY <3>1
  <2> HIDE DEF u, x
  <2>10. BooksTypeOK([list |-> r, used |-> u])
    BY <2>5, <2>9 DEF BooksTypeOK
  <2>11. \A i, j \in DOMAIN r : r[i].seat = r[j].seat => i = j
    <3> SUFFICES ASSUME NEW i \in DOMAIN r, NEW j \in DOMAIN r, r[i].seat = r[j].seat
                 PROVE  i = j
      OBVIOUS
    <3> DEFINE p == IF i < k THEN i ELSE i + 1
               q == IF j < k THEN j ELSE j + 1
    <3>1. p \in DOMAIN b.list /\ q \in DOMAIN b.list /\ r[i] = b.list[p] /\ r[j] = b.list[q]
      BY <2>1, <2>5, BooksFields
    <3>2. p = q
      BY <3>1 DEF BooksOK, BooksBalance
    <3> QED
      BY <2>1, <2>5, <3>2, BooksFields
  <2>12. \A e \in Encoders : Inventory[e].max > 0 => u[e] <= Inventory[e].max
    <3> SUFFICES ASSUME NEW e \in Encoders, Inventory[e].max > 0
                 PROVE  u[e] <= Inventory[e].max
      OBVIOUS
    <3>1. b.used[e] <= Inventory[e].max
      BY DEF BooksOK, BooksBalance
    <3> QED
      BY <2>8, <2>9, <3>1, BooksFields, EncoderFields
  <2>13. BooksBalance([list |-> r, used |-> u])
    BY <2>8, <2>11, <2>12 DEF BooksBalance, Slots
  <2>14. Rows([list |-> r, used |-> u]) = {s \in Rows(b) : s.seat # n}
    <3>1. ASSUME NEW i \in DOMAIN r
          PROVE  r[i] \in Rows(b) /\ r[i].seat # n
      <4> DEFINE p == IF i < k THEN i ELSE i + 1
      <4>1. p \in DOMAIN b.list /\ p # k /\ r[i] = b.list[p]
        BY <2>1, <2>5, BooksFields
      <4> QED
        BY <2>2, <4>1 DEF Rows
    <3>2. ASSUME NEW j \in DOMAIN b.list, b.list[j].seat # n
          PROVE  \E i \in DOMAIN r : r[i] = b.list[j]
      <4> DEFINE i == IF j < k THEN j ELSE j - 1
      <4>1. j # k
        BY <2>1, <3>2
      <4>2. i \in 1 .. Len(b.list) - 1 /\ (IF i < k THEN i ELSE i + 1) = j
        BY <2>1, <4>1, BooksFields
      <4> QED
        BY <2>5, <4>2
    <3> QED
      BY <3>1, <3>2 DEF Rows
  <2> QED
    BY <2>4, <2>8, <2>10, <2>13, <2>14 DEF BooksOK
<1> QED
  BY <1>1, <1>2

\* A session on the best encoder keeps the books balanced.
LEMMA GrantedIs ==
    ASSUME NEW b, BooksOK(b), NEW n \in Seats, NEW gaming \in Hints,
           \A s \in Rows(b) : s.seat # n
    PROVE  /\ BooksOK(Granted(b, n, gaming))
           /\ Rows(Granted(b, n, gaming)) =
                  Rows(b) \cup {[seat |-> n, enc |-> Best(b, gaming), gaming |-> gaming]}
<1> DEFINE x == Best(b, gaming)
           s == [seat |-> n, enc |-> x, gaming |-> gaming]
           l == Append(b.list, s)
           u == [b.used EXCEPT ![x] = b.used[x] + 1]
<1>1. x \in Encoders /\ (Inventory[x].max > 0 => b.used[x] < Inventory[x].max)
  BY BestIs DEF Candidates
<1>2. Granted(b, n, gaming) = [list |-> l, used |-> u]
  BY DEF Granted
<1> HIDE DEF x
<1>3. s \in Sessions
  BY <1>1 DEF Sessions
<1>4. /\ l \in Seq(Sessions) /\ DOMAIN l = 1 .. Len(b.list) + 1
      /\ \A i \in 1 .. Len(b.list) : l[i] = b.list[i]
      /\ l[Len(b.list) + 1] = s
  <2> HIDE DEF s
  <2> QED
    BY <1>3, AppendProperties, LenProperties, BooksFields
<1>5. ASSUME NEW e \in Encoders
      PROVE  u[e] = Cardinality(Slots(l, e))
  <2>1. Cardinality(Slots(l, e)) = Cardinality(Slots(b.list, e)) + (IF s.enc = e THEN 1 ELSE 0)
    BY <1>3, SlotsAppend, BooksFields
  <2>2. b.used[e] = Cardinality(Slots(b.list, e)) /\ b.used[e] \in Nat
    BY BooksFields
  <2> HIDE DEF l
  <2> QED
    BY <1>1, <2>1, <2>2, BooksFields
<1>6. u \in [Encoders -> Nat]
  BY <1>1, BooksFields
<1>7. ASSUME NEW e \in Encoders, Inventory[e].max > 0
      PROVE  u[e] <= Inventory[e].max
  <2>1. b.used[e] <= Inventory[e].max
    BY <1>7 DEF BooksOK, BooksBalance
  <2> QED
    BY <1>1, <1>7, <2>1, BooksFields, EncoderFields
<1>8. \A i, j \in DOMAIN l : l[i].seat = l[j].seat => i = j
  <2> SUFFICES ASSUME NEW i \in DOMAIN l, NEW j \in DOMAIN l, l[i].seat = l[j].seat
               PROVE  i = j
    OBVIOUS
  <2>1. \A h \in 1 .. Len(b.list) : b.list[h].seat # n /\ h \in DOMAIN b.list
    BY BooksFields DEF Rows
  <2>2. s.seat = n
    OBVIOUS
  <2>3. i \in 1 .. Len(b.list) \/ i = Len(b.list) + 1
    BY <1>4, BooksFields
  <2>4. j \in 1 .. Len(b.list) \/ j = Len(b.list) + 1
    BY <1>4, BooksFields
  <2> HIDE DEF l, s
  <2> QED
    BY <1>4, <2>1, <2>2, <2>3, <2>4 DEF BooksOK, BooksBalance
<1>9. Rows([list |-> l, used |-> u]) = Rows(b) \cup {s}
  <2>1. 1 .. Len(b.list) + 1 = (1 .. Len(b.list)) \cup {Len(b.list) + 1}
    BY BooksFields
  <2> HIDE DEF l, s
  <2> QED
    BY <1>4, <2>1, BooksFields DEF Rows
<1>10. BooksTypeOK([list |-> l, used |-> u])
  BY <1>4, <1>6 DEF BooksTypeOK
<1>11. BooksBalance([list |-> l, used |-> u])
  <2> HIDE DEF l, u
  <2> QED
    BY <1>5, <1>7, <1>8 DEF BooksBalance, Slots
<1>12. BooksOK(Granted(b, n, gaming))
  BY <1>2, <1>10, <1>11 DEF BooksOK
<1> QED
  BY <1>2, <1>9, <1>12 DEF x

\* allocate replaces the session of its seat and touches no other.
LEMMA AllocatedIs ==
    ASSUME NEW b, BooksOK(b), NEW n \in Seats, NEW gaming \in Hints
    PROVE  /\ BooksOK(Allocated(b, n, gaming))
           /\ Rows(Allocated(b, n, gaming)) =
                  {s \in Rows(b) : s.seat # n}
                  \cup {[seat |-> n, enc |-> Best(Released(b, n), gaming), gaming |-> gaming]}
<1>1. BooksOK(Released(b, n)) /\ Rows(Released(b, n)) = {s \in Rows(b) : s.seat # n}
  BY ReleasedIs
<1>2. \A s \in Rows(Released(b, n)) : s.seat # n
  BY <1>1
<1> QED
  BY <1>1, <1>2, GrantedIs DEF Allocated

\* Session t is s, or s on an encoder worth more than ten points more.
Upgrades(t, s) ==
    /\ t.seat = s.seat /\ t.gaming = s.gaming
    /\ t.enc = s.enc \/ Worth(t.enc, s.gaming) > Worth(s.enc, s.gaming) + 10

\* One turn of rebalance: the session stays as it is or upgrades.  It scored
\* more than twenty points higher elsewhere, at most ten of them for free
\* sessions, and its own release only adds free sessions.
LEMMA MovedIs ==
    ASSUME NEW b, BooksOK(b), NEW s \in Rows(b)
    PROVE  /\ BooksOK(Moved(b, s))
           /\ \E t \in Sessions :
                 /\ Rows(Moved(b, s)) = {r \in Rows(b) : r.seat # s.seat} \cup {t}
                 /\ Upgrades(t, s)
                 /\ Better(b, s) => t.enc # s.enc
<1>1. s \in Sessions /\ s.seat \in Seats /\ s.enc \in Encoders /\ s.gaming \in Hints
  BY BooksFields DEF Sessions
<1>2. CASE ~Better(b, s)
  <2>1. Moved(b, s) = b
    BY <1>2 DEF Moved
  <2>2. \A r \in Rows(b) : r.seat = s.seat => r = s
    BY SessionIs
  <2>3. Rows(b) = {r \in Rows(b) : r.seat # s.seat} \cup {s} /\ Upgrades(s, s)
    BY <2>2 DEF Upgrades
  <2> QED
    BY <1>1, <1>2, <2>1, <2>3
<1>3. CASE Better(b, s)
  <2> DEFINE g == s.gaming
             rel == Released(b, s.seat)
             x == Best(rel, g)
             y == Best(b, g)
             t == [seat |-> s.seat, enc |-> x, gaming |-> g]
  <2>1. Moved(b, s) = Allocated(b, s.seat, g)
    BY <1>3 DEF Moved
  <2>2. BooksOK(Moved(b, s)) /\ Rows(Moved(b, s)) = {r \in Rows(b) : r.seat # s.seat} \cup {t}
    BY <1>1, <2>1, AllocatedIs
  <2>3. /\ BooksOK(rel) /\ \A e \in Encoders : rel.used[e] <= b.used[e]
    BY ReleasedIs
  <2> HIDE DEF rel
  <2>4. y \in Candidates(b)
    BY <1>1, BestIs
  <2>5. x \in Candidates(rel) /\ \A e \in Candidates(rel) : Score(rel, x, g) >= Score(rel, e, g)
    BY <1>1, <2>3, BestIs
  <2> HIDE DEF x, y
  <2>6. x \in Encoders /\ y \in Encoders
    BY <2>4, <2>5 DEF Candidates
  <2>7. b.used[y] \in Nat /\ rel.used[y] \in Nat /\ Inventory[y].max \in Nat /\ rel.used[y] <= b.used[y]
    BY <2>3, <2>6, BooksFields, EncoderFields
  <2>8. y \in Candidates(rel)
    BY <2>4, <2>7 DEF Candidates
  <2>9. Headroom(rel, y) >= Headroom(b, y)
    <3>1. /\ Inventory[y].max > 0 => b.used[y] <= Inventory[y].max
          /\ Inventory[y].max > 0 => rel.used[y] <= Inventory[y].max
      BY <2>3, <2>6 DEF BooksOK, BooksBalance
    <3>2. Headroom(b, y) = IF Inventory[y].max = 0 \/ 2 * (Inventory[y].max - b.used[y]) > 10
                           THEN 10 ELSE 2 * (Inventory[y].max - b.used[y])
      BY <2>6, <2>7, <3>1, HeadroomIs
    <3>3. Headroom(rel, y) = IF Inventory[y].max = 0 \/ 2 * (Inventory[y].max - rel.used[y]) > 10
                             THEN 10 ELSE 2 * (Inventory[y].max - rel.used[y])
      BY <2>6, <2>7, <3>1, HeadroomIs
    <3> QED
      BY <2>7, <3>2, <3>3
  <2>10. Score(b, y, g) > Score(b, s.enc, g) + 20
    BY <1>3 DEF Better, y
  <2>11. Score(rel, x, g) >= Score(rel, y, g)
    BY <2>5, <2>8
  <2>12. /\ Score(rel, x, g) = Worth(x, g) + Headroom(rel, x) /\ Headroom(rel, x) \in 0 .. 10
         /\ Score(rel, y, g) = Worth(y, g) + Headroom(rel, y) /\ Headroom(rel, y) \in 0 .. 10
         /\ Score(b, y, g) = Worth(y, g) + Headroom(b, y) /\ Headroom(b, y) \in 0 .. 10
         /\ Score(b, s.enc, g) = Worth(s.enc, g) + Headroom(b, s.enc)
         /\ Headroom(b, s.enc) \in 0 .. 10
    BY <1>1, <2>3, <2>6, ScoreIs
  <2>13. Worth(x, g) \in 20 .. 110 /\ Worth(y, g) \in 20 .. 110 /\ Worth(s.enc, g) \in 20 .. 110
    BY <1>1, <2>6, WorthIn
  <2>14. Worth(x, g) > Worth(s.enc, g) + 10
    <3>1. \A wx, wy, ws \in 20 .. 110, hx, hy, hb, hs \in 0 .. 10 :
              wx + hx >= wy + hy /\ hy >= hb /\ wy + hb > ws + hs + 20 => wx > ws + 10
      OBVIOUS
    <3>2. Worth(x, g) + Headroom(rel, x) >= Worth(y, g) + Headroom(rel, y)
      BY <2>11, <2>12
    <3>3. Worth(y, g) + Headroom(b, y) > Worth(s.enc, g) + Headroom(b, s.enc) + 20
      BY <2>10, <2>12
    <3> QED
      BY <2>9, <2>12, <2>13, <3>1, <3>2, <3>3
  <2>15. x # s.enc
    BY <2>13, <2>14
  <2>16. t \in Sessions /\ Upgrades(t, s) /\ t.enc # s.enc
    BY <1>1, <2>6, <2>14, <2>15 DEF Sessions, Upgrades
  <2> QED
    BY <2>2, <2>16
<1> QED
  BY <1>2, <1>3

\* What rebalance has made of b when it has looked at the first n sessions.
WalkOK(b, n, c) ==
    /\ BooksOK(c)
    /\ \A i \in DOMAIN b.list : \E t \in Rows(c) : Upgrades(t, b.list[i]) /\ (i > n => t = b.list[i])

\* One more session looked at.
LEMMA WalkStep ==
    ASSUME NEW b, BooksOK(b), NEW n \in 1 .. Len(b.list), NEW c, WalkOK(b, n - 1, c)
    PROVE  WalkOK(b, n, Moved(c, b.list[n]))
<1> DEFINE s == b.list[n]
           d == Moved(c, s)
<1>1. DOMAIN b.list = 1 .. Len(b.list) /\ Len(b.list) \in Nat /\ n \in DOMAIN b.list
  BY BooksFields
<1>2. BooksOK(c) /\ s \in Rows(c)
  BY <1>1 DEF WalkOK
<1>3. BooksOK(d)
  BY <1>2, MovedIs
<1>4. PICK t \in Sessions : Rows(d) = {r \in Rows(c) : r.seat # s.seat} \cup {t} /\ Upgrades(t, s)
  BY <1>2, MovedIs
<1> HIDE DEF d
<1>5. ASSUME NEW i \in DOMAIN b.list
      PROVE  \E u \in Rows(d) : Upgrades(u, b.list[i]) /\ (i > n => u = b.list[i])
  <2>1. CASE i = n
    BY <1>1, <1>4, <2>1
  <2>2. CASE i # n
    <3>1. PICK u \in Rows(c) : Upgrades(u, b.list[i]) /\ (i > n - 1 => u = b.list[i])
      BY <1>5 DEF WalkOK
    <3>2. b.list[i].seat # s.seat
      BY <1>1, <2>2 DEF BooksOK, BooksBalance
    <3>3. u \in Rows(d)
      BY <1>4, <3>1, <3>2 DEF Upgrades
    <3> QED
      BY <1>1, <3>1, <3>3
  <2> QED
    BY <2>1, <2>2
<1>6. WalkOK(b, n, d)
  <2> HIDE DEF s
  <2> QED
    BY <1>3, <1>5 DEF WalkOK
<1> QED
  BY <1>6 DEF d

\* The books of the walk are what their recursive definition says.
LEMMA WalkedExists ==
    ASSUME NEW b, Len(b.list) \in Nat
    PROVE  /\ Walked(b)[0] = b
           /\ \A n \in 1 .. Len(b.list) : Walked(b)[n] = Moved(Walked(b)[n - 1], b.list[n])
<1> DEFINE L == Len(b.list)
           Step(f, n) == IF n = 0 THEN b ELSE Moved(f[n - 1], b.list[n])
           Prefix(m, f) == f = [n \in 0 .. m |-> Step(f, n)]
           S == {m \in 0 .. L : \E f : Prefix(m, f)}
<1>1. 0 \in S
  <2> DEFINE f == [n \in 0 .. 0 |-> b]
  <2>1. Prefix(0, f)
    OBVIOUS
  <2> HIDE DEF f, Prefix
  <2> QED
    BY <2>1
<1>2. ASSUME NEW m \in 1 .. L, m - 1 \in S
      PROVE  m \in S
  <2>1. PICK f : Prefix(m - 1, f)
    BY <1>2
  <2> DEFINE g == [n \in 0 .. m |-> IF n = m THEN Moved(f[m - 1], b.list[m]) ELSE f[n]]
  <2>2. \A n \in 0 .. m : g[n] = Step(g, n)
    <3> SUFFICES ASSUME NEW n \in 0 .. m
                 PROVE  g[n] = Step(g, n)
      OBVIOUS
    <3>1. CASE n = m
      <4>1. m - 1 \in 0 .. m /\ m - 1 # m /\ m # 0
        OBVIOUS
      <4>2. g[n - 1] = f[m - 1]
        BY <3>1, <4>1
      <4> QED
        BY <3>1, <4>1, <4>2
    <3>2. CASE n # m
      <4>1. n \in 0 .. m - 1
        BY <3>2
      <4>2. f[n] = Step(f, n)
        BY <2>1, <4>1
      <4>3. n # 0 => n - 1 \in 0 .. m /\ n - 1 # m
        BY <4>1
      <4>4. n # 0 => g[n - 1] = f[n - 1]
        BY <4>3
      <4> QED
        BY <3>2, <4>2, <4>4
    <3> QED
      BY <3>1, <3>2
  <2>3. Prefix(m, g)
    <3>1. g = [n \in 0 .. m |-> g[n]]
      OBVIOUS
    <3> HIDE DEF g
    <3> QED
      BY <2>2, <3>1
  <2> HIDE DEF g, Prefix
  <2> QED
    BY <2>3
<1>3. L \in S
  <2>1. L \in Nat
    OBVIOUS
  <2> HIDE DEF S, L
  <2>2. \A m \in 1 .. L : m - 1 \in S => m \in S
    BY <1>2
  <2>3. \A m \in 0 .. L : m \in S
    BY <1>1, <2>1, <2>2, UpTo
  <2> QED
    BY <2>1, <2>3
<1>4. PICK f : Prefix(L, f)
  BY <1>3
<1>5. Walked(b) = CHOOSE g : Prefix(L, g)
  BY DEF Walked
<1>6. Prefix(L, Walked(b))
  BY <1>4, <1>5
<1> HIDE DEF L
<1>7. \A n \in 0 .. L : Walked(b)[n] = Step(Walked(b), n)
  BY <1>6
<1> QED
  BY <1>7 DEF L

\* What rebalance makes of the books: every session is there, upgraded or
\* as it was.
LEMMA RebalancedIs ==
    ASSUME NEW b, BooksOK(b)
    PROVE  WalkOK(b, Len(b.list), Rebalanced(b))
<1> DEFINE L == Len(b.list)
           S == {n \in 0 .. L : WalkOK(b, n, Walked(b)[n])}
<1>1. L \in Nat /\ DOMAIN b.list = 1 .. L
  BY BooksFields
<1>2. /\ Walked(b)[0] = b
      /\ \A n \in 1 .. L : Walked(b)[n] = Moved(Walked(b)[n - 1], b.list[n])
  BY <1>1, WalkedExists
<1>3. WalkOK(b, 0, b)
  <2>1. ASSUME NEW i \in DOMAIN b.list
        PROVE  b.list[i] \in Rows(b) /\ Upgrades(b.list[i], b.list[i])
    BY DEF Rows, Upgrades
  <2> QED
    BY <2>1 DEF WalkOK
<1>4. 0 \in S
  BY <1>1, <1>2, <1>3
<1>5. \A n \in 1 .. L : n - 1 \in S => n \in S
  <2> SUFFICES ASSUME NEW n \in 1 .. L, WalkOK(b, n - 1, Walked(b)[n - 1])
               PROVE  WalkOK(b, n, Walked(b)[n])
    BY <1>1
  <2> QED
    BY <1>2, WalkStep
<1> HIDE DEF S
<1>6. \A n \in 0 .. L : n \in S
  BY <1>1, <1>4, <1>5, UpTo
<1> QED
  BY <1>1, <1>6 DEF S, Rebalanced

\* set_gaming_gpu keeps the books balanced.
LEMMA HintedIs ==
    ASSUME NEW b, BooksOK(b), NEW n \in Seats, NEW gaming \in Hints
    PROVE  BooksOK(Hinted(b, n, gaming))
<1> DEFINE l == [i \in DOMAIN b.list |-> IF b.list[i].seat = n THEN [b.list[i] EXCEPT !.gaming = gaming]
                                         ELSE b.list[i]]
           c == [b EXCEPT !.list = l]
<1>1. \A i \in 1 .. Len(b.list) :
        /\ l[i] \in Sessions /\ l[i].seat = b.list[i].seat /\ l[i].enc = b.list[i].enc
  <2> TAKE i \in 1 .. Len(b.list)
  <2>1. i \in DOMAIN b.list /\ b.list[i] \in Sessions
    BY BooksFields
  <2>2. \A s \in Sessions : LET h == [s EXCEPT !.gaming = gaming]
                            IN  h \in Sessions /\ h.seat = s.seat /\ h.enc = s.enc
    BY DEF Sessions
  <2>3. l[i] = IF b.list[i].seat = n THEN [b.list[i] EXCEPT !.gaming = gaming] ELSE b.list[i]
    BY <2>1
  <2> HIDE DEF l
  <2> QED
    BY <2>1, <2>2, <2>3
<1>2. l \in Seq(Sessions) /\ DOMAIN l = 1 .. Len(b.list)
  <2>1. l = [i \in 1 .. Len(b.list) |-> l[i]]
    BY BooksFields
  <2> HIDE DEF l
  <2>2. Len(b.list) \in Nat
    BY BooksFields
  <2>3. [i \in 1 .. Len(b.list) |-> l[i]] \in Seq(Sessions)
    BY <1>1, <2>2, IsASeq
  <2> QED
    BY <2>1, <2>3
<1>3. c = [list |-> l, used |-> b.used]
  <2>1. b \in [list : Seq(Sessions), used : [Encoders -> Nat]]
    BY DEF BooksOK, BooksTypeOK
  <2> HIDE DEF l
  <2> QED
    BY <2>1
<1> HIDE DEF l, c
<1>4. \A e \in Encoders : Slots(c.list, e) = Slots(b.list, e)
  BY <1>1, <1>2, <1>3, BooksFields DEF Slots
<1>5. BooksTypeOK(c)
  BY <1>2, <1>3, BooksFields DEF BooksTypeOK
<1>6. BooksBalance(c)
  <2>1. \A e \in Encoders : Inventory[e].max > 0 => c.used[e] <= Inventory[e].max
    BY <1>3 DEF BooksOK, BooksBalance
  <2>2. \A e \in Encoders : c.used[e] = Cardinality(Slots(c.list, e))
    BY <1>3, <1>4, BooksFields
  <2>3. \A i, j \in DOMAIN c.list : c.list[i].seat = c.list[j].seat => i = j
    BY <1>1, <1>2, <1>3, BooksFields DEF BooksOK, BooksBalance
  <2> QED
    BY <2>1, <2>2, <2>3 DEF BooksBalance, Slots
<1>7. BooksOK(Rebalanced(c))
  BY <1>5, <1>6, RebalancedIs DEF BooksOK, WalkOK
<1>8. Hinted(b, n, gaming) = Rebalanced(c)
  BY DEF Hinted, c, l
<1> QED
  BY <1>7, <1>8

\* On balanced books every move changes the encoder, and no session comes
\* back to the encoder a rebalance has just taken it from.
LEMMA BalancedBooksStayPut ==
    ASSUME NEW b, BooksOK(b)
    PROVE  MovesPay(b) /\ NoReturn(b)
<1>1. \A i \in DOMAIN b.list : b.list[i] \in Rows(b) /\ b.list[i] \in Sessions
  BY BooksFields DEF Rows
<1>2. MovesPay(b)
  <2> SUFFICES ASSUME NEW i \in DOMAIN b.list, Better(b, b.list[i])
               PROVE  SessionOf(Moved(b, b.list[i]), b.list[i].seat).enc # b.list[i].enc
    BY DEF MovesPay
  <2> DEFINE s == b.list[i]
  <2>1. PICK t \in Sessions :
            /\ Rows(Moved(b, s)) = {r \in Rows(b) : r.seat # s.seat} \cup {t}
            /\ Upgrades(t, s) /\ t.enc # s.enc
    BY <1>1, MovedIs
  <2>2. SessionOf(Moved(b, s), t.seat) = t
    BY <1>1, <2>1, MovedIs, SessionIs
  <2> QED
    BY <2>1, <2>2 DEF Upgrades
<1>3. NoReturn(b)
  <2> DEFINE once == Rebalanced(b)
             twice == Rebalanced(once)
  <2> SUFFICES ASSUME NEW i \in DOMAIN b.list,
                      SessionOf(twice, b.list[i].seat).enc = b.list[i].enc
               PROVE  SessionOf(once, b.list[i].seat).enc = b.list[i].enc
    BY DEF NoReturn
  <2> DEFINE s == b.list[i]
  <2>1. WalkOK(b, Len(b.list), once) /\ BooksOK(once)
    BY RebalancedIs DEF WalkOK
  <2>2. WalkOK(once, Len(once.list), twice) /\ BooksOK(twice)
    BY <2>1, RebalancedIs DEF WalkOK
  <2> HIDE DEF once, twice
  <2>3. PICK t \in Rows(once) : Upgrades(t, s)
    BY <2>1 DEF WalkOK
  <2>4. PICK u \in Rows(twice) : Upgrades(u, t)
    BY <2>2, <2>3 DEF WalkOK, Rows
  <2>5. SessionOf(once, s.seat) = t /\ SessionOf(twice, s.seat) = u
    BY <2>1, <2>2, <2>3, <2>4, SessionIs DEF Upgrades
  <2>6. u.enc = s.enc
    BY <2>5
  <2>7. s \in Sessions /\ t \in Sessions
    BY <1>1, <2>1, BooksFields
  <2>8. Worth(t.enc, s.gaming) \in 20 .. 110 /\ Worth(s.enc, s.gaming) \in 20 .. 110
    BY <2>7, WorthIn DEF Sessions
  <2>9. CASE t.enc # s.enc
    <3>1. Worth(t.enc, s.gaming) > Worth(s.enc, s.gaming) + 10
      BY <2>3, <2>9 DEF Upgrades
    <3>2. Worth(s.enc, s.gaming) > Worth(t.enc, s.gaming) + 10
      BY <2>3, <2>4, <2>6, <2>9 DEF Upgrades
    <3> QED
      BY <2>8, <3>1, <3>2
  <2> QED
    BY <2>5, <2>9
<1> QED
  BY <1>2, <1>3

(***************************************************************************)
(* The seat list and the tasks                                             *)
(***************************************************************************)

\* The records of the seat list.
SeatRecs == [name : Seats, closing : BOOLEAN]

\* What a destroying task knows: the position of its seat, unless a pop below
\* has shifted it.
PlacedAt(f, ss) ==
    f.pc \in {"stop", "unsink"} =>
        /\ f.pos # 0
        /\ ~f.shifted => f.pos <= Len(ss) /\ ss[f.pos].name = f.seat

\* The inductive invariant of the seat manager ...
SeatInv ==
    /\ SeatTypeOK
    /\ BooksBalance(books)
    /\ co[scaler].pc = "sink" => co[scaler].to \in SeatTargets
    /\ \A t \in Tasks : PlacedAt(co[t], seats)

\* ... and with the hubs.
HotInv == HotTypeOK /\ SeatInv

\* A seat that is appended moves no other.
LEMMA PlacedAppend ==
    ASSUME NEW ss \in Seq(SeatRecs), NEW r \in SeatRecs, NEW f \in Frames, PlacedAt(f, ss)
    PROVE  PlacedAt(f, Append(ss, r))
<1>1. Len(ss) \in Nat /\ Len(Append(ss, r)) = Len(ss) + 1
      /\ \A i \in 1 .. Len(ss) : Append(ss, r)[i] = ss[i]
  BY AppendProperties, LenProperties
<1> QED
  BY <1>1 DEF PlacedAt, Frames

\* A seat that begins to close keeps its place and its name.
LEMMA Closing ==
    ASSUME NEW ss \in Seq(SeatRecs), NEW p \in 1 .. Len(ss)
    PROVE  LET cs == [ss EXCEPT ![p].closing = TRUE]
           IN  /\ cs \in Seq(SeatRecs) /\ Len(cs) = Len(ss)
               /\ \A i \in 1 .. Len(ss) : cs[i].name = ss[i].name
<1> DEFINE r == [ss[p] EXCEPT !.closing = TRUE]
<1>1. ss[p] \in SeatRecs /\ Len(ss) \in Nat /\ DOMAIN ss = 1 .. Len(ss)
  BY ElementOfSeq, LenProperties
<1>2. r \in SeatRecs /\ r.name = ss[p].name
  BY <1>1 DEF SeatRecs
<1> HIDE DEF r
<1>3. /\ [ss EXCEPT ![p] = r] \in Seq(SeatRecs)
      /\ Len([ss EXCEPT ![p] = r]) = Len(ss)
      /\ \A i \in 1 .. Len(ss) : [ss EXCEPT ![p] = r][i] = IF i = p THEN r ELSE ss[i]
  BY <1>2, ExceptSeq
<1>4. [ss EXCEPT ![p].closing = TRUE] = [ss EXCEPT ![p] = r]
  BY <1>1 DEF r
<1> QED
  BY <1>2, <1>3, <1>4

\* A seat that begins to close moves no other.
LEMMA PlacedClosing ==
    ASSUME NEW ss \in Seq(SeatRecs), NEW p \in 1 .. Len(ss), NEW f \in Frames, PlacedAt(f, ss)
    PROVE  PlacedAt(f, [ss EXCEPT ![p].closing = TRUE])
<1>1. Len(ss) \in Nat
  BY LenProperties
<1> QED
  BY <1>1, Closing DEF PlacedAt, Frames

\* A pop leaves the tasks below it where they were.
LEMMA PlacedRemove ==
    ASSUME NEW ss \in Seq(SeatRecs), NEW p \in 1 .. Len(ss), NEW f \in Frames, PlacedAt(f, ss),
           f.pc \in {"stop", "unsink"} /\ p <= f.pos => f.shifted
    PROVE  PlacedAt(f, RemoveAt(ss, p))
<1>1. Len(ss) \in Nat
  BY LenProperties
<1>2. /\ Len(RemoveAt(ss, p)) = Len(ss) - 1
      /\ \A i \in 1 .. Len(ss) - 1 : RemoveAt(ss, p)[i] = ss[IF i < p THEN i ELSE i + 1]
  BY Removal
<1> SUFFICES ASSUME f.pc \in {"stop", "unsink"}, ~f.shifted
             PROVE  f.pos # 0 /\ f.pos <= Len(ss) - 1 /\ RemoveAt(ss, p)[f.pos].name = f.seat
  BY <1>2 DEF PlacedAt
<1>3. f.pos \in Nat \ {0} /\ f.pos <= Len(ss) /\ ss[f.pos].name = f.seat
  BY DEF PlacedAt, Frames
<1>4. f.pos < p
  BY <1>3
<1> QED
  BY <1>1, <1>2, <1>3, <1>4

\* The books after k seats of start() are what their recursive definition says.
LEMMA StartedExists ==
    ASSUME StartSeats \in Nat, NEW gaming
    PROVE  /\ Started(gaming)[0] = NoBooks
           /\ \A n \in 1 .. StartSeats : Started(gaming)[n] =
                  Allocated(Started(gaming)[n - 1], n - 1, gaming[n])
<1> DEFINE L == StartSeats
           Step(f, n) == IF n = 0 THEN NoBooks ELSE Allocated(f[n - 1], n - 1, gaming[n])
           Prefix(m, f) == f = [n \in 0 .. m |-> Step(f, n)]
           S == {m \in 0 .. L : \E f : Prefix(m, f)}
<1>1. 0 \in S
  <2> DEFINE f == [n \in 0 .. 0 |-> NoBooks]
  <2>1. Prefix(0, f)
    OBVIOUS
  <2> HIDE DEF f, Prefix
  <2> QED
    BY <2>1
<1>2. ASSUME NEW m \in 1 .. L, m - 1 \in S
      PROVE  m \in S
  <2>1. PICK f : Prefix(m - 1, f)
    BY <1>2
  <2> DEFINE g == [n \in 0 .. m |-> IF n = m THEN Allocated(f[m - 1], m - 1, gaming[m]) ELSE f[n]]
  <2>2. \A n \in 0 .. m : g[n] = Step(g, n)
    <3> SUFFICES ASSUME NEW n \in 0 .. m
                 PROVE  g[n] = Step(g, n)
      OBVIOUS
    <3>1. CASE n = m
      <4>1. m - 1 \in 0 .. m /\ m - 1 # m /\ m # 0
        OBVIOUS
      <4>2. g[n - 1] = f[m - 1]
        BY <3>1, <4>1
      <4> QED
        BY <3>1, <4>1, <4>2
    <3>2. CASE n # m
      <4>1. n \in 0 .. m - 1
        BY <3>2
      <4>2. f[n] = Step(f, n)
        BY <2>1, <4>1
      <4>3. n # 0 => n - 1 \in 0 .. m /\ n - 1 # m
        BY <4>1
      <4>4. n # 0 => g[n - 1] = f[n - 1]
        BY <4>3
      <4> QED
        BY <3>2, <4>2, <4>4
    <3> QED
      BY <3>1, <3>2
  <2>3. Prefix(m, g)
    <3>1. g = [n \in 0 .. m |-> g[n]]
      OBVIOUS
    <3> HIDE DEF g
    <3> QED
      BY <2>2, <3>1
  <2> HIDE DEF g, Prefix
  <2> QED
    BY <2>3
<1>3. L \in S
  <2>1. L \in Nat
    OBVIOUS
  <2> HIDE DEF S, L
  <2>2. \A m \in 1 .. L : m - 1 \in S => m \in S
    BY <1>2
  <2>3. \A m \in 0 .. L : m \in S
    BY <1>1, <2>1, <2>2, UpTo
  <2> QED
    BY <2>1, <2>3
<1>4. PICK f : Prefix(L, f)
  BY <1>3
<1>5. Started(gaming) = CHOOSE g : Prefix(L, g)
  BY DEF Started
<1>6. Prefix(L, Started(gaming))
  BY <1>4, <1>5
<1> HIDE DEF L
<1>7. \A n \in 0 .. L : Started(gaming)[n] = Step(Started(gaming), n)
  BY <1>6
<1> QED
  BY <1>7 DEF L

\* An allocator without sessions is balanced.
LEMMA NoBooksOK == BooksOK(NoBooks)
<1>1. NoBooks.list = <<>> /\ NoBooks.used = [e \in Encoders |-> 0]
  BY DEF NoBooks
<1>2. NoBooks \in [list : Seq(Sessions), used : [Encoders -> Nat]]
  BY EmptySeq DEF NoBooks
<1>3. DOMAIN NoBooks.list = {}
  BY <1>1
<1>4. \A e \in Encoders : {i \in DOMAIN NoBooks.list : NoBooks.list[i].enc = e} = {}
  BY <1>3
<1>5. \A e \in Encoders : NoBooks.used[e] = 0 /\ Inventory[e].max \in Nat
  BY <1>1, EncoderFields
<1> QED
  BY <1>2, <1>3, <1>4, <1>5, FS_EmptySet DEF BooksOK, BooksTypeOK, BooksBalance

\* So is one that has given every seat of start() its session.
LEMMA StartedOK ==
    ASSUME NEW gaming \in [1 .. StartSeats -> Hints]
    PROVE  BooksOK(Started(gaming)[StartSeats])
<1> DEFINE B(n) == Started(gaming)[n]
           S == {n \in 0 .. StartSeats : BooksOK(B(n))}
<1>1. StartSeats \in Nat /\ \A n \in 1 .. StartSeats : n - 1 \in Seats
  BY SeatAssumption
<1>2. B(0) = NoBooks
      /\ \A n \in 1 .. StartSeats : B(n) = Allocated(B(n - 1), n - 1, gaming[n])
  BY <1>1, StartedExists
<1> HIDE DEF B
<1>3. 0 \in S
  BY <1>1, <1>2, NoBooksOK
<1>4. \A n \in 1 .. StartSeats : n - 1 \in S => n \in S
  <2> SUFFICES ASSUME NEW n \in 1 .. StartSeats, BooksOK(B(n - 1))
               PROVE  BooksOK(B(n))
    BY <1>1
  <2> QED
    BY <1>1, <1>2, AllocatedIs
<1> HIDE DEF S
<1>5. \A n \in 0 .. StartSeats : n \in S
  BY <1>1, <1>3, <1>4, UpTo
<1>6. BooksOK(B(StartSeats))
  BY <1>1, <1>5 DEF S
<1> QED
  BY <1>6 DEF B

\* What the invariant says of the list, the tasks and the target.
LEMMA SeatFacts ==
    ASSUME SeatInv
    PROVE  /\ BooksOK(books)
           /\ seats \in Seq(SeatRecs) /\ Len(seats) \in Nat /\ DOMAIN seats = 1 .. Len(seats)
           /\ \A i \in 1 .. Len(seats) : seats[i] \in SeatRecs /\ seats[i].name \in Seats
           /\ co \in [Tasks -> Frames]
           /\ \A t \in Tasks : co[t] \in Frames /\ co[t].seat \in Seats /\ co[t].pos \in Nat /\ co[t].to \in Nat
           /\ Seats \subseteq Nat
           /\ want \in Nat /\ (want # 0 => want \in SeatTargets /\ want \in Nat /\ want # 0)
<1>1. seats \in Seq(SeatRecs)
  BY DEF SeatInv, SeatTypeOK, SeatRecs
<1>2. Len(seats) \in Nat /\ DOMAIN seats = 1 .. Len(seats)
      /\ \A i \in 1 .. Len(seats) : seats[i] \in SeatRecs
  BY <1>1, LenProperties, ElementOfSeq
<1>3. want \in Nat /\ (want # 0 => want \in SeatTargets)
  BY SeatAssumption DEF SeatInv, SeatTypeOK
<1>4. co \in [Tasks -> Frames]
  BY DEF SeatInv, SeatTypeOK
<1>5. \A t \in Tasks : co[t] \in Frames /\ co[t].seat \in Seats /\ co[t].pos \in Nat /\ co[t].to \in Nat
  BY <1>4 DEF Frames
<1>6. \A r \in SeatRecs : r.name \in Seats
  BY DEF SeatRecs
<1> QED
  BY <1>1, <1>2, <1>3, <1>4, <1>5, <1>6, SeatAssumption DEF SeatInv, SeatTypeOK, BooksOK

\* A task that does nothing is typed and knows no position.
LEMMA IdleOK ==
    /\ Idle \in Frames
    /\ \A ss : PlacedAt(Idle, ss)
    /\ Idle.pc = "idle"
<1>1. 0 \in Seats
  BY SeatAssumption
<1> QED
  BY <1>1 DEF Idle, Frames, PlacedAt

\* A seat that create_seat lists.
LEMMA ListedOK ==
    ASSUME SeatInv, NEW n \in Seats
    PROVE  /\ Listed(n) \in Seq(SeatRecs)
           /\ \A f \in Frames : PlacedAt(f, seats) => PlacedAt(f, Listed(n))
<1>1. [name |-> n, closing |-> FALSE] \in SeatRecs
  BY DEF SeatRecs
<1> QED
  BY <1>1, SeatFacts, AppendProperties, PlacedAppend DEF Listed

\* create_seat up to its await.
LEMMA BeginCreateOK ==
    ASSUME SeatInv, NEW t \in Tasks, NEW n \in Seats, NEW to \in Nat, BeginCreate(t, n, to)
    PROVE  /\ BooksOK(books')
           /\ co' \in [Tasks -> Frames]
           /\ co'[t] = [Idle EXCEPT !.pc = "sink", !.seat = n, !.to = to]
           /\ co'[t].pc = "sink" /\ co'[t].to = to /\ \A ss : PlacedAt(co'[t], ss)
           /\ \A u \in Tasks : u # t => co'[u] = co[u]
<1> DEFINE f == [Idle EXCEPT !.pc = "sink", !.seat = n, !.to = to]
<1>1. NoGpu \in Hints
  BY DEF Hints
<1>2. BooksOK(books')
  BY <1>1, SeatFacts, AllocatedIs DEF BeginCreate
<1>3. f \in Frames /\ f.pc = "sink" /\ f.to = to
  BY IdleOK DEF Frames, Idle
<1>4. co' = [co EXCEPT ![t] = f]
  BY DEF BeginCreate
<1> HIDE DEF f
<1> QED
  BY <1>2, <1>3, <1>4, SeatFacts DEF PlacedAt, f

\* destroy_seat up to its await.
LEMMA BeginDestroyOK ==
    ASSUME SeatInv, NEW t \in Tasks, NEW pos \in 1 .. Len(seats), NEW to \in Nat,
           BeginDestroy(t, pos, to)
    PROVE  /\ seats' \in Seq(SeatRecs)
           /\ co' \in [Tasks -> Frames]
           /\ \A u \in Tasks : PlacedAt(co'[u], seats')
           /\ co'[t].pc = "stop"
           /\ \A u \in Tasks : u # t => co'[u] = co[u]
<1> DEFINE n == seats[pos].name
           f == [Idle EXCEPT !.pc = "stop", !.seat = n, !.pos = pos, !.to = to]
<1>1. n \in Seats /\ pos \in Nat /\ pos # 0
  BY SeatFacts
<1>2. f \in Frames /\ f.pc = "stop" /\ ~f.shifted /\ f.pos = pos /\ f.seat = n
  BY <1>1, IdleOK DEF Frames, Idle
<1>3. co' = [co EXCEPT ![t] = f] /\ seats' = [seats EXCEPT ![pos].closing = TRUE]
  BY DEF BeginDestroy
<1>4. seats' \in Seq(SeatRecs) /\ Len(seats') = Len(seats)
      /\ \A i \in 1 .. Len(seats) : seats'[i].name = seats[i].name
  BY <1>3, SeatFacts, Closing
<1> HIDE DEF f
<1>5. ASSUME NEW u \in Tasks
      PROVE  PlacedAt(co'[u], seats')
  <2>1. CASE u = t
    <3>1. co'[u] = f
      BY <1>3, <2>1, SeatFacts
    <3> QED
      BY <1>1, <1>2, <1>4, <3>1, SeatFacts DEF PlacedAt
  <2>2. CASE u # t
    <3>1. co'[u] = co[u] /\ PlacedAt(co[u], seats) /\ co[u] \in Frames
      BY <1>3, <2>2, SeatFacts DEF SeatInv
    <3> QED
      BY <1>3, <3>1, SeatFacts, PlacedClosing
  <2> QED
    BY <2>1, <2>2
<1> QED
  BY <1>2, <1>3, <1>4, <1>5, SeatFacts

\* A pop of destroy_seat: the list without that seat, and every other task
\* knows a position that is right or is marked as shifted.
LEMMA PopOK ==
    ASSUME SeatInv, NEW pos \in 1 .. Len(seats)
    PROVE  /\ Popped(pos) \in Seq(SeatRecs)
           /\ Len(Popped(pos)) = Len(seats) - 1
           /\ \A i \in 1 .. Len(seats) - 1 : Popped(pos)[i] = seats[IF i < pos THEN i ELSE i + 1]
           /\ ShiftedBy(pos) \in [Tasks -> Frames]
           /\ \A u \in Tasks : PlacedAt(ShiftedBy(pos)[u], Popped(pos))
           /\ \A u \in Tasks : ShiftedBy(pos)[u].pc = co[u].pc /\ ShiftedBy(pos)[u].to = co[u].to
<1>1. /\ Popped(pos) \in Seq(SeatRecs)
      /\ Len(Popped(pos)) = Len(seats) - 1
      /\ \A i \in 1 .. Len(seats) - 1 : Popped(pos)[i] = seats[IF i < pos THEN i ELSE i + 1]
  BY SeatFacts, Removal DEF Popped
<1>2. ASSUME NEW u \in Tasks
      PROVE  /\ ShiftedBy(pos)[u] \in Frames
             /\ PlacedAt(ShiftedBy(pos)[u], Popped(pos))
             /\ ShiftedBy(pos)[u].pc = co[u].pc /\ ShiftedBy(pos)[u].to = co[u].to
  <2>1. co[u] \in Frames /\ PlacedAt(co[u], seats)
    BY SeatFacts DEF SeatInv
  <2>2. CASE co[u].pc \in {"stop", "unsink"} /\ pos <= co[u].pos
    <3> DEFINE f == [co[u] EXCEPT !.shifted = TRUE]
    <3>1. ShiftedBy(pos)[u] = f
      BY <2>2 DEF ShiftedBy
    <3>2. f \in Frames /\ f.shifted /\ f.pc = co[u].pc /\ f.pos = co[u].pos /\ f.to = co[u].to
      BY <2>1 DEF Frames
    <3>3. f.pos # 0
      BY <2>1, <2>2, <3>2 DEF PlacedAt
    <3> HIDE DEF f
    <3> QED
      BY <3>1, <3>2, <3>3 DEF PlacedAt
  <2>3. CASE ~(co[u].pc \in {"stop", "unsink"} /\ pos <= co[u].pos)
    <3>1. ShiftedBy(pos)[u] = co[u]
      BY <2>3 DEF ShiftedBy
    <3> QED
      BY <2>1, <2>3, <3>1, SeatFacts, PlacedRemove DEF Popped
  <2> QED
    BY <2>2, <2>3
<1>3. ShiftedBy(pos) \in [Tasks -> Frames]
  BY <1>2 DEF ShiftedBy
<1> QED
  BY <1>1, <1>2, <1>3

(***************************************************************************)
(* The steps of the seat manager                                           *)
(***************************************************************************)

\* The part of the invariant that speaks of the list and the tasks.
TasksOK ==
    /\ seats \in Seq(SeatRecs)
    /\ co \in [Tasks -> Frames]
    /\ co[scaler].pc = "sink" => co[scaler].to \in SeatTargets
    /\ \A t \in Tasks : PlacedAt(co[t], seats)

\* The invariant, split into the books, the list with its tasks and the rest.
LEMMA SeatInvHas ==
    ASSUME SeatInv
    PROVE  /\ BooksOK(books) /\ TasksOK /\ missed \in BOOLEAN
           /\ want \in SeatTargets \cup {0}
           /\ spent \in [changes : 0 .. MaxChanges, hints : 0 .. MaxHints]
BY DEF SeatInv, SeatTypeOK, TasksOK, BooksOK, SeatRecs

\* The scaling loop is a task, and neither creates for a hub nor destroys.
LEMMA ScalerIsNoOther ==
    /\ scaler \in Tasks /\ Creators \subseteq Tasks /\ Destroyers \subseteq Tasks
    /\ \A t \in Creators \cup Destroyers : t # scaler
BY SeatAssumption DEF Tasks

\* The calls to the allocator that no task waits for.
LEMMA BooksStep ==
    ASSUME SeatInv
    PROVE  /\ BooksOK(Rebalanced(books))
           /\ \A n : BooksOK(Released(books, n))
           /\ \A n \in Seats, g \in Gpus : BooksOK(Hinted(books, n, g))
<1>1. \A g \in Gpus : g \in Hints
  BY DEF Hints
<1> QED
  BY <1>1, SeatFacts, RebalancedIs, ReleasedIs, HintedIs DEF WalkOK

\* The scaling loop begins: it creates or destroys its first seat.
LEMMA ConfigPollKeeps ==
    ASSUME SeatInv, ConfigPoll
    PROVE  SeatInv'
<1>1. Len(seats) \in Nat
  BY SeatFacts
<1>2. want \in SeatTargets /\ want \in Nat /\ want # 0 /\ want # Len(seats) /\ co[scaler].pc = "idle"
      /\ want' = want /\ missed' = missed /\ spent' = spent
  BY SeatFacts DEF ConfigPoll
<1>3. CASE want > Len(seats)
  <2>1. Len(seats) \in Seats
    <3>1. Len(seats) \in 0 .. want - 1
      BY <1>1, <1>2, <1>3
    <3> QED
      BY <1>2, <3>1, SeatAssumption
  <2>2. BeginCreate(scaler, Len(seats), want) /\ seats' = seats
    BY <1>3 DEF ConfigPoll
  <2>3. /\ BooksOK(books') /\ co' \in [Tasks -> Frames]
        /\ co'[scaler].to = want /\ \A ss : PlacedAt(co'[scaler], ss)
        /\ \A u \in Tasks : u # scaler => co'[u] = co[u]
    BY <1>2, <2>1, <2>2, ScalerIsNoOther, BeginCreateOK
  <2>4. \A t \in Tasks : PlacedAt(co'[t], seats')
    BY <2>2, <2>3, SeatInvHas DEF TasksOK
  <2>5. TasksOK'
    BY <1>2, <2>2, <2>3, <2>4, SeatInvHas DEF TasksOK
  <2> QED
    BY <1>2, <2>2, <2>3, <2>5, SeatInvHas DEF SeatInv, SeatTypeOK, TasksOK, BooksOK, SeatRecs
<1>4. CASE ~(want > Len(seats))
  <2>1. Len(seats) \in 1 .. Len(seats)
    BY <1>1, <1>2, <1>4
  <2>2. BeginDestroy(scaler, Len(seats), want) /\ books' = books
    BY <1>4 DEF ConfigPoll
  <2>3. /\ seats' \in Seq(SeatRecs) /\ co' \in [Tasks -> Frames]
        /\ \A u \in Tasks : PlacedAt(co'[u], seats')
        /\ co'[scaler].pc = "stop"
    BY <1>2, <2>1, <2>2, ScalerIsNoOther, BeginDestroyOK
  <2>4. TasksOK'
    BY <2>3 DEF TasksOK
  <2> QED
    BY <1>2, <2>2, <2>3, <2>4, SeatInvHas DEF SeatInv, SeatTypeOK, TasksOK, BooksOK, SeatRecs
<1> QED
  BY <1>3, <1>4

\* It lists the seat it has created and begins the next one.
LEMMA ScaleUpKeeps ==
    ASSUME SeatInv, ScaleUpStep
    PROVE  SeatInv'
<1> DEFINE f == co[scaler]
<1>1. f.pc = "sink" /\ seats' = Listed(f.seat) /\ want' = want /\ missed' = missed /\ spent' = spent
  BY DEF ScaleUpStep
<1>2. /\ f.seat \in Seats /\ f.seat \in Nat /\ f.to \in SeatTargets /\ f.to \in Nat
      /\ f \in Frames
  BY <1>1, SeatFacts, ScalerIsNoOther DEF SeatInv
<1>3. seats' \in Seq(SeatRecs) /\ \A g \in Frames : PlacedAt(g, seats) => PlacedAt(g, seats')
  BY <1>1, <1>2, ListedOK
<1>4. CASE f.seat + 1 < f.to
  <2>1. f.seat + 1 \in 0 .. f.to - 1
    BY <1>2, <1>4
  <2>2. f.seat + 1 \in Seats
    BY <1>2, <2>1, SeatAssumption
  <2>3. BeginCreate(scaler, f.seat + 1, f.to)
    BY <1>4 DEF ScaleUpStep
  <2>4. /\ BooksOK(books') /\ co' \in [Tasks -> Frames]
        /\ co'[scaler].to = f.to /\ \A ss : PlacedAt(co'[scaler], ss)
        /\ \A u \in Tasks : u # scaler => co'[u] = co[u]
    BY <1>2, <2>2, <2>3, ScalerIsNoOther, BeginCreateOK
  <2>5. \A t \in Tasks : PlacedAt(co'[t], seats')
    BY <1>3, <2>4, SeatInvHas, SeatFacts DEF TasksOK
  <2>6. TasksOK'
    BY <1>2, <1>3, <2>4, <2>5 DEF TasksOK
  <2> QED
    BY <1>1, <2>4, <2>6, SeatInvHas DEF SeatInv, SeatTypeOK, TasksOK, BooksOK, SeatRecs
<1>5. CASE ~(f.seat + 1 < f.to)
  <2>1. co' = [co EXCEPT ![scaler] = Idle] /\ books' = books
    BY <1>5 DEF ScaleUpStep
  <2>2. /\ co' \in [Tasks -> Frames] /\ co'[scaler] = Idle
        /\ \A u \in Tasks : u # scaler => co'[u] = co[u]
    BY <2>1, SeatFacts, IdleOK, ScalerIsNoOther
  <2>3. \A t \in Tasks : PlacedAt(co'[t], seats')
    BY <1>3, <2>2, IdleOK, SeatInvHas, SeatFacts DEF TasksOK
  <2>4. TasksOK'
    BY <1>3, <2>2, <2>3, IdleOK DEF TasksOK
  <2> QED
    BY <1>1, <2>1, <2>4, SeatInvHas DEF SeatInv, SeatTypeOK, TasksOK, BooksOK, SeatRecs
<1> QED
  BY <1>4, <1>5

\* It pops the seat it has destroyed and begins the one before.
LEMMA ScaleDownKeeps ==
    ASSUME SeatInv, ScaleDownStep
    PROVE  SeatInv'
<1> DEFINE f == co[scaler]
           rest == Popped(f.pos)
           next == f.pos - 1
<1>1. /\ f.pc = "unsink" /\ books' = books /\ want' = want /\ spent' = spent
      /\ missed' \in BOOLEAN
      /\ f \in Frames /\ f.pos \in Nat /\ f.to \in Nat
  BY SeatFacts, ScalerIsNoOther DEF ScaleDownStep
<1>2. f.pos # 0
  BY <1>1, ScalerIsNoOther DEF SeatInv, PlacedAt
<1>3. CASE f.pos > Len(seats)
  <2>1. co' = [co EXCEPT ![scaler] = Idle] /\ seats' = seats
    BY <1>3 DEF ScaleDownStep
  <2>2. /\ co' \in [Tasks -> Frames] /\ co'[scaler] = Idle
        /\ \A u \in Tasks : u # scaler => co'[u] = co[u]
    BY <2>1, SeatFacts, IdleOK, ScalerIsNoOther
  <2>3. \A t \in Tasks : PlacedAt(co'[t], seats')
    BY <2>1, <2>2, IdleOK, SeatInvHas DEF TasksOK
  <2>4. TasksOK'
    BY <2>1, <2>2, <2>3, IdleOK, SeatInvHas DEF TasksOK
  <2> QED
    BY <1>1, <2>1, <2>4, SeatInvHas DEF SeatInv, SeatTypeOK, TasksOK, BooksOK, SeatRecs
<1>4. CASE ~(f.pos > Len(seats))
  <2>1. f.pos \in 1 .. Len(seats) /\ Len(seats) \in Nat
    BY <1>1, <1>2, <1>4, SeatFacts
  <2>2. /\ rest \in Seq(SeatRecs) /\ Len(rest) = Len(seats) - 1
        /\ ShiftedBy(f.pos) \in [Tasks -> Frames]
        /\ \A u \in Tasks : PlacedAt(ShiftedBy(f.pos)[u], rest)
    BY <2>1, PopOK
  <2> HIDE DEF rest
  <2>3. CASE next > f.to
    <3> DEFINE n == rest[next].name
               g == [Idle EXCEPT !.pc = "stop", !.seat = n, !.pos = next, !.to = f.to]
    <3>1. /\ seats' = [rest EXCEPT ![next].closing = TRUE]
          /\ co' = [ShiftedBy(f.pos) EXCEPT ![scaler] = g]
      BY <1>4, <2>3 DEF ScaleDownStep, rest
    <3>2. next \in 1 .. Len(rest) /\ next \in Nat /\ next # 0
      BY <1>1, <2>1, <2>2, <2>3
    <3>3. n \in Seats
      <4>1. rest[next] \in SeatRecs
        BY <2>2, <3>2, ElementOfSeq
      <4> QED
        BY <4>1 DEF SeatRecs
    <3>4. /\ g \in Frames /\ g.pc = "stop" /\ ~g.shifted
          /\ g.pos = next /\ g.seat = n
      BY <1>1, <3>2, <3>3, IdleOK DEF Frames, Idle
    <3>5. /\ seats' \in Seq(SeatRecs) /\ Len(seats') = Len(rest)
          /\ \A i \in 1 .. Len(rest) : seats'[i].name = rest[i].name
      BY <2>2, <3>1, <3>2, Closing
    <3> HIDE DEF g
    <3>6. co' \in [Tasks -> Frames] /\ co'[scaler] = g
          /\ \A u \in Tasks : u # scaler => co'[u] = ShiftedBy(f.pos)[u]
      BY <2>2, <3>1, <3>4, ScalerIsNoOther
    <3>7. ASSUME NEW u \in Tasks
          PROVE  PlacedAt(co'[u], seats')
      <4>1. CASE u = scaler
        BY <3>2, <3>4, <3>5, <3>6, <4>1 DEF PlacedAt
      <4>2. CASE u # scaler
        BY <2>2, <3>1, <3>2, <3>6, <4>2, PlacedClosing
      <4> QED
        BY <4>1, <4>2
    <3>8. TasksOK'
      BY <3>4, <3>5, <3>6, <3>7 DEF TasksOK
    <3> QED
      BY <1>1, <3>1, <3>8, SeatInvHas DEF SeatInv, SeatTypeOK, TasksOK, BooksOK, SeatRecs
  <2>4. CASE ~(next > f.to)
    <3>1. seats' = rest /\ co' = [ShiftedBy(f.pos) EXCEPT ![scaler] = Idle]
      BY <1>4, <2>4 DEF ScaleDownStep, rest
    <3>2. co' \in [Tasks -> Frames] /\ co'[scaler] = Idle
          /\ \A u \in Tasks : u # scaler => co'[u] = ShiftedBy(f.pos)[u]
      BY <2>2, <3>1, IdleOK, ScalerIsNoOther
    <3>3. \A u \in Tasks : PlacedAt(co'[u], seats')
      BY <2>2, <3>1, <3>2, IdleOK
    <3>4. TasksOK'
      BY <2>2, <3>1, <3>2, <3>3, IdleOK DEF TasksOK
    <3> QED
      BY <1>1, <3>1, <3>4, SeatInvHas DEF SeatInv, SeatTypeOK, TasksOK, BooksOK, SeatRecs
  <2> QED
    BY <2>3, <2>4
<1> QED
  BY <1>3, <1>4

\* A destruction after a grace period pops its seat.
LEMMA EndDestroyKeeps ==
    ASSUME SeatInv, NEW t \in Tasks, EndDestroy(t)
    PROVE  SeatInv'
<1> DEFINE p == co[t].pos
<1>1. /\ books' = books /\ want' = want /\ spent' = spent /\ missed' \in BOOLEAN
      /\ t \in Destroyers /\ t # scaler /\ co[t].pc = "unsink" /\ p \in Nat
  BY SeatFacts, ScalerIsNoOther DEF EndDestroy
<1>2. p # 0
  BY <1>1 DEF SeatInv, PlacedAt
<1>3. PICK c \in [Tasks -> Frames] :
          /\ co' = [c EXCEPT ![t] = Idle]
          /\ seats' \in Seq(SeatRecs)
          /\ \A u \in Tasks : PlacedAt(c[u], seats')
          /\ c[scaler].pc = co[scaler].pc /\ c[scaler].to = co[scaler].to
  <2>1. CASE p <= Len(seats)
    <3>1. p \in 1 .. Len(seats)
      BY <1>1, <1>2, <2>1, SeatFacts
    <3>2. seats' = Popped(p) /\ co' = [ShiftedBy(p) EXCEPT ![t] = Idle]
      BY <2>1 DEF EndDestroy
    <3> QED
      BY <3>1, <3>2, PopOK, ScalerIsNoOther
  <2>2. CASE ~(p <= Len(seats))
    <3>1. seats' = seats /\ co' = [co EXCEPT ![t] = Idle]
      BY <2>2 DEF EndDestroy
    <3> QED
      BY <3>1, SeatFacts, SeatInvHas DEF TasksOK
  <2> QED
    BY <2>1, <2>2
<1>4. /\ co' \in [Tasks -> Frames] /\ co'[t] = Idle
      /\ \A u \in Tasks : u # t => co'[u] = c[u]
  BY <1>3, IdleOK
<1>5. \A u \in Tasks : PlacedAt(co'[u], seats')
  BY <1>3, <1>4, IdleOK
<1>6. co'[scaler].pc = "sink" => co'[scaler].to \in SeatTargets
  BY <1>1, <1>3, <1>4, ScalerIsNoOther DEF SeatInv
<1>7. TasksOK'
  BY <1>3, <1>4, <1>5, <1>6 DEF TasksOK
<1> QED
  BY <1>1, <1>7, SeatInvHas DEF SeatInv, SeatTypeOK, TasksOK, BooksOK, SeatRecs

\* A destruction gets past the stop and releases the encoder.
LEMMA EndStopKeeps ==
    ASSUME SeatInv, NEW t \in Tasks, EndStop(t)
    PROVE  SeatInv'
<1>2. /\ co[t].pc = "stop"
      /\ seats' = seats /\ want' = want /\ missed' = missed /\ spent' = spent
  BY DEF EndStop
<1>3. BooksOK(books')
  BY BooksStep DEF EndStop
<1>4. co[t] \in Frames /\ PlacedAt(co[t], seats)
  BY SeatFacts DEF SeatInv
<1> DEFINE f == [co[t] EXCEPT !.pc = "unsink"]
<1>5. f \in Frames /\ PlacedAt(f, seats) /\ f.pc # "sink"
  BY <1>2, <1>4 DEF Frames, PlacedAt
<1>6. co' = [co EXCEPT ![t] = f]
  BY DEF EndStop
<1> HIDE DEF f
<1>7. co' \in [Tasks -> Frames] /\ co'[t] = f /\ \A u \in Tasks : u # t => co'[u] = co[u]
  BY <1>5, <1>6, SeatFacts
<1>8. TasksOK'
  BY <1>2, <1>5, <1>7, SeatInvHas, ScalerIsNoOther DEF TasksOK
<1> QED
  BY <1>2, <1>3, <1>8, SeatInvHas DEF SeatInv, SeatTypeOK, TasksOK, BooksOK, SeatRecs

\* The steps without an await: a target, a hint, a rebalance.
LEMMA OthersKeep ==
    ASSUME SeatInv,
           \/ \E k \in SeatTargets : NewTarget(k)
           \/ \E n \in Seats, g \in Gpus : EncoderHint(n, g)
           \/ Rebalance
    PROVE  SeatInv'
<1>1. seats' = seats /\ co' = co /\ missed' = missed
      /\ spent \in [changes : 0 .. MaxChanges, hints : 0 .. MaxHints]
  BY SeatInvHas DEF NewTarget, EncoderHint, Rebalance
<1>2. TasksOK'
  BY <1>1, SeatInvHas DEF TasksOK
<1>3. CASE \E k \in SeatTargets : NewTarget(k)
  <2>1. spent' \in [changes : 0 .. MaxChanges, hints : 0 .. MaxHints]
    BY <1>1, <1>3, SeatAssumption DEF NewTarget
  <2> QED
    BY <1>1, <1>2, <1>3, <2>1, SeatInvHas DEF NewTarget, SeatInv, SeatTypeOK, TasksOK, BooksOK, SeatRecs
<1>4. CASE \E n \in Seats, g \in Gpus : EncoderHint(n, g)
  <2>1. BooksOK(books')
    BY <1>4, BooksStep DEF EncoderHint
  <2>2. spent' \in [changes : 0 .. MaxChanges, hints : 0 .. MaxHints]
    BY <1>1, <1>4, SeatAssumption DEF EncoderHint
  <2> QED
    BY <1>1, <1>2, <1>4, <2>1, <2>2, SeatInvHas DEF EncoderHint, SeatInv, SeatTypeOK, TasksOK, BooksOK, SeatRecs
<1>5. CASE Rebalance
  <2>1. BooksOK(books')
    BY <1>5, BooksStep DEF Rebalance
  <2> QED
    BY <1>1, <1>2, <1>5, <2>1, SeatInvHas DEF Rebalance, SeatInv, SeatTypeOK, TasksOK, BooksOK, SeatRecs
<1> QED
  BY <1>3, <1>4, <1>5

\* Every step of the seat manager keeps the invariant.
LEMMA SeatNextKeeps ==
    ASSUME SeatInv, SeatNext
    PROVE  SeatInv'
<1>1. CASE \/ \E k \in SeatTargets : NewTarget(k)
           \/ \E n \in Seats, g \in Gpus : EncoderHint(n, g)
           \/ Rebalance
  BY <1>1, OthersKeep
<1>2. CASE \E t \in Tasks : EndStop(t) \/ EndDestroy(t)
  BY <1>2, EndStopKeeps, EndDestroyKeeps
<1>3. CASE ConfigPoll \/ ScaleUpStep \/ ScaleDownStep
  BY <1>3, ConfigPollKeeps, ScaleUpKeeps, ScaleDownKeeps
<1> QED
  BY <1>1, <1>2, <1>3 DEF SeatNext

\* start() establishes it.
LEMMA SeatInitOK == SeatInit => SeatInv
<1> SUFFICES ASSUME SeatInit
             PROVE  SeatInv
  OBVIOUS
<1>1. StartSeats \in Nat /\ \A i \in 1 .. StartSeats : [name |-> i - 1, closing |-> FALSE] \in SeatRecs
  BY SeatAssumption DEF SeatRecs
<1>2. seats \in Seq(SeatRecs)
  <2>1. [i \in 1 .. StartSeats |-> [name |-> i - 1, closing |-> FALSE]] \in Seq(SeatRecs)
    BY <1>1, IsASeq
  <2> QED
    BY <2>1 DEF SeatInit
<1>3. BooksOK(books) /\ spent \in [changes : 0 .. MaxChanges, hints : 0 .. MaxHints]
  <2>1. PICK gaming \in [1 .. StartSeats -> Hints] :
            /\ books = Started(gaming)[StartSeats]
            /\ spent = [changes |-> 0, hints |-> Cardinality({i \in 1 .. StartSeats :
                                                                gaming[i] # NoGpu})]
    BY DEF SeatInit
  <2>2. Cardinality({i \in 1 .. StartSeats : gaming[i] # NoGpu}) \in Nat
    <3> DEFINE named == {i \in 1 .. StartSeats : gaming[i] # NoGpu}
    <3>1. IsFiniteSet(1 .. StartSeats) /\ named \subseteq 1 .. StartSeats
      BY <1>1, FS_Interval
    <3> HIDE DEF named
    <3>2. Cardinality(named) \in Nat
      BY <3>1, FS_Subset, FS_CardinalityType
    <3> QED
      BY <3>2 DEF named
  <2>3. spent.hints <= MaxHints /\ MaxHints \in Nat /\ MaxChanges \in Nat
    BY SeatAssumption DEF SeatInit
  <2>4. spent.hints \in 0 .. MaxHints
    BY <2>1, <2>2, <2>3
  <2> QED
    BY <2>1, <2>3, <2>4, StartedOK
<1>4. co \in [Tasks -> Frames] /\ \A t \in Tasks : co[t] = Idle
  BY IdleOK DEF SeatInit
<1>5. TasksOK
  BY <1>2, <1>4, IdleOK, ScalerIsNoOther DEF TasksOK
<1>6. missed = FALSE /\ want = 0
  BY DEF SeatInit
<1> QED
  BY <1>3, <1>5, <1>6 DEF SeatInv, SeatTypeOK, TasksOK, BooksOK, SeatRecs

(***************************************************************************)
(* The hubs                                                                *)
(***************************************************************************)

\* What a task that waits out a grace period knows.
Timers == [hub : SUBSET Hubs, seat : SUBSET Seats, over : BOOLEAN]

\* The part of the type invariant that speaks of the hubs.
HubsOK ==
    /\ plug \in [Hubs -> Held]
    /\ known \in [Hubs -> Held]
    /\ hubSeat \in [Hubs -> Seats \cup {NoSeat}]
    /\ grace \in [Hubs -> SUBSET Destroyers]
    /\ timer \in [Destroyers -> Timers]
    /\ kept \in [Hubs -> Seats \cup {NoSeat}]
    /\ scan \in [Creators -> [on : BOOLEAN, seen : [Hubs -> Held],
                              left : SUBSET Hubs, for : SUBSET Hubs]]
    /\ tooLate \subseteq Hubs
    /\ plugs \in 0 .. MaxPlugs

\* The invariant, split into the hubs and the seats.
LEMMA HotInvIs == HotInv <=> HubsOK /\ SeatInv
BY DEF HotInv, HotTypeOK, HubsOK, SeatInv, Timers

\* The monitor starts with no scan and no timer.
LEMMA HotInitOK == HotInit => HotInv
<1> SUFFICES ASSUME HotInit
             PROVE  HotInv
  OBVIOUS
<1>1. SeatInv
  BY SeatInitOK DEF HotInit
<1>2. NoTimer \in Timers
  BY DEF NoTimer, Timers
<1>3. NoScan \in [on : BOOLEAN, seen : [Hubs -> Held], left : SUBSET Hubs, for : SUBSET Hubs]
  BY DEF NoScan, Held
<1>4. known \in [Hubs -> Held] /\ kept \in [Hubs -> Seats \cup {NoSeat}] /\ plugs \in 0 .. MaxPlugs
  BY HubAssumption DEF HotInit
<1>5. HubsOK
  BY <1>2, <1>3, <1>4 DEF HubsOK, HotInit
<1> QED
  BY <1>1, <1>5, HotInvIs

\* A device is plugged in or out.
LEMMA PlugKeeps ==
    ASSUME HotInv, NEW h \in Hubs, Plug(h)
    PROVE  HubsOK' /\ seatVars' = seatVars
<1>1. HubsOK
  BY HotInvIs
<1>2. plug' \in [Hubs -> Held] /\ plugs' \in 0 .. MaxPlugs
  BY <1>1, HubAssumption DEF Plug, HubsOK
<1> QED
  BY <1>1, <1>2 DEF Plug, HubsOK, seatVars

\* A scan reads the hubs.
LEMMA ScanHubsKeeps ==
    ASSUME HotInv, NEW s \in Creators, ScanHubs(s)
    PROVE  HubsOK' /\ seatVars' = seatVars
BY HotInvIs DEF HubsOK, ScanHubs, seatVars

\* A removal that is withdrawn leaves typed tasks behind.
LEMMA WithdrawnOK ==
    ASSUME HubsOK, NEW hs
    PROVE  /\ Withdrawn(hs) \in [Hubs -> SUBSET Destroyers]
           /\ Cancelled(hs) \in [Destroyers -> Timers]
<1>1. NoTimer \in Timers
  BY DEF NoTimer, Timers
<1> QED
  BY <1>1 DEF HubsOK, Withdrawn, Cancelled

\* A scan ends.
LEMMA ScanEndsKeeps ==
    ASSUME HotInv, NEW s \in Creators, ScanEnds(s)
    PROVE  HubsOK' /\ seatVars' = seatVars
<1> DEFINE seen == scan[s].seen
           back == Returned(Appeared(s))
           gone == {h \in Lost(seen) : Withdrawn(back)[h] = {}}
           task == CHOOSE t \in NewTasks(gone) : TRUE
           mine(d) == {h \in gone : task[h] = d}
<1>1. HubsOK /\ scan[s] \in [on : BOOLEAN, seen : [Hubs -> Held], left : SUBSET Hubs, for : SUBSET Hubs]
  BY HotInvIs DEF HubsOK
<1>2. scan' = [scan EXCEPT ![s] = NoScan] /\ NoScan \in [on : BOOLEAN, seen : [Hubs -> Held],
                              left : SUBSET Hubs, for : SUBSET Hubs]
  BY DEF ScanEnds, NoScan, Held
<1>3. known' \in [Hubs -> Held]
  BY <1>1 DEF ScanEnds
<1>4. Withdrawn(back) \in [Hubs -> SUBSET Destroyers] /\ Cancelled(back) \in [Destroyers -> Timers]
  <2> HIDE DEF back
  <2> QED
    BY <1>1, WithdrawnOK
<1>5. gone \subseteq Hubs /\ \A h \in gone : hubSeat[h] \in Seats
  BY <1>1 DEF Lost, HubsOK
<1>6. task \in [gone -> Unused] /\ Unused \subseteq Destroyers
  <2>1. task \in NewTasks(gone)
    BY DEF ScanEnds
  <2> QED
    BY <2>1 DEF NewTasks, Unused
<1>7. /\ grace' = [h \in Hubs |-> IF h \in gone THEN {task[h]} ELSE Withdrawn(back)[h]]
      /\ timer' = [d \in Destroyers |->
                      IF mine(d) = {} THEN Cancelled(back)[d]
                      ELSE [hub |-> mine(d), seat |-> {hubSeat[h] : h \in mine(d)},
                            over |-> FALSE]]
  BY DEF ScanEnds
<1>8. tooLate' \subseteq Hubs
  BY <1>1 DEF ScanEnds, HubsOK, TooLate, Returned, Appeared
<1>9. \A d : mine(d) \subseteq gone
  OBVIOUS
<1> HIDE DEF gone, task, back, mine
<1>10. grace' \in [Hubs -> SUBSET Destroyers]
  BY <1>4, <1>6, <1>7
<1>11. timer' \in [Destroyers -> Timers]
  <2>1. ASSUME NEW d \in Destroyers
        PROVE  timer'[d] \in Timers
    <3>1. [hub |-> mine(d), seat |-> {hubSeat[h] : h \in mine(d)}, over |-> FALSE] \in Timers
      BY <1>5, <1>9 DEF Timers
    <3>2. Cancelled(back)[d] \in Timers
      BY <1>4
    <3> QED
      BY <1>7, <3>1, <3>2
  <2> QED
    BY <1>7, <2>1
<1> QED
  <2>1. /\ plug' = plug /\ hubSeat' = hubSeat /\ kept' = kept /\ plugs' = plugs
        /\ seatVars' = seatVars
    BY DEF ScanEnds
  <2>2. scan' \in [Creators -> [on : BOOLEAN, seen : [Hubs -> Held],
                                left : SUBSET Hubs, for : SUBSET Hubs]]
    BY <1>1, <1>2 DEF HubsOK
  <2> QED
    BY <1>1, <1>3, <1>8, <1>10, <1>11, <2>1, <2>2 DEF HubsOK

\* A scan creates a seat for a hub.
LEMMA ScanCreatesKeeps ==
    ASSUME HotInv, NEW s \in Creators, ScanCreates(s)
    PROVE  HubsOK' /\ SeatInv'
<1>1. SeatInv /\ HubsOK /\ s \in Tasks /\ s # scaler
  BY ScalerIsNoOther, HotInvIs
<1>2. PICK h \in Unseated(s), before \in SUBSET (scan[s].left \ Unseated(s)) :
          /\ NameFor(h) \in Seats
          /\ grace' = Withdrawn(Returned(before \cap Appeared(s)))
          /\ timer' = Cancelled(Returned(before \cap Appeared(s)))
          /\ tooLate' = tooLate \cup TooLate(Returned(before \cap Appeared(s)))
          /\ scan' = [scan EXCEPT ![s].left = @ \ (before \cup {h}), ![s].for = {h}]
          /\ BeginCreate(s, NameFor(h), 0)
  BY DEF ScanCreates
<1>3. h \in Hubs /\ scan[s] \in [on : BOOLEAN, seen : [Hubs -> Held], left : SUBSET Hubs, for : SUBSET Hubs]
  BY <1>1, <1>2 DEF HubsOK, Unseated, Appeared
<1>4. /\ seats' = seats /\ want' = want /\ missed' = missed /\ spent' = spent
      /\ plug' = plug /\ known' = known /\ hubSeat' = hubSeat /\ kept' = kept /\ plugs' = plugs
  BY DEF ScanCreates
<1>5. HubsOK'
  <2>1. [scan[s] EXCEPT !.left = scan[s].left \ (before \cup {h}), !.for = {h}] \in
            [on : BOOLEAN, seen : [Hubs -> Held], left : SUBSET Hubs, for : SUBSET Hubs]
    BY <1>3
  <2>2. scan' \in [Creators -> [on : BOOLEAN, seen : [Hubs -> Held],
                                left : SUBSET Hubs, for : SUBSET Hubs]]
    BY <1>1, <1>2, <2>1 DEF HubsOK
  <2>3. grace' \in [Hubs -> SUBSET Destroyers] /\ timer' \in [Destroyers -> Timers]
    BY <1>1, <1>2, WithdrawnOK
  <2>4. tooLate' \subseteq Hubs
    BY <1>1, <1>2 DEF HubsOK, TooLate, Returned, Appeared
  <2> QED
    BY <1>1, <1>4, <2>2, <2>3, <2>4 DEF HubsOK
<1>6. /\ BooksOK(books') /\ co' \in [Tasks -> Frames] /\ \A ss : PlacedAt(co'[s], ss)
      /\ \A u \in Tasks : u # s => co'[u] = co[u]
  BY <1>1, <1>2, BeginCreateOK
<1>7. TasksOK'
  BY <1>1, <1>4, <1>6, SeatInvHas, ScalerIsNoOther DEF TasksOK
<1> QED
  BY <1>1, <1>4, <1>5, <1>6, <1>7, SeatInvHas DEF SeatInv, SeatTypeOK, TasksOK, BooksOK, SeatRecs

\* The seat of a hub is listed.
LEMMA SeatCreatedKeeps ==
    ASSUME HotInv, NEW s \in Creators, SeatCreated(s)
    PROVE  HubsOK' /\ SeatInv'
<1>1. SeatInv /\ HubsOK /\ s \in Tasks /\ s # scaler
  BY ScalerIsNoOther, HotInvIs
<1>2. co[s].seat \in Seats
  BY <1>1, SeatFacts
<1>3. /\ seats' = Listed(co[s].seat) /\ co' = [co EXCEPT ![s] = Idle]
      /\ books' = books /\ want' = want /\ missed' = missed /\ spent' = spent
  BY DEF SeatCreated
<1>4. HubsOK'
  <2>1. hubSeat' \in [Hubs -> Seats \cup {NoSeat}] /\ kept' \in [Hubs -> Seats \cup {NoSeat}]
    BY <1>1, <1>2 DEF SeatCreated, HubsOK
  <2>2. scan' \in [Creators -> [on : BOOLEAN, seen : [Hubs -> Held],
                                left : SUBSET Hubs, for : SUBSET Hubs]]
    BY <1>1 DEF SeatCreated, HubsOK
  <2> QED
    BY <1>1, <2>1, <2>2 DEF SeatCreated, HubsOK
<1>5. seats' \in Seq(SeatRecs) /\ \A f \in Frames : PlacedAt(f, seats) => PlacedAt(f, seats')
  BY <1>1, <1>2, <1>3, ListedOK
<1>6. /\ co' \in [Tasks -> Frames] /\ co'[s] = Idle
      /\ \A u \in Tasks : u # s => co'[u] = co[u]
  BY <1>1, <1>3, IdleOK, SeatFacts
<1>7. TasksOK'
  BY <1>1, <1>5, <1>6, IdleOK, SeatFacts, SeatInvHas, ScalerIsNoOther DEF TasksOK
<1> QED
  BY <1>1, <1>3, <1>4, <1>7, SeatInvHas DEF SeatInv, SeatTypeOK, TasksOK, BooksOK, SeatRecs

\* The wait of a grace period times out.
LEMMA TimesOutKeeps ==
    ASSUME HotInv, NEW d \in Destroyers, TimesOut(d)
    PROVE  HubsOK' /\ seatVars' = seatVars
<1>1. HubsOK
  BY HotInvIs
<1>2. timer' \in [Destroyers -> Timers]
  <2>1. timer[d] \in Timers /\ timer \in [Destroyers -> Timers]
    BY <1>1 DEF HubsOK
  <2>2. [timer[d] EXCEPT !.over = TRUE] \in Timers
    BY <2>1 DEF Timers
  <2>3. timer' = [timer EXCEPT ![d] = [timer[d] EXCEPT !.over = TRUE]]
    BY <2>1 DEF TimesOut
  <2> QED
    BY <2>1, <2>2, <2>3
<1> QED
  BY <1>1, <1>2 DEF TimesOut, HubsOK, seatVars

\* A grace period expires: the seat that its task was started for is destroyed.
LEMMA GraceExpiresKeeps ==
    ASSUME HotInv, NEW d \in Destroyers, GraceExpires(d)
    PROVE  HubsOK' /\ SeatInv'
<1> DEFINE found == {i \in DOMAIN seats : seats[i].name \in timer[d].seat}
<1>1. SeatInv /\ HubsOK /\ d \in Tasks /\ d # scaler
  BY ScalerIsNoOther, HotInvIs
<1>2. /\ books' = books /\ want' = want /\ missed' = missed /\ spent' = spent
      /\ plug' = plug /\ known' = known /\ kept' = kept /\ scan' = scan
      /\ tooLate' = tooLate /\ plugs' = plugs
  BY DEF GraceExpires
<1>3. HubsOK'
  <2>1. grace' \in [Hubs -> SUBSET Destroyers]
    BY <1>1, WithdrawnOK DEF GraceExpires
  <2>2. timer' \in [Destroyers -> Timers]
    BY <1>1 DEF GraceExpires, HubsOK, NoTimer, Timers
  <2>3. hubSeat' \in [Hubs -> Seats \cup {NoSeat}]
    BY <1>1 DEF GraceExpires, HubsOK
  <2> QED
    BY <1>1, <1>2, <2>1, <2>2, <2>3 DEF HubsOK
<1>4. TasksOK'
  <2>1. CASE found # {}
    <3>1. found \subseteq 1 .. Len(seats) /\ found \subseteq Nat
      BY <1>1, SeatFacts
    <3>2. Least(found) \in 1 .. Len(seats)
      <4> HIDE DEF found
      <4> QED
        BY <2>1, <3>1, LeastIs
    <3>3. BeginDestroy(d, Least(found), 0)
      BY <2>1 DEF GraceExpires
    <3> HIDE DEF found
    <3>4. /\ seats' \in Seq(SeatRecs) /\ co' \in [Tasks -> Frames]
          /\ \A u \in Tasks : PlacedAt(co'[u], seats')
          /\ \A u \in Tasks : u # d => co'[u] = co[u]
      BY <1>1, <3>2, <3>3, BeginDestroyOK
    <3> QED
      BY <1>1, <3>4, SeatInvHas, ScalerIsNoOther DEF TasksOK
  <2>2. CASE found = {}
    BY <1>1, <2>2, SeatInvHas DEF GraceExpires, TasksOK
  <2> QED
    BY <2>1, <2>2
<1> QED
  BY <1>1, <1>2, <1>3, <1>4, SeatInvHas DEF SeatInv, SeatTypeOK, TasksOK, BooksOK, SeatRecs

\* Every step of the agent keeps the invariant.
LEMMA HotInvKept == HotInv /\ [HotNext]_vars => HotInv'
<1> SUFFICES ASSUME HotInv, [HotNext]_vars
             PROVE  HubsOK' /\ SeatInv'
  <2>1. (HubsOK /\ SeatInv)' => HotInv'
    BY DEF HotInv, HotTypeOK, HubsOK, SeatInv, Timers
  <2> QED
    BY <2>1
<1>1. HubsOK /\ SeatInv
  BY HotInvIs
<1>2. ASSUME seatVars' = seatVars
      PROVE  SeatInv'
  BY <1>1, <1>2 DEF seatVars, SeatInv, SeatTypeOK, PlacedAt
<1>3. CASE SeatNext /\ UNCHANGED hotVars
  BY <1>1, <1>3, SeatNextKeeps DEF hotVars, HubsOK
<1>4. CASE \E h \in Hubs : Plug(h)
  BY <1>2, <1>4, PlugKeeps
<1>5. CASE \E s \in Creators : ScanHubs(s) \/ ScanEnds(s)
  BY <1>2, <1>5, ScanHubsKeeps, ScanEndsKeeps
<1>6. CASE \E s \in Creators : ScanCreates(s) \/ SeatCreated(s)
  BY <1>6, ScanCreatesKeeps, SeatCreatedKeeps
<1>7. CASE \E d \in Destroyers : TimesOut(d) \/ GraceExpires(d)
  BY <1>2, <1>7, TimesOutKeeps, GraceExpiresKeeps
<1>8. CASE UNCHANGED vars
  BY <1>1, <1>2, <1>8 DEF vars, hotVars, HubsOK
<1> QED
  BY <1>3, <1>4, <1>5, <1>6, <1>7, <1>8 DEF HotNext

(***************************************************************************)
(* The results                                                             *)
(***************************************************************************)

\* The step of PopsItsOwn, for one task.
RemovesItself(t) ==
    co[t].pc = "unsink" /\ ~co[t].shifted /\ co'[t] # co[t] /\ co'[t].pc # "unsink"
        => /\ co[t].pos <= Len(seats) /\ seats[co[t].pos].name = co[t].seat
           /\ Len(seats') = Len(seats) - 1
           /\ \A i \in DOMAIN seats' :
                 seats'[i].name = seats[IF i < co[t].pos THEN i ELSE i + 1].name

\* A task about to pop has the position of its seat.
LEMMA OwnSeat ==
    ASSUME SeatInv, NEW t \in Tasks, co[t].pc = "unsink", ~co[t].shifted
    PROVE  co[t].pos \in 1 .. Len(seats) /\ seats[co[t].pos].name = co[t].seat
BY SeatFacts DEF SeatInv, PlacedAt

\* A destruction after a grace period pops its own seat.
LEMMA EndDestroyRemoves ==
    ASSUME SeatInv, NEW t \in Tasks, EndDestroy(t), NEW u \in Tasks
    PROVE  RemovesItself(u)
<1> SUFFICES ASSUME co[u].pc = "unsink", ~co[u].shifted, co'[u].pc # "unsink"
             PROVE  /\ co[u].pos <= Len(seats) /\ seats[co[u].pos].name = co[u].seat
                    /\ Len(seats') = Len(seats) - 1
                    /\ \A i \in DOMAIN seats' :
                          seats'[i].name = seats[IF i < co[u].pos THEN i ELSE i + 1].name
  BY DEF RemovesItself
<1>1. co[u].pos \in 1 .. Len(seats) /\ seats[co[u].pos].name = co[u].seat /\ Len(seats) \in Nat
  BY OwnSeat, SeatFacts
<1>2. u = t
  <2> SUFFICES ASSUME u # t
               PROVE  co'[u].pc = co[u].pc
    OBVIOUS
  <2>1. CASE co[t].pos <= Len(seats)
    <3>1. co' = [ShiftedBy(co[t].pos) EXCEPT ![t] = Idle]
      BY <2>1 DEF EndDestroy
    <3>2. co'[u] = ShiftedBy(co[t].pos)[u]
      BY <3>1 DEF ShiftedBy
    <3>3. co[t].pc = "unsink"
      BY DEF EndDestroy
    <3>4. co[t].pos \in 1 .. Len(seats)
      BY <2>1, <3>3, SeatFacts DEF SeatInv, PlacedAt
    <3> QED
      BY <3>2, <3>4, PopOK
  <2>2. CASE ~(co[t].pos <= Len(seats))
    BY <2>2, SeatFacts DEF EndDestroy
  <2> QED
    BY <2>1, <2>2
<1>3. seats' = Popped(co[u].pos)
  BY <1>1, <1>2 DEF EndDestroy
<1>4. /\ seats' \in Seq(SeatRecs) /\ Len(seats') = Len(seats) - 1
      /\ \A i \in 1 .. Len(seats) - 1 : seats'[i] = seats[IF i < co[u].pos THEN i ELSE i + 1]
  BY <1>1, <1>3, PopOK
<1>5. DOMAIN seats' = 1 .. Len(seats) - 1
  BY <1>4, LenProperties
<1> QED
  BY <1>1, <1>4, <1>5

\* So does the scaling loop.
LEMMA ScaleDownRemoves ==
    ASSUME SeatInv, ScaleDownStep, NEW u \in Tasks
    PROVE  RemovesItself(u)
<1> SUFFICES ASSUME co[u].pc = "unsink", ~co[u].shifted, co'[u].pc # "unsink"
             PROVE  /\ co[u].pos <= Len(seats) /\ seats[co[u].pos].name = co[u].seat
                    /\ Len(seats') = Len(seats) - 1
                    /\ \A i \in DOMAIN seats' :
                          seats'[i].name = seats[IF i < co[u].pos THEN i ELSE i + 1].name
  BY DEF RemovesItself
<1> DEFINE p == co[scaler].pos
           rest == Popped(p)
           next == p - 1
<1>1. co[u].pos \in 1 .. Len(seats) /\ seats[co[u].pos].name = co[u].seat /\ Len(seats) \in Nat
  BY OwnSeat, SeatFacts
<1>2. co[scaler].pc = "unsink" /\ p \in Nat \ {0} /\ co[scaler].to \in Nat
  BY SeatFacts, ScalerIsNoOther DEF ScaleDownStep, SeatInv, PlacedAt
<1>3. u = scaler
  <2> SUFFICES ASSUME u # scaler
               PROVE  co'[u].pc = co[u].pc
    OBVIOUS
  <2>1. CASE p <= Len(seats)
    <3>1. PICK f : co' = [ShiftedBy(p) EXCEPT ![scaler] = f]
      BY <1>1, <1>2, <2>1 DEF ScaleDownStep
    <3>2. co'[u] = ShiftedBy(p)[u]
      BY <3>1 DEF ShiftedBy
    <3>3. p \in 1 .. Len(seats)
      BY <1>2, <2>1
    <3> QED
      BY <3>2, <3>3, PopOK
  <2>2. CASE ~(p <= Len(seats))
    BY <1>1, <1>2, <2>2, SeatFacts DEF ScaleDownStep
  <2> QED
    BY <2>1, <2>2
<1>4. p \in 1 .. Len(seats)
  BY <1>1, <1>3
<1>5. /\ rest \in Seq(SeatRecs) /\ Len(rest) = Len(seats) - 1
      /\ \A i \in 1 .. Len(seats) - 1 : rest[i] = seats[IF i < p THEN i ELSE i + 1]
  BY <1>4, PopOK
<1>6. /\ seats' \in Seq(SeatRecs) /\ Len(seats') = Len(rest)
      /\ \A i \in 1 .. Len(rest) : seats'[i].name = rest[i].name
  <2>1. CASE next > co[scaler].to
    <3>1. seats' = [rest EXCEPT ![next].closing = TRUE]
      BY <1>1, <1>4, <2>1 DEF ScaleDownStep
    <3>2. next \in 1 .. Len(rest)
      BY <1>1, <1>2, <1>4, <1>5, <2>1
    <3> HIDE DEF rest
    <3> QED
      BY <1>5, <3>1, <3>2, Closing
  <2>2. CASE ~(next > co[scaler].to)
    <3>1. seats' = rest
      BY <1>1, <1>4, <2>2 DEF ScaleDownStep
    <3> QED
      BY <1>5, <3>1
  <2> QED
    BY <2>1, <2>2
<1>7. DOMAIN seats' = 1 .. Len(seats) - 1
  BY <1>5, <1>6, LenProperties
<1> HIDE DEF rest
<1>8. ASSUME NEW i \in DOMAIN seats'
      PROVE  seats'[i].name = seats[IF i < p THEN i ELSE i + 1].name
  <2>1. i \in 1 .. Len(seats) - 1 /\ i \in 1 .. Len(rest)
    BY <1>5, <1>7
  <2>2. seats'[i].name = rest[i].name
    BY <1>6, <2>1
  <2>3. rest[i] = seats[IF i < p THEN i ELSE i + 1]
    BY <1>5, <2>1
  <2> QED
    BY <2>2, <2>3
<1>9. Len(seats') = Len(seats) - 1
  BY <1>5, <1>6
<1> QED
  BY <1>1, <1>3, <1>8, <1>9

\* And no other step ends a destruction.
LEMMA StepRemovesItself ==
    ASSUME HotInv, [HotNext]_vars, NEW u \in Tasks
    PROVE  RemovesItself(u)
<1>1. SeatInv /\ co \in [Tasks -> Frames]
  BY SeatFacts DEF HotInv
<1>2. CASE \E t \in Tasks : EndDestroy(t)
  BY <1>1, <1>2, EndDestroyRemoves
<1>3. CASE ScaleDownStep
  BY <1>1, <1>3, ScaleDownRemoves
<1>4. CASE \E t \in Tasks : co[t].pc # "unsink" /\ \E f : co' = [co EXCEPT ![t] = f]
  BY <1>1, <1>4 DEF RemovesItself
<1>5. CASE co' = co
  BY <1>5 DEF RemovesItself
<1>6. CASE ConfigPoll \/ ScaleUpStep
  <2>1. co[scaler].pc # "unsink"
    BY <1>6 DEF ConfigPoll, ScaleUpStep
  <2>2. \E f : co' = [co EXCEPT ![scaler] = f]
    BY <1>6 DEF ConfigPoll, ScaleUpStep, BeginCreate, BeginDestroy
  <2> QED
    BY <1>4, <2>1, <2>2, ScalerIsNoOther
<1>7. CASE \E t \in Tasks : EndStop(t)
  <2>1. PICK t \in Tasks : EndStop(t)
    BY <1>7
  <2>2. co[t].pc # "unsink" /\ co' = [co EXCEPT ![t] = [co[t] EXCEPT !.pc = "unsink"]]
    BY <2>1 DEF EndStop
  <2> QED
    BY <1>4, <2>2
<1>8. CASE \E s \in Creators : ScanCreates(s) \/ SeatCreated(s)
  <2>1. PICK s \in Creators : ScanCreates(s) \/ SeatCreated(s)
    BY <1>8
  <2>2. co[s].pc # "unsink"
    BY <2>1 DEF ScanCreates, SeatCreated
  <2>3. \E f : co' = [co EXCEPT ![s] = f]
    BY <2>1 DEF ScanCreates, SeatCreated, BeginCreate
  <2> QED
    BY <1>4, <2>2, <2>3, ScalerIsNoOther
<1>9. CASE \E d \in Destroyers : GraceExpires(d)
  <2>1. PICK d \in Destroyers : GraceExpires(d)
    BY <1>9
  <2>2. co[d].pc # "unsink"
    BY <2>1 DEF GraceExpires
  <2>3. co' = co \/ \E f : co' = [co EXCEPT ![d] = f]
    BY <2>1 DEF GraceExpires, BeginDestroy
  <2> QED
    BY <1>4, <1>5, <2>2, <2>3, ScalerIsNoOther
<1>10. CASE \/ \E k \in SeatTargets : NewTarget(k)
            \/ \E n \in Seats, g \in Gpus : EncoderHint(n, g)
            \/ Rebalance
            \/ \E h \in Hubs : Plug(h)
            \/ \E s \in Creators : ScanHubs(s) \/ ScanEnds(s)
            \/ \E d \in Destroyers : TimesOut(d)
            \/ UNCHANGED vars
  BY <1>5, <1>10 DEF NewTarget, EncoderHint, Rebalance, Plug, ScanHubs, ScanEnds, TimesOut,
                    seatVars, vars
<1>11. CASE SeatNext
  BY <1>2, <1>3, <1>6, <1>7, <1>10, <1>11 DEF SeatNext
<1> QED
  BY <1>8, <1>9, <1>10, <1>11 DEF HotNext

\* The state of the agent is typed, whatever hubs and seats come and go:
\* no counter of the allocator goes below zero, and no seat gets a name
\* outside the seats.
THEOREM HotTyped == HotSpec => []HotTypeOK
<1>1. HotInit => HotInv
  BY HotInitOK
<1>2. HotInv /\ [HotNext]_vars => HotInv'
  BY HotInvKept
<1>3. HotInv => HotTypeOK
  BY DEF HotInv
<1> QED
  BY <1>1, <1>2, <1>3, PTL DEF HotSpec

\* The counters of the encoder allocator are those of its sessions, no card
\* has more than its driver allows and no seat has two, at every await of
\* every task.
THEOREM BooksAgree == HotSpec => []EncoderBooks
<1>1. HotInit => HotInv
  BY HotInitOK
<1>2. HotInv /\ [HotNext]_vars => HotInv'
  BY HotInvKept
<1>3. HotInv => EncoderBooks
  BY DEF HotInv, SeatInv, EncoderBooks
<1> QED
  BY <1>1, <1>2, <1>3, PTL DEF HotSpec

\* rebalance restarts a seat's encoder only to move it, and a second rebalance
\* never moves a session back to where the first one took it from.
THEOREM RestartsPay == HotSpec => []NoIdleRestart
<1>1. HotInit => HotInv
  BY HotInitOK
<1>2. HotInv /\ [HotNext]_vars => HotInv'
  BY HotInvKept
<1>3. HotInv => NoIdleRestart
  BY SeatFacts, BalancedBooksStayPut DEF HotInv, NoIdleRestart
<1> QED
  BY <1>1, <1>2, <1>3, PTL DEF HotSpec

\* destroy_seat pops the seat it was asked to destroy, unless another
\* destruction popped one below it since it looked up the index.
THEOREM DestructionsPopTheirOwn == HotSpec => PopsItsOwn
<1>1. HotInit => HotInv
  BY HotInitOK
<1>2. HotInv /\ [HotNext]_vars => HotInv'
  BY HotInvKept
<1>3. HotInv /\ [HotNext]_vars => [\A t \in Tasks : RemovesItself(t)]_vars
  BY StepRemovesItself
<1> QED
  BY <1>1, <1>2, <1>3, PTL DEF HotSpec, PopsItsOwn, RemovesItself
=============================================================================
