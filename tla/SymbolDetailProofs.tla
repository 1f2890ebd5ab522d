-------------------------- MODULE SymbolDetailProofs --------------------------
(***************************************************************************)
(* What the dashboard's tick window and the symbol page over it keep, for  *)
(* a window of any length, any prices, sizes and times, and any number of  *)
(* awaited queries.                                                        *)
(***************************************************************************)
EXTENDS SymbolDetail, SeriesProofs

WindowTicks == [price : Positive, size : Sizes, time : Times]
Volumes(h) == [i \in DOMAIN h |-> h[i].size]

-----------------------------------------------------------------------------
(* Where a tick takes its place *)

(* The ticks behind the place of t are those at the end that are later, and *)
(* the one before it is not.                                                *)
PlaceOf(h, t) ==
    Len(h) + 1 - Cardinality({i \in DOMAIN h : \A j \in i .. Len(h) : h[j].time > t.time})

(* The place is one of the window or the one behind it, and it parts the    *)
(* ticks that are later from those before.                                  *)
LEMMA PlaceByTime ==
    ASSUME NEW h \in Seq(WindowTicks), NEW t \in WindowTicks
    PROVE  /\ PlaceOf(h, t) \in 1 .. Len(h) + 1
           /\ Inserted(h, t) = InsertAt(h, PlaceOf(h, t), t)
           /\ \A i \in DOMAIN h : i >= PlaceOf(h, t) => h[i].time > t.time
           /\ PlaceOf(h, t) > 1 => h[PlaceOf(h, t) - 1].time <= t.time
<1> DEFINE n == Len(h)
           Later(i) == \A j \in i .. n : h[j].time > t.time
           T == {i \in 1 .. n + 1 : Later(i)}
           K == {i \in DOMAIN h : Later(i)}
<1>1. n \in Nat /\ DOMAIN h = 1 .. n /\ t.time \in Nat
      /\ \A i \in DOMAIN h : h[i].time \in Nat
  <2>1. n \in Nat /\ DOMAIN h = 1 .. n /\ \A i \in DOMAIN h : h[i] \in WindowTicks
    OBVIOUS
  <2>2. \A u \in WindowTicks : u.time \in Nat
    BY TickAssumption DEF WindowTicks
  <2> QED BY <2>1, <2>2
<1>2. PICK x \in T : \A y \in T : x <= y
  <2>1. n + 1 \in T
    BY <1>1
  <2>2. T \in SUBSET Nat /\ T # {}
    BY <1>1, <2>1
  <2> HIDE DEF T
  <2> QED BY <2>2, LeastElement
<1>3. x \in 1 .. n + 1 /\ Later(x)
  BY <1>2
<1>4. K = x .. n
  <2>1. ASSUME NEW i \in K PROVE i \in x .. n
    BY <1>1, <1>2
  <2>2. ASSUME NEW i \in x .. n PROVE i \in K
    BY <1>1, <1>3
  <2> QED BY <2>1, <2>2
<1>5. Cardinality(K) = n + 1 - x
  <2>1. x \in Int /\ n \in Int
    BY <1>1, <1>3
  <2>2. Cardinality(x .. n) = IF x > n THEN 0 ELSE n - x + 1
    BY <2>1, FS_Interval
  <2> HIDE DEF K
  <2> QED BY <1>1, <1>3, <1>4, <2>2
<1>6. PlaceOf(h, t) = x
  BY <1>1, <1>3, <1>5 DEF PlaceOf
<1>7. x > 1 => h[x - 1].time <= t.time
  <2> SUFFICES ASSUME x > 1, ~(h[x - 1].time <= t.time) PROVE FALSE
    OBVIOUS
  <2>1. x - 1 \in 1 .. n /\ x - 1 \in DOMAIN h
    BY <1>1, <1>3
  <2>2. h[x - 1].time > t.time
    BY <1>1, <2>1
  <2>3. \A j \in x - 1 .. n : j = x - 1 \/ j \in x .. n
    BY <1>1, <1>3
  <2>4. Later(x - 1)
    BY <1>3, <2>2, <2>3
  <2>5. x - 1 \in T
    BY <1>1, <2>1, <2>4
  <2> QED BY <1>1, <1>2, <1>3, <2>5
<1>8. \A i \in DOMAIN h : i >= x => h[i].time > t.time
  BY <1>1, <1>3
<1> QED BY <1>3, <1>6, <1>7, <1>8 DEF Inserted, PlaceOf

(* r is h with t put at place k, the ones from k on moved up by one.        *)
HasInserted(r, h, k, t) ==
    /\ Len(r) = Len(h) + 1
    /\ \A i \in 1 .. Len(h) + 1 :
          r[i] = IF i < k THEN h[i] ELSE IF i = k THEN t ELSE h[i - 1]

(* What InsertAt builds, element by element.                                *)
LEMMA InsertedTicks ==
    ASSUME NEW S, NEW h \in Seq(S), NEW t \in S, NEW k \in 1 .. Len(h) + 1
    PROVE  InsertAt(h, k, t) \in Seq(S) /\ HasInserted(InsertAt(h, k, t), h, k, t)
<1> DEFINE n == Len(h)
           a == SubSeq(h, 1, k - 1)
           b == SubSeq(h, k, n)
<1>1. /\ n \in Nat /\ k \in Nat /\ k >= 1 /\ k <= n + 1
      /\ a \in Seq(S) /\ Len(a) = k - 1 /\ \A i \in 1 .. k - 1 : a[i] = h[i]
      /\ b \in Seq(S) /\ Len(b) = n + 1 - k /\ \A i \in 1 .. n + 1 - k : b[i] = h[k + i - 1]
  OBVIOUS
<1>2. InsertAt(h, k, t) = (a \o <<t>>) \o b
  BY DEF InsertAt
<1> HIDE DEF a, b
<1> DEFINE c == a \o <<t>>
<1>3. /\ c \in Seq(S) /\ Len(c) = k
      /\ \A i \in 1 .. k : c[i] = IF i < k THEN h[i] ELSE t
  <2>1. a \o <<t>> = Append(a, t)
    BY <1>1
  <2>2. /\ Append(a, t) \in Seq(S) /\ Len(Append(a, t)) = k
        /\ \A i \in 1 .. k - 1 : Append(a, t)[i] = a[i]
        /\ Append(a, t)[k] = t
    BY <1>1
  <2>3. \A i \in 1 .. k : IF i < k THEN i \in 1 .. k - 1 ELSE i = k
    BY <1>1
  <2> QED BY <1>1, <2>1, <2>2, <2>3
<1> HIDE DEF c
<1>4. c \o b \in Seq(S) /\ Len(c \o b) = n + 1
  <2>1. c \o b \in Seq(S) /\ Len(c \o b) = Len(c) + Len(b)
    BY <1>1, <1>3, ConcatProperties
  <2> QED BY <1>1, <1>3, <2>1
<1>5. ASSUME NEW i \in 1 .. n + 1
      PROVE  (c \o b)[i] = IF i < k THEN h[i] ELSE IF i = k THEN t ELSE h[i - 1]
  <2>1. CASE i <= k
    BY <1>1, <1>3, <2>1
  <2>2. CASE i > k
    <3>1. (c \o b)[i] = b[i - k] /\ i - k \in 1 .. n + 1 - k
      BY <1>1, <1>3, <2>2, SMTT(60)
    <3>2. k + (i - k) - 1 = i - 1
      BY <1>1
    <3> QED BY <1>1, <2>2, <3>1, <3>2
  <2>3. i <= k \/ i > k
    BY <1>1
  <2> QED BY <2>1, <2>2, <2>3
<1> QED BY <1>2, <1>4, <1>5 DEF c, HasInserted

InOrder(h) == \A i, j \in DOMAIN h : i < j => h[i].time <= h[j].time

(* A tick at its place by time leaves the others in the order of time, and  *)
(* is the last of all unless the last is later.                             *)
LEMMA InsertedKeepsOrder ==
    ASSUME NEW h \in Seq(WindowTicks), NEW t \in WindowTicks, InOrder(h)
    PROVE  /\ Inserted(h, t) \in Seq(WindowTicks) /\ Len(Inserted(h, t)) = Len(h) + 1
           /\ InOrder(Inserted(h, t))
           /\ h # <<>> => Last(Inserted(h, t)) =
                  IF t.time >= Last(h).time THEN t ELSE Last(h)
<1> DEFINE n == Len(h)
           r == Inserted(h, t)
<1>1. /\ n \in Nat /\ DOMAIN h = 1 .. n
      /\ t.time \in Nat /\ \A i \in 1 .. n : h[i].time \in Nat
  <2>1. n \in Nat /\ DOMAIN h = 1 .. n /\ \A i \in 1 .. n : h[i] \in WindowTicks
    OBVIOUS
  <2>2. \A u \in WindowTicks : u.time \in Nat
    BY TickAssumption DEF WindowTicks
  <2> QED BY <2>1, <2>2
<1>2. PICK k \in 1 .. n + 1 :
          /\ r = InsertAt(h, k, t)
          /\ \A i \in 1 .. n : i >= k => h[i].time > t.time
          /\ k > 1 => h[k - 1].time <= t.time
  BY <1>1, PlaceByTime
<1> HIDE DEF r
<1>3. /\ r \in Seq(WindowTicks) /\ Len(r) = n + 1
      /\ \A i \in 1 .. n + 1 : r[i] = IF i < k THEN h[i] ELSE IF i = k THEN t ELSE h[i - 1]
  <2>1. r \in Seq(WindowTicks) /\ HasInserted(r, h, k, t)
    BY <1>2, InsertedTicks
  <2> QED BY <1>1, <2>1 DEF HasInserted
<1>4. ASSUME NEW i \in 1 .. n, i < k PROVE h[i].time <= t.time
  <2>1. k - 1 \in 1 .. n /\ (i = k - 1 \/ i < k - 1) /\ k > 1
    BY <1>1, <1>2, <1>4
  <2>2. h[i].time <= h[k - 1].time
    BY <1>1, <2>1 DEF InOrder
  <2> QED BY <1>1, <1>2, <2>1, <2>2
<1>5. ASSUME NEW i \in 1 .. n + 1, NEW j \in 1 .. n + 1, i < j
      PROVE  r[i].time <= r[j].time
  <2>0. i \in Nat /\ j \in Nat /\ k \in Nat
    BY <1>1, <1>2
  <2>1. CASE j < k
    <3>1. i \in 1 .. n /\ j \in 1 .. n /\ r[i] = h[i] /\ r[j] = h[j]
      BY <1>1, <1>2, <1>3, <1>5, <2>0, <2>1
    <3> QED BY <1>1, <1>5, <3>1 DEF InOrder
  <2>2. CASE j = k
    <3>1. i \in 1 .. n /\ i < k /\ r[i] = h[i] /\ r[j] = t
      BY <1>1, <1>2, <1>3, <1>5, <2>0, <2>2
    <3> QED BY <1>4, <3>1
  <2>3. CASE j > k /\ i < k
    <3>1. i \in 1 .. n /\ r[i] = h[i] /\ j - 1 \in 1 .. n /\ j - 1 >= k /\ r[j] = h[j - 1]
      BY <1>1, <1>2, <1>3, <1>5, <2>0, <2>3
    <3>2. h[i].time <= t.time /\ t.time < h[j - 1].time
      BY <1>1, <1>2, <1>4, <2>3, <3>1
    <3> QED BY <1>1, <3>1, <3>2
  <2>4. CASE j > k /\ i = k
    <3>1. r[i] = t /\ j - 1 \in 1 .. n /\ j - 1 >= k /\ r[j] = h[j - 1]
      BY <1>1, <1>2, <1>3, <1>5, <2>0, <2>4
    <3> QED BY <1>1, <1>2, <3>1
  <2>5. CASE j > k /\ i > k
    <3>1. /\ i - 1 \in 1 .. n /\ r[i] = h[i - 1]
          /\ j - 1 \in 1 .. n /\ r[j] = h[j - 1] /\ i - 1 < j - 1
      BY <1>1, <1>2, <1>3, <1>5, <2>0, <2>5
    <3> QED BY <1>1, <3>1 DEF InOrder
  <2> QED BY <2>0, <2>1, <2>2, <2>3, <2>4, <2>5
<1>6. InOrder(r)
  BY <1>3, <1>5 DEF InOrder
<1>7. ASSUME h # <<>> PROVE Last(r) = IF t.time >= Last(h).time THEN t ELSE Last(h)
  <2>1. n \in 1 .. n /\ Last(h) = h[n] /\ Last(r) = r[n + 1]
    BY <1>1, <1>3, <1>7 DEF Last
  <2>2. CASE k = n + 1
    <3>1. r[n + 1] = t /\ n = k - 1 /\ k > 1
      BY <1>1, <1>2, <1>3, <2>1, <2>2
    <3> QED BY <1>1, <1>2, <2>1, <3>1
  <2>3. CASE k # n + 1
    <3>1. r[n + 1] = h[n] /\ n >= k
      BY <1>1, <1>2, <1>3, <2>1, <2>3
    <3>2. h[n].time > t.time
      BY <1>2, <2>1, <3>1
    <3> QED BY <1>1, <2>1, <3>1, <3>2
  <2> QED BY <2>2, <2>3
<1> QED BY <1>3, <1>6, <1>7 DEF r

-----------------------------------------------------------------------------
(* The figures of a window *)

HighestIn(P, x) == x \in P /\ \A y \in P : x >= y
LowestIn(P, x) == x \in P /\ \A y \in P : x <= y

(* The prices that are taken for one are positive naturals, and no price is *)
(* not among them.                                                          *)
LEMMA PositivePrices ==
    /\ Positive \subseteq Nat
    /\ \A p \in Positive : p > 0
    /\ NoPrice \notin Positive /\ 0 \notin Positive
<1> SUFFICES ASSUME NEW p \in Prices, p > 0 PROVE p \in Nat /\ p # NoPrice /\ p # 0
  BY DEF Positive
<1>1. p \in Int
  BY TickAssumption
<1> QED BY <1>1, NoPriceAssumption

(* Prices of a window are positive, its sizes naturals.                     *)
LEMMA WindowPrices ==
    ASSUME NEW h \in Seq(WindowTicks)
    PROVE  /\ PricesOf(h) \subseteq Positive /\ Positive \subseteq Nat
           /\ h # <<>> => PricesOf(h) # {}
           /\ Volumes(h) \in Seq(Nat) /\ Volumes(h) \in Seq(Int) /\ DOMAIN Volumes(h) = DOMAIN h
           /\ Len(Volumes(h)) = Len(h) /\ Len(h) \in Nat
<1>1. Len(h) \in Nat /\ DOMAIN h = 1 .. Len(h) /\ \A i \in DOMAIN h : h[i] \in WindowTicks
  OBVIOUS
<1>2. \A u \in WindowTicks : u.price \in Positive /\ u.size \in Nat
  BY TickAssumption DEF WindowTicks
<1>3. Positive \subseteq Nat
  BY PositivePrices
<1>4. h # <<>> => 1 \in DOMAIN h
  BY <1>1
<1>5. Volumes(h) = [i \in 1 .. Len(h) |-> h[i].size] /\ \A i \in 1 .. Len(h) : h[i].size \in Nat
  BY <1>1, <1>2 DEF Volumes
<1>6. Volumes(h) \in Seq(Nat) /\ Volumes(h) \in Seq(Int) /\ DOMAIN Volumes(h) = DOMAIN h
      /\ Len(Volumes(h)) = Len(h)
  BY <1>1, <1>5
<1> QED BY <1>1, <1>2, <1>3, <1>4, <1>6 DEF PricesOf

(* A window that is not empty has a highest and a lowest price, and only    *)
(* one of each.                                                             *)
LEMMA Extremes ==
    ASSUME NEW h \in Seq(WindowTicks), h # <<>>
    PROVE  /\ \A x : HighestIn(PricesOf(h), x) <=> x = Highest(h)
           /\ \A x : LowestIn(PricesOf(h), x) <=> x = Lowest(h)
<1> DEFINE P == PricesOf(h)
           w == [i \in DOMAIN h |-> h[i].price]
<1>1. P \in SUBSET Nat /\ P # {}
  BY WindowPrices
<1>2. PICK lowest \in P : \A y \in P : lowest <= y
  <2> HIDE DEF P
  <2> QED BY <1>1, LeastElement
<1>3. w \in Seq(Nat) /\ DOMAIN w = DOMAIN h
  <2>1. Len(h) \in Nat /\ DOMAIN h = 1 .. Len(h)
    OBVIOUS
  <2>2. \A i \in 1 .. Len(h) : h[i].price \in Nat
    BY <1>1, <2>1 DEF PricesOf
  <2> QED BY <2>1, <2>2
<1>4. SumOf(w) \in Nat /\ \A y \in P : y <= SumOf(w)
  <2>1. SumOf(w) \in Nat
    BY <1>3, SumOfType
  <2>2. \A i \in DOMAIN w : w[i] <= SumOf(w)
    BY <1>3, SumOfAtLeast
  <2>3. \A y \in P : \E i \in DOMAIN w : y = w[i]
    BY DEF PricesOf
  <2> QED BY <2>1, <2>2, <2>3
<1>5. PICK highest \in P : \A y \in P : highest >= y
  <2> DEFINE n == SumOf(w)
             T == {n - y : y \in P}
  <2>1. n \in Nat /\ \A y \in P : y \in Nat /\ y <= n
    BY <1>1, <1>4
  <2> HIDE DEF n, P
  <2>2. T \in SUBSET Nat /\ T # {}
    <3>1. \A y \in P : n - y \in Nat
      BY <2>1
    <3>2. P # {}
      BY <1>1
    <3> QED BY <3>1, <3>2
  <2>3. PICK z \in T : \A y \in T : z <= y
    <3> HIDE DEF T
    <3> QED BY <2>2, LeastElement
  <2>4. PICK x \in P : z = n - x
    BY <2>3
  <2>5. ASSUME NEW y \in P PROVE x >= y
    <3>1. n - x <= n - y
      BY <2>3, <2>4
    <3> QED BY <2>1, <3>1
  <2> QED BY <2>5
<1> HIDE DEF P
<1>6. /\ Highest(h) = CHOOSE p \in P : \A q \in P : p >= q
      /\ Lowest(h) = CHOOSE p \in P : \A q \in P : p <= q
  BY DEF Highest, Lowest, P
<1>7. Highest(h) \in P /\ \A y \in P : Highest(h) >= y
  BY <1>5, <1>6
<1>8. Lowest(h) \in P /\ \A y \in P : Lowest(h) <= y
  BY <1>2, <1>6
<1>9. ASSUME NEW x PROVE HighestIn(P, x) <=> x = Highest(h)
  <2>1. ASSUME HighestIn(P, x) PROVE x = Highest(h)
    <3>1. x \in Nat /\ Highest(h) \in Nat /\ x >= Highest(h) /\ Highest(h) >= x
      BY <1>1, <1>7, <2>1 DEF HighestIn
    <3> QED BY <3>1
  <2> QED BY <1>7, <2>1 DEF HighestIn
<1>10. ASSUME NEW x PROVE LowestIn(P, x) <=> x = Lowest(h)
  <2>1. ASSUME LowestIn(P, x) PROVE x = Lowest(h)
    <3>1. x \in Nat /\ Lowest(h) \in Nat /\ x <= Lowest(h) /\ Lowest(h) <= x
      BY <1>1, <1>8, <2>1 DEF LowestIn
    <3> QED BY <3>1
  <2> QED BY <1>8, <2>1 DEF LowestIn
<1> QED BY <1>9, <1>10 DEF P

(* A tick that takes its place adds its price and its volume.               *)
LEMMA InsertedFigures ==
    ASSUME NEW h \in Seq(WindowTicks), NEW t \in WindowTicks
    PROVE  /\ Inserted(h, t) \in Seq(WindowTicks) /\ Inserted(h, t) # <<>>
           /\ PricesOf(Inserted(h, t)) = PricesOf(h) \union {t.price}
           /\ VolumeOf(Inserted(h, t)) = VolumeOf(h) + t.size
<1> DEFINE n == Len(h)
           r == Inserted(h, t)
<1>1. n \in Nat /\ DOMAIN h = 1 .. n
  OBVIOUS
<1>2. PICK k \in 1 .. n + 1 : r = InsertAt(h, k, t)
  BY PlaceByTime
<1> HIDE DEF r
<1>3. /\ r \in Seq(WindowTicks) /\ Len(r) = n + 1 /\ DOMAIN r = 1 .. n + 1
      /\ \A i \in 1 .. n + 1 : r[i] = IF i < k THEN h[i] ELSE IF i = k THEN t ELSE h[i - 1]
  <2>1. r \in Seq(WindowTicks) /\ HasInserted(r, h, k, t)
    BY <1>2, InsertedTicks
  <2> QED BY <1>1, <2>1 DEF HasInserted
<1>4. PricesOf(r) = PricesOf(h) \union {t.price}
  <2>1. ASSUME NEW i \in 1 .. n + 1 PROVE r[i].price \in PricesOf(h) \union {t.price}
    <3>1. CASE i < k
      <4>1. i \in DOMAIN h /\ r[i] = h[i]
        BY <1>1, <1>2, <1>3, <3>1
      <4> QED BY <4>1 DEF PricesOf
    <3>2. CASE i = k
      BY <1>3, <3>2
    <3>3. CASE i > k
      <4>1. i - 1 \in DOMAIN h /\ r[i] = h[i - 1]
        BY <1>1, <1>2, <1>3, <3>3
      <4> QED BY <4>1 DEF PricesOf
    <3> QED BY <1>1, <1>2, <3>1, <3>2, <3>3
  <2>2. ASSUME NEW i \in DOMAIN h PROVE h[i].price \in PricesOf(r)
    <3>1. CASE i < k
      <4>1. i \in DOMAIN r /\ r[i] = h[i]
        BY <1>1, <1>2, <1>3, <3>1
      <4> QED BY <4>1 DEF PricesOf
    <3>2. CASE i >= k
      <4>1. i + 1 \in DOMAIN r /\ r[i + 1] = h[(i + 1) - 1] /\ (i + 1) - 1 = i
        BY <1>1, <1>2, <1>3, <3>2
      <4> QED BY <4>1 DEF PricesOf
    <3> QED BY <1>1, <1>2, <3>1, <3>2
  <2>3. t.price \in PricesOf(r)
    <3>1. k \in DOMAIN r /\ r[k] = t
      BY <1>1, <1>2, <1>3
    <3> QED BY <3>1 DEF PricesOf
  <2>4. \A p \in PricesOf(r) : p \in PricesOf(h) \union {t.price}
    BY <1>3, <2>1 DEF PricesOf
  <2>5. \A p \in PricesOf(h) : p \in PricesOf(r)
    BY <2>2 DEF PricesOf
  <2> QED BY <2>3, <2>4, <2>5
<1>5. VolumeOf(r) = VolumeOf(h) + t.size
  <2> DEFINE v == Volumes(h)
           x == t.size
  <2>1. v \in Seq(Sizes) /\ Len(v) = n /\ x \in Sizes
    <3>1. v = [i \in 1 .. n |-> h[i].size] /\ \A i \in 1 .. n : h[i] \in WindowTicks
      BY <1>1 DEF Volumes
    <3>2. \A w \in WindowTicks : w.size \in Sizes
      BY DEF WindowTicks
    <3> QED BY <1>1, <3>1, <3>2
  <2>2. v \in Seq(Int) /\ x \in Int /\ DOMAIN v = 1 .. n /\ \A i \in 1 .. n : v[i] = h[i].size
    <3>1. v \in Seq(Int) /\ DOMAIN v = 1 .. n
      BY <1>1, WindowPrices
    <3>2. x \in Int
      <4>1. Sizes \subseteq Int
        BY TickAssumption
      <4> QED BY <2>1, <4>1
    <3>3. \A i \in 1 .. n : v[i] = h[i].size
      BY <1>1 DEF Volumes
    <3> QED BY <3>1, <3>2, <3>3
  <2> DEFINE u == InsertAt(v, k, x)
  <2>3. SumOf(u) = SumOf(v) + x
    BY <1>2, <2>1, <2>2, SumOfInsert
  <2> HIDE DEF v, x
  <2>4. /\ u \in Seq(Sizes) /\ Len(u) = n + 1
        /\ \A i \in 1 .. n + 1 :
              u[i] = IF i < k THEN v[i] ELSE IF i = k THEN x ELSE v[i - 1]
    <3>1. v \in Seq(Sizes) /\ k \in 1 .. Len(v) + 1 /\ x \in Sizes
      BY <1>2, <2>1
    <3>2. u \in Seq(Sizes) /\ HasInserted(u, v, k, x)
      BY <3>1, InsertedTicks
    <3> HIDE DEF u
    <3> QED BY <2>1, <3>2 DEF HasInserted
  <2> HIDE DEF u
  <2>5. ASSUME NEW i \in 1 .. n + 1 PROVE r[i].size = u[i]
    <3>1. CASE i < k
      <4>1. i \in 1 .. n
        BY <1>1, <1>2, <3>1
      <4> QED BY <1>3, <2>2, <2>4, <3>1, <4>1
    <3>2. CASE i = k
      <4>1. r[i] = t /\ u[i] = x
        BY <1>3, <2>4, <3>2
      <4> QED BY <4>1 DEF x
    <3>3. CASE i > k
      <4>1. i - 1 \in 1 .. n /\ ~(i < k) /\ i # k
        BY <1>1, <1>2, <3>3
      <4> QED BY <1>3, <2>2, <2>4, <4>1
    <3> QED BY <1>1, <1>2, <3>1, <3>2, <3>3
  <2>6. [i \in DOMAIN r |-> r[i].size] = u
    <3>1. u = [i \in 1 .. n + 1 |-> u[i]]
      BY <1>1, <2>4
    <3> QED BY <1>3, <2>5, <3>1
  <2>7. VolumeOf(h) = SumOf(v)
    BY DEF VolumeOf, Volumes, v
  <2> QED BY <2>3, <2>6, <2>7 DEF VolumeOf, x
<1>6. r # <<>>
  BY <1>1, <1>3
<1> QED BY <1>3, <1>4, <1>5, <1>6 DEF r

(* The oldest tick leaves with its price, unless another has it too, and    *)
(* with its volume.                                                         *)
LEMMA EvictedFigures ==
    ASSUME NEW h \in Seq(WindowTicks), h # <<>>
    PROVE  /\ Tail(h) \in Seq(WindowTicks) /\ Len(Tail(h)) = Len(h) - 1
           /\ PricesOf(h) = PricesOf(Tail(h)) \union {Head(h).price}
           /\ VolumeOf(h) = Head(h).size + VolumeOf(Tail(h))
           /\ Head(h) \in WindowTicks
           /\ VolumeOf(Tail(h)) \in Nat /\ Head(h).size \in Nat
<1> DEFINE n == Len(h)
           v == Volumes(h)
<1>1. /\ n \in Nat /\ n >= 1 /\ DOMAIN h = 1 .. n /\ Head(h) = h[1] /\ Head(h) \in WindowTicks
      /\ Tail(h) \in Seq(WindowTicks) /\ Len(Tail(h)) = n - 1 /\ DOMAIN Tail(h) = 1 .. n - 1
      /\ \A i \in 1 .. n - 1 : Tail(h)[i] = h[i + 1]
  OBVIOUS
<1>2. PricesOf(h) = PricesOf(Tail(h)) \union {Head(h).price}
  <2>1. \A i \in 1 .. n : i = 1 \/ (i - 1 \in 1 .. n - 1 /\ h[i] = Tail(h)[i - 1])
    BY <1>1
  <2>2. \A i \in 1 .. n - 1 : i + 1 \in 1 .. n
    BY <1>1
  <2>3. ASSUME NEW p PROVE p \in PricesOf(h) <=> p \in PricesOf(Tail(h)) \union {Head(h).price}
    <3>1. p \in PricesOf(h) <=> \E i \in 1 .. n : p = h[i].price
      BY <1>1 DEF PricesOf
    <3>2. p \in PricesOf(Tail(h)) <=> \E i \in 1 .. n - 1 : p = Tail(h)[i].price
      BY <1>1 DEF PricesOf
    <3>3. 1 \in 1 .. n
      BY <1>1
    <3> QED BY <1>1, <2>1, <2>2, <3>1, <3>2, <3>3
  <2> QED BY <2>3
<1>3. /\ v \in Seq(Int) /\ v \in Seq(Nat) /\ Len(v) = n /\ DOMAIN v = 1 .. n
      /\ \A i \in 1 .. n : v[i] = h[i].size
      /\ Volumes(Tail(h)) \in Seq(Nat) /\ DOMAIN Volumes(Tail(h)) = 1 .. n - 1
  BY <1>1, WindowPrices DEF Volumes
<1> HIDE DEF v
<1>4. v # <<>> /\ Head(v) = Head(h).size /\ Len(Tail(v)) = n - 1 /\ DOMAIN Tail(v) = 1 .. n - 1
      /\ Tail(v) \in Seq(Nat)
      /\ \A i \in 1 .. n - 1 : Tail(v)[i] = v[i + 1]
  BY <1>1, <1>3
<1>5. \A i \in 1 .. n - 1 : i + 1 \in 1 .. n /\ Tail(v)[i] = Tail(h)[i].size
  BY <1>1, <1>3, <1>4
<1>6. Tail(v) = Volumes(Tail(h))
  <2>1. Tail(v) = [i \in 1 .. n - 1 |-> Tail(v)[i]]
    <3> DEFINE w == Tail(v)
    <3>1. w \in Seq(Nat) /\ DOMAIN w = 1 .. n - 1
      BY <1>4
    <3> HIDE DEF w
    <3>2. w = [i \in 1 .. n - 1 |-> w[i]]
      BY <3>1
    <3> QED BY <3>2 DEF w
  <2> QED BY <1>1, <1>5, <2>1 DEF Volumes
<1>7. SumOf(v) = Head(v) + SumOf(Tail(v))
  BY <1>3, <1>4, SumOfTail
<1>8. VolumeOf(h) = SumOf(v) /\ VolumeOf(Tail(h)) = SumOf(Tail(v))
  BY <1>6 DEF VolumeOf, Volumes, v
<1>9. SumOf(Tail(v)) \in Nat
  BY <1>4, SumOfType
<1>10. Head(h).size \in Nat
  BY <1>1, TickAssumption DEF WindowTicks
<1> QED BY <1>1, <1>2, <1>4, <1>7, <1>8, <1>9, <1>10

-----------------------------------------------------------------------------
(* The window *)

(* Once there is a tick there is an open price to measure changes from.     *)
WindowInv ==
    /\ TypeOK
    /\ Chronological
    /\ history # <<>> => /\ open > 0
                         /\ volume = VolumeOf(history)
                         /\ HighestIn(PricesOf(history), high)
                         /\ LowestIn(PricesOf(history), low)

(* A window with ticks has a highest and a lowest price and a volume.       *)
LEMMA FiguresAreTheirs ==
    ASSUME NEW h \in Seq(WindowTicks), h # <<>>
    PROVE  /\ VolumeOf(h) \in Nat
           /\ HighestIn(PricesOf(h), Highest(h)) /\ Highest(h) \in Positive
           /\ LowestIn(PricesOf(h), Lowest(h)) /\ Lowest(h) \in Positive
<1>1. VolumeOf(h) \in Nat
  BY WindowPrices, SumOfType DEF VolumeOf, Volumes
<1>2. HighestIn(PricesOf(h), Highest(h)) /\ LowestIn(PricesOf(h), Lowest(h))
  BY Extremes
<1> QED BY <1>1, <1>2, WindowPrices DEF HighestIn, LowestIn

(* The figures of a window of one tick.                                     *)
LEMMA OneTick ==
    ASSUME NEW t \in WindowTicks
    PROVE  /\ <<t>> \in Seq(WindowTicks) /\ Len(<<t>>) = 1 /\ Last(<<t>>) = t
           /\ PricesOf(<<t>>) = {t.price} /\ VolumeOf(<<t>>) = t.size
           /\ t.price \in Positive /\ t.price \in Nat /\ t.price > 0 /\ t.size \in Nat
<1>1. <<t>> \in Seq(WindowTicks) /\ Len(<<t>>) = 1 /\ Last(<<t>>) = t
  BY DEF Last
<1>2. PricesOf(<<t>>) = {t.price}
  BY DEF PricesOf
<1>3. t.price \in Positive /\ t.size \in Nat
  <2>1. \A u \in WindowTicks : u.price \in Positive /\ u.size \in Nat
    BY TickAssumption DEF WindowTicks
  <2> QED BY <2>1
<1>4. t.price \in Nat /\ t.price > 0
  BY <1>1, <1>3, WindowPrices DEF Positive
<1>5. VolumeOf(<<t>>) = t.size
  <2> DEFINE x == t.size
  <2>1. [i \in DOMAIN <<t>> |-> <<t>>[i].size] = <<x>>
    OBVIOUS
  <2>2. x \in Int
    BY <1>3
  <2> HIDE DEF x
  <2>3. SumOf(<<x>>) = x
    BY <2>2, SumOfOne
  <2> QED BY <2>1, <2>3 DEF VolumeOf, x
<1> QED BY <1>1, <1>2, <1>3, <1>4, <1>5

(* A window that a tick joins: the new extremes are found from the old.     *)
LEMMA ExtremesGrow ==
    ASSUME NEW P, P \subseteq Nat, NEW x \in Nat, NEW y \in Nat
    PROVE  /\ HighestIn(P, y) => HighestIn(P \union {x}, Larger(y, x))
           /\ LowestIn(P, y) => LowestIn(P \union {x}, Smaller(y, x))
<1>1. ASSUME HighestIn(P, y) PROVE HighestIn(P \union {x}, Larger(y, x))
  <2>1. \A z \in P : z \in Nat /\ y >= z
    BY <1>1 DEF HighestIn
  <2>2. CASE y >= x
    BY <1>1, <2>1, <2>2 DEF HighestIn, Larger
  <2>3. CASE ~(y >= x)
    <3>1. \A z \in P : x >= z
      BY <2>1, <2>3
    <3> QED BY <2>3, <3>1 DEF HighestIn, Larger
  <2> QED BY <2>2, <2>3
<1>2. ASSUME LowestIn(P, y) PROVE LowestIn(P \union {x}, Smaller(y, x))
  <2>1. \A z \in P : z \in Nat /\ y <= z
    BY <1>2 DEF LowestIn
  <2>2. CASE y <= x
    BY <1>2, <2>1, <2>2 DEF LowestIn, Smaller
  <2>3. CASE ~(y <= x)
    <3>1. \A z \in P : x <= z
      BY <2>1, <2>3
    <3> QED BY <2>3, <3>1 DEF LowestIn, Smaller
  <2> QED BY <2>2, <2>3
<1> QED BY <1>1, <1>2

(* The first tick of a symbol keeps the invariant.                          *)
LEMMA FirstTickKeepsWindow ==
    ASSUME WindowInv, NEW t \in WindowTicks, FirstTick(t)
    PROVE  WindowInv'
<1>0. WindowTicks = [price : Positive, size : Sizes, time : Times]
  BY DEF WindowTicks
<1>1. /\ <<t>> \in Seq(WindowTicks) /\ Len(<<t>>) = 1 /\ t.size \in Nat
      /\ PricesOf(<<t>>) = {t.price} /\ VolumeOf(<<t>>) = t.size
      /\ t.price \in Positive /\ t.price \in Nat /\ t.price > 0
  BY OneTick
<1>2. history' = <<t>> /\ volume' = t.size /\ high' = t.price /\ low' = t.price
  BY DEF FirstTick
<1>3. open' \in Positive \union {0} /\ open' > 0
  BY <1>1 DEF FirstTick, WindowInv, TypeOK, Positive
<1>4. TypeOK'
  <2>1. 1 <= MaxTicks
    BY WindowAssumption
  <2> QED BY <1>0, <1>1, <1>2, <1>3, <2>1 DEF TypeOK, Positive
<1>5. Chronological'
  <2>1. \A i, j \in DOMAIN <<t>> : ~(i < j)
    OBVIOUS
  <2> QED BY <1>2, <2>1 DEF Chronological
<1>6. volume' = VolumeOf(history') /\ HighestIn(PricesOf(history'), high')
      /\ LowestIn(PricesOf(history'), low')
  BY <1>1, <1>2 DEF HighestIn, LowestIn
<1>7. VolumeOf(history)' = VolumeOf(history') /\ PricesOf(history)' = PricesOf(history')
  BY DEF VolumeOf, PricesOf
<1> QED BY <1>3, <1>4, <1>5, <1>6, <1>7 DEF WindowInv, HighestIn, LowestIn

(* So does a tick while the window has room.                                *)
LEMMA GrowWindowKeepsWindow ==
    ASSUME WindowInv, NEW t \in WindowTicks, GrowWindow(t)
    PROVE  WindowInv'
<1> DEFINE r == Inserted(history, t)
           P == PricesOf(history)
<1>0. WindowTicks = [price : Positive, size : Sizes, time : Times]
  BY DEF WindowTicks
<1>1. /\ history \in Seq(WindowTicks) /\ history # <<>> /\ InOrder(history)
      /\ Len(history) < MaxTicks /\ open > 0 /\ open \in Positive \union {0}
      /\ volume = VolumeOf(history) /\ HighestIn(P, high) /\ LowestIn(P, low)
  BY <1>0 DEF WindowInv, TypeOK, GrowWindow, Chronological, InOrder
<1>2. /\ r \in Seq(WindowTicks) /\ Len(r) = Len(history) + 1 /\ InOrder(r) /\ r # <<>>
      /\ PricesOf(r) = P \union {t.price} /\ VolumeOf(r) = VolumeOf(history) + t.size
  BY <1>1, InsertedKeepsOrder, InsertedFigures
<1>3. P \subseteq Nat /\ high \in Nat /\ low \in Nat /\ t.price \in Nat
  BY <1>1, WindowPrices, OneTick DEF HighestIn, LowestIn
<1>4. /\ history' = r /\ volume' = VolumeOf(r) /\ open' = open
      /\ high' = Larger(high, t.price) /\ low' = Smaller(low, t.price)
  BY <1>1, <1>2 DEF GrowWindow
<1>5. HighestIn(PricesOf(r), high') /\ LowestIn(PricesOf(r), low')
  <2> HIDE DEF P, r
  <2> QED BY <1>1, <1>2, <1>3, <1>4, ExtremesGrow
<1> HIDE DEF r, P
<1>6. TypeOK'
  <2>1. VolumeOf(r) \in Nat /\ PricesOf(r) \subseteq Positive
    BY <1>2, FiguresAreTheirs, WindowPrices
  <2>2. Len(r) <= MaxTicks
    BY <1>1, <1>2, WindowAssumption
  <2> QED BY <1>0, <1>1, <1>2, <1>4, <1>5, <2>1, <2>2 DEF TypeOK, Positive, HighestIn, LowestIn
<1>7. Chronological'
  BY <1>2, <1>4 DEF Chronological, InOrder
<1>8. VolumeOf(history)' = VolumeOf(r) /\ PricesOf(history)' = PricesOf(r)
  BY <1>4 DEF VolumeOf, PricesOf
<1> QED BY <1>1, <1>4, <1>5, <1>6, <1>7, <1>8 DEF WindowInv, HighestIn, LowestIn

(* So does a tick into a full window, which pushes the oldest out.          *)
LEMMA SlideWindowKeepsWindow ==
    ASSUME WindowInv, NEW t \in WindowTicks, SlideWindow(t)
    PROVE  WindowInv'
<1> DEFINE rest == Tail(history)
           r == Inserted(rest, t)
           out == Head(history)
           held == out.price >= high \/ out.price <= low
<1>0. WindowTicks = [price : Positive, size : Sizes, time : Times]
  BY DEF WindowTicks
<1>1. /\ history \in Seq(WindowTicks) /\ history # <<>> /\ InOrder(history)
      /\ Len(history) = MaxTicks /\ open > 0 /\ open \in Positive \union {0}
      /\ volume = VolumeOf(history)
      /\ HighestIn(PricesOf(history), high) /\ LowestIn(PricesOf(history), low)
  <2>1. history \in Seq(WindowTicks) /\ Len(history) = MaxTicks
        /\ open \in Positive \union {0} /\ InOrder(history)
    BY <1>0 DEF WindowInv, TypeOK, SlideWindow, Chronological, InOrder
  <2>2. history # <<>>
    BY <2>1, WindowAssumption
  <2> QED BY <2>1, <2>2 DEF WindowInv
<1>2. /\ rest \in Seq(WindowTicks) /\ Len(rest) = Len(history) - 1
      /\ PricesOf(history) = PricesOf(rest) \union {out.price}
      /\ VolumeOf(history) = out.size + VolumeOf(rest)
      /\ out \in WindowTicks /\ VolumeOf(rest) \in Nat /\ out.size \in Nat
  BY <1>1, EvictedFigures
<1>3. InOrder(rest)
  <2>1. \A i \in DOMAIN rest : i \in Nat /\ i + 1 \in DOMAIN history /\ rest[i] = history[i + 1]
    BY <1>1
  <2> HIDE DEF rest
  <2>2. \A i, j \in DOMAIN rest : i < j => i + 1 < j + 1
    BY <2>1
  <2> QED BY <1>1, <2>1, <2>2 DEF InOrder
<1>4. /\ history' = r /\ volume' = Larger(0, volume - out.size) + t.size /\ open' = open
      /\ high' = IF held THEN Highest(r) ELSE Larger(high, t.price)
      /\ low' = IF held THEN Lowest(r) ELSE Smaller(low, t.price)
  BY DEF SlideWindow
<1> HIDE DEF rest, out
<1>5. /\ r \in Seq(WindowTicks) /\ Len(r) = Len(rest) + 1 /\ InOrder(r) /\ r # <<>>
      /\ PricesOf(r) = PricesOf(rest) \union {t.price} /\ VolumeOf(r) = VolumeOf(rest) + t.size
  BY <1>2, <1>3, InsertedKeepsOrder, InsertedFigures
<1>6. /\ PricesOf(history) \subseteq Nat /\ PricesOf(rest) \subseteq Nat
      /\ high \in Nat /\ low \in Nat /\ t.price \in Nat /\ out.price \in Nat
  BY <1>1, <1>2, WindowPrices, OneTick DEF HighestIn, LowestIn
<1> HIDE DEF r
<1>7. volume' = VolumeOf(r)
  <2>1. volume - out.size = VolumeOf(rest)
    BY <1>1, <1>2
  <2>2. Larger(0, volume - out.size) = VolumeOf(rest)
    BY <1>2, <2>1 DEF Larger
  <2> QED BY <1>4, <1>5, <2>2
<1>8. HighestIn(PricesOf(r), high') /\ LowestIn(PricesOf(r), low')
  <2>1. CASE held
    BY <1>4, <1>5, <2>1, FiguresAreTheirs
  <2>2. CASE ~held
    <3>1. out.price < high /\ out.price > low
      BY <1>6, <2>2
    <3>2. HighestIn(PricesOf(rest), high) /\ LowestIn(PricesOf(rest), low)
      BY <1>1, <1>2, <1>6, <3>1, SMTT(60) DEF HighestIn, LowestIn
    <3>3. high' = Larger(high, t.price) /\ low' = Smaller(low, t.price)
      BY <1>4, <2>2
    <3> QED BY <1>5, <1>6, <3>2, <3>3, ExtremesGrow
  <2> QED BY <2>1, <2>2
<1> HIDE DEF held
<1>9. TypeOK'
  <2>1. VolumeOf(r) \in Nat /\ PricesOf(r) \subseteq Positive
    BY <1>5, FiguresAreTheirs, WindowPrices
  <2>2. Len(r) <= MaxTicks
    BY <1>1, <1>2, <1>5, WindowAssumption
  <2> QED BY <1>0, <1>1, <1>4, <1>5, <1>7, <1>8, <2>1, <2>2
          DEF TypeOK, Positive, HighestIn, LowestIn
<1>10. Chronological'
  BY <1>4, <1>5 DEF Chronological, InOrder
<1>11. VolumeOf(history)' = VolumeOf(r) /\ PricesOf(history)' = PricesOf(r)
  BY <1>4 DEF VolumeOf, PricesOf
<1> QED BY <1>1, <1>4, <1>7, <1>8, <1>9, <1>10, <1>11 DEF WindowInv, HighestIn, LowestIn

(* So does add_tick.                                                        *)
LEMMA AddTickKeepsWindow ==
    ASSUME WindowInv, NEW t \in Ticks, AddTick(t)
    PROVE  WindowInv' /\ t \in WindowTicks
<1>1. t \in WindowTicks
  BY DEF AddTick, Ticks, WindowTicks, Positive
<1> QED BY <1>1, FirstTickKeepsWindow, GrowWindowKeepsWindow, SlideWindowKeepsWindow DEF AddTick

(* So does set_open_price.                                                  *)
LEMMA OpenPriceKeepsWindow ==
    ASSUME WindowInv, NEW p \in Prices, SetOpenPrice(p)
    PROVE  WindowInv'
<1>1. p \in Positive /\ p > 0 /\ open' = p /\ UNCHANGED windowVars
  BY DEF SetOpenPrice, Positive
<1>2. TypeOK'
  BY <1>1 DEF WindowInv, TypeOK, windowVars, Positive
<1>3. Chronological'
  BY <1>1 DEF WindowInv, Chronological, windowVars
<1> QED BY <1>1, <1>2, <1>3 DEF WindowInv, windowVars, VolumeOf, PricesOf, HighestIn, LowestIn

(* So does a step that leaves the window alone.                             *)
LEMMA WindowStutters == WindowInv /\ UNCHANGED vars => WindowInv'
<1> SUFFICES ASSUME WindowInv, UNCHANGED vars PROVE WindowInv'
  OBVIOUS
<1>1. TypeOK'
  BY DEF WindowInv, TypeOK, vars, windowVars, Positive
<1>2. Chronological'
  BY DEF WindowInv, Chronological, vars, windowVars
<1> QED BY <1>1, <1>2 DEF WindowInv, vars, windowVars, VolumeOf, PricesOf, HighestIn, LowestIn

(* A second query starts while the database does not answer only when the   *)
(* first is over: the breaker cools when nothing is awaited.                *)
BreakerInv ==
    /\ BreakerTypeOK
    /\ cooled => Awaited = 0
    /\ probes <= 1

(* Every step of the breaker keeps its invariant.                           *)
LEMMA BreakerMoves ==
    ASSUME BreakerInv,
           Query \/ Answered \/ TimedOut \/ Cool \/ UNCHANGED breakerVars
    PROVE  BreakerInv'
<1>1. queries \in Nat /\ probes \in Nat /\ MaxQueries \in Nat
      /\ queries <= MaxQueries /\ probes <= MaxQueries
  BY QueryAssumption DEF BreakerInv, BreakerTypeOK
<1>2. CASE Query
  <2>1. /\ queries + probes < MaxQueries /\ cooled' = FALSE /\ available' = available
        /\ ~available => cooled
    BY <1>2 DEF Query, Awaited
  <2>0. available' \in BOOLEAN /\ cooled' \in BOOLEAN /\ ~cooled'
    BY <2>1 DEF BreakerInv, BreakerTypeOK
  <2>2. CASE available
    <3>1. queries' = queries + 1 /\ probes' = probes
      BY <1>2, <2>2 DEF Query
    <3>2. queries' \in 0 .. MaxQueries /\ probes' <= 1
      BY <1>1, <2>1, <3>1 DEF BreakerInv
    <3>3. probes' \in 0 .. MaxQueries
      BY <1>1, <3>1
    <3> QED BY <2>0, <2>1, <3>2, <3>3 DEF BreakerInv, BreakerTypeOK
  <2>3. CASE ~available
    <3>1. queries' = queries /\ probes' = probes + 1
      BY <1>2, <2>3 DEF Query
    <3>2. probes = 0
      BY <1>1, <2>1, <2>3 DEF BreakerInv, Awaited
    <3>3. probes' \in 0 .. MaxQueries /\ probes' <= 1
      BY <1>1, <2>1, <3>1, <3>2
    <3>4. queries' \in 0 .. MaxQueries
      BY <1>1, <3>1
    <3> QED BY <2>0, <2>1, <3>3, <3>4 DEF BreakerInv, BreakerTypeOK
  <2> QED BY <2>2, <2>3
<1>3. ASSUME Ended, cooled' = cooled, available' \in BOOLEAN PROVE BreakerInv'
  <2>1. Awaited # 0 /\ ~cooled
    BY <1>1, <1>3 DEF Ended, BreakerInv, Awaited
  <2>2. queries' \in 0 .. MaxQueries /\ probes' \in 0 .. MaxQueries /\ probes' <= 1
    BY <1>1, <1>3 DEF Ended, BreakerInv
  <2> QED BY <1>3, <2>1, <2>2 DEF BreakerInv, BreakerTypeOK
<1>4. CASE Cool
  BY <1>1, <1>4 DEF Cool, BreakerInv, BreakerTypeOK, Awaited
<1>5. CASE UNCHANGED breakerVars
  BY <1>5 DEF breakerVars, BreakerInv, BreakerTypeOK, Awaited
<1> QED BY <1>2, <1>3, <1>4, <1>5 DEF Answered, TimedOut

DetailInv == WindowInv /\ BreakerInv

(* An empty window and a closed breaker keep both.                          *)
LEMMA DetailStart == DetailInit => DetailInv
<1> SUFFICES ASSUME DetailInit PROVE DetailInv
  OBVIOUS
<1>1. TypeOK /\ Chronological
  BY WindowAssumption DEF DetailInit, Init, TypeOK, Chronological
<1>2. WindowInv
  BY <1>1 DEF DetailInit, Init, WindowInv
<1>3. BreakerInv
  BY QueryAssumption DEF DetailInit, BreakerInv, BreakerTypeOK, Awaited
<1> QED BY <1>2, <1>3 DEF DetailInv

(* So does every step.                                                      *)
LEMMA DetailStep == DetailInv /\ [DetailNext]_detailVars => DetailInv'
<1> SUFFICES ASSUME DetailInv, [DetailNext]_detailVars PROVE DetailInv'
  OBVIOUS
<1>1. ASSUME NEW t \in Ticks, AddTick(t), UNCHANGED breakerVars PROVE DetailInv'
  BY <1>1, AddTickKeepsWindow, BreakerMoves DEF DetailInv
<1>2. ASSUME NEW p \in Prices, SetOpenPrice(p), UNCHANGED breakerVars PROVE DetailInv'
  BY <1>2, OpenPriceKeepsWindow, BreakerMoves DEF DetailInv
<1>3. CASE Query \/ Answered \/ TimedOut \/ Cool
  <2>1. UNCHANGED vars
    BY <1>3 DEF Query, Answered, TimedOut, Cool
  <2> QED BY <1>3, <2>1, WindowStutters, BreakerMoves DEF DetailInv
<1>4. CASE UNCHANGED detailVars
  BY <1>4, WindowStutters, BreakerMoves DEF DetailInv, detailVars
<1> QED BY <1>1, <1>2, <1>3, <1>4 DEF DetailNext

-----------------------------------------------------------------------------
(* What the invariant says. *)

(* Every variable of the window keeps its type; no price in it is zero or   *)
(* less.                                                                    *)
THEOREM WindowIsTyped == DetailSpec => [](TypeOK /\ BreakerTypeOK)
<1>1. DetailInv => TypeOK /\ BreakerTypeOK
  BY DEF DetailInv, WindowInv, BreakerInv
<1> QED BY <1>1, DetailStart, DetailStep, PTL DEF DetailSpec

(* The high, low and volume that are kept up to date are those of the ticks *)
(* in the window, whatever came late and whatever was evicted.              *)
THEOREM FiguresMatch == DetailSpec => []RunningFiguresMatch
<1>1. DetailInv => RunningFiguresMatch
  <2> SUFFICES ASSUME DetailInv, history # <<>>
               PROVE  volume = VolumeOf(history) /\ high = Highest(history)
                      /\ low = Lowest(history)
    BY DEF RunningFiguresMatch
  <2>1. history \in Seq(WindowTicks)
    BY DEF DetailInv, WindowInv, TypeOK, WindowTicks
  <2> QED BY <2>1, Extremes DEF DetailInv, WindowInv
<1> QED BY <1>1, DetailStart, DetailStep, PTL DEF DetailSpec

(* The window is in the order of time whatever the order of arrival.        *)
THEOREM WindowInOrder == DetailSpec => []Chronological
<1>1. DetailInv => Chronological
  BY DEF DetailInv, WindowInv
<1> QED BY <1>1, DetailStart, DetailStep, PTL DEF DetailSpec

(* While the database does not answer, one request at a time asks it.       *)
THEOREM OneProbe == DetailSpec => []ProbesAlone
<1>1. DetailInv => ProbesAlone
  BY DEF DetailInv, BreakerInv, ProbesAlone
<1> QED BY <1>1, DetailStart, DetailStep, PTL DEF DetailSpec

(* An anchor is positive whenever its fallback is, and never negative.      *)
LEMMA AnchorsArePositive ==
    ASSUME NEW start, NEW fallback \in Nat
    PROVE  /\ Anchor(start, fallback) \in Nat
           /\ fallback > 0 => Anchor(start, fallback) > 0
           /\ Anchor(start, fallback) = fallback \/ Anchor(start, fallback) > 0
BY PositivePrices DEF Anchor

(* What a page may show of a price: a change from a positive price, or none.*)
Sound(current, c) == c.change = 0 \/ current - c.change > 0

(* A change is sound when there is an anchor, and when there is no price.   *)
LEMMA ChangesAreSound ==
    ASSUME NEW current \in Int, NEW anchor \in Int, anchor > 0 \/ anchor = current
    PROVE  Sound(current, Change(current, anchor))
<1>1. Change(current, anchor).change = current - anchor
  BY DEF Change
<1> DEFINE c == Change(current, anchor)
<1> HIDE DEF c
<1>2. c.change = 0 \/ current - c.change > 0
  <2>1. c.change = current - anchor
    BY <1>1 DEF c
  <2> QED BY <2>1
<1> QED BY <1>2 DEF Sound, c

(* So is a table over a fallback that is positive, or the price itself.     *)
LEMMA TablesAreSound ==
    ASSUME NEW current \in Int, NEW starts, NEW fallback \in Nat,
           fallback > 0 \/ fallback = current
    PROVE  \A e \in Durations : Sound(current, DurationStats(current, starts, fallback)[e])
<1> SUFFICES ASSUME NEW e \in Durations
             PROVE  Sound(current, DurationStats(current, starts, fallback)[e])
  OBVIOUS
<1> DEFINE from == Anchor(StartOf(starts, e, NoPrice), fallback)
<1>1. DurationStats(current, starts, fallback)[e] = Change(current, from)
  BY DEF DurationStats
<1>2. from \in Int /\ (from > 0 \/ from = fallback)
  BY AnchorsArePositive
<1> HIDE DEF from
<1>3. from > 0 \/ from = current
  BY <1>2
<1> QED BY <1>1, <1>2, <1>3, ChangesAreSound

(* What SummaryAgrees says of one summary.                                  *)
SummaryIsSound(d, starts, own, s) ==
    /\ Sound(s.currentPrice, s.asked)
    /\ \A e \in DOMAIN s.stats : Sound(s.currentPrice, s.stats[e])
    /\ d \in DOMAIN s.stats /\ (history = <<>> \/ starts # <<>> \/ own \notin Positive) =>
          s.asked = s.stats[d]

(* With nothing to show, nothing is wrong.                                  *)
LEMMA EmptyIsSound ==
    ASSUME NEW d, NEW starts, NEW own
    PROVE  SummaryIsSound(d, starts, own, EmptySummary)
<1>1. EmptySummary.currentPrice = 0 /\ EmptySummary.asked = Change(0, 0)
      /\ EmptySummary.stats = <<>>
  BY DEF EmptySummary
<1>2. Sound(0, Change(0, 0))
  BY ChangesAreSound
<1>3. DOMAIN EmptySummary.stats = {}
  BY <1>1
<1> QED BY <1>1, <1>2, <1>3 DEF SummaryIsSound

(* A symbol with ticks: the buffer's own open price is positive.            *)
LEMMA LiveIsSound ==
    ASSUME DetailInv, history # <<>>, NEW d \in Askable, NEW starts \in IntervalStarts,
           NEW own \in Answers, NEW record
    PROVE  SummaryIsSound(d, starts, own, Summary(d, starts, own, record))
<1> DEFINE current == Last(history).price
           s == Summary(d, starts, own, record)
<1>1. /\ s.currentPrice = current
      /\ s.asked = Change(current, Anchor(StartOf(starts, d, own), open))
      /\ s.stats = DurationStats(current, starts, open)
  BY DEF Summary, ChangeFor
<1>2. open \in Nat /\ open > 0
  BY PositivePrices DEF DetailInv, WindowInv, TypeOK
<1>3. current \in Int
  <2> DEFINE W == [price : Positive, size : Sizes, time : Times]
  <2>1. history \in Seq(W)
    BY DEF DetailInv, WindowInv, TypeOK
  <2>2. ASSUME NEW t \in W PROVE t.price \in Int
    <3>1. t.price \in Positive
      OBVIOUS
    <3>2. t.price \in Nat
      BY <3>1, PositivePrices, Zenon
    <3> QED BY <3>2
  <2> HIDE DEF W
  <2>3. Last(history) \in W
    BY <2>1 DEF Last
  <2> QED BY <2>2, <2>3
<1>4. DOMAIN s.stats = Durations
  BY <1>1 DEF DurationStats
<1> HIDE DEF s, current
<1>5. \A e \in DOMAIN s.stats : Sound(current, s.stats[e])
  BY <1>1, <1>2, <1>3, <1>4, TablesAreSound
<1>6. Sound(current, s.asked)
  <2> DEFINE from == Anchor(StartOf(starts, d, own), open)
  <2>1. from \in Int /\ from > 0
    BY <1>2, AnchorsArePositive
  <2> HIDE DEF from
  <2>2. Sound(current, Change(current, from))
    BY <1>3, <2>1, ChangesAreSound
  <2> QED BY <1>1, <2>2 DEF from
<1>7. ASSUME d \in Durations, starts # <<>> \/ own \notin Positive
      PROVE  s.asked = s.stats[d]
  <2>1. s.stats[d] = Change(current, Anchor(StartOf(starts, d, NoPrice), open))
    BY <1>1, <1>7 DEF DurationStats
  <2>2. Anchor(StartOf(starts, d, NoPrice), open) = Anchor(StartOf(starts, d, own), open)
    <3>1. CASE d \in DOMAIN starts
      BY <3>1 DEF StartOf
    <3>2. CASE d \notin DOMAIN starts
      <4>1. starts = <<>>
        BY <1>7, <3>2 DEF IntervalStarts
      <4>2. own \notin Positive /\ NoPrice \notin Positive
        BY <1>7, <4>1, PositivePrices
      <4> QED BY <3>2, <4>2 DEF StartOf, Anchor
    <3> QED BY <3>1, <3>2
  <2> QED BY <1>1, <2>1, <2>2
<1> QED BY <1>1, <1>4, <1>5, <1>6, <1>7 DEF SummaryIsSound, s

(* A symbol with a bar only: what its first price is measured from is       *)
(* positive or that price itself, and the table's fallback is the same.     *)
LEMMA RecordIsSound ==
    ASSUME history = <<>>, NEW d \in Askable, NEW starts \in IntervalStarts,
           NEW own \in Answers, NEW record \in Records
    PROVE  SummaryIsSound(d, starts, own, RecordSummary(record, d, starts, own))
<1> DEFINE current == record.price
           first == IF record.open = 0 THEN current ELSE record.open
           start == StartOf(starts, d, own)
           from == Anchor(start, first)
           s == RecordSummary(record, d, starts, own)
<1>1. CASE start = Failed
  BY <1>1, EmptyIsSound DEF RecordSummary
<1>2. CASE start # Failed
  <2>1. /\ s.currentPrice = current
        /\ s.asked = Change(current, from)
        /\ s.stats = DurationStats(current, starts, from)
    BY <1>2 DEF RecordSummary
  <2>2. first \in Nat /\ current \in Nat /\ (first > 0 \/ first = current)
    <3>1. record.price \in Positive \union {0} /\ record.open \in Positive \union {0}
      BY DEF Records
    <3>2. record.price \in Nat \union {0} /\ record.open \in Nat \union {0}
      BY <3>1, PositivePrices, Zenon
    <3> QED BY <3>2
  <2>3. DOMAIN s.stats = Durations
    BY <2>1 DEF DurationStats
  <2> HIDE DEF s, current, first
  <2>4. from \in Nat /\ (from > 0 \/ from = current)
    <3>1. from \in Nat /\ (from = first \/ from > 0)
      BY <2>2, AnchorsArePositive
    <3> HIDE DEF from
    <3> QED BY <2>2, <3>1
  <2>5. Anchor(StartOf(starts, d, NoPrice), from) = from
    <3>1. CASE d \in DOMAIN starts
      BY <3>1 DEF StartOf, Anchor
    <3>2. CASE d \notin DOMAIN starts
      <4>1. NoPrice \notin Positive
        BY PositivePrices
      <4> QED BY <3>2, <4>1 DEF StartOf, Anchor
    <3> QED BY <3>1, <3>2
  <2> HIDE DEF from
  <2>6. Sound(current, s.asked)
    BY <2>1, <2>2, <2>4, ChangesAreSound
  <2>7. \A e \in DOMAIN s.stats : Sound(current, s.stats[e])
    BY <2>1, <2>2, <2>3, <2>4, TablesAreSound
  <2>8. d \in DOMAIN s.stats => s.asked = s.stats[d]
    BY <2>1, <2>3, <2>5 DEF DurationStats
  <2> QED BY <2>1, <2>6, <2>7, <2>8 DEF SummaryIsSound, s
<1> QED BY <1>1, <1>2

(* No page takes an anchor of zero for a price, and what it shows for the   *)
(* duration that was asked for is what its table shows, whatever the        *)
(* database answers or fails to (SummaryAgrees).                            *)
THEOREM PageAgrees == DetailSpec => []SummaryAgrees
<1>1. DetailInv => SummaryAgrees
  <2> SUFFICES ASSUME DetailInv, NEW d \in Askable, NEW starts \in IntervalStarts,
                      NEW own \in IF d \in DOMAIN starts THEN {NoPrice} ELSE Answers,
                      NEW record \in {NoRecord} \union IF history = <<>> THEN Records ELSE {}
               PROVE  LET s == Summary(d, starts, own, record)
                          table == s.stats
                      IN /\ \A c \in {s.asked} \union Range(table) :
                               c.change = 0 \/ s.currentPrice - c.change > 0
                         /\ d \in DOMAIN table
                              /\ (history = <<>> \/ starts # <<>> \/ own \notin Positive) =>
                               s.asked = table[d]
    BY DEF SummaryAgrees
  <2> DEFINE s == Summary(d, starts, own, record)
  <2>1. own \in Answers
    BY DEF Answers
  <2>2. SummaryIsSound(d, starts, own, s)
    <3>1. CASE history # <<>>
      BY <2>1, <3>1, LiveIsSound
    <3>2. CASE history = <<>> /\ record = NoRecord
      BY <3>2, EmptyIsSound DEF Summary
    <3>3. CASE history = <<>> /\ record # NoRecord
      <4>1. record \in Records /\ s = RecordSummary(record, d, starts, own)
        BY <3>3 DEF Summary
      <4> HIDE DEF s
      <4> QED BY <2>1, <3>3, <4>1, RecordIsSound
    <3> QED BY <3>1, <3>2, <3>3
  <2> HIDE DEF s
  <2>3. \A c \in {s.asked} \union Range(s.stats) : Sound(s.currentPrice, c)
    BY <2>2 DEF SummaryIsSound, Range
  <2> QED BY <2>2, <2>3 DEF SummaryIsSound, Sound, s
<1> QED BY <1>1, DetailStart, DetailStep, PTL DEF DetailSpec

(* The current price never goes back in time, also when the window slides:  *)
(* a late tick is not the last one, and the last one is never evicted.      *)
THEOREM CurrentPriceStaysNewest == DetailSpec => CurrentPriceIsNewest
<1>1. ASSUME DetailInv, NEW t \in Ticks, AddTick(t)
      PROVE  Last(history') = IF history = <<>> \/ t.time >= Last(history).time
                              THEN t ELSE Last(history)
  <2>1. /\ history \in Seq(WindowTicks) /\ InOrder(history) /\ t \in WindowTicks
    BY <1>1, AddTickKeepsWindow
       DEF DetailInv, WindowInv, TypeOK, WindowTicks, Chronological, InOrder
  <2>2. CASE FirstTick(t)
    BY <2>1, <2>2, OneTick DEF FirstTick
  <2>3. CASE GrowWindow(t)
    BY <2>1, <2>3, InsertedKeepsOrder DEF GrowWindow
  <2>4. CASE SlideWindow(t)
    <3> DEFINE rest == Tail(history)
    <3>1. history' = Inserted(rest, t) /\ Len(history) = MaxTicks /\ Len(history) >= 2
      BY <2>4, WindowAssumption DEF SlideWindow
    <3>2. /\ rest \in Seq(WindowTicks) /\ rest # <<>> /\ Last(rest) = Last(history)
          /\ \A i \in DOMAIN rest : /\ i \in Nat /\ i + 1 \in DOMAIN history
                                    /\ rest[i] = history[i + 1]
          /\ history # <<>>
      <4> DEFINE n == Len(history)
      <4>1. /\ n \in Nat /\ n >= 2 /\ DOMAIN history = 1 .. n /\ history # <<>>
            /\ rest \in Seq(WindowTicks) /\ Len(rest) = n - 1 /\ DOMAIN rest = 1 .. n - 1
            /\ \A i \in 1 .. n - 1 : rest[i] = history[i + 1]
        BY <2>1, <3>1
      <4> HIDE DEF n, rest
      <4>2. \A i \in 1 .. n - 1 : i \in Nat /\ i + 1 \in 1 .. n
        BY <4>1
      <4>3. n - 1 \in 1 .. n - 1 /\ (n - 1) + 1 = n
        BY <4>1
      <4>4. Last(rest) = history[n] /\ Last(history) = history[n]
        BY <4>1, <4>3 DEF Last, n
      <4>5. rest # <<>>
        BY <4>1
      <4> QED BY <4>1, <4>2, <4>4, <4>5
    <3> HIDE DEF rest
    <3>3. \A i, j \in DOMAIN rest : i < j => i + 1 < j + 1
      BY <3>2
    <3>4. InOrder(rest)
      BY <2>1, <3>2, <3>3 DEF InOrder
    <3> QED BY <2>1, <3>1, <3>2, <3>4, InsertedKeepsOrder
  <2> QED BY <1>1, <2>2, <2>3, <2>4 DEF AddTick
<1>2. DetailInv /\ [DetailNext]_detailVars =>
          [\A t \in Ticks : AddTick(t) =>
              Last(history') = IF history = <<>> \/ t.time >= Last(history).time
                               THEN t ELSE Last(history)]_vars
  BY <1>1
<1> QED BY <1>2, DetailStart, DetailStep, PTL DEF DetailSpec, CurrentPriceIsNewest

-----------------------------------------------------------------------------
(* Two series merged *)

Timed(S) == \A t \in S : t.time \in Int
Ascends(h) == \A i, j \in DOMAIN h : i < j => h[i].time < h[j].time

(* m is x followed by s; r is s from place i on.                            *)
HasHead(m, x, s) ==
    /\ Len(m) = Len(s) + 1 /\ m[1] = x
    /\ \A k \in DOMAIN s : m[k + 1] = s[k]
IsRest(r, s, i) ==
    /\ Len(r) = Len(s) + 1 - i
    /\ \A k \in 1 .. Len(s) + 1 - i : r[k] = s[i + k - 1]

(* An element put before a sequence is its head.                            *)
LEMMA HeadFirst ==
    ASSUME NEW S, NEW s \in Seq(S), NEW x \in S
    PROVE  <<x>> \o s \in Seq(S) /\ HasHead(<<x>> \o s, x, s)
<1> DEFINE o == <<x>>
<1>1. o \in Seq(S) /\ Len(o) = 1 /\ o[1] = x
  OBVIOUS
<1> HIDE DEF o
<1>2. /\ o \o s \in Seq(S) /\ Len(o \o s) = Len(o) + Len(s)
      /\ \A k \in 1 .. Len(o) + Len(s) :
            (o \o s)[k] = IF k <= Len(o) THEN o[k] ELSE s[k - Len(o)]
  BY <1>1, ConcatProperties
<1>3. Len(s) \in Nat /\ DOMAIN s = 1 .. Len(s)
  OBVIOUS
<1>4. /\ 1 \in 1 .. 1 + Len(s)
      /\ \A k \in 1 .. Len(s) : k + 1 \in 1 .. 1 + Len(s) /\ ~(k + 1 <= 1) /\ (k + 1) - 1 = k
  BY <1>3
<1>5. Len(o \o s) = Len(s) + 1 /\ (o \o s)[1] = x
  BY <1>1, <1>2, <1>3, <1>4
<1>6. \A k \in 1 .. Len(s) : (o \o s)[k + 1] = s[k]
  BY <1>1, <1>2, <1>4
<1> QED BY <1>2, <1>3, <1>5, <1>6 DEF HasHead, o

(* SubSeq to the end is the rest.                                           *)
LEMMA RestOf ==
    ASSUME NEW S, NEW s \in Seq(S), NEW i \in 1 .. Len(s) + 1
    PROVE  SubSeq(s, i, Len(s)) \in Seq(S) /\ IsRest(SubSeq(s, i, Len(s)), s, i)
<1>1. SubSeq(s, i, Len(s)) \in Seq(S) /\ Len(SubSeq(s, i, Len(s))) = Len(s) + 1 - i
  OBVIOUS
<1>2. \A k \in 1 .. Len(s) + 1 - i : SubSeq(s, i, Len(s))[k] = s[i + k - 1]
  OBVIOUS
<1> QED BY <1>1, <1>2 DEF IsRest

(* The places the two pointers may stand at, and what is left from one.     *)
Pointers(h, b) == (1 .. Len(h) + 1) \X (1 .. Len(b) + 1)
WalkAt(rest, h, b, p) ==
    LET i == p[1]
        j == p[2]
    IN IF i > Len(h) THEN SubSeq(b, j, Len(b))
       ELSE IF j > Len(b) THEN SubSeq(h, i, Len(h))
       ELSE IF h[i].time <= b[j].time THEN <<h[i]>> \o rest[<<i + 1, j>>]
       ELSE <<b[j]>> \o rest[<<i, j + 1>>]
Walks(rest, h, b) == rest = [p \in Pointers(h, b) |-> WalkAt(rest, h, b, p)]

(* With n steps to go.                                                      *)
NearEnd(h, b, n) == {p \in Pointers(h, b) : p[1] + p[2] + n >= Len(h) + Len(b) + 2}

(* The walk of the pointers ends: there is a function that yields what is   *)
(* left at every place, and TwoPointer is its value at the start.           *)
LEMMA WalkExists ==
    ASSUME NEW h, NEW b, Len(h) \in Nat, Len(b) \in Nat
    PROVE  \E rest : Walks(rest, h, b) /\ TwoPointer(h, b) = rest[<<1, 1>>]
<1> DEFINE N(n) == NearEnd(h, b, n)
           P(n) == \E f : f = [p \in N(n) |-> WalkAt(f, h, b, p)]
           T == {n \in Nat : P(n)}
<1>0. \A p \in Pointers(h, b) :
          /\ p = <<p[1], p[2]>>
          /\ p[1] \in Nat /\ p[1] >= 1 /\ p[1] <= Len(h) + 1
          /\ p[2] \in Nat /\ p[2] >= 1 /\ p[2] <= Len(b) + 1
  BY DEF Pointers
<1>1. ASSUME NEW n \in Nat, NEW p \in N(n + 1)
      PROVE  /\ p[1] <= Len(h) /\ p[2] <= Len(b) => <<p[1] + 1, p[2]>> \in N(n)
             /\ p[1] <= Len(h) /\ p[2] <= Len(b) => <<p[1], p[2] + 1>> \in N(n)
  <2>1. p \in Pointers(h, b) /\ p[1] + p[2] + (n + 1) >= Len(h) + Len(b) + 2
    BY DEF NearEnd
  <2>2. PICK i \in 1 .. Len(h) + 1, j \in 1 .. Len(b) + 1 : i = p[1] /\ j = p[2]
    BY <1>0, <2>1
  <2>3. /\ i <= Len(h) => <<i + 1, j>> \in Pointers(h, b) /\ (i + 1) + j + n >= Len(h) + Len(b) + 2
        /\ j <= Len(b) => <<i, j + 1>> \in Pointers(h, b) /\ i + (j + 1) + n >= Len(h) + Len(b) + 2
    <3>1. i \in Nat /\ i >= 1 /\ j \in Nat /\ j >= 1
      BY <2>2
    <3>2. i + j + (n + 1) >= Len(h) + Len(b) + 2
      BY <2>1, <2>2
    <3>3. (i + 1) + j + n >= Len(h) + Len(b) + 2 /\ i + (j + 1) + n >= Len(h) + Len(b) + 2
      BY <3>1, <3>2
    <3>4. /\ i <= Len(h) => i + 1 \in 1 .. Len(h) + 1
          /\ j <= Len(b) => j + 1 \in 1 .. Len(b) + 1
      BY <3>1
    <3> QED BY <2>2, <3>3, <3>4 DEF Pointers
  <2>4. ASSUME NEW x, NEW y, <<x, y>> \in Pointers(h, b), x + y + n >= Len(h) + Len(b) + 2
        PROVE  <<x, y>> \in N(n)
    <3>1. <<x, y>>[1] = x /\ <<x, y>>[2] = y
      OBVIOUS
    <3> QED BY <2>4, <3>1, Zenon DEF NearEnd
  <2> HIDE DEF N
  <2> QED BY <2>2, <2>3, <2>4
<1>2. ASSUME NEW n \in Nat PROVE N(n) \subseteq N(n + 1)
  BY <1>0 DEF NearEnd
<1>3. P(0)
  <2> DEFINE f == [p \in N(0) |-> SubSeq(b, p[2], Len(b))]
  <2>1. ASSUME NEW p \in N(0) PROVE WalkAt(f, h, b, p) = SubSeq(b, p[2], Len(b))
    <3>1. p[1] > Len(h)
      BY <1>0 DEF NearEnd
    <3> QED BY <3>1 DEF WalkAt
  <2>2. f = [p \in N(0) |-> WalkAt(f, h, b, p)]
    <3> HIDE DEF N
    <3> QED BY <2>1, Zenon
  <2> QED BY <2>2
<1>4. ASSUME NEW n \in Nat, P(n) PROVE P(n + 1)
  <2>1. PICK g : g = [p \in N(n) |-> WalkAt(g, h, b, p)]
    BY <1>4
  <2> DEFINE f == [p \in N(n + 1) |-> WalkAt(g, h, b, p)]
  <2> HIDE DEF N
  <2>2. \A p \in N(n) : f[p] = g[p]
    <3> SUFFICES ASSUME NEW p \in N(n) PROVE f[p] = g[p]
      OBVIOUS
    <3>1. p \in N(n + 1)
      BY <1>2
    <3>2. g[p] = WalkAt(g, h, b, p)
      BY <2>1, Zenon
    <3> QED BY <3>1, <3>2
  <2>3. ASSUME NEW p \in N(n + 1) PROVE WalkAt(g, h, b, p) = WalkAt(f, h, b, p)
    <3> HIDE DEF f
    <3>1. p \in Pointers(h, b)
      BY DEF N, NearEnd
    <3>2. CASE p[1] <= Len(h) /\ p[2] <= Len(b)
      <4>1. /\ f[<<p[1] + 1, p[2]>>] = g[<<p[1] + 1, p[2]>>]
            /\ f[<<p[1], p[2] + 1>>] = g[<<p[1], p[2] + 1>>]
        BY <1>1, <2>2, <3>2
      <4> QED BY <4>1, Zenon DEF WalkAt
    <3>3. CASE p[1] > Len(h)
      BY <3>3 DEF WalkAt
    <3>4. CASE ~(p[1] > Len(h)) /\ p[2] > Len(b)
      BY <3>4 DEF WalkAt
    <3> QED BY <1>0, <3>1, <3>2, <3>3, <3>4
  <2>4. f = [p \in N(n + 1) |-> WalkAt(f, h, b, p)]
    BY <2>3, Zenon
  <2> QED BY <2>4
<1>5. P(Len(h) + Len(b))
  <2> HIDE DEF P
  <2>1. 0 \in T /\ \A n \in Nat : n \in T => n + 1 \in T
    BY <1>3, <1>4
  <2>2. \A n \in Nat : n \in T
    <3> HIDE DEF T
    <3> QED BY <2>1, SetInduction
  <2>3. Len(h) + Len(b) \in Nat
    OBVIOUS
  <2> QED BY <2>2, <2>3
<1>6. N(Len(h) + Len(b)) = Pointers(h, b)
  BY <1>0 DEF NearEnd
<1>7. \E f : Walks(f, h, b)
  <2> HIDE DEF N
  <2> QED BY <1>5, <1>6, Zenon DEF Walks
<1> DEFINE rest == CHOOSE f : Walks(f, h, b)
<1>8. TwoPointer(h, b) = rest[<<1, 1>>]
  BY Zenon DEF TwoPointer, Walks, WalkAt, Pointers
<1>9. Walks(rest, h, b)
  BY <1>7
<1> QED BY <1>8, <1>9

(* m is what a merge of h from place i on and b from place j on yields: in  *)
(* the order of time, made of both, with each of both in it.                *)
OfEither(m, h, b, i, j) ==
    \A k \in DOMAIN m : \/ \E x \in i .. Len(h) : m[k] = h[x]
                        \/ \E y \in j .. Len(b) : m[k] = b[y]
Holds(m, t) == \E k \in DOMAIN m : m[k] = t
Merges(m, h, b, i, j) ==
    /\ InOrder(m) /\ OfEither(m, h, b, i, j)
    /\ \A x \in i .. Len(h) : Holds(m, h[x])
    /\ \A y \in j .. Len(b) : Holds(m, b[y])

(* What is put before a series that nothing in it is earlier than.          *)
LEMMA HeadKeeps ==
    ASSUME NEW S, NEW r \in Seq(S), NEW x \in S, NEW m \in Seq(S), Timed(S),
           HasHead(m, x, r), InOrder(r), \A k \in DOMAIN r : x.time <= r[k].time
    PROVE  /\ InOrder(m) /\ Holds(m, x)
           /\ \A k \in DOMAIN m : m[k] = x \/ \E l \in DOMAIN r : m[k] = r[l]
           /\ \A t : Holds(r, t) => Holds(m, t)
<1>1. PICK n \in Nat : n = Len(r)
  OBVIOUS
<1>2. /\ DOMAIN r = 1 .. n /\ DOMAIN m = 1 .. n + 1 /\ m[1] = x
      /\ \A k \in 1 .. n : m[k + 1] = r[k] /\ r[k].time \in Int
      /\ x.time \in Int
  <2>1. DOMAIN r = 1 .. n /\ \A k \in 1 .. n : r[k] \in S
    BY <1>1
  <2>2. /\ DOMAIN m = 1 .. n + 1 /\ m[1] = x
        /\ \A k \in 1 .. n : m[k + 1] = r[k]
    BY <1>1, <2>1 DEF HasHead
  <2> QED BY <2>1, <2>2 DEF Timed
<1>3. ASSUME NEW k \in 1 .. n + 1 PROVE k = 1 \/ (k - 1 \in 1 .. n /\ m[k] = r[k - 1])
  <2>1. k = 1 \/ (k - 1 \in 1 .. n /\ (k - 1) + 1 = k)
    BY <1>1
  <2> QED BY <1>2, <2>1
<1>4. InOrder(m)
  <2> SUFFICES ASSUME NEW i \in 1 .. n + 1, NEW j \in 1 .. n + 1, i < j
               PROVE  m[i].time <= m[j].time
    BY <1>2 DEF InOrder
  <2>1. j - 1 \in 1 .. n /\ m[j] = r[j - 1]
    BY <1>1, <1>3
  <2>2. CASE i = 1
    BY <1>2, <2>1, <2>2
  <2>3. CASE i # 1
    <3>1. i - 1 \in 1 .. n /\ m[i] = r[i - 1] /\ i - 1 < j - 1
      BY <1>1, <1>3, <2>3
    <3> QED BY <1>2, <2>1, <3>1 DEF InOrder
  <2> QED BY <2>2, <2>3
<1>5. Holds(m, x)
  <2>1. 1 \in DOMAIN m
    BY <1>1, <1>2
  <2> QED BY <1>2, <2>1 DEF Holds
<1>6. \A k \in DOMAIN m : m[k] = x \/ \E l \in DOMAIN r : m[k] = r[l]
  BY <1>2, <1>3
<1>7. ASSUME NEW t, Holds(r, t) PROVE Holds(m, t)
  <2>1. PICK l \in 1 .. n : r[l] = t
    BY <1>2, <1>7 DEF Holds
  <2>2. l + 1 \in DOMAIN m /\ m[l + 1] = t
    BY <1>1, <1>2, <2>1
  <2> QED BY <2>2 DEF Holds
<1> QED BY <1>4, <1>5, <1>6, <1>7

(* The first pointer takes its element: no later one is earlier.            *)
LEMMA TakeFirst ==
    ASSUME NEW S, NEW h \in Seq(S), NEW b \in Seq(S), NEW m \in Seq(S), NEW r \in Seq(S),
           Timed(S), Ascends(h), InOrder(b),
           NEW i \in 1 .. Len(h), NEW j \in 1 .. Len(b),
           h[i].time <= b[j].time, HasHead(m, h[i], r), Merges(r, h, b, i + 1, j)
    PROVE  Merges(m, h, b, i, j)
<1>1. PICK c \in Nat, d \in Nat : c = Len(h) /\ d = Len(b)
  OBVIOUS
<1>2. /\ DOMAIN h = 1 .. c /\ DOMAIN b = 1 .. d /\ i \in 1 .. c /\ j \in 1 .. d
      /\ \A x \in 1 .. c : h[x] \in S /\ h[x].time \in Int
      /\ \A y \in 1 .. d : b[y] \in S /\ b[y].time \in Int
  BY <1>1 DEF Timed
<1>3. /\ \A x \in i + 1 .. c : x \in 1 .. c /\ i < x /\ h[i].time < h[x].time /\ x \in i .. c
      /\ \A y \in j .. d : y \in 1 .. d /\ (j = y \/ j < y)
      /\ \A x \in i .. c : x = i \/ x \in i + 1 .. c
      /\ i \in i .. c
  <2>1. /\ \A x \in i + 1 .. c : x \in 1 .. c /\ i < x /\ x \in i .. c
        /\ \A y \in j .. d : y \in 1 .. d /\ (j = y \/ j < y)
        /\ \A x \in i .. c : x = i \/ x \in i + 1 .. c
        /\ i \in i .. c
    BY <1>1, <1>2
  <2>2. \A x \in i + 1 .. c : h[i].time < h[x].time
    BY <1>2, <2>1 DEF Ascends
  <2> QED BY <2>1, <2>2
<1>4. \A y \in j .. d : h[i].time <= b[y].time
  <2> SUFFICES ASSUME NEW y \in j .. d PROVE h[i].time <= b[y].time
    OBVIOUS
  <2>1. y \in 1 .. d /\ (j = y \/ b[j].time <= b[y].time)
    BY <1>2, <1>3 DEF InOrder
  <2> QED BY <1>2, <2>1
<1>5. /\ InOrder(r)
      /\ \A k \in DOMAIN r : \/ \E x \in i + 1 .. c : r[k] = h[x]
                             \/ \E y \in j .. d : r[k] = b[y]
      /\ \A x \in i + 1 .. c : Holds(r, h[x])
      /\ \A y \in j .. d : Holds(r, b[y])
  BY <1>1 DEF Merges, OfEither
<1>6. ASSUME NEW k \in DOMAIN r PROVE h[i].time <= r[k].time
  <2>1. CASE \E x \in i + 1 .. c : r[k] = h[x]
    <3>1. PICK x \in i + 1 .. c : r[k] = h[x]
      BY <2>1
    <3>2. x \in 1 .. c /\ h[i].time < h[x].time
      BY <1>3
    <3> QED BY <1>2, <3>1, <3>2
  <2>2. CASE \E y \in j .. d : r[k] = b[y]
    BY <1>4, <2>2
  <2> QED BY <1>5, <2>1, <2>2
<1>7. /\ InOrder(m) /\ Holds(m, h[i])
      /\ \A k \in DOMAIN m : m[k] = h[i] \/ \E l \in DOMAIN r : m[k] = r[l]
      /\ \A t : Holds(r, t) => Holds(m, t)
  BY <1>2, <1>5, <1>6, HeadKeeps
<1>8. \A x \in i .. c : Holds(m, h[x])
  BY <1>3, <1>5, <1>7
<1>9. OfEither(m, h, b, i, j)
  <2> SUFFICES ASSUME NEW k \in DOMAIN m
               PROVE  \/ \E x \in i .. c : m[k] = h[x]
                      \/ \E y \in j .. d : m[k] = b[y]
    BY <1>1 DEF OfEither
  <2>1. CASE m[k] = h[i]
    BY <1>3, <2>1
  <2>2. CASE m[k] # h[i]
    <3>1. PICK l \in DOMAIN r : m[k] = r[l]
      BY <1>7, <2>2
    <3>2. CASE \E x \in i + 1 .. c : r[l] = h[x]
      BY <1>3, <3>1, <3>2
    <3>3. CASE \E y \in j .. d : r[l] = b[y]
      BY <1>3, <3>1, <3>3
    <3> QED BY <1>5, <3>2, <3>3
  <2> QED BY <2>1, <2>2
<1>10. \A y \in j .. d : Holds(m, b[y])
  BY <1>5, <1>7
<1> QED BY <1>1, <1>7, <1>8, <1>9, <1>10 DEF Merges

(* The second pointer takes its element: it is the earliest of all.         *)
LEMMA TakeSecond ==
    ASSUME NEW S, NEW h \in Seq(S), NEW b \in Seq(S), NEW m \in Seq(S), NEW r \in Seq(S),
           Timed(S), Ascends(h), InOrder(b),
           NEW i \in 1 .. Len(h), NEW j \in 1 .. Len(b),
           b[j].time < h[i].time, HasHead(m, b[j], r), Merges(r, h, b, i, j + 1)
    PROVE  Merges(m, h, b, i, j)
<1>1. PICK c \in Nat, d \in Nat : c = Len(h) /\ d = Len(b)
  OBVIOUS
<1>2. /\ DOMAIN h = 1 .. c /\ DOMAIN b = 1 .. d /\ i \in 1 .. c /\ j \in 1 .. d
      /\ \A x \in 1 .. c : h[x] \in S /\ h[x].time \in Int
      /\ \A y \in 1 .. d : b[y] \in S /\ b[y].time \in Int
  BY <1>1 DEF Timed
<1>3. /\ \A x \in i .. c : x \in 1 .. c /\ (i = x \/ i < x)
      /\ \A y \in j + 1 .. d : y \in 1 .. d /\ j < y /\ y \in j .. d
      /\ \A y \in j .. d : y = j \/ y \in j + 1 .. d
      /\ j \in j .. d
  BY <1>1, <1>2
<1>4. \A x \in i .. c : b[j].time < h[x].time
  <2> SUFFICES ASSUME NEW x \in i .. c PROVE b[j].time < h[x].time
    OBVIOUS
  <2>1. x \in 1 .. c /\ (i = x \/ h[i].time < h[x].time)
    BY <1>2, <1>3 DEF Ascends
  <2> QED BY <1>2, <2>1
<1>5. /\ InOrder(r)
      /\ \A k \in DOMAIN r : \/ \E x \in i .. c : r[k] = h[x]
                             \/ \E y \in j + 1 .. d : r[k] = b[y]
      /\ \A x \in i .. c : Holds(r, h[x])
      /\ \A y \in j + 1 .. d : Holds(r, b[y])
  BY <1>1 DEF Merges, OfEither
<1>6. ASSUME NEW k \in DOMAIN r PROVE b[j].time <= r[k].time
  <2>1. CASE \E x \in i .. c : r[k] = h[x]
    <3>1. PICK x \in i .. c : r[k] = h[x]
      BY <2>1
    <3>2. x \in 1 .. c /\ b[j].time < h[x].time
      BY <1>3, <1>4
    <3> QED BY <1>2, <3>1, <3>2
  <2>2. CASE \E y \in j + 1 .. d : r[k] = b[y]
    <3>1. PICK y \in j + 1 .. d : r[k] = b[y]
      BY <2>2
    <3>2. y \in 1 .. d /\ j < y
      BY <1>3
    <3> QED BY <1>2, <3>1, <3>2 DEF InOrder
  <2> QED BY <1>5, <2>1, <2>2
<1>7. /\ InOrder(m) /\ Holds(m, b[j])
      /\ \A k \in DOMAIN m : m[k] = b[j] \/ \E l \in DOMAIN r : m[k] = r[l]
      /\ \A t : Holds(r, t) => Holds(m, t)
  BY <1>2, <1>5, <1>6, HeadKeeps
<1>8. \A x \in i .. c : Holds(m, h[x])
  BY <1>5, <1>7
<1>9. OfEither(m, h, b, i, j)
  <2> SUFFICES ASSUME NEW k \in DOMAIN m
               PROVE  \/ \E x \in i .. c : m[k] = h[x]
                      \/ \E y \in j .. d : m[k] = b[y]
    BY <1>1 DEF OfEither
  <2>1. CASE m[k] = b[j]
    BY <1>3, <2>1
  <2>2. CASE m[k] # b[j]
    <3>1. PICK l \in DOMAIN r : m[k] = r[l]
      BY <1>7, <2>2
    <3>2. CASE \E x \in i .. c : r[l] = h[x]
      BY <1>3, <3>1, <3>2
    <3>3. CASE \E y \in j + 1 .. d : r[l] = b[y]
      BY <1>3, <3>1, <3>3
    <3> QED BY <1>5, <3>2, <3>3
  <2> QED BY <2>1, <2>2
<1>10. \A y \in j .. d : Holds(m, b[y])
  BY <1>3, <1>5, <1>7
<1> QED BY <1>1, <1>7, <1>8, <1>9, <1>10 DEF Merges

(* One of the series is at its end: the rest of the other follows.          *)
LEMMA TakeRest ==
    ASSUME NEW S, NEW h \in Seq(S), NEW b \in Seq(S), NEW m \in Seq(S),
           Timed(S), Ascends(h), InOrder(b),
           NEW i \in 1 .. Len(h) + 1, NEW j \in 1 .. Len(b) + 1,
           \/ i > Len(h) /\ IsRest(m, b, j)
           \/ j > Len(b) /\ IsRest(m, h, i)
    PROVE  Merges(m, h, b, i, j)
<1>1. PICK c \in Nat, d \in Nat : c = Len(h) /\ d = Len(b)
  OBVIOUS
<1>2. /\ DOMAIN h = 1 .. c /\ DOMAIN b = 1 .. d /\ i \in 1 .. c + 1 /\ j \in 1 .. d + 1
      /\ \A x \in 1 .. c : h[x].time \in Int
      /\ \A y \in 1 .. d : b[y].time \in Int
  BY <1>1 DEF Timed
<1>3. CASE i > c /\ IsRest(m, b, j)
  <2>1. PICK e \in Nat : e = d + 1 - j
    BY <1>1, <1>2
  <2>2. DOMAIN m = 1 .. e /\ \A k \in 1 .. e : m[k] = b[j + k - 1]
    BY <1>1, <1>3, <2>1 DEF IsRest
  <2>3. /\ \A k \in 1 .. e : j + k - 1 \in j .. d /\ j + k - 1 \in 1 .. d
        /\ \A k, l \in 1 .. e : k < l => j + k - 1 < j + l - 1
        /\ \A y \in j .. d : y + 1 - j \in 1 .. e /\ j + (y + 1 - j) - 1 = y
    <3>1. j \in Nat \ {0} /\ j <= d + 1 /\ e = d + 1 - j
      BY <1>1, <1>2, <2>1
    <3> QED BY <3>1
  <2>4. InOrder(m)
    <3> SUFFICES ASSUME NEW k \in 1 .. e, NEW l \in 1 .. e, k < l
                 PROVE  m[k].time <= m[l].time
      BY <2>2 DEF InOrder
    <3> DEFINE y == j + k - 1
               z == j + l - 1
    <3>1. y \in 1 .. d /\ z \in 1 .. d /\ y < z /\ m[k] = b[y] /\ m[l] = b[z]
      BY <2>2, <2>3
    <3> HIDE DEF y, z
    <3> QED BY <1>2, <3>1 DEF InOrder
  <2>5. OfEither(m, h, b, i, j)
    BY <1>1, <2>2, <2>3 DEF OfEither
  <2>6. i .. c = {}
    BY <1>1, <1>2, <1>3
  <2>7. \A y \in j .. d : Holds(m, b[y])
    BY <2>2, <2>3 DEF Holds
  <2> QED BY <1>1, <2>4, <2>5, <2>6, <2>7 DEF Merges
<1>4. CASE j > d /\ IsRest(m, h, i)
  <2>1. PICK e \in Nat : e = c + 1 - i
    BY <1>1, <1>2
  <2>2. DOMAIN m = 1 .. e /\ \A k \in 1 .. e : m[k] = h[i + k - 1]
    <3>1. Len(m) = e /\ \A k \in 1 .. e : m[k] = h[i + k - 1]
      BY <1>1, <1>4, <2>1, SMTT(60) DEF IsRest
    <3>2. DOMAIN m = 1 .. Len(m)
      OBVIOUS
    <3> QED BY <3>1, <3>2
  <2>3. /\ \A k \in 1 .. e : i + k - 1 \in i .. c /\ i + k - 1 \in 1 .. c
        /\ \A k, l \in 1 .. e : k < l => i + k - 1 < i + l - 1
        /\ \A x \in i .. c : x + 1 - i \in 1 .. e /\ i + (x + 1 - i) - 1 = x
        /\ \A k \in 1 .. e : \A l \in 1 .. k - 1 : l \in 1 .. e /\ l < k
    <3>1. i \in Nat \ {0} /\ i <= c + 1 /\ e = c + 1 - i
      BY <1>1, <1>2, <2>1
    <3> QED BY <3>1
  <2>4. ASSUME NEW k \in 1 .. e, NEW l \in 1 .. e, k < l
        PROVE  m[k].time < m[l].time
    <3> DEFINE y == i + k - 1
               z == i + l - 1
    <3>1. y \in 1 .. c /\ z \in 1 .. c /\ y < z /\ m[k] = h[y] /\ m[l] = h[z]
      BY <2>2, <2>3, <2>4
    <3> HIDE DEF y, z
    <3> QED BY <1>2, <3>1 DEF Ascends
  <2>5. InOrder(m)
    <3>1. \A k \in 1 .. e : m[k].time \in Int
      BY <1>2, <2>2, <2>3
    <3> SUFFICES ASSUME NEW k \in 1 .. e, NEW l \in 1 .. e, k < l
                 PROVE  m[k].time <= m[l].time
      BY <2>2 DEF InOrder
    <3>2. m[k].time < m[l].time
      BY <2>4
    <3>3. m[k].time \in Int /\ m[l].time \in Int
      BY <3>1
    <3> QED BY <3>2, <3>3
  <2>6. OfEither(m, h, b, i, j)
    BY <1>1, <2>2, <2>3 DEF OfEither
  <2>7. \A x \in i .. c : Holds(m, h[x])
    BY <2>2, <2>3 DEF Holds
  <2>8. j .. d = {}
    BY <1>1, <1>2, <1>4
  <2> QED BY <1>1, <2>5, <2>6, <2>7, <2>8 DEF Merges
<1> QED BY <1>1, <1>3, <1>4

(* What the two pointers yield from the beginning.                          *)
LEMMA TwoPointerMerges ==
    ASSUME NEW S, NEW h \in Seq(S), NEW b \in Seq(S), Timed(S), Ascends(h), InOrder(b)
    PROVE  TwoPointer(h, b) \in Seq(S) /\ Merges(TwoPointer(h, b), h, b, 1, 1)
<1>1. PICK c \in Nat, d \in Nat : c = Len(h) /\ d = Len(b)
  OBVIOUS
<1>2. PICK rest : Walks(rest, h, b) /\ TwoPointer(h, b) = rest[<<1, 1>>]
  BY WalkExists
<1> DEFINE Good(i, j) == rest[<<i, j>>] \in Seq(S) /\ Merges(rest[<<i, j>>], h, b, i, j)
           T == {n \in Nat : \A i \in 1 .. c + 1, j \in 1 .. d + 1 :
                                i + j + n >= c + d + 2 => Good(i, j)}
<1>3. ASSUME NEW i \in 1 .. c + 1, NEW j \in 1 .. d + 1
      PROVE  rest[<<i, j>>] = IF i > Len(h) THEN SubSeq(b, j, Len(b))
                              ELSE IF j > Len(b) THEN SubSeq(h, i, Len(h))
                              ELSE IF h[i].time <= b[j].time THEN <<h[i]>> \o rest[<<i + 1, j>>]
                              ELSE <<b[j]>> \o rest[<<i, j + 1>>]
  <2> DEFINE p == <<i, j>>
  <2>1. p \in Pointers(h, b) /\ p[1] = i /\ p[2] = j
    BY <1>1 DEF Pointers
  <2> HIDE DEF p
  <2>2. rest[p] = WalkAt(rest, h, b, p)
    BY <1>2, <2>1, Zenon DEF Walks
  <2> QED BY <2>1, <2>2, Zenon DEF WalkAt, p
<1>4. ASSUME NEW i \in 1 .. c + 1, NEW j \in 1 .. d + 1, i > c \/ j > d PROVE Good(i, j)
  <2>1. CASE i > c
    <3>1. rest[<<i, j>>] = SubSeq(b, j, Len(b))
      BY <1>1, <1>3, <2>1
    <3>2. rest[<<i, j>>] \in Seq(S) /\ IsRest(rest[<<i, j>>], b, j)
      BY <1>1, <3>1, RestOf
    <3> QED BY <1>1, <2>1, <3>2, TakeRest
  <2>2. CASE ~(i > c) /\ j > d
    <3>1. rest[<<i, j>>] = SubSeq(h, i, Len(h))
      BY <1>1, <1>3, <2>2
    <3>2. rest[<<i, j>>] \in Seq(S) /\ IsRest(rest[<<i, j>>], h, i)
      BY <1>1, <3>1, RestOf
    <3> QED BY <1>1, <2>2, <3>2, TakeRest
  <2> QED BY <1>4, <2>1, <2>2
<1>5. ASSUME NEW i \in 1 .. c, NEW j \in 1 .. d,
             h[i].time <= b[j].time => Good(i + 1, j),
             ~(h[i].time <= b[j].time) => Good(i, j + 1)
      PROVE  Good(i, j)
  <2>1. /\ i \in 1 .. Len(h) /\ j \in 1 .. Len(b) /\ i \in 1 .. c + 1 /\ j \in 1 .. d + 1
        /\ ~(i > Len(h)) /\ ~(j > Len(b))
    BY <1>1
  <2>2. h[i] \in S /\ b[j] \in S /\ h[i].time \in Int /\ b[j].time \in Int
    BY <2>1 DEF Timed
  <2>3. CASE h[i].time <= b[j].time
    <3> DEFINE r == rest[<<i + 1, j>>]
               m == rest[<<i, j>>]
    <3>1. m = <<h[i]>> \o r
      BY <1>3, <2>1, <2>3
    <3>2. r \in Seq(S) /\ Merges(r, h, b, i + 1, j)
      BY <1>5, <2>3
    <3> HIDE DEF r, m
    <3>3. m \in Seq(S) /\ HasHead(m, h[i], r)
      BY <2>2, <3>1, <3>2, HeadFirst
    <3>4. Merges(m, h, b, i, j)
      BY <2>1, <2>3, <3>2, <3>3, TakeFirst
    <3> QED BY <3>3, <3>4 DEF m
  <2>4. CASE ~(h[i].time <= b[j].time)
    <3> DEFINE r == rest[<<i, j + 1>>]
               m == rest[<<i, j>>]
    <3>1. m = <<b[j]>> \o r
      BY <1>3, <2>1, <2>4
    <3>2. r \in Seq(S) /\ Merges(r, h, b, i, j + 1)
      BY <1>5, <2>4
    <3> HIDE DEF r, m
    <3>3. m \in Seq(S) /\ HasHead(m, b[j], r)
      BY <2>2, <3>1, <3>2, HeadFirst
    <3>4. b[j].time < h[i].time
      BY <2>2, <2>4
    <3>5. Merges(m, h, b, i, j)
      BY <2>1, <3>2, <3>3, <3>4, TakeSecond
    <3> QED BY <3>3, <3>5 DEF m
  <2> QED BY <2>3, <2>4
<1> HIDE DEF Good
<1>6. 0 \in T
  <2>1. \A i \in 1 .. c + 1, j \in 1 .. d + 1 : i + j + 0 >= c + d + 2 => i > c \/ j > d
    BY <1>1
  <2> QED BY <1>4, <2>1
<1>7. ASSUME NEW n \in Nat, n \in T PROVE n + 1 \in T
  <2> SUFFICES ASSUME NEW i \in 1 .. c + 1, NEW j \in 1 .. d + 1, i + j + (n + 1) >= c + d + 2
               PROVE  Good(i, j)
    OBVIOUS
  <2>1. CASE i > c \/ j > d
    BY <1>4, <2>1
  <2>2. CASE ~(i > c) /\ ~(j > d)
    <3>1. /\ i \in 1 .. c /\ j \in 1 .. d /\ i + 1 \in 1 .. c + 1 /\ j + 1 \in 1 .. d + 1
          /\ (i + 1) + j + n >= c + d + 2 /\ i + (j + 1) + n >= c + d + 2
      BY <1>1, <2>2
    <3>2. Good(i + 1, j) /\ Good(i, j + 1)
      BY <1>7, <3>1
    <3> QED BY <1>5, <3>1, <3>2
  <2> QED BY <2>1, <2>2
<1>8. \A n \in Nat : n \in T
  <2> HIDE DEF T
  <2> QED BY <1>6, <1>7, SetInduction
<1>9. Good(1, 1)
  <2>1. c + d \in T
    <3>1. c + d \in Nat
      BY <1>1
    <3> HIDE DEF T
    <3> QED BY <1>8, <3>1
  <2>2. 1 \in 1 .. c + 1 /\ 1 \in 1 .. d + 1 /\ 1 + 1 + (c + d) >= c + d + 2
    BY <1>1
  <2> QED BY <2>1, <2>2
<1> QED BY <1>2, <1>9 DEF Good

(* Of each instant and price one is kept.                                   *)
Distinct(d) == \A i, j \in DOMAIN d : KeyOf(d[i]) = KeyOf(d[j]) => i = j

KeepsFirsts(d, s) ==
    /\ InOrder(d) /\ Distinct(d)
    /\ \A k \in DOMAIN d : \E i \in DOMAIN s : d[k] = s[i]
    /\ \A i \in DOMAIN s : \E k \in DOMAIN d : KeyOf(d[k]) = KeyOf(s[i])

(* FirstOfEachKey keeps the firsts of a series in order.                    *)
LEMMA FirstsAreKept ==
    ASSUME NEW S, NEW s \in Seq(S), Timed(S), InOrder(s)
    PROVE  FirstOfEachKey(s) \in Seq(S) /\ KeepsFirsts(FirstOfEachKey(s), s)
<1> DEFINE K == {i \in DOMAIN s : \A j \in 1 .. i - 1 : KeyOf(s[j]) # KeyOf(s[i])}
           d == FirstOfEachKey(s)
<1>1. PICK n \in Nat : n = Len(s) /\ DOMAIN s = 1 .. n
  OBVIOUS
<1>2. K \in SUBSET DOMAIN s /\ d = Picked(s, K)
  BY DEF FirstOfEachKey
<1>3. PICK e \in Nat : d \in Seq(S) /\ Len(d) = e /\ DOMAIN d = 1 .. e
  <2> HIDE DEF d, K
  <2> QED BY <1>2, PickedSeries
<1>4. PICK at \in [1 .. e -> K] :
          /\ \A i \in 1 .. e : d[i] = s[at[i]]
          /\ \A i, j \in 1 .. e : i < j => at[i] < at[j]
          /\ \A k \in K : \E i \in 1 .. e : at[i] = k
  <2> HIDE DEF d, K
  <2>1. PicksInOrder(d, s, K)
    BY <1>2, PickedSeries
  <2> QED BY <1>3, <2>1 DEF PicksInOrder
<1>5. \A i \in 1 .. e : at[i] \in 1 .. n /\ at[i] \in K
  BY <1>1, <1>4
<1> HIDE DEF d
<1>6. InOrder(d)
  BY <1>1, <1>3, <1>4, <1>5 DEF InOrder
<1>7. Distinct(d)
  <2>1. ASSUME NEW i \in 1 .. e, NEW j \in 1 .. e, i < j PROVE KeyOf(d[i]) # KeyOf(d[j])
    <3>1. at[i] \in 1 .. at[j] - 1
      BY <1>4, <1>5, <2>1
    <3>2. KeyOf(s[at[i]]) # KeyOf(s[at[j]])
      BY <1>5, <3>1
    <3> QED BY <1>4, <3>2
  <2>2. \A i, j \in 1 .. e : i < j \/ j < i \/ i = j
    BY <1>2
  <2> QED BY <1>3, <2>1, <2>2 DEF Distinct
<1>8. \A k \in DOMAIN d : \E i \in DOMAIN s : d[k] = s[i]
  BY <1>1, <1>3, <1>4, <1>5
<1>9. ASSUME NEW i \in 1 .. n PROVE \E k \in DOMAIN d : KeyOf(d[k]) = KeyOf(s[i])
  <2> DEFINE J == {j \in 1 .. n : KeyOf(s[j]) = KeyOf(s[i])}
  <2>1. J \in SUBSET Nat /\ J # {}
    OBVIOUS
  <2>2. PICK j \in J : \A l \in J : j <= l
    <3> HIDE DEF J
    <3> QED BY <2>1, LeastElement
  <2>3. j \in 1 .. n /\ KeyOf(s[j]) = KeyOf(s[i])
    OBVIOUS
  <2>4. \A l \in 1 .. j - 1 : l \in 1 .. n /\ ~(j <= l)
    BY <2>3
  <2>5. j \in K
    BY <1>1, <2>2, <2>3, <2>4
  <2>6. PICK k \in 1 .. e : at[k] = j
    BY <1>4, <2>5
  <2> QED BY <1>3, <1>4, <2>3, <2>6, ZenonT(60)
<1> QED BY <1>1, <1>3, <1>6, <1>7, <1>8, <1>9 DEF d, KeepsFirsts

(* r is s without its first o elements.                                     *)
IsEnd(r, s, o) ==
    /\ Len(s) = Len(r) + o
    /\ \A k \in DOMAIN r : r[k] = s[k + o]

(* LastOf is the end of a series, and one of limit elements if it leaves    *)
(* any out.                                                                 *)
LEMMA LastAreKept ==
    ASSUME NEW S, NEW s \in Seq(S), NEW limit \in Nat
    PROVE  /\ LastOf(s, limit) \in Seq(S) /\ Len(LastOf(s, limit)) <= limit
           /\ \E o \in Nat : /\ IsEnd(LastOf(s, limit), s, o)
                             /\ o > 0 => Len(LastOf(s, limit)) = limit
<1>1. PICK n \in Nat : n = Len(s) /\ DOMAIN s = 1 .. n
  OBVIOUS
<1> DEFINE r == LastOf(s, limit)
<1>2. CASE n > limit
  <2>1. PICK o \in Nat : o = n - limit /\ o > 0
    <3>1. n - limit \in Nat /\ n - limit > 0
      BY <1>1, <1>2
    <3> QED BY <3>1
  <2>2. o + 1 \in 1 .. Len(s) + 1 /\ n - limit + 1 = o + 1
    BY <1>1, <1>2, <2>1
  <2>3. r = SubSeq(s, o + 1, Len(s))
    BY <1>1, <1>2, <2>2 DEF LastOf
  <2>4. r \in Seq(S) /\ IsRest(r, s, o + 1)
    BY <2>2, <2>3, RestOf
  <2> HIDE DEF r
  <2>5. /\ Len(r) = n + 1 - (o + 1)
        /\ \A k \in 1 .. n + 1 - (o + 1) : r[k] = s[(o + 1) + k - 1]
    BY <1>1, <2>4 DEF IsRest
  <2>6. /\ n + 1 - (o + 1) = limit /\ n = limit + o
        /\ \A k \in 1 .. limit : (o + 1) + k - 1 = k + o
    BY <1>1, <2>1
  <2>7. Len(r) = limit /\ DOMAIN r = 1 .. limit
    BY <2>4, <2>5, <2>6
  <2>8. IsEnd(r, s, o)
    BY <1>1, <2>5, <2>6, <2>7 DEF IsEnd
  <2> QED BY <2>1, <2>4, <2>7, <2>8 DEF r
<1>3. CASE ~(n > limit)
  <2>1. r = s
    BY <1>1, <1>3 DEF LastOf
  <2> HIDE DEF r
  <2>2. \A k \in 1 .. n : k + 0 = k
    BY <1>1
  <2>3. IsEnd(r, s, 0)
    BY <1>1, <2>1, <2>2 DEF IsEnd
  <2>4. Len(r) <= limit
    BY <1>1, <1>3, <2>1
  <2> QED BY <2>1, <2>3, <2>4 DEF r
<1> QED BY <1>2, <1>3

(* What the end of a series keeps of the whole.                             *)
LEMMA EndKeeps ==
    ASSUME NEW S, NEW s \in Seq(S), NEW r \in Seq(S), NEW o \in Nat, IsEnd(r, s, o)
    PROVE  /\ InOrder(s) => InOrder(r)
           /\ Ascends(s) => Ascends(r)
           /\ \A k \in DOMAIN r : k + o \in DOMAIN s /\ r[k] = s[k + o]
           /\ \A i \in DOMAIN s : i > o => i - o \in DOMAIN r /\ r[i - o] = s[i]
<1>1. PICK n \in Nat : n = Len(r) /\ DOMAIN r = 1 .. n
  OBVIOUS
<1>2. Len(s) = n + o /\ DOMAIN s = 1 .. n + o /\ \A k \in 1 .. n : r[k] = s[k + o]
  BY <1>1 DEF IsEnd
<1>3. /\ \A k \in 1 .. n : k + o \in 1 .. n + o
      /\ \A i \in 1 .. n + o : i > o => i - o \in 1 .. n /\ (i - o) + o = i
      /\ \A j, k \in 1 .. n : j < k => j + o < k + o
  BY <1>1
<1>4. \A k \in DOMAIN r : k + o \in DOMAIN s /\ r[k] = s[k + o]
  BY <1>1, <1>2, <1>3
<1>5. \A i \in DOMAIN s : i > o => i - o \in DOMAIN r /\ r[i - o] = s[i]
  BY <1>1, <1>2, <1>3
<1>6. ASSUME NEW j \in DOMAIN r, NEW k \in DOMAIN r, j < k
      PROVE  /\ InOrder(s) => r[j].time <= r[k].time
             /\ Ascends(s) => r[j].time < r[k].time
  <2>1. j + o < k + o
    BY <1>1, <1>3, <1>6
  <2> QED BY <1>4, <2>1 DEF InOrder, Ascends
<1> QED BY <1>4, <1>5, <1>6 DEF InOrder, Ascends

(* A window in time is part of the series in its order: what begins with    *)
(* its start and nothing else.                                              *)
LEMMA SinceKeeps ==
    ASSUME NEW S, NEW s \in Seq(S), NEW start \in Int, Timed(S)
    PROVE  /\ Since(s, start) \in Seq(S)
           /\ InOrder(s) => InOrder(Since(s, start))
           /\ Ascends(s) => Ascends(Since(s, start))
           /\ \A k \in DOMAIN Since(s, start) :
                 Since(s, start)[k].time >= start /\ \E i \in DOMAIN s : Since(s, start)[k] = s[i]
           /\ \A i \in DOMAIN s : s[i].time >= start =>
                 \E k \in DOMAIN Since(s, start) : Since(s, start)[k] = s[i]
<1> DEFINE K == {i \in DOMAIN s : s[i].time >= start}
           r == Since(s, start)
<1>1. K \in SUBSET DOMAIN s
  OBVIOUS
<1>2. r = Picked(s, K)
  BY DEF Since
<1>3. /\ \A i \in K : i \in DOMAIN s /\ s[i].time >= start
      /\ \A i \in DOMAIN s : s[i].time >= start => i \in K
  OBVIOUS
<1> HIDE DEF r, K
<1>4. r \in Seq(S) /\ PicksInOrder(r, s, K)
  BY <1>1, <1>2, PickedSeries
<1>5. PICK e \in Nat : Len(r) = e /\ DOMAIN r = 1 .. e
  BY <1>4
<1>6. PICK at \in [1 .. e -> K] :
          /\ \A i \in 1 .. e : r[i] = s[at[i]]
          /\ \A i, j \in 1 .. e : i < j => at[i] < at[j]
          /\ \A k \in K : \E i \in 1 .. e : at[i] = k
  BY <1>4, <1>5 DEF PicksInOrder
<1>7. \A i \in 1 .. e : at[i] \in K
  BY <1>6
<1>8. InOrder(s) => InOrder(r)
  BY <1>3, <1>5, <1>6, <1>7 DEF InOrder
<1>9. Ascends(s) => Ascends(r)
  BY <1>3, <1>5, <1>6, <1>7 DEF Ascends
<1>10. \A k \in DOMAIN r : r[k].time >= start /\ \E i \in DOMAIN s : r[k] = s[i]
  BY <1>3, <1>5, <1>6, <1>7
<1>11. ASSUME NEW i \in DOMAIN s, s[i].time >= start PROVE \E k \in DOMAIN r : r[k] = s[i]
  <2>1. i \in K
    BY <1>3, <1>11
  <2>2. PICK k \in 1 .. e : at[k] = i
    BY <1>6, <2>1
  <2> QED BY <1>5, <1>6, <2>2
<1> QED BY <1>4, <1>8, <1>9, <1>10, <1>11 DEF r

(* A merge of bars, each of an instant of its own, and of ticks: in the     *)
(* order of time, each instant and price once, of both; and a limit leaves  *)
(* the latest.                                                              *)
MergedWell(series, h, b, limit) ==
    /\ InOrder(series) /\ Distinct(series)
    /\ KeysIn(series) \subseteq KeysIn(h) \union KeysIn(b)
    /\ \A t \in (KeysIn(h) \union KeysIn(b)) \ KeysIn(series) :
          Len(series) = limit /\ \A u \in KeysIn(series) : t[1] <= u[1]

(* MergeTicks (_merge_ticks) does that.                                     *)
LEMMA MergeTicksMerges ==
    ASSUME NEW S, NEW h \in Seq(S), NEW b \in Seq(S), NEW limit \in Nat,
           Timed(S), Ascends(h), InOrder(b)
    PROVE  MergeTicks(h, b, limit) \in Seq(S) /\ MergedWell(MergeTicks(h, b, limit), h, b, limit)
<1> DEFINE m == TwoPointer(h, b)
           d == FirstOfEachKey(m)
           r == LastOf(d, limit)
<1>1. PICK c \in Nat, e \in Nat : /\ c = Len(h) /\ DOMAIN h = 1 .. c
                                  /\ e = Len(b) /\ DOMAIN b = 1 .. e
  OBVIOUS
<1>2. r = MergeTicks(h, b, limit)
  BY DEF MergeTicks
<1>3. m \in Seq(S) /\ Merges(m, h, b, 1, 1)
  BY TwoPointerMerges
<1> HIDE DEF m
<1>4. /\ InOrder(m)
      /\ \A k \in DOMAIN m : (\E x \in DOMAIN h : m[k] = h[x]) \/ \E y \in DOMAIN b : m[k] = b[y]
      /\ \A x \in DOMAIN h : \E k \in DOMAIN m : m[k] = h[x]
      /\ \A y \in DOMAIN b : \E k \in DOMAIN m : m[k] = b[y]
  BY <1>1, <1>3 DEF Merges, OfEither, Holds
<1>5. /\ d \in Seq(S) /\ InOrder(d) /\ Distinct(d)
      /\ \A k \in DOMAIN d : \E i \in DOMAIN m : d[k] = m[i]
      /\ \A i \in DOMAIN m : \E k \in DOMAIN d : KeyOf(d[k]) = KeyOf(m[i])
  <2>1. d \in Seq(S) /\ KeepsFirsts(d, m)
    BY <1>3, <1>4, FirstsAreKept
  <2> HIDE DEF d
  <2> QED BY <2>1 DEF KeepsFirsts
<1> HIDE DEF d
<1>6. /\ r \in Seq(S) /\ Len(r) <= limit
      /\ \E o \in Nat : IsEnd(r, d, o) /\ (o > 0 => Len(r) = limit)
  BY <1>5, LastAreKept
<1> HIDE DEF r
<1>7. PICK o \in Nat : IsEnd(r, d, o) /\ (o > 0 => Len(r) = limit)
  BY <1>6
<1>8. /\ InOrder(r)
      /\ \A k \in DOMAIN r : k + o \in DOMAIN d /\ r[k] = d[k + o]
      /\ \A i \in DOMAIN d : i > o => i - o \in DOMAIN r /\ r[i - o] = d[i]
  BY <1>5, <1>6, <1>7, EndKeeps, SMTT(60)
<1>9. PICK n \in Nat : n = Len(r) /\ DOMAIN r = 1 .. n /\ Len(d) = n + o /\ DOMAIN d = 1 .. n + o
  <2>1. Len(d) = Len(r) + o
    BY <1>7, Zenon DEF IsEnd
  <2>2. Len(r) \in Nat /\ DOMAIN r = 1 .. Len(r)
    BY <1>6
  <2>3. DOMAIN d = 1 .. Len(d)
    BY <1>5
  <2> QED BY <2>1, <2>2, <2>3, Zenon
<1>10. \A k \in DOMAIN d : (\E x \in DOMAIN h : d[k] = h[x]) \/ \E y \in DOMAIN b : d[k] = b[y]
  <2> SUFFICES ASSUME NEW k \in DOMAIN d
               PROVE  (\E x \in DOMAIN h : d[k] = h[x]) \/ \E y \in DOMAIN b : d[k] = b[y]
    OBVIOUS
  <2>1. PICK i \in DOMAIN m : d[k] = m[i]
    BY <1>5
  <2> QED BY <1>4, <2>1
<1>11. ASSUME NEW t \in KeysIn(h) \union KeysIn(b) PROVE \E k \in DOMAIN d : KeyOf(d[k]) = t
  <2>1. CASE t \in KeysIn(h)
    <3>1. PICK x \in DOMAIN h : t = KeyOf(h[x])
      BY <2>1 DEF KeysIn
    <3>2. PICK i \in DOMAIN m : m[i] = h[x]
      BY <1>4
    <3> QED BY <1>5, <3>1, <3>2
  <2>2. CASE t \in KeysIn(b)
    <3>1. PICK y \in DOMAIN b : t = KeyOf(b[y])
      BY <2>2 DEF KeysIn
    <3>2. PICK i \in DOMAIN m : m[i] = b[y]
      BY <1>4
    <3> QED BY <1>5, <3>1, <3>2
  <2> QED BY <2>1, <2>2
<1>12. \A i, j \in 1 .. n : i + o = j + o => i = j
  BY <1>9
<1>13. Distinct(r)
  BY <1>5, <1>8, <1>9, <1>12 DEF Distinct
<1>14. \A k \in DOMAIN r : (\E x \in DOMAIN h : r[k] = h[x]) \/ \E y \in DOMAIN b : r[k] = b[y]
  BY <1>8, <1>10
<1>15. KeysIn(r) \subseteq KeysIn(h) \union KeysIn(b)
  <2> SUFFICES ASSUME NEW k \in DOMAIN r PROVE KeyOf(r[k]) \in KeysIn(h) \union KeysIn(b)
    BY DEF KeysIn
  <2>1. CASE \E x \in DOMAIN h : r[k] = h[x]
    BY <2>1 DEF KeysIn
  <2>2. CASE \E y \in DOMAIN b : r[k] = b[y]
    BY <2>2 DEF KeysIn
  <2> QED BY <1>14, <2>1, <2>2
<1>16. ASSUME NEW t \in (KeysIn(h) \union KeysIn(b)) \ KeysIn(r)
       PROVE  Len(r) = limit /\ \A u \in KeysIn(r) : t[1] <= u[1]
  <2>1. PICK i \in DOMAIN d : KeyOf(d[i]) = t
    BY <1>11
  <2>2. i \in Nat /\ i >= 1 /\ i <= o
    <3>1. i > o => i - o \in DOMAIN r /\ r[i - o] = d[i]
      BY <1>8, Zenon
    <3>2. i > o => KeyOf(r[i - o]) \in KeysIn(r) /\ KeyOf(r[i - o]) = t
      BY <2>1, <3>1, Zenon DEF KeysIn
    <3>3. t \notin KeysIn(r)
      BY <1>16, Zenon
    <3>4. ~(i > o)
      BY <3>2, <3>3, Zenon
    <3>5. i \in 1 .. n + o
      BY <1>9, Zenon
    <3> QED BY <3>4, <3>5
  <2>3. ASSUME NEW u \in KeysIn(r) PROVE t[1] <= u[1]
    <3>1. PICK k \in 1 .. n : u = KeyOf(r[k])
      BY <1>9 DEF KeysIn
    <3>2. k + o \in DOMAIN d /\ i < k + o /\ r[k] = d[k + o]
      <4>1. k \in DOMAIN r
        BY <1>9, Zenon
      <4>2. k + o \in DOMAIN d /\ r[k] = d[k + o]
        BY <1>8, <4>1, Zenon
      <4> QED BY <2>2, <4>2
    <3>3. d[i].time <= d[k + o].time
      BY <1>5, <3>2 DEF InOrder
    <3> QED BY <2>1, <3>1, <3>2, <3>3 DEF KeyOf
  <2> QED BY <1>7, <2>2, <2>3
<1>17. MergedWell(r, h, b, limit)
  BY <1>8, <1>13, <1>15, <1>16 DEF MergedWell
<1> QED BY <1>2, <1>6, <1>17

(* The page over any bars of ascending times and any window in order.       *)
LEMMA PageIsMerged ==
    ASSUME NEW S, NEW rows \in Seq(S), NEW start \in Int, NEW limit \in Nat,
           Timed(S), Ascends(rows), history \in Seq(S), InOrder(history)
    PROVE  SeriesIsMerged(rows, start, limit)
<1> DEFINE q == Since(rows, start)
           h == LastOf(q, limit)
           w == LastOf(history, limit)
           b == Since(w, start)
           series == MergeTicks(h, b, limit)
<1>1. /\ HistoricalTicks(rows, start, limit) = h /\ BufferTicks(start, limit) = b
      /\ DetailTicks(rows, start, limit) = [historical |-> h, buffered |-> b, series |-> series]
  BY DEF HistoricalTicks, BufferTicks, DetailTicks
<1>2. /\ q \in Seq(S) /\ Ascends(q)
      /\ \A k \in DOMAIN q : q[k].time >= start
      /\ \A j \in DOMAIN rows : rows[j].time >= start => \E k \in DOMAIN q : q[k] = rows[j]
  BY SinceKeeps
<1> HIDE DEF q
<1>3. h \in Seq(S) /\ \E o \in Nat : IsEnd(h, q, o) /\ (o > 0 => Len(h) = limit)
  BY <1>2, LastAreKept
<1> HIDE DEF h
<1>4. PICK o \in Nat : IsEnd(h, q, o) /\ (o > 0 => Len(h) = limit)
  BY <1>3
<1>5. /\ Ascends(h)
      /\ \A k \in DOMAIN h : k + o \in DOMAIN q /\ h[k] = q[k + o]
      /\ \A i \in DOMAIN q : i > o => i - o \in DOMAIN h /\ h[i - o] = q[i]
  BY <1>2, <1>3, <1>4, EndKeeps
<1>6. w \in Seq(S) /\ \E l \in Nat : IsEnd(w, history, l)
  BY LastAreKept
<1> HIDE DEF w
<1>7. InOrder(w)
  BY <1>6, EndKeeps
<1>8. b \in Seq(S) /\ InOrder(b) /\ \A k \in DOMAIN b : b[k].time >= start
  BY <1>6, <1>7, SinceKeeps
<1> HIDE DEF b
<1>9. series \in Seq(S) /\ MergedWell(series, h, b, limit)
  BY <1>3, <1>5, <1>8, MergeTicksMerges
<1> HIDE DEF series
<1>10. ASSUME NEW i \in DOMAIN series, NEW j \in DOMAIN series, i < j
       PROVE  /\ series[i].time <= series[j].time
              /\ KeyOf(series[i]) # KeyOf(series[j])
  <2>1. i \in Nat /\ j \in Nat
    BY <1>9
  <2> QED BY <1>9, <1>10, <2>1 DEF MergedWell, InOrder, Distinct
<1>11. /\ DetailTicks(rows, start, limit).series = series
       /\ DetailTicks(rows, start, limit).historical = h
       /\ DetailTicks(rows, start, limit).buffered = b
  BY <1>1
<1>12. /\ KeysIn(series) \subseteq KeysIn(h) \union KeysIn(b)
       /\ \A t \in (KeysIn(h) \union KeysIn(b)) \ KeysIn(series) :
             Len(series) = limit /\ \A u \in KeysIn(series) : t[1] <= u[1]
  BY <1>9 DEF MergedWell
<1> QED BY <1>10, <1>11, <1>12 DEF SeriesIsMerged

Stored == [time : Nat, price : Int, size : Nat]

(* The series of a symbol's page is merged in every state, for any number   *)
(* of bars, whatever the window and the limit: the ticks are in order, and  *)
(* the database holds one bar of a symbol and a minute.                     *)
THEOREM AnyPageIsMerged ==
    DetailSpec => [](\A rows \in Seq(Stored), start \in Int, limit \in Nat \ {0} :
                         Ascends(rows) => SeriesIsMerged(rows, start, limit))
<1>1. Timed(Stored)
  BY DEF Timed, Stored
<1>2. DetailInv => history \in Seq(Stored) /\ InOrder(history)
  <2> SUFFICES ASSUME DetailInv PROVE history \in Seq(Stored) /\ InOrder(history)
    OBVIOUS
  <2>1. history \in Seq([price : Positive, size : Sizes, time : Times]) /\ InOrder(history)
    BY DEF DetailInv, WindowInv, TypeOK, Chronological, InOrder
  <2> DEFINE W == [price : Positive, size : Sizes, time : Times]
  <2>2. \A t \in W : t \in Stored
    BY TickAssumption DEF Positive, Stored
  <2> HIDE DEF W
  <2>3. history \in Seq(W)
    BY <2>1 DEF W
  <2> QED BY <2>1, <2>2, <2>3
<1>3. DetailInv => \A rows \in Seq(Stored), start \in Int, limit \in Nat \ {0} :
                        Ascends(rows) => SeriesIsMerged(rows, start, limit)
  <2> SUFFICES ASSUME DetailInv, NEW rows \in Seq(Stored), NEW start \in Int,
                      NEW limit \in Nat \ {0}, Ascends(rows)
               PROVE  SeriesIsMerged(rows, start, limit)
    OBVIOUS
  <2> QED BY <1>1, <1>2, PageIsMerged
<1> QED BY <1>3, DetailStart, DetailStep, PTL DEF DetailSpec

(* So are the pages over the bars of the runs.                              *)
THEOREM PageSeriesIsMerged == DetailSpec => []MergedSeries
<1>1. ASSUME NEW rows \in Chronicles PROVE rows \in Seq(Stored) /\ Ascends(rows)
  <2>1. /\ Times \subseteq Nat /\ \A p \in Positive : p \in Int
    BY TickAssumption DEF Positive
  <2> DEFINE bar(t, p) == [time |-> t, price |-> p, size |-> 0]
  <2>2. \A t \in Times : \A p \in Positive : bar(t, p) \in Stored
    BY <2>1 DEF Stored
  <2>3. \/ rows = <<>>
        \/ \E t \in Times : \E p \in Positive : rows = <<bar(t, p)>>
        \/ \E t \in Times : \E u \in Times : \E p \in Positive : rows = <<bar(t, p), bar(u, p)>>
    BY DEF Chronicles, StoredRows
  <2> HIDE DEF bar
  <2>4. CASE rows = <<>>
    BY <2>4 DEF Ascends
  <2>5. CASE \E t \in Times : \E p \in Positive : rows = <<bar(t, p)>>
    <3>1. PICK x \in Stored : rows = <<x>>
      BY <2>2, <2>5
    <3>2. \A i, j \in DOMAIN rows : ~(i < j)
      BY <3>1
    <3> QED BY <3>1, <3>2 DEF Ascends
  <2>6. CASE \E t \in Times : \E u \in Times : \E p \in Positive : rows = <<bar(t, p), bar(u, p)>>
    <3>1. PICK x \in Stored, y \in Stored : rows = <<x, y>>
      BY <2>2, <2>6
    <3>2. rows[1].time < rows[2].time
      BY <3>1 DEF Chronicles
    <3>3. \A i, j \in DOMAIN rows : i < j => i = 1 /\ j = 2
      BY <3>1
    <3> QED BY <3>1, <3>2, <3>3 DEF Ascends
  <2> QED BY <2>3, <2>4, <2>5, <2>6
<1>2. ASSUME NEW limit \in {2, 2 * MaxTicks} PROVE limit \in Nat \ {0}
  BY WindowAssumption
<1>3. ASSUME \A rows \in Seq(Stored), start \in Int, limit \in Nat \ {0} :
                  Ascends(rows) => SeriesIsMerged(rows, start, limit)
      PROVE  MergedSeries
  BY <1>1, <1>2, <1>3 DEF MergedSeries
<1> QED BY <1>3, AnyPageIsMerged, PTL
=============================================================================
