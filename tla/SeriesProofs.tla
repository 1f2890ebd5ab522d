----------------------------- MODULE SeriesProofs -----------------------------
(***************************************************************************)
(* What the operators of Series return, for every sequence and every       *)
(* finite set, and the forms of induction the proofs need.                 *)
(***************************************************************************)
EXTENDS Series, FiniteSetTheorems, SequenceTheorems, WellFoundedInduction, TLAPS

-----------------------------------------------------------------------------
(* Induction *)

(* A non-empty set of naturals has a least element.                         *)
LEMMA LeastElement ==
    ASSUME NEW T \in SUBSET Nat, T # {}
    PROVE  \E x \in T : \A y \in T : x <= y
<1> DEFINE R == OpToRel(<, Nat)
<1>1. IsWellFoundedOn(R, Nat)
  BY NatLessThanWellFounded
<1>2. PICK x \in T : \A y \in T : ~(<<y, x>> \in R)
  <2> HIDE DEF R
  <2> QED BY <1>1, WFMin
<1>3. \A y \in T : ~(y < x)
  BY <1>2 DEF OpToRel
<1> QED BY <1>3

(* A set that holds 0 and the successor of each of its members holds every  *)
(* natural.                                                                 *)
LEMMA SetInduction ==
    ASSUME NEW T, 0 \in T, \A n \in Nat : n \in T => n + 1 \in T
    PROVE  \A n \in Nat : n \in T
<1> SUFFICES ASSUME NEW m \in Nat, m \notin T PROVE FALSE
  OBVIOUS
<1>1. PICK x \in Nat \ T : \A y \in Nat \ T : x <= y
  <2>1. Nat \ T \in SUBSET Nat /\ Nat \ T # {}
    OBVIOUS
  <2> QED BY <2>1, LeastElement
<1>2. x - 1 \in Nat /\ x - 1 \in T
  BY <1>1
<1> QED BY <1>1, <1>2

(* The sets of positions of a sequence of length n.                         *)
Places(n) == SUBSET (1 .. n)

(* One that is not empty has a greatest element, which is its Max.          *)
LEMMA GreatestElement ==
    ASSUME NEW n \in Nat, NEW s \in Places(n), s # {}
    PROVE  Max(s) \in s /\ \A y \in s : y <= Max(s)
<1> DEFINE T == {n - y : y \in s}
<1>1. \A y \in s : y \in Nat /\ n - y \in Nat
  BY DEF Places
<1>2. T \in SUBSET Nat /\ T # {}
  BY <1>1
<1>3. PICK x \in T : \A y \in T : x <= y
  <2> HIDE DEF T
  <2> QED BY <1>2, LeastElement
<1>4. PICK m \in s : x = n - m
  BY <1>3
<1>5. \A y \in s : n - y \in T
  OBVIOUS
<1>6. ASSUME NEW y \in s PROVE m >= y
  <2>1. n - m <= n - y
    <3> HIDE DEF T
    <3> QED BY <1>3, <1>4, <1>5
  <2> QED BY <1>1, <2>1
<1> QED BY <1>4, <1>6 DEF Max

(* Taking the last place off.                                               *)
LEMMA PlacesGrow ==
    ASSUME NEW n \in Nat
    PROVE  /\ Places(0) = {{}} /\ {} \in Places(n)
           /\ 1 .. n \in Places(n)
           /\ \A s \in Places(n) : n + 1 \notin s /\ s \in Places(n + 1)
           /\ \A s \in Places(n + 1) : s \ {n + 1} \in Places(n)
           /\ \A s \in Places(n + 1) : n + 1 \notin s => s \in Places(n)
           /\ \A s \in Places(n + 1) : s # {} => s \ {Max(s)} \in Places(n)
           /\ \A s \in Places(n + 1) : n + 1 \in s => Max(s) = n + 1
           /\ \A s \in Places(n) : \A x : s \ {x} \in Places(n)
<1>1. Places(0) = {{}} /\ {} \in Places(n) /\ 1 .. n \in Places(n)
  <2>1. 1 .. 0 = {}
    OBVIOUS
  <2> QED BY <2>1 DEF Places
<1>3. ASSUME NEW s \in Places(n) PROVE n + 1 \notin s /\ s \in Places(n + 1)
  <2>1. 1 .. n \subseteq 1 .. n + 1 /\ n + 1 \notin 1 .. n
    OBVIOUS
  <2> QED BY <2>1 DEF Places
<1>4. ASSUME NEW s \in Places(n + 1)
      PROVE  s \ {n + 1} \in Places(n) /\ (n + 1 \notin s => s \in Places(n))
  <2>1. (1 .. n + 1) \ {n + 1} \subseteq 1 .. n
    OBVIOUS
  <2> QED BY <2>1 DEF Places
<1>5. \A s \in Places(n) : \A x : s \ {x} \in Places(n)
  BY DEF Places
<1>2. ASSUME NEW s \in Places(n + 1), s # {}
      PROVE  s \ {Max(s)} \in Places(n) /\ (n + 1 \in s => Max(s) = n + 1)
  <2>1. n + 1 \in Nat
    OBVIOUS
  <2>2. Max(s) \in s /\ \A y \in s : y <= Max(s)
    BY <1>2, <2>1, GreatestElement
  <2>3. \A y \in s : y \in 1 .. n + 1
    BY DEF Places
  <2>4. n + 1 \in s => Max(s) = n + 1
    BY <2>2, <2>3
  <2>5. \A y \in s \ {Max(s)} : y \in 1 .. n
    BY <2>2, <2>3
  <2> QED BY <2>4, <2>5 DEF Places
<1> QED BY <1>1, <1>2, <1>3, <1>4, <1>5

-----------------------------------------------------------------------------
(* Sums *)

(* The function that FoldLeft picks to add up w, on the sets of places up   *)
(* to n.                                                                    *)
TotalAt(g, w, s) == IF s = {} THEN 0 ELSE g[s \ {Max(s)}] + w[Max(s)]
Totals(g, w, n) == g = [s \in Places(n) |-> TotalAt(g, w, s)]

(* There is a function that yields the sum of a sequence over every set of  *)
(* its places: the one that the fold chooses.                               *)
LEMMA TotalsExist ==
    ASSUME NEW w \in Seq(Int)
    PROVE  \A n \in Nat : n <= Len(w) => \E g \in [Places(n) -> Int] : Totals(g, w, n)
<1> DEFINE P(n) == n <= Len(w) => \E g \in [Places(n) -> Int] : Totals(g, w, n)
           T == {n \in Nat : P(n)}
<1>1. P(0)
  <2> DEFINE g == [s \in Places(0) |-> 0]
  <2>1. g \in [Places(0) -> Int] /\ Totals(g, w, 0)
    BY PlacesGrow DEF Totals, TotalAt
  <2> QED BY <2>1
<1>2. ASSUME NEW n \in Nat, P(n) PROVE P(n + 1)
  <2> SUFFICES ASSUME n + 1 <= Len(w)
               PROVE  \E h \in [Places(n + 1) -> Int] : Totals(h, w, n + 1)
    OBVIOUS
  <2>1. PICK g \in [Places(n) -> Int] : Totals(g, w, n)
    BY <1>2
  <2> DEFINE h == [s \in Places(n + 1) |->
                      IF n + 1 \in s THEN g[s \ {n + 1}] + w[n + 1] ELSE g[s]]
  <2>2. w[n + 1] \in Int
    OBVIOUS
  <2>0. /\ \A s \in Places(n) : n + 1 \notin s /\ s \in Places(n + 1)
        /\ \A s \in Places(n + 1) : s \ {n + 1} \in Places(n)
        /\ \A s \in Places(n + 1) : n + 1 \notin s => s \in Places(n)
        /\ \A s \in Places(n + 1) : n + 1 \in s => Max(s) = n + 1
        /\ \A s \in Places(n) : \A x : s \ {x} \in Places(n)
    BY PlacesGrow
  <2>3. h \in [Places(n + 1) -> Int]
    BY <2>0, <2>1, <2>2
  <2>4. ASSUME NEW s \in Places(n + 1) PROVE h[s] = TotalAt(h, w, s)
    <3>1. CASE n + 1 \in s
      <4>1. Max(s) = n + 1 /\ s # {}
        BY <3>1, <2>0
      <4>2. s \ {n + 1} \in Places(n + 1) /\ n + 1 \notin s \ {n + 1}
        BY <2>0
      <4>3. h[s \ {n + 1}] = g[s \ {n + 1}]
        BY <4>2
      <4>4. h[s] = g[s \ {n + 1}] + w[n + 1]
        BY <3>1
      <4> QED BY <3>1, <4>1, <4>3, <4>4 DEF TotalAt
    <3>2. CASE n + 1 \notin s
      <4>1. s \in Places(n) /\ h[s] = g[s]
        BY <3>2, <2>0
      <4>2. g[s] = TotalAt(g, w, s)
        BY <2>1, <4>1 DEF Totals
      <4>3. s \ {Max(s)} \in Places(n + 1) /\ n + 1 \notin s \ {Max(s)}
        BY <3>2, <4>1, <2>0
      <4>4. h[s \ {Max(s)}] = g[s \ {Max(s)}]
        BY <4>3
      <4> QED BY <4>1, <4>2, <4>4 DEF TotalAt
    <3> QED BY <3>1, <3>2
  <2>5. Totals(h, w, n + 1)
    <3>1. h = [s \in Places(n + 1) |-> h[s]]
      OBVIOUS
    <3> HIDE DEF h
    <3>2. h = [s \in Places(n + 1) |-> TotalAt(h, w, s)]
      BY <2>4, <3>1
    <3> QED BY <3>2 DEF Totals
  <2> HIDE DEF h
  <2> QED BY <2>3, <2>5
<1> HIDE DEF P
<1>3. \A n \in Nat : n \in T
  <2>1. 0 \in T /\ \A n \in Nat : n \in T => n + 1 \in T
    BY <1>1, <1>2
  <2> HIDE DEF T
  <2> QED BY <2>1, SetInduction
<1> QED BY <1>3 DEF P

(* Two of them agree as far as their sequences do.                          *)
LEMMA TotalsAgree ==
    ASSUME NEW g, NEW w, NEW a \in Nat, Totals(g, w, a),
           NEW h, NEW v, NEW b \in Nat, Totals(h, v, b),
           NEW m \in Nat, m <= a, m <= b, \A i \in 1 .. m : w[i] = v[i],
           NEW places \in Places(m)
    PROVE  g[places] = h[places]
<1> DEFINE P(n) == n <= a /\ n <= b /\ (\A i \in 1 .. n : w[i] = v[i]) =>
                       \A s \in Places(n) : g[s] = h[s]
           T == {n \in Nat : P(n)}
<1>0. \A n \in Nat : (n <= a => Places(n) \subseteq Places(a))
                     /\ (n <= b => Places(n) \subseteq Places(b))
  BY DEF Places
<1>1. P(0)
  <2>1. {} \in Places(a) /\ {} \in Places(b) /\ Places(0) = {{}}
    BY PlacesGrow
  <2>2. g[{}] = 0 /\ h[{}] = 0
    BY <2>1 DEF Totals, TotalAt
  <2> QED BY <2>1, <2>2
<1>2. ASSUME NEW n \in Nat, P(n) PROVE P(n + 1)
  <2> SUFFICES ASSUME n + 1 <= a, n + 1 <= b, \A i \in 1 .. n + 1 : w[i] = v[i],
                      NEW s \in Places(n + 1)
               PROVE  g[s] = h[s]
    OBVIOUS
  <2>1. \A r \in Places(n) : g[r] = h[r]
    BY <1>2
  <2>2. s \in Places(a) /\ s \in Places(b)
    BY <1>0
  <2>3. g[s] = TotalAt(g, w, s) /\ h[s] = TotalAt(h, v, s)
    BY <2>2 DEF Totals
  <2>4. CASE s = {}
    BY <2>3, <2>4 DEF TotalAt
  <2>5. CASE s # {}
    <3>1. s \ {Max(s)} \in Places(n)
      BY <2>5, PlacesGrow
    <3>2. w[Max(s)] = v[Max(s)]
      <4>1. n + 1 \in Nat
        OBVIOUS
      <4>2. Max(s) \in s
        BY <2>5, <4>1, GreatestElement
      <4> QED BY <4>2 DEF Places
    <3> QED BY <2>1, <2>3, <2>5, <3>1, <3>2 DEF TotalAt
  <2> QED BY <2>4, <2>5
<1> HIDE DEF P
<1>3. \A n \in Nat : n \in T
  <2>1. 0 \in T /\ \A n \in Nat : n \in T => n + 1 \in T
    BY <1>1, <1>2
  <2> HIDE DEF T
  <2> QED BY <2>1, SetInduction
<1>4. P(m)
  BY <1>3
<1> QED BY <1>4 DEF P

(* SumOf is the value at all places of such a function.                     *)
LEMMA SumIsTotal ==
    ASSUME NEW w \in Seq(Int)
    PROVE  \E g \in [Places(Len(w)) -> Int] :
               Totals(g, w, Len(w)) /\ SumOf(w) = g[1 .. Len(w)]
<1> DEFINE n == Len(w)
           chosen == CHOOSE g : Totals(g, w, n)
<1>1. n \in Nat /\ DOMAIN w = 1 .. n
  OBVIOUS
<1>2. PICK f \in [Places(n) -> Int] : Totals(f, w, n)
  BY <1>1, TotalsExist
<1>3. Totals(chosen, w, n)
  BY <1>2
<1>4. \A s \in Places(n) : f[s] = chosen[s]
  <2>1. n <= n /\ \A i \in 1 .. n : w[i] = w[i]
    BY <1>1
  <2> HIDE DEF chosen, n
  <2> QED BY <1>1, <1>2, <1>3, <2>1, TotalsAgree
<1>5. SumOf(w) = chosen[1 .. n]
  BY <1>1, Zenon DEF SumOf, FoldLeft, MapThenFoldSet, Totals, TotalAt, Places
<1> HIDE DEF chosen
<1>6. SumOf(w) = f[1 .. n]
  BY <1>1, <1>4, <1>5, PlacesGrow
<1> QED BY <1>2, <1>6

(* Nothing sums to 0.                                                       *)
LEMMA SumOfEmpty == SumOf(<<>>) = 0
<1>1. <<>> \in Seq(Int) /\ Len(<<>>) = 0 /\ 1 .. 0 = {}
  OBVIOUS
<1>2. PICK g \in [Places(0) -> Int] : Totals(g, <<>>, 0) /\ SumOf(<<>>) = g[1 .. 0]
  BY <1>1, SumIsTotal
<1> QED BY <1>1, <1>2, PlacesGrow DEF Totals, TotalAt

(* An element at the end is added to the sum.                               *)
LEMMA SumOfAppend ==
    ASSUME NEW w \in Seq(Int), NEW x \in Int
    PROVE  SumOf(Append(w, x)) = SumOf(w) + x
<1>0. PICK n \in Nat : n = Len(w)
  OBVIOUS
<1> DEFINE v == Append(w, x)
<1>1. /\ n \in Nat /\ n + 1 \in Nat /\ v \in Seq(Int) /\ Len(v) = n + 1
      /\ v[n + 1] = x /\ \A i \in 1 .. n : w[i] = v[i]
  BY <1>0
<1> HIDE DEF v
<1>2. PICK g : Totals(g, w, n) /\ SumOf(w) = g[1 .. n]
  BY <1>0, SumIsTotal
<1>3. PICK h : Totals(h, v, n + 1) /\ SumOf(v) = h[1 .. n + 1]
  BY <1>1, SumIsTotal
<1>4. h[1 .. n + 1] = h[1 .. n] + x
  <2>0. n + 1 \in 1 .. n + 1
    BY <1>1
  <2>1. 1 .. n + 1 \in Places(n + 1) /\ 1 .. n + 1 # {} /\ n + 1 \in 1 .. n + 1
    BY <2>0, Zenon DEF Places
  <2>2. Max(1 .. n + 1) = n + 1
    BY <1>1, <2>1, PlacesGrow, ZenonT(60)
  <2>3. (1 .. n + 1) \ {n + 1} = 1 .. n
    BY <1>1
  <2>4. h[1 .. n + 1] = TotalAt(h, v, 1 .. n + 1)
    BY <1>3, <2>1 DEF Totals
  <2> QED BY <1>1, <2>1, <2>2, <2>3, <2>4 DEF TotalAt
<1>5. g[1 .. n] = h[1 .. n]
  <2>0. /\ n + 1 \in Nat /\ \A i \in 1 .. n : w[i] = v[i]
        /\ Totals(g, w, n) /\ Totals(h, v, n + 1)
    BY <1>1, <1>2, <1>3
  <2>1. n <= n /\ n <= n + 1 /\ 1 .. n \in Places(n)
    BY <1>1, PlacesGrow
  <2> QED BY <2>0, <2>1, TotalsAgree
<1> QED BY <1>2, <1>3, <1>4, <1>5 DEF v

-----------------------------------------------------------------------------
(* Sets in ascending order *)

(* The sets of naturals up to n.                                            *)
Below(n) == SUBSET (0 .. n)

(* Sets of places are sets of naturals.                                     *)
LEMMA PlacesAreBelow ==
    ASSUME NEW n \in Nat
    PROVE  \A K \in Places(n) : K \in Below(n)
<1>1. 1 .. n \subseteq 0 .. n
  OBVIOUS
<1> QED BY <1>1 DEF Places, Below

(* They are finite, and so are their parts.                                 *)
LEMMA BelowFinite ==
    ASSUME NEW n \in Nat, NEW K \in Below(n)
    PROVE  /\ IsFiniteSet(K) /\ Cardinality(K) \in Nat
           /\ \A J \in SUBSET K : /\ IsFiniteSet(J) /\ Cardinality(J) \in Nat
                                  /\ Cardinality(J) <= Cardinality(K)
                                  /\ J # K => Cardinality(J) < Cardinality(K)
<1>1. IsFiniteSet(0 .. n)
  BY FS_Interval
<1>2. IsFiniteSet(K)
  BY <1>1, FS_Subset DEF Below
<1>3. \A J \in SUBSET K : /\ IsFiniteSet(J) /\ Cardinality(J) <= Cardinality(K)
                          /\ Cardinality(K) = Cardinality(J) => K = J
  BY <1>2, FS_Subset
<1>4. Cardinality(K) \in Nat /\ \A J \in SUBSET K : Cardinality(J) \in Nat
  BY <1>2, <1>3, FS_CardinalityType
<1> QED BY <1>2, <1>3, <1>4

(* Each number of members is that of the members below some member.         *)
LEMMA RanksFilled ==
    \A n \in Nat : \A K \in Below(n) :
        \A i \in 1 .. Cardinality(K) : \E k \in K : Rank(K, k) = i - 1
<1> DEFINE P(n) == \A K \in Below(n) :
                       \A i \in 1 .. Cardinality(K) : \E k \in K : Rank(K, k) = i - 1
           T == {n \in Nat : P(n)}
<1>1. P(0)
  <2> SUFFICES ASSUME NEW K \in Below(0), NEW i \in 1 .. Cardinality(K)
               PROVE  \E k \in K : Rank(K, k) = i - 1
    OBVIOUS
  <2>1. K = {} \/ K = {0}
    <3>1. \A k \in K : k = 0
      BY DEF Below
    <3> QED BY <3>1
  <2>2. Cardinality({}) = 0 /\ Cardinality({0}) = 1
    BY FS_EmptySet, FS_Singleton
  <2>3. K = {0} /\ i = 1
    BY <2>1, <2>2
  <2>4. {j \in K : j < 0} = {}
    BY <2>3
  <2>5. Rank(K, 0) = 0
    BY <2>2, <2>4 DEF Rank
  <2> QED BY <2>3, <2>5
<1>2. ASSUME NEW n \in Nat, P(n) PROVE P(n + 1)
  <2> SUFFICES ASSUME NEW K \in Below(n + 1), NEW i \in 1 .. Cardinality(K)
               PROVE  \E k \in K : Rank(K, k) = i - 1
    OBVIOUS
  <2> DEFINE J == K \ {n + 1}
  <2>1. J \in Below(n) /\ (n + 1 \notin K => K \in Below(n))
    <3>1. (0 .. n + 1) \ {n + 1} \subseteq 0 .. n
      OBVIOUS
    <3> QED BY <3>1 DEF Below
  <2>2. CASE n + 1 \notin K
    BY <1>2, <2>1, <2>2
  <2>3. CASE n + 1 \in K
    <3>1. \A j \in J : j \in 0 .. n
      BY <2>1 DEF Below
    <3>2. Cardinality(J) \in Nat /\ Cardinality(K) = Cardinality(J) + 1
      <4>1. IsFiniteSet(J) /\ Cardinality(J) \in Nat
        BY <2>1, BelowFinite
      <4>2. K = J \union {n + 1} /\ n + 1 \notin J
        BY <2>3
      <4> HIDE DEF J
      <4> QED BY <4>1, <4>2, FS_AddElement
    <3>3. CASE i = Cardinality(J) + 1
      <4>1. {j \in K : j < n + 1} = J
        BY <3>1
      <4>2. Rank(K, n + 1) = Cardinality(J)
        BY <4>1, Zenon DEF Rank
      <4> QED BY <2>3, <3>2, <3>3, <4>2
    <3>4. CASE i \in 1 .. Cardinality(J)
      <4>1. PICK k \in J : Rank(J, k) = i - 1
        BY <1>2, <2>1, <3>4
      <4>2. {j \in K : j < k} = {j \in J : j < k}
        BY <3>1
      <4> QED BY <4>1, <4>2 DEF Rank
    <3>5. i = Cardinality(J) + 1 \/ i \in 1 .. Cardinality(J)
      BY <3>2
    <3> QED BY <3>3, <3>4, <3>5
  <2> QED BY <2>2, <2>3
<1> HIDE DEF P
<1>3. \A n \in Nat : n \in T
  <2>1. 0 \in T /\ \A n \in Nat : n \in T => n + 1 \in T
    BY <1>1, <1>2
  <2> HIDE DEF T
  <2> QED BY <2>1, SetInduction
<1> QED BY <1>3 DEF P

(* A greater member has more members below it.                              *)
LEMMA RankOrders ==
    ASSUME NEW n \in Nat, NEW K \in Below(n), NEW k \in K, NEW l \in K, k < l
    PROVE  Rank(K, k) < Rank(K, l)
<1>0. \A j \in K : j \in Nat
  BY DEF Below
<1> DEFINE B == {j \in K : j < k}
           C == {j \in K : j < l}
<1>1. C \in Below(n)
  BY DEF Below
<1>2. B \in SUBSET C /\ k \in C /\ k \notin B
  BY <1>0
<1>3. Cardinality(B) < Cardinality(C)
  <2> HIDE DEF B, C
  <2> QED BY <1>1, <1>2, BelowFinite
<1> QED BY <1>3 DEF Rank

(* The i-th in ascending order is the member with i - 1 members below it.   *)
LEMMA AscendingRanks ==
    ASSUME NEW n \in Nat, NEW K \in Below(n)
    PROVE  /\ Ascending(K) \in [1 .. Cardinality(K) -> K]
           /\ \A i \in 1 .. Cardinality(K) : Rank(K, Ascending(K)[i]) = i - 1
<1>1. \A i \in 1 .. Cardinality(K) :
          Ascending(K)[i] \in K /\ Rank(K, Ascending(K)[i]) = i - 1
  BY RanksFilled DEF Ascending
<1> QED BY <1>1 DEF Ascending

(* Ascending lists each member of the set once, in their order.             *)
LEMMA AscendingLists ==
    ASSUME NEW n \in Nat, NEW K \in Below(n)
    PROVE  /\ Cardinality(K) \in Nat
           /\ Ascending(K) \in [1 .. Cardinality(K) -> K]
           /\ \A i, j \in 1 .. Cardinality(K) : i < j => Ascending(K)[i] < Ascending(K)[j]
           /\ \A k \in K : \E i \in 1 .. Cardinality(K) : Ascending(K)[i] = k
<1> DEFINE c == Cardinality(K)
           A == Ascending(K)
<1>1. c \in Nat
  BY BelowFinite
<1>2. \A i \in 1 .. c : A[i] \in K /\ Rank(K, A[i]) = i - 1
  BY AscendingRanks
<1>3. A \in [1 .. c -> K]
  BY AscendingRanks
<1>4. \A k \in K : k \in Nat
  BY DEF Below
<1> HIDE DEF A, c
<1>5. \A k, l \in K : k < l => Rank(K, k) < Rank(K, l)
  BY RankOrders
<1>6. ASSUME NEW k \in K PROVE Rank(K, k) \in 0 .. c - 1
  <2> DEFINE B == {j \in K : j < k}
  <2>1. B \in SUBSET K /\ B # K
    BY <1>4
  <2>2. Cardinality(B) \in Nat /\ Cardinality(B) < c
    <3> HIDE DEF B
    <3> QED BY <2>1, BelowFinite DEF c
  <2> QED BY <1>1, <2>2 DEF Rank
<1>7. ASSUME NEW i \in 1 .. c, NEW j \in 1 .. c, i < j PROVE A[i] < A[j]
  <2>1. A[i] \in K /\ A[j] \in K /\ Rank(K, A[i]) = i - 1 /\ Rank(K, A[j]) = j - 1
    BY <1>2
  <2>2. A[i] \in Nat /\ A[j] \in Nat
    BY <1>4, <2>1
  <2>3. CASE A[j] < A[i]
    <3>1. Rank(K, A[j]) < Rank(K, A[i])
      BY <1>5, <2>1, <2>3
    <3> QED BY <1>1, <1>7, <2>1, <3>1
  <2>4. CASE A[i] = A[j]
    BY <1>1, <1>7, <2>1, <2>4
  <2> QED BY <2>2, <2>3, <2>4
<1>8. ASSUME NEW k \in K PROVE \E i \in 1 .. c : A[i] = k
  <2> DEFINE i == Rank(K, k) + 1
  <2>1. i \in 1 .. c /\ i - 1 = Rank(K, k)
    BY <1>1, <1>6
  <2>2. A[i] \in K /\ Rank(K, A[i]) = Rank(K, k) /\ Rank(K, k) \in Nat
    BY <1>2, <1>6, <2>1
  <2>3. ~(A[i] < k) /\ ~(k < A[i])
    <3>1. ~(Rank(K, k) < Rank(K, k))
      BY <2>2
    <3> HIDE DEF i
    <3> QED BY <1>5, <2>2, <3>1
  <2>4. A[i] = k
    <3>1. A[i] \in Nat /\ k \in Nat
      BY <1>4, <2>2
    <3> QED BY <2>3, <3>1
  <2> QED BY <2>1, <2>4
<1> QED BY <1>1, <1>3, <1>7, <1>8 DEF A, c

(* r is what K picks of q, element by element.                              *)
PicksInOrder(r, q, K) ==
    \E at \in [1 .. Len(r) -> K] :
        /\ \A i \in 1 .. Len(r) : r[i] = q[at[i]]
        /\ \A i, j \in 1 .. Len(r) : i < j => at[i] < at[j]
        /\ \A k \in K : \E i \in 1 .. Len(r) : at[i] = k

(* What is picked from a sequence is a sequence of its elements, in their   *)
(* order, and each of them.                                                 *)
LEMMA PickedSeries ==
    ASSUME NEW S, NEW q \in Seq(S), NEW K \in SUBSET DOMAIN q
    PROVE  /\ Picked(q, K) \in Seq(S)
           /\ Len(Picked(q, K)) = Cardinality(K) /\ Cardinality(K) \in Nat
           /\ PicksInOrder(Picked(q, K), q, K)
<1> DEFINE c == Cardinality(K)
           at == Ascending(K)
           r == Picked(q, K)
<1>1. Len(q) \in Nat /\ K \in Places(Len(q)) /\ \A k \in K : q[k] \in S
  BY DEF Places
<1>2. /\ c \in Nat /\ at \in [1 .. c -> K]
      /\ \A i, j \in 1 .. c : i < j => at[i] < at[j]
      /\ \A k \in K : \E i \in 1 .. c : at[i] = k
  BY <1>1, AscendingLists, PlacesAreBelow
<1>3. r = [i \in 1 .. c |-> q[at[i]]]
  BY DEF Picked
<1> HIDE DEF c, at, r
<1>4. r \in Seq(S) /\ Len(r) = c
  BY <1>1, <1>2, <1>3
<1>5. PicksInOrder(r, q, K)
  BY <1>2, <1>3, <1>4 DEF PicksInOrder
<1> QED BY <1>2, <1>4, <1>5 DEF c, r

(* The same, with the places spelled out.                                   *)
LEMMA PickedElements ==
    ASSUME NEW S, NEW q \in Seq(S), NEW K \in SUBSET DOMAIN q
    PROVE  /\ Picked(q, K) \in Seq(S)
           /\ Len(Picked(q, K)) = Cardinality(K) /\ Cardinality(K) \in Nat
           /\ K # {} => Cardinality(K) > 0
           /\ \E at \in [1 .. Cardinality(K) -> K] :
                 /\ \A i \in 1 .. Cardinality(K) : Picked(q, K)[i] = q[at[i]]
                 /\ \A i, j \in 1 .. Cardinality(K) : i < j => at[i] < at[j]
                 /\ \A k \in K : \E i \in 1 .. Cardinality(K) : at[i] = k
<1> DEFINE c == Cardinality(K)
           r == Picked(q, K)
<1>1. r \in Seq(S) /\ Len(r) = c /\ c \in Nat /\ PicksInOrder(r, q, K)
  BY PickedSeries
<1> HIDE DEF c, r
<1>2. PICK at \in [1 .. c -> K] :
          /\ \A i \in 1 .. c : r[i] = q[at[i]]
          /\ \A i, j \in 1 .. c : i < j => at[i] < at[j]
          /\ \A k \in K : \E i \in 1 .. c : at[i] = k
  BY <1>1 DEF PicksInOrder
<1>3. K # {} => c > 0
  BY <1>1, <1>2
<1> QED BY <1>1, <1>2, <1>3 DEF c, r

(* A last place is listed last.                                             *)
LEMMA AscendingGrows ==
    ASSUME NEW n \in Nat, NEW J \in Places(n)
    PROVE  /\ J \union {n + 1} \in Places(n + 1)
           /\ Cardinality(J) \in Nat
           /\ Cardinality(J \union {n + 1}) = Cardinality(J) + 1
           /\ Ascending(J \union {n + 1})[Cardinality(J) + 1] = n + 1
           /\ \A i \in 1 .. Cardinality(J) :
                 Ascending(J \union {n + 1})[i] = Ascending(J)[i]
<1> DEFINE K == J \union {n + 1}
           c == Cardinality(J)
<1>1. \A j \in J : j \in 1 .. n
  BY DEF Places
<1>2. K \in Places(n + 1)
  BY <1>1 DEF Places
<1>3. c \in Nat /\ Cardinality(K) = c + 1
  <2>1. IsFiniteSet(J) /\ n + 1 \notin J /\ c \in Nat
    BY <1>1, BelowFinite, PlacesAreBelow
  <2> QED BY <2>1, FS_AddElement
<1>4. \A j \in J : {l \in K : l < j} = {l \in J : l < j}
  BY <1>1
<1>5. {l \in K : l < n + 1} = J
  BY <1>1
<1>6. (\A j \in J : Rank(K, j) = Rank(J, j)) /\ Rank(K, n + 1) = c
  BY <1>4, <1>5, Zenon DEF Rank
<1>7. \A k \in K : k \in Nat
  BY <1>1
<1>8. n + 1 \in K /\ J \subseteq K /\ n + 1 \in Nat
  OBVIOUS
<1> HIDE DEF K, c
<1>9. ASSUME NEW k \in K, NEW l \in K, Rank(K, k) = Rank(K, l) PROVE k = l
  <2>1. k \in K /\ Rank(K, k) \in Nat
    BY <1>2, <1>8, BelowFinite, PlacesAreBelow DEF Rank
  <2>2. k < l => Rank(K, k) < Rank(K, l)
    BY <1>2, <1>8, RankOrders, PlacesAreBelow
  <2>3. l < k => Rank(K, l) < Rank(K, k)
    BY <1>2, <1>8, RankOrders, PlacesAreBelow
  <2> QED BY <1>7, <1>9, <2>1, <2>2, <2>3
<1>10. \A i \in 1 .. c + 1 : Ascending(K)[i] \in K /\ Rank(K, Ascending(K)[i]) = i - 1
  BY <1>2, <1>3, <1>8, AscendingRanks, PlacesAreBelow
<1>11. \A i \in 1 .. c : Ascending(J)[i] \in J /\ Rank(J, Ascending(J)[i]) = i - 1
  BY AscendingRanks, PlacesAreBelow DEF c
<1>12. Ascending(K)[c + 1] = n + 1
  <2>1. c + 1 \in 1 .. c + 1 /\ (c + 1) - 1 = c
    BY <1>3
  <2> QED BY <1>6, <1>8, <1>9, <1>10, <2>1
<1>13. ASSUME NEW i \in 1 .. c PROVE Ascending(K)[i] = Ascending(J)[i]
  <2>1. i \in 1 .. c + 1
    BY <1>3
  <2>2. Ascending(J)[i] \in K /\ Rank(K, Ascending(J)[i]) = i - 1
    BY <1>6, <1>8, <1>11
  <2> QED BY <1>9, <1>10, <2>1, <2>2
<1> QED BY <1>2, <1>3, <1>12, <1>13 DEF K, c

-----------------------------------------------------------------------------
(* Sums of changed, joined and divided sequences: by induction over the     *)
(* beginnings of one of them. *)

Beginning(w, n) == [i \in 1 .. n |-> w[i]]

(* Integers sum to an integer, naturals to a natural.                       *)
LEMMA SumOfType ==
    /\ \A w \in Seq(Int) : SumOf(w) \in Int
    /\ \A w \in Seq(Nat) : SumOf(w) \in Nat
<1>1. ASSUME NEW w \in Seq(Int) PROVE SumOf(w) \in Int
  <2>1. PICK g \in [Places(Len(w)) -> Int] : SumOf(w) = g[1 .. Len(w)]
    BY SumIsTotal
  <2>2. 1 .. Len(w) \in Places(Len(w))
    BY PlacesGrow
  <2> QED BY <2>1, <2>2
<1>2. ASSUME NEW w \in Seq(Nat) PROVE SumOf(w) \in Nat
  <2>0. w \in Seq(Int) /\ Len(w) \in Nat
    OBVIOUS
  <2>1. PICK g \in [Places(Len(w)) -> Int] : Totals(g, w, Len(w)) /\ SumOf(w) = g[1 .. Len(w)]
    BY <2>0, SumIsTotal
  <2> DEFINE P(n) == n <= Len(w) => \A s \in Places(n) : g[s] >= 0
             T == {n \in Nat : P(n)}
  <2>2. \A n \in Nat : n <= Len(w) => Places(n) \subseteq Places(Len(w))
    BY <2>0 DEF Places
  <2>3. P(0)
    <3>1. {} \in Places(Len(w)) /\ Places(0) = {{}}
      BY <2>0, PlacesGrow
    <3>2. g[{}] = 0
      BY <2>1, <3>1 DEF Totals, TotalAt
    <3>3. \A s \in Places(0) : g[s] >= 0
      <4> SUFFICES ASSUME NEW s \in Places(0) PROVE g[s] >= 0
        OBVIOUS
      <4>1. s = {}
        BY <3>1
      <4> QED BY <3>2, <4>1
    <3> QED BY <3>3
  <2>4. ASSUME NEW n \in Nat, P(n) PROVE P(n + 1)
    <3> SUFFICES ASSUME n + 1 <= Len(w), NEW s \in Places(n + 1) PROVE g[s] >= 0
      OBVIOUS
    <3>1. s \in Places(Len(w)) /\ g[s] = TotalAt(g, w, s)
      BY <2>0, <2>1, <2>2 DEF Totals
    <3>2. CASE s = {}
      BY <3>1, <3>2 DEF TotalAt
    <3>3. CASE s # {}
      <4>1. s \ {Max(s)} \in Places(n)
        BY <3>3, PlacesGrow
      <4>2. s \ {Max(s)} \in Places(Len(w)) /\ g[s \ {Max(s)}] >= 0
        BY <2>0, <2>2, <2>4, <4>1
      <4>3. w[Max(s)] \in Nat
        <5>1. Max(s) \in s
          BY <3>1, <3>3, <2>0, GreatestElement
        <5>2. Max(s) \in 1 .. Len(w)
          BY <3>1, <5>1 DEF Places
        <5> QED BY <5>2
      <4>4. g[s] = g[s \ {Max(s)}] + w[Max(s)] /\ g[s \ {Max(s)}] \in Int
        BY <2>1, <3>1, <3>3, <4>2 DEF TotalAt
      <4> QED BY <4>2, <4>3, <4>4
    <3> QED BY <3>2, <3>3
  <2> HIDE DEF P
  <2>5. \A n \in Nat : n \in T
    <3>1. 0 \in T /\ \A n \in Nat : n \in T => n + 1 \in T
      BY <2>3, <2>4
    <3> HIDE DEF T
    <3> QED BY <3>1, SetInduction
  <2>6. \A s \in Places(Len(w)) : g[s] >= 0
    BY <2>0, <2>5 DEF P
  <2>7. 1 .. Len(w) \in Places(Len(w))
    BY <2>0, PlacesGrow
  <2> QED BY <2>1, <2>6, <2>7
<1> QED BY <1>1, <1>2

(* The beginnings of a sequence grow by an element at a time.               *)
LEMMA SumOfBeginning ==
    ASSUME NEW w \in Seq(Int)
    PROVE  /\ Beginning(w, 0) = <<>>
           /\ Beginning(w, Len(w)) = w
           /\ \A n \in Nat : n <= Len(w) =>
                 Beginning(w, n) \in Seq(Int) /\ SumOf(Beginning(w, n)) \in Int
           /\ \A n \in Nat : n + 1 <= Len(w) =>
                 /\ w[n + 1] \in Int
                 /\ Beginning(w, n + 1) = Append(Beginning(w, n), w[n + 1])
                 /\ SumOf(Beginning(w, n + 1)) = SumOf(Beginning(w, n)) + w[n + 1]
<1>1. Beginning(w, 0) = <<>> /\ Beginning(w, Len(w)) = w
  BY DEF Beginning
<1>2. ASSUME NEW n \in Nat, n <= Len(w)
      PROVE  Beginning(w, n) \in Seq(Int) /\ Len(Beginning(w, n)) = n
  BY <1>2 DEF Beginning
<1>3. ASSUME NEW n \in Nat, n + 1 <= Len(w)
      PROVE  /\ w[n + 1] \in Int
             /\ Beginning(w, n + 1) = Append(Beginning(w, n), w[n + 1])
  BY <1>3 DEF Beginning
<1>4. \A n \in Nat : n + 1 <= Len(w) => n <= Len(w)
  OBVIOUS
<1> QED BY <1>1, <1>2, <1>3, <1>4, SumOfType, SumOfAppend

(* Of two sequences in a row the sums are added.                            *)
LEMMA SumOfJoin ==
    ASSUME NEW v \in Seq(Int), NEW w \in Seq(Int)
    PROVE  SumOf(v \o w) = SumOf(v) + SumOf(w)
<1> DEFINE P(n) == n <= Len(w) =>
                       SumOf(v \o Beginning(w, n)) = SumOf(v) + SumOf(Beginning(w, n))
           T == {n \in Nat : P(n)}
<1>1. P(0)
  <2>1. v \o Beginning(w, 0) = v /\ SumOf(Beginning(w, 0)) = 0
    BY SumOfBeginning, SumOfEmpty
  <2>2. SumOf(v) \in Int
    BY SumOfType
  <2>3. SumOf(v \o Beginning(w, 0)) = SumOf(v) + SumOf(Beginning(w, 0))
    <3> DEFINE b == Beginning(w, 0)
    <3>1. v \o b = v /\ SumOf(b) = 0
      BY <2>1
    <3>2. SumOf(v \o b) = SumOf(v)
      BY <3>1, Zenon
    <3> HIDE DEF b
    <3>3. SumOf(v \o b) = SumOf(v) + SumOf(b)
      BY <2>2, <3>1, <3>2
    <3> QED BY <3>3 DEF b
  <2> QED BY <2>3
<1>2. ASSUME NEW n \in Nat, P(n) PROVE P(n + 1)
  <2> SUFFICES ASSUME n + 1 <= Len(w)
               PROVE  SumOf(v \o Beginning(w, n + 1)) = SumOf(v) + SumOf(Beginning(w, n + 1))
    OBVIOUS
  <2>0. n <= Len(w)
    OBVIOUS
  <2>1. Beginning(w, n) \in Seq(Int) /\ w[n + 1] \in Int
        /\ SumOf(Beginning(w, n + 1)) = SumOf(Beginning(w, n)) + w[n + 1]
        /\ Beginning(w, n + 1) = Append(Beginning(w, n), w[n + 1])
    BY <2>0, SumOfBeginning
  <2> DEFINE b == Beginning(w, n)
             x == w[n + 1]
  <2>2. SumOf(v \o b) = SumOf(v) + SumOf(b)
    BY <1>2, <2>0
  <2>3. b \in Seq(Int) /\ x \in Int
    BY <2>1
  <2>4. /\ SumOf(Beginning(w, n + 1)) = SumOf(b) + x
        /\ Beginning(w, n + 1) = Append(b, x)
    BY <2>1
  <2> HIDE DEF b, x
  <2>5. v \o Append(b, x) = Append(v \o b, x) /\ v \o b \in Seq(Int)
    BY <2>3
  <2>6. SumOf(Append(v \o b, x)) = SumOf(v \o b) + x
    BY <2>3, <2>5, SumOfAppend
  <2>7. SumOf(v) \in Int /\ SumOf(b) \in Int
    BY <2>3, SumOfType
  <2>8. SumOf(v \o Beginning(w, n + 1)) = SumOf(v) + SumOf(b) + x
    BY <2>2, <2>4, <2>5, <2>6
  <2> QED BY <2>3, <2>4, <2>7, <2>8
<1> HIDE DEF P
<1>3. \A n \in Nat : n \in T
  <2>1. 0 \in T /\ \A n \in Nat : n \in T => n + 1 \in T
    BY <1>1, <1>2
  <2> HIDE DEF T
  <2> QED BY <2>1, SetInduction
<1>4. Len(w) \in Nat /\ Beginning(w, Len(w)) = w
  BY SumOfBeginning
<1> QED BY <1>3, <1>4 DEF P

(* One element is its own sum.                                              *)
LEMMA SumOfOne ==
    ASSUME NEW x \in Int
    PROVE  SumOf(<<x>>) = x
<1>1. <<x>> = Append(<<>>, x) /\ <<>> \in Seq(Int)
  OBVIOUS
<1>2. SumOf(Append(<<>>, x)) = SumOf(<<>>) + x
  BY <1>1, SumOfAppend
<1> QED BY <1>1, <1>2, SumOfEmpty

(* The sum is the first element and the sum of the others.                  *)
LEMMA SumOfTail ==
    ASSUME NEW w \in Seq(Int), w # <<>>
    PROVE  SumOf(w) = Head(w) + SumOf(Tail(w)) /\ SumOf(Tail(w)) \in Int /\ Head(w) \in Int
<1>1. w = <<Head(w)>> \o Tail(w) /\ Head(w) \in Int /\ Tail(w) \in Seq(Int)
  OBVIOUS
<1>2. <<Head(w)>> \in Seq(Int)
  BY <1>1
<1>3. SumOf(<<Head(w)>>) = Head(w)
  BY <1>1, SumOfOne
<1>4. SumOf(<<Head(w)>> \o Tail(w)) = SumOf(<<Head(w)>>) + SumOf(Tail(w))
  BY <1>1, <1>2, SumOfJoin
<1> QED BY <1>1, <1>3, <1>4, SumOfType

(* An element between two sequences is added to both sums.                  *)
LEMMA SumOfMiddle ==
    ASSUME NEW a \in Seq(Int), NEW x \in Int, NEW b \in Seq(Int)
    PROVE  SumOf((a \o <<x>>) \o b) = SumOf(a) + x + SumOf(b)
<1>1. a \o <<x>> = Append(a, x) /\ Append(a, x) \in Seq(Int)
  OBVIOUS
<1>2. SumOf(Append(a, x)) = SumOf(a) + x
  BY SumOfAppend
<1>3. SumOf(Append(a, x) \o b) = SumOf(Append(a, x)) + SumOf(b)
  BY <1>1, SumOfJoin
<1> QED BY <1>1, <1>2, <1>3

(* An element put anywhere is added to the sum.                             *)
LEMMA SumOfInsert ==
    ASSUME NEW w \in Seq(Int), NEW k \in 1 .. Len(w) + 1, NEW x \in Int
    PROVE  SumOf(InsertAt(w, k, x)) = SumOf(w) + x
<1> DEFINE a == SubSeq(w, 1, k - 1)
           b == SubSeq(w, k, Len(w))
<1>1. a \in Seq(Int) /\ b \in Seq(Int) /\ a \o b = w
  <2>1. a \in Seq(Int) /\ b \in Seq(Int)
    OBVIOUS
  <2>2. k - 1 \in 0 .. Len(w) /\ (k - 1) + 1 = k /\ 1 \in 1 .. Len(w) + 1
        /\ 1 - 1 = 0 /\ Len(w) \in k - 1 .. Len(w)
    OBVIOUS
  <2>3. SubSeq(w, 1, k - 1) \o SubSeq(w, (k - 1) + 1, Len(w)) = SubSeq(w, 1, Len(w))
    BY <2>2, ConcatAdjacentSubSeq
  <2> QED BY <2>1, <2>2, <2>3, SubSeqFull
<1>2. InsertAt(w, k, x) = (a \o <<x>>) \o b
  BY DEF InsertAt
<1> HIDE DEF a, b
<1>3. SumOf(w) = SumOf(a) + SumOf(b) /\ SumOf(a) \in Int /\ SumOf(b) \in Int
  BY <1>1, SumOfJoin, SumOfType
<1>4. SumOf((a \o <<x>>) \o b) = SumOf(a) + x + SumOf(b)
  BY <1>1, SumOfMiddle
<1> QED BY <1>2, <1>3, <1>4

(* Where one element changes, the sum moves by as much.                     *)
LEMMA SumOfChange ==
    ASSUME NEW v \in Seq(Int), NEW w \in Seq(Int), Len(v) = Len(w), NEW i \in DOMAIN w,
           \A j \in DOMAIN w : j # i => v[j] = w[j]
    PROVE  SumOf(v) = SumOf(w) + (v[i] - w[i])
<1> DEFINE Change(n) == IF i <= n THEN v[i] - w[i] ELSE 0
           P(n) == n <= Len(w) => SumOf(Beginning(v, n)) = SumOf(Beginning(w, n)) + Change(n)
           T == {n \in Nat : P(n)}
<1>0. v[i] \in Int /\ w[i] \in Int /\ i \in 1 .. Len(w) /\ Len(w) \in Nat
  OBVIOUS
<1>1. P(0)
  <2>1. Beginning(v, 0) = <<>> /\ Beginning(w, 0) = <<>> /\ Change(0) = 0
    BY SumOfBeginning
  <2>2. SumOf(Beginning(v, 0)) = 0 /\ SumOf(Beginning(w, 0)) = 0
    BY <2>1, SumOfEmpty
  <2> QED BY <2>1, <2>2
<1>2. ASSUME NEW n \in Nat, P(n) PROVE P(n + 1)
  <2> SUFFICES ASSUME n + 1 <= Len(w)
               PROVE  SumOf(Beginning(v, n + 1)) = SumOf(Beginning(w, n + 1)) + Change(n + 1)
    OBVIOUS
  <2>1. n <= Len(w)
    OBVIOUS
  <2>2. /\ SumOf(Beginning(w, n + 1)) = SumOf(Beginning(w, n)) + w[n + 1]
        /\ SumOf(Beginning(w, n)) \in Int /\ w[n + 1] \in Int
    BY <2>1, SumOfBeginning
  <2>3. /\ SumOf(Beginning(v, n + 1)) = SumOf(Beginning(v, n)) + v[n + 1]
        /\ v[n + 1] \in Int
    BY SumOfBeginning
  <2>4. SumOf(Beginning(v, n)) = SumOf(Beginning(w, n)) + Change(n)
    BY <1>2, <2>1
  <2>5. CASE n + 1 = i
    BY <1>0, <2>2, <2>3, <2>4, <2>5
  <2>6. CASE n + 1 # i
    <3>0. n + 1 \in DOMAIN w /\ (i <= n + 1 <=> i <= n)
      BY <1>0, <2>6
    <3>1. v[n + 1] = w[n + 1] /\ Change(n + 1) = Change(n) /\ Change(n) \in Int
      BY <1>0, <2>6, <3>0, SMTT(60)
    <3> HIDE DEF Change
    <3> QED BY <2>2, <2>3, <2>4, <3>1
  <2> QED BY <2>5, <2>6
<1>3. \A n \in Nat : n \in T
  <2>1. 0 \in T /\ \A n \in Nat : n \in T => n + 1 \in T
    <3> HIDE DEF P
    <3> QED BY <1>1, <1>2
  <2> HIDE DEF T
  <2> QED BY <2>1, SetInduction
<1>4. P(Len(w))
  <2> HIDE DEF P
  <2> QED BY <1>0, <1>3
<1>5. SumOf(Beginning(v, Len(w))) = SumOf(Beginning(w, Len(w))) + Change(Len(w))
  BY <1>0, <1>4
<1>6. Beginning(v, Len(w)) = v /\ Beginning(w, Len(w)) = w /\ Change(Len(w)) = v[i] - w[i]
  BY <1>0, SumOfBeginning
<1> HIDE DEF Change
<1> QED BY <1>5, <1>6

(* No term of a sum of naturals is greater than the sum.                    *)
LEMMA SumOfAtLeast ==
    ASSUME NEW w \in Seq(Nat), NEW i \in DOMAIN w
    PROVE  w[i] <= SumOf(w)
<1> DEFINE v == [w EXCEPT ![i] = 0]
<1>1. /\ v \in Seq(Nat) /\ Len(v) = Len(w) /\ v[i] = 0 /\ w[i] \in Nat
      /\ \A j \in DOMAIN w : j # i => v[j] = w[j]
  OBVIOUS
<1>2. v \in Seq(Int) /\ w \in Seq(Int)
  BY <1>1
<1> HIDE DEF v
<1>3. SumOf(v) = SumOf(w) + (v[i] - w[i])
  BY <1>1, <1>2, SumOfChange
<1>4. SumOf(v) \in Nat /\ SumOf(w) \in Int
  BY <1>1, <1>2, SumOfType
<1> QED BY <1>1, <1>3, <1>4

(* What is picked and what is left out add up to the whole.                 *)
LEMMA PickedGrows ==
    ASSUME NEW w, NEW n \in Nat, NEW J \in Places(n)
    PROVE  Picked(w, J \union {n + 1}) = Append(Picked(w, J), w[n + 1])
<1> DEFINE c == Cardinality(J)
           K == J \union {n + 1}
<1>1. /\ c \in Nat /\ Cardinality(K) = c + 1
      /\ Ascending(K)[c + 1] = n + 1
      /\ \A i \in 1 .. c : Ascending(K)[i] = Ascending(J)[i]
  BY AscendingGrows
<1> HIDE DEF c, K
<1>2. Picked(w, K) = [i \in 1 .. c + 1 |-> w[Ascending(K)[i]]]
  BY <1>1 DEF Picked
<1>3. Picked(w, J) = [i \in 1 .. c |-> w[Ascending(J)[i]]]
  BY DEF Picked, c
<1>4. \A i \in 1 .. c : Picked(w, K)[i] = Picked(w, J)[i]
  BY <1>1, <1>2, <1>3
<1>5. Picked(w, K)[c + 1] = w[n + 1]
  BY <1>1, <1>2
<1>6. Append(Picked(w, J), w[n + 1])
          = [i \in 1 .. c + 1 |-> IF i = c + 1 THEN w[n + 1] ELSE Picked(w, J)[i]]
  <2> DEFINE q == Picked(w, J)
  <2>1. Len(q) = c
    BY <1>1, <1>3
  <2>2. q = [i \in 1 .. c |-> q[i]]
    BY <1>3
  <2> HIDE DEF q
  <2> DEFINE x == w[n + 1]
  <2> HIDE DEF x
  <2>3. Append(q, x) = [i \in 1 .. c + 1 |-> IF i = c + 1 THEN x ELSE q[i]]
    BY <1>1, <2>1, <2>2
  <2> QED BY <2>3 DEF q, x
<1>7. Picked(w, K) = [i \in 1 .. c + 1 |-> Picked(w, K)[i]]
  BY <1>2
<1>8. \A i \in 1 .. c + 1 : i # c + 1 => i \in 1 .. c
  BY <1>1
<1> HIDE DEF K
<1>9. \A i \in 1 .. c + 1 :
          Picked(w, K)[i] = IF i = c + 1 THEN w[n + 1] ELSE Picked(w, J)[i]
  BY <1>4, <1>5, <1>8
<1>10. Picked(w, K) = Append(Picked(w, J), w[n + 1])
  BY <1>6, <1>7, <1>9
<1> QED BY <1>10 DEF K

(* The sum of the elements picked and that of the others make up the whole. *)
LEMMA SumOfSplit ==
    ASSUME NEW w \in Seq(Int), NEW K \in SUBSET DOMAIN w
    PROVE  SumOf(w) = SumOf(Picked(w, K)) + SumOf(Picked(w, DOMAIN w \ K))
<1> DEFINE In(n) == K \intersect (1 .. n)
           Out(n) == (1 .. n) \ K
           P(n) == n <= Len(w) => SumOf(Beginning(w, n))
                                      = SumOf(Picked(w, In(n))) + SumOf(Picked(w, Out(n)))
           T == {n \in Nat : P(n)}
<1>1. P(0)
  <2>1. In(0) = {} /\ Out(0) = {}
    OBVIOUS
  <2>2. Picked(w, {}) = <<>>
    BY FS_EmptySet DEF Picked
  <2>3. Beginning(w, 0) = <<>> /\ SumOf(<<>>) = 0
    BY SumOfBeginning, SumOfEmpty
  <2>4. SumOf(Beginning(w, 0)) = SumOf(Picked(w, In(0))) + SumOf(Picked(w, Out(0)))
    <3>1. SumOf(Picked(w, In(0))) = 0 /\ SumOf(Picked(w, Out(0))) = 0
          /\ SumOf(Beginning(w, 0)) = 0
      BY <2>1, <2>2, <2>3, Zenon
    <3> QED BY <3>1
  <2> QED BY <2>4
<1>2. ASSUME NEW n \in Nat, P(n) PROVE P(n + 1)
  <2> SUFFICES ASSUME n + 1 <= Len(w)
               PROVE  SumOf(Beginning(w, n + 1))
                          = SumOf(Picked(w, In(n + 1))) + SumOf(Picked(w, Out(n + 1)))
    OBVIOUS
  <2>1. n <= Len(w) /\ w[n + 1] \in Int
    OBVIOUS
  <2>2. SumOf(Beginning(w, n)) = SumOf(Picked(w, In(n))) + SumOf(Picked(w, Out(n)))
    BY <1>2, <2>1
  <2>3. SumOf(Beginning(w, n + 1)) = SumOf(Beginning(w, n)) + w[n + 1]
    BY SumOfBeginning
  <2>4. ASSUME NEW J \in Places(n)
        PROVE  /\ SumOf(Picked(w, J)) \in Int
               /\ SumOf(Picked(w, J \union {n + 1})) = SumOf(Picked(w, J)) + w[n + 1]
    <3>1. J \in SUBSET DOMAIN w
      BY <2>1 DEF Places
    <3>2. Picked(w, J) \in Seq(Int)
      BY <3>1, PickedElements
    <3>3. Picked(w, J \union {n + 1}) = Append(Picked(w, J), w[n + 1])
      BY PickedGrows
    <3> QED BY <2>1, <3>2, <3>3, SumOfAppend, SumOfType
  <2>5. In(n) \in Places(n) /\ Out(n) \in Places(n)
    BY DEF Places
  <2>6. 1 .. n + 1 = (1 .. n) \union {n + 1}
    OBVIOUS
  <2>7. CASE n + 1 \in K
    <3>1. In(n + 1) = In(n) \union {n + 1} /\ Out(n + 1) = Out(n)
      BY <2>6, <2>7
    <3> HIDE DEF In, Out
    <3>2. SumOf(Picked(w, In(n + 1))) = SumOf(Picked(w, In(n))) + w[n + 1]
      BY <2>4, <2>5, <3>1
    <3>3. SumOf(Picked(w, In(n))) \in Int /\ SumOf(Picked(w, Out(n))) \in Int
      BY <2>4, <2>5
    <3>4. SumOf(Picked(w, Out(n + 1))) = SumOf(Picked(w, Out(n)))
      BY <3>1
    <3> QED BY <2>1, <2>2, <2>3, <3>2, <3>3, <3>4
  <2>8. CASE n + 1 \notin K
    <3>1. Out(n + 1) = Out(n) \union {n + 1} /\ In(n + 1) = In(n)
      BY <2>6, <2>8
    <3> HIDE DEF In, Out
    <3>2. SumOf(Picked(w, Out(n + 1))) = SumOf(Picked(w, Out(n))) + w[n + 1]
      BY <2>4, <2>5, <3>1
    <3>3. SumOf(Picked(w, In(n))) \in Int /\ SumOf(Picked(w, Out(n))) \in Int
      BY <2>4, <2>5
    <3>4. SumOf(Picked(w, In(n + 1))) = SumOf(Picked(w, In(n)))
      BY <3>1
    <3> QED BY <2>1, <2>2, <2>3, <3>2, <3>3, <3>4
  <2> QED BY <2>7, <2>8
<1>3. \A n \in Nat : n \in T
  <2>1. 0 \in T /\ \A n \in Nat : n \in T => n + 1 \in T
    <3> HIDE DEF P
    <3> QED BY <1>1, <1>2
  <2> HIDE DEF T
  <2> QED BY <2>1, SetInduction
<1>4. Len(w) \in Nat /\ Beginning(w, Len(w)) = w
  BY SumOfBeginning
<1>5. In(Len(w)) = K /\ Out(Len(w)) = DOMAIN w \ K
  OBVIOUS
<1>6. P(Len(w))
  <2> HIDE DEF P
  <2> QED BY <1>3, <1>4
<1>7. SumOf(Beginning(w, Len(w)))
          = SumOf(Picked(w, In(Len(w)))) + SumOf(Picked(w, Out(Len(w))))
  BY <1>4, <1>6
<1> HIDE DEF In, Out
<1> QED BY <1>4, <1>5, <1>7

-----------------------------------------------------------------------------
(* Least and greatest members *)

(* A set of naturals that is not empty has a Min, and one with a bound has  *)
(* a Max.                                                                   *)
LEMMA LeastMember ==
    ASSUME NEW S \in SUBSET Nat, S # {}
    PROVE  Min(S) \in S /\ \A y \in S : Min(S) <= y
<1>1. PICK x \in S : \A y \in S : x <= y
  BY LeastElement
<1> QED BY <1>1 DEF Min

(* A set of naturals that is bounded and not empty has a Max.               *)
LEMMA GreatestMember ==
    ASSUME NEW n \in Nat, NEW S \in Below(n), S # {}
    PROVE  Max(S) \in S /\ \A y \in S : Max(S) >= y
<1> DEFINE T == {n - y : y \in S}
<1>1. \A y \in S : y \in Nat /\ n - y \in Nat
  BY DEF Below
<1>2. T \in SUBSET Nat /\ T # {}
  BY <1>1
<1>3. PICK x \in T : \A y \in T : x <= y
  <2> HIDE DEF T
  <2> QED BY <1>2, LeastElement
<1>4. PICK m \in S : x = n - m
  BY <1>3
<1>5. \A y \in S : n - y \in T
  OBVIOUS
<1>6. ASSUME NEW y \in S PROVE m >= y
  <2>1. n - m <= n - y
    <3> HIDE DEF T
    <3> QED BY <1>3, <1>4, <1>5
  <2> QED BY <1>1, <2>1
<1> QED BY <1>4, <1>6 DEF Max

(* A finite set of integers, not empty, has a Min.                          *)
LEMMA LeastInteger ==
    ASSUME NEW S \in SUBSET Int, IsFiniteSet(S), S # {}
    PROVE  Min(S) \in S /\ \A y \in S : Min(S) <= y
<1> DEFINE c == Cardinality(S)
<1>1. c \in Nat /\ ExistsBijection(1 .. c, S) /\ c # 0
  BY FS_CardinalityType, FS_EmptySet
<1>2. PICK f \in [1 .. c -> S] : \A y \in S : \E i \in 1 .. c : f[i] = y
  BY <1>1 DEF ExistsBijection, Bijection, Surjection
<1> HIDE DEF c
<1> DEFINE P(n) == n + 1 <= c => \E i \in 1 .. n + 1 : \A j \in 1 .. n + 1 : f[i] <= f[j]
           T == {n \in Nat : P(n)}
<1>3. P(0)
  <2>1. 1 .. 0 + 1 = {1}
    OBVIOUS
  <2>2. ASSUME 1 <= c PROVE f[1] <= f[1]
    <3>1. 1 \in 1 .. c
      BY <1>1, <2>2
    <3>2. f[1] \in Int
      BY <3>1
    <3> QED BY <3>2
  <2> QED BY <2>1, <2>2
<1>4. ASSUME NEW n \in Nat, P(n) PROVE P(n + 1)
  <2> SUFFICES ASSUME n + 1 + 1 <= c
               PROVE  \E i \in 1 .. n + 1 + 1 : \A j \in 1 .. n + 1 + 1 : f[i] <= f[j]
    OBVIOUS
  <2>1. PICK i \in 1 .. n + 1 : \A j \in 1 .. n + 1 : f[i] <= f[j]
    BY <1>1, <1>4
  <2> DEFINE m == n + 1 + 1
  <2>2. /\ \A j \in 1 .. m : j \in 1 .. c /\ (j = m \/ j \in 1 .. n + 1)
        /\ m \in 1 .. m /\ i \in 1 .. m
    BY <1>1
  <2>3. \A j \in 1 .. m : f[j] \in Int
    BY <2>2
  <2> HIDE DEF m
  <2>4. CASE f[i] <= f[m]
    <3>1. \A j \in 1 .. m : f[i] <= f[j]
      BY <2>1, <2>2, <2>4
    <3> QED BY <2>2, <3>1 DEF m
  <2>5. CASE ~(f[i] <= f[m])
    <3>1. \A j \in 1 .. m : f[m] <= f[j]
      BY <2>1, <2>2, <2>3, <2>5
    <3> QED BY <2>2, <3>1 DEF m
  <2> QED BY <2>4, <2>5
<1> HIDE DEF P
<1>5. \A n \in Nat : n \in T
  <2>1. 0 \in T /\ \A n \in Nat : n \in T => n + 1 \in T
    BY <1>3, <1>4
  <2> HIDE DEF T
  <2> QED BY <2>1, SetInduction
<1>6. PICK i \in 1 .. c : \A j \in 1 .. c : f[i] <= f[j]
  <2>1. c - 1 \in Nat /\ (c - 1) + 1 = c
    BY <1>1
  <2>2. P(c - 1)
    BY <1>5, <2>1
  <2> QED BY <1>1, <2>1, <2>2 DEF P
<1>7. f[i] \in S /\ \A y \in S : f[i] <= y
  BY <1>2, <1>6
<1> QED BY <1>7 DEF Min

(* The set of what a function yields on a finite set is finite.             *)
LEMMA FiniteImage ==
    ASSUME NEW f, IsFiniteSet(DOMAIN f)
    PROVE  IsFiniteSet({f[d] : d \in DOMAIN f})
<1> DEFINE T == {f[d] : d \in DOMAIN f}
           g == [d \in DOMAIN f |-> f[d]]
<1>1. g \in Surjection(DOMAIN f, T)
  BY DEF Surjection
<1> HIDE DEF T, g
<1> QED BY <1>1, FS_Surjection DEF T

-----------------------------------------------------------------------------
(* Totals of functions *)

(* The function that MapThenSumSet picks to add up f, on the sets of at most *)
(* n arguments.                                                             *)
Few(S, n) == {s \in SUBSET S : Cardinality(s) <= n}
Chosen(s) == CHOOSE x \in s : TRUE
PartAt(g, f, s) == IF s = {} THEN 0 ELSE f[Chosen(s)] + g[s \ {Chosen(s)}]
AddsUp(g, f, n) == g = [s \in Few(DOMAIN f, n) |-> PartAt(g, f, s)]

(* The parts of a finite set by their number: taking a member off leads to  *)
(* the next smaller ones, and all parts have as few as the set.             *)
LEMMA FewGrow ==
    ASSUME NEW S, IsFiniteSet(S), NEW n \in Nat
    PROVE  /\ Few(S, 0) = {{}} /\ {} \in Few(S, n)
           /\ Few(S, n) \subseteq Few(S, n + 1)
           /\ \A s \in Few(S, n + 1) : \A x \in s : s \ {x} \in Few(S, n)
           /\ \A s \in Few(S, n) : \A x : s \ {x} \in Few(S, n)
           /\ Few(S, Cardinality(S)) = SUBSET S /\ Cardinality(S) \in Nat
           /\ \A s \in Few(S, n) : s # {} => Chosen(s) \in s
<1>1. \A s \in SUBSET S : IsFiniteSet(s) /\ Cardinality(s) \in Nat /\ Cardinality(s) <= Cardinality(S)
  BY FS_Subset, FS_CardinalityType
<1>2. Cardinality({}) = 0
  BY FS_EmptySet
<1>3. ASSUME NEW s \in SUBSET S, Cardinality(s) = 0 PROVE s = {}
  BY <1>1, <1>3, FS_EmptySet
<1>4. ASSUME NEW s \in SUBSET S, NEW x \in s
      PROVE  s \ {x} \in SUBSET S /\ Cardinality(s \ {x}) = Cardinality(s) - 1
  BY <1>1, FS_RemoveElement
<1>5. Few(S, 0) = {{}}
  <2>1. ASSUME NEW s \in Few(S, 0) PROVE s = {}
    <3>1. s \in SUBSET S /\ Cardinality(s) <= 0 /\ Cardinality(s) \in Nat
      BY <1>1 DEF Few
    <3>2. Cardinality(s) = 0
      BY <3>1
    <3> QED BY <1>3, <3>1, <3>2
  <2>2. {} \in Few(S, 0)
    BY <1>2 DEF Few
  <2> QED BY <2>1, <2>2
<1>6. {} \in Few(S, n) /\ Few(S, n) \subseteq Few(S, n + 1)
  BY <1>1, <1>2 DEF Few
<1>7. ASSUME NEW s \in Few(S, n + 1), NEW x \in s PROVE s \ {x} \in Few(S, n)
  BY <1>1, <1>4 DEF Few
<1>8. ASSUME NEW s \in Few(S, n), NEW x PROVE s \ {x} \in Few(S, n)
  <2>1. CASE x \in s
    BY <1>1, <1>4, <2>1 DEF Few
  <2>2. CASE x \notin s
    <3>1. s \ {x} = s
      BY <2>2
    <3> QED BY <3>1
  <2> QED BY <2>1, <2>2
<1>9. Few(S, Cardinality(S)) = SUBSET S /\ Cardinality(S) \in Nat
  BY <1>1 DEF Few
<1>10. \A s \in Few(S, n) : s # {} => Chosen(s) \in s
  BY DEF Chosen
<1> QED BY <1>5, <1>6, <1>7, <1>8, <1>9, <1>10

(* There is a function that adds up the values over every small part of a   *)
(* finite domain: the one that the fold chooses.                            *)
LEMMA AddingUpExists ==
    ASSUME NEW f, IsFiniteSet(DOMAIN f)
    PROVE  \A n \in Nat : \E g : AddsUp(g, f, n)
<1> DEFINE S == DOMAIN f
           P(n) == \E g : AddsUp(g, f, n)
           T == {n \in Nat : P(n)}
<1>1. P(0)
  <2> DEFINE g == [s \in Few(S, 0) |-> 0]
  <2>1. AddsUp(g, f, 0)
    BY FewGrow DEF AddsUp, PartAt
  <2> QED BY <2>1
<1>2. ASSUME NEW n \in Nat, P(n) PROVE P(n + 1)
  <2>1. PICK g : AddsUp(g, f, n)
    BY <1>2
  <2> DEFINE h == [s \in Few(S, n + 1) |->
                      IF s \in Few(S, n) THEN g[s] ELSE f[Chosen(s)] + g[s \ {Chosen(s)}]]
  <2>2. /\ {} \in Few(S, n) /\ Few(S, n) \subseteq Few(S, n + 1)
        /\ \A s \in Few(S, n + 1) : \A x \in s : s \ {x} \in Few(S, n)
        /\ \A s \in Few(S, n) : \A x : s \ {x} \in Few(S, n)
    BY FewGrow
  <2>3. \A s \in Few(S, n + 1) : s # {} => Chosen(s) \in s
    BY DEF Chosen
  <2>4. ASSUME NEW s \in Few(S, n + 1) PROVE h[s] = PartAt(h, f, s)
    <3>1. CASE s = {}
      <4>1. h[s] = g[s] /\ g[s] = PartAt(g, f, s)
        BY <2>1, <2>2, <3>1 DEF AddsUp
      <4> QED BY <3>1, <4>1 DEF PartAt
    <3>2. CASE s # {}
      <4>1. s \ {Chosen(s)} \in Few(S, n) /\ s \ {Chosen(s)} \in Few(S, n + 1)
        BY <2>2, <2>3, <3>2
      <4>2. h[s \ {Chosen(s)}] = g[s \ {Chosen(s)}]
        BY <4>1
      <4>3. CASE s \in Few(S, n)
        <5>1. h[s] = g[s] /\ g[s] = PartAt(g, f, s)
          BY <2>1, <4>3 DEF AddsUp
        <5> QED BY <3>2, <4>2, <5>1 DEF PartAt
      <4>4. CASE s \notin Few(S, n)
        <5>1. h[s] = f[Chosen(s)] + g[s \ {Chosen(s)}]
          BY <4>4
        <5> QED BY <3>2, <4>2, <5>1 DEF PartAt
      <4> QED BY <4>3, <4>4
    <3> QED BY <3>1, <3>2
  <2>5. AddsUp(h, f, n + 1)
    <3>1. h = [s \in Few(S, n + 1) |-> h[s]]
      OBVIOUS
    <3> HIDE DEF h
    <3>2. h = [s \in Few(S, n + 1) |-> PartAt(h, f, s)]
      BY <2>4, <3>1
    <3> QED BY <3>2 DEF AddsUp
  <2> HIDE DEF h
  <2> QED BY <2>5
<1> HIDE DEF P
<1>3. \A n \in Nat : n \in T
  <2>1. 0 \in T /\ \A n \in Nat : n \in T => n + 1 \in T
    BY <1>1, <1>2
  <2> HIDE DEF T
  <2> QED BY <2>1, SetInduction
<1> QED BY <1>3 DEF P

(* It yields integers, adds an argument the same way wherever it comes in   *)
(* the order, and depends on nothing but the values.                        *)
LEMMA AddingUp ==
    ASSUME NEW S, IsFiniteSet(S), NEW f \in [S -> Int], NEW g, NEW m \in Nat, AddsUp(g, f, m)
    PROVE  \A n \in Nat : n <= m =>
               \A s \in Few(S, n) :
                   /\ g[s] \in Int
                   /\ (\A x \in s : f[x] \in Nat) => g[s] \in Nat
                   /\ (\A x \in s : f[x] = 0) => g[s] = 0
                   /\ \A x \in s : g[s] = f[x] + g[s \ {x}]
<1> DEFINE Good(s) == /\ g[s] \in Int
                      /\ (\A x \in s : f[x] \in Nat) => g[s] \in Nat
                      /\ (\A x \in s : f[x] = 0) => g[s] = 0
                      /\ \A x \in s : g[s] = f[x] + g[s \ {x}]
           P(n) == n <= m => \A s \in Few(S, n) : Good(s)
           T == {n \in Nat : P(n)}
<1>0. \A n \in Nat : n <= m => \A s \in Few(S, n) : g[s] = PartAt(g, f, s)
  <2> SUFFICES ASSUME NEW n \in Nat, n <= m, NEW s \in Few(S, n) PROVE g[s] = PartAt(g, f, s)
    OBVIOUS
  <2>1. IsFiniteSet(s) /\ Cardinality(s) \in Nat /\ s \in SUBSET S
    BY FS_Subset, FS_CardinalityType DEF Few
  <2>2. s \in Few(S, m)
    BY <2>1 DEF Few
  <2> QED BY <2>2 DEF AddsUp
<1>1. P(0)
  <2> SUFFICES ASSUME NEW s \in Few(S, 0) PROVE Good(s)
    OBVIOUS
  <2>1. s = {}
    BY FewGrow
  <2>2. g[s] = 0
    BY <1>0, <2>1 DEF PartAt
  <2> QED BY <2>1, <2>2
<1>2. ASSUME NEW n \in Nat, P(n) PROVE P(n + 1)
  <2> SUFFICES ASSUME n + 1 <= m, NEW s \in Few(S, n + 1) PROVE Good(s)
    OBVIOUS
  <2>1. \A r \in Few(S, n) : Good(r)
    BY <1>2
  <2>2. /\ \A x \in s : s \ {x} \in Few(S, n) /\ x \in S
        /\ \A r \in Few(S, n) : \A x : r \ {x} \in Few(S, n)
        /\ Few(S, n) \subseteq Few(S, n + 1) /\ {} \in Few(S, n)
    BY FewGrow DEF Few
  <2>3. g[s] = PartAt(g, f, s)
    BY <1>0
  <2>4. CASE s = {}
    BY <2>1, <2>2, <2>4
  <2>5. CASE s # {}
    <3> DEFINE c == Chosen(s)
    <3>1. c \in s
      BY <2>5 DEF Chosen
    <3> HIDE DEF c
    <3>2. g[s] = f[c] + g[s \ {c}]
      BY <2>3, <2>5 DEF PartAt, c
    <3>3. s \ {c} \in Few(S, n) /\ Good(s \ {c}) /\ f[c] \in Int
      BY <2>1, <2>2, <3>1
    <3>4. g[s] \in Int
      BY <3>2, <3>3
    <3>5. ASSUME \A x \in s : f[x] \in Nat PROVE g[s] \in Nat
      BY <3>1, <3>2, <3>3, <3>5
    <3>6. ASSUME \A x \in s : f[x] = 0 PROVE g[s] = 0
      BY <3>1, <3>2, <3>3, <3>6
    <3>7. ASSUME NEW x \in s PROVE g[s] = f[x] + g[s \ {x}]
      <4>1. CASE x = c
        BY <3>2, <4>1
      <4>2. CASE x # c
        <5> DEFINE r == (s \ {c}) \ {x}
        <5>1. r = (s \ {x}) \ {c} /\ x \in s \ {c} /\ c \in s \ {x}
          BY <3>1, <4>2
        <5>2. s \ {x} \in Few(S, n) /\ Good(s \ {x}) /\ f[x] \in Int
          BY <2>1, <2>2
        <5>3. g[s \ {c}] = f[x] + g[r]
          BY <3>3, <5>1
        <5>4. g[s \ {x}] = f[c] + g[r]
          BY <5>1, <5>2
        <5>5. g[r] \in Int
          <6>1. r \in Few(S, n)
            BY <2>2, <3>3
          <6> HIDE DEF r
          <6> QED BY <2>1, <6>1
        <5> HIDE DEF r
        <5> QED BY <3>2, <3>3, <5>2, <5>3, <5>4, <5>5
      <4> QED BY <4>1, <4>2
    <3> QED BY <3>4, <3>5, <3>6, <3>7
  <2> QED BY <2>4, <2>5
<1> HIDE DEF P
<1>3. \A n \in Nat : n \in T
  <2>1. 0 \in T /\ \A n \in Nat : n \in T => n + 1 \in T
    BY <1>1, <1>2
  <2> HIDE DEF T
  <2> QED BY <2>1, SetInduction
<1> QED BY <1>3 DEF P

(* Two such functions agree where the values do.                            *)
LEMMA AddingUpAgrees ==
    ASSUME NEW S, IsFiniteSet(S), NEW f \in [S -> Int], NEW h \in [S -> Int],
           NEW g, NEW k, NEW m \in Nat, AddsUp(g, f, m), AddsUp(k, h, m)
    PROVE  \A n \in Nat : n <= m =>
               \A s \in Few(S, n) : (\A x \in s : f[x] = h[x]) => g[s] = k[s]
<1> DEFINE P(n) == n <= m =>
                       \A s \in Few(S, n) : (\A x \in s : f[x] = h[x]) => g[s] = k[s]
           T == {n \in Nat : P(n)}
<1>1. P(0)
  <2>1. 0 <= m /\ Few(S, 0) = {{}} /\ {} \in Few(S, 0)
    BY FewGrow
  <2>2. \A x \in {} : f[x] = 0 /\ h[x] = 0
    OBVIOUS
  <2>3. g[{}] = 0
    BY <2>1, <2>2, AddingUp
  <2>4. k[{}] = 0
    BY <2>1, <2>2, AddingUp
  <2> QED BY <2>1, <2>3, <2>4
<1>2. ASSUME NEW n \in Nat, P(n) PROVE P(n + 1)
  <2> SUFFICES ASSUME n + 1 <= m, NEW s \in Few(S, n + 1), \A x \in s : f[x] = h[x]
               PROVE  g[s] = k[s]
    OBVIOUS
  <2>1. n + 1 \in Nat /\ {} \in Few(S, n)
    BY FewGrow
  <2>2. CASE s = {}
    BY <1>2, <2>1, <2>2
  <2>3. CASE s # {}
    <3>1. PICK x \in s : TRUE
      BY <2>3
    <3>2. s \ {x} \in Few(S, n)
      BY FewGrow
    <3>3. g[s \ {x}] = k[s \ {x}]
      BY <1>2, <3>2
    <3>4. g[s] = f[x] + g[s \ {x}]
      BY <2>1, AddingUp
    <3>5. k[s] = h[x] + k[s \ {x}]
      BY <2>1, AddingUp
    <3> QED BY <3>3, <3>4, <3>5
  <2> QED BY <2>2, <2>3
<1> HIDE DEF P
<1>3. \A n \in Nat : n \in T
  <2>1. 0 \in T /\ \A n \in Nat : n \in T => n + 1 \in T
    BY <1>1, <1>2
  <2> HIDE DEF T
  <2> QED BY <2>1, SetInduction
<1> QED BY <1>3 DEF P

(* TotalOf is the value on the whole domain of such a function.             *)
LEMMA TotalAddsUp ==
    ASSUME NEW f, IsFiniteSet(DOMAIN f)
    PROVE  \E g : AddsUp(g, f, Cardinality(DOMAIN f)) /\ TotalOf(f) = g[DOMAIN f]
<1> DEFINE n == Cardinality(DOMAIN f)
           chosen == CHOOSE g : AddsUp(g, f, n)
<1>1. n \in Nat /\ Few(DOMAIN f, n) = SUBSET DOMAIN f
  BY FewGrow
<1>2. AddsUp(chosen, f, n)
  BY <1>1, AddingUpExists
<1>3. TotalOf(f) = chosen[DOMAIN f]
  BY <1>1, Zenon DEF TotalOf, MapThenSumSet, MapThenFoldSet, AddsUp, PartAt, Chosen
<1> HIDE DEF chosen
<1> QED BY <1>2, <1>3

(* What a total is, and how it moves with one value.                        *)
LEMMA TotalOfType ==
    ASSUME NEW S, IsFiniteSet(S), NEW f \in [S -> Int]
    PROVE  /\ TotalOf(f) \in Int
           /\ (\A x \in S : f[x] \in Nat) => TotalOf(f) \in Nat
           /\ (\A x \in S : f[x] = 0) => TotalOf(f) = 0
<1> DEFINE n == Cardinality(S)
<1>1. PICK g : AddsUp(g, f, n) /\ TotalOf(f) = g[S]
  BY TotalAddsUp
<1>2. n \in Nat /\ S \in Few(S, n) /\ n <= n
  BY FewGrow
<1> HIDE DEF n
<1> QED BY <1>1, <1>2, AddingUp

(* A total in which one value changes moves by as much.                     *)
LEMMA TotalOfChange ==
    ASSUME NEW S, IsFiniteSet(S), NEW f \in [S -> Int], NEW h \in [S -> Int], NEW x \in S,
           \A y \in S : y # x => h[y] = f[y]
    PROVE  TotalOf(h) = TotalOf(f) + (h[x] - f[x])
<1> DEFINE n == Cardinality(S)
<1>1. PICK g : AddsUp(g, f, n) /\ TotalOf(f) = g[S]
  BY TotalAddsUp
<1>2. PICK k : AddsUp(k, h, n) /\ TotalOf(h) = k[S]
  BY TotalAddsUp
<1>3. n \in Nat /\ S \in Few(S, n) /\ S \ {x} \in Few(S, n) /\ n <= n
  BY FewGrow
<1> HIDE DEF n
<1>4. g[S] = f[x] + g[S \ {x}] /\ g[S \ {x}] \in Int
  <2>1. \A s \in Few(S, n) : g[s] \in Int /\ \A y \in s : g[s] = f[y] + g[s \ {y}]
    BY <1>1, <1>3, AddingUp, SMTT(60)
  <2> QED BY <1>3, <2>1
<1>5. k[S] = h[x] + k[S \ {x}]
  BY <1>2, <1>3, AddingUp
<1>6. g[S \ {x}] = k[S \ {x}]
  BY <1>1, <1>2, <1>3, AddingUpAgrees
<1>7. f[x] \in Int /\ h[x] \in Int
  OBVIOUS
<1> QED BY <1>1, <1>2, <1>4, <1>5, <1>6, <1>7
=============================================================================
