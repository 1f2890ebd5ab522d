------------------------- MODULE IntervalCacheProofs -------------------------
(***************************************************************************)
(* The cache of IntervalCache serves nothing older than the running        *)
(* minute, one query for all durations answers each as one of its own      *)
(* would, and a served price reflects what its manager stored, but for the *)
(* two exceptions that are stated: for any durations, any grain of time    *)
(* and any writers.                                                        *)
(***************************************************************************)
EXTENDS IntervalCache, SeriesProofs

(* A later instant is in the same minute or in a later one.                 *)
LEMMA MinutesPass ==
    ASSUME NEW a \in Nat, NEW b \in Nat, a <= b
    PROVE  /\ MinuteOf(a) \in Nat /\ MinuteOf(b) \in Nat
           /\ MinuteOf(a) <= MinuteOf(b)
BY GrainAssumption, Z3 DEF MinuteOf

(* Every entry was read in the minute of its key or later, and the minute   *)
(* of the keys is not ahead of the clock.                                   *)
ReadSince ==
    /\ now \in Nat
    /\ cacheMinute \in Int /\ cacheMinute <= MinuteOf(now)
    /\ DOMAIN origin = DOMAIN cache
    /\ \A d \in DOMAIN origin :
           /\ origin[d].at \in Nat /\ origin[d].at <= now
           /\ cacheMinute <= MinuteOf(origin[d].at)

(* A call that missed stamps its answers with the instant it ends at, which *)
(* is not before the minute it began in.                                    *)
LEMMA FillKeepsReadSince ==
    ASSUME ReadSince, NEW answers, NEW latest, NEW failed,
           Fill(answers, latest, failed)
    PROVE  ReadSince'
BY DEF ReadSince, Fill, MinuteOf

(* A step of any kind preserves ReadSince.                                  *)
LEMMA StepKeepsReadSince == ReadSince /\ [Next]_vars => ReadSince'
<1> SUFFICES ASSUME ReadSince, [Next]_vars PROVE ReadSince'
  OBVIOUS
<1>1. ASSUME NEW wanted, LookUp(wanted) PROVE ReadSince'
  <2>1. MinuteOf(now) \in Nat
    BY MinutesPass DEF ReadSince
  <2>2. CASE cacheMinute = MinuteOf(now)
    BY <1>1, <2>1, <2>2 DEF ReadSince, LookUp, MinuteOf
  <2>3. CASE cacheMinute # MinuteOf(now)
    BY <1>1, <2>1, <2>3 DEF ReadSince, LookUp, MinuteOf
  <2>4. QED
    BY <2>2, <2>3
<1>2. ASSUME NoSession PROVE ReadSince'
  BY <1>2 DEF ReadSince, NoSession, MinuteOf
<1>3. ASSUME Anchor PROVE ReadSince'
  <2>1. CASE bars = {}
    BY <1>3, <2>1, FillKeepsReadSince DEF Anchor
  <2>2. CASE bars # {}
    BY <1>3, <2>2 DEF ReadSince, Anchor, MinuteOf
  <2>3. QED
    BY <2>1, <2>2
<1>4. ASSUME Resolve PROVE ReadSince'
  BY <1>4, FillKeepsReadSince DEF Resolve
<1>5. ASSUME ReadFails PROVE ReadSince'
  BY <1>5, FillKeepsReadSince DEF ReadFails
<1>6. ASSUME NEW b \in Times, WriteHere(b) PROVE ReadSince'
  BY <1>6 DEF ReadSince, WriteHere, WrittenSince, MinuteOf
<1>7. ASSUME NEW b \in Times, WriteElsewhere(b) PROVE ReadSince'
  BY <1>7 DEF ReadSince, WriteElsewhere, MinuteOf
<1>8. ASSUME Pass PROVE ReadSince'
  <2>1. MinuteOf(now) \in Nat /\ MinuteOf(now') \in Nat /\ MinuteOf(now) <= MinuteOf(now')
    BY <1>8, MinutesPass DEF ReadSince, Pass
  <2>2. QED
    BY <1>8, <2>1 DEF ReadSince, Pass, MinuteOf
<1>9. CASE UNCHANGED vars
  BY <1>9 DEF ReadSince, vars, MinuteOf
<1>10. QED
  BY <1>1, <1>2, <1>3, <1>4, <1>5, <1>6, <1>7, <1>8, <1>9 DEF Next

(* What a call is served was read in the minute it is served in.            *)
THEOREM StalenessIsBounded == Spec => []StalenessBounded
<1>1. Init => ReadSince
  BY MinutesPass DEF Init, ReadSince
<1>2. ReadSince => StalenessBounded
  <2> SUFFICES ASSUME ReadSince, NEW d \in Servable
               PROVE  MinuteOf(origin[d].at) = MinuteOf(now)
    BY DEF StalenessBounded
  <2>1. d \in DOMAIN origin /\ cacheMinute = MinuteOf(now)
    BY DEF ReadSince, Servable
  <2>2. /\ MinuteOf(origin[d].at) \in Nat /\ MinuteOf(now) \in Nat
        /\ MinuteOf(origin[d].at) <= MinuteOf(now)
    BY <2>1, MinutesPass DEF ReadSince
  <2>3. QED
    BY <2>1, <2>2 DEF ReadSince
<1>3. QED
  BY <1>1, <1>2, StepKeepsReadSince, PTL DEF Spec

-----------------------------------------------------------------------------
(* Bisection splits ascending times at the instant.                         *)
LEMMA BisectionSplits ==
    ASSUME NEW R \in SUBSET Nat, NEW c \in Nat, NEW times \in [1 .. c -> R], NEW t \in Int,
           \A i, j \in 1 .. c : i < j => times[i] < times[j]
    PROVE  /\ BisectLeft(times, t) \in 0 .. c
           /\ \A i \in 1 .. c : times[i] < t <=> i <= BisectLeft(times, t)
<1> DEFINE K == {i \in DOMAIN times : times[i] < t}
           T == {i \in 1 .. c + 1 : i \notin K}
<1>1. DOMAIN times = 1 .. c /\ \A i \in 1 .. c : times[i] \in Nat
  OBVIOUS
<1>2. PICK x \in T : \A y \in T : x <= y
  <2>1. T \in SUBSET Nat /\ c + 1 \in T
    BY <1>1
  <2> HIDE DEF T
  <2> QED BY <2>1, LeastElement
<1>3. K = 1 .. (x - 1)
  <2>1. ASSUME NEW i \in K PROVE i \in 1 .. (x - 1)
    BY <1>1, <1>2
  <2>2. ASSUME NEW i \in 1 .. (x - 1) PROVE i \in K
    BY <1>1, <1>2
  <2> QED BY <2>1, <2>2
<1>4. x \in 1 .. c + 1
  BY <1>2
<1>5. Cardinality(K) = x - 1
  <2>1. 1 \in Int /\ x - 1 \in Int
    BY <1>4
  <2>2. Cardinality(1 .. (x - 1)) = IF 1 > x - 1 THEN 0 ELSE (x - 1) - 1 + 1
    BY <2>1, FS_Interval
  <2> HIDE DEF K
  <2> QED BY <1>3, <1>4, <2>2
<1>6. \A i \in 1 .. c : times[i] < t <=> i \in K
  BY <1>1
<1>7. \A i \in 1 .. c : i \in K <=> i <= x - 1
  <2> HIDE DEF K
  <2> QED BY <1>3, <1>4
<1>8. BisectLeft(times, t) = x - 1
  BY <1>5 DEF BisectLeft
<1> QED BY <1>4, <1>6, <1>7, <1>8

(* The bisected range gives a window what it would get alone, wherever the  *)
(* range begins before it.                                                  *)
LEMMA BoundaryAlone ==
    ASSUME NEW n \in Nat, NEW B \in Below(n), NEW m \in Int,
           NEW w, w.target \in Int, w.end \in Int, m <= w.target
    PROVE  Boundary(Ascending({b \in B : b >= m}), {b \in B : b < m}, w) = Alone(w, B)
<1> DEFINE R == {b \in B : b >= m}
           before == {b \in B : b < m}
           inside == {b \in B : w.target <= b /\ b <= w.end}
           under == {b \in B : b < w.target}
           rows == Ascending(R)
           c == Cardinality(R)
           idx == BisectLeft(rows, w.target)
           hit == idx < c /\ rows[idx + 1] <= w.end
<1> SUFFICES Boundary(rows, before, w) = Alone(w, B)
  OBVIOUS
<1>0. \A b \in B : b \in 0 .. n /\ b \in Nat
  BY DEF Below
<1>1. /\ R \in Below(n) /\ R \in SUBSET Nat /\ under \in Below(n)
      /\ inside \in SUBSET Nat /\ B \in SUBSET Nat
  BY <1>0 DEF Below
<1>2. /\ \A b : b \in R <=> b \in B /\ b >= m
      /\ \A b : b \in before <=> b \in B /\ b < m
      /\ \A b : b \in inside <=> b \in B /\ w.target <= b /\ b <= w.end
      /\ \A b : b \in under <=> b \in B /\ b < w.target
  OBVIOUS
<1>3. Alone(w, B) = IF inside # {} THEN <<"open", Min(inside)>>
                    ELSE IF under # {} THEN <<"close", Max(under)>>
                    ELSE IF B # {} THEN <<"open", Min(B)>> ELSE NoData
  BY DEF Alone
<1> HIDE DEF R, before, inside, under
<1>4. /\ c \in Nat /\ rows \in [1 .. c -> R]
      /\ \A i, j \in 1 .. c : i < j => rows[i] < rows[j]
      /\ \A b \in R : \E i \in 1 .. c : rows[i] = b
  BY <1>1, AscendingLists
<1> HIDE DEF c, rows
<1>5. /\ idx \in 0 .. c
      /\ \A i \in 1 .. c : rows[i] < w.target <=> i <= idx
  BY <1>1, <1>4, BisectionSplits
<1>6. Len(rows) = c /\ (rows # <<>> <=> c > 0)
  BY <1>4
<1>7. Boundary(rows, before, w) =
        IF hit THEN <<"open", rows[idx + 1]>>
        ELSE IF idx > 0 THEN <<"close", rows[idx]>>
        ELSE IF before # {} THEN <<"close", Max(before)>>
        ELSE IF rows # <<>> THEN <<"open", rows[1]>> ELSE NoData
  BY <1>6 DEF Boundary
<1> HIDE DEF idx
<1>8. \A i \in 1 .. c : rows[i] \in R /\ rows[i] \in B /\ rows[i] >= m /\ rows[i] \in Nat
  BY <1>0, <1>2, <1>4
<1>9. \A b \in R : \E i \in 1 .. c : rows[i] = b /\ \A j \in 1 .. c : j <= i => rows[j] <= b
  <2> SUFFICES ASSUME NEW b \in R
               PROVE  \E i \in 1 .. c : rows[i] = b /\ \A j \in 1 .. c : j <= i => rows[j] <= b
    OBVIOUS
  <2>1. PICK i \in 1 .. c : rows[i] = b
    BY <1>4
  <2>2. ASSUME NEW j \in 1 .. c, j <= i PROVE rows[j] <= b
    <3>1. CASE j = i
      BY <2>1, <1>8, <3>1
    <3>2. CASE j < i
      <4>1. rows[j] < rows[i]
        BY <1>4, <3>2
      <4> QED BY <1>8, <2>1, <4>1
    <3> QED BY <2>2, <1>4, <3>1, <3>2
  <2> QED BY <2>1, <2>2
<1>10. ASSUME idx + 1 \in 1 .. c PROVE \A b \in B : b >= w.target => rows[idx + 1] <= b
  <2> SUFFICES ASSUME NEW b \in B, b >= w.target PROVE rows[idx + 1] <= b
    OBVIOUS
  <2>1. b \in R
    BY <1>0, <1>2
  <2>2. PICK i \in 1 .. c : rows[i] = b /\ \A j \in 1 .. c : j <= i => rows[j] <= b
    BY <1>9, <2>1
  <2>3. ~(i <= idx)
    BY <1>0, <1>5, <2>2
  <2>4. idx + 1 <= i
    BY <1>4, <1>5, <2>3
  <2> QED BY <1>10, <2>2, <2>4
<1>11. CASE hit
  <2>1. idx + 1 \in 1 .. c
    BY <1>4, <1>5, <1>11
  <2>2. ~(idx + 1 <= idx)
    BY <1>4, <1>5
  <2>3. rows[idx + 1] \in inside
    BY <1>2, <1>5, <1>8, <1>11, <2>1, <2>2
  <2>4. \A b \in inside : rows[idx + 1] <= b
    BY <1>0, <1>2, <1>10, <2>1
  <2>5. Min(inside) \in inside /\ \A b \in inside : Min(inside) <= b
    BY <1>1, <2>3, LeastMember
  <2>6. rows[idx + 1] \in Nat /\ Min(inside) \in Nat
    BY <1>1, <2>3, <2>5
  <2>7. Min(inside) = rows[idx + 1]
    BY <2>3, <2>4, <2>5, <2>6
  <2> HIDE DEF hit
  <2> QED BY <1>3, <1>7, <1>11, <2>3, <2>7
<1>12. CASE ~hit
  <2>1. inside = {}
    <3> SUFFICES ASSUME NEW b \in inside PROVE FALSE
      OBVIOUS
    <3>1. b \in B /\ b >= w.target /\ b <= w.end /\ b \in R /\ b \in Nat
      BY <1>0, <1>2
    <3>2. PICK i \in 1 .. c : rows[i] = b
      BY <1>4, <3>1
    <3>3. ~(i <= idx)
      BY <1>5, <3>1, <3>2
    <3>4. idx + 1 \in 1 .. c
      BY <1>4, <1>5, <3>3
    <3>5. rows[idx + 1] <= b /\ rows[idx + 1] \in Nat
      BY <1>8, <1>10, <3>1, <3>4
    <3>6. idx < c
      BY <1>4, <1>5, <3>4
    <3>7. rows[idx + 1] <= w.end
      BY <3>1, <3>5
    <3> QED BY <1>12, <3>6, <3>7
  <2>2. CASE idx > 0
    <3>1. idx \in 1 .. c /\ idx <= idx
      BY <1>4, <1>5, <2>2
    <3>2. rows[idx] \in under
      BY <1>2, <1>5, <1>8, <3>1
    <3>3. ASSUME NEW b \in under PROVE b <= rows[idx]
      <4>0. b \in B /\ b < w.target /\ b \in Nat /\ rows[idx] \in Nat /\ rows[idx] >= m
        BY <1>0, <1>2, <1>8, <3>1
      <4>1. CASE b \in R
        <5>1. PICK i \in 1 .. c : rows[i] = b
          BY <1>4, <4>1
        <5>2. i <= idx
          BY <1>5, <4>0, <5>1
        <5>3. CASE i = idx
          BY <5>1, <5>3, <4>0
        <5>4. CASE i < idx
          <6>1. rows[i] < rows[idx]
            BY <1>4, <3>1, <5>4
          <6> QED BY <5>1, <6>1, <4>0
        <5> QED BY <1>4, <1>5, <5>2, <5>3, <5>4
      <4>2. CASE b \notin R
        <5>1. b < m
          BY <1>2, <4>0, <4>2
        <5> QED BY <4>0, <5>1
      <4> QED BY <4>1, <4>2
    <3>4. Max(under) \in under /\ \A b \in under : Max(under) >= b
      BY <1>1, <3>2, GreatestMember
    <3>5. Max(under) \in Nat /\ rows[idx] \in Nat
      BY <1>0, <1>2, <3>2, <3>4
    <3>6. Max(under) = rows[idx]
      BY <3>2, <3>3, <3>4, <3>5
    <3> HIDE DEF hit
    <3> QED BY <1>3, <1>7, <1>12, <2>1, <2>2, <3>2, <3>6
  <2>3. CASE ~(idx > 0)
    <3>1. idx = 0
      BY <1>4, <1>5, <2>3
    <3>2. \A i \in 1 .. c : ~(rows[i] < w.target)
      <4>1. \A i \in 1 .. c : ~(i <= 0)
        BY <1>4
      <4> QED BY <1>5, <3>1, <4>1
    <3>3. \A b : b \in under <=> b \in before
      <4>1. ASSUME NEW b, b \in under PROVE b \in before
        <5>1. b \in B /\ b < w.target /\ b \in Nat
          BY <1>0, <1>2, <4>1
        <5>2. b \notin R
          BY <1>4, <3>2, <5>1
        <5> QED BY <1>2, <5>1, <5>2
      <4>2. ASSUME NEW b, b \in before PROVE b \in under
        BY <1>0, <1>2, <4>2
      <4> QED BY <4>1, <4>2
    <3>4. under = before
      BY <3>3
    <3>5. CASE before # {}
      <4> HIDE DEF hit
      <4> QED BY <1>3, <1>7, <1>12, <2>1, <2>3, <3>4, <3>5
    <3>6. CASE before = {}
      <4>1. \A b \in B : b \in R
        BY <1>0, <1>2, <3>6
      <4>2. rows # <<>> <=> B # {}
        <5>1. c > 0 => B # {}
          BY <1>4, <1>8
        <5>2. B # {} => c > 0
          BY <1>4, <4>1
        <5> QED BY <1>6, <5>1, <5>2
      <4>3. B # {} => Min(B) = rows[1]
        <5> SUFFICES ASSUME B # {} PROVE Min(B) = rows[1]
          OBVIOUS
        <5>1. 1 \in 1 .. c
          BY <1>4, <4>1
        <5>2. rows[1] \in B /\ rows[1] \in Nat
          BY <1>8, <5>1
        <5>3. \A b \in B : rows[1] <= b
          <6> SUFFICES ASSUME NEW b \in B PROVE rows[1] <= b
            OBVIOUS
          <6>1. PICK i \in 1 .. c : rows[i] = b /\ \A j \in 1 .. c : j <= i => rows[j] <= b
            BY <1>9, <4>1
          <6>2. 1 <= i
            BY <1>4
          <6> QED BY <5>1, <6>1, <6>2
        <5>4. Min(B) \in B /\ \A b \in B : Min(B) <= b
          BY <1>1, LeastMember
        <5>5. Min(B) \in Nat
          BY <1>0, <5>4
        <5> QED BY <5>2, <5>3, <5>4, <5>5
      <4> HIDE DEF hit
      <4> QED BY <1>3, <1>7, <1>12, <2>1, <2>3, <3>4, <3>6, <4>2, <4>3
    <3> QED BY <3>5, <3>6
  <2> QED BY <2>2, <2>3
<1> QED BY <1>11, <1>12

(* A batch of windows gives each of them what it would get alone.           *)
LEMMA RangeAgreesAlone ==
    ASSUME NEW n \in Nat, NEW B \in Below(n), NEW W,
           IsFiniteSet(DOMAIN W), DOMAIN W # {},
           \A d \in DOMAIN W : W[d].target \in Int /\ W[d].end \in Int
    PROVE  FromRange(W, B) = [d \in DOMAIN W |-> Alone(W[d], B)]
<1> DEFINE target == [d \in DOMAIN W |-> W[d].target]
           S == {W[d].target : d \in DOMAIN W}
           m == Min(S)
<1>1. IsFiniteSet(S)
  <2>1. DOMAIN target = DOMAIN W /\ S = {target[d] : d \in DOMAIN target}
    OBVIOUS
  <2> HIDE DEF target, S
  <2> QED BY <2>1, FiniteImage
<1>2. S \in SUBSET Int /\ S # {}
  OBVIOUS
<1>3. m \in S /\ \A y \in S : m <= y
  <2> HIDE DEF S
  <2> QED BY <1>1, <1>2, LeastInteger
<1>4. m \in Int /\ \A d \in DOMAIN W : m <= W[d].target
  <2> HIDE DEF m
  <2> QED BY <1>2, <1>3
<1> HIDE DEF m
<1>5. \A d \in DOMAIN W :
          Boundary(Ascending({b \in B : b >= m}), {b \in B : b < m}, W[d]) = Alone(W[d], B)
  BY <1>4, BoundaryAlone
<1> QED BY <1>5 DEF FromRange, m

(* What is asked for is a finite number of durations, and the windows are   *)
(* integers.                                                                *)
LEMMA WindowsAreIntegers ==
    /\ IsFiniteSet(Durations)
    /\ \A d \in Durations, at \in Nat, latest \in Nat :
           Window(d, at, latest).target \in Int /\ Window(d, at, latest).end \in Int
<1>1. IsFiniteSet(Durations)
  BY OffsetAssumption, FS_AddElement DEF Durations
<1>2. \A d \in Durations : d # "ytd" => Offset[d] \in Nat
  BY OffsetAssumption DEF Durations
<1> QED BY <1>1, <1>2, HorizonAssumption DEF Window

(* The rows are at instants that have passed.                               *)
RowsBelow == now \in 0 .. MaxTime /\ bars \in Below(MaxTime)

(* Every step keeps the clock and the bars within the minutes modelled.     *)
LEMMA StepKeepsRowsBelow == RowsBelow /\ [Next]_vars => RowsBelow'
<1> SUFFICES ASSUME RowsBelow, [Next]_vars PROVE RowsBelow'
  OBVIOUS
<1>1. CASE UNCHANGED <<now, bars>>
  BY <1>1 DEF RowsBelow, Below
<1>2. ASSUME NEW b \in Times, bars' = bars \union {b}, UNCHANGED now PROVE RowsBelow'
  <2>1. b \in 0 .. MaxTime
    BY DEF Times
  <2> QED BY <1>2, <2>1 DEF RowsBelow, Below
<1>3. CASE Pass
  BY <1>3, HorizonAssumption DEF RowsBelow, Below, Pass
<1>4. (\A answers, latest, failed : Fill(answers, latest, failed) => UNCHANGED <<now, bars>>)
  BY DEF Fill
<1>5. (\E wanted \in (SUBSET Durations) \ {{}} : LookUp(wanted)) \/ NoSession \/ UNCHANGED vars
          => UNCHANGED <<now, bars>>
  BY DEF LookUp, NoSession, vars
<1>6. Anchor \/ Resolve \/ ReadFails => UNCHANGED <<now, bars>>
  BY <1>4 DEF Anchor, Resolve, ReadFails
<1>7. \A b \in Times : WriteHere(b) \/ WriteElsewhere(b) => bars' = bars \union {b} /\ UNCHANGED now
  BY DEF WriteHere, WriteElsewhere
<1> QED BY <1>1, <1>2, <1>3, <1>5, <1>6, <1>7 DEF Next

(* One query for all the durations asked for answers each of them as a      *)
(* query of its own would, in every state.                                  *)
THEOREM BatchingIsHarmless == Spec => []BatchedLookupAgrees
<1>1. Init => RowsBelow
  BY HorizonAssumption DEF Init, RowsBelow, Below
<1>2. RowsBelow => BatchedLookupAgrees
  <2> SUFFICES ASSUME RowsBelow, bars # {}, NEW wanted \in (SUBSET Durations) \ {{}}
               PROVE  LET W == [d \in wanted |-> Window(d, now, Max(bars))]
                      IN FromRange(W, bars) = [d \in wanted |-> Alone(W[d], bars)]
    BY DEF BatchedLookupAgrees
  <2> DEFINE W == [d \in wanted |-> Window(d, now, Max(bars))]
  <2>1. MaxTime \in Nat /\ now \in Nat /\ bars \in Below(MaxTime)
    BY HorizonAssumption DEF RowsBelow
  <2>2. Max(bars) \in Nat
    <3>1. Max(bars) \in bars
      BY <2>1, GreatestMember
    <3>2. \A b \in bars : b \in Nat
      BY <2>1 DEF Below
    <3> QED BY <3>1, <3>2
  <2>3. IsFiniteSet(wanted)
    BY WindowsAreIntegers, FS_Subset
  <2>4. DOMAIN W = wanted /\ \A d \in wanted : W[d] = Window(d, now, Max(bars))
    OBVIOUS
  <2>5. \A d \in wanted : W[d].target \in Int /\ W[d].end \in Int
    BY <2>1, <2>2, <2>4, WindowsAreIntegers
  <2> HIDE DEF W
  <2>7. IsFiniteSet(DOMAIN W) /\ DOMAIN W # {}
        /\ \A d \in DOMAIN W : W[d].target \in Int /\ W[d].end \in Int
    <3>1. DOMAIN W # {}
      BY <2>4
    <3>2. \A d \in DOMAIN W : d \in wanted
      BY <2>4
    <3> QED BY <2>3, <2>4, <2>5, <3>1, <3>2
  <2>6. FromRange(W, bars) = [d \in DOMAIN W |-> Alone(W[d], bars)]
    BY <2>1, <2>7, RangeAgreesAlone
  <2> QED BY <2>4, <2>6 DEF W
<1>3. QED
  BY <1>1, <1>2, StepKeepsRowsBelow, PTL DEF Spec

-----------------------------------------------------------------------------
(* Of a minute there can be one bar, the one that begins it, and no bar     *)
(* that an instant of the minute has passed is after it.                    *)
LEMMA MinuteHasOneBar ==
    ASSUME NEW s \in Times, NEW at \in Nat, MinuteOf(s) = MinuteOf(at)
    PROVE  /\ s \in Nat /\ s <= at /\ at - s < Grain
           /\ \A b \in Times : b <= at => b <= s
           /\ \A b \in Times : MinuteOf(b) = MinuteOf(at) => b = s
<1>1. \A b \in Times : b \in Nat /\ b % Grain = 0
  BY DEF Times
<1>2. ASSUME NEW a \in Nat, NEW b \in Nat, a % Grain = 0, a \div Grain = b \div Grain
      PROVE  a <= b /\ b - a < Grain
  BY <1>2, GrainAssumption, Z3
<1>3. ASSUME NEW b \in Times, b <= at PROVE b <= s
  <2>1. b \in Nat /\ s \in Nat
    BY <1>1
  <2>2. CASE b > s
    <3>1. MinuteOf(s) <= MinuteOf(b) /\ MinuteOf(b) <= MinuteOf(at)
          /\ MinuteOf(s) \in Nat /\ MinuteOf(b) \in Nat /\ MinuteOf(at) \in Nat
      BY <1>3, <2>1, <2>2, MinutesPass
    <3>2. MinuteOf(b) = MinuteOf(s)
      BY <3>1
    <3> QED BY <1>1, <1>2, <2>1, <3>2 DEF MinuteOf
  <2> QED BY <2>1, <2>2
<1>4. ASSUME NEW b \in Times, MinuteOf(b) = MinuteOf(at) PROVE b = s
  <2>1. b <= s /\ s <= b
    BY <1>1, <1>2, <1>4 DEF MinuteOf
  <2> QED BY <1>1, <2>1
<1> QED BY <1>1, <1>2, <1>3, <1>4 DEF MinuteOf

(* An entry of the running minute: what it was searched in had passed by    *)
(* then, what this manager wrote since is of the minute, and the answer is  *)
(* the one a read at that instant would give with it, but for the two       *)
(* exceptions.                                                              *)
ReopenedSince(o, d, minute) ==
    /\ o.latest < Window(d, o.at, o.at).target
    /\ \E b \in o.own : b > o.latest /\ MinuteOf(b) = minute

Fresh(o, answer, d, minute) ==
    LET anchor == Max({o.latest} \union o.own)
    IN \/ o.failed
       \/ ReopenedSince(o, d, minute)
       \/ answer = IF anchor = -1 THEN NoData
                   ELSE Alone(Window(d, o.at, anchor), o.seen \union o.own)

EntryInv(o, answer, d, minute) ==
    /\ o.seen \subseteq {b \in Times : b <= o.at}
    /\ o.latest \in o.seen \union {-1}
    /\ o.latest = -1 => answer = NoData
    /\ o.own \subseteq {b \in Times : MinuteOf(b) = minute}
    /\ Fresh(o, answer, d, minute)

(* The greatest of one and of two numbers.                                  *)
LEMMA MaxOfFew ==
    /\ \A x \in Int : Max({x}) = x
    /\ \A x, y \in Int : x <= y => Max({x, y}) = y
<1>1. ASSUME NEW x \in Int PROVE Max({x}) = x
  BY DEF Max
<1>2. ASSUME NEW x \in Int, NEW y \in Int, x <= y PROVE Max({x, y}) = y
  <2>1. y \in {x, y} /\ \A z \in {x, y} : y >= z
    BY <1>2
  <2>2. \A m \in {x, y} : (\A z \in {x, y} : m >= z) => m = y
    BY <1>2
  <2> QED BY <2>1, <2>2 DEF Max
<1> QED BY <1>1, <1>2

(* A later bar changes no answer that came from inside the window.          *)
LEMMA LaterBarChangesNothing ==
    ASSUME NEW B \in SUBSET Nat, NEW s \in Nat, NEW w, w.target \in Int, w.end \in Int,
           \A b \in B : b <= s, w.target <= s, s <= w.end,
           NEW x \in B, w.target <= x, x <= w.end
    PROVE  Alone(w, B \union {s}) = Alone(w, B)
<1> DEFINE inside == {b \in B : w.target <= b /\ b <= w.end}
           wider == {b \in B \union {s} : w.target <= b /\ b <= w.end}
<1>1. /\ inside \in SUBSET Nat /\ wider \in SUBSET Nat
      /\ x \in inside /\ \A b : b \in wider <=> b \in inside \/ b = s
      /\ \A b \in inside : b <= s
  OBVIOUS
<1>2. /\ inside # {} => Alone(w, B) = <<"open", Min(inside)>>
      /\ wider # {} => Alone(w, B \union {s}) = <<"open", Min(wider)>>
  BY DEF Alone
<1> HIDE DEF inside, wider
<1>3. /\ Min(inside) \in inside /\ \A b \in inside : Min(inside) <= b
      /\ Min(wider) \in wider /\ \A b \in wider : Min(wider) <= b
  BY <1>1, LeastMember
<1>4. Min(inside) \in Nat /\ Min(wider) \in Nat
  BY <1>1, <1>3
<1>5. Min(wider) <= Min(inside)
  BY <1>1, <1>3
<1>6. Min(inside) <= Min(wider)
  BY <1>1, <1>3, <1>4
<1> QED BY <1>1, <1>2, <1>4, <1>5, <1>6

(* A bar of the running minute that evicts nothing leaves the entry in      *)
(* order: it was known, or it is after all that was found inside the        *)
(* window, or the market has reopened.                                      *)
LEMMA BarKeepsEntry ==
    ASSUME NEW o, NEW answer, NEW d \in Durations, NEW s \in Times,
           o.at \in Nat, EntryInv(o, answer, d, MinuteOf(o.at)),
           MinuteOf(s) = MinuteOf(o.at), answer # NoData, d = "ytd" => s > NewYear
    PROVE  EntryInv(WrittenSince(o, s), answer, d, MinuteOf(o.at))
<1> DEFINE M == MinuteOf(o.at)
           p == WrittenSince(o, s)
<1>1. /\ p.at = o.at /\ p.latest = o.latest /\ p.seen = o.seen
      /\ p.own = o.own \union {s} /\ p.failed = o.failed
  BY DEF WrittenSince
<1>2. /\ s \in Nat /\ s <= o.at /\ o.at - s < Grain
      /\ \A b \in Times : b <= o.at => b <= s
      /\ \A b \in Times : MinuteOf(b) = M => b = s
  BY MinuteHasOneBar
<1>3. /\ o.seen \in SUBSET Nat /\ \A b \in o.seen : b <= s /\ b <= o.at
      /\ o.own \subseteq {s}
  BY <1>2 DEF EntryInv, Times
<1>4. o.latest \in o.seen /\ o.latest \in Nat /\ o.latest <= s /\ o.latest # -1
  BY <1>3 DEF EntryInv
<1>5. /\ p.seen \subseteq {b \in Times : b <= p.at} /\ p.latest \in p.seen \union {-1}
      /\ p.latest = -1 => answer = NoData
      /\ p.own \subseteq {b \in Times : MinuteOf(b) = M}
  BY <1>1 DEF EntryInv
<1> SUFFICES Fresh(p, answer, d, M)
  BY <1>5 DEF EntryInv
<1> HIDE DEF p, M
<1>6. Fresh(o, answer, d, M)
  BY DEF EntryInv, M
<1>7. CASE o.failed
  BY <1>1, <1>7 DEF Fresh
<1>8. CASE ReopenedSince(o, d, M)
  <2>1. ReopenedSince(p, d, M)
    BY <1>1, <1>8 DEF ReopenedSince
  <2> QED BY <2>1 DEF Fresh
<1>9. CASE s \in o.own
  <2>1. p.own = o.own
    BY <1>1, <1>9
  <2> QED BY <1>1, <1>6, <2>1 DEF Fresh, ReopenedSince
<1>10. CASE s \notin o.own /\ ~o.failed /\ ~ReopenedSince(o, d, M)
  <2>1. o.own = {} /\ p.own = {s}
    BY <1>1, <1>3, <1>10
  <2>2. Max({o.latest} \union o.own) = o.latest /\ Max({p.latest} \union p.own) = s
    <3>1. {o.latest} \union o.own = {o.latest} /\ {p.latest} \union p.own = {o.latest, s}
      BY <1>1, <2>1
    <3> QED BY <1>2, <1>4, <3>1, MaxOfFew
  <2>3. answer = Alone(Window(d, o.at, o.latest), o.seen)
    <3>1. o.seen \union o.own = o.seen
      BY <2>1
    <3> QED BY <1>4, <1>6, <1>10, <2>2, <3>1 DEF Fresh
  <2>4. SUFFICES ASSUME ~ReopenedSince(p, d, M)
                 PROVE  answer = Alone(Window(d, o.at, s), o.seen \union {s})
    <3>1. s # -1
      BY <1>2
    <3> QED BY <1>1, <2>1, <2>2, <3>1 DEF Fresh
  <2>5. CASE o.latest = s
    <3>1. o.seen \union {s} = o.seen
      BY <1>4, <2>5
    <3> QED BY <2>3, <2>5, <3>1
  <2>6. CASE o.latest # s
    <3>1. o.latest < s
      BY <1>2, <1>4, <2>6
    <3>2. ~(o.latest < Window(d, o.at, o.at).target)
      <4>1. MinuteOf(s) = M /\ s \in p.own /\ s > p.latest
        BY <1>1, <2>1, <3>1 DEF M
      <4> QED BY <1>1, <2>4, <4>1 DEF ReopenedSince
    <3>3. /\ Window(d, o.at, o.latest) = Window(d, o.at, s)
          /\ Window(d, o.at, s).target \in Int /\ Window(d, o.at, s).end = o.at
          /\ Window(d, o.at, s).target <= o.latest
          /\ Window(d, o.at, s).target <= s
      <4>1. CASE d = "ytd"
        BY <1>2, <1>4, <3>1, <3>2, <4>1, HorizonAssumption DEF Window
      <4>2. CASE d # "ytd"
        <5>1. d \in DOMAIN Offset /\ Offset[d] \in Nat /\ Offset[d] >= Grain /\ Grain \in Nat
          BY <4>2, OffsetAssumption, GrainAssumption DEF Durations
        <5>2. ~(o.at - o.at > Offset[d]) /\ ~(o.latest < o.at - Offset[d])
          BY <3>2, <4>2, <5>1 DEF Window
        <5>3. ~(o.at - o.latest > Offset[d]) /\ ~(o.at - s > Offset[d])
          BY <1>2, <1>4, <5>1, <5>2
        <5>4. /\ Window(d, o.at, o.latest) = [target |-> o.at - Offset[d], end |-> o.at]
              /\ Window(d, o.at, s) = [target |-> o.at - Offset[d], end |-> o.at]
          BY <4>2, <5>3 DEF Window
        <5> QED BY <1>2, <1>4, <5>1, <5>2, <5>4
      <4> QED BY <4>1, <4>2
    <3>4. Alone(Window(d, o.at, s), o.seen \union {s}) = Alone(Window(d, o.at, s), o.seen)
      <4> DEFINE w == Window(d, o.at, s)
      <4>1. /\ w.target \in Int /\ w.end \in Int /\ w.target <= s /\ s <= w.end
            /\ w.target <= o.latest /\ o.latest <= w.end
        BY <1>2, <1>3, <1>4, <3>3
      <4> HIDE DEF w
      <4>2. Alone(w, o.seen \union {s}) = Alone(w, o.seen)
        BY <1>2, <1>3, <1>4, <4>1, LaterBarChangesNothing
      <4> QED BY <4>2 DEF w
    <3> QED BY <2>3, <3>3, <3>4
  <2> QED BY <2>5, <2>6
<1> QED BY <1>7, <1>8, <1>9, <1>10

(* Every entry that a call may be served is in order, the rows are at       *)
(* instants that have passed, and the call in progress was anchored to one  *)
(* of them.                                                                 *)
CacheInv ==
    /\ ReadSince
    /\ now \in 0 .. MaxTime
    /\ bars \subseteq {b \in Times : b <= now}
    /\ DOMAIN cache \subseteq Durations
    /\ \/ read = Idle
       \/ /\ read.phase = "anchor"
          /\ read.missing \subseteq Durations
       \/ /\ read.phase = "range"
          /\ read.missing \subseteq Durations
          /\ read.latest \in bars
    /\ cacheMinute = MinuteOf(now) =>
           \A d \in DOMAIN cache : EntryInv(origin[d], cache[d], d, MinuteOf(now))

(* What a served entry was read at is in the minute.                        *)
LEMMA ServedWasReadNow ==
    ASSUME ReadSince, cacheMinute = MinuteOf(now), NEW d \in DOMAIN cache
    PROVE  /\ origin[d].at \in Nat /\ MinuteOf(origin[d].at) = MinuteOf(now)
<1>1. /\ origin[d].at \in Nat /\ origin[d].at <= now /\ now \in Nat
      /\ cacheMinute <= MinuteOf(origin[d].at)
  BY DEF ReadSince
<1>2. MinuteOf(origin[d].at) \in Nat /\ MinuteOf(now) \in Nat
      /\ MinuteOf(origin[d].at) <= MinuteOf(now)
  BY <1>1, MinutesPass
<1> QED BY <1>1, <1>2

(* An answer that is what a read alone would give, or that is known to have *)
(* failed, makes an entry that is in order.                                 *)
LEMMA FillKeepsCacheInv ==
    ASSUME CacheInv, read.phase \in {"anchor", "range"},
           NEW answers, NEW latest, NEW failed, Fill(answers, latest, failed),
           latest \in bars \union {-1}, latest = -1 => \A d \in read.missing : answers[d] = NoData,
           \A d \in read.missing :
               \/ failed
               \/ answers[d] = IF latest = -1 THEN NoData
                               ELSE Alone(Window(d, now, latest), bars)
    PROVE  CacheInv'
<1>1. ReadSince'
  BY FillKeepsReadSince DEF CacheInv
<1>2. read.missing \subseteq Durations
  BY DEF CacheInv, Idle
<1>3. /\ DOMAIN cache' = DOMAIN cache \union read.missing
      /\ \A d \in DOMAIN cache' : d \in read.missing =>
             /\ cache'[d] = answers[d]
             /\ origin'[d] = [at |-> now, latest |-> latest, seen |-> bars, own |-> {},
                              failed |-> failed]
      /\ \A d \in DOMAIN cache' : d \notin read.missing =>
             d \in DOMAIN cache /\ cache'[d] = cache[d] /\ origin'[d] = origin[d]
      /\ read' = Idle /\ UNCHANGED <<now, bars, cacheMinute>>
  BY DEF Fill
<1>4. ASSUME cacheMinute' = MinuteOf(now)', NEW d \in DOMAIN cache'
      PROVE  EntryInv(origin'[d], cache'[d], d, MinuteOf(now))
  <2>1. CASE d \notin read.missing
    BY <1>3, <1>4, <2>1 DEF CacheInv, MinuteOf
  <2>2. CASE d \in read.missing
    <3> DEFINE o == [at |-> now, latest |-> latest, seen |-> bars, own |-> {},
                     failed |-> failed]
    <3>1. /\ o.at = now /\ o.latest = latest /\ o.seen = bars /\ o.own = {} /\ o.failed = failed
      OBVIOUS
    <3>2. o = origin'[d] /\ cache'[d] = answers[d]
      BY <1>3, <2>2
    <3> HIDE DEF o
    <3>3. Max({o.latest} \union o.own) = latest
      <4>1. latest \in Int /\ {o.latest} \union o.own = {latest}
        BY <3>1 DEF CacheInv, Times
      <4> QED BY <4>1, MaxOfFew
    <3>4. o.seen \union o.own = bars
      BY <3>1
    <3>5. Fresh(o, answers[d], d, MinuteOf(now))
      BY <2>2, <3>1, <3>3, <3>4 DEF Fresh
    <3>6. /\ o.seen \subseteq {b \in Times : b <= o.at}
          /\ o.latest \in o.seen \union {-1}
          /\ o.latest = -1 => answers[d] = NoData
          /\ o.own = {}
      BY <2>2, <3>1 DEF CacheInv
    <3>7. EntryInv(o, answers[d], d, MinuteOf(now))
      BY <3>5, <3>6 DEF EntryInv
    <3> QED BY <3>2, <3>7
  <2> QED BY <2>1, <2>2
<1>5. DOMAIN cache' \subseteq Durations
  BY <1>2, <1>3 DEF CacheInv
<1>6. MinuteOf(now)' = MinuteOf(now) /\ MinuteOf(now') = MinuteOf(now)
  BY <1>3 DEF MinuteOf
<1>7. now' \in 0 .. MaxTime /\ bars' \subseteq {b \in Times : b <= now'}
  BY <1>3 DEF CacheInv
<1>8. cacheMinute' = MinuteOf(now') =>
           \A d \in DOMAIN cache' : EntryInv(origin'[d], cache'[d], d, MinuteOf(now'))
  BY <1>4, <1>6
<1> QED BY <1>1, <1>3, <1>5, <1>7, <1>8 DEF CacheInv

(* A step of any kind keeps the entries in order.                           *)
LEMMA StepKeepsCacheInv == CacheInv /\ [Next]_vars => CacheInv'
<1> SUFFICES ASSUME CacheInv, [Next]_vars PROVE CacheInv'
  OBVIOUS
<1>0. /\ ReadSince' /\ ReadSince
      /\ now \in Nat /\ MaxTime \in Nat /\ MinuteOf(now) \in Nat /\ cacheMinute \in Int
      /\ cacheMinute <= MinuteOf(now)
  BY StepKeepsReadSince, MinutesPass, HorizonAssumption DEF CacheInv, ReadSince
<1>a. \A u \in {"anchor", "range"} : Idle.phase # u
  BY DEF Idle
<1>1. ASSUME NEW wanted \in (SUBSET Durations) \ {{}}, LookUp(wanted) PROVE CacheInv'
  <2>1. UNCHANGED <<now, bars>> /\ cacheMinute' = MinuteOf(now)
    BY <1>1 DEF LookUp
  <2>2. \/ read' = Idle
        \/ read'.phase = "anchor" /\ read'.missing \subseteq Durations
    BY <1>1 DEF LookUp
  <2>3. CASE cacheMinute = MinuteOf(now)
    <3>1. UNCHANGED <<cache, origin>>
      BY <1>1, <2>3 DEF LookUp
    <3>2. MinuteOf(now') = MinuteOf(now)
      BY <2>1
    <3> QED BY <1>0, <2>1, <2>2, <2>3, <3>1, <3>2 DEF CacheInv
  <2>4. CASE cacheMinute # MinuteOf(now)
    <3>1. DOMAIN cache' = {}
      BY <1>1, <2>4 DEF LookUp
    <3> QED BY <1>0, <2>1, <2>2, <3>1 DEF CacheInv
  <2> QED BY <2>3, <2>4
<1>2. ASSUME NoSession PROVE CacheInv'
  <2>1. read' = Idle /\ UNCHANGED <<now, bars, cache, cacheMinute, origin>>
    BY <1>2 DEF NoSession
  <2>2. MinuteOf(now') = MinuteOf(now)
    BY <2>1
  <2> QED BY <1>0, <2>1, <2>2 DEF CacheInv
<1>3. ASSUME Anchor PROVE CacheInv'
  <2>1. read.phase = "anchor" /\ read.missing \subseteq Durations
    BY <1>3, <1>a DEF Anchor, CacheInv
  <2>2. CASE bars = {}
    <3> DEFINE answers == [d \in read.missing |-> NoData]
    <3>1. Fill(answers, -1, FALSE)
      BY <1>3, <2>2 DEF Anchor
    <3>2. \A d \in read.missing : answers[d] = NoData
      OBVIOUS
    <3> HIDE DEF answers
    <3> QED BY <2>1, <3>1, <3>2, FillKeepsCacheInv
  <2>3. CASE bars # {}
    <3>1. /\ read' = [phase |-> "range", missing |-> read.missing, latest |-> Max(bars)]
          /\ UNCHANGED <<now, bars, cache, cacheMinute, origin>>
      BY <1>3, <2>3 DEF Anchor
    <3>2. Max(bars) \in bars
      <4>1. bars \in Below(MaxTime)
        BY DEF CacheInv, Below, Times
      <4> QED BY <1>0, <2>3, <4>1, GreatestMember
    <3>3. /\ read'.phase = "range" /\ read'.missing \subseteq Durations
          /\ read'.latest \in bars'
      BY <2>1, <3>1, <3>2
    <3>4. MinuteOf(now') = MinuteOf(now)
      BY <3>1
    <3> QED BY <1>0, <3>1, <3>3, <3>4 DEF CacheInv
  <2> QED BY <2>2, <2>3
<1>4. ASSUME Resolve PROVE CacheInv'
  <2> DEFINE W == [d \in read.missing |-> Window(d, now, read.latest)]
  <2>1. /\ read.phase = "range" /\ read.missing \subseteq Durations /\ read.latest \in bars
    BY <1>4, <1>a DEF Resolve, CacheInv
  <2>2. /\ bars \in Below(MaxTime) /\ read.latest \in Nat
    <3>1. \A b \in bars : b \in Nat /\ b \in 0 .. MaxTime
      BY DEF CacheInv, Times
    <3> QED BY <2>1, <3>1 DEF Below
  <2>3. Fill(FromRange(W, bars), read.latest, FALSE)
    BY <1>4 DEF Resolve
  <2>4. \A d \in read.missing : FromRange(W, bars)[d] = Alone(Window(d, now, read.latest), bars)
    <3> SUFFICES ASSUME NEW e \in read.missing
                 PROVE  FromRange(W, bars)[e] = Alone(Window(e, now, read.latest), bars)
      OBVIOUS
    <3>1. /\ DOMAIN W = read.missing
          /\ \A d \in read.missing : W[d] = Window(d, now, read.latest)
      OBVIOUS
    <3> HIDE DEF W
    <3>2. IsFiniteSet(DOMAIN W) /\ DOMAIN W # {}
      BY <2>1, <3>1, WindowsAreIntegers, FS_Subset
    <3>3. \A d \in DOMAIN W : W[d].target \in Int /\ W[d].end \in Int
      BY <1>0, <2>1, <2>2, <3>1, WindowsAreIntegers
    <3>4. FromRange(W, bars) = [d \in DOMAIN W |-> Alone(W[d], bars)]
      BY <1>0, <2>2, <3>2, <3>3, RangeAgreesAlone
    <3> QED BY <3>1, <3>4
  <2> HIDE DEF W
  <2>5. read.latest # -1 /\ read.latest \in bars \union {-1}
    BY <2>1, <2>2
  <2> QED BY <2>1, <2>3, <2>4, <2>5, FillKeepsCacheInv
<1>5. ASSUME ReadFails PROVE CacheInv'
  <2> DEFINE answers == [d \in read.missing |-> NoData]
  <2>1. read.phase \in {"anchor", "range"} /\ Fill(answers, -1, TRUE)
    BY <1>5 DEF ReadFails
  <2>2. \A d \in read.missing : answers[d] = NoData
    OBVIOUS
  <2> HIDE DEF answers
  <2> QED BY <2>1, <2>2, FillKeepsCacheInv
<1>6. ASSUME NEW b \in Times, WriteHere(b) PROVE CacheInv'
  <2>1. /\ b <= now /\ bars' = bars \union {b} /\ UNCHANGED <<now, cacheMinute, read>>
        /\ DOMAIN cache' \subseteq DOMAIN cache /\ read = Idle
        /\ \A d \in DOMAIN cache' :
              ~Outdated(d, b) /\ cache'[d] = cache[d] /\ origin'[d] = WrittenSince(origin[d], b)
    BY <1>6 DEF WriteHere
  <2>2. bars' \subseteq {t \in Times : t <= now'}
    BY <2>1 DEF CacheInv
  <2>3. ASSUME cacheMinute = MinuteOf(now), NEW d \in DOMAIN cache'
        PROVE  EntryInv(origin'[d], cache'[d], d, MinuteOf(now))
    <3>1. /\ d \in Durations /\ d \in DOMAIN cache
          /\ EntryInv(origin[d], cache[d], d, MinuteOf(now))
      BY <2>1, <2>3 DEF CacheInv
    <3>2. origin[d].at \in Nat /\ MinuteOf(origin[d].at) = MinuteOf(now)
      BY <1>0, <2>3, <3>1, ServedWasReadNow
    <3>3. cache[d] # NoData
      BY <2>1 DEF Outdated
    <3> DEFINE w == Window(d, now, now)
    <3>4. w.target \in Int /\ w.end = now /\ (d = "ytd" => w.target = NewYear)
      <4>1. d # "ytd" => Offset[d] \in Nat
        BY <3>1, OffsetAssumption DEF Durations
      <4> QED BY <1>0, <4>1, HorizonAssumption DEF Window
    <3>5. /\ ~(MinuteOf(b) < MinuteOf(now) /\ w.target <= b /\ b <= w.end)
          /\ ~(b <= w.target)
      BY <2>1 DEF Outdated
    <3> HIDE DEF w
    <3>6. b \in Nat /\ MinuteOf(b) \in Nat /\ MinuteOf(b) <= MinuteOf(now)
      BY <1>0, <2>1, MinutesPass DEF Times
    <3>7. MinuteOf(b) = MinuteOf(now) /\ (d = "ytd" => b > NewYear)
      BY <1>0, <2>1, <3>4, <3>5, <3>6
    <3>8. EntryInv(WrittenSince(origin[d], b), cache[d], d, MinuteOf(origin[d].at))
      BY <3>1, <3>2, <3>3, <3>7, BarKeepsEntry
    <3> QED BY <2>1, <3>2, <3>8
  <2>4. MinuteOf(now') = MinuteOf(now)
    BY <2>1
  <2>5. DOMAIN cache' \subseteq Durations /\ now' \in 0 .. MaxTime /\ read' = Idle
    BY <2>1 DEF CacheInv
  <2>6. cacheMinute' = MinuteOf(now') =>
            \A d \in DOMAIN cache' : EntryInv(origin'[d], cache'[d], d, MinuteOf(now'))
    BY <2>1, <2>3, <2>4
  <2> QED BY <1>0, <2>2, <2>5, <2>6 DEF CacheInv
<1>7. ASSUME NEW b \in Times, WriteElsewhere(b) PROVE CacheInv'
  <2>1. /\ b <= now /\ bars' = bars \union {b}
        /\ UNCHANGED <<now, cache, cacheMinute, read, origin>>
    BY <1>7 DEF WriteElsewhere
  <2>2. MinuteOf(now') = MinuteOf(now)
    BY <2>1
  <2> QED BY <1>0, <2>1, <2>2 DEF CacheInv
<1>8. ASSUME Pass PROVE CacheInv'
  <2>1. /\ now < MaxTime /\ now' = now + 1
        /\ UNCHANGED <<bars, cache, cacheMinute, read, origin>>
    BY <1>8 DEF Pass
  <2>2. now' \in Nat /\ now <= now' /\ now' \in 0 .. MaxTime
    BY <1>0, <2>1
  <2>3. MinuteOf(now') \in Nat /\ MinuteOf(now) <= MinuteOf(now')
    BY <1>0, <2>2, MinutesPass
  <2>4. cacheMinute' = MinuteOf(now') => cacheMinute = MinuteOf(now) /\ MinuteOf(now') = MinuteOf(now)
    BY <1>0, <2>1, <2>3
  <2>5. bars' \subseteq {b \in Times : b <= now'}
    <3>1. \A b \in Times : b \in Nat
      BY DEF Times
    <3> QED BY <1>0, <2>1, <2>2, <3>1 DEF CacheInv
  <2> QED BY <1>0, <2>1, <2>2, <2>4, <2>5 DEF CacheInv
<1>9. CASE UNCHANGED vars
  BY <1>9, <1>0 DEF CacheInv, vars, MinuteOf
<1>10. QED
  BY <1>1, <1>2, <1>3, <1>4, <1>5, <1>6, <1>7, <1>8, <1>9 DEF Next

(* A price that is served reflects every bar this manager stored, but for a *)
(* market that has just reopened and for a failed read.                     *)
THEOREM CacheReflectsBars == Spec => []StaleOnlyAfterReopening
<1>1. Init => CacheInv
  <2> SUFFICES ASSUME Init PROVE CacheInv
    OBVIOUS
  <2>1. ReadSince
    BY MinutesPass DEF Init, ReadSince
  <2>2. DOMAIN cache = {} /\ now \in 0 .. MaxTime /\ bars = {} /\ read = Idle
    BY HorizonAssumption DEF Init
  <2> QED BY <2>1, <2>2 DEF CacheInv
<1>2. CacheInv => StaleOnlyAfterReopening
  <2> SUFFICES ASSUME CacheInv, NEW d \in Servable
               PROVE  LET o == origin[d]
                          anchor == Max({o.latest} \union o.own)
                      IN \/ o.failed
                         \/ Reopened(d)
                         \/ cache[d] = IF anchor = -1 THEN NoData
                                       ELSE Alone(Window(d, o.at, anchor), o.seen \union o.own)
    BY DEF StaleOnlyAfterReopening
  <2>1. EntryInv(origin[d], cache[d], d, MinuteOf(now))
    BY DEF CacheInv, Servable
  <2>2. ReopenedSince(origin[d], d, MinuteOf(now)) => Reopened(d)
    BY DEF ReopenedSince, Reopened
  <2> QED BY <2>1, <2>2 DEF EntryInv, Fresh
<1>3. QED
  BY <1>1, <1>2, StepKeepsCacheInv, PTL DEF Spec
=============================================================================
