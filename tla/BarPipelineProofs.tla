-------------------------- MODULE BarPipelineProofs --------------------------
(***************************************************************************)
(* What the tick buffer and the pipeline around it keep, for any symbols,  *)
(* prices and sizes, any length of the tick deques, any batch size and any *)
(* run of the clock.                                                       *)
(***************************************************************************)
EXTENDS BarPipeline, SeriesProofs

-----------------------------------------------------------------------------
(* A running bar and the tick deque of its minute *)

SizesOf(q) == [i \in DOMAIN q |-> q[i].size]

(* BarsSummariseTicks for one bar, with the types it needs.                 *)
Summarises(bar, q) ==
    /\ q \in Seq(Ticks) /\ Len(q) \in 1 .. MaxTicksPerMinute
    /\ bar.close = q[Len(q)].price
    /\ \A i \in DOMAIN q : bar.low <= q[i].price /\ q[i].price <= bar.high
    /\ bar.low <= bar.open /\ bar.open <= bar.high
    /\ SumOf(SizesOf(q)) <= bar.volume
    /\ Len(q) < MaxTicksPerMinute =>
          /\ bar.open = q[1].price
          /\ \E i \in DOMAIN q : q[i].price = bar.low
          /\ \E i \in DOMAIN q : q[i].price = bar.high
          /\ SumOf(SizesOf(q)) = bar.volume

(* What a tick carries (add_tick's arguments) is a number.                  *)
LEMMA TickTypes ==
    \A t \in Ticks : t.price \in Prices /\ t.price \in Int /\ t.size \in Nat
BY DataAssumption DEF Ticks

(* A bar and a deque that are opened by the first tick of a minute.         *)
LEMMA OpenSummarises ==
    ASSUME NEW m \in Minutes, NEW t \in Ticks
    PROVE  /\ OpenBar(m, t) \in MinuteBars /\ OpenBar(m, t).minute = m
           /\ OpenBar(m, t).volume = t.size
           /\ Summarises(OpenBar(m, t), <<t>>)
<1>1. t.price \in Prices /\ t.price \in Int /\ t.size \in Nat
  BY TickTypes
<1>2. OpenBar(m, t) \in MinuteBars /\ OpenBar(m, t).minute = m
  BY <1>1 DEF OpenBar, MinuteBars
<1>3. SumOf(SizesOf(<<t>>)) = t.size
  <2>1. SizesOf(<<t>>) = <<t.size>>
    BY DEF SizesOf
  <2> QED BY <1>1, <2>1, SumOfOne
<1>4. 1 <= MaxTicksPerMinute
  BY DequeAssumption
<1> QED BY <1>1, <1>2, <1>3, <1>4, DequeAssumption DEF OpenBar, Summarises

(* What the deque holds when it takes a tick, forgetting the oldest when it *)
(* is full.                                                                 *)
LEMMA RememberedTicks ==
    ASSUME NEW q \in Seq(Ticks), Len(q) \in 1 .. MaxTicksPerMinute, NEW t \in Ticks
    PROVE  LET r == Remember(q, t)
               n == Len(r)
           IN /\ r \in Seq(Ticks) /\ n \in 1 .. MaxTicksPerMinute
              /\ r[n] = t
              /\ \A i \in DOMAIN r : r[i] = t \/ \E j \in DOMAIN q : r[i] = q[j]
              /\ SumOf(SizesOf(q)) \in Nat
              /\ SumOf(SizesOf(r)) \in Nat
              /\ SumOf(SizesOf(r)) <= SumOf(SizesOf(q)) + t.size
              /\ n < MaxTicksPerMinute =>
                    /\ Len(q) < MaxTicksPerMinute
                    /\ r[1] = q[1]
                    /\ \A j \in DOMAIN q : \E i \in DOMAIN r : r[i] = q[j]
                    /\ SumOf(SizesOf(r)) = SumOf(SizesOf(q)) + t.size
<1> DEFINE r == Remember(q, t)
<1>1. t.size \in Nat /\ MaxTicksPerMinute \in Nat
  BY TickTypes, DequeAssumption
<1>2. SizesOf(q) \in Seq(Nat) /\ SizesOf(q) \in Seq(Int) /\ Len(SizesOf(q)) = Len(q)
  <2>1. \A i \in DOMAIN q : q[i] \in Ticks /\ q[i].size \in Nat
    BY TickTypes
  <2> QED BY <2>1 DEF SizesOf
<1>3. SumOf(SizesOf(q)) \in Nat
  BY <1>2, SumOfType
<1>4. CASE Len(q) < MaxTicksPerMinute
  <2>1. r = Append(q, t)
    BY <1>4 DEF Remember
  <2>2. SizesOf(r) = Append(SizesOf(q), t.size)
    BY <2>1 DEF SizesOf
  <2>3. SumOf(SizesOf(r)) = SumOf(SizesOf(q)) + t.size
    BY <1>1, <1>2, <2>2, SumOfAppend
  <2>4. /\ r \in Seq(Ticks) /\ Len(r) = Len(q) + 1 /\ r[Len(r)] = t
        /\ \A i \in 1 .. Len(q) : r[i] = q[i]
    BY <2>1
  <2> HIDE DEF r
  <2>5. \A i \in DOMAIN r : r[i] = t \/ \E j \in DOMAIN q : r[i] = q[j]
    BY <2>4
  <2>6. r[1] = q[1] /\ \A j \in DOMAIN q : \E i \in DOMAIN r : r[i] = q[j]
    BY <2>4
  <2>7. Len(r) \in 1 .. MaxTicksPerMinute
    BY <1>1, <1>4, <2>4
  <2> QED BY <1>1, <1>3, <1>4, <2>3, <2>4, <2>5, <2>6, <2>7 DEF r
<1>5. CASE ~(Len(q) < MaxTicksPerMinute)
  <2>1. r = Append(Tail(q), t)
    BY <1>5 DEF Remember
  <2>2. /\ SizesOf(r) = Append(Tail(SizesOf(q)), t.size)
        /\ Tail(SizesOf(q)) \in Seq(Nat) /\ Tail(SizesOf(q)) \in Seq(Int)
        /\ SizesOf(q) # <<>> /\ Head(SizesOf(q)) \in Nat
    <3>1. Len(SizesOf(q)) \in Nat /\ Len(SizesOf(q)) > 0 /\ Len(q) > 0
      BY <1>2
    <3>2. /\ Tail(SizesOf(q)) \in Seq(Nat) /\ Tail(SizesOf(q)) \in Seq(Int)
          /\ SizesOf(q) # <<>> /\ Head(SizesOf(q)) \in Nat
      BY <1>2, <3>1
    <3>3. SizesOf(r) = Append(Tail(SizesOf(q)), t.size)
      BY <2>1, <3>1 DEF SizesOf
    <3> QED BY <3>2, <3>3
  <2>3. SumOf(SizesOf(r)) = SumOf(Tail(SizesOf(q))) + t.size
    <3> DEFINE w == Tail(SizesOf(q))
    <3>1. w \in Seq(Int) /\ SizesOf(r) = Append(w, t.size)
      BY <2>2
    <3> HIDE DEF w
    <3>2. SumOf(Append(w, t.size)) = SumOf(w) + t.size
      BY <1>1, <3>1, SumOfAppend
    <3> QED BY <3>1, <3>2 DEF w
  <2>4. SumOf(SizesOf(q)) = Head(SizesOf(q)) + SumOf(Tail(SizesOf(q)))
    BY <1>2, <2>2, SumOfTail
  <2>5. SumOf(Tail(SizesOf(q))) \in Nat
    BY <2>2, SumOfType
  <2>6. /\ r \in Seq(Ticks) /\ Len(r) = Len(q) /\ r[Len(r)] = t
        /\ \A i \in 1 .. Len(q) - 1 : r[i] = q[i + 1]
    BY <2>1
  <2> HIDE DEF r
  <2>7. \A i \in DOMAIN r : r[i] = t \/ \E j \in DOMAIN q : r[i] = q[j]
    BY <2>6, SMTT(60)
  <2>8. ~(Len(r) < MaxTicksPerMinute)
    BY <1>5, <2>6
  <2>9. SumOf(SizesOf(r)) \in Nat /\ SumOf(SizesOf(r)) <= SumOf(SizesOf(q)) + t.size
    BY <1>1, <2>2, <2>3, <2>4, <2>5
  <2> QED BY <1>3, <2>6, <2>7, <2>8, <2>9 DEF r
<1> QED BY <1>4, <1>5

(* A further tick keeps the bar a summary of its deque.                     *)
LEMMA MergeSummarises ==
    ASSUME NEW bar \in MinuteBars, NEW q, Summarises(bar, q), NEW t \in Ticks
    PROVE  /\ Merge(bar, t) \in MinuteBars /\ Merge(bar, t).minute = bar.minute
           /\ Merge(bar, t).volume = bar.volume + t.size
           /\ Summarises(Merge(bar, t), Remember(q, t))
<1> DEFINE c == Merge(bar, t)
           r == Remember(q, t)
           n == Len(r)
<1>1. /\ t.price \in Prices /\ t.price \in Int /\ t.size \in Nat
      /\ bar.high \in Prices /\ bar.low \in Prices /\ bar.open \in Prices
      /\ bar.high \in Int /\ bar.low \in Int /\ bar.open \in Int /\ bar.volume \in Nat
  BY TickTypes, DataAssumption DEF MinuteBars
<1>2. /\ c.minute = bar.minute /\ c.open = bar.open /\ c.close = t.price
      /\ c.high = Larger(bar.high, t.price) /\ c.low = Smaller(bar.low, t.price)
      /\ c.volume = bar.volume + t.size
  BY DEF Merge, MinuteBars
<1>3. c \in MinuteBars
  <2>1. Larger(bar.high, t.price) \in Prices /\ Smaller(bar.low, t.price) \in Prices
    BY <1>1 DEF Larger, Smaller
  <2>2. bar.volume + t.size \in Nat
    BY <1>1
  <2> QED BY <1>1, <2>1, <2>2 DEF Merge, MinuteBars
<1>4. /\ c.high \in Int /\ c.low \in Int
      /\ bar.high <= c.high /\ t.price <= c.high /\ c.high \in {bar.high, t.price}
      /\ c.low <= bar.low /\ c.low <= t.price /\ c.low \in {bar.low, t.price}
  BY <1>1, <1>2 DEF Larger, Smaller
<1>5. /\ q \in Seq(Ticks) /\ Len(q) \in 1 .. MaxTicksPerMinute
      /\ \A i \in DOMAIN q : bar.low <= q[i].price /\ q[i].price <= bar.high
      /\ bar.low <= bar.open /\ bar.open <= bar.high
      /\ SumOf(SizesOf(q)) <= bar.volume
      /\ Len(q) < MaxTicksPerMinute =>
            /\ bar.open = q[1].price
            /\ \E i \in DOMAIN q : q[i].price = bar.low
            /\ \E i \in DOMAIN q : q[i].price = bar.high
            /\ SumOf(SizesOf(q)) = bar.volume
  BY DEF Summarises
<1>6. /\ r \in Seq(Ticks) /\ n \in 1 .. MaxTicksPerMinute
      /\ r[n] = t
      /\ \A i \in DOMAIN r : r[i] = t \/ \E j \in DOMAIN q : r[i] = q[j]
      /\ SumOf(SizesOf(q)) \in Nat
      /\ SumOf(SizesOf(r)) \in Nat
      /\ SumOf(SizesOf(r)) <= SumOf(SizesOf(q)) + t.size
      /\ n < MaxTicksPerMinute =>
            /\ Len(q) < MaxTicksPerMinute
            /\ r[1] = q[1]
            /\ \A j \in DOMAIN q : \E i \in DOMAIN r : r[i] = q[j]
            /\ SumOf(SizesOf(r)) = SumOf(SizesOf(q)) + t.size
  BY <1>5, RememberedTicks
<1>7. \A j \in DOMAIN q : q[j].price \in Int
  <2>1. \A j \in DOMAIN q : q[j] \in Ticks
    BY <1>5
  <2> QED BY <2>1, TickTypes
<1>8. n \in DOMAIN r /\ n \in Nat
  BY <1>6
<1> HIDE DEF c, r, n
<1>9. ASSUME NEW i \in DOMAIN r PROVE c.low <= r[i].price /\ r[i].price <= c.high
  <2>1. CASE r[i] = t
    BY <1>4, <2>1
  <2>2. CASE \E j \in DOMAIN q : r[i] = q[j]
    BY <1>1, <1>4, <1>5, <1>7, <2>2
  <2> QED BY <1>6, <2>1, <2>2
<1>10. c.close = r[n].price /\ c.low <= c.open /\ c.open <= c.high
       /\ SumOf(SizesOf(r)) <= c.volume
  <2>1. c.close = r[n].price
    BY <1>2, <1>6
  <2>2. c.low <= c.open /\ c.open <= c.high
    BY <1>1, <1>2, <1>4, <1>5
  <2>3. SumOf(SizesOf(r)) <= c.volume
    BY <1>1, <1>2, <1>5, <1>6
  <2> QED BY <2>1, <2>2, <2>3
<1>11. ASSUME n < MaxTicksPerMinute
       PROVE  /\ c.open = r[1].price
              /\ \E i \in DOMAIN r : r[i].price = c.low
              /\ \E i \in DOMAIN r : r[i].price = c.high
              /\ SumOf(SizesOf(r)) = c.volume
  <2>1. /\ bar.open = q[1].price
        /\ \E i \in DOMAIN q : q[i].price = bar.low
        /\ \E i \in DOMAIN q : q[i].price = bar.high
        /\ SumOf(SizesOf(q)) = bar.volume
    BY <1>5, <1>6, <1>11
  <2>2. \E i \in DOMAIN r : r[i].price = c.low
    <3>1. CASE c.low = bar.low
      BY <1>6, <1>11, <2>1, <3>1
    <3>2. CASE c.low = t.price
      BY <1>6, <1>8, <3>2
    <3> QED BY <1>4, <3>1, <3>2
  <2>3. \E i \in DOMAIN r : r[i].price = c.high
    <3>1. CASE c.high = bar.high
      BY <1>6, <1>11, <2>1, <3>1
    <3>2. CASE c.high = t.price
      BY <1>6, <1>8, <3>2
    <3> QED BY <1>4, <3>1, <3>2
  <2> QED BY <1>2, <1>6, <1>11, <2>1, <2>2, <2>3
<1>12. Summarises(c, r)
  BY <1>6, <1>9, <1>10, <1>11 DEF Summarises, n
<1> QED BY <1>2, <1>3, <1>12 DEF c, r

-----------------------------------------------------------------------------
(* The running bars and the tick deques of a symbol *)

MinutesIn(bars) == {bars[i].minute : i \in DOMAIN bars}
VolumesAt(bars, m) == [i \in DOMAIN bars |-> IF bars[i].minute = m THEN bars[i].volume ELSE 0]

(* One bar and one deque for each minute that has any, and they agree.      *)
Books(bars, ticks) ==
    /\ bars \in Seq(MinuteBars)
    /\ \A i, j \in DOMAIN bars : bars[i].minute = bars[j].minute => i = j
    /\ DOMAIN ticks = MinutesIn(bars)
    /\ \A i \in DOMAIN bars : Summarises(bars[i], ticks[bars[i].minute])

(* A bar's minute and volume are naturals.                                  *)
LEMMA BarTypes ==
    \A bar \in MinuteBars : bar.minute \in Minutes /\ bar.minute \in Nat /\ bar.volume \in Nat
BY DEF MinuteBars, Minutes

(* The volume of a minute in a list of running bars is a sum of naturals.   *)
LEMMA VolumeTypes ==
    ASSUME NEW bars \in Seq(MinuteBars), NEW m
    PROVE  /\ VolumesAt(bars, m) \in Seq(Nat) /\ VolumesAt(bars, m) \in Seq(Int)
           /\ Len(VolumesAt(bars, m)) = Len(bars)
           /\ VolumeIn(bars, m) = SumOf(VolumesAt(bars, m))
           /\ VolumeIn(bars, m) \in Nat
<1>1. \A i \in DOMAIN bars : bars[i] \in MinuteBars /\ bars[i].volume \in Nat
  BY BarTypes
<1>2. /\ VolumesAt(bars, m) \in Seq(Nat) /\ VolumesAt(bars, m) \in Seq(Int)
      /\ Len(VolumesAt(bars, m)) = Len(bars)
  BY <1>1 DEF VolumesAt
<1>3. VolumeIn(bars, m) = SumOf(VolumesAt(bars, m))
  BY DEF VolumeIn, VolumesAt
<1> QED BY <1>2, <1>3, SumOfType

(* The first tick of a minute.                                              *)
LEMMA OpenKeepsBooks ==
    ASSUME NEW bars, NEW ticks, Books(bars, ticks), NEW m \in Minutes \ MinutesIn(bars),
           NEW t \in Ticks
    PROVE  /\ Books(Append(bars, OpenBar(m, t)),
                    [n \in DOMAIN ticks \union {m} |-> IF n = m THEN <<t>> ELSE ticks[n]])
           /\ \A n \in Minutes : VolumeIn(Append(bars, OpenBar(m, t)), n)
                                   = VolumeIn(bars, n) + (IF n = m THEN t.size ELSE 0)
<1> DEFINE bar == OpenBar(m, t)
           more == Append(bars, bar)
           deques == [n \in DOMAIN ticks \union {m} |-> IF n = m THEN <<t>> ELSE ticks[n]]
<1>1. bar \in MinuteBars /\ bar.minute = m /\ bar.volume = t.size /\ Summarises(bar, <<t>>)
  BY OpenSummarises
<1>2. /\ bars \in Seq(MinuteBars) /\ DOMAIN ticks = MinutesIn(bars)
      /\ \A i, j \in DOMAIN bars : bars[i].minute = bars[j].minute => i = j
      /\ \A i \in DOMAIN bars : Summarises(bars[i], ticks[bars[i].minute])
  BY DEF Books
<1> HIDE DEF bar
<1>3. /\ more \in Seq(MinuteBars) /\ DOMAIN more = (DOMAIN bars) \union {Len(bars) + 1}
      /\ \A i \in DOMAIN bars : more[i] = bars[i]
      /\ more[Len(bars) + 1] = bar /\ Len(bars) + 1 \notin DOMAIN bars
  BY <1>1, <1>2
<1>4. \A i \in DOMAIN bars : bars[i].minute \in MinutesIn(bars) /\ bars[i].minute # m
  BY DEF MinutesIn
<1> HIDE DEF more
<1>5. \A i, j \in DOMAIN more : more[i].minute = more[j].minute => i = j
  BY <1>1, <1>2, <1>3, <1>4
<1>6. DOMAIN deques = MinutesIn(more)
  BY <1>1, <1>2, <1>3 DEF MinutesIn
<1>7. \A i \in DOMAIN more : Summarises(more[i], deques[more[i].minute])
  <2>1. \A i \in DOMAIN bars : deques[bars[i].minute] = ticks[bars[i].minute]
    BY <1>2, <1>4
  <2>2. deques[m] = <<t>>
    OBVIOUS
  <2> HIDE DEF deques
  <2> QED BY <1>1, <1>2, <1>3, <2>1, <2>2, SMTT(60)
<1>8. Books(more, deques)
  BY <1>3, <1>5, <1>6, <1>7 DEF Books
<1>9. ASSUME NEW n \in Minutes
      PROVE  VolumeIn(more, n) = VolumeIn(bars, n) + (IF n = m THEN t.size ELSE 0)
  <2> DEFINE x == IF n = m THEN t.size ELSE 0
  <2>1. x \in Int
    BY TickTypes
  <2>2. VolumesAt(more, n) = Append(VolumesAt(bars, n), x)
    <3> HIDE DEF x
    <3>1. x = IF bar.minute = n THEN bar.volume ELSE 0
      BY <1>1 DEF x
    <3> QED BY <1>2, <3>1 DEF VolumesAt, more
  <2> HIDE DEF x
  <2>3. VolumesAt(bars, n) \in Seq(Int)
    BY <1>2, VolumeTypes
  <2>4. SumOf(VolumesAt(more, n)) = SumOf(VolumesAt(bars, n)) + x
    BY <2>1, <2>2, <2>3, SumOfAppend
  <2> QED BY <1>2, <1>3, <2>4, VolumeTypes DEF x
<1> QED BY <1>8, <1>9 DEF more, bar

(* A further tick of a minute.                                              *)
LEMMA MergeKeepsBooks ==
    ASSUME NEW bars, NEW ticks, Books(bars, ticks), NEW m \in MinutesIn(bars), NEW t \in Ticks
    PROVE  LET merged == [i \in DOMAIN bars |->
                              IF bars[i].minute = m THEN Merge(bars[i], t) ELSE bars[i]]
           IN /\ Books(merged, [ticks EXCEPT ![m] = Remember(@, t)])
              /\ \A n \in Minutes : VolumeIn(merged, n)
                                      = VolumeIn(bars, n) + (IF n = m THEN t.size ELSE 0)
<1> DEFINE merged == [i \in DOMAIN bars |->
                          IF bars[i].minute = m THEN Merge(bars[i], t) ELSE bars[i]]
           deques == [ticks EXCEPT ![m] = Remember(@, t)]
<1>1. /\ bars \in Seq(MinuteBars) /\ DOMAIN ticks = MinutesIn(bars)
      /\ \A i, j \in DOMAIN bars : bars[i].minute = bars[j].minute => i = j
      /\ \A i \in DOMAIN bars : Summarises(bars[i], ticks[bars[i].minute])
  BY DEF Books
<1>2. PICK k \in DOMAIN bars : bars[k].minute = m
  BY DEF MinutesIn
<1>3. \A i \in DOMAIN bars : bars[i] \in MinuteBars /\ bars[i].minute \in MinutesIn(bars)
  BY <1>1 DEF MinutesIn
<1>4. /\ Merge(bars[k], t) \in MinuteBars /\ Merge(bars[k], t).minute = m
      /\ Merge(bars[k], t).volume = bars[k].volume + t.size
      /\ Summarises(Merge(bars[k], t), Remember(ticks[m], t))
  BY <1>1, <1>2, <1>3, MergeSummarises
<1>5. /\ DOMAIN merged = DOMAIN bars /\ merged[k] = Merge(bars[k], t)
      /\ \A i \in DOMAIN bars : i # k => merged[i] = bars[i] /\ bars[i].minute # m
  BY <1>1, <1>2
<1>6. merged \in Seq(MinuteBars) /\ Len(merged) = Len(bars)
  <2>1. \A i \in DOMAIN bars : merged[i] \in MinuteBars
    BY <1>3, <1>4, <1>5
  <2>2. DOMAIN bars = 1 .. Len(bars) /\ Len(bars) \in Nat
    BY <1>1
  <2>3. merged = [i \in 1 .. Len(bars) |-> merged[i]]
    BY <2>2
  <2> HIDE DEF merged
  <2> QED BY <2>1, <2>2, <2>3
<1>7. /\ DOMAIN deques = DOMAIN ticks /\ deques[m] = Remember(ticks[m], t)
      /\ \A n \in DOMAIN ticks : n # m => deques[n] = ticks[n]
  BY <1>1
<1> HIDE DEF merged, deques
<1>8. \A i \in DOMAIN bars : merged[i].minute = bars[i].minute
  BY <1>2, <1>4, <1>5
<1>9. \A i, j \in DOMAIN merged : merged[i].minute = merged[j].minute => i = j
  BY <1>1, <1>5, <1>8
<1>10. DOMAIN deques = MinutesIn(merged)
  BY <1>1, <1>5, <1>7, <1>8 DEF MinutesIn
<1>11. ASSUME NEW i \in DOMAIN merged PROVE Summarises(merged[i], deques[merged[i].minute])
  <2>1. CASE i = k
    BY <1>4, <1>5, <1>7, <2>1
  <2>2. CASE i # k
    <3>1. merged[i] = bars[i] /\ bars[i].minute # m /\ bars[i].minute \in DOMAIN ticks
      BY <1>1, <1>3, <1>5, <2>2
    <3> QED BY <1>1, <1>5, <1>7, <3>1
  <2> QED BY <2>1, <2>2
<1>12. Books(merged, deques)
  BY <1>6, <1>9, <1>10, <1>11 DEF Books
<1>13. ASSUME NEW n \in Minutes
       PROVE  VolumeIn(merged, n) = VolumeIn(bars, n) + (IF n = m THEN t.size ELSE 0)
  <2> DEFINE x == IF n = m THEN t.size ELSE 0
             v == VolumesAt(merged, n)
             w == VolumesAt(bars, n)
  <2>0. DOMAIN w = DOMAIN bars
    BY DEF VolumesAt
  <2>1. v \in Seq(Int) /\ w \in Seq(Int) /\ Len(v) = Len(w) /\ DOMAIN w = DOMAIN bars
        /\ VolumeIn(merged, n) = SumOf(v) /\ VolumeIn(bars, n) = SumOf(w)
    <3> HIDE DEF v, w
    <3>1. v \in Seq(Int) /\ Len(v) = Len(merged) /\ VolumeIn(merged, n) = SumOf(v)
      BY <1>6, VolumeTypes DEF v
    <3>2. w \in Seq(Int) /\ Len(w) = Len(bars) /\ VolumeIn(bars, n) = SumOf(w)
      BY <1>1, VolumeTypes DEF w
    <3> QED BY <1>6, <2>0, <3>1, <3>2
  <2>2. \A j \in DOMAIN w : j # k => v[j] = w[j]
    BY <1>5 DEF VolumesAt
  <2>3. v[k] - w[k] = x
    <3>1. bars[k].volume \in Nat /\ t.size \in Nat
      BY <1>3, BarTypes, TickTypes
    <3>2. v[k] = IF n = m THEN bars[k].volume + t.size ELSE 0
      BY <1>2, <1>4, <1>5 DEF VolumesAt
    <3>3. w[k] = IF n = m THEN bars[k].volume ELSE 0
      BY <1>2 DEF VolumesAt
    <3> HIDE DEF v, w
    <3> QED BY <3>1, <3>2, <3>3
  <2> HIDE DEF v, w, x
  <2>4. SumOf(v) = SumOf(w) + (v[k] - w[k])
    BY <2>1, <2>2, SumOfChange
  <2> QED BY <2>1, <2>3, <2>4 DEF x
<1> QED BY <1>12, <1>13 DEF merged, deques

(* The bars a flush leaves, and those it takes.                             *)
Before(bars, now) == Picked(bars, {i \in DOMAIN bars : bars[i].minute < now})
From(bars, now) == Picked(bars, {i \in DOMAIN bars : bars[i].minute >= now})

(* A flush (get_ready_bars) keeps the books of what it leaves: the minutes  *)
(* that are not over go on as they were.                                    *)
LEMMA FlushKeepsBooks ==
    ASSUME NEW bars, NEW ticks, Books(bars, ticks), NEW now \in Nat
    PROVE  Books(From(bars, now), [n \in {m \in DOMAIN ticks : m >= now} |-> ticks[n]])
<1> DEFINE K == {i \in DOMAIN bars : bars[i].minute >= now}
           c == Cardinality(K)
           rest == From(bars, now)
           deques == [n \in {m \in DOMAIN ticks : m >= now} |-> ticks[n]]
<1>1. /\ bars \in Seq(MinuteBars) /\ DOMAIN ticks = MinutesIn(bars)
      /\ \A i, j \in DOMAIN bars : bars[i].minute = bars[j].minute => i = j
      /\ \A i \in DOMAIN bars : Summarises(bars[i], ticks[bars[i].minute])
  BY DEF Books
<1>2. K \in SUBSET DOMAIN bars
  OBVIOUS
<1>3. rest = Picked(bars, K)
  BY DEF From
<1>4. \A i \in DOMAIN bars : bars[i].minute \in MinutesIn(bars)
  BY DEF MinutesIn
<1>5. \A i \in DOMAIN bars : i \in K <=> bars[i].minute >= now
  OBVIOUS
<1> HIDE DEF K, rest
<1>6. rest \in Seq(MinuteBars) /\ Len(rest) = c /\ c \in Nat
  BY <1>1, <1>2, <1>3, PickedElements
<1>7. PICK at \in [1 .. c -> K] :
          /\ \A i \in 1 .. c : rest[i] = bars[at[i]]
          /\ \A i, j \in 1 .. c : i < j => at[i] < at[j]
          /\ \A k \in K : \E i \in 1 .. c : at[i] = k
  BY <1>1, <1>2, <1>3, PickedElements
<1>8. DOMAIN rest = 1 .. c
  BY <1>6
<1> HIDE DEF c
<1>9. \A i \in 1 .. c : at[i] \in K /\ at[i] \in DOMAIN bars /\ at[i] \in Nat
  BY <1>1, <1>2, <1>7
<1>10. ASSUME NEW i \in DOMAIN rest, NEW j \in DOMAIN rest, rest[i].minute = rest[j].minute
       PROVE  i = j
  <2>1. at[i] = at[j]
    BY <1>1, <1>7, <1>8, <1>9, <1>10
  <2>2. ~(i < j) /\ ~(j < i)
    BY <1>7, <1>8, <1>9, <2>1
  <2>3. i \in Nat /\ j \in Nat
    BY <1>6, <1>8
  <2> QED BY <2>2, <2>3
<1>11. DOMAIN deques = MinutesIn(rest)
  <2>1. ASSUME NEW m \in DOMAIN deques PROVE m \in MinutesIn(rest)
    <3>1. m \in MinutesIn(bars) /\ m >= now
      BY <1>1
    <3>2. PICK k \in DOMAIN bars : bars[k].minute = m
      BY <3>1 DEF MinutesIn
    <3>3. k \in K
      BY <1>5, <3>1, <3>2
    <3> QED BY <1>7, <1>8, <3>2, <3>3 DEF MinutesIn
  <2>2. ASSUME NEW i \in DOMAIN rest PROVE rest[i].minute \in DOMAIN deques
    BY <1>1, <1>4, <1>5, <1>7, <1>8, <1>9
  <2> QED BY <2>1, <2>2 DEF MinutesIn
<1>12. ASSUME NEW i \in DOMAIN rest PROVE Summarises(rest[i], deques[rest[i].minute])
  <2>1. rest[i] = bars[at[i]] /\ at[i] \in DOMAIN bars
    BY <1>7, <1>8, <1>9
  <2>2. rest[i].minute \in DOMAIN deques
    BY <1>8, <1>11, <1>12 DEF MinutesIn
  <2>3. deques[rest[i].minute] = ticks[bars[at[i]].minute]
    BY <2>1, <2>2
  <2> QED BY <1>1, <2>1, <2>3
<1>13. Books(rest, deques)
  BY <1>6, <1>10, <1>11, <1>12 DEF Books
<1> QED BY <1>13 DEF rest

(* No volume is lost between the bars that leave and those that stay, and   *)
(* the one bar that is handed out is among those that leave.                *)
LEMMA FlushDividesVolume ==
    ASSUME NEW bars \in Seq(MinuteBars), NEW now \in Nat, NEW m
    PROVE  /\ Before(bars, now) \in Seq(MinuteBars) /\ From(bars, now) \in Seq(MinuteBars)
           /\ VolumeIn(bars, m) = VolumeIn(Before(bars, now), m) + VolumeIn(From(bars, now), m)
           /\ \A i \in DOMAIN Before(bars, now) :
                 Before(bars, now)[i].minute = m =>
                     Before(bars, now)[i].volume <= VolumeIn(Before(bars, now), m)
<1> DEFINE K == {i \in DOMAIN bars : bars[i].minute < now}
           w == VolumesAt(bars, m)
<1>1. DOMAIN w = DOMAIN bars /\ w \in Seq(Int) /\ VolumeIn(bars, m) = SumOf(w)
  BY VolumeTypes DEF VolumesAt
<1>2. DOMAIN bars \ K = {i \in DOMAIN bars : bars[i].minute >= now}
  <2>1. \A i \in DOMAIN bars : bars[i].minute \in Nat
    BY BarTypes
  <2> QED BY <2>1
<1>3. Before(bars, now) = Picked(bars, K) /\ From(bars, now) = Picked(bars, DOMAIN bars \ K)
  BY <1>2 DEF Before, From
<1>4. K \in SUBSET DOMAIN bars /\ DOMAIN bars \ K \in SUBSET DOMAIN bars
  OBVIOUS
<1> HIDE DEF K
<1>5. ASSUME NEW J \in SUBSET DOMAIN bars
      PROVE  /\ Picked(bars, J) \in Seq(MinuteBars)
             /\ VolumesAt(Picked(bars, J), m) = Picked(w, J)
  <2>1. Picked(bars, J) \in Seq(MinuteBars) /\ Cardinality(J) \in Nat
        /\ J \in Places(Len(bars)) /\ Len(bars) \in Nat
    BY PickedElements DEF Places
  <2>2. Ascending(J) \in [1 .. Cardinality(J) -> J]
    BY <2>1, AscendingLists, PlacesAreBelow
  <2>3. \A i \in 1 .. Cardinality(J) : Ascending(J)[i] \in DOMAIN bars
    BY <2>2
  <2>4. DOMAIN Picked(bars, J) = 1 .. Cardinality(J)
    BY DEF Picked
  <2>5. \A i \in 1 .. Cardinality(J) :
            VolumesAt(Picked(bars, J), m)[i] = w[Ascending(J)[i]]
    BY <2>3, <2>4 DEF VolumesAt, Picked
  <2>6. VolumesAt(Picked(bars, J), m)
            = [i \in 1 .. Cardinality(J) |-> VolumesAt(Picked(bars, J), m)[i]]
    BY <2>4 DEF VolumesAt
  <2> HIDE DEF w
  <2>7. VolumesAt(Picked(bars, J), m) = [i \in 1 .. Cardinality(J) |-> w[Ascending(J)[i]]]
    BY <2>5, <2>6
  <2> QED BY <2>1, <2>7 DEF Picked
<1> HIDE DEF w
<1>6. SumOf(w) = SumOf(Picked(w, K)) + SumOf(Picked(w, DOMAIN w \ K))
  BY <1>1, <1>4, SumOfSplit
<1>7. /\ Before(bars, now) \in Seq(MinuteBars) /\ From(bars, now) \in Seq(MinuteBars)
      /\ VolumesAt(Before(bars, now), m) = Picked(w, K)
      /\ VolumesAt(From(bars, now), m) = Picked(w, DOMAIN w \ K)
  BY <1>1, <1>3, <1>4, <1>5
<1>8. /\ VolumeIn(Before(bars, now), m) = SumOf(Picked(w, K))
      /\ VolumeIn(From(bars, now), m) = SumOf(Picked(w, DOMAIN w \ K))
  BY <1>7, VolumeTypes
<1>9. ASSUME NEW i \in DOMAIN Before(bars, now), Before(bars, now)[i].minute = m
      PROVE  Before(bars, now)[i].volume <= VolumeIn(Before(bars, now), m)
  <2> DEFINE b == Before(bars, now)
  <2> HIDE DEF b
  <2>1. b \in Seq(MinuteBars) /\ i \in DOMAIN b /\ b[i].minute = m
    BY <1>7, <1>9 DEF b
  <2>2. i \in DOMAIN VolumesAt(b, m) /\ VolumesAt(b, m)[i] = b[i].volume
    BY <2>1 DEF VolumesAt
  <2>3. VolumesAt(b, m) \in Seq(Nat) /\ VolumeIn(b, m) = SumOf(VolumesAt(b, m))
    BY <2>1, VolumeTypes
  <2>4. VolumesAt(b, m)[i] <= SumOf(VolumesAt(b, m))
    BY <2>2, <2>3, SumOfAtLeast
  <2> QED BY <2>2, <2>3, <2>4 DEF b
<1> QED BY <1>1, <1>6, <1>7, <1>8, <1>9

-----------------------------------------------------------------------------
(* DataStreamBuffer *)

(* The buffer's invariants, a symbol at a time.                             *)
BufferInv ==
    /\ clock \in Minutes
    /\ DOMAIN running = Symbols /\ running = [s \in Symbols |-> running[s]]
    /\ DOMAIN buffer = Symbols
    /\ \A s \in Symbols : Books(running[s], buffer[s])
    /\ \A s \in DOMAIN ready : s \in Symbols /\ ready[s] \in MinuteBars
    /\ ledger \in [Symbols -> [Minutes -> Ledgers]]
    /\ VolumeConserved

(* The empty buffer of a start keeps the invariant.                         *)
LEMMA BufferStart == BufferInit => BufferInv
<1> SUFFICES ASSUME BufferInit PROVE BufferInv
  OBVIOUS
<1>1. clock \in Minutes
  BY BufferBoundsAssumption DEF BufferInit, Minutes
<1>2. ASSUME NEW s \in Symbols PROVE Books(running[s], buffer[s])
  BY DEF BufferInit, Books, MinutesIn
<1>3. ledger \in [Symbols -> [Minutes -> Ledgers]]
  BY DEF BufferInit, Ledgers
<1>4. ASSUME NEW s \in Symbols, NEW m \in Minutes
      PROVE  ledger[s][m].added
                 = ledger[s][m].returned + ledger[s][m].replaced + VolumeIn(running[s], m)
  <2>1. running[s] = <<>> /\ VolumesAt(<<>>, m) = <<>>
    BY DEF BufferInit, VolumesAt
  <2>2. VolumeIn(<<>>, m) = 0
    <3>1. <<>> \in Seq(MinuteBars)
      OBVIOUS
    <3> QED BY <2>1, <3>1, VolumeTypes, SumOfEmpty, Zenon
  <2> QED BY <2>1, <2>2 DEF BufferInit
<1>5. /\ running = [s \in Symbols |-> running[s]] /\ DOMAIN running = Symbols
      /\ DOMAIN buffer = Symbols /\ ready = <<>>
  BY DEF BufferInit
<1> QED BY <1>1, <1>2, <1>3, <1>4, <1>5 DEF BufferInv, VolumeConserved

(* AddTick changes the books of one symbol, and the volume of one minute.   *)
LEMMA AddTickKeepsBufferInv ==
    ASSUME BufferInv, NEW s \in Symbols, NEW m \in Minutes, NEW t \in Ticks, AddTick(s, m, t)
    PROVE  BufferInv'
<1>1. /\ running = [u \in Symbols |-> running[u]]
      /\ DOMAIN running = Symbols /\ DOMAIN buffer = Symbols
      /\ \A u \in Symbols : Books(running[u], buffer[u])
      /\ ledger \in [Symbols -> [Minutes -> Ledgers]]
      /\ clock' = clock /\ ready' = ready
      /\ ledger' = [ledger EXCEPT ![s][m].added = @ + t.size]
  BY DEF BufferInv, AddTick
<1>2. MinutesOf(s) = MinutesIn(running[s])
  BY DEF MinutesOf, MinutesIn
<1>3. /\ DOMAIN running' = Symbols /\ DOMAIN buffer' = Symbols
      /\ running' = [u \in Symbols |-> running'[u]]
      /\ \A u \in Symbols : u # s => running'[u] = running[u] /\ buffer'[u] = buffer[u]
      /\ Books(running'[s], buffer'[s])
      /\ \A n \in Minutes :
            VolumeIn(running'[s], n) = VolumeIn(running[s], n) + (IF n = m THEN t.size ELSE 0)
  <2>1. CASE m \in MinutesOf(s)
    <3> DEFINE merged == [i \in DOMAIN running[s] |->
                             IF running[s][i].minute = m THEN Merge(running[s][i], t)
                             ELSE running[s][i]]
               deques == [buffer[s] EXCEPT ![m] = Remember(@, t)]
    <3>1. /\ running' = [running EXCEPT ![s] = merged]
          /\ buffer' = [buffer EXCEPT ![s] = deques]
      BY <2>1 DEF AddTick
    <3>2. /\ Books(merged, deques)
          /\ \A n \in Minutes :
                VolumeIn(merged, n) = VolumeIn(running[s], n) + (IF n = m THEN t.size ELSE 0)
      <4>1. Books(running[s], buffer[s]) /\ m \in MinutesIn(running[s])
        BY <1>1, <1>2, <2>1
      <4> QED BY <4>1, MergeKeepsBooks, SMTT(60)
    <3> HIDE DEF merged, deques
    <3> QED BY <1>1, <3>1, <3>2
  <2>2. CASE m \notin MinutesOf(s)
    <3> DEFINE more == Append(running[s], OpenBar(m, t))
               deques == [n \in DOMAIN buffer[s] \union {m} |->
                             IF n = m THEN <<t>> ELSE buffer[s][n]]
    <3>1. /\ running' = [running EXCEPT ![s] = more]
          /\ buffer' = [buffer EXCEPT ![s] = deques]
      BY <2>2 DEF AddTick
    <3>2. /\ Books(more, deques)
          /\ \A n \in Minutes :
                VolumeIn(more, n) = VolumeIn(running[s], n) + (IF n = m THEN t.size ELSE 0)
      BY <1>1, <1>2, <2>2, OpenKeepsBooks, ZenonT(60)
    <3> HIDE DEF more, deques
    <3> QED BY <1>1, <3>1, <3>2
  <2> QED BY <2>1, <2>2
<1>4. t.size \in Nat
  BY TickTypes
<1>5. ledger' \in [Symbols -> [Minutes -> Ledgers]]
  <2> DEFINE entry == [ledger[s][m] EXCEPT !.added = @ + t.size]
  <2>1. ledger[s][m] \in Ledgers
    BY <1>1
  <2>2. entry \in Ledgers
    BY <1>4, <2>1 DEF Ledgers
  <2>3. ledger' = [ledger EXCEPT ![s] = [ledger[s] EXCEPT ![m] = entry]]
    BY <1>1
  <2> HIDE DEF entry
  <2>4. [ledger[s] EXCEPT ![m] = entry] \in [Minutes -> Ledgers]
    BY <1>1, <2>2
  <2> QED BY <1>1, <2>3, <2>4
<1>6. ASSUME NEW u \in Symbols, NEW n \in Minutes
      PROVE  ledger'[u][n].added
                 = ledger'[u][n].returned + ledger'[u][n].replaced + VolumeIn(running'[u], n)
  <2>1. /\ ledger[u][n].added
              = ledger[u][n].returned + ledger[u][n].replaced + VolumeIn(running[u], n)
        /\ ledger[u][n] \in Ledgers
    BY <1>1 DEF BufferInv, VolumeConserved
  <2>2. VolumeIn(running[u], n) \in Nat
    BY <1>1, VolumeTypes DEF Books
  <2>3. CASE u = s /\ n = m
    <3>1. /\ ledger'[u][n].added = ledger[u][n].added + t.size
          /\ ledger'[u][n].returned = ledger[u][n].returned
          /\ ledger'[u][n].replaced = ledger[u][n].replaced
      BY <1>1, <2>1, <2>3 DEF Ledgers
    <3>2. VolumeIn(running'[u], n) = VolumeIn(running[u], n) + t.size
      BY <1>3, <2>3
    <3> QED BY <1>4, <2>1, <2>2, <3>1, <3>2 DEF Ledgers
  <2>4. CASE ~(u = s /\ n = m)
    <3>1. ledger'[u][n] = ledger[u][n]
      BY <1>1, <2>4
    <3>2. VolumeIn(running'[u], n) = VolumeIn(running[u], n)
      BY <1>3, <2>2, <2>4
    <3> QED BY <2>1, <3>1, <3>2
  <2> QED BY <2>3, <2>4
<1>7. VolumeConserved'
  BY <1>6 DEF VolumeConserved, VolumeIn
<1>8. \A u \in Symbols : Books(running'[u], buffer'[u])
  BY <1>1, <1>3
<1>9. clock' \in Minutes /\ \A u \in DOMAIN ready' : u \in Symbols /\ ready'[u] \in MinuteBars
  BY <1>1, SMTT(60) DEF BufferInv
<1> QED BY <1>3, <1>5, <1>7, <1>8, <1>9, Zenon DEF BufferInv, Books, MinutesIn, Summarises, SizesOf,
           Minutes, MinuteBars, Ticks, Ledgers

(* A flush gives a bar of its minute away, or drops it for a later one of   *)
(* the dict, with its volume.                                               *)
LEMMA GetReadyBarsKeepsBufferInv == BufferInv /\ GetReadyBars => BufferInv'
<1> SUFFICES ASSUME BufferInv, GetReadyBars PROVE BufferInv'
  OBVIOUS
<1>1. /\ clock \in Nat /\ clock \in Minutes /\ clock' = clock
      /\ \A s \in Symbols : Books(running[s], buffer[s]) /\ running[s] \in Seq(MinuteBars)
      /\ ledger \in [Symbols -> [Minutes -> Ledgers]]
  <2>1. clock \in Nat /\ clock \in Minutes /\ clock' = clock
    <3>1. clock \in Minutes /\ \A m \in Minutes : m \in Nat
      BY DEF BufferInv, Minutes
    <3> QED BY <3>1 DEF GetReadyBars
  <2>2. \A s \in Symbols : Books(running[s], buffer[s])
    BY DEF BufferInv
  <2>3. \A s \in Symbols : running[s] \in Seq(MinuteBars)
    BY <2>2 DEF Books
  <2>4. ledger \in [Symbols -> [Minutes -> Ledgers]]
    BY DEF BufferInv
  <2> QED BY <2>1, <2>2, <2>3, <2>4
<1>2. \A s \in Symbols : /\ ReadyBars(s) = Before(running[s], clock)
                         /\ RunningOn(s) = From(running[s], clock)
  BY DEF ReadyBars, RunningOn, Before, From
<1>3. ASSUME NEW s \in Symbols
      PROVE  /\ running'[s] = From(running[s], clock)
             /\ buffer'[s] = [m \in {n \in DOMAIN buffer[s] : n >= clock} |-> buffer[s][m]]
  BY <1>2 DEF GetReadyBars
<1>4. /\ DOMAIN running' = Symbols /\ DOMAIN buffer' = Symbols
      /\ running' = [s \in Symbols |-> running'[s]]
  BY DEF GetReadyBars
<1>5. \A s \in Symbols : Books(running'[s], buffer'[s])
  <2> SUFFICES ASSUME NEW s \in Symbols PROVE Books(running'[s], buffer'[s])
    OBVIOUS
  <2>1. Books(running[s], buffer[s]) /\ clock \in Nat
    BY <1>1
  <2>2. Books(From(running[s], clock),
              [n \in {m \in DOMAIN buffer[s] : m >= clock} |-> buffer[s][n]])
    BY <2>1, FlushKeepsBooks
  <2> QED BY <1>3, <2>2
<1>6. ASSUME NEW s \in Symbols
      PROVE  /\ ReadyBars(s) \in Seq(MinuteBars)
             /\ \A m \in Minutes :
                   /\ VolumeIn(ReadyBars(s), m) \in Nat /\ VolumeIn(running'[s], m) \in Nat
                   /\ VolumeIn(running[s], m)
                         = VolumeIn(ReadyBars(s), m) + VolumeIn(running'[s], m)
                   /\ VolumeReturned(s, m) \in Nat
                   /\ VolumeReturned(s, m) <= VolumeIn(ReadyBars(s), m)
  <2>1. ReadyBars(s) = Before(running[s], clock) /\ running'[s] = From(running[s], clock)
    BY <1>2, <1>3
  <2>2. ReadyBars(s) \in Seq(MinuteBars) /\ running'[s] \in Seq(MinuteBars)
    BY <1>1, <2>1, FlushDividesVolume
  <2>3. ASSUME NEW m \in Minutes
        PROVE  /\ VolumeIn(ReadyBars(s), m) \in Nat /\ VolumeIn(running'[s], m) \in Nat
               /\ VolumeIn(running[s], m)
                     = VolumeIn(ReadyBars(s), m) + VolumeIn(running'[s], m)
               /\ VolumeReturned(s, m) \in Nat
               /\ VolumeReturned(s, m) <= VolumeIn(ReadyBars(s), m)
    <3>1. VolumeIn(ReadyBars(s), m) \in Nat /\ VolumeIn(running'[s], m) \in Nat
      BY <2>2, VolumeTypes
    <3>2. /\ VolumeIn(running[s], m) = VolumeIn(ReadyBars(s), m) + VolumeIn(running'[s], m)
          /\ \A i \in DOMAIN ReadyBars(s) : ReadyBars(s)[i].minute = m =>
                ReadyBars(s)[i].volume <= VolumeIn(ReadyBars(s), m)
      <4>1. running[s] \in Seq(MinuteBars) /\ clock \in Nat
        BY <1>1
      <4> DEFINE b == running[s]
      <4> HIDE DEF b
      <4>2. /\ VolumeIn(b, m) = VolumeIn(Before(b, clock), m) + VolumeIn(From(b, clock), m)
            /\ \A i \in DOMAIN Before(b, clock) : Before(b, clock)[i].minute = m =>
                  Before(b, clock)[i].volume <= VolumeIn(Before(b, clock), m)
        BY <4>1, FlushDividesVolume DEF b
      <4> QED BY <2>1, <4>2 DEF b
    <3>3. VolumeReturned(s, m) \in Nat /\ VolumeReturned(s, m) <= VolumeIn(ReadyBars(s), m)
      <4>1. CASE ReadyBars(s) # <<>> /\ ReturnedBar(s).minute = m
        <5>1. Len(ReadyBars(s)) \in DOMAIN ReadyBars(s)
          BY <2>2, <4>1
        <5>2. ReturnedBar(s) = ReadyBars(s)[Len(ReadyBars(s))]
          BY DEF ReturnedBar, Last
        <5>3. ReturnedBar(s).volume \in Nat
          BY <2>2, <5>1, <5>2, BarTypes
        <5> QED BY <3>2, <4>1, <5>1, <5>2, <5>3 DEF VolumeReturned
      <4>2. CASE ~(ReadyBars(s) # <<>> /\ ReturnedBar(s).minute = m)
        BY <3>1, <4>2 DEF VolumeReturned
      <4> QED BY <4>1, <4>2
    <3> QED BY <3>1, <3>2, <3>3
  <2> QED BY <2>2, <2>3
<1>7. ASSUME NEW s \in Symbols, NEW m \in Minutes
      PROVE  /\ ledger'[s][m] \in Ledgers
             /\ ledger'[s][m].added
                   = ledger'[s][m].returned + ledger'[s][m].replaced + VolumeIn(running'[s], m)
  <2> DEFINE v == VolumeReturned(s, m)
             x == VolumeIn(ReadyBars(s), m)
             y == VolumeIn(running'[s], m)
             l == ledger[s][m]
  <2>1. /\ v \in Nat /\ x \in Nat /\ y \in Nat /\ v <= x /\ l \in Ledgers
        /\ VolumeIn(running[s], m) = x + y
    BY <1>1, <1>6
  <2>2. l.added = l.returned + l.replaced + VolumeIn(running[s], m)
    BY DEF BufferInv, VolumeConserved
  <2>3. ledger'[s][m] = [l EXCEPT !.returned = @ + v, !.replaced = @ + x - v]
    BY DEF GetReadyBars
  <2> HIDE DEF v, x, y, l
  <2>4. /\ l.added \in Nat /\ l.returned \in Nat /\ l.replaced \in Nat
        /\ l.returned + v \in Nat /\ l.replaced + x - v \in Nat
    BY <2>1 DEF Ledgers
  <2>5. /\ ledger'[s][m] \in Ledgers
        /\ ledger'[s][m].added = l.added
        /\ ledger'[s][m].returned = l.returned + v
        /\ ledger'[s][m].replaced = l.replaced + x - v
    BY <2>1, <2>3, <2>4 DEF Ledgers
  <2>6. ledger'[s][m].added = ledger'[s][m].returned + ledger'[s][m].replaced + y
    BY <2>1, <2>2, <2>4, <2>5
  <2> QED BY <2>5, <2>6 DEF y
<1>8. ledger' \in [Symbols -> [Minutes -> Ledgers]]
  <2>1. /\ DOMAIN ledger' = Symbols /\ ledger' = [s \in Symbols |-> ledger'[s]]
        /\ \A s \in Symbols : ledger'[s] = [m \in Minutes |-> ledger'[s][m]]
    BY DEF GetReadyBars
  <2>2. \A s \in Symbols : ledger'[s] \in [Minutes -> Ledgers]
    BY <1>7, <2>1
  <2> QED BY <2>1, <2>2
<1>9. VolumeConserved'
  BY <1>7 DEF VolumeConserved, VolumeIn
<1>10. ASSUME NEW s \in DOMAIN ready' PROVE s \in Symbols /\ ready'[s] \in MinuteBars
  <2>1. s \in Symbols /\ ReadyBars(s) # <<>> /\ ready'[s] = ReturnedBar(s)
    BY DEF GetReadyBars
  <2>2. ReadyBars(s) \in Seq(MinuteBars)
    BY <1>6, <2>1
  <2>3. Len(ReadyBars(s)) \in DOMAIN ReadyBars(s)
    BY <2>1, <2>2, SMTT(60)
  <2> QED BY <2>1, <2>2, <2>3 DEF ReturnedBar, Last
<1> QED BY <1>1, <1>4, <1>5, <1>8, <1>9, <1>10, Zenon DEF BufferInv, Books, MinutesIn,
           Summarises, SizesOf, Minutes, MinuteBars, Ticks, Ledgers

(* Nothing of the invariant but the range of the clock is about the clock.  *)
LEMMA BooksStay ==
    ASSUME BufferInv, clock' \in Minutes,
           running' = running, buffer' = buffer, ready' = ready, ledger' = ledger
    PROVE  BufferInv'
<1>1. \A s \in Symbols : Books(running'[s], buffer'[s])
  BY DEF BufferInv
<1>2. VolumeConserved'
  BY DEF BufferInv, VolumeConserved, VolumeIn
<1>3. /\ DOMAIN running' = Symbols /\ DOMAIN buffer' = Symbols
      /\ running' = [s \in Symbols |-> running'[s]]
      /\ \A s \in DOMAIN ready' : s \in Symbols /\ ready'[s] \in MinuteBars
      /\ ledger' \in [Symbols -> [Minutes -> Ledgers]]
  BY DEF BufferInv
<1> QED BY <1>1, <1>2, <1>3, Zenon DEF BufferInv, Books, MinutesIn, Summarises, SizesOf, Minutes,
           MinuteBars, Ticks, Ledgers

(* So does a step that leaves the buffer alone.                             *)
LEMMA BufferStutters == BufferInv /\ UNCHANGED bufferVars => BufferInv'
<1> SUFFICES ASSUME BufferInv, UNCHANGED bufferVars PROVE BufferInv'
  OBVIOUS
<1>1. clock' = clock /\ clock \in Minutes
  BY DEF BufferInv, bufferVars
<1>2. running' = running /\ buffer' = buffer /\ ready' = ready /\ ledger' = ledger
  BY DEF bufferVars
<1> QED BY <1>1, <1>2, BooksStay

(* So does the passing of a minute, which only moves the clock.             *)
LEMMA NextMinuteKeepsBufferInv == BufferInv /\ NextMinute => BufferInv'
<1> SUFFICES ASSUME BufferInv, NextMinute PROVE BufferInv'
  OBVIOUS
<1>1. clock' \in Minutes
  BY BufferBoundsAssumption DEF BufferInv, NextMinute, Minutes
<1>2. running' = running /\ buffer' = buffer /\ ready' = ready /\ ledger' = ledger
  BY DEF NextMinute
<1> QED BY <1>1, <1>2, BooksStay

(* So does every step of the buffer.                                        *)
LEMMA BufferStep == BufferInv /\ [BufferNext]_bufferVars => BufferInv'
<1> SUFFICES ASSUME BufferInv, [BufferNext]_bufferVars PROVE BufferInv'
  OBVIOUS
<1>1. ASSUME NEW s \in Symbols, NEW m \in TickMinutes, NEW t \in Ticks, AddTick(s, m, t)
      PROVE  BufferInv'
  BY <1>1, AddTickKeepsBufferInv DEF TickMinutes
<1>2. CASE GetReadyBars
  BY <1>2, GetReadyBarsKeepsBufferInv
<1>3. CASE NextMinute
  BY <1>3, NextMinuteKeepsBufferInv
<1>4. CASE UNCHANGED bufferVars
  BY <1>4, BufferStutters
<1> QED BY <1>1, <1>2, <1>3, <1>4 DEF BufferNext

(* The invariant holds what the runs check of the buffer.                   *)
LEMMA BufferInvShows == BufferInv => BufferTypeOK /\ BarsSummariseTicks /\ VolumeConserved
<1> SUFFICES ASSUME BufferInv PROVE BufferTypeOK /\ BarsSummariseTicks /\ VolumeConserved
  OBVIOUS
<1>1. /\ clock \in Minutes /\ running = [s \in Symbols |-> running[s]]
      /\ \A s \in Symbols : Books(running[s], buffer[s])
      /\ \A s \in DOMAIN ready : s \in Symbols /\ ready[s] \in MinuteBars
      /\ ledger \in [Symbols -> [Minutes -> Ledgers]]
      /\ VolumeConserved
  BY DEF BufferInv
<1>2. ASSUME NEW s \in Symbols
      PROVE  /\ running[s] \in Seq(MinuteBars)
             /\ \A i, j \in DOMAIN running[s] :
                   running[s][i].minute = running[s][j].minute => i = j
             /\ DOMAIN buffer[s] = MinutesOf(s)
             /\ \A i \in DOMAIN running[s] :
                   Summarises(running[s][i], buffer[s][running[s][i].minute])
  BY <1>1 DEF Books, MinutesOf, MinutesIn
<1>3. ASSUME NEW s \in Symbols, NEW m \in MinutesOf(s)
      PROVE  /\ RunningBar(s, m) \in MinuteBars
             /\ Summarises(RunningBar(s, m), buffer[s][m])
  <2>1. PICK i \in DOMAIN running[s] : running[s][i].minute = m
    BY DEF MinutesOf
  <2>2. running[s][i] \in Range(running[s])
    BY DEF Range
  <2>3. RunningBar(s, m) \in Range(running[s]) /\ RunningBar(s, m).minute = m
    BY <2>1, <2>2 DEF RunningBar
  <2>4. PICK j \in DOMAIN running[s] : RunningBar(s, m) = running[s][j]
    BY <2>3 DEF Range
  <2> QED BY <1>2, <2>3, <2>4
<1>4. BufferTypeOK
  <2>1. running \in [Symbols -> Seq(MinuteBars)]
    BY <1>1, <1>2
  <2>2. ASSUME NEW s \in Symbols
        PROVE  /\ IsInjective([i \in DOMAIN running[s] |-> running[s][i].minute])
               /\ DOMAIN buffer[s] = MinutesOf(s)
               /\ \A m \in MinutesOf(s) :
                     /\ buffer[s][m] \in Seq(Ticks)
                     /\ Len(buffer[s][m]) \in 1 .. MaxTicksPerMinute
    <3>1. IsInjective([i \in DOMAIN running[s] |-> running[s][i].minute])
      BY <1>2 DEF IsInjective
    <3>2. \A m \in MinutesOf(s) : /\ buffer[s][m] \in Seq(Ticks)
                                  /\ Len(buffer[s][m]) \in 1 .. MaxTicksPerMinute
      BY <1>3 DEF Summarises
    <3> QED BY <1>2, <3>1, <3>2
  <2> QED BY <1>1, <2>1, <2>2 DEF BufferTypeOK
<1>5. BarsSummariseTicks
  <2> SUFFICES ASSUME NEW s \in Symbols, NEW m \in MinutesOf(s)
               PROVE  LET bar == RunningBar(s, m)
                          q == buffer[s][m]
                          seen == {q[i].price : i \in DOMAIN q}
                          volume == SumOf([i \in DOMAIN q |-> q[i].size])
                      IN /\ bar.close = Last(q).price
                         /\ \A p \in seen : bar.low <= p /\ p <= bar.high
                         /\ bar.low <= bar.open /\ bar.open <= bar.high
                         /\ volume <= bar.volume
                         /\ Len(q) < MaxTicksPerMinute =>
                               /\ bar.open = Head(q).price
                               /\ {bar.low, bar.high} \subseteq seen
                               /\ volume = bar.volume
    BY DEF BarsSummariseTicks
  <2> DEFINE bar == RunningBar(s, m)
             q == buffer[s][m]
  <2>1. Summarises(bar, q)
    BY <1>3
  <2> HIDE DEF bar, q
  <2>2. Last(q) = q[Len(q)] /\ Head(q) = q[1]
    BY <2>1 DEF Last, Summarises
  <2>3. SizesOf(q) = [i \in DOMAIN q |-> q[i].size]
    BY DEF SizesOf
  <2> QED BY <2>1, <2>2, <2>3 DEF Summarises, bar, q
<1> QED BY <1>1, <1>4, <1>5

(* The buffer's state is of its type: a bar and a tick deque per minute     *)
(* that has any, no deque longer than max_ticks_per_minute.                 *)
THEOREM BufferIsTyped == BufferSpec => []BufferTypeOK
<1> QED BY BufferStart, BufferStep, BufferInvShows, PTL DEF BufferSpec

(* A running bar says of its ticks what the deque says of them, for any     *)
(* length of the deque and any trades, late or repeated.                    *)
THEOREM BarsAgreeWithTicks == BufferSpec => []BarsSummariseTicks
<1> QED BY BufferStart, BufferStep, BufferInvShows, PTL DEF BufferSpec

(* No trade's volume evaporates and none is counted twice.                  *)
THEOREM NoVolumeIsLost == BufferSpec => []VolumeConserved
<1> QED BY BufferStart, BufferStep, BufferInvShows, PTL DEF BufferSpec

-----------------------------------------------------------------------------
(* BarPipeline: the bars on their way *)

(* What is queued, in the writer's hands and stored are numbers of bars.    *)
BarsTyped ==
    /\ puts \in Seq(QueuedBars)
    /\ queue \in Seq(Nat) /\ \A k \in DOMAIN queue : queue[k] <= Len(puts)
    /\ batch \in Seq(Nat) /\ \A k \in DOMAIN batch : batch[k] \in 1 .. Len(puts)
    /\ mapped \in 0 .. Len(batch)
    /\ table \subseteq 1 .. Len(puts) /\ lost \subseteq 1 .. Len(puts)
    /\ decisions \in Seq(Nat)
    /\ \A k \in DOMAIN decisions : decisions[k] \in 1 .. Len(puts)

(* Whatever the writer holds was queued before what is on the queue, and    *)
(* what has its decision before what has not.                               *)
QueueInLine ==
    /\ \A k, l \in DOMAIN queue :
          k < l /\ queue[k] # Sentinel /\ queue[l] # Sentinel => queue[k] < queue[l]
    /\ \A k, l \in DOMAIN batch : k < l => batch[k] < batch[l]
    /\ \A k \in DOMAIN batch, l \in DOMAIN queue :
          queue[l] # Sentinel => batch[k] < queue[l]

DecisionsInLine ==
    \A d \in DOMAIN decisions :
        /\ \A k \in mapped + 1 .. Len(batch) : decisions[d] < batch[k]
        /\ \A l \in DOMAIN queue : queue[l] # Sentinel => decisions[d] < queue[l]

BarsInv ==
    BarsTyped /\ QueueInLine /\ DecisionsInLine /\ DecisionsFollowQueue
    /\ BarsAccountedFor /\ FirstQueuedWins

(* Where the threads are and what they hold.                                *)
Told == main \in {"clearingFlag", "joiningWriter", "exited"}
NoSentinel == \A k \in DOMAIN queue : queue[k] # Sentinel
OneSentinel == \E k \in DOMAIN queue : \A l \in DOMAIN queue : queue[l] = Sentinel <=> l = k

SentinelInv ==
    /\ ~Told => NoSentinel /\ writer \notin {"reputting", "done"}
    /\ Told => \/ writer = "done"
               \/ writer = "reputting" /\ NoSentinel
               \/ writer # "reputting" /\ OneSentinel
    /\ ~writing => Told

WriterHolds ==
    /\ writer \in {"top", "getting", "done"} => batch = <<>>
    /\ writer \in {"filling", "reputting"} => mapped = 0
    /\ Len(batch) <= BatchSize

FlusherHolds == flusher = "putting" => toPut \subseteq DOMAIN ready

ThreadsTyped ==
    /\ mock \in BOOLEAN /\ stream \in BOOLEAN /\ processing \in BOOLEAN /\ writing \in BOOLEAN
    /\ flusher \in FlusherPhases /\ writer \in WriterPhases /\ main \in MainPhases
    /\ toPut \subseteq Symbols
    /\ stoppedAt \in 0 .. Len(puts)

PipelineInv ==
    /\ BufferInv /\ BarsInv /\ ThreadsTyped
    /\ SentinelInv /\ WriterHolds /\ FlusherHolds

(* A step that moves no bar leaves the bars' invariant as it was.           *)
LEMMA BarsStay ==
    ASSUME BarsInv, puts' = puts, queue' = queue, UNCHANGED <<batch, mapped, table, lost, decisions>>
    PROVE  BarsInv'
<1>1. \A i, j : SameBar(i, j)' <=> SameBar(i, j)
  BY DEF SameBar
<1>2. \A i : InTable(i)' <=> InTable(i)
  BY DEF SameBar, InTable
<1>3. BarsTyped' /\ QueueInLine' /\ DecisionsInLine' /\ DecisionsFollowQueue'
  BY DEF BarsInv, BarsTyped, QueueInLine, DecisionsInLine, DecisionsFollowQueue, QueuedBars, Minutes
<1>4. BarsAccountedFor'
  <2>1. DOMAIN puts' = DOMAIN puts /\ Range(queue') = Range(queue) /\ Range(batch') = Range(batch)
    OBVIOUS
  <2> QED BY <1>2, <2>1 DEF BarsInv, BarsAccountedFor
<1>5. FirstQueuedWins'
  BY <1>1 DEF BarsInv, FirstQueuedWins
<1> QED BY <1>3, <1>4, <1>5 DEF BarsInv

(* A bar is queued: its number is greater than any before.                  *)
LEMMA PutKeepsBars ==
    ASSUME BarsInv, NEW s \in Symbols, NEW m \in Minutes,
           NEW from \in {"flushed", "official", "mock"}, Put(s, m, from),
           UNCHANGED <<batch, mapped, table, lost, decisions>>
    PROVE  BarsInv'
<1> DEFINE n == Len(puts)
           q == Len(queue)
<1>0. BarsTyped /\ QueueInLine /\ DecisionsInLine /\ DecisionsFollowQueue
      /\ BarsAccountedFor /\ FirstQueuedWins
  BY DEF BarsInv
<1>1. /\ n \in Nat /\ puts' \in Seq(QueuedBars) /\ Len(puts') = n + 1
      /\ DOMAIN puts = 1 .. n /\ DOMAIN puts' = 1 .. n + 1
      /\ \A i \in 1 .. n : puts'[i] = puts[i]
  <2>1. puts \in Seq(QueuedBars) /\ [symbol |-> s, minute |-> m, source |-> from] \in QueuedBars
    BY <1>0 DEF BarsTyped, QueuedBars
  <2> QED BY <2>1 DEF Put
<1>2. /\ q \in Nat /\ queue \in Seq(Nat) /\ queue' \in Seq(Nat)
      /\ DOMAIN queue = 1 .. q /\ DOMAIN queue' = 1 .. q + 1
      /\ \A k \in 1 .. q : queue'[k] = queue[k] /\ queue[k] <= n
      /\ queue'[q + 1] = n + 1
  BY <1>0, <1>1 DEF BarsTyped, Put
<1>3. /\ batch' = batch /\ mapped' = mapped /\ table' = table /\ lost' = lost
      /\ decisions' = decisions
      /\ batch \in Seq(Nat) /\ \A k \in DOMAIN batch : batch[k] \in 1 .. n
      /\ mapped \in 0 .. Len(batch)
      /\ table \subseteq 1 .. n /\ lost \subseteq 1 .. n
      /\ decisions \in Seq(Nat) /\ \A k \in DOMAIN decisions : decisions[k] \in 1 .. n
  BY <1>0 DEF BarsTyped
<1> HIDE DEF n, q
<1>4. \A i, j \in 1 .. n : SameBar(i, j)' <=> SameBar(i, j)
  BY <1>1 DEF SameBar
<1>5. BarsTyped'
  <2>1. 1 .. n \subseteq 1 .. n + 1
    BY <1>1
  <2>2. \A k \in DOMAIN queue' : queue'[k] <= n + 1
    BY <1>1, <1>2
  <2>3. \A k \in DOMAIN batch' : batch'[k] \in 1 .. n + 1
    BY <1>3, <2>1
  <2>4. \A k \in DOMAIN decisions' : decisions'[k] \in 1 .. n + 1
    BY <1>3, <2>1
  <2>5. table' \subseteq 1 .. n + 1 /\ lost' \subseteq 1 .. n + 1
    BY <1>3, <2>1
  <2>6. batch' \in Seq(Nat) /\ decisions' \in Seq(Nat) /\ mapped' \in 0 .. Len(batch')
    BY <1>3
  <2> QED BY <1>1, <1>2, <2>2, <2>3, <2>4, <2>5, <2>6 DEF BarsTyped, QueuedBars, Minutes
<1>6. QueueInLine'
  <2>1. ASSUME NEW k \in DOMAIN queue', NEW l \in DOMAIN queue', k < l,
               queue'[k] # Sentinel, queue'[l] # Sentinel
        PROVE  queue'[k] < queue'[l]
    <3>1. k \in 1 .. q
      BY <1>2, <2>1
    <3>2. CASE l \in 1 .. q
      BY <1>0, <1>2, <2>1, <3>1, <3>2 DEF QueueInLine
    <3>3. CASE l = q + 1
      BY <1>1, <1>2, <3>1, <3>3
    <3> QED BY <1>2, <3>2, <3>3
  <2>2. ASSUME NEW k \in DOMAIN batch', NEW l \in DOMAIN queue', queue'[l] # Sentinel
        PROVE  batch'[k] < queue'[l]
    <3>1. CASE l \in 1 .. q
      BY <1>0, <1>2, <1>3, <2>2, <3>1 DEF QueueInLine
    <3>2. CASE l = q + 1
      BY <1>1, <1>2, <1>3, <3>2
    <3> QED BY <1>2, <3>1, <3>2
  <2> QED BY <1>0, <1>3, <2>1, <2>2 DEF QueueInLine
<1>7. DecisionsInLine'
  <2>1. ASSUME NEW d \in DOMAIN decisions, NEW l \in DOMAIN queue', queue'[l] # Sentinel
        PROVE  decisions[d] < queue'[l]
    <3>1. CASE l \in 1 .. q
      BY <1>0, <1>2, <2>1, <3>1 DEF DecisionsInLine
    <3>2. CASE l = q + 1
      BY <1>1, <1>2, <1>3, <3>2
    <3> QED BY <1>2, <3>1, <3>2
  <2> QED BY <1>0, <1>3, <2>1 DEF DecisionsInLine
<1>8. DecisionsFollowQueue'
  BY <1>0, <1>3 DEF DecisionsFollowQueue
<1>9. BarsAccountedFor'
  <2> SUFFICES ASSUME NEW i \in DOMAIN puts'
               PROVE  \/ i \in Range(queue') \/ i \in Range(batch') \/ i \in lost' \/ InTable(i)'
    BY DEF BarsAccountedFor
  <2>1. CASE i = n + 1
    BY <1>2, <2>1 DEF Range
  <2>2. CASE i \in 1 .. n
    <3>1. i \in Range(queue) \/ i \in Range(batch) \/ i \in lost \/ InTable(i)
      BY <1>0, <1>1, <2>2 DEF BarsAccountedFor
    <3>2. i \in Range(queue) => i \in Range(queue')
      BY <1>2 DEF Range
    <3>3. InTable(i) => InTable(i)'
      BY <1>3, <1>4, <2>2 DEF InTable
    <3> QED BY <1>3, <3>1, <3>2, <3>3
  <2> QED BY <1>1, <2>1, <2>2
<1>10. FirstQueuedWins'
  <2> SUFFICES ASSUME NEW i \in table', NEW j \in DOMAIN puts', SameBar(i, j)'
               PROVE  (j < i => j \in lost') /\ (j \in table' => i = j)
    BY DEF FirstQueuedWins
  <2>1. i \in 1 .. n /\ (j < i \/ j \in table => j \in 1 .. n)
    BY <1>1, <1>3
  <2> QED BY <1>0, <1>1, <1>3, <1>4, <2>1 DEF FirstQueuedWins
<1> QED BY <1>5, <1>6, <1>7, <1>8, <1>9, <1>10 DEF BarsInv

(* The sentinel is put on the queue, or taken off its head: the bars are    *)
(* where they were.                                                         *)
LEMMA SentinelKeepsBars ==
    ASSUME BarsInv, puts' = puts, UNCHANGED <<batch, mapped, table, lost, decisions>>,
           \/ queue' = Append(queue, Sentinel)
           \/ queue # <<>> /\ Head(queue) = Sentinel /\ queue' = Tail(queue)
    PROVE  BarsInv'
<1>0. BarsTyped /\ QueueInLine /\ DecisionsInLine /\ DecisionsFollowQueue
      /\ BarsAccountedFor /\ FirstQueuedWins
  BY DEF BarsInv
<1>1. /\ queue \in Seq(Nat) /\ queue' \in Seq(Nat)
      /\ \A k \in DOMAIN queue : queue[k] <= Len(puts)
  <2>1. queue \in Seq(Nat) /\ \A k \in DOMAIN queue : queue[k] <= Len(puts)
    BY <1>0 DEF BarsTyped
  <2>2. CASE queue' = Append(queue, Sentinel)
    BY <2>1, <2>2 DEF Sentinel
  <2>3. CASE queue # <<>> /\ queue' = Tail(queue)
    BY <2>1, <2>3
  <2> QED BY <2>1, <2>2, <2>3
<1>2. PICK d \in {0, 1} :
          \A k \in DOMAIN queue' : queue'[k] # Sentinel =>
              k + d \in DOMAIN queue /\ queue'[k] = queue[k + d]
  <2>1. CASE queue' = Append(queue, Sentinel)
    <3>1. \A k \in DOMAIN queue' : queue'[k] # Sentinel =>
              k + 0 \in DOMAIN queue /\ queue'[k] = queue[k + 0]
      BY <1>1, <2>1
    <3> QED BY <3>1
  <2>2. CASE queue # <<>> /\ queue' = Tail(queue)
    <3>1. \A k \in DOMAIN queue' : queue'[k] # Sentinel =>
              k + 1 \in DOMAIN queue /\ queue'[k] = queue[k + 1]
      BY <1>1, <2>2
    <3> QED BY <3>1
  <2> QED BY <2>1, <2>2
<1>3. \A i \in Range(queue) : i # Sentinel => i \in Range(queue')
  <2> SUFFICES ASSUME NEW k \in DOMAIN queue, queue[k] # Sentinel
               PROVE  \E l \in DOMAIN queue' : queue'[l] = queue[k]
    BY DEF Range
  <2>1. CASE queue' = Append(queue, Sentinel)
    BY <1>1, <2>1
  <2>2. CASE queue # <<>> /\ Head(queue) = Sentinel /\ queue' = Tail(queue)
    <3>1. k # 1 /\ k - 1 \in DOMAIN queue' /\ queue'[k - 1] = queue[k]
      BY <1>1, <2>2
    <3> QED BY <3>1
  <2> QED BY <2>1, <2>2
<1>4. \A k \in DOMAIN queue' : k \in Nat /\ queue'[k] \in Nat
  BY <1>1
<1>5. BarsTyped'
  <2>1. Len(puts) \in Nat
    BY <1>0 DEF BarsTyped
  <2>2. \A k \in DOMAIN queue' : queue'[k] <= Len(puts)
    <3> SUFFICES ASSUME NEW k \in DOMAIN queue' PROVE queue'[k] <= Len(puts)
      OBVIOUS
    <3>1. queue'[k] = 0 \/ queue'[k] # Sentinel
      BY DEF Sentinel
    <3> QED BY <1>1, <1>2, <2>1, <3>1
  <2> QED BY <1>0, <1>1, <2>2 DEF BarsTyped, QueuedBars, Minutes
<1>6. QueueInLine'
  <2>1. ASSUME NEW k \in DOMAIN queue', NEW l \in DOMAIN queue', k < l,
               queue'[k] # Sentinel, queue'[l] # Sentinel
        PROVE  queue'[k] < queue'[l]
    <3>1. k + d < l + d
      BY <1>4, <2>1
    <3> QED BY <1>0, <1>2, <2>1, <3>1 DEF QueueInLine
  <2> QED BY <1>0, <1>2, <2>1 DEF QueueInLine
<1>7. DecisionsInLine' /\ DecisionsFollowQueue'
  BY <1>0, <1>2 DEF DecisionsInLine, DecisionsFollowQueue
<1>8. BarsAccountedFor'
  <2>1. \A i \in DOMAIN puts : i # Sentinel /\ (InTable(i) => InTable(i)')
    BY <1>0 DEF BarsTyped, Sentinel, InTable, SameBar
  <2> QED BY <1>0, <1>3, <2>1 DEF BarsAccountedFor
<1>9. FirstQueuedWins'
  BY <1>0 DEF FirstQueuedWins, SameBar
<1> QED BY <1>5, <1>6, <1>7, <1>8, <1>9 DEF BarsInv

(* The writer takes the next bar off the queue.                             *)
LEMMA TakeKeepsBars ==
    ASSUME BarsInv, puts' = puts, queue # <<>>, Head(queue) # Sentinel, queue' = Tail(queue),
           batch' = Append(batch, Head(queue)), UNCHANGED <<mapped, table, lost, decisions>>
    PROVE  BarsInv'
<1> DEFINE b == Len(batch)
           n == Len(puts)
<1>0. BarsTyped /\ QueueInLine /\ DecisionsInLine /\ DecisionsFollowQueue
      /\ BarsAccountedFor /\ FirstQueuedWins
  BY DEF BarsInv
<1>1. /\ queue \in Seq(Nat) /\ queue' \in Seq(Nat)
      /\ \A k \in DOMAIN queue' : k \in Nat /\ k + 1 \in DOMAIN queue /\ queue'[k] = queue[k + 1]
      /\ 1 \in DOMAIN queue /\ \A k \in DOMAIN queue : k # 1 => k - 1 \in DOMAIN queue'
                                                            /\ queue'[k - 1] = queue[k]
  <2>1. queue \in Seq(Nat) /\ Len(queue) \in Nat /\ Len(queue) > 0
    BY <1>0 DEF BarsTyped
  <2>2. queue' \in Seq(Nat) /\ DOMAIN queue = 1 .. Len(queue) /\ DOMAIN queue' = 1 .. Len(queue) - 1
    BY <2>1
  <2>3. \A k \in 1 .. Len(queue) - 1 : queue'[k] = queue[k + 1]
    BY <2>1
  <2>4. \A k \in 1 .. Len(queue) : k # 1 => k - 1 \in 1 .. Len(queue) - 1 /\ (k - 1) + 1 = k
    BY <2>1
  <2> QED BY <2>1, <2>2, <2>3, <2>4, SMTT(60)
<1>2. /\ n \in Nat /\ queue[1] \in 1 .. n /\ queue[1] # Sentinel
      /\ \A k \in DOMAIN queue' : queue'[k] <= n
  BY <1>0, <1>1 DEF BarsTyped, Sentinel
<1>3. /\ b \in Nat /\ batch \in Seq(Nat) /\ batch' \in Seq(Nat)
      /\ DOMAIN batch = 1 .. b /\ DOMAIN batch' = 1 .. b + 1 /\ Len(batch') = b + 1
      /\ \A k \in 1 .. b : batch'[k] = batch[k] /\ batch[k] \in 1 .. n
      /\ batch'[b + 1] = queue[1]
  BY <1>0, <1>2 DEF BarsTyped
<1> HIDE DEF b, n
<1>4. BarsTyped'
  <2>1. \A k \in DOMAIN batch' : batch'[k] \in 1 .. n
    BY <1>2, <1>3
  <2>2. mapped' \in 0 .. Len(batch')
    BY <1>0, <1>3 DEF BarsTyped, b
  <2> QED BY <1>0, <1>1, <1>2, <1>3, <2>1, <2>2 DEF BarsTyped, QueuedBars, Minutes, n
<1>5. ASSUME NEW l \in DOMAIN queue', queue'[l] # Sentinel
      PROVE  /\ queue[1] < queue'[l]
             /\ \A k \in DOMAIN batch : batch[k] < queue'[l]
             /\ \A d \in DOMAIN decisions : decisions[d] < queue'[l]
  <2>1. l + 1 \in DOMAIN queue /\ queue'[l] = queue[l + 1] /\ 1 < l + 1
    BY <1>1
  <2> QED BY <1>0, <1>1, <1>2, <1>5, <2>1 DEF QueueInLine, DecisionsInLine
<1>6. QueueInLine'
  <2>1. ASSUME NEW k \in DOMAIN queue', NEW l \in DOMAIN queue', k < l,
               queue'[k] # Sentinel, queue'[l] # Sentinel
        PROVE  queue'[k] < queue'[l]
    <3>1. k + 1 < l + 1
      BY <1>1, <2>1
    <3> QED BY <1>0, <1>1, <2>1, <3>1 DEF QueueInLine
  <2>2. ASSUME NEW k \in DOMAIN batch', NEW l \in DOMAIN batch', k < l
        PROVE  batch'[k] < batch'[l]
    <3>1. k \in 1 .. b
      BY <1>3, <2>2
    <3>2. CASE l \in 1 .. b
      BY <1>0, <1>3, <2>2, <3>1, <3>2 DEF QueueInLine
    <3>3. CASE l = b + 1
      BY <1>0, <1>1, <1>2, <1>3, <3>1, <3>3 DEF QueueInLine
    <3> QED BY <1>3, <3>2, <3>3
  <2>3. ASSUME NEW k \in DOMAIN batch', NEW l \in DOMAIN queue', queue'[l] # Sentinel
        PROVE  batch'[k] < queue'[l]
    <3>1. CASE k \in 1 .. b
      BY <1>3, <1>5, <2>3, <3>1
    <3>2. CASE k = b + 1
      BY <1>3, <1>5, <2>3, <3>2
    <3> QED BY <1>3, <3>1, <3>2
  <2> QED BY <2>1, <2>2, <2>3 DEF QueueInLine
<1>7. DecisionsInLine'
  <2>1. mapped' = mapped /\ mapped \in 0 .. b /\ decisions' = decisions
    BY <1>0 DEF BarsTyped, b
  <2>2. ASSUME NEW d \in DOMAIN decisions, NEW k \in mapped' + 1 .. Len(batch')
        PROVE  decisions[d] < batch'[k]
    <3>1. k \in 1 .. b + 1
      BY <1>3, <2>1
    <3>2. CASE k \in 1 .. b
      <4>1. k \in mapped + 1 .. Len(batch)
        BY <1>3, <2>1, <3>2 DEF b
      <4> QED BY <1>0, <1>3, <3>2, <4>1 DEF DecisionsInLine
    <3>3. CASE k = b + 1
      BY <1>0, <1>1, <1>2, <1>3, <3>3 DEF DecisionsInLine
    <3> QED BY <1>3, <3>1, <3>2, <3>3
  <2> QED BY <1>5, <2>1, <2>2 DEF DecisionsInLine
<1>8. DecisionsFollowQueue' /\ FirstQueuedWins'
  BY <1>0 DEF DecisionsFollowQueue, FirstQueuedWins, SameBar
<1>9. BarsAccountedFor'
  <2> SUFFICES ASSUME NEW i \in DOMAIN puts
               PROVE  \/ i \in Range(queue') \/ i \in Range(batch') \/ i \in lost' \/ InTable(i)'
    BY DEF BarsAccountedFor
  <2>1. \/ i \in Range(queue) \/ i \in Range(batch) \/ i \in lost \/ InTable(i)
    BY <1>0 DEF BarsAccountedFor
  <2>2. i \in Range(queue) => i \in Range(queue') \/ i \in Range(batch')
    <3> SUFFICES ASSUME NEW k \in DOMAIN queue, i = queue[k]
                 PROVE  i \in Range(queue') \/ i \in Range(batch')
      BY DEF Range
    <3>1. CASE k = 1
      BY <1>3, <3>1 DEF Range
    <3>2. CASE k # 1
      BY <1>1, <3>2 DEF Range
    <3> QED BY <3>1, <3>2
  <2>3. i \in Range(batch) => i \in Range(batch')
    BY <1>3 DEF Range
  <2>4. InTable(i) => InTable(i)'
    BY DEF InTable, SameBar
  <2> QED BY <2>1, <2>2, <2>3, <2>4
<1> QED BY <1>4, <1>6, <1>7, <1>8, <1>9 DEF BarsInv

(* The next bar of the batch is mapped to a decision, or to none.           *)
LEMMA MapKeepsBars ==
    ASSUME BarsInv, puts' = puts, queue' = queue, batch' = batch, table' = table, lost' = lost,
           mapped < Len(batch), mapped' = mapped + 1,
           decisions' = Append(decisions, batch[mapped + 1]) \/ decisions' = decisions
    PROVE  BarsInv'
<1>0. BarsTyped /\ QueueInLine /\ DecisionsInLine /\ DecisionsFollowQueue
      /\ BarsAccountedFor /\ FirstQueuedWins
  BY DEF BarsInv
<1>1. /\ mapped \in Nat /\ mapped' = mapped + 1 /\ mapped + 1 \in DOMAIN batch
      /\ Len(batch) \in Nat /\ DOMAIN batch = 1 .. Len(batch)
      /\ \A k \in DOMAIN batch : batch[k] \in Nat /\ batch[k] \in 1 .. Len(puts)
      /\ decisions \in Seq(Nat)
  BY <1>0 DEF BarsTyped
<1>2. \A k \in mapped' + 1 .. Len(batch) :
          k \in DOMAIN batch /\ k \in mapped + 1 .. Len(batch) /\ batch[mapped + 1] < batch[k]
  BY <1>0, <1>1, SMTT(60) DEF QueueInLine
<1>3. BarsAccountedFor' /\ FirstQueuedWins' /\ QueueInLine'
  BY <1>0 DEF BarsAccountedFor, FirstQueuedWins, QueueInLine, InTable, SameBar, Range
<1>4. CASE decisions' = decisions
  <2>1. BarsTyped' /\ DecisionsFollowQueue'
    BY <1>0, <1>1, <1>4 DEF BarsTyped, DecisionsFollowQueue, QueuedBars, Minutes
  <2>2. DecisionsInLine'
    BY <1>0, <1>2, <1>4 DEF DecisionsInLine
  <2> QED BY <1>3, <2>1, <2>2 DEF BarsInv
<1>5. CASE decisions' = Append(decisions, batch[mapped + 1])
  <2> DEFINE c == Len(decisions)
             x == batch[mapped + 1]
  <2>1. /\ c \in Nat /\ x \in Nat /\ x \in 1 .. Len(puts) /\ decisions' \in Seq(Nat)
        /\ DOMAIN decisions = 1 .. c /\ DOMAIN decisions' = 1 .. c + 1
        /\ \A d \in 1 .. c : decisions'[d] = decisions[d]
        /\ decisions'[c + 1] = x
    BY <1>1, <1>5
  <2>2. /\ \A d \in 1 .. c : decisions[d] < x
        /\ \A l \in DOMAIN queue : queue[l] # Sentinel => x < queue[l]
        /\ \A k \in mapped' + 1 .. Len(batch) : x < batch[k]
    <3>1. mapped + 1 \in mapped + 1 .. Len(batch)
      BY <1>1
    <3> QED BY <1>0, <1>1, <1>2, <2>1, <3>1 DEF DecisionsInLine, QueueInLine
  <2> HIDE DEF c, x
  <2>3. \A d \in DOMAIN decisions' : decisions'[d] \in 1 .. Len(puts)
    BY <1>0, <2>1, SMTT(60) DEF BarsTyped
  <2>4. BarsTyped'
    BY <1>0, <1>1, <2>1, <2>3, SMTT(60) DEF BarsTyped, QueuedBars, Minutes
  <2>5. DecisionsFollowQueue'
    <3> SUFFICES ASSUME NEW k \in 1 .. c + 1, NEW l \in 1 .. c + 1, k < l
                 PROVE  decisions'[k] < decisions'[l]
      BY <2>1 DEF DecisionsFollowQueue
    <3>1. k \in 1 .. c
      BY <2>1
    <3>2. CASE l \in 1 .. c
      BY <1>0, <2>1, <3>1, <3>2 DEF DecisionsFollowQueue
    <3>3. CASE l = c + 1
      BY <2>1, <2>2, <3>1, <3>3
    <3> QED BY <2>1, <3>2, <3>3
  <2>6. DecisionsInLine'
    <3> SUFFICES ASSUME NEW d \in 1 .. c + 1
                 PROVE  /\ \A k \in mapped' + 1 .. Len(batch) : decisions'[d] < batch[k]
                        /\ \A l \in DOMAIN queue :
                              queue[l] # Sentinel => decisions'[d] < queue[l]
      BY <2>1 DEF DecisionsInLine
    <3>1. CASE d \in 1 .. c
      BY <1>0, <1>2, <2>1, <3>1 DEF DecisionsInLine
    <3>2. CASE d = c + 1
      BY <2>1, <2>2, <3>2
    <3> QED BY <2>1, <3>1, <3>2
  <2> QED BY <1>3, <2>4, <2>5, <2>6 DEF BarsInv
<1> QED BY <1>4, <1>5

(* Some number of a sequence that has a given property has it first.        *)
LEMMA FirstPlace ==
    ASSUME NEW n \in Nat, NEW K \in SUBSET (1 .. n), K # {}
    PROVE  \E k \in K : \A l \in 1 .. (k - 1) : l \notin K
<1>1. K \in SUBSET Nat
  OBVIOUS
<1>2. PICK k \in K : \A l \in K : k <= l
  BY <1>1, LeastElement
<1> QED BY <1>1, <1>2

(* Of the bars of a minute that a batch holds one is the first.             *)
LEMMA BatchHasFirsts ==
    ASSUME BarsTyped, NEW i \in Range(batch)
    PROVE  \E j \in FirstsOfBatch : SameBar(i, j)
<1> DEFINE K == {k \in DOMAIN batch : SameBar(i, batch[k])}
<1>1. Len(batch) \in Nat /\ DOMAIN batch = 1 .. Len(batch)
  BY DEF BarsTyped
<1>2. K \in SUBSET (1 .. Len(batch)) /\ K # {}
  BY <1>1 DEF Range, SameBar
<1>3. PICK k \in K : \A l \in 1 .. (k - 1) : l \notin K
  <2> HIDE DEF K
  <2> QED BY <1>1, <1>2, FirstPlace
<1>4. \A l \in 1 .. (k - 1) : l \in DOMAIN batch /\ ~SameBar(batch[k], batch[l])
  BY <1>1, <1>3 DEF SameBar
<1>5. batch[k] \in FirstsOfBatch
  BY <1>3, <1>4 DEF FirstsOfBatch
<1> QED BY <1>3, <1>5

(* The batch is stored, lost, or stored in part: no bar of it is forgotten, *)
(* and no stored bar has a fellow that was queued before it and not lost.   *)
LEMMA SettleKeepsBars ==
    ASSUME BarsInv, puts' = puts, queue' = queue, decisions' = decisions,
           batch' = <<>>, mapped' = 0,
           NEW S \in SUBSET FreshOfBatch, NEW L \in SUBSET Range(batch),
           table' = table \union S, lost' = lost \union L,
           \A i \in Range(batch) : i \in L \/ \E j \in table' : SameBar(i, j)
    PROVE  BarsInv'
<1>0. BarsTyped /\ QueueInLine /\ DecisionsInLine /\ DecisionsFollowQueue
      /\ BarsAccountedFor /\ FirstQueuedWins
  BY DEF BarsInv
<1>1. /\ Len(puts) \in Nat /\ DOMAIN puts = 1 .. Len(puts)
      /\ Len(batch) \in Nat /\ DOMAIN batch = 1 .. Len(batch)
      /\ \A k \in DOMAIN batch : batch[k] \in Nat /\ batch[k] \in 1 .. Len(puts)
      /\ table \subseteq 1 .. Len(puts) /\ lost \subseteq 1 .. Len(puts)
  BY <1>0 DEF BarsTyped
<1>2. \A i \in S : /\ ~InTable(i)
                   /\ \E k \in DOMAIN batch :
                         i = batch[k] /\ \A l \in 1 .. (k - 1) : ~SameBar(batch[k], batch[l])
  BY DEF FreshOfBatch, FirstsOfBatch
<1>3. S \subseteq 1 .. Len(puts) /\ L \subseteq 1 .. Len(puts)
  BY <1>1, <1>2 DEF Range
<1>4. BarsTyped'
  BY <1>0, <1>1, <1>3 DEF BarsTyped, QueuedBars, Minutes
<1>5. QueueInLine' /\ DecisionsInLine' /\ DecisionsFollowQueue'
  BY <1>0 DEF QueueInLine, DecisionsInLine, DecisionsFollowQueue
<1>6. \A i, j : SameBar(i, j)' <=> SameBar(i, j)
  BY DEF SameBar
<1>7. BarsAccountedFor'
  <2>1. \A i : InTable(i) => InTable(i)'
    BY <1>6 DEF InTable
  <2>2. \A i \in Range(batch) : i \in lost' \/ InTable(i)'
    BY <1>6 DEF InTable
  <2> QED BY <1>0, <2>1, <2>2 DEF BarsAccountedFor
<1>8. ASSUME NEW i \in S, NEW j \in DOMAIN puts, j < i, SameBar(i, j) PROVE j \in lost
  <2>1. PICK k \in DOMAIN batch :
            i = batch[k] /\ \A l \in 1 .. (k - 1) : ~SameBar(batch[k], batch[l])
    BY <1>2
  <2>2. ~InTable(i) /\ ~InTable(j)
    BY <1>2, <1>8 DEF InTable, SameBar
  <2>3. j \notin Range(queue)
    <3> SUFFICES ASSUME NEW l \in DOMAIN queue, j = queue[l] PROVE FALSE
      BY DEF Range
    <3>1. j # Sentinel
      BY <1>1 DEF Sentinel
    <3>2. i < j
      BY <1>0, <2>1, <3>1 DEF QueueInLine
    <3> QED BY <1>1, <1>3, <1>8, <3>2
  <2>4. j \notin Range(batch)
    <3> SUFFICES ASSUME NEW l \in DOMAIN batch, j = batch[l] PROVE FALSE
      BY DEF Range
    <3>1. ~(l \in 1 .. (k - 1))
      BY <1>8, <2>1
    <3>2. l = k \/ k < l
      BY <1>1, <3>1
    <3>3. l = k => i = j
      BY <2>1
    <3>4. k < l => i < j
      BY <1>0, <2>1 DEF QueueInLine
    <3>5. i \in Nat /\ j \in Nat
      BY <1>1, <2>1
    <3> QED BY <1>8, <3>2, <3>3, <3>4, <3>5
  <2> QED BY <1>0, <2>2, <2>3, <2>4 DEF BarsAccountedFor
<1>9. ASSUME NEW i \in table', NEW j \in table', SameBar(i, j) PROVE i = j
  <2>1. CASE i \in table /\ j \in table
    BY <1>0, <1>1, <1>9, <2>1 DEF FirstQueuedWins
  <2>2. CASE (i \in S /\ j \in table) \/ (i \in table /\ j \in S)
    BY <1>2, <1>9, <2>2 DEF InTable, SameBar
  <2>3. CASE i \in S /\ j \in S
    <3>1. PICK k \in DOMAIN batch :
              i = batch[k] /\ \A l \in 1 .. (k - 1) : ~SameBar(batch[k], batch[l])
      BY <1>2, <2>3
    <3>2. PICK m \in DOMAIN batch :
              j = batch[m] /\ \A l \in 1 .. (m - 1) : ~SameBar(batch[m], batch[l])
      BY <1>2, <2>3
    <3>3. ~(k \in 1 .. (m - 1)) /\ ~(m \in 1 .. (k - 1))
      BY <1>9, <3>1, <3>2 DEF SameBar
    <3>4. k = m
      BY <1>1, <3>3
    <3> QED BY <3>1, <3>2, <3>4
  <2> QED BY <2>1, <2>2, <2>3
<1>10. FirstQueuedWins'
  <2> SUFFICES ASSUME NEW i \in table', NEW j \in DOMAIN puts, SameBar(i, j)
               PROVE  (j < i => j \in lost') /\ (j \in table' => i = j)
    BY <1>6 DEF FirstQueuedWins
  <2>1. CASE i \in table
    BY <1>0, <1>9, <2>1 DEF FirstQueuedWins
  <2>2. CASE i \in S
    BY <1>8, <1>9, <2>2
  <2> QED BY <2>1, <2>2
<1> QED BY <1>4, <1>5, <1>7, <1>10 DEF BarsInv

-----------------------------------------------------------------------------
(* BarPipeline: the threads *)

(* What a put and a get do to the number of stop requests in the queue: a   *)
(* bar changes nothing, the request's own put and get change it by one.     *)
LEMMA SentinelMoves ==
    ASSUME queue \in Seq(Nat)
    PROVE  /\ \A x : x # Sentinel /\ x \in Nat /\ queue' = Append(queue, x) =>
                 (NoSentinel => NoSentinel') /\ (OneSentinel => OneSentinel')
           /\ queue' = Append(queue, Sentinel) => (NoSentinel => OneSentinel')
           /\ queue # <<>> /\ Head(queue) # Sentinel /\ queue' = Tail(queue) =>
                 (NoSentinel => NoSentinel') /\ (OneSentinel => OneSentinel')
           /\ queue # <<>> /\ Head(queue) = Sentinel /\ queue' = Tail(queue) =>
                 ~NoSentinel /\ (OneSentinel => NoSentinel')
<1>1. ASSUME NEW x \in Nat, queue' = Append(queue, x)
      PROVE  /\ x # Sentinel => (NoSentinel => NoSentinel') /\ (OneSentinel => OneSentinel')
             /\ x = Sentinel => (NoSentinel => OneSentinel')
  <2> DEFINE q == Len(queue)
  <2>1. /\ q \in Nat /\ DOMAIN queue = 1 .. q /\ DOMAIN queue' = 1 .. q + 1
        /\ \A k \in 1 .. q : queue'[k] = queue[k] /\ queue'[q + 1] = x
        /\ queue'[q + 1] = x
        /\ \A k \in 1 .. q + 1 : k # q + 1 => k \in 1 .. q
        /\ q + 1 \notin 1 .. q /\ q + 1 \in 1 .. q + 1 /\ 1 .. q \subseteq 1 .. q + 1
    BY <1>1
  <2> HIDE DEF q
  <2>2. ASSUME x # Sentinel, NoSentinel PROVE NoSentinel'
    BY <2>1, <2>2 DEF NoSentinel
  <2>3. ASSUME x # Sentinel, OneSentinel PROVE OneSentinel'
    <3>1. PICK k \in DOMAIN queue : \A l \in DOMAIN queue : queue[l] = Sentinel <=> l = k
      BY <2>3 DEF OneSentinel
    <3>2. k \in DOMAIN queue' /\ \A l \in DOMAIN queue' : queue'[l] = Sentinel <=> l = k
      BY <2>1, <2>3, <3>1
    <3> QED BY <3>2 DEF OneSentinel, Sentinel
  <2>4. ASSUME x = Sentinel, NoSentinel PROVE OneSentinel'
    <3>1. \A l \in DOMAIN queue' : queue'[l] = Sentinel <=> l = q + 1
      BY <2>1, <2>4 DEF NoSentinel
    <3>2. q + 1 \in DOMAIN queue'
      BY <2>1
    <3> QED BY <3>1, <3>2 DEF OneSentinel, Sentinel
  <2> QED BY <2>2, <2>3, <2>4
<1>2. ASSUME queue # <<>>, queue' = Tail(queue)
      PROVE  /\ Head(queue) # Sentinel =>
                   (NoSentinel => NoSentinel') /\ (OneSentinel => OneSentinel')
             /\ Head(queue) = Sentinel => ~NoSentinel /\ (OneSentinel => NoSentinel')
  <2>1. /\ 1 \in DOMAIN queue /\ Head(queue) = queue[1]
        /\ \A k \in DOMAIN queue' : /\ k \in Nat /\ k + 1 # 1 /\ k + 1 \in DOMAIN queue
                                    /\ queue'[k] = queue[k + 1]
        /\ \A k \in DOMAIN queue : k \in Nat /\ (k # 1 => k - 1 \in DOMAIN queue')
    BY <1>2
  <2>2. ASSUME NoSentinel PROVE NoSentinel' /\ Head(queue) # Sentinel
    BY <2>1, <2>2 DEF NoSentinel, Sentinel
  <2>3. ASSUME OneSentinel, Head(queue) # Sentinel PROVE OneSentinel'
    <3>1. PICK k \in DOMAIN queue : \A l \in DOMAIN queue : queue[l] = Sentinel <=> l = k
      BY <2>3 DEF OneSentinel
    <3>2. k # 1 /\ k - 1 \in DOMAIN queue'
      BY <2>1, <2>3, <3>1
    <3>3. ASSUME NEW l \in DOMAIN queue' PROVE queue'[l] = Sentinel <=> l = k - 1
      <4>1. l \in Nat /\ k \in Nat /\ l + 1 \in DOMAIN queue /\ queue'[l] = queue[l + 1]
        BY <2>1
      <4>2. queue'[l] = Sentinel <=> l + 1 = k
        BY <3>1, <4>1
      <4>3. l + 1 = k <=> l = k - 1
        BY <4>1
      <4> QED BY <4>2, <4>3
    <3> QED BY <3>2, <3>3 DEF OneSentinel, Sentinel
  <2>4. ASSUME OneSentinel, Head(queue) = Sentinel PROVE NoSentinel'
    <3>1. PICK k \in DOMAIN queue : \A l \in DOMAIN queue : queue[l] = Sentinel <=> l = k
      BY <2>4 DEF OneSentinel
    <3>2. k = 1
      BY <2>1, <2>4, <3>1
    <3>3. \A l \in DOMAIN queue' : queue'[l] # Sentinel
      BY <2>1, <3>1, <3>2
    <3> QED BY <3>3 DEF NoSentinel, Sentinel
  <2> QED BY <2>2, <2>3, <2>4
<1>3. Sentinel \in Nat
  BY DEF Sentinel
<1> QED BY <1>1, <1>2, <1>3

(* A start keeps the invariant of the pipeline.                             *)
LEMMA PipelineStart == Init => PipelineInv
<1> SUFFICES ASSUME Init PROVE PipelineInv
  OBVIOUS
<1>1. BufferInv
  BY BufferStart DEF Init
<1>2. BarsInv
  BY DEF Init, BarsInv, BarsTyped, QueueInLine, DecisionsInLine, DecisionsFollowQueue,
         BarsAccountedFor, FirstQueuedWins
<1>3. ThreadsTyped
  <2>1. /\ mock \in BOOLEAN /\ stream \in BOOLEAN /\ processing \in BOOLEAN
        /\ writing \in BOOLEAN
    <3>1. CASE mock
      BY <3>1 DEF Init
    <3>2. CASE ~mock
      BY <3>2 DEF Init
    <3> QED BY <3>1, <3>2
  <2>2. /\ flusher \in FlusherPhases /\ writer \in WriterPhases /\ main \in MainPhases
        /\ toPut \subseteq Symbols
    BY DEF Init, FlusherPhases, WriterPhases, MainPhases
  <2>3. stoppedAt \in 0 .. Len(puts)
    BY DEF Init
  <2> QED BY <2>1, <2>2, <2>3 DEF ThreadsTyped
<1>4. SentinelInv
  BY DEF Init, SentinelInv, Told, NoSentinel
<1>5. WriterHolds /\ FlusherHolds
  BY BatchAssumption DEF Init, WriterHolds, FlusherHolds
<1> QED BY <1>1, <1>2, <1>3, <1>4, <1>5 DEF PipelineInv

(* What a step owes when it leaves the queue and the writer alone.          *)
LEMMA WriterRests ==
    ASSUME PipelineInv, UNCHANGED queueVars, UNCHANGED writerVars
    PROVE  /\ BarsInv' /\ WriterHolds'
           /\ UNCHANGED <<main, writing>> => SentinelInv'
<1>1. BarsInv'
  BY BarsStay DEF PipelineInv, queueVars, writerVars
<1>2. WriterHolds'
  BY DEF PipelineInv, WriterHolds, writerVars
<1>3. UNCHANGED <<main, writing>> => SentinelInv'
  BY DEF PipelineInv, SentinelInv, Told, NoSentinel, OneSentinel, queueVars, writerVars
<1> QED BY <1>1, <1>2, <1>3

(* What a thread owes that queues a bar.                                    *)
LEMMA PutKeepsPipeline ==
    ASSUME PipelineInv, NEW s \in Symbols, NEW m \in Minutes,
           NEW from \in {"flushed", "official", "mock"}, Put(s, m, from),
           UNCHANGED writerVars, UNCHANGED mainVars
    PROVE  /\ BarsInv' /\ WriterHolds' /\ SentinelInv'
           /\ stoppedAt' \in 0 .. Len(puts')
<1>1. BarsInv'
  BY PutKeepsBars DEF PipelineInv, writerVars
<1>2. WriterHolds'
  BY DEF PipelineInv, WriterHolds, writerVars
<1>3. puts \in Seq(QueuedBars) /\ queue \in Seq(Nat) /\ stoppedAt \in 0 .. Len(puts)
  BY DEF PipelineInv, BarsInv, BarsTyped, ThreadsTyped
<1>4. Len(puts) + 1 # Sentinel /\ Len(puts) + 1 \in Nat
      /\ queue' = Append(queue, Len(puts) + 1)
  BY <1>3 DEF Put, Sentinel
<1>5. (NoSentinel => NoSentinel') /\ (OneSentinel => OneSentinel')
  BY <1>3, <1>4, SentinelMoves
<1>6. SentinelInv'
  BY <1>5 DEF PipelineInv, SentinelInv, Told, writerVars, mainVars
<1>7. stoppedAt' \in 0 .. Len(puts')
  BY <1>3 DEF Put, mainVars
<1> QED BY <1>1, <1>2, <1>6, <1>7

(* What a step of the writer thread leaves to the others.                   *)
LEMMA WriterAlone ==
    ASSUME PipelineInv, UNCHANGED <<bufferVars, feedVars, mainVars, puts>>,
           writer' \in WriterPhases
    PROVE  BufferInv' /\ ThreadsTyped' /\ FlusherHolds'
<1>1. BufferInv'
  BY BufferStutters DEF PipelineInv
<1>2. ThreadsTyped'
  BY DEF PipelineInv, ThreadsTyped, feedVars, mainVars, FlusherPhases, MainPhases, WriterPhases
<1>3. FlusherHolds'
  BY DEF PipelineInv, FlusherHolds, bufferVars, feedVars
<1> QED BY <1>1, <1>2, <1>3

(* A step of the writer thread within a batch that touches no bar.          *)
LEMMA WriterWalks ==
    ASSUME PipelineInv, UNCHANGED <<bufferVars, queueVars, feedVars, mainVars>>,
           UNCHANGED <<batch, mapped, table, lost, decisions>>,
           writer \notin {"reputting", "done"}, writer' \in WriterPhases,
           writer' # "reputting", writer' = "done" => Told,
           writer' \in {"top", "getting", "done"} => batch = <<>>,
           writer' = "filling" => mapped = 0
    PROVE  PipelineInv'
<1>1. BufferInv' /\ ThreadsTyped' /\ FlusherHolds'
  BY WriterAlone DEF queueVars
<1>2. BarsInv'
  BY BarsStay DEF PipelineInv, queueVars
<1>3. SentinelInv'
  BY DEF PipelineInv, SentinelInv, Told, NoSentinel, OneSentinel, queueVars, mainVars
<1>4. WriterHolds'
  BY DEF PipelineInv, WriterHolds
<1> QED BY <1>1, <1>2, <1>3, <1>4 DEF PipelineInv

(* A batch is let go: stored, in part or not at all.                        *)
LEMMA WriterSettles ==
    ASSUME PipelineInv, UNCHANGED <<bufferVars, queueVars, feedVars, decisions, mainVars>>,
           LetGo, writer \in {"mapping", "storing"}, writer' = "top", BarsInv'
    PROVE  PipelineInv'
<1>1. BufferInv' /\ ThreadsTyped' /\ FlusherHolds'
  BY WriterAlone DEF queueVars, WriterPhases
<1>2. SentinelInv'
  BY DEF PipelineInv, SentinelInv, Told, NoSentinel, OneSentinel, queueVars, mainVars
<1>3. WriterHolds'
  BY BatchAssumption DEF WriterHolds, LetGo
<1> QED BY <1>1, <1>2, <1>3 DEF PipelineInv

(* The sentinel is taken off the queue.                                     *)
LEMMA SentinelTaken ==
    ASSUME PipelineInv, writer \in {"getting", "filling"},
           queue # <<>>, Head(queue) = Sentinel, queue' = Tail(queue),
           writer' = IF writer = "getting" THEN "done" ELSE "reputting",
           UNCHANGED <<bufferVars, puts, feedVars, batch, mapped, table, lost,
                       decisions, mainVars>>
    PROVE  PipelineInv'
<1>0. queue \in Seq(Nat)
  BY DEF PipelineInv, BarsInv, BarsTyped
<1>1. BufferInv' /\ ThreadsTyped' /\ FlusherHolds'
  BY WriterAlone DEF WriterPhases
<1>2. BarsInv'
  BY SentinelKeepsBars DEF PipelineInv
<1>3. SentinelInv'
  <2>1. ~NoSentinel /\ (OneSentinel => NoSentinel')
    BY <1>0, SentinelMoves
  <2>2. Told /\ OneSentinel
    BY <2>1 DEF PipelineInv, SentinelInv
  <2> QED BY <2>1, <2>2 DEF PipelineInv, SentinelInv, Told, mainVars
<1>4. WriterHolds'
  BY DEF PipelineInv, WriterHolds
<1> QED BY <1>1, <1>2, <1>3, <1>4 DEF PipelineInv

(* The writer takes a bar off the queue.                                    *)
LEMMA BarTaken ==
    ASSUME PipelineInv, writer \in {"getting", "filling"}, Len(batch) < BatchSize,
           queue # <<>>, Head(queue) # Sentinel, queue' = Tail(queue),
           batch' = Append(batch, Head(queue)), mapped = 0, mapped' = 0, writer' = "filling",
           UNCHANGED <<bufferVars, puts, feedVars, table, lost, decisions, mainVars>>
    PROVE  PipelineInv'
<1>0. queue \in Seq(Nat) /\ batch \in Seq(Nat)
  BY DEF PipelineInv, BarsInv, BarsTyped
<1>1. BufferInv' /\ ThreadsTyped' /\ FlusherHolds'
  BY WriterAlone DEF WriterPhases
<1>2. BarsInv'
  BY TakeKeepsBars DEF PipelineInv
<1>3. SentinelInv'
  <2>1. (NoSentinel => NoSentinel') /\ (OneSentinel => OneSentinel')
    BY <1>0, SentinelMoves
  <2> QED BY <2>1 DEF PipelineInv, SentinelInv, Told, mainVars
<1>4. WriterHolds'
  <2>1. Len(batch') = Len(batch) + 1 /\ Len(batch) \in Nat /\ BatchSize \in Nat
    <3>1. Head(queue) \in Nat
      BY <1>0
    <3> QED BY <1>0, <3>1, BatchAssumption
  <2> QED BY <2>1 DEF WriterHolds
<1> QED BY <1>1, <1>2, <1>3, <1>4 DEF PipelineInv

(* Every step of the writer thread keeps it.                                *)
LEMMA WriterKeepsPipeline == PipelineInv /\ WriterStep => PipelineInv'
<1> SUFFICES ASSUME PipelineInv, WriterStep PROVE PipelineInv'
  OBVIOUS
<1>1. CASE WriterTurns
  <2>1. ~writing => Told
    BY DEF PipelineInv, SentinelInv
  <2>2. batch = <<>>
    BY <1>1 DEF WriterTurns, PipelineInv, WriterHolds
  <2> QED BY <1>1, <2>1, <2>2, WriterWalks DEF WriterTurns, WriterPhases
<1>2. CASE GetFirst
  <2>1. batch = <<>> /\ queue \in Seq(Nat) /\ mapped \in 0 .. Len(batch)
    BY <1>2 DEF GetFirst, PipelineInv, WriterHolds, BarsInv, BarsTyped
  <2>2. Head(queue) \in Nat
    BY <1>2, <2>1 DEF GetFirst
  <2>3. batch' = Append(batch, Head(queue)) /\ mapped = 0 /\ Len(batch) < BatchSize
    BY <1>2, <2>1, <2>2, BatchAssumption DEF GetFirst
  <2> QED BY <1>2, <2>3, BarTaken DEF GetFirst
<1>3. CASE GetSentinel
  BY <1>3, SentinelTaken DEF GetSentinel
<1>4. CASE GetEmpty
  <2>1. batch = <<>>
    BY <1>4 DEF GetEmpty, PipelineInv, WriterHolds
  <2> QED BY <1>4, <2>1, WriterWalks DEF GetEmpty, WriterPhases
<1>5. CASE GetNext
  <2>1. mapped = 0
    BY <1>5 DEF GetNext, PipelineInv, WriterHolds
  <2> QED BY <1>5, <2>1, BarTaken DEF GetNext
<1>6. CASE BatchReady
  BY <1>6, WriterWalks DEF BatchReady, WriterPhases
<1>7. CASE MeetSentinel
  BY <1>7, SentinelTaken DEF MeetSentinel
<1>8. CASE ReputSentinel
  <2>0. queue \in Seq(Nat)
    BY DEF PipelineInv, BarsInv, BarsTyped
  <2>1. BufferInv' /\ ThreadsTyped' /\ FlusherHolds'
    BY <1>8, WriterAlone DEF ReputSentinel, WriterPhases
  <2>2. BarsInv'
    BY <1>8, SentinelKeepsBars DEF PipelineInv, ReputSentinel
  <2>3. SentinelInv'
    <3>1. Told /\ NoSentinel
      BY <1>8 DEF ReputSentinel, PipelineInv, SentinelInv
    <3>2. OneSentinel'
      BY <1>8, <2>0, <3>1, SentinelMoves DEF ReputSentinel
    <3> QED BY <1>8, <3>1, <3>2 DEF ReputSentinel, SentinelInv, Told, mainVars
  <2>4. WriterHolds'
    BY <1>8 DEF ReputSentinel, PipelineInv, WriterHolds
  <2> QED BY <2>1, <2>2, <2>3, <2>4 DEF PipelineInv
<1>9. CASE MapBar
  <2>1. BufferInv' /\ ThreadsTyped' /\ FlusherHolds'
    BY <1>9, WriterAlone DEF MapBar, queueVars, WriterPhases
  <2>2. BarsInv'
    <3>1. decisions' = Append(decisions, batch[mapped + 1]) \/ decisions' = decisions
      BY <1>9 DEF MapBar
    <3> QED BY <1>9, <3>1, MapKeepsBars DEF MapBar, PipelineInv, queueVars
  <2>3. SentinelInv'
    BY <1>9 DEF MapBar, PipelineInv, SentinelInv, Told, NoSentinel, OneSentinel, queueVars,
                mainVars
  <2>4. WriterHolds'
    BY <1>9 DEF MapBar, PipelineInv, WriterHolds
  <2> QED BY <2>1, <2>2, <2>3, <2>4 DEF PipelineInv
<1>10. CASE Mapped
  BY <1>10, WriterWalks DEF Mapped, WriterPhases
<1>11. CASE StoreBatch
  <2>1. BarsTyped /\ BarsInv
    BY DEF PipelineInv, BarsInv
  <2>2. ASSUME NEW i \in Range(batch) PROVE \E j \in table' : SameBar(i, j)
    <3>1. PICK j \in FirstsOfBatch : SameBar(i, j)
      BY <2>1, BatchHasFirsts
    <3>2. CASE j \in FreshOfBatch
      BY <1>11, <3>1, <3>2 DEF StoreBatch
    <3>3. CASE j \notin FreshOfBatch
      BY <1>11, <3>1, <3>3 DEF StoreBatch, FreshOfBatch, InTable, SameBar
    <3> QED BY <3>2, <3>3
  <2>3. table' = table \union FreshOfBatch /\ lost' = lost \union {}
    BY <1>11 DEF StoreBatch
  <2>4. BarsInv'
    BY <1>11, <2>1, <2>2, <2>3, SettleKeepsBars DEF StoreBatch, LetGo, queueVars
  <2> QED BY <1>11, <2>4, WriterSettles DEF StoreBatch
<1>12. CASE StoreFails
  <2>1. PICK S \in SUBSET FreshOfBatch : /\ table' = table \union S
                                         /\ lost' = lost \union (Range(batch) \ S)
    BY <1>12 DEF StoreFails
  <2>2. \A i \in Range(batch) : i \in Range(batch) \ S \/ \E j \in table' : SameBar(i, j)
    BY <2>1 DEF SameBar
  <2>3. BarsInv'
    BY <1>12, <2>1, <2>2, SettleKeepsBars DEF PipelineInv, StoreFails, LetGo, queueVars
  <2> QED BY <1>12, <2>3, WriterSettles DEF StoreFails
<1>13. CASE BatchFails
  <2>1. table' = table \union {} /\ lost' = lost \union Range(batch)
    BY <1>13 DEF BatchFails
  <2>2. BarsInv'
    BY <1>13, <2>1, SettleKeepsBars DEF PipelineInv, BatchFails, LetGo, queueVars
  <2> QED BY <1>13, <2>2, WriterSettles DEF BatchFails
<1> QED BY <1>1, <1>2, <1>3, <1>4, <1>5, <1>6, <1>7, <1>8, <1>9, <1>10, <1>11, <1>12, <1>13
        DEF WriterStep

(* What a step owes that leaves the queue and the writer alone, and the     *)
(* ready bars as they are.                                                  *)
LEMMA FeedMoves ==
    ASSUME PipelineInv, UNCHANGED <<queueVars, writerVars>>, BufferInv',
           ThreadsTyped', SentinelInv', FlusherHolds'
    PROVE  PipelineInv'
BY WriterRests DEF PipelineInv

(* A tick from the stream or from a poll.                                   *)
LEMMA TickTaken ==
    ASSUME PipelineInv, NEW s \in Symbols, NEW m \in Minutes, NEW t \in Ticks, AddTick(s, m, t),
           UNCHANGED <<queueVars, feedVars, writerVars, mainVars>>
    PROVE  PipelineInv'
<1>1. BufferInv'
  BY AddTickKeepsBufferInv DEF PipelineInv
<1>2. ThreadsTyped'
  BY DEF PipelineInv, ThreadsTyped, queueVars, feedVars, writerVars, mainVars
<1>3. SentinelInv'
  BY WriterRests DEF mainVars
<1>4. FlusherHolds'
  BY DEF PipelineInv, FlusherHolds, feedVars, AddTick
<1> QED BY <1>1, <1>2, <1>3, <1>4, FeedMoves

(* Every step of the stream thread and its polls keeps it.                  *)
LEMMA StreamKeepsPipeline == PipelineInv /\ (StreamStep \/ Poll) => PipelineInv'
<1> SUFFICES ASSUME PipelineInv, StreamStep \/ Poll PROVE PipelineInv'
  OBVIOUS
<1>0. TickMinutes \subseteq Minutes
  BY DEF TickMinutes
<1>1. ASSUME NEW s \in Symbols, NEW m \in TickMinutes, NEW t \in Ticks, StreamTrade(s, m, t)
      PROVE  PipelineInv'
  BY <1>0, <1>1, TickTaken DEF StreamTrade
<1>2. ASSUME NEW s \in Symbols, NEW m \in TickMinutes, NEW t \in Ticks, PollTrade(s, m, t)
      PROVE  PipelineInv'
  BY <1>0, <1>2, TickTaken DEF PollTrade
<1>3. ASSUME NEW s \in Symbols, NEW m \in Minutes, StreamBar(s, m) PROVE PipelineInv'
  <2>1. Put(s, m, "official") /\ UNCHANGED <<bufferVars, feedVars, writerVars, mainVars>>
    BY <1>3 DEF StreamBar
  <2>2. BarsInv' /\ WriterHolds' /\ SentinelInv' /\ stoppedAt' \in 0 .. Len(puts')
    BY <2>1, PutKeepsPipeline
  <2>3. BufferInv'
    BY <2>1, BufferStutters DEF PipelineInv
  <2>4. ThreadsTyped'
    BY <2>1, <2>2 DEF PipelineInv, ThreadsTyped, feedVars, writerVars, mainVars
  <2>5. FlusherHolds'
    BY <2>1 DEF PipelineInv, FlusherHolds, feedVars, bufferVars
  <2> QED BY <2>2, <2>3, <2>4, <2>5 DEF PipelineInv
<1>4. CASE StreamEnds
  <2>1. BufferInv'
    BY <1>4, BufferStutters DEF PipelineInv, StreamEnds
  <2>2. ThreadsTyped'
    BY <1>4 DEF StreamEnds, PipelineInv, ThreadsTyped, queueVars, writerVars, mainVars
  <2>3. SentinelInv'
    BY <1>4, WriterRests DEF StreamEnds, mainVars
  <2>4. FlusherHolds'
    BY <1>4 DEF StreamEnds, PipelineInv, FlusherHolds, bufferVars
  <2> QED BY <1>4, <2>1, <2>2, <2>3, <2>4, FeedMoves DEF StreamEnds
<1> QED BY <1>1, <1>2, <1>3, <1>4 DEF StreamStep, Poll

(* A step of the flusher thread alone.                                      *)
LEMMA FlusherWalks ==
    ASSUME PipelineInv, UNCHANGED <<bufferVars, queueVars, stream, toPut, writerVars, mainVars>>,
           flusher' \in FlusherPhases, flusher' # "putting"
    PROVE  PipelineInv'
<1>1. BufferInv'
  BY BufferStutters DEF PipelineInv
<1>2. ThreadsTyped'
  BY DEF PipelineInv, ThreadsTyped, queueVars, writerVars, mainVars, FlusherPhases
<1>3. SentinelInv'
  BY WriterRests DEF mainVars
<1>4. FlusherHolds'
  BY DEF FlusherHolds
<1> QED BY <1>1, <1>2, <1>3, <1>4, FeedMoves

(* Every step of the flusher thread keeps it.                               *)
LEMMA FlusherKeepsPipeline == PipelineInv /\ FlusherStep => PipelineInv'
<1> SUFFICES ASSUME PipelineInv, FlusherStep PROVE PipelineInv'
  OBVIOUS
<1>1. CASE Flush
  <2>1. BufferInv'
    BY <1>1, GetReadyBarsKeepsBufferInv DEF PipelineInv, Flush
  <2>2. toPut' \subseteq Symbols
    BY <1>1 DEF Flush, GetReadyBars
  <2>3. ThreadsTyped'
    BY <1>1, <2>2
       DEF Flush, PipelineInv, ThreadsTyped, queueVars, writerVars, mainVars, FlusherPhases
  <2>4. SentinelInv'
    BY <1>1, WriterRests DEF Flush, mainVars
  <2>5. FlusherHolds'
    BY <1>1 DEF Flush, FlusherHolds
  <2> QED BY <1>1, <2>1, <2>3, <2>4, <2>5, FeedMoves DEF Flush
<1>2. CASE FlusherLeaves
  BY <1>2, FlusherWalks DEF FlusherLeaves, FlusherPhases
<1>3. CASE FlushDone
  BY <1>3, FlusherWalks DEF FlushDone, FlusherPhases
<1>4. CASE FlusherSleeps
  BY <1>4, FlusherWalks DEF FlusherSleeps, FlusherPhases
<1>5. ASSUME NEW s \in Symbols, FlushPut(s) PROVE PipelineInv'
  <2>1. /\ Put(s, ready[s].minute, "flushed") /\ s \in DOMAIN ready
        /\ UNCHANGED <<bufferVars, stream, flusher, writerVars, mainVars>>
        /\ toPut' \subseteq toPut
    BY <1>5 DEF FlushPut, PipelineInv, FlusherHolds
  <2>2. ready[s].minute \in Minutes
    BY <2>1 DEF PipelineInv, BufferInv, MinuteBars
  <2>3. BarsInv' /\ WriterHolds' /\ SentinelInv' /\ stoppedAt' \in 0 .. Len(puts')
    BY <2>1, <2>2, PutKeepsPipeline
  <2>4. BufferInv'
    BY <2>1, BufferStutters DEF PipelineInv
  <2>5. ThreadsTyped'
    BY <2>1, <2>3 DEF PipelineInv, ThreadsTyped, writerVars, mainVars
  <2>6. FlusherHolds'
    BY <2>1 DEF PipelineInv, FlusherHolds, bufferVars
  <2> QED BY <2>3, <2>4, <2>5, <2>6 DEF PipelineInv
<1> QED BY <1>1, <1>2, <1>3, <1>4, <1>5 DEF FlusherStep

(* The main thread goes on without queuing anything.                        *)
LEMMA MainWalks ==
    ASSUME PipelineInv, UNCHANGED <<bufferVars, queueVars, feedVars, writerVars, mock, stoppedAt>>,
           main' \in MainPhases, processing' \in BOOLEAN, writing' \in BOOLEAN,
           Told' <=> Told, ~writing' => Told'
    PROVE  PipelineInv'
<1>1. BufferInv'
  BY BufferStutters DEF PipelineInv
<1>2. ThreadsTyped'
  BY DEF PipelineInv, ThreadsTyped, queueVars, feedVars, writerVars, MainPhases
<1>3. SentinelInv'
  BY DEF PipelineInv, SentinelInv, NoSentinel, OneSentinel, queueVars, writerVars
<1>4. FlusherHolds'
  BY DEF PipelineInv, FlusherHolds, bufferVars, feedVars
<1> QED BY <1>1, <1>2, <1>3, <1>4, FeedMoves

(* Every step of the main thread's shutdown keeps it.                       *)
LEMMA MainKeepsPipeline == PipelineInv /\ (MainStep \/ Stop) => PipelineInv'
<1> SUFFICES ASSUME PipelineInv, MainStep \/ Stop PROVE PipelineInv'
  OBVIOUS
<1>0. processing \in BOOLEAN /\ writing \in BOOLEAN /\ (~writing => Told)
  BY DEF PipelineInv, ThreadsTyped, SentinelInv
<1>1. ASSUME NEW s \in Symbols, InjectMockBar(s) PROVE PipelineInv'
  <2>1. /\ Put(s, clock, "mock") /\ clock \in Minutes
        /\ UNCHANGED <<bufferVars, stream, flusher, writerVars, mainVars>>
        /\ toPut' \subseteq toPut
    BY <1>1 DEF InjectMockBar, PipelineInv, BufferInv
  <2>3. BarsInv' /\ WriterHolds' /\ SentinelInv' /\ stoppedAt' \in 0 .. Len(puts')
    BY <2>1, PutKeepsPipeline
  <2>4. BufferInv'
    BY <2>1, BufferStutters DEF PipelineInv
  <2>5. ThreadsTyped'
    BY <2>1, <2>3 DEF PipelineInv, ThreadsTyped, writerVars, mainVars
  <2>6. FlusherHolds'
    BY <2>1 DEF PipelineInv, FlusherHolds, bufferVars
  <2> QED BY <2>3, <2>4, <2>5, <2>6 DEF PipelineInv
<1>2. CASE Injected
  BY <1>0, <1>2, MainWalks DEF Injected, MainPhases, Told
<1>3. CASE Stop
  BY <1>0, <1>3, MainWalks DEF Stop, MainPhases, Told
<1>4. CASE JoinStream
  BY <1>0, <1>4, MainWalks DEF JoinStream, MainPhases, Told
<1>5. CASE JoinFlusher
  BY <1>0, <1>5, MainWalks DEF JoinFlusher, MainPhases, Told
<1>6. CASE QueueSentinel
  <2>0. queue \in Seq(Nat) /\ puts \in Seq(QueuedBars)
    BY DEF PipelineInv, BarsInv, BarsTyped
  <2>1. BufferInv'
    BY <1>6, BufferStutters DEF QueueSentinel, PipelineInv
  <2>2. BarsInv'
    BY <1>6, SentinelKeepsBars DEF QueueSentinel, PipelineInv, writerVars
  <2>3. ThreadsTyped'
    BY <1>6, <2>0
       DEF QueueSentinel, PipelineInv, ThreadsTyped, feedVars, writerVars, MainPhases
  <2>4. SentinelInv'
    <3>1. NoSentinel /\ writer \notin {"reputting", "done"} /\ writer' = writer
      BY <1>6 DEF QueueSentinel, PipelineInv, SentinelInv, Told, writerVars
    <3>2. OneSentinel' /\ Told'
      BY <1>6, <2>0, <3>1, SentinelMoves DEF QueueSentinel, Told
    <3> QED BY <3>1, <3>2 DEF SentinelInv
  <2>5. WriterHolds'
    BY <1>6 DEF QueueSentinel, PipelineInv, WriterHolds, writerVars
  <2>6. FlusherHolds'
    BY <1>6 DEF QueueSentinel, PipelineInv, FlusherHolds, bufferVars, feedVars
  <2> QED BY <2>1, <2>2, <2>3, <2>4, <2>5, <2>6 DEF PipelineInv
<1>7. CASE ClearFlag
  BY <1>0, <1>7, MainWalks DEF ClearFlag, MainPhases, Told
<1>8. CASE JoinWriter
  BY <1>0, <1>8, MainWalks DEF JoinWriter, MainPhases, Told
<1> QED BY <1>1, <1>2, <1>3, <1>4, <1>5, <1>6, <1>7, <1>8 DEF MainStep, ShutdownStep

(* So every step of the pipeline keeps it.                                  *)
LEMMA PipelineStep == PipelineInv /\ [Next]_vars => PipelineInv'
<1> SUFFICES ASSUME PipelineInv, [Next]_vars PROVE PipelineInv'
  OBVIOUS
<1>1. CASE Tick
  <2>1. BufferInv'
    BY <1>1, NextMinuteKeepsBufferInv DEF Tick, PipelineInv
  <2>2. ThreadsTyped'
    BY <1>1 DEF Tick, PipelineInv, ThreadsTyped, queueVars, feedVars, writerVars, mainVars
  <2>3. SentinelInv'
    BY <1>1, WriterRests DEF Tick, mainVars
  <2>4. FlusherHolds'
    BY <1>1 DEF Tick, PipelineInv, FlusherHolds, feedVars, NextMinute
  <2> QED BY <1>1, <2>1, <2>2, <2>3, <2>4, FeedMoves DEF Tick
<1>2. CASE UNCHANGED vars
  <2>1. BufferInv'
    BY <1>2, BufferStutters DEF vars, PipelineInv
  <2>2. ThreadsTyped'
    BY <1>2 DEF vars, PipelineInv, ThreadsTyped, queueVars, feedVars, writerVars, mainVars
  <2>3. SentinelInv'
    BY <1>2, WriterRests DEF vars, mainVars
  <2>4. FlusherHolds'
    BY <1>2 DEF vars, PipelineInv, FlusherHolds, feedVars, bufferVars
  <2> QED BY <1>2, <2>1, <2>2, <2>3, <2>4, FeedMoves DEF vars
<1> QED BY <1>1, <1>2, StreamKeepsPipeline, FlusherKeepsPipeline, WriterKeepsPipeline,
           MainKeepsPipeline DEF Next

-----------------------------------------------------------------------------
(* What the invariant says. *)

(* The sentinel is on the queue once, or not at all while the writer holds  *)
(* it between taking it off and putting it back.                            *)
LEMMA OneSentinelCounted == PipelineInv => SentinelSurvives
<1> SUFFICES ASSUME PipelineInv, Told, writer # "done"
             PROVE  Cardinality({k \in DOMAIN queue : queue[k] = Sentinel})
                        = IF writer = "reputting" THEN 0 ELSE 1
  BY DEF SentinelSurvives, Told
<1> DEFINE K == {k \in DOMAIN queue : queue[k] = Sentinel}
<1>1. CASE writer = "reputting"
  <2>1. K = {}
    BY <1>1 DEF PipelineInv, SentinelInv, NoSentinel
  <2> QED BY <1>1, <2>1, FS_EmptySet
<1>2. CASE writer # "reputting"
  <2>1. PICK k \in DOMAIN queue : \A l \in DOMAIN queue : queue[l] = Sentinel <=> l = k
    BY <1>2 DEF PipelineInv, SentinelInv, OneSentinel
  <2>2. K = {k}
    BY <2>1
  <2> QED BY <1>2, <2>2, FS_Singleton
<1> QED BY <1>1, <1>2

(* The invariant holds the type of the pipeline's state.                    *)
LEMMA PipelineInvTypes == PipelineInv => PipelineTypeOK
<1> SUFFICES ASSUME PipelineInv PROVE PipelineTypeOK
  OBVIOUS
<1>1. /\ puts \in Seq(QueuedBars) /\ DOMAIN puts = 1 .. Len(puts) /\ Len(puts) \in Nat
      /\ queue \in Seq(Nat) /\ \A k \in DOMAIN queue : queue[k] <= Len(puts)
      /\ batch \in Seq(Nat) /\ \A k \in DOMAIN batch : batch[k] \in 1 .. Len(puts)
      /\ decisions \in Seq(Nat) /\ \A k \in DOMAIN decisions : decisions[k] \in 1 .. Len(puts)
  BY DEF PipelineInv, BarsInv, BarsTyped
<1>0. ASSUME NEW S, NEW q \in Seq(Nat), \A k \in DOMAIN q : q[k] \in S PROVE q \in Seq(S)
  <2>1. q \in [1 .. Len(q) -> S] /\ Len(q) \in Nat
    BY <1>0
  <2> QED BY <2>1, SeqDef
<1>2. queue \in Seq({Sentinel} \union DOMAIN puts)
  <2>1. \A k \in DOMAIN queue : queue[k] \in {Sentinel} \union DOMAIN puts
    BY <1>1 DEF Sentinel
  <2> QED BY <1>0, <1>1, <2>1
<1>3. batch \in Seq(DOMAIN puts) /\ decisions \in Seq(DOMAIN puts)
  BY <1>0, <1>1
<1>4. Len(batch) <= BatchSize
  BY DEF PipelineInv, WriterHolds
<1>5. /\ mapped \in 0 .. Len(batch)
      /\ table \subseteq DOMAIN puts /\ lost \subseteq DOMAIN puts
  BY <1>1 DEF PipelineInv, BarsInv, BarsTyped
<1> QED BY <1>1, <1>2, <1>3, <1>4, <1>5 DEF PipelineInv, ThreadsTyped, PipelineTypeOK

(* Every variable of the pipeline keeps its type, for any symbols, batch    *)
(* size and bounds.                                                         *)
THEOREM PipelineIsTyped == Spec => []PipelineTypeOK
<1> QED BY PipelineStart, PipelineStep, PipelineInvTypes, PTL DEF Spec

(* In the pipeline, where flusher and stream share the buffer, it keeps     *)
(* what it keeps on its own.                                                *)
THEOREM BufferInPipeline == Spec => [](BufferTypeOK /\ BarsSummariseTicks /\ VolumeConserved)
<1>1. PipelineInv => BufferTypeOK /\ BarsSummariseTicks /\ VolumeConserved
  BY BufferInvShows DEF PipelineInv
<1> QED BY <1>1, PipelineStart, PipelineStep, PTL DEF Spec

(* No bar vanishes between the threads: every bar ever queued is on the     *)
(* queue, in the writer's batch, in a batch that failed, or its minute has  *)
(* a row.                                                                   *)
THEOREM NoBarVanishes == Spec => []BarsAccountedFor
<1>1. PipelineInv => BarsAccountedFor
  BY DEF PipelineInv, BarsInv
<1> QED BY <1>1, PipelineStart, PipelineStep, PTL DEF Spec

(* Of the flushed and the official bar of a minute the one queued first     *)
(* becomes the row, unless its batch failed, and there is one row.          *)
THEOREM FirstQueuedBecomesRow == Spec => []FirstQueuedWins
<1>1. PipelineInv => FirstQueuedWins
  BY DEF PipelineInv, BarsInv
<1> QED BY <1>1, PipelineStart, PipelineStep, PTL DEF Spec

(* Decisions are sent in the order the bars were queued, at most one a bar. *)
THEOREM DecisionsInOrder == Spec => []DecisionsFollowQueue
<1>1. PipelineInv => DecisionsFollowQueue
  BY DEF PipelineInv, BarsInv
<1> QED BY <1>1, PipelineStart, PipelineStep, PTL DEF Spec

(* The request to stop is not lost, however often the writer meets it       *)
(* behind bars and puts it back.                                            *)
THEOREM StopRequestSurvives == Spec => []SentinelSurvives
<1> QED BY PipelineStart, PipelineStep, OneSentinelCounted, PTL DEF Spec

(* A batch that fails does not end the writer thread: it leaves only after  *)
(* the main thread has told it to.                                          *)
THEOREM WriterStaysUntilTold == Spec => []WriterLeavesOnlyWhenTold
<1>1. PipelineInv => WriterLeavesOnlyWhenTold
  BY DEF PipelineInv, SentinelInv, Told, WriterLeavesOnlyWhenTold
<1> QED BY <1>1, PipelineStart, PipelineStep, PTL DEF Spec
=============================================================================
