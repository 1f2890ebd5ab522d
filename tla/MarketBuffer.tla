----------------------------- MODULE MarketBuffer -----------------------------
(***************************************************************************)
(* MarketDataBuffer (src/web_server/data_layer.py): the dashboard's recent *)
(* ticks of a symbol, with the high, low and volume of the window kept up  *)
(* to date instead of being recomputed.  The stream thread, the flusher's  *)
(* polls and the seeding main thread call it in any order, each call under *)
(* the buffer's lock, so each is one action.  Symbols do not touch each    *)
(* other: one symbol stands for all.                                       *)
(***************************************************************************)
EXTENDS Series

CONSTANTS
    Prices, Sizes, Times,   \* what a tick may carry
    MaxTicks                \* max_ticks, the window

ASSUME TickAssumption ==
    Prices \subseteq Int /\ Sizes \subseteq Nat /\ Times \subseteq Nat
ASSUME WindowAssumption == MaxTicks \in Nat \ {0, 1}

VARIABLES
    history,    \* _history[symbol]: ticks, oldest first
    open,       \* _open_prices[symbol]; 0 when the key is not there
    volume,     \* _running_volume[symbol]
    high, low   \* _running_high[symbol], _running_low[symbol]

windowVars == <<history, volume, high, low>>
vars == <<windowVars, open>>

-----------------------------------------------------------------------------
Ticks == [price : Prices, size : Sizes, time : Times]
Positive == {p \in Prices : p > 0}

TypeOK ==
    /\ history \in Seq([price : Positive, size : Sizes, time : Times])
    /\ Len(history) <= MaxTicks
    /\ open \in Positive \union {0}
    /\ volume \in Nat
    /\ high \in Positive \union {0} /\ low \in Positive \union {0}

Larger(x, y) == IF x >= y THEN x ELSE y
Smaller(x, y) == IF x <= y THEN x ELSE y

PricesOf(h) == {h[i].price : i \in DOMAIN h}
Highest(h) == CHOOSE p \in PricesOf(h) : \A q \in PricesOf(h) : p >= q
Lowest(h) == CHOOSE p \in PricesOf(h) : \A q \in PricesOf(h) : p <= q
VolumeOf(h) == SumOf([i \in DOMAIN h |-> h[i].size])

Init ==
    /\ history = <<>>
    /\ open = 0 /\ volume = 0 /\ high = 0 /\ low = 0

-----------------------------------------------------------------------------
(* Mutant of Inserted: a late tick goes before its equals, not behind them. *)
InsertedBeforeEquals(h, t) ==
    LET later == SelectSeq(h, LAMBDA u : u.time >= t.time)
        before == SelectSeq(h, LAMBDA u : u.time < t.time)
    IN before \o <<t>> \o later

(* Mutant of Inserted: always at the end.                                   *)
InsertedLast(h, t) == Append(h, t)

(* A tick takes its place by time, behind those of the same time.           *)
Inserted(h, t) ==
    LET k == Cardinality({i \in DOMAIN h : \A j \in i .. Len(h) : h[j].time > t.time})
    IN InsertAt(h, Len(h) + 1 - k, t)

(* The first tick of a symbol; an open price that was seeded before stays.  *)
FirstTick(t) ==
    /\ history = <<>>
    /\ history' = <<t>>
    /\ open' = IF open > 0 THEN open ELSE t.price
    /\ volume' = t.size
    /\ high' = t.price
    /\ low' = t.price

(* A further tick while the window has room.                                *)
GrowWindow(t) ==
    /\ history # <<>> /\ Len(history) < MaxTicks
    /\ history' = Inserted(history, t)
    /\ volume' = volume + t.size
    /\ high' = Larger(high, t.price)
    /\ low' = Smaller(low, t.price)
    /\ UNCHANGED open

(* Mutant of SlideWindow: only a high that leaves is noticed.               *)
SlideWindowHighOnly(t) ==
    LET evicted == Head(history)
        rest == Inserted(Tail(history), t)
    IN /\ Len(history) = MaxTicks
       /\ history' = rest
       /\ volume' = Larger(0, volume - evicted.size) + t.size
       /\ high' = IF evicted.price >= high
                  THEN Highest(rest) ELSE Larger(high, t.price)
       /\ low' = IF evicted.price >= high
                 THEN Lowest(rest) ELSE Smaller(low, t.price)
       /\ UNCHANGED open

(* Mutant of SlideWindow: the window ends at the tick that came last.       *)
SlideWindowNewest(t) ==
    LET rest == Inserted(Front(history), t)
    IN /\ Len(history) = MaxTicks
       /\ history' = rest
       /\ volume' = VolumeOf(rest)
       /\ high' = Highest(rest)
       /\ low' = Lowest(rest)
       /\ UNCHANGED open

(* A tick into a full window: the oldest leaves first, also when the tick   *)
(* itself is older; the extremes are recomputed only when it held one.      *)
SlideWindow(t) ==
    LET evicted == Head(history)
        rest == Inserted(Tail(history), t)
        heldExtreme == evicted.price >= high \/ evicted.price <= low
    IN /\ Len(history) = MaxTicks
       /\ history' = rest
       /\ volume' = Larger(0, volume - evicted.size) + t.size
       /\ high' = IF heldExtreme THEN Highest(rest) ELSE Larger(high, t.price)
       /\ low' = IF heldExtreme THEN Lowest(rest) ELSE Smaller(low, t.price)
       /\ UNCHANGED open

(* add_tick; a price of zero or less is rejected.                           *)
AddTick(t) ==
    /\ t.price > 0
    /\ FirstTick(t) \/ GrowWindow(t) \/ SlideWindow(t)

(* set_open_price, and the seeding of the dashboard at start.               *)
SetOpenPrice(p) ==
    /\ p > 0
    /\ open' = p
    /\ UNCHANGED windowVars

Next == (\E t \in Ticks : AddTick(t)) \/ (\E p \in Prices : SetOpenPrice(p))

Spec == Init /\ [][Next]_vars

-----------------------------------------------------------------------------
(* The running figures are those of the ticks in the window, whatever came  *)
(* late and whatever was evicted.                                           *)
RunningFiguresMatch ==
    history # <<>> => /\ volume = VolumeOf(history)
                      /\ high = Highest(history)
                      /\ low = Lowest(history)

(* The window is in the order of time whatever the order of arrival:        *)
(* get_latest_tick and the charts take it as it is.                         *)
Chronological ==
    \A i, j \in DOMAIN history : i < j => history[i].time <= history[j].time

(* The current price (get_latest_tick) never goes back in time: a late tick *)
(* is never the last, and the last is never evicted.  Of ticks of the same time the one  *)
(* that came last is the current one.                                       *)
CurrentPriceIsNewest ==
    [][\A t \in Ticks : AddTick(t) =>
          Last(history') = IF history = <<>> \/ t.time >= Last(history).time
                           THEN t ELSE Last(history)]_vars
=============================================================================
