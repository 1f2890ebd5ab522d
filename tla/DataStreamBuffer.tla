--------------------------- MODULE DataStreamBuffer ---------------------------
(***************************************************************************)
(* DataStreamBuffer (src/data_buffer.py): ticks of several symbols are     *)
(* aggregated into running one-minute bars, and bars whose minute is over  *)
(* are handed out and forgotten.  Both methods hold the buffer's lock from *)
(* end to end, so each is one action; the stream thread, the REST polls    *)
(* and the flusher thread call them in any order.                          *)
(*                                                                         *)
(* The running bars of a symbol are a dict keyed by minute; a Python dict  *)
(* iterates in insertion order, so it is a sequence here.  A tick may be   *)
(* late (a poll repeats the latest trade until a newer one exists) or      *)
(* early by one minute (the exchange's clock is ahead of this host's).     *)
(***************************************************************************)
EXTENDS Series

CONSTANTS
    Symbols,            \* traded symbols; get_ready_bars is asked for them all
    Prices, Sizes,      \* what a trade may carry
    MaxTicksPerMinute,  \* max_ticks_per_minute, the length of a tick deque
    MaxMinute,          \* bound: last minute of the clock
    MaxVolume           \* bound: volume of all ticks together

ASSUME DataAssumption == Prices \subseteq Int /\ Sizes \subseteq Nat
ASSUME DequeAssumption == MaxTicksPerMinute \in Nat \ {0}
ASSUME BufferBoundsAssumption == MaxMinute \in Nat /\ MaxVolume \in Nat

VARIABLES
    clock,      \* epoch_minute(now_utc())
    running,    \* _running_bars: per symbol, bars in order of first tick
    buffer,     \* buffer: per symbol and minute, the last ticks received
    ready,      \* what the last get_ready_bars returned: a bar per symbol
    ledger      \* history: per symbol and minute, volume by what became of it

bufferVars == <<clock, running, buffer, ready, ledger>>

-----------------------------------------------------------------------------
Minutes == 0 .. MaxMinute
Ticks == [price : Prices, size : Sizes]
MinuteBars == [minute : Minutes, open : Prices, high : Prices, low : Prices,
               close : Prices, volume : Nat]

(* added = volume of all ticks taken in; returned = volume of bars handed   *)
(* out; replaced = volume of bars taken off the dict but not handed out.    *)
Ledgers == [added : Nat, returned : Nat, replaced : Nat]

MinutesOf(s) == {running[s][i].minute : i \in DOMAIN running[s]}

BufferTypeOK ==
    /\ clock \in Minutes
    /\ running \in [Symbols -> Seq(MinuteBars)]
    /\ \A s \in Symbols : /\ IsInjective([i \in DOMAIN running[s] |->
                                              running[s][i].minute])
                          /\ DOMAIN buffer[s] = MinutesOf(s)
                          /\ \A m \in MinutesOf(s) :
                                /\ buffer[s][m] \in Seq(Ticks)
                                /\ Len(buffer[s][m]) \in 1 .. MaxTicksPerMinute
    /\ \A s \in DOMAIN ready : s \in Symbols /\ ready[s] \in MinuteBars
    /\ ledger \in [Symbols -> [Minutes -> Ledgers]]

-----------------------------------------------------------------------------
BufferInit ==
    /\ clock = 0
    /\ running = [s \in Symbols |-> <<>>]
    /\ buffer = [s \in Symbols |-> <<>>]
    /\ ready = <<>>
    /\ ledger = [s \in Symbols |->
                    [m \in Minutes |-> [added |-> 0, returned |-> 0, replaced |-> 0]]]

OpenBar(m, t) ==
    [minute |-> m, open |-> t.price, high |-> t.price, low |-> t.price,
     close |-> t.price, volume |-> t.size]

Larger(x, y) == IF x >= y THEN x ELSE y
Smaller(x, y) == IF x <= y THEN x ELSE y

(* Mutant of Merge: the extremes follow the close they are compared with.   *)
MergeFromClose(bar, t) ==
    [bar EXCEPT !.high = Larger(bar.close, t.price),
                !.low = Smaller(bar.close, t.price),
                !.close = t.price,
                !.volume = @ + t.size]

(* Mutant of Merge: the volume of the last tick, not of all.                *)
MergeLastSize(bar, t) ==
    [bar EXCEPT !.high = Larger(@, t.price),
                !.low = Smaller(@, t.price),
                !.close = t.price,
                !.volume = t.size]

(* A further tick of a minute that already has a bar.                       *)
Merge(bar, t) ==
    [bar EXCEPT !.high = Larger(@, t.price),
                !.low = Smaller(@, t.price),
                !.close = t.price,
                !.volume = @ + t.size]

(* Mutant of Remember: a plain list, no maxlen.                             *)
RememberAll(q, t) == Append(q, t)

(* deque(maxlen=MaxTicksPerMinute).append(t).                               *)
Remember(q, t) ==
    IF Len(q) < MaxTicksPerMinute THEN Append(q, t) ELSE Append(Tail(q), t)

(* add_tick: t is a trade of minute m.                                      *)
AddTick(s, m, t) ==
    /\ IF m \in MinutesOf(s)
       THEN /\ running' = [running EXCEPT ![s] =
                   [i \in DOMAIN @ |-> IF @[i].minute = m THEN Merge(@[i], t)
                                                          ELSE @[i]]]
            /\ buffer' = [buffer EXCEPT ![s][m] = Remember(@, t)]
       ELSE /\ running' = [running EXCEPT ![s] = Append(@, OpenBar(m, t))]
            /\ buffer' = [buffer EXCEPT ![s] =
                   [n \in DOMAIN @ \union {m} |-> IF n = m THEN <<t>> ELSE @[n]]]
    /\ ledger' = [ledger EXCEPT ![s][m].added = @ + t.size]
    /\ UNCHANGED <<clock, ready>>

(* The bars of s older than the current minute, in the order of the dict.   *)
ReadyBars(s) ==
    Picked(running[s], {i \in DOMAIN running[s] : running[s][i].minute < clock})

(* And those of the current minute or a later one, which stay in the dict.  *)
RunningOn(s) ==
    Picked(running[s], {i \in DOMAIN running[s] : running[s][i].minute >= clock})

(* ready_data[symbol] is assigned once per ready bar of the symbol: the     *)
(* last of them in the dict's order is the one returned.                    *)
ReturnedBar(s) == Last(ReadyBars(s))

VolumeIn(bars, m) ==
    SumOf([i \in DOMAIN bars |-> IF bars[i].minute = m THEN bars[i].volume ELSE 0])

VolumeReturned(s, m) ==
    IF ReadyBars(s) # <<>> /\ ReturnedBar(s).minute = m
    THEN ReturnedBar(s).volume ELSE 0

(* Mutant of GetReadyBars: the bars handed out stay in the dict.            *)
GetReadyBarsKeeps ==
    /\ ready' = [s \in {u \in Symbols : ReadyBars(u) # <<>>} |-> ReturnedBar(s)]
    /\ ledger' = [s \in Symbols |-> [m \in Minutes |->
           [ledger[s][m] EXCEPT
               !.returned = @ + VolumeReturned(s, m),
               !.replaced = @ + VolumeIn(ReadyBars(s), m) - VolumeReturned(s, m)]]]
    /\ UNCHANGED <<clock, running, buffer>>

(* get_ready_bars(self.symbols).                                            *)
GetReadyBars ==
    /\ ready' = [s \in {u \in Symbols : ReadyBars(u) # <<>>} |-> ReturnedBar(s)]
    /\ running' = [s \in Symbols |-> RunningOn(s)]
    /\ buffer' = [s \in Symbols |->
                     [m \in {n \in DOMAIN buffer[s] : n >= clock} |-> buffer[s][m]]]
    /\ ledger' = [s \in Symbols |-> [m \in Minutes |->
           [ledger[s][m] EXCEPT
               !.returned = @ + VolumeReturned(s, m),
               !.replaced = @ + VolumeIn(ReadyBars(s), m) - VolumeReturned(s, m)]]]
    /\ UNCHANGED clock

(* The host's clock reaches the next minute.                                *)
NextMinute ==
    /\ clock < MaxMinute
    /\ clock' = clock + 1
    /\ UNCHANGED <<running, buffer, ready, ledger>>

(* The minutes a tick received now may belong to.                           *)
TickMinutes == {m \in Minutes : m <= clock + 1}

VolumeAdded ==
    MapThenSumSet(LAMBDA s : MapThenSumSet(LAMBDA m : ledger[s][m].added, Minutes),
                  Symbols)

BufferNext ==
    \/ \E s \in Symbols, m \in TickMinutes, t \in Ticks :
          VolumeAdded + t.size <= MaxVolume /\ AddTick(s, m, t)
    \/ GetReadyBars
    \/ NextMinute

BufferSpec == BufferInit /\ [][BufferNext]_bufferVars

-----------------------------------------------------------------------------
RunningBar(s, m) == CHOOSE bar \in Range(running[s]) : bar.minute = m

(* The running bar of a minute says of its ticks what the tick deque says   *)
(* of them; past max_ticks_per_minute the deque forgets and only bounds it. *)
BarsSummariseTicks ==
    \A s \in Symbols : \A m \in MinutesOf(s) :
        LET bar == RunningBar(s, m)
            q == buffer[s][m]
            seen == {q[i].price : i \in DOMAIN q}
            volume == SumOf([i \in DOMAIN q |-> q[i].size])
        IN /\ bar.close = Last(q).price
           /\ \A p \in seen : bar.low <= p /\ p <= bar.high
           /\ bar.low <= bar.open /\ bar.open <= bar.high
           /\ volume <= bar.volume
           /\ Len(q) < MaxTicksPerMinute =>
                 /\ bar.open = Head(q).price
                 /\ {bar.low, bar.high} \subseteq seen
                 /\ volume = bar.volume

(* Every trade's volume is in exactly one place: the running bar of its     *)
(* minute, a bar that was handed out, or a bar a flush replaced.  A late    *)
(* tick opens a second bar for a minute already handed out; no tick is      *)
(* counted twice and none evaporates.                                       *)
VolumeConserved ==
    \A s \in Symbols, m \in Minutes :
        ledger[s][m].added = ledger[s][m].returned + ledger[s][m].replaced
                             + VolumeIn(running[s], m)

(* "Returns bars that are older than current minute" (data_buffer.py:83):   *)
(* a bar leaves the buffer only by being handed out.                        *)
ReadyBarsAreReturned ==
    [][\A s \in Symbols : \A i \in DOMAIN running[s] :
          running[s][i].minute \notin MinutesOf(s)' =>
              s \in DOMAIN ready' /\ ready'[s] = running[s][i]]_bufferVars
=============================================================================
