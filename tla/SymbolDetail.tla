----------------------------- MODULE SymbolDetail -----------------------------
(***************************************************************************)
(* The page of one symbol: get_symbol_detail (src/web_server/api_layer.py) *)
(* over MarketDataBuffer's summary and ticks, and over the bars of the     *)
(* database, which are asked for behind a circuit breaker                  *)
(* (src/web_server/data_layer.py).                                         *)
(*                                                                         *)
(* Requests are coroutines of one event loop; a query runs on a thread of  *)
(* its own, is awaited for at most a second, and meets others.             *)
(***************************************************************************)
EXTENDS MarketBuffer

CONSTANTS
    MaxQueries,     \* bound: the queries awaited at a time
    Durations,      \* SUMMARY_DURATIONS
    Askable,        \* what a request may name as its duration
    NoPrice,        \* None, for a duration the database has no price for
    Failed,         \* a read that raises one of DB_READ_FAILURES
    NoRecord        \* the database has no bar of the symbol, or does not say

ASSUME QueryAssumption == MaxQueries \in Nat
ASSUME DurationAssumption == Durations \subseteq Askable
ASSUME NoPriceAssumption == NoPrice \notin Int /\ Failed \notin Int /\ Failed # NoPrice
ASSUME NoRecordAssumption == NoRecord \notin [price : Int, open : Int]

VARIABLES
    available,  \* _db_is_available
    cooled,     \* _DB_RETRY_INTERVAL has passed since _db_last_attempt_time
    queries,    \* the queries awaited that were started while available
    probes      \* and those started while not

breakerVars == <<available, cooled, queries, probes>>
detailVars == <<vars, breakerVars>>

BreakerTypeOK ==
    /\ available \in BOOLEAN /\ cooled \in BOOLEAN
    /\ queries \in 0 .. MaxQueries /\ probes \in 0 .. MaxQueries

DetailInit ==
    /\ Init
    /\ available = TRUE /\ cooled = TRUE
    /\ queries = 0 /\ probes = 0

-----------------------------------------------------------------------------
(* _query_historical_ticks_safe *)

Awaited == queries + probes

(* Mutant of Query: the attempt is noted when its answer is there.          *)
QueryNotedLate ==
    /\ available \/ cooled
    /\ Awaited < MaxQueries
    /\ IF available THEN queries' = queries + 1 /\ UNCHANGED probes
                    ELSE probes' = probes + 1 /\ UNCHANGED queries
    /\ UNCHANGED <<vars, available, cooled>>

(* A request may ask: the attempt is noted before the await.  A request     *)
(* that may not goes on without bars and changes nothing.                   *)
Query ==
    /\ available \/ cooled
    /\ Awaited < MaxQueries
    /\ cooled' = FALSE
    /\ IF available THEN queries' = queries + 1 /\ UNCHANGED probes
                    ELSE probes' = probes + 1 /\ UNCHANGED queries
    /\ UNCHANGED <<vars, available>>

Ended ==
    \/ queries > 0 /\ queries' = queries - 1 /\ UNCHANGED probes
    \/ probes > 0 /\ probes' = probes - 1 /\ UNCHANGED queries

(* An answer in time, be it the empty list that get_historical_market_data  *)
(* makes of a failure of its own.                                           *)
Answered ==
    /\ Ended
    /\ available' = TRUE
    /\ UNCHANGED <<vars, cooled>>

(* A second has passed: the breaker opens.                                  *)
TimedOut ==
    /\ Ended
    /\ available' = FALSE
    /\ UNCHANGED <<vars, cooled>>

(* The retry interval is longer than any await: every query that was        *)
(* started before the last attempt is over by then.                         *)
Cool ==
    /\ ~cooled /\ Awaited = 0
    /\ cooled' = TRUE
    /\ UNCHANGED <<vars, available, queries, probes>>

DetailNext ==
    \/ \E t \in Ticks : AddTick(t) /\ UNCHANGED breakerVars
    \/ \E p \in Prices : SetOpenPrice(p) /\ UNCHANGED breakerVars
    \/ Query \/ Answered \/ TimedOut \/ Cool

DetailSpec == DetailInit /\ [][DetailNext]_detailVars

-----------------------------------------------------------------------------
(* _merge_ticks *)

(* Two pointers over series in the order of time, the first one's first.    *)
TwoPointer(h, b) ==
    LET rest[p \in (1 .. Len(h) + 1) \X (1 .. Len(b) + 1)] ==
            LET i == p[1]
                j == p[2]
            IN IF i > Len(h) THEN SubSeq(b, j, Len(b))
               ELSE IF j > Len(b) THEN SubSeq(h, i, Len(h))
               ELSE IF h[i].time <= b[j].time THEN <<h[i]>> \o rest[<<i + 1, j>>]
               ELSE <<b[j]>> \o rest[<<i, j + 1>>]
    IN rest[<<1, 1>>]

KeyOf(t) == <<t.time, t.price>>
KeysIn(s) == {KeyOf(s[i]) : i \in DOMAIN s}

FirstOfEachKey(s) ==
    Picked(s, {i \in DOMAIN s : \A j \in 1 .. i - 1 : KeyOf(s[j]) # KeyOf(s[i])})

LastOf(s, limit) == IF Len(s) > limit THEN SubSeq(s, Len(s) - limit + 1, Len(s)) ELSE s

(* Mutant of MergeTicks: the two series one behind the other.               *)
MergeByJoining(h, b, limit) == LastOf(FirstOfEachKey(h \o b), limit)

MergeTicks(h, b, limit) == LastOf(FirstOfEachKey(TwoPointer(h, b)), limit)

Since(s, start) == Picked(s, {i \in DOMAIN s : s[i].time >= start})

(* get_historical_market_data: the latest bars of the window.               *)
HistoricalTicks(rows, start, limit) == LastOf(Since(rows, start), limit)

(* get_ticks, and the window that get_symbol_detail asks for: the limit     *)
(* counts first.                                                            *)
BufferTicks(start, limit) == Since(LastOf(history, limit), start)

(* get_symbol_detail: what it collects and what it shows.                   *)
DetailTicks(rows, start, limit) ==
    LET historical == HistoricalTicks(rows, start, limit)
        buffered == BufferTicks(start, limit)
    IN [historical |-> historical, buffered |-> buffered,
        series |-> MergeTicks(historical, buffered, limit)]

-----------------------------------------------------------------------------
(* get_summary *)

(* _interval_anchor: a price that is none or not positive is not one.       *)
Anchor(start, fallback) == IF start \in Positive THEN start ELSE fallback

(* A change and its percentage, in whole percents rounded down; of an       *)
(* anchor that is not positive there is none.                               *)
Change(current, anchor) ==
    [change |-> current - anchor,
     percent |-> IF anchor > 0 THEN (100 * (current - anchor)) \div anchor ELSE 0]

(* What one question to the database for one price is answered.             *)
Answers == {NoPrice, Failed} \union Prices

(* _interval_starts: an answer for every duration, or none at all when the  *)
(* read fails and when there is no manager.                                 *)
IntervalStarts == {<<>>} \union [Durations -> {NoPrice} \union Prices]

(* The price at the start of the duration that was asked for: from the      *)
(* starts, or from the database's answer to a question of its own.          *)
StartOf(starts, duration, own) ==
    IF duration \in DOMAIN starts THEN starts[duration] ELSE own

(* _duration_stats                                                          *)
DurationStats(current, starts, fallback) ==
    [d \in Durations |-> Change(current, Anchor(StartOf(starts, d, NoPrice), fallback))]

(* Mutant of ChangeFor: any price the database has is the anchor.           *)
ChangeForAny(current, starts, duration, own, fallback) ==
    LET start == StartOf(starts, duration, own)
    IN Change(current, IF start \in Prices THEN start ELSE fallback)

(* _change_for_duration; a question of its own that fails is one that has   *)
(* no answer, and so is one without a manager.                              *)
ChangeFor(current, starts, duration, own, fallback) ==
    Change(current, Anchor(StartOf(starts, duration, own), fallback))

(* get_latest_market_record: a bar without a close or an open has 0 there.  *)
Records == [price : Positive \union {0}, open : Positive \union {0}]

EmptySummary == [currentPrice |-> 0, asked |-> Change(0, 0), stats |-> <<>>]

(* _db_only_summary: what is shown of a symbol nothing ticked for yet.  The *)
(* fallback of every duration is the anchor of the one that was asked for.  *)
(* A question that fails leaves nothing to show.                            *)
RecordSummary(record, duration, starts, own) ==
    LET current == record.price
        first == IF record.open = 0 THEN current ELSE record.open
        from == Anchor(StartOf(starts, duration, own), first)
    IN IF StartOf(starts, duration, own) = Failed THEN EmptySummary
       ELSE [currentPrice |-> current,
             asked |-> Change(current, from),
             stats |-> DurationStats(current, starts, from)]

(* get_summary, with ticks, with a bar only, or with neither.               *)
Summary(duration, starts, own, record) ==
    IF history = <<>>
    THEN IF record = NoRecord THEN EmptySummary
         ELSE RecordSummary(record, duration, starts, own)
    ELSE LET current == Last(history).price
         IN [currentPrice |-> current,
             asked |-> ChangeFor(current, starts, duration, own, open),
             stats |-> DurationStats(current, starts, open)]

-----------------------------------------------------------------------------
(* What a database may hold: a bar per minute, two of them here.            *)
StoredRows ==
    LET bar(time, price) == [time |-> time, price |-> price, size |-> 0]
    IN {<<>>} \union {<<bar(t, p)>> : t \in Times, p \in Positive}
       \union {<<bar(t, p), bar(u, p)>> : t \in Times, u \in {v \in Times : v > 1}, p \in Positive}

Chronicles == {r \in StoredRows : Len(r) = 2 => r[1].time < r[2].time}

(* A page over these bars: in the order of time, no price twice at one      *)
(* instant, and each of the latest ticks and bars in it unless as many      *)
(* newer ones push it out.  Of a bar and a tick of one instant the page may *)
(* drop the bar.                                                            *)
SeriesIsMerged(rows, start, limit) ==
    LET page == DetailTicks(rows, start, limit)
        ticks == KeysIn(page.buffered)
        had == KeysIn(page.historical) \union ticks
        series == page.series
        shown == KeysIn(series)
    IN /\ \A i, j \in DOMAIN series :
             i < j => /\ series[i].time <= series[j].time
                      /\ KeyOf(series[i]) # KeyOf(series[j])
       /\ shown \subseteq had
       /\ \A k \in had \ shown :
             \/ Len(series) = limit /\ \A l \in shown : k[1] <= l[1]
             \/ k \notin ticks /\ \E l \in ticks : k[1] = l[1]

(* The series of a symbol's page is a merged one, whatever bars there are   *)
(* and wherever the window begins and the limit cuts (_merge_ticks, behind  *)
(* the limits of get_ticks and get_historical_market_data).                 *)
MergedSeries ==
    \A rows \in Chronicles, start \in {0, 2}, limit \in {2, 2 * MaxTicks} :
        SeriesIsMerged(rows, start, limit)

(* The docstring of _merge_ticks: "Deduplicates by timestamp with buffer    *)
(* ticks taking precedence over DB ticks".  At an instant the buffer has a  *)
(* tick of, the page shows ticks of the buffer and no bar.                  *)
BufferTakesPrecedence ==
    \A rows \in Chronicles :
        LET page == DetailTicks(rows, 0, 2 * MaxTicks)
        IN \A i \in DOMAIN page.series, j \in DOMAIN page.buffered :
               page.series[i].time = page.buffered[j].time =>
                   page.series[i] \in Range(page.buffered)

(* A database that does not answer is asked by one request at a time,       *)
(* however many come in: the others do not wait for it.                     *)
ProbesAlone == probes <= 1

(* A change that is shown is one from a positive price, whatever the        *)
(* database answers or fails to: no page takes an anchor of zero and calls  *)
(* the whole price a change.  And what a page shows for the duration it was *)
(* asked for is what its table shows for it, for a symbol with ticks, with  *)
(* a bar only and with neither.  The exception is a page with ticks whose   *)
(* table was not answered and whose own question, asked after it, was.      *)
SummaryAgrees ==
    \A d \in Askable, starts \in IntervalStarts :
    \A own \in IF d \in DOMAIN starts THEN {NoPrice} ELSE Answers,
       record \in {NoRecord} \union IF history = <<>> THEN Records ELSE {} :
        LET s == Summary(d, starts, own, record)
            table == s.stats
        IN /\ \A c \in {s.asked} \union Range(table) :
                 c.change = 0 \/ s.currentPrice - c.change > 0
           /\ d \in DOMAIN table /\ (history = <<>> \/ starts # <<>> \/ own \notin Positive) =>
                 s.asked = table[d]
=============================================================================
