---------------------------- MODULE IntervalCache ----------------------------
(***************************************************************************)
(* The interval-start prices of one symbol in one DatabaseManager          *)
(* (src/database.py): get_prices_at_interval_starts with its cache of one  *)
(* minute, the search for a duration's boundary, and the eviction by       *)
(* add_market_data.  A bar is known by its time; an answer names the bar   *)
(* it was taken from and whether its open or its close was.                *)
(*                                                                         *)
(* The readers of a manager are serialised (MarketDataBuffer calls it      *)
(* under its lock) and so are the steps of a thread that also writes       *)
(* through it.  Other managers write to the same table at any time.        *)
(***************************************************************************)
EXTENDS Series, FiniteSetsExt

CONSTANTS
    Grain,      \* instants per minute
    Offset,     \* INTERVAL_OFFSETS: a duration's length, in instants
    NewYear,    \* where "ytd" begins
    MaxTime     \* bound: the last instant

ASSUME GrainAssumption == Grain \in Nat \ {0}
ASSUME OffsetAssumption ==
    /\ IsFiniteSet(DOMAIN Offset)
    /\ \A d \in DOMAIN Offset : Offset[d] \in Nat /\ Offset[d] >= Grain
ASSUME HorizonAssumption == NewYear \in 0 .. MaxTime /\ MaxTime \in Nat

VARIABLES
    now,            \* now_utc()
    bars,           \* the times of the symbol's rows in market_data
    cache,          \* _interval_cache: an answer for some of the durations
    cacheMinute,    \* _interval_cache_minute, and the minute in every key
    read,           \* the call in progress
    origin          \* history: what each cached answer was read from

vars == <<now, bars, cache, cacheMinute, read, origin>>

-----------------------------------------------------------------------------
Durations == DOMAIN Offset \union {"ytd"}
Times == {t \in 0 .. MaxTime : t % Grain = 0}
MinuteOf(t) == t \div Grain

NoData == <<"none", 0>>
Answers == ({"open", "close"} \X Times) \union {NoData}

(* What is remembered of a cached answer: when it was read, the latest bar  *)
(* it was anchored to, the bars it was searched in, those this manager has  *)
(* written since, and whether the database failed to say.                   *)
Origins == [at : 0 .. MaxTime, latest : Times \union {-1},
            seen : SUBSET Times, own : SUBSET Times, failed : BOOLEAN]

Idle == [phase |-> "idle"]

TypeOK ==
    /\ now \in 0 .. MaxTime
    /\ bars \subseteq Times
    /\ DOMAIN cache \subseteq Durations /\ \A d \in DOMAIN cache : cache[d] \in Answers
    /\ cacheMinute \in {-1} \union {MinuteOf(t) : t \in 0 .. MaxTime}
    /\ \/ read = Idle
       \/ read \in [phase : {"anchor"}, missing : SUBSET Durations]
       \/ read \in [phase : {"range"}, missing : SUBSET Durations, latest : Times]
    /\ DOMAIN origin = DOMAIN cache /\ \A d \in DOMAIN origin : origin[d] \in Origins

Init ==
    /\ now = 0
    /\ bars = {}
    /\ cache = <<>> /\ cacheMinute = -1
    /\ read = Idle
    /\ origin = <<>>

-----------------------------------------------------------------------------
(* interval_window; the window of a year is longer than the horizon here.   *)
Window(d, at, latest) ==
    LET end == IF d # "ytd" /\ at - latest > Offset[d] THEN latest ELSE at
    IN [target |-> IF d = "ytd" THEN NewYear ELSE end - Offset[d], end |-> end]

(* Mutant of FromRange: rows of the range before the target are passed by.  *)
FromRangeSkipping(W, B) ==
    LET minTarget == Min({W[d].target : d \in DOMAIN W})
        before == {b \in B : b < minTarget}
        Price(w) ==
            LET after == {b \in B : b >= w.target /\ b <= w.end}
            IN CASE after # {} -> <<"open", Min(after)>>
                 [] after = {} /\ before # {} -> <<"close", Max(before)>>
                 [] after = {} /\ before = {} /\ B # {} -> <<"open", Min(B)>>
                 [] OTHER -> NoData
    IN [d \in DOMAIN W |-> Price(W[d])]

(* Where bisect_left puts an instant among ascending times: after those     *)
(* that are below it.                                                       *)
BisectLeft(times, t) == Cardinality({i \in DOMAIN times : times[i] < t})

(* One duration's boundary among the rows of the range, with those before.  *)
Boundary(rows, before, w) ==
    LET idx == BisectLeft(rows, w.target)
    IN IF idx < Len(rows) /\ rows[idx + 1] <= w.end THEN <<"open", rows[idx + 1]>>
       ELSE IF idx > 0 THEN <<"close", rows[idx]>>
       ELSE IF before # {} THEN <<"close", Max(before)>>
       ELSE IF rows # <<>> THEN <<"open", rows[1]>> ELSE NoData

(* _interval_prices_from_range: one ascending query from the earliest       *)
(* target, a bisection for each duration, and at most one more query for    *)
(* the bar before all of it.                                                *)
FromRange(W, B) ==
    LET minTarget == Min({W[d].target : d \in DOMAIN W})
        rows == Ascending({b \in B : b >= minTarget})
        before == {b \in B : b < minTarget}
    IN [d \in DOMAIN W |-> Boundary(rows, before, W[d])]

-----------------------------------------------------------------------------
(* What one call leaves in the cache for the durations it missed.           *)
Fill(answers, latest, failed) ==
    /\ cache' = [d \in DOMAIN cache \union read.missing |->
                    IF d \in read.missing THEN answers[d] ELSE cache[d]]
    /\ origin' = [d \in DOMAIN cache \union read.missing |->
                    IF d \in read.missing
                    THEN [at |-> now, latest |-> latest, seen |-> bars, own |-> {},
                          failed |-> failed]
                    ELSE origin[d]]
    /\ read' = Idle
    /\ UNCHANGED <<now, bars, cacheMinute>>

(* Mutant of LookUp: the minute is noted, the old entries are kept.         *)
LookUpKeeping(wanted) ==
    LET missing == wanted \ DOMAIN cache
    IN /\ read = Idle
       /\ cacheMinute' = MinuteOf(now)
       /\ read' = IF missing = {} THEN Idle ELSE [phase |-> "anchor", missing |-> missing]
       /\ UNCHANGED <<now, bars, cache, origin>>

(* The call is made: the cache of another minute is dropped, and the call   *)
(* is over when every wanted duration is cached (_read_cached_intervals).   *)
LookUp(wanted) ==
    LET current == cacheMinute = MinuteOf(now)
        kept == IF current THEN cache ELSE <<>>
        missing == wanted \ DOMAIN kept
    IN /\ read = Idle
       /\ cache' = kept
       /\ origin' = IF current THEN origin ELSE <<>>
       /\ cacheMinute' = MinuteOf(now)
       /\ read' = IF missing = {} THEN Idle ELSE [phase |-> "anchor", missing |-> missing]
       /\ UNCHANGED <<now, bars>>

(* There is no session: None for all, and nothing is cached.                *)
NoSession ==
    /\ read.phase = "anchor"
    /\ read' = Idle
    /\ UNCHANGED <<now, bars, cache, cacheMinute, origin>>

(* The latest bar is read; a symbol without one has no prices.              *)
Anchor ==
    /\ read.phase = "anchor"
    /\ IF bars = {}
       THEN Fill([d \in read.missing |-> NoData], -1, FALSE)
       ELSE /\ read' = [phase |-> "range", missing |-> read.missing, latest |-> Max(bars)]
            /\ UNCHANGED <<now, bars, cache, cacheMinute, origin>>

(* The clock is read again, and the boundaries are looked up.               *)
Resolve ==
    /\ read.phase = "range"
    /\ Fill(FromRange([d \in read.missing |-> Window(d, now, read.latest)], bars),
            read.latest, FALSE)

(* Either query fails: None for all that was missing, cached all the same.  *)
ReadFails ==
    /\ read.phase \in {"anchor", "range"}
    /\ Fill([d \in read.missing |-> NoData], -1, TRUE)

-----------------------------------------------------------------------------
(* Mutant of Outdated: a bar that fills the window's start is not noticed.  *)
OutdatedNotInside(d, b) ==
    \/ cache[d] = NoData
    \/ b <= Window(d, now, now).target

(* _invalidate_interval_cache_for_bars: which entries a written bar evicts. *)
Outdated(d, b) ==
    LET w == Window(d, now, now)
    IN \/ cache[d] = NoData
       \/ MinuteOf(b) < MinuteOf(now) /\ w.target <= b /\ b <= w.end
       \/ b <= w.target

(* This manager wrote b after an answer of origin o was cached.             *)
WrittenSince(o, b) == [at |-> o.at, latest |-> o.latest, seen |-> o.seen,
                       own |-> o.own \union {b}, failed |-> o.failed]

(* A bar is written by this manager; one of the running minute is possible  *)
(* as the host's clock may be behind the exchange's.  The bar is there      *)
(* already when another writer won the race: then the entries are evicted   *)
(* nevertheless.  A batch is a sequence of these.                           *)
WriteHere(b) ==
    /\ read = Idle
    /\ b <= now
    /\ bars' = bars \union {b}
    /\ LET stay == {d \in DOMAIN cache : ~Outdated(d, b)}
       IN /\ cache' = [d \in stay |-> cache[d]]
          /\ origin' = [d \in stay |-> WrittenSince(origin[d], b)]
    /\ UNCHANGED <<now, cacheMinute, read>>

(* A bar is written by another manager, as every bar is that the dashboard  *)
(* shows; or by this one, when the answer to the commit was lost.           *)
WriteElsewhere(b) ==
    /\ b <= now
    /\ bars' = bars \union {b}
    /\ UNCHANGED <<now, cache, cacheMinute, read, origin>>

Pass ==
    /\ now < MaxTime
    /\ now' = now + 1
    /\ UNCHANGED <<bars, cache, cacheMinute, read, origin>>

Next ==
    \/ \E wanted \in (SUBSET Durations) \ {{}} : LookUp(wanted)
    \/ NoSession \/ Anchor \/ Resolve \/ ReadFails
    \/ \E b \in Times : WriteHere(b) \/ WriteElsewhere(b)
    \/ Pass

Spec == Init /\ [][Next]_vars

-----------------------------------------------------------------------------
Servable == {d \in DOMAIN cache : cacheMinute = MinuteOf(now)}

(* What a call may be served was read in the minute it is served in: the    *)
(* minute in the key bounds staleness to one minute, whoever writes and     *)
(* however long a read takes.                                               *)
StalenessBounded == \A d \in Servable : MinuteOf(origin[d].at) = MinuteOf(now)

(* The windows of all durations looked up in one range give each duration   *)
(* what it would get alone: the bar at or just after the target, then the   *)
(* one just before it, then the oldest.                                     *)
Alone(w, B) ==
    LET inside == {b \in B : w.target <= b /\ b <= w.end}
        before == {b \in B : b < w.target}
    IN IF inside # {} THEN <<"open", Min(inside)>>
       ELSE IF before # {} THEN <<"close", Max(before)>>
       ELSE IF B # {} THEN <<"open", Min(B)>> ELSE NoData

BatchedLookupAgrees ==
    bars # {} =>
        \A wanted \in (SUBSET Durations) \ {{}} :
            LET W == [d \in wanted |-> Window(d, now, Max(bars))]
            IN FromRange(W, bars) = [d \in wanted |-> Alone(W[d], bars)]

(* The window of d held no bar when d was read (the markets were closed for *)
(* longer than d), and since then a bar of the running minute came in.      *)
Reopened(d) ==
    /\ origin[d].latest < Window(d, origin[d].at, origin[d].at).target
    /\ \E b \in origin[d].own : b > origin[d].latest /\ MinuteOf(b) = MinuteOf(now)

(* A cached price reflects every bar this manager stored, those written     *)
(* after it was read included: it is the answer a read at that instant      *)
(* would give with them.  The exceptions are a market that reopens after    *)
(* being closed for the whole duration, whose first bar evicts nothing, and *)
(* the None that a failed read leaves until a write or the next minute.     *)
StaleOnlyAfterReopening ==
    \A d \in Servable :
        LET o == origin[d]
            anchor == Max({o.latest} \union o.own)
        IN \/ o.failed
           \/ Reopened(d)
           \/ cache[d] = IF anchor = -1 THEN NoData
                         ELSE Alone(Window(d, o.at, anchor), o.seen \union o.own)
=============================================================================
