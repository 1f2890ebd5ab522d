----------------------------- MODULE BarPipeline -----------------------------
(***************************************************************************)
(* The ingestion pipeline of one process (src/db_writer.py,                *)
(* src/stream_client.py) around one DataStreamBuffer, one queue.Queue and  *)
(* one market_data table:                                                  *)
(*                                                                         *)
(*   stream thread   trades into the buffer, official minute bars straight *)
(*                   onto the queue; ends for good on a disconnect         *)
(*   flusher thread  every second takes the ready bars, queues them, and   *)
(*                   repeats the latest trades over REST                   *)
(*   writer thread   drains the queue in batches, maps every bar to a      *)
(*                   decision, writes the batch                            *)
(*   main thread     starts all this, waits, and shuts it down with a      *)
(*                   sentinel on the queue and a flag                      *)
(*                                                                         *)
(* The threads are daemons: when the main thread leaves, they are gone.    *)
(* add_market_data is used here as BarStore shows it to behave for the     *)
(* only writer of a database; the dashboard appears as the decisions it is *)
(* sent.                                                                   *)
(***************************************************************************)
EXTENDS DataStreamBuffer

CONSTANTS
    BatchSize,      \* batch_size of the writer
    MaxOfficial     \* bound: bars the stream delivers ready-made

ASSUME BatchAssumption == BatchSize \in Nat \ {0}
ASSUME OfficialAssumption == MaxOfficial \in Nat

VARIABLES
    mock,           \* run_worker_threads(mock_fallback): no stream, no flusher
    puts,           \* history: every bar ever queued, in order
    queue,          \* data_queue: indices into puts, or the sentinel
    stream,         \* is the stream thread running?
    processing,     \* AlpacaStreamProcessor.running
    flusher,        \* where the flusher thread is
    toPut,          \* symbols whose bar its producer has not queued yet
    writer,         \* where the writer thread is
    writing,        \* DBWriterWorker.running
    batch,          \* the writer's batch, indices into puts
    mapped,         \* how many bars of the batch _map_bar has seen
    table,          \* market_data: the bars that became rows
    lost,           \* history: bars of a batch that was not stored
    decisions,      \* history: bars whose decision the dashboard was sent
    main,           \* where the main thread is
    stoppedAt       \* history: Len(puts) when the sentinel was queued

feedVars == <<stream, flusher, toPut>>
writerVars == <<writer, batch, mapped, table, lost, decisions>>
mainVars == <<mock, main, processing, writing, stoppedAt>>
queueVars == <<puts, queue>>
vars == <<bufferVars, queueVars, feedVars, writerVars, mainVars>>

-----------------------------------------------------------------------------
Sentinel == 0
QueuedBars == [symbol : Symbols, minute : Minutes,
               source : {"flushed", "official", "mock"}]

FlusherPhases == {"top", "putting", "polling", "stopped"}
WriterPhases == {"top", "getting", "filling", "reputting", "mapping",
                 "storing", "done"}
MainPhases == {"injecting", "waiting", "joiningStream", "joiningFlusher",
               "queuingSentinel", "clearingFlag", "joiningWriter", "exited"}

Alive == main # "exited"
(* _shutdown has begun.                                                     *)
Stopping == main \notin {"injecting", "waiting"}

SameBar(i, j) ==
    puts[i].symbol = puts[j].symbol /\ puts[i].minute = puts[j].minute
InTable(i) == \E j \in table : SameBar(i, j)

PipelineTypeOK ==
    /\ mock \in BOOLEAN
    /\ puts \in Seq(QueuedBars)
    /\ queue \in Seq({Sentinel} \union DOMAIN puts)
    /\ stream \in BOOLEAN /\ processing \in BOOLEAN /\ writing \in BOOLEAN
    /\ flusher \in FlusherPhases
    /\ toPut \subseteq Symbols
    /\ writer \in WriterPhases
    /\ batch \in Seq(DOMAIN puts) /\ Len(batch) <= BatchSize
    /\ mapped \in 0 .. Len(batch)
    /\ table \subseteq DOMAIN puts
    /\ lost \subseteq DOMAIN puts
    /\ decisions \in Seq(DOMAIN puts)
    /\ main \in MainPhases
    /\ stoppedAt \in 0 .. Len(puts)

(* start has begun the threads; without credentials there is no stream.     *)
Init ==
    /\ BufferInit
    /\ mock \in BOOLEAN
    /\ main = IF mock THEN "injecting" ELSE "waiting"
    /\ stream \in IF mock THEN {FALSE} ELSE BOOLEAN
    /\ processing = ~mock
    /\ flusher = IF mock THEN "stopped" ELSE "top"
    /\ toPut = IF mock THEN Symbols ELSE {}
    /\ puts = <<>> /\ queue = <<>>
    /\ writer = "top" /\ writing = TRUE
    /\ batch = <<>> /\ mapped = 0
    /\ table = {} /\ lost = {} /\ decisions = <<>>
    /\ stoppedAt = 0

(* data_queue.put((symbol, bar)): the queue is unbounded, put never blocks. *)
Put(s, m, from) ==
    /\ puts' = Append(puts, [symbol |-> s, minute |-> m, source |-> from])
    /\ queue' = Append(queue, Len(puts) + 1)

-----------------------------------------------------------------------------
(* The stream thread.                                                       *)

(* handle_trade.                                                            *)
StreamTrade(s, m, t) ==
    /\ Alive /\ stream
    /\ AddTick(s, m, t)
    /\ UNCHANGED <<queueVars, feedVars, writerVars, mainVars>>

Officials == {i \in DOMAIN puts : puts[i].source = "official"}

(* handle_bar: the exchange's own bar of a minute that is over.             *)
StreamBar(s, m) ==
    /\ Alive /\ stream
    /\ m < clock
    /\ Cardinality(Officials) < MaxOfficial
    /\ Put(s, m, "official")
    /\ UNCHANGED <<bufferVars, feedVars, writerVars, mainVars>>

(* _run_stream returns: a disconnect, an error, or client.stop().  Nothing  *)
(* starts it again.                                                         *)
StreamEnds ==
    /\ Alive /\ stream
    /\ stream' = FALSE
    /\ UNCHANGED <<bufferVars, queueVars, flusher, toPut, writerVars, mainVars>>

StreamStep ==
    \/ \E s \in Symbols, m \in TickMinutes, t \in Ticks :
          VolumeAdded + t.size <= MaxVolume /\ StreamTrade(s, m, t)
    \/ \E s \in Symbols, m \in Minutes : StreamBar(s, m)
    \/ StreamEnds

-----------------------------------------------------------------------------
(* The flusher thread: _flusher_loop.                                       *)

(* while self.running: buffer.get_ready_bars(self.symbols) ...              *)
Flush ==
    /\ Alive /\ flusher = "top" /\ processing
    /\ GetReadyBars
    /\ toPut' = DOMAIN ready'
    /\ flusher' = "putting"
    /\ UNCHANGED <<queueVars, stream, writerVars, mainVars>>

(* Mutant of FlusherLeaves: the flusher lives as long as the stream.        *)
FlusherLeavesWithStream ==
    /\ Alive /\ flusher = "top" /\ ~(processing /\ stream)
    /\ flusher' = "stopped"
    /\ UNCHANGED <<bufferVars, queueVars, stream, toPut, writerVars, mainVars>>

(* self.running is false: the thread ends.                                  *)
FlusherLeaves ==
    /\ Alive /\ flusher = "top" /\ ~processing
    /\ flusher' = "stopped"
    /\ UNCHANGED <<bufferVars, queueVars, stream, toPut, writerVars, mainVars>>

(* ... for sym, bar in ready_bars.items(): data_queue.put((sym, bar)).      *)
FlushPut(s) ==
    /\ Alive /\ flusher = "putting"
    /\ s \in toPut
    /\ Put(s, ready[s].minute, "flushed")
    /\ toPut' = toPut \ {s}
    /\ UNCHANGED <<bufferVars, stream, flusher, writerVars, mainVars>>

FlushDone ==
    /\ Alive /\ flusher = "putting" /\ toPut = {}
    /\ flusher' = "polling"
    /\ UNCHANGED <<bufferVars, queueVars, stream, toPut, writerVars, mainVars>>

(* _fetch_crypto_snapshot, _fetch_equity_snapshot: handle_trade with the    *)
(* latest trade of a symbol, whatever its age.                              *)
PollTrade(s, m, t) ==
    /\ Alive /\ flusher = "polling"
    /\ AddTick(s, m, t)
    /\ UNCHANGED <<queueVars, feedVars, writerVars, mainVars>>

(* Both polls are over, were not due or failed; time.sleep(1).              *)
FlusherSleeps ==
    /\ Alive /\ flusher = "polling"
    /\ flusher' = "top"
    /\ UNCHANGED <<bufferVars, queueVars, stream, toPut, writerVars, mainVars>>

Poll ==
    \E s \in Symbols, m \in TickMinutes, t \in Ticks :
        VolumeAdded + t.size <= MaxVolume /\ PollTrade(s, m, t)

FlusherStep ==
    \/ Flush \/ FlusherLeaves \/ FlushDone \/ FlusherSleeps
    \/ \E s \in Symbols : FlushPut(s)

-----------------------------------------------------------------------------
(* The writer thread: DBWriterWorker.run.                                   *)

(* while self.running.                                                      *)
WriterTurns ==
    /\ Alive /\ writer = "top"
    /\ writer' = IF writing THEN "getting" ELSE "done"
    /\ UNCHANGED <<bufferVars, queueVars, feedVars, batch, mapped, table, lost,
                   decisions, mainVars>>

(* _drain_batch: queue.get(timeout=1) answers a bar, the sentinel or Empty. *)
GetFirst ==
    /\ Alive /\ writer = "getting"
    /\ queue # <<>> /\ Head(queue) # Sentinel
    /\ queue' = Tail(queue)
    /\ batch' = <<Head(queue)>>
    /\ mapped' = 0
    /\ writer' = "filling"
    /\ UNCHANGED <<bufferVars, puts, feedVars, table, lost, decisions, mainVars>>

GetSentinel ==
    /\ Alive /\ writer = "getting"
    /\ queue # <<>> /\ Head(queue) = Sentinel
    /\ queue' = Tail(queue)
    /\ writer' = "done"
    /\ UNCHANGED <<bufferVars, puts, feedVars, batch, mapped, table, lost,
                   decisions, mainVars>>

GetEmpty ==
    /\ Alive /\ writer = "getting"
    /\ queue = <<>>
    /\ writer' = "top"
    /\ UNCHANGED <<bufferVars, queueVars, feedVars, batch, mapped, table, lost,
                   decisions, mainVars>>

(* queue.get_nowait() until batch_size.                                     *)
GetNext ==
    /\ Alive /\ writer = "filling"
    /\ Len(batch) < BatchSize
    /\ queue # <<>> /\ Head(queue) # Sentinel
    /\ queue' = Tail(queue)
    /\ batch' = Append(batch, Head(queue))
    /\ UNCHANGED <<bufferVars, puts, feedVars, writer, mapped, table, lost,
                   decisions, mainVars>>

BatchReady ==
    /\ Alive /\ writer = "filling"
    /\ Len(batch) >= BatchSize \/ queue = <<>>
    /\ writer' = "mapping"
    /\ UNCHANGED <<bufferVars, queueVars, feedVars, batch, mapped, table, lost,
                   decisions, mainVars>>

(* Mutant of MeetSentinel: taken off, not put back.                         *)
MeetSentinelSwallowed ==
    /\ Alive /\ writer = "filling"
    /\ Len(batch) < BatchSize
    /\ queue # <<>> /\ Head(queue) = Sentinel
    /\ queue' = Tail(queue)
    /\ writer' = "mapping"
    /\ UNCHANGED <<bufferVars, puts, feedVars, batch, mapped, table, lost,
                   decisions, mainVars>>

(* The sentinel behind some bars: taken off ...                             *)
MeetSentinel ==
    /\ Alive /\ writer = "filling"
    /\ Len(batch) < BatchSize
    /\ queue # <<>> /\ Head(queue) = Sentinel
    /\ queue' = Tail(queue)
    /\ writer' = "reputting"
    /\ UNCHANGED <<bufferVars, puts, feedVars, batch, mapped, table, lost,
                   decisions, mainVars>>

(* ... and put back for the next turn, at the end of the queue.             *)
ReputSentinel ==
    /\ Alive /\ writer = "reputting"
    /\ queue' = Append(queue, Sentinel)
    /\ writer' = "mapping"
    /\ UNCHANGED <<bufferVars, puts, feedVars, batch, mapped, table, lost,
                   decisions, mainVars>>

(* _map_bar: the decision reaches the dashboard, or a mapping failure is    *)
(* swallowed and there is none for this bar.                                *)
MapBar ==
    /\ Alive /\ writer = "mapping"
    /\ mapped < Len(batch)
    /\ mapped' = mapped + 1
    /\ \/ decisions' = Append(decisions, batch[mapped + 1])
       \/ UNCHANGED decisions
    /\ UNCHANGED <<bufferVars, queueVars, feedVars, writer, batch, table, lost,
                   mainVars>>

Mapped ==
    /\ Alive /\ writer = "mapping"
    /\ mapped = Len(batch)
    /\ writer' = "storing"
    /\ UNCHANGED <<bufferVars, queueVars, feedVars, batch, mapped, table, lost,
                   decisions, mainVars>>

(* Mutant of FirstsOfBatch: a dict keyed by the bar keeps the last.         *)
LastsOfBatch ==
    {batch[k] : k \in {k \in DOMAIN batch :
        \A l \in DOMAIN batch : k < l => ~SameBar(batch[k], batch[l])}}

(* Mutant of FirstsOfBatch: the symbol is left out of the key.              *)
FirstsOfMinute ==
    {batch[k] : k \in {k \in DOMAIN batch : \A l \in 1 .. (k - 1) :
        puts[batch[k]].minute # puts[batch[l]].minute}}

(* The records add_market_data makes: of bars repeated in the batch the     *)
(* first; and those of them that are not stored yet.                        *)
FirstsOfBatch ==
    {batch[k] : k \in {k \in DOMAIN batch :
        \A l \in 1 .. (k - 1) : ~SameBar(batch[k], batch[l])}}
FreshOfBatch == {i \in FirstsOfBatch : ~InTable(i)}

(* The batch is let go.                                                     *)
LetGo ==
    /\ batch' = <<>>
    /\ mapped' = 0

(* add_market_data stores the fresh records.                                *)
StoreBatch ==
    /\ Alive /\ writer = "storing"
    /\ table' = table \union FreshOfBatch
    /\ LetGo
    /\ writer' = "top"
    /\ UNCHANGED <<bufferVars, queueVars, feedVars, lost, decisions, mainVars>>

(* It meets a database failure, logs it and returns: nothing is stored, or, *)
(* when the check query failed, the insert conflicted with stored bars and  *)
(* the records went in one at a time, some of them are.                     *)
StoreFails ==
    /\ Alive /\ writer = "storing"
    /\ \E S \in SUBSET FreshOfBatch :
          /\ S = {} \/ FreshOfBatch # FirstsOfBatch
          /\ table' = table \union S
          /\ lost' = lost \union (Range(batch) \ S)
    /\ LetGo
    /\ writer' = "top"
    /\ UNCHANGED <<bufferVars, queueVars, feedVars, decisions, mainVars>>

(* Mutant of BatchFails: the batch is started over.                         *)
BatchFailsRestarts ==
    /\ Alive /\ writer \in {"mapping", "storing"}
    /\ mapped' = 0
    /\ writer' = "mapping"
    /\ UNCHANGED <<bufferVars, queueVars, feedVars, batch, table, lost,
                   decisions, mainVars>>

(* Mutant of BatchFails: the exception ends the thread.                     *)
BatchFailsEnds ==
    /\ Alive /\ writer \in {"mapping", "storing"}
    /\ lost' = lost \union Range(batch)
    /\ LetGo
    /\ writer' = "done"
    /\ UNCHANGED <<bufferVars, queueVars, feedVars, table, decisions, mainVars>>

(* An exception neither _map_bar nor add_market_data handles: the loop body *)
(* ends, with it the batch; the loop goes on after a second.                *)
BatchFails ==
    /\ Alive /\ writer \in {"mapping", "storing"}
    /\ lost' = lost \union Range(batch)
    /\ LetGo
    /\ writer' = "top"
    /\ UNCHANGED <<bufferVars, queueVars, feedVars, table, decisions, mainVars>>

WriterStep ==
    \/ WriterTurns
    \/ GetFirst \/ GetSentinel \/ GetEmpty
    \/ GetNext \/ BatchReady \/ MeetSentinel \/ ReputSentinel
    \/ MapBar \/ Mapped \/ StoreBatch \/ StoreFails \/ BatchFails

-----------------------------------------------------------------------------
(* The main thread: run_worker_threads.                                     *)

(* _inject_mock_bars.                                                       *)
InjectMockBar(s) ==
    /\ main = "injecting"
    /\ s \in toPut
    /\ Put(s, clock, "mock")
    /\ toPut' = toPut \ {s}
    /\ UNCHANGED <<bufferVars, stream, flusher, writerVars, mainVars>>

Injected ==
    /\ main = "injecting" /\ toPut = {}
    /\ main' = "waiting"
    /\ UNCHANGED <<bufferVars, queueVars, feedVars, writerVars, mock,
                   processing, writing, stoppedAt>>

(* _wait_for_run is over: the duration, the stop event, SIGTERM or Ctrl-C,  *)
(* which may also come during the injection.  _shutdown begins;             *)
(* processor.stop() unless this is a mock run.                              *)
Stop ==
    /\ main \in {"injecting", "waiting"}
    /\ main' = IF mock THEN "queuingSentinel" ELSE "joiningStream"
    /\ processing' = FALSE
    /\ UNCHANGED <<bufferVars, queueVars, feedVars, writerVars, mock, writing,
                   stoppedAt>>

(* Both joins have a timeout: the main thread goes on either way.           *)
JoinStream ==
    /\ main = "joiningStream"
    /\ main' = "joiningFlusher"
    /\ UNCHANGED <<bufferVars, queueVars, feedVars, writerVars, mock,
                   processing, writing, stoppedAt>>

JoinFlusher ==
    /\ main = "joiningFlusher"
    /\ main' = "queuingSentinel"
    /\ UNCHANGED <<bufferVars, queueVars, feedVars, writerVars, mock,
                   processing, writing, stoppedAt>>

(* data_queue.put(None).                                                    *)
QueueSentinel ==
    /\ main = "queuingSentinel"
    /\ queue' = Append(queue, Sentinel)
    /\ stoppedAt' = Len(puts)
    /\ main' = "clearingFlag"
    /\ UNCHANGED <<bufferVars, puts, feedVars, writerVars, mock, processing,
                   writing>>

(* writer.running = False  # Ensure the loop finishes                       *)
ClearFlag ==
    /\ main = "clearingFlag"
    /\ writing' = FALSE
    /\ main' = "joiningWriter"
    /\ UNCHANGED <<bufferVars, queueVars, feedVars, writerVars, mock,
                   processing, stoppedAt>>

(* Mutant of JoinWriter: no timeout.                                        *)
JoinWriterForever ==
    /\ main = "joiningWriter"
    /\ writer = "done"
    /\ main' = "exited"
    /\ UNCHANGED <<bufferVars, queueVars, feedVars, writerVars, mock,
                   processing, writing, stoppedAt>>

(* writer.join(timeout=3), and the process ends.                            *)
JoinWriter ==
    /\ main = "joiningWriter"
    /\ main' = "exited"
    /\ UNCHANGED <<bufferVars, queueVars, feedVars, writerVars, mock,
                   processing, writing, stoppedAt>>

ShutdownStep ==
    JoinStream \/ JoinFlusher \/ QueueSentinel \/ ClearFlag \/ JoinWriter

MainStep ==
    \/ \E s \in Symbols : InjectMockBar(s)
    \/ Injected \/ ShutdownStep

Tick ==
    /\ Alive
    /\ NextMinute
    /\ UNCHANGED <<queueVars, feedVars, writerVars, mainVars>>

-----------------------------------------------------------------------------
Next == StreamStep \/ FlusherStep \/ Poll \/ WriterStep \/ MainStep \/ Stop \/ Tick

Spec == Init /\ [][Next]_vars

(* Of the schedule only this is taken for granted: a shutdown that has      *)
(* begun goes on.  Neither trades, official bars, polls, a disconnect nor a *)
(* stop need ever happen, and the other threads may hang in a call to the   *)
(* exchange or to the database for ever; the liveness properties name the   *)
(* thread that must not.                                                    *)
FairSpec == Spec /\ WF_vars(ShutdownStep)

-----------------------------------------------------------------------------
(* No bar vanishes between the threads: what was ever queued is still on    *)
(* the queue, is in the writer's hands, was in a batch that failed, or its  *)
(* minute has a row.                                                        *)
BarsAccountedFor ==
    \A i \in DOMAIN puts :
        \/ i \in Range(queue) \/ i \in Range(batch)
        \/ i \in lost \/ InTable(i)

(* The flushed bar and the exchange's own bar of the same minute meet on    *)
(* the queue: the one queued first becomes the row, unless it was in a      *)
(* batch that failed, and there is one row.                                 *)
FirstQueuedWins ==
    \A i \in table, j \in DOMAIN puts :
        /\ j < i /\ SameBar(i, j) => j \in lost
        /\ j \in table /\ SameBar(i, j) => i = j

(* The dashboard is sent the decisions in the order the bars were queued,   *)
(* and at most one for a bar, also when batches fail in the middle.         *)
DecisionsFollowQueue ==
    \A k, l \in DOMAIN decisions : k < l => decisions[k] < decisions[l]

(* The request to stop is not lost when the writer meets it behind bars:    *)
(* from the moment it is queued until the writer has left, the sentinel is  *)
(* on the queue exactly once or in the writer's hands.                      *)
SentinelSurvives ==
    main \in {"clearingFlag", "joiningWriter", "exited"} /\ writer # "done" =>
        Cardinality({k \in DOMAIN queue : queue[k] = Sentinel})
            = IF writer = "reputting" THEN 0 ELSE 1

(* "a batch that fails must not end the thread silently"                    *)
(* (db_writer.py:188): the writer leaves only when it was told to.          *)
WriterLeavesOnlyWhenTold ==
    writer = "done" => main \in {"clearingFlag", "joiningWriter", "exited"}

(* While the writer thread runs, a bar that was queued is stored, found     *)
(* stored or given up with its batch, unless the pipeline is stopped first. *)
Settled(i) == i \in DOMAIN puts /\ (i \in lost \/ InTable(i))

QueuedBarsSettle ==
    WF_vars(WriterStep) =>
        \A i \in 1 .. (MaxVolume + MaxOfficial + Cardinality(Symbols)) :
            i \in Range(queue) ~> (Settled(i) \/ Stopping)

(* While the flusher thread runs, the running bar of a minute that is over  *)
(* leaves the buffer, stream or no stream, unless the pipeline is stopped.  *)
ClosedMinutesFlush ==
    WF_vars(FlusherStep) =>
        \A s \in Symbols, m \in Minutes :
            (m \in MinutesOf(s) /\ m < clock)
                ~> (m \notin MinutesOf(s) \/ Stopping)

(* A shutdown that has begun ends, whatever the other threads hang in.      *)
ShutdownCompletes == Stopping ~> ~Alive

(* A shutdown lets the pipeline finish its database writes                  *)
(* (bin/_start_common.sh:157): when the writer leaves, every bar queued     *)
(* before the request to stop has been taken off the queue.                 *)
StopDrainsQueue ==
    writer = "done" => \A i \in Range(queue) \ {Sentinel} : i > stoppedAt
=============================================================================
