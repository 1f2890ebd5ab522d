------------------------------ MODULE Decisions ------------------------------
(***************************************************************************)
(* From training to decisions: training processes replay stored bars and   *)
(* save their weights (src/backtest.py); the pipeline loads those of its   *)
(* symbols when it starts, and decides on every bar it maps                *)
(* (src/db_writer.py, src/trading_execution.py).                           *)
(***************************************************************************)
EXTENDS DecisionModel, ModelWeights

CONSTANTS
    Prices,         \* what a bar may open and close at
    LiveCash,       \* the executor's cash
    PaperCash,      \* BACKTEST_CASH
    MaxBars,        \* bound: the bars of a replay
    NoDecision      \* nothing decided for a symbol yet

ASSUME PriceAssumption == Prices \subseteq Nat
ASSUME CashAssumption == LiveCash \in Nat /\ PaperCash \in Nat
ASSUME WeightAssumption == WeightChoices \subseteq [flag : Int, cash : Int]
ASSUME ReplayAssumption == MaxBars \in Nat
ASSUME SentinelAssumption == NoRow \notin Parameters

VARIABLES
    running,    \* whether the pipeline runs
    traded,     \* its resolved symbols; the same at every start
    loaded,     \* the executor's value function; untrained when it does not run
    mapped,     \* history: the symbols a bar was mapped for
    decision    \* decision_buffer: the latest decision of a symbol

liveVars == <<running, traded, loaded, mapped, decision>>
vars == <<weightVars, liveVars>>

-----------------------------------------------------------------------------
(* What is remembered of a decision: the movement, and the layout of the    *)
(* weights that scored it (none: untrained).                                *)
DecisionRecords == [movement : ActionSpace, layout : Lists \union {<<>>}]

LiveTypeOK ==
    /\ running \in BOOLEAN
    /\ traded \in Lists
    /\ loaded \in Parameters
    /\ mapped \subseteq Symbols
    /\ decision \in [Symbols -> DecisionRecords \union {NoDecision}]

NothingDecided == mapped' = {} /\ decision' = [s \in Symbols |-> NoDecision]

Init ==
    /\ WeightsInit
    /\ running = FALSE
    /\ traded \in Lists
    /\ loaded = Untrained
    /\ mapped = {} /\ decision = [s \in Symbols |-> NoDecision]

-----------------------------------------------------------------------------
(* The length of a state's vector (FullState.to_vector), and of the weights *)
(* that a pass over a layout makes.                                         *)
VectorLength(symbols) == 3 * symbols + 1

(* The symbols of a list that have bars, in the list's order.               *)
Sublists(L) ==
    {M \in Lists : \E place \in [DOMAIN M -> DOMAIN L] :
        /\ \A i \in DOMAIN M : M[i] = L[place[i]]
        /\ \A i, j \in DOMAIN M : i < j => place[i] < place[j]}

(* Backtester.train: the vectors of a pass cover the symbols that have      *)
(* bars; without bars there is nothing to learn from.                       *)
PassesOver(L) == {Untrained} \union [layout : Sublists(L), weights : WeightChoices]

(* main of the backtest, up to save_model_weights.                          *)
Train(t) ==
    /\ phase[t] = "idle"
    /\ \E pass \in PassesOver(list[t]) : trained' = [trained EXCEPT ![t] = pass]
    /\ Ends(t, "trained")
    /\ UNCHANGED <<table, list, troubled, liveVars>>

Save(t) == SaveStep(t) /\ UNCHANGED liveVars

-----------------------------------------------------------------------------
(* Mutant of LoadValueFunction: what is stored is taken as it is.           *)
LoadAnything(L) == IF table[L] = NoRow THEN Untrained ELSE table[L]

(* load_value_function: weights of another length than the list's vector    *)
(* are dropped.                                                             *)
LoadValueFunction(L) ==
    LET row == table[L]
        fits == row # NoRow /\ VectorLength(Len(row.layout)) = VectorLength(Len(L))
    IN IF fits THEN row ELSE Untrained

(* run_worker_threads: the weights of the resolved symbols are loaded once. *)
StartPipeline ==
    /\ ~running /\ running' = TRUE
    /\ loaded' \in {LoadValueFunction(traded), Untrained}
    /\ NothingDecided
    /\ UNCHANGED <<weightVars, traded>>

(* The process ends, and with it the buffer of decisions.                   *)
StopPipeline ==
    /\ running /\ running' = FALSE
    /\ loaded' = Untrained
    /\ NothingDecided
    /\ UNCHANGED <<weightVars, traded>>

(* The weights and the vector of one symbol can be multiplied; weights that *)
(* are not there yet take the vector's length.                              *)
CanScore == loaded = Untrained \/ VectorLength(Len(loaded.layout)) = VectorLength(1)

(* _map_bar: the decision goes to the buffer; when scoring raises, the      *)
(* exception is swallowed and the buffer stays as it is.                    *)
MapBar(s, open, close) ==
    /\ running /\ s \in Range(traded) /\ close > 0
    /\ mapped' = mapped \union {s}
    /\ decision' =
          IF CanScore
          THEN [decision EXCEPT ![s] =
                  [movement |-> Decide(s, BuildDecisionState(s, open, close, LiveCash),
                                       loaded.weights),
                   layout |-> loaded.layout]]
          ELSE decision
    /\ UNCHANGED <<weightVars, running, traded, loaded>>

Next ==
    \/ \E t \in Trainers : Train(t) \/ Save(t)
    \/ StartPipeline \/ StopPipeline
    \/ \E s \in Symbols, open, close \in Prices : MapBar(s, open, close)

Spec == Init /\ [][Next]_vars

-----------------------------------------------------------------------------
(* A recorded decision was scored untrained, or with weights a pass over    *)
(* exactly that symbol produced: never with weights that only happen to     *)
(* have the right length, like those of a pass over two symbols one of      *)
(* which had no bars.                                                       *)
DecisionsUseOwnWeights ==
    \A s \in Symbols : decision[s] # NoDecision => decision[s].layout \in {<<>>, <<s>>}

Bars == [symbol : Symbols, close : Prices]
Histories == UNION {[1 .. n -> Bars] : n \in 0 .. MaxBars}

ReplaysBalance ==
    \A bars \in Histories, w \in WeightChoices \union {Zero} :
        Balanced(Replay(bars, w, PaperCash), PaperCash)

(* Every report of a backtest balances (Balanced), whatever the bars and    *)
(* with whatever weights, and so do the replays of a training pass: once a  *)
(* pass has ended, its paper portfolio neither found nor lost money.        *)
ReportsBalance == (\E t \in Trainers : phase[t] = "trained") => ReplaysBalance

(* README.md and run_worker_threads: every bar that is mapped is scored     *)
(* with the value function a training pass stored for the symbols, or       *)
(* untrained; so a symbol whose bar was mapped has a decision.              *)
EveryMappedBarIsDecided == \A s \in mapped : decision[s] # NoDecision
=============================================================================
