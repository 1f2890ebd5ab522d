--------------------------- MODULE DecisionsProofs ---------------------------
(***************************************************************************)
(* What the weights table and the pipeline that loads from it keep, and    *)
(* what a replay of bars keeps of the portfolio it starts with: for any    *)
(* symbols, any number of training processes, any weights and prices.      *)
(***************************************************************************)
EXTENDS Decisions, SeriesProofs

-----------------------------------------------------------------------------
(* The weights table *)

(* Rows come from passes that are being saved or were.                      *)
RowsAreTrained ==
    \A L \in Lists : table[L] # NoRow =>
        \E u \in Trainers :
            /\ list[u] = L /\ trained[u] = table[L]
            /\ phase[u] \notin {"idle", "trained"}

(* Who found a row, was refused by one or wrote one still has one: nothing  *)
(* deletes rows.                                                            *)
RowsStay ==
    \A t \in Trainers :
        phase[t] \in {"beaten", "updating", "updating again", "saved"} =>
            table[list[t]] # NoRow

OnlyFailuresGiveUp ==
    \A t \in Trainers :
        /\ phase[t] = "unsaved" => t \in troubled
        /\ phase[t] # "claiming again"

WeightsInv == WeightsTypeOK /\ RowsAreTrained /\ RowsStay /\ OnlyFailuresGiveUp

(* What a pass over a list trains are weights.                              *)
LEMMA PassesAreParameters ==
    ASSUME NEW L \in Lists
    PROVE  PassesOver(L) \subseteq Parameters /\ Untrained \in PassesOver(L)
<1> QED BY DEF PassesOver, Sublists, Parameters

(* An empty table of weights keeps the invariant of the weights.            *)
LEMMA WeightsStart == Init => WeightsInv
<1> SUFFICES ASSUME Init PROVE WeightsInv
  OBVIOUS
<1>1. WeightsTypeOK
  BY DEF Init, WeightsInit, WeightsTypeOK, Phases, Parameters
<1>2. RowsAreTrained /\ RowsStay /\ OnlyFailuresGiveUp
  BY DEF Init, WeightsInit, RowsAreTrained, RowsStay, OnlyFailuresGiveUp
<1> QED BY <1>1, <1>2 DEF WeightsInv

(* Storing what a process trained under its list.                           *)
LEMMA Storing ==
    ASSUME WeightsInv, NEW t \in Trainers, Store(t),
           phase[t] \notin {"idle", "trained"},
           NEW how \in {"saved", "unsaved"}, Ends(t, how),
           UNCHANGED <<list, trained>>
    PROVE  /\ table' \in [Lists -> Parameters \union {NoRow}]
           /\ RowsAreTrained'
           /\ RowsStay'
<1> USE DEF WeightsInv, WeightsTypeOK
<1>1. trained[t] \in Parameters /\ trained[t] # NoRow /\ list[t] \in Lists
  BY SentinelAssumption
<1>2. /\ table' = [table EXCEPT ![list[t]] = trained[t]]
      /\ phase' = [phase EXCEPT ![t] = how]
  BY DEF Store, Ends
<1>3. table' \in [Lists -> Parameters \union {NoRow}]
  BY <1>1, <1>2
<1>4. RowsAreTrained'
  <2> SUFFICES ASSUME NEW L \in Lists, table'[L] # NoRow
               PROVE  \E u \in Trainers :
                         /\ list'[u] = L /\ trained'[u] = table'[L]
                         /\ phase'[u] \notin {"idle", "trained"}
    BY DEF RowsAreTrained
  <2>1. CASE L = list[t]
    BY <1>1, <1>2, <2>1
  <2>2. CASE L # list[t]
    <3>1. table'[L] = table[L]
      BY <1>1, <1>2, <2>2
    <3>2. PICK u \in Trainers : /\ list[u] = L /\ trained[u] = table[L]
                                /\ phase[u] \notin {"idle", "trained"}
      BY <3>1 DEF RowsAreTrained
    <3>3. phase'[u] \notin {"idle", "trained"}
      BY <1>2, <3>2
    <3> QED BY <3>1, <3>2, <3>3
  <2> QED BY <2>1, <2>2
<1>5. RowsStay'
  <2> SUFFICES ASSUME NEW u \in Trainers,
                      phase'[u] \in {"beaten", "updating", "updating again", "saved"}
               PROVE  table'[list'[u]] # NoRow
    BY DEF RowsStay
  <2>1. CASE list[u] = list[t]
    BY <1>1, <1>2, <2>1
  <2>2. CASE list[u] # list[t]
    <3>1. u # t /\ phase'[u] = phase[u]
      BY <1>2, <2>2
    <3>2. list[u] \in Lists /\ table'[list[u]] = table[list[u]]
      BY <1>1, <1>2, <2>2
    <3> QED BY <3>1, <3>2 DEF RowsStay
  <2> QED BY <2>1, <2>2
<1> QED BY <1>3, <1>4, <1>5

(* A process goes on to another phase and leaves the table alone.           *)
LEMMA Moving ==
    ASSUME WeightsInv, NEW t \in Trainers, NEW how \in Phases, Ends(t, how),
           how \notin {"idle", "trained"},
           how \in {"beaten", "updating", "updating again", "saved"} => table[list[t]] # NoRow,
           UNCHANGED <<table, list, trained>>
    PROVE  RowsAreTrained' /\ RowsStay'
<1> USE DEF WeightsInv, WeightsTypeOK
<1>1. phase' = [phase EXCEPT ![t] = how]
  BY DEF Ends
<1>2. RowsAreTrained'
  <2> SUFFICES ASSUME NEW L \in Lists, table[L] # NoRow
               PROVE  \E u \in Trainers :
                         /\ list[u] = L /\ trained[u] = table[L]
                         /\ phase'[u] \notin {"idle", "trained"}
    BY DEF RowsAreTrained
  <2>1. PICK u \in Trainers : /\ list[u] = L /\ trained[u] = table[L]
                              /\ phase[u] \notin {"idle", "trained"}
    BY DEF RowsAreTrained
  <2> QED BY <1>1, <2>1
<1>3. RowsStay'
  BY <1>1 DEF RowsStay
<1> QED BY <1>2, <1>3

(* So does every step of the trainers.                                      *)
LEMMA WeightsSteps == WeightsInv /\ [Next]_vars => WeightsInv'
<1> SUFFICES ASSUME WeightsInv, [Next]_vars PROVE WeightsInv'
  OBVIOUS
<1>0. WeightsTypeOK /\ RowsAreTrained /\ RowsStay /\ OnlyFailuresGiveUp
  BY DEF WeightsInv
<1>1. ASSUME NEW t \in Trainers, Train(t) PROVE WeightsInv'
  <2>1. PICK pass \in PassesOver(list[t]) : trained' = [trained EXCEPT ![t] = pass]
    BY <1>1 DEF Train
  <2>2. pass \in Parameters
    BY <1>0, <2>1, PassesAreParameters DEF WeightsTypeOK
  <2>3. /\ phase[t] = "idle" /\ phase' = [phase EXCEPT ![t] = "trained"]
        /\ UNCHANGED <<table, list, troubled>>
    BY <1>1 DEF Train, Ends
  <2>4. WeightsTypeOK'
    BY <1>0, <2>1, <2>2, <2>3 DEF WeightsTypeOK, Phases
  <2>5. RowsAreTrained'
    <3> SUFFICES ASSUME NEW L \in Lists, table[L] # NoRow
                 PROVE  \E u \in Trainers :
                           /\ list[u] = L /\ trained'[u] = table[L]
                           /\ phase'[u] \notin {"idle", "trained"}
      BY <2>3 DEF RowsAreTrained
    <3>1. PICK u \in Trainers : /\ list[u] = L /\ trained[u] = table[L]
                                /\ phase[u] \notin {"idle", "trained"}
      BY <1>0 DEF RowsAreTrained
    <3>2. u # t
      BY <2>3, <3>1
    <3> QED BY <1>0, <2>1, <2>3, <3>1, <3>2 DEF WeightsTypeOK
  <2>6. RowsStay' /\ OnlyFailuresGiveUp'
    BY <1>0, <2>3 DEF RowsStay, OnlyFailuresGiveUp, WeightsTypeOK
  <2> QED BY <2>4, <2>5, <2>6 DEF WeightsInv
<1>2. ASSUME NEW t \in Trainers, Ask(t) PROVE WeightsInv'
  <2> DEFINE found == table[list[t]] # NoRow
             how == CASE phase[t] = "trained" /\ ~found -> "claiming"
                      [] phase[t] = "trained" /\ found  -> "updating"
                      [] phase[t] = "beaten"            -> "updating again"
  <2>1. phase[t] \in {"trained", "beaten"} /\ (phase[t] = "beaten" => found)
    BY <1>0, <1>2 DEF Ask, RowsStay
  <2>2. Ends(t, how) /\ UNCHANGED <<table, list, trained, troubled>>
    BY <1>2, <2>1 DEF Ask
  <2>3. how \in {"claiming", "updating", "updating again"} /\ (how # "claiming" => found)
    BY <2>1
  <2> HIDE DEF how
  <2>4. RowsAreTrained' /\ RowsStay'
    BY <2>2, <2>3, Moving DEF Phases
  <2>5. WeightsTypeOK' /\ OnlyFailuresGiveUp'
    BY <1>0, <2>2, <2>3 DEF WeightsTypeOK, OnlyFailuresGiveUp, Phases, Ends
  <2> QED BY <2>4, <2>5 DEF WeightsInv
<1>3. ASSUME NEW t \in Trainers, AskFails(t) PROVE WeightsInv'
  <2>1. RowsAreTrained' /\ RowsStay'
    BY <1>3, Moving DEF AskFails, Fails, Phases
  <2>2. WeightsTypeOK' /\ OnlyFailuresGiveUp'
    BY <1>0, <1>3 DEF AskFails, Fails, Ends, WeightsTypeOK, OnlyFailuresGiveUp, Phases
  <2> QED BY <2>1, <2>2 DEF WeightsInv
<1>4. ASSUME NEW t \in Trainers, Commit(t) PROVE WeightsInv'
  <2>1. table' \in [Lists -> Parameters \union {NoRow}] /\ RowsAreTrained' /\ RowsStay'
    BY <1>4, Storing DEF Commit
  <2>2. WeightsTypeOK' /\ OnlyFailuresGiveUp'
    BY <1>0, <1>4, <2>1 DEF Commit, Ends, WeightsTypeOK, OnlyFailuresGiveUp, Phases
  <2> QED BY <2>1, <2>2 DEF WeightsInv
<1>5. ASSUME NEW t \in Trainers, Refused(t) PROVE WeightsInv'
  <2>1. phase[t] # "claiming again"
    BY <1>0 DEF OnlyFailuresGiveUp
  <2>2. /\ table[list[t]] # NoRow /\ Ends(t, "beaten")
        /\ UNCHANGED <<table, list, trained, troubled>>
    BY <1>5, <2>1 DEF Refused
  <2>3. RowsAreTrained' /\ RowsStay'
    BY <2>2, Moving DEF Phases
  <2>4. WeightsTypeOK' /\ OnlyFailuresGiveUp'
    BY <1>0, <2>2 DEF Ends, WeightsTypeOK, OnlyFailuresGiveUp, Phases
  <2> QED BY <2>3, <2>4 DEF WeightsInv
<1>6. ASSUME NEW t \in Trainers, CommitFails(t) PROVE WeightsInv'
  <2>1. Ends(t, "unsaved") /\ UNCHANGED <<list, trained>> /\ phase[t] \notin {"idle", "trained"}
    BY <1>6 DEF CommitFails, Fails
  <2>2. /\ table' \in [Lists -> Parameters \union {NoRow}]
        /\ RowsAreTrained' /\ RowsStay'
    <3>1. CASE UNCHANGED table
      BY <1>0, <2>1, <3>1, Moving DEF Phases, WeightsInv, WeightsTypeOK
    <3>2. CASE Store(t)
      BY <2>1, <3>2, Storing
    <3> QED BY <1>6, <3>1, <3>2 DEF CommitFails
  <2>3. WeightsTypeOK' /\ OnlyFailuresGiveUp'
    BY <1>0, <1>6, <2>1, <2>2
    DEF CommitFails, Fails, Ends, WeightsTypeOK, OnlyFailuresGiveUp, Phases
  <2> QED BY <2>2, <2>3 DEF WeightsInv
<1>7. ASSUME UNCHANGED weightVars PROVE WeightsInv'
  BY <1>0, <1>7
  DEF weightVars, WeightsInv, WeightsTypeOK, RowsAreTrained, RowsStay, OnlyFailuresGiveUp
<1>8. ASSUME StartPipeline \/ StopPipeline PROVE UNCHANGED weightVars
  BY <1>8 DEF StartPipeline, StopPipeline, weightVars
<1>9. ASSUME NEW s \in Symbols, NEW o \in Prices, NEW c \in Prices, MapBar(s, o, c)
      PROVE  UNCHANGED weightVars
  BY <1>9 DEF MapBar, weightVars
<1>10. ASSUME UNCHANGED vars PROVE UNCHANGED weightVars
  BY <1>10 DEF vars
<1> QED
  BY <1>1, <1>2, <1>3, <1>4, <1>5, <1>6, <1>7, <1>8, <1>9, <1>10 DEF Next, Save, SaveStep

(* However many passes are saved at once, under whatever keys: a save fails *)
(* only when the database did, and its key then holds what a pass over that *)
(* list produced (TrainingIsKept).                                          *)
THEOREM PassesAreKept == Spec => []TrainingIsKept
<1>1. WeightsInv => TrainingIsKept
  <2> SUFFICES ASSUME WeightsInv, NEW t \in Trainers
               PROVE  /\ phase[t] = "unsaved" => t \in troubled
                      /\ phase[t] = "saved" =>
                            \E u \in Trainers : list[u] = list[t] /\ table[list[t]] = trained[u]
    BY DEF TrainingIsKept
  <2>1. list[t] \in Lists
    BY DEF WeightsInv, WeightsTypeOK
  <2> QED BY <2>1 DEF WeightsInv, RowsAreTrained, RowsStay, OnlyFailuresGiveUp
<1> QED BY <1>1, WeightsStart, WeightsSteps, PTL DEF Spec

-----------------------------------------------------------------------------
(* The pipeline *)

(* A pass covers symbols of its own list.                                   *)
TrainedOnOwn == \A t \in Trainers : trained[t] \in PassesOver(list[t])

(* What was loaded is of a pass over the pipeline's list, all of it.        *)
LoadedFits ==
    /\ traded \in Lists
    /\ loaded # Untrained => /\ loaded \in PassesOver(traded)
                             /\ Len(loaded.layout) = Len(traded)

DecisionsInv ==
    /\ WeightsInv /\ TrainedOnOwn /\ LoadedFits
    /\ decision = [s \in Symbols |-> decision[s]]
    /\ DecisionsUseOwnWeights

(* A list of symbols is a function on its places.                           *)
LEMMA ListLength ==
    ASSUME NEW L \in Lists
    PROVE  Len(L) \in Nat /\ L \in [1 .. Len(L) -> Symbols]
<1>1. Cardinality(Symbols) \in Nat
  BY SymbolAssumption, FS_CardinalityType
<1>2. PICK n \in 1 .. Cardinality(Symbols) : L \in [1 .. n -> Symbols]
  BY DEF Lists
<1>3. n \in Nat
  BY <1>1
<1>4. L \in Seq(Symbols) /\ Len(L) = n
  BY <1>2, <1>3
<1> QED BY <1>2, <1>3, <1>4

(* The vector of a pass over one of the symbols of a list of one symbol.    *)
LEMMA OnlyOwnFits ==
    ASSUME NEW L \in Lists, NEW M \in Sublists(L), Len(M) = Len(L),
           VectorLength(Len(M)) = VectorLength(1), NEW s \in Range(L)
    PROVE  M = <<s>>
<1>1. M \in Lists
  BY DEF Sublists
<1>2. Len(M) \in Nat
  BY <1>1, ListLength
<1>3. Len(M) = 1
  BY <1>2 DEF VectorLength
<1>4. M \in [1 .. 1 -> Symbols] /\ L \in [1 .. 1 -> Symbols]
  BY <1>1, <1>3, ListLength
<1>5. L[1] = s
  BY <1>4 DEF Range
<1>6. M[1] = L[1]
  <2>1. PICK place \in [DOMAIN M -> DOMAIN L] : \A i \in DOMAIN M : M[i] = L[place[i]]
    BY DEF Sublists
  <2>2. DOMAIN M = 1 .. 1 /\ DOMAIN L = 1 .. 1
    BY <1>4
  <2>3. 1 \in 1 .. 1 /\ \A i \in 1 .. 1 : i = 1
    OBVIOUS
  <2>4. place[1] = 1
    BY <2>1, <2>2, <2>3
  <2> QED BY <2>1, <2>2, <2>3, <2>4
<1> QED BY <1>4, <1>5, <1>6

(* What a start of the pipeline loads.                                      *)
LEMMA LoadingFits ==
    ASSUME WeightsInv, TrainedOnOwn, NEW L \in Lists, LoadValueFunction(L) # Untrained
    PROVE  /\ LoadValueFunction(L) \in PassesOver(L)
           /\ Len(LoadValueFunction(L).layout) = Len(L)
<1>1. /\ table[L] # NoRow /\ LoadValueFunction(L) = table[L]
      /\ VectorLength(Len(table[L].layout)) = VectorLength(Len(L))
  BY DEF LoadValueFunction
<1>2. PICK u \in Trainers : list[u] = L /\ trained[u] = table[L]
  BY <1>1 DEF WeightsInv, RowsAreTrained
<1>3. table[L] \in PassesOver(L)
  BY <1>2 DEF TrainedOnOwn
<1>4. table[L].layout \in Lists
  BY <1>1, <1>3 DEF PassesOver, Sublists
<1>5. Len(table[L].layout) = Len(L)
  <2>1. Len(L) \in Nat /\ Len(table[L].layout) \in Nat
    BY <1>4, ListLength
  <2> QED BY <1>1, <2>1 DEF VectorLength
<1> QED BY <1>1, <1>3, <1>5

(* No weights loaded and no decision made keep the invariant of the         *)
(* decisions.                                                               *)
LEMMA DecisionsStart == Init => DecisionsInv
<1> SUFFICES ASSUME Init PROVE DecisionsInv
  OBVIOUS
<1>1. TrainedOnOwn
  BY PassesAreParameters DEF Init, WeightsInit, TrainedOnOwn, PassesOver
<1>2. LoadedFits
  BY DEF Init, LoadedFits
<1>3. /\ decision = [s \in Symbols |-> decision[s]]
      /\ DecisionsUseOwnWeights
  BY DEF Init, DecisionsUseOwnWeights
<1> QED BY <1>1, <1>2, <1>3, WeightsStart DEF DecisionsInv

(* So does every step.                                                      *)
LEMMA DecisionsSteps == DecisionsInv /\ [Next]_vars => DecisionsInv'
<1> DEFINE Recorded == /\ decision = [s \in Symbols |-> decision[s]]
                       /\ DecisionsUseOwnWeights
<1> SUFFICES ASSUME DecisionsInv, [Next]_vars
             PROVE  TrainedOnOwn' /\ LoadedFits' /\ Recorded'
  BY WeightsSteps DEF DecisionsInv
<1>0. /\ WeightsInv /\ TrainedOnOwn /\ LoadedFits
      /\ decision = [s \in Symbols |-> decision[s]]
      /\ DecisionsUseOwnWeights
  BY DEF DecisionsInv
<1>1. ASSUME UNCHANGED liveVars PROVE LoadedFits' /\ Recorded'
  BY <1>0, <1>1 DEF liveVars, LoadedFits, DecisionsUseOwnWeights
<1>2. ASSUME UNCHANGED <<list, trained>> PROVE TrainedOnOwn'
  BY <1>0, <1>2 DEF TrainedOnOwn
<1>3. ASSUME NEW t \in Trainers, Train(t) PROVE TrainedOnOwn'
  <2>1. PICK pass \in PassesOver(list[t]) : trained' = [trained EXCEPT ![t] = pass]
    BY <1>3 DEF Train
  <2>2. list' = list /\ DOMAIN trained = Trainers
    BY <1>0, <1>3 DEF Train, WeightsInv, WeightsTypeOK
  <2> QED BY <1>0, <2>1, <2>2 DEF TrainedOnOwn
<1>4. ASSUME NEW t \in Trainers, Train(t) \/ Save(t) PROVE UNCHANGED liveVars
  BY <1>4 DEF Train, Save, liveVars
<1>5. ASSUME NEW t \in Trainers, Save(t) PROVE UNCHANGED <<list, trained>>
  BY <1>5 DEF Save, SaveStep, Ask, AskFails, Commit, Refused, CommitFails
<1>6. ASSUME StartPipeline \/ StopPipeline PROVE LoadedFits' /\ Recorded'
  <2>1. traded' = traded /\ NothingDecided
        /\ (loaded' = LoadValueFunction(traded) \/ loaded' = Untrained)
    BY <1>6 DEF StartPipeline, StopPipeline
  <2>2. LoadedFits'
    BY <1>0, <2>1, LoadingFits DEF LoadedFits
  <2>3. Recorded'
    BY <2>1 DEF NothingDecided, DecisionsUseOwnWeights
  <2> QED BY <2>2, <2>3
<1>7. ASSUME NEW s \in Symbols, NEW o \in Prices, NEW c \in Prices, MapBar(s, o, c)
      PROVE  LoadedFits' /\ Recorded'
  <2>1. UNCHANGED <<traded, loaded>> /\ s \in Range(traded)
    BY <1>7 DEF MapBar
  <2>2. LoadedFits'
    BY <1>0, <2>1 DEF LoadedFits
  <2>3. CASE ~CanScore
    <3>1. decision' = decision
      BY <1>7, <2>3 DEF MapBar
    <3> QED BY <1>0, <2>2, <3>1 DEF DecisionsUseOwnWeights
  <2>4. CASE CanScore
    <3>1. loaded.layout \in {<<>>, <<s>>}
      <4>1. CASE loaded = Untrained
        BY <4>1 DEF Untrained
      <4>2. CASE loaded # Untrained
        <5>1. /\ loaded.layout \in Sublists(traded) /\ Len(loaded.layout) = Len(traded)
              /\ traded \in Lists
          BY <1>0, <4>2 DEF LoadedFits, PassesOver
        <5>2. VectorLength(Len(loaded.layout)) = VectorLength(1)
          BY <2>4, <4>2 DEF CanScore
        <5> QED BY <2>1, <5>1, <5>2, OnlyOwnFits
      <4> QED BY <4>1, <4>2
    <3>2. PICK m : decision' = [decision EXCEPT ![s] = [movement |-> m, layout |-> loaded.layout]]
      BY <1>7, <2>4 DEF MapBar
    <3> QED BY <1>0, <2>2, <3>1, <3>2 DEF DecisionsUseOwnWeights
  <2> QED BY <2>2, <2>3, <2>4
<1>8. ASSUME UNCHANGED vars PROVE UNCHANGED liveVars /\ UNCHANGED <<list, trained>>
  BY <1>8 DEF vars, weightVars
<1>9. ASSUME StartPipeline \/ StopPipeline PROVE UNCHANGED <<list, trained>>
  BY <1>9 DEF StartPipeline, StopPipeline, weightVars
<1>10. ASSUME NEW s \in Symbols, NEW o \in Prices, NEW c \in Prices, MapBar(s, o, c)
       PROVE  UNCHANGED <<list, trained>>
  BY <1>10 DEF MapBar, weightVars
<1> HIDE DEF Recorded
<1> QED
  BY <1>1, <1>2, <1>3, <1>4, <1>5, <1>6, <1>7, <1>8, <1>9, <1>10 DEF Next

(* Whatever the symbols, the passes and their weights: a decision that is   *)
(* on record was scored untrained or with weights of a pass over exactly    *)
(* its symbol (DecisionsUseOwnWeights).                                     *)
THEOREM OwnWeightsDecide == Spec => []DecisionsUseOwnWeights
<1>1. DecisionsInv => DecisionsUseOwnWeights
  BY DEF DecisionsInv
<1> QED BY <1>1, DecisionsStart, DecisionsSteps, PTL DEF Spec

-----------------------------------------------------------------------------
(* A movement of a portfolio *)

(* How many of a price a sum buys: whatever the sum, they cost no more.     *)
LEMMA WholeShares ==
    ASSUME NEW sum \in Nat, NEW price \in Nat, price > 0
    PROVE  /\ sum \div price \in Nat
           /\ (sum \div price) * price <= sum
  BY Z3

(* A share of an amount is no more than the amount.                         *)
LEMMA PartOfSum ==
    ASSUME NEW sum \in Nat
    PROVE  sum \div PositionShare \in Nat /\ sum \div PositionShare <= sum
  BY Z3 DEF PositionShare

(* A purchase is paid for with cash that is there, a sale is of shares that *)
(* are held.                                                                *)
LEMMA QuantityFits ==
    ASSUME NEW movement \in ActionSpace, NEW cash \in Nat, NEW held \in Nat,
           NEW price \in Nat, NEW value \in Nat
    PROVE  LET quantity == Quantity(movement, cash, held, price, value)
           IN /\ quantity \in Nat
              /\ movement = "BUY" => quantity * price <= cash
              /\ movement # "BUY" => quantity <= held
<1> DEFINE quantity == Quantity(movement, cash, held, price, value)
<1>1. CASE movement = "BUY" /\ price > 0
  <2>1. quantity = (cash \div PositionShare) \div price
    BY <1>1 DEF Quantity
  <2>2. cash \div PositionShare \in Nat /\ cash \div PositionShare <= cash
    BY PartOfSum
  <2> DEFINE part == cash \div PositionShare
  <2> HIDE DEF part
  <2>3. part \in Nat /\ part <= cash /\ quantity = part \div price
    BY <2>1, <2>2 DEF part
  <2>4. part \div price \in Nat /\ (part \div price) * price <= part
    BY <1>1, <2>3, WholeShares
  <2> DEFINE cost == (part \div price) * price
  <2> HIDE DEF cost
  <2>5. cost \in Nat
    BY <2>4 DEF cost
  <2>6. cost <= cash
    BY <2>3, <2>4, <2>5 DEF cost
  <2> QED BY <1>1, <2>3, <2>4, <2>6 DEF cost
<1>2. CASE movement = "SELL" /\ price > 0
  <2>1. quantity = LesserOf(held, (value \div PositionShare) \div price)
    BY <1>2 DEF Quantity
  <2> DEFINE part == value \div PositionShare
             sold == part \div price
  <2>2. part \in Nat
    BY PartOfSum
  <2> HIDE DEF part
  <2>3. sold \in Nat
    BY <1>2, <2>2, WholeShares
  <2>4. quantity = LesserOf(held, sold)
    BY <2>1 DEF part
  <2> HIDE DEF sold
  <2> QED BY <1>2, <2>3, <2>4 DEF LesserOf
<1>3. CASE movement = "SELL" /\ price = 0
  BY <1>3 DEF Quantity
<1>4. CASE movement = "BUY" /\ price = 0
  <2>1. quantity = 0
    BY <1>4 DEF Quantity
  <2> QED BY <1>4, <2>1
<1>5. CASE movement = "HOLD"
  <2>1. quantity = 0
    BY <1>5 DEF Quantity
  <2> QED BY <1>5, <2>1
<1> QED BY <1>1, <1>2, <1>3, <1>4, <1>5 DEF ActionSpace

(* One trade, with names for what the holding is worth before and after it. *)
LEMMA TradeMovesWorth ==
    ASSUME NEW movement, NEW cash, NEW held, NEW price, NEW value,
           /\ movement \in ActionSpace
           /\ cash \in Nat /\ held \in Nat /\ price \in Nat /\ value \in Nat,
           NEW t, t = Traded(movement, cash, held, price, value),
           NEW before, before = held * price, NEW after, after = t.held * price
    PROVE  /\ t.cash \in Nat /\ t.held \in Nat /\ before \in Nat /\ after \in Nat
           /\ t.cash + after = cash + before
<1> DEFINE quantity == Quantity(movement, cash, held, price, value)
<1>1. /\ quantity \in Nat
      /\ movement = "BUY" => quantity * price <= cash
      /\ movement # "BUY" => quantity <= held
  BY QuantityFits
<1>2. t = IF movement = "BUY"
          THEN [held |-> held + quantity, cash |-> cash - quantity * price]
          ELSE [held |-> held - quantity, cash |-> cash + quantity * price]
  BY DEF Traded
<1> HIDE DEF quantity
<1> DEFINE paid == quantity * price
<1>3. paid \in Nat /\ before \in Nat
  BY <1>1, Z3
<1>4. CASE movement = "BUY"
  <2>1. t.held = held + quantity /\ t.cash = cash - paid /\ paid <= cash
    BY <1>1, <1>2, <1>4
  <2>2. (held + quantity) * price = before + paid
    BY <1>1, Z3
  <2>3. after = before + paid
    BY <2>1, <2>2
  <2> HIDE DEF paid
  <2> QED BY <1>1, <1>3, <2>1, <2>3
<1>5. CASE movement # "BUY"
  <2>1. t.held = held - quantity /\ t.cash = cash + paid /\ quantity <= held
    BY <1>1, <1>2, <1>5
  <2>2. (held - quantity) * price = before - paid
    BY <1>1, Z3
  <2>3. after = before - paid
    BY <2>1, <2>2
  <2>4. t.held \in Nat
    BY <1>1, <2>1
  <2>5. after \in Nat
    <3>1. \A x, y \in Nat : x * y \in Nat
      BY Z3
    <3> QED BY <2>4, <3>1
  <2> HIDE DEF paid
  <2>6. t.cash \in Nat
    BY <1>3, <2>1
  <2>7. t.cash + after = cash + before
    BY <1>3, <2>1, <2>3
  <2> QED BY <1>3, <2>4, <2>5, <2>6, <2>7
<1> QED BY <1>4, <1>5

(* portfolio_transition of one symbol: the cash and the holding stay        *)
(* non-negative, and together they are worth what they were.                *)
THEOREM TradesBalance ==
    ASSUME NEW movement \in ActionSpace, NEW cash \in Nat, NEW held \in Nat,
           NEW price \in Nat, NEW value \in Nat
    PROVE  LET t == Traded(movement, cash, held, price, value)
           IN /\ t.cash \in Nat /\ t.held \in Nat
              /\ t.cash + t.held * price = cash + held * price
<1> DEFINE t == Traded(movement, cash, held, price, value)
           before == held * price
           after == t.held * price
<1>1. t = Traded(movement, cash, held, price, value) /\ before = held * price /\ after = t.held * price
  OBVIOUS
<1> HIDE DEF t, before, after
<1>2. t.cash \in Nat /\ t.held \in Nat /\ t.cash + after = cash + before
  BY <1>1, TradeMovesWorth
<1> QED BY <1>2 DEF t, before, after

-----------------------------------------------------------------------------
(* A replay of bars *)

(* A state of a replay that covers the symbols C.                           *)
StatesOf(C) == [price : [C -> Nat], previous : [C -> Nat], held : [C -> Nat], cash : Nat]
WeightSpace == [flag : Int, cash : Int]

(* What each holding of a state is worth; together with the cash it is the  *)
(* portfolio's value.                                                       *)
WorthOf(state) == [s \in SymbolsOf(state) |-> state.held[s] * state.price[s]]

(* The value of a portfolio is its cash and the worth of each holding, all  *)
(* naturals.                                                                *)
LEMMA ValueOfState ==
    ASSUME NEW C, IsFiniteSet(C), NEW state \in StatesOf(C)
    PROVE  /\ SymbolsOf(state) = C
           /\ WorthOf(state) \in [C -> Int]
           /\ \A s \in C : WorthOf(state)[s] = state.held[s] * state.price[s]
           /\ PortfolioValue(state) = state.cash + TotalOf(WorthOf(state))
           /\ TotalOf(WorthOf(state)) \in Nat
           /\ PortfolioValue(state) \in Nat
<1>1. state.price \in [C -> Nat] /\ state.held \in [C -> Nat] /\ state.cash \in Nat
  BY DEF StatesOf
<1>2. SymbolsOf(state) = C
  BY <1>1 DEF SymbolsOf
<1>3. \A s \in C : state.held[s] * state.price[s] \in Nat
  <2>1. \A x, y \in Nat : x * y \in Nat
    BY Z3
  <2> QED BY <1>1, <2>1
<1>4. /\ WorthOf(state) \in [C -> Int]
      /\ \A s \in C : WorthOf(state)[s] = state.held[s] * state.price[s]
      /\ \A s \in C : WorthOf(state)[s] \in Nat
  BY <1>2, <1>3 DEF WorthOf
<1>5. PortfolioValue(state) = state.cash + TotalOf(WorthOf(state))
  BY DEF PortfolioValue, WorthOf
<1>6. TotalOf(WorthOf(state)) \in Nat
  BY <1>4, TotalOfType
<1> QED BY <1>1, <1>2, <1>4, <1>5, <1>6

(* Whatever is traded of one symbol, the value stays what it was.           *)
LEMMA MovementKeepsValue ==
    ASSUME NEW C, IsFiniteSet(C), NEW state \in StatesOf(C), NEW symbol \in C,
           NEW movement \in ActionSpace
    PROVE  /\ Transition(movement, symbol, state) \in StatesOf(C)
           /\ PortfolioValue(Transition(movement, symbol, state)) = PortfolioValue(state)
<1> DEFINE price == state.price[symbol]
           held == state.held[symbol]
           value == PortfolioValue(state)
           t == Traded(movement, state.cash, held, price, value)
           next == Transition(movement, symbol, state)
<1>1. /\ state.price \in [C -> Nat] /\ state.held \in [C -> Nat] /\ state.cash \in Nat
      /\ price \in Nat /\ held \in Nat /\ value \in Nat
  BY ValueOfState DEF StatesOf
<1>2. next = [price |-> state.price, previous |-> state.price,
              held |-> [state.held EXCEPT ![symbol] = t.held], cash |-> t.cash]
  BY DEF Transition
<1> HIDE DEF value, t, next
<1> DEFINE before == held * price
           after == t.held * price
<1>3. /\ t.cash \in Nat /\ t.held \in Nat /\ before \in Nat /\ after \in Nat
      /\ t.cash + after = state.cash + before
  <2>1. t = Traded(movement, state.cash, held, price, value)
    BY DEF t
  <2> DEFINE cash == state.cash
  <2>2. /\ movement \in ActionSpace /\ cash \in Nat /\ held \in Nat /\ price \in Nat /\ value \in Nat
        /\ t = Traded(movement, cash, held, price, value)
        /\ before = held * price /\ after = t.held * price
    BY <1>1, <2>1
  <2> HIDE DEF price, held, before, after, t, cash
  <2>3. /\ t.cash \in Nat /\ t.held \in Nat /\ before \in Nat /\ after \in Nat
        /\ t.cash + after = cash + before
    BY <2>2, TradeMovesWorth
  <2> QED BY <2>3 DEF cash
<1>4. /\ next.price = state.price /\ next.cash = t.cash
      /\ next.held = [state.held EXCEPT ![symbol] = t.held]
  BY <1>2
<1>5. next \in StatesOf(C)
  <2>1. [state.held EXCEPT ![symbol] = t.held] \in [C -> Nat]
    BY <1>1, <1>3
  <2> QED BY <1>1, <1>2, <1>3, <2>1 DEF StatesOf
<1>6. /\ next.held[symbol] = t.held
      /\ \A s \in C : s # symbol => next.held[s] = state.held[s]
  BY <1>1, <1>4
<1> DEFINE f == WorthOf(state)
           h == WorthOf(next)
<1>7. /\ f \in [C -> Int] /\ h \in [C -> Int]
      /\ \A s \in C : f[s] = state.held[s] * state.price[s]
      /\ \A s \in C : h[s] = next.held[s] * next.price[s]
      /\ PortfolioValue(state) = state.cash + TotalOf(f)
      /\ PortfolioValue(next) = next.cash + TotalOf(h)
      /\ TotalOf(f) \in Nat
  BY <1>5, ValueOfState
<1> HIDE DEF f, h
<1>8. \A s \in C : s # symbol => h[s] = f[s]
  BY <1>4, <1>6, <1>7
<1>9. TotalOf(h) = TotalOf(f) + (h[symbol] - f[symbol])
  BY <1>7, <1>8, TotalOfChange
<1>10. h[symbol] = t.held * price /\ f[symbol] = held * price
  BY <1>4, <1>6, <1>7
<1>11. PortfolioValue(next) = PortfolioValue(state)
  <2>1. before \in Int /\ after \in Int /\ t.cash + after = state.cash + before
    BY <1>3
  <2>2. TotalOf(h) = TotalOf(f) + (after - before)
    BY <1>9, <1>10
  <2>3. /\ PortfolioValue(state) = state.cash + TotalOf(f)
        /\ PortfolioValue(next) = t.cash + TotalOf(h)
        /\ state.cash \in Int /\ t.cash \in Int /\ TotalOf(f) \in Int
    BY <1>1, <1>3, <1>4, <1>7
  <2> HIDE DEF before, after
  <2> QED BY <2>1, <2>2, <2>3
<1> QED BY <1>5, <1>11 DEF next

(* The engine chooses a movement: scores can be compared.                   *)
LEMMA EngineChooses ==
    ASSUME NEW C, IsFiniteSet(C), NEW state \in StatesOf(C), NEW symbol \in C,
           NEW weights \in WeightSpace
    PROVE  ComputeAction(symbol, state, weights) \in ActionSpace
<1> DEFINE score == [m \in ActionSpace |-> Score(m, symbol, state, weights)]
           best == {i \in DOMAIN Movements : \A m \in ActionSpace : score[Movements[i]] >= score[m]}
<1>1. ASSUME NEW m \in ActionSpace PROVE Score(m, symbol, state, weights) \in Int
  <2> DEFINE next == Transition(m, symbol, state)
             whole == GreaterOf(1, PortfolioValue(next))
             flags == Cardinality({s \in SymbolsOf(next) : next.held[s] > 0})
             reward == RewardOf(m, symbol, state)
  <2>1. next \in StatesOf(C) /\ SymbolsOf(next) = C
    BY MovementKeepsValue, ValueOfState
  <2>2. next.cash \in Int /\ PortfolioValue(next) \in Nat
    BY <2>1, ValueOfState DEF StatesOf
  <2>3. whole \in Int
    BY <2>2 DEF GreaterOf
  <2>4. flags \in Int
    <3>1. {s \in SymbolsOf(next) : next.held[s] > 0} \in SUBSET C
      BY <2>1
    <3> QED BY <3>1, FS_Subset, FS_CardinalityType
  <2>5. reward \in Int
    <3>1. state.price[symbol] \in Int /\ state.previous[symbol] \in Int
      BY DEF StatesOf
    <3> QED BY <3>1 DEF RewardOf, Reward, ActionSpace
  <2>6. weights.flag \in Int /\ weights.cash \in Int
    BY DEF WeightSpace
  <2>7. Score(m, symbol, state, weights)
            = 100 * whole * reward + Discount * (whole * weights.flag * flags + weights.cash * next.cash)
    BY DEF Score
  <2>8. \A w, r, a, b, c, d \in Int : 100 * w * r + Discount * (w * a * b + c * d) \in Int
    BY Z3 DEF Discount
  <2> HIDE DEF next, whole, flags, reward
  <2> QED BY <2>2, <2>3, <2>4, <2>5, <2>6, <2>7, <2>8
<1>2. \A m \in ActionSpace : score[m] \in Int
  BY <1>1
<1>3. /\ DOMAIN Movements = 1 .. 3
      /\ Movements[1] = "BUY" /\ Movements[2] = "SELL" /\ Movements[3] = "HOLD"
      /\ ActionSpace = {"BUY", "SELL", "HOLD"}
  BY DEF Movements, ActionSpace
<1> HIDE DEF score
<1>4. best # {}
  <2>1. score["BUY"] \in Int /\ score["SELL"] \in Int /\ score["HOLD"] \in Int
    BY <1>2, <1>3
  <2>2. \E i \in 1 .. 3 : \A m \in ActionSpace : score[Movements[i]] >= score[m]
    <3>1. 1 \in 1 .. 3 /\ 2 \in 1 .. 3 /\ 3 \in 1 .. 3
      OBVIOUS
    <3>2. CASE score["BUY"] >= score["SELL"] /\ score["BUY"] >= score["HOLD"]
      BY <1>3, <2>1, <3>1, <3>2
    <3>3. CASE score["SELL"] >= score["BUY"] /\ score["SELL"] >= score["HOLD"]
      BY <1>3, <2>1, <3>1, <3>3
    <3>4. CASE score["HOLD"] >= score["BUY"] /\ score["HOLD"] >= score["SELL"]
      BY <1>3, <2>1, <3>1, <3>4
    <3> QED BY <2>1, <3>2, <3>3, <3>4
  <2> QED BY <1>3, <2>2
<1>5. best \in SUBSET Nat /\ best \subseteq 1 .. 3
  BY <1>3
<1> HIDE DEF best
<1>6. Min(best) \in 1 .. 3
  BY <1>4, <1>5, LeastMember
<1>7. Movements[Min(best)] \in ActionSpace
  BY <1>3, <1>6
<1> QED BY <1>7 DEF ComputeAction, score, best

(* The function that FoldLeft picks to replay bars, on the sets of places   *)
(* up to n.                                                                 *)
RunAt(g, bars, w, start, s) ==
    IF s = {} THEN start ELSE ReplayBar(g[s \ {Max(s)}], bars[Max(s)], w)
Runs(g, bars, w, start, n) == g = [s \in Places(n) |-> RunAt(g, bars, w, start, s)]

(* There is a function that yields the run of a replay on every set of      *)
(* places of its bars: the one that FoldLeft chooses.                       *)
LEMMA RunsExist ==
    ASSUME NEW bars, NEW w, NEW start
    PROVE  \A n \in Nat : \E g : Runs(g, bars, w, start, n)
<1> DEFINE P(n) == \E g : Runs(g, bars, w, start, n)
           T == {n \in Nat : P(n)}
<1>1. P(0)
  <2> DEFINE g == [s \in Places(0) |-> start]
  <2>1. Runs(g, bars, w, start, 0)
    BY PlacesGrow DEF Runs, RunAt
  <2> QED BY <2>1
<1>2. ASSUME NEW n \in Nat, P(n) PROVE P(n + 1)
  <2>1. PICK g : Runs(g, bars, w, start, n)
    BY <1>2
  <2> DEFINE h == [s \in Places(n + 1) |->
                      IF n + 1 \in s THEN ReplayBar(g[s \ {n + 1}], bars[n + 1], w) ELSE g[s]]
  <2>2. /\ \A s \in Places(n) : n + 1 \notin s /\ s \in Places(n + 1)
        /\ \A s \in Places(n + 1) : s \ {n + 1} \in Places(n)
        /\ \A s \in Places(n + 1) : n + 1 \notin s => s \in Places(n)
        /\ \A s \in Places(n + 1) : n + 1 \in s => Max(s) = n + 1
        /\ \A s \in Places(n) : \A x : s \ {x} \in Places(n)
    BY PlacesGrow
  <2>3. ASSUME NEW s \in Places(n + 1) PROVE h[s] = RunAt(h, bars, w, start, s)
    <3>1. CASE n + 1 \in s
      <4>1. Max(s) = n + 1 /\ s # {}
        BY <3>1, <2>2
      <4>2. s \ {n + 1} \in Places(n + 1) /\ n + 1 \notin s \ {n + 1}
        BY <2>2
      <4>3. h[s \ {n + 1}] = g[s \ {n + 1}]
        BY <4>2
      <4>4. h[s] = ReplayBar(g[s \ {n + 1}], bars[n + 1], w)
        BY <3>1
      <4> QED BY <4>1, <4>3, <4>4 DEF RunAt
    <3>2. CASE n + 1 \notin s
      <4>1. s \in Places(n) /\ h[s] = g[s]
        BY <3>2, <2>2
      <4>2. g[s] = RunAt(g, bars, w, start, s)
        BY <2>1, <4>1 DEF Runs
      <4>3. s \ {Max(s)} \in Places(n + 1) /\ n + 1 \notin s \ {Max(s)}
        BY <3>2, <4>1, <2>2
      <4>4. h[s \ {Max(s)}] = g[s \ {Max(s)}]
        BY <4>3
      <4> QED BY <4>1, <4>2, <4>4 DEF RunAt
    <3> QED BY <3>1, <3>2
  <2>4. Runs(h, bars, w, start, n + 1)
    <3>1. h = [s \in Places(n + 1) |-> h[s]]
      OBVIOUS
    <3> HIDE DEF h
    <3>2. h = [s \in Places(n + 1) |-> RunAt(h, bars, w, start, s)]
      BY <2>3, <3>1
    <3> QED BY <3>2 DEF Runs
  <2> HIDE DEF h
  <2> QED BY <2>4
<1> HIDE DEF P
<1>3. \A n \in Nat : n \in T
  <2>1. 0 \in T /\ \A n \in Nat : n \in T => n + 1 \in T
    BY <1>1, <1>2
  <2> HIDE DEF T
  <2> QED BY <2>1, SetInduction
<1> QED BY <1>3 DEF P

(* A run that balances, over the symbols C.                                 *)
GoodRun(run, C, cash) ==
    /\ run.state \in StatesOf(C) /\ run.earned \in Int
    /\ PortfolioValue(run.state) = cash + run.earned

(* A bar of a replay keeps the balance: what it re-prices is recorded as    *)
(* earned, what it trades is worth the same before and after.               *)
LEMMA BarKeepsBalance ==
    ASSUME NEW C, IsFiniteSet(C), NEW run, NEW cash \in Nat, GoodRun(run, C, cash),
           NEW bar, bar.symbol \in C, bar.close \in Nat, NEW weights \in WeightSpace
    PROVE  GoodRun(ReplayBar(run, bar, weights), C, cash)
<1> DEFINE now == Priced(run.state, bar)
           action == ComputeAction(bar.symbol, now, weights)
           next == Transition(action, bar.symbol, now)
<1>1. run.state \in StatesOf(C) /\ run.earned \in Int
      /\ PortfolioValue(run.state) = cash + run.earned
  BY DEF GoodRun
<1>2. now \in StatesOf(C)
  BY <1>1 DEF Priced, StatesOf
<1>3. action \in ActionSpace
  <2> HIDE DEF now
  <2> QED BY <1>2, EngineChooses
<1>4. next \in StatesOf(C) /\ PortfolioValue(next) = PortfolioValue(now)
  <2> HIDE DEF now, action
  <2> QED BY <1>2, <1>3, MovementKeepsValue
<1>5. PortfolioValue(now) \in Nat /\ PortfolioValue(run.state) \in Nat
  BY <1>1, <1>2, ValueOfState
<1>6. /\ ReplayBar(run, bar, weights).state = next
      /\ ReplayBar(run, bar, weights).earned
             = run.earned + PortfolioValue(now) - PortfolioValue(run.state)
  BY DEF ReplayBar
<1> HIDE DEF now, action, next
<1> QED BY <1>1, <1>4, <1>5, <1>6 DEF GoodRun

(* The start of a replay: nothing is held, and the cash is all there is.    *)
LEMMA StartBalances ==
    ASSUME NEW bars \in Seq(Bars), NEW cash \in Nat
    PROVE  /\ IsFiniteSet(Covered(bars))
           /\ GoodRun([state |-> ReplayStart(bars, cash), earned |-> 0], Covered(bars), cash)
<1> DEFINE C == Covered(bars)
           start == ReplayStart(bars, cash)
           run == [state |-> start, earned |-> 0]
<1>1. /\ DOMAIN bars \in SUBSET Nat /\ Len(bars) \in Nat /\ DOMAIN bars = 1 .. Len(bars)
      /\ \A i \in DOMAIN bars : bars[i] \in Bars
  OBVIOUS
<1>2. \A b \in Bars : b.symbol \in Symbols /\ b.close \in Nat
  BY PriceAssumption DEF Bars
<1>3. IsFiniteSet(C)
  <2> DEFINE f == [i \in DOMAIN bars |-> bars[i].symbol]
  <2>1. C = {f[i] : i \in DOMAIN f} /\ DOMAIN f = 1 .. Len(bars)
    BY <1>1 DEF Covered
  <2>2. IsFiniteSet(1 .. Len(bars))
    BY <1>1, FS_Interval
  <2> HIDE DEF f, C
  <2> QED BY <2>1, <2>2, FiniteImage
<1>4. ASSUME NEW s \in C PROVE FirstClose(bars, s) \in Nat
  <2> DEFINE K == {i \in DOMAIN bars : bars[i].symbol = s}
  <2>1. K \in SUBSET Nat /\ K # {}
    BY <1>1 DEF Covered
  <2>2. Min(K) \in K
    <3> HIDE DEF K
    <3> QED BY <2>1, LeastMember
  <2>3. bars[Min(K)] \in Bars
    BY <1>1, <2>2
  <2> QED BY <1>2, <2>3 DEF FirstClose
<1>5. start \in StatesOf(C)
  BY <1>4 DEF ReplayStart, StatesOf
<1>6. start.cash = cash /\ \A s \in C : start.held[s] = 0
  BY DEF ReplayStart
<1> HIDE DEF C, start
<1>7. PortfolioValue(start) = cash
  <2>1. /\ WorthOf(start) \in [C -> Int]
        /\ \A s \in C : WorthOf(start)[s] = start.held[s] * start.price[s]
        /\ PortfolioValue(start) = start.cash + TotalOf(WorthOf(start))
    BY <1>3, <1>5, ValueOfState
  <2>2. \A s \in C : start.price[s] \in Nat
    BY <1>5 DEF StatesOf
  <2>3. \A s \in C : WorthOf(start)[s] = 0
    BY <1>6, <2>1, <2>2
  <2>4. TotalOf(WorthOf(start)) = 0
    BY <1>3, <2>1, <2>3, TotalOfType
  <2> QED BY <1>6, <2>1, <2>4
<1>8. run.state = start /\ run.earned = 0
  OBVIOUS
<1> HIDE DEF run
<1>9. GoodRun(run, C, cash)
  BY <1>5, <1>7, <1>8 DEF GoodRun
<1> QED BY <1>3, <1>9 DEF run, start, C

(* Bar by bar, every replay balances.                                       *)
LEMMA ReplayBalances ==
    ASSUME NEW bars \in Seq(Bars), NEW weights \in WeightSpace, NEW cash \in Nat
    PROVE  Balanced(Replay(bars, weights, cash), cash)
<1> DEFINE n == Len(bars)
           C == Covered(bars)
           start == [state |-> ReplayStart(bars, cash), earned |-> 0]
           chosen == CHOOSE g : Runs(g, bars, weights, start, n)
           run == Replay(bars, weights, cash)
<1>1. n \in Nat /\ DOMAIN bars = 1 .. n /\ \A i \in 1 .. n : bars[i] \in Bars
  OBVIOUS
<1>2. Runs(chosen, bars, weights, start, n)
  BY <1>1, RunsExist
<1>3. run = chosen[1 .. n]
  BY <1>1, Zenon DEF Replay, FoldLeft, MapThenFoldSet, Runs, RunAt, Places
<1>4. IsFiniteSet(C) /\ GoodRun(start, C, cash)
  BY StartBalances
<1>5. \A i \in 1 .. n : bars[i].symbol \in C /\ bars[i].close \in Nat
  BY <1>1, PriceAssumption DEF Covered, Bars
<1> HIDE DEF chosen, start, C, run
<1> DEFINE P(i) == i <= n => GoodRun(chosen[1 .. i], C, cash)
           T == {i \in Nat : P(i)}
<1>6. P(0)
  <2>1. 1 .. 0 = {} /\ {} \in Places(n)
    BY <1>1, PlacesGrow
  <2>2. chosen[{}] = start
    BY <1>2, <2>1 DEF Runs, RunAt
  <2> QED BY <1>4, <2>1, <2>2
<1>7. ASSUME NEW i \in Nat, P(i) PROVE P(i + 1)
  <2> SUFFICES ASSUME i + 1 <= n PROVE GoodRun(chosen[1 .. i + 1], C, cash)
    OBVIOUS
  <2>1. /\ 1 .. i + 1 \in Places(n) /\ 1 .. i + 1 # {}
        /\ (1 .. i + 1) \ {i + 1} = 1 .. i /\ i + 1 \in 1 .. n
    BY <1>1 DEF Places
  <2>2. Max(1 .. i + 1) = i + 1
    <3>1. i + 1 \in Nat /\ 1 .. i + 1 \in Places(i + 1) /\ i + 1 \in 1 .. i + 1
      BY DEF Places
    <3> QED BY <3>1, PlacesGrow
  <2>3. chosen[1 .. i + 1] = ReplayBar(chosen[1 .. i], bars[i + 1], weights)
    BY <1>2, <2>1, <2>2 DEF Runs, RunAt
  <2>4. GoodRun(chosen[1 .. i], C, cash)
    BY <1>1, <1>7
  <2> QED BY <1>4, <1>5, <2>1, <2>3, <2>4, BarKeepsBalance
<1> HIDE DEF P
<1>8. \A i \in Nat : i \in T
  <2>1. 0 \in T /\ \A i \in Nat : i \in T => i + 1 \in T
    BY <1>6, <1>7
  <2> HIDE DEF T
  <2> QED BY <2>1, SetInduction
<1>9. GoodRun(run, C, cash)
  BY <1>1, <1>3, <1>8 DEF P
<1>10. /\ run.state \in StatesOf(C) /\ run.earned \in Int
       /\ PortfolioValue(run.state) = cash + run.earned
  BY <1>9 DEF GoodRun
<1>11. run.state.cash >= 0 /\ \A s \in SymbolsOf(run.state) : run.state.held[s] >= 0
  BY <1>10 DEF StatesOf, SymbolsOf
<1> QED BY <1>10, <1>11 DEF Balanced, run

(* Every replay's report balances, for any bars, symbols, prices, weights   *)
(* and cash (ReportsBalance).                                               *)
THEOREM ReplaysKeepTheBalance == Spec => []ReportsBalance
<1>1. ReplaysBalance
  <2> SUFFICES ASSUME NEW bars \in Histories, NEW w \in WeightChoices \union {Zero}
               PROVE  Balanced(Replay(bars, w, PaperCash), PaperCash)
    BY DEF ReplaysBalance
  <2>1. bars \in Seq(Bars)
    BY ReplayAssumption DEF Histories
  <2>2. w \in WeightSpace
    BY WeightAssumption DEF WeightSpace, Zero
  <2> QED BY <2>1, <2>2, CashAssumption, ReplayBalances
<1>2. ReportsBalance
  BY <1>1 DEF ReportsBalance
<1> QED BY <1>2, PTL
=============================================================================
