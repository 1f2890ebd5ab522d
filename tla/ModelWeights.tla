----------------------------- MODULE ModelWeights -----------------------------
(***************************************************************************)
(* The model_weights table (src/database.py, save_model_weights and        *)
(* get_model_weights): one record per symbol list, claimed or updated by   *)
(* training processes that may run at the same time.                       *)
(*                                                                         *)
(* What a pass produced is known by its layout, the symbols its vector     *)
(* covers in their order (none: untrained), and its two weights.           *)
(***************************************************************************)
EXTENDS Sequences, FiniteSets, Integers

CONSTANTS
    Symbols,        \* what can be traded
    Trainers,       \* the training processes (src/backtest.py)
    WeightChoices,  \* what a pass may end with: [flag : Int, cash : Int]
    NoRow           \* no record under a key

ASSUME SymbolAssumption == IsFiniteSet(Symbols)

Lists == {L \in UNION {[1 .. n -> Symbols] : n \in 1 .. Cardinality(Symbols)} :
             \A i, j \in DOMAIN L : i # j => L[i] # L[j]}

VARIABLES
    table,      \* model_weights: what is stored under a key, a list joined by commas
    phase,      \* where a training process is in save_model_weights
    list,       \* BACKTEST_SYMBOLS of a training process
    trained,    \* the parameters its pass ended with
    troubled    \* history: who met a failure of the database

weightVars == <<table, phase, list, trained, troubled>>

-----------------------------------------------------------------------------
Zero == [flag |-> 0, cash |-> 0]
Untrained == [layout |-> <<>>, weights |-> Zero]
Parameters == [layout : Lists, weights : WeightChoices] \union {Untrained}

Phases == {"idle", "trained", "claiming", "updating", "beaten", "claiming again",
           "updating again", "saved", "unsaved"}

WeightsTypeOK ==
    /\ table \in [Lists -> Parameters \union {NoRow}]
    /\ phase \in [Trainers -> Phases]
    /\ list \in [Trainers -> Lists]
    /\ trained \in [Trainers -> Parameters]
    /\ troubled \subseteq Trainers

WeightsInit ==
    /\ table = [L \in Lists |-> NoRow]
    /\ phase = [t \in Trainers |-> "idle"]
    /\ list \in [Trainers -> Lists]
    /\ trained = [t \in Trainers |-> Untrained]
    /\ troubled = {}

Ends(t, how) == phase' = [phase EXCEPT ![t] = how]

(* The database fails: the call logs it and returns False.                  *)
Fails(t) ==
    /\ Ends(t, "unsaved")
    /\ troubled' = troubled \union {t}

-----------------------------------------------------------------------------
(* _write_weights: the record of the key is asked for; update it or insert  *)
(* one.  Before the first attempt, and after the insert was refused.        *)
Ask(t) ==
    /\ \/ phase[t] = "trained"
          /\ Ends(t, IF table[list[t]] = NoRow THEN "claiming" ELSE "updating")
       \/ phase[t] = "beaten"
          /\ Ends(t, IF table[list[t]] = NoRow THEN "claiming again" ELSE "updating again")
    /\ UNCHANGED <<table, list, trained, troubled>>

(* There is no session, or the statement fails.                             *)
AskFails(t) ==
    /\ phase[t] \in {"trained", "beaten"}
    /\ Fails(t)
    /\ UNCHANGED <<table, list, trained>>

Store(t) == table' = [table EXCEPT ![list[t]] = trained[t]]

(* The commit of an update, or of an insert that nobody was faster than.    *)
Commit(t) ==
    /\ \/ phase[t] \in {"updating", "updating again"}
       \/ phase[t] \in {"claiming", "claiming again"} /\ table[list[t]] = NoRow
    /\ Store(t)
    /\ Ends(t, "saved")
    /\ UNCHANGED <<list, trained, troubled>>

(* Mutant of Refused: the unique key's refusal is a failure like any other. *)
RefusedForGood(t) ==
    /\ table[list[t]] # NoRow
    /\ phase[t] \in {"claiming", "claiming again"}
    /\ Ends(t, "unsaved")
    /\ UNCHANGED <<table, list, trained, troubled>>

(* UNIQUE on symbol refuses an insert: once it is rolled back and tried     *)
(* against the record that won, a second time the call gives up (rows are   *)
(* never deleted, so the record is still there and this does not come up).  *)
Refused(t) ==
    /\ table[list[t]] # NoRow
    /\ \/ phase[t] = "claiming" /\ Ends(t, "beaten")
       \/ phase[t] = "claiming again" /\ Ends(t, "unsaved")
    /\ UNCHANGED <<table, list, trained, troubled>>

(* The commit fails, or the answer to it is lost.                           *)
CommitFails(t) ==
    /\ phase[t] \in {"claiming", "updating", "claiming again", "updating again"}
    /\ Fails(t)
    /\ \/ UNCHANGED table
       \/ /\ phase[t] \in {"claiming", "claiming again"} => table[list[t]] = NoRow
          /\ Store(t)
    /\ UNCHANGED <<list, trained>>

SaveStep(t) == Ask(t) \/ AskFails(t) \/ Commit(t) \/ Refused(t) \/ CommitFails(t)

-----------------------------------------------------------------------------
(* Two passes over the same symbols do not cost each other their result: a  *)
(* save fails only when the database does, and after a save its key holds   *)
(* what a pass over exactly that list produced.                             *)
TrainingIsKept ==
    \A t \in Trainers :
        /\ phase[t] = "unsaved" => t \in troubled
        /\ phase[t] = "saved" =>
              \E u \in Trainers : list[u] = list[t] /\ table[list[t]] = trained[u]
=============================================================================
