------------------------------ MODULE BarStore ------------------------------
(***************************************************************************)
(* DatabaseManager.add_market_data (src/database.py) called by several     *)
(* writers on one database: the pipeline's writer thread, a second         *)
(* pipeline process, a re-run over the same minutes.                       *)
(*                                                                         *)
(* A call deduplicates its batch, asks which keys are already stored, adds *)
(* the rest in one transaction and, when a concurrent writer stored one of *)
(* them between the question and the commit, rolls back and inserts the    *)
(* records one at a time.  The database (external) runs each transaction   *)
(* atomically and enforces the unique index on (symbol, timestamp); it may *)
(* refuse any statement, and a refused commit may still have been applied. *)
(* The interval cache the call also invalidates belongs to the dashboard's *)
(* read path and is not part of this module.  Symbols reach the database   *)
(* in upper case (normalize_symbols), so bar_key and the index agree on    *)
(* what the same bar is.                                                   *)
(***************************************************************************)
EXTENDS Naturals, Sequences

CONSTANTS
    Writers,    \* concurrent callers of add_market_data
    Keys,       \* normalized (symbol, timestamp) pairs
    NoKey,      \* bar_key of a record that has no timestamp
    MaxBatch,   \* bound: records in one call (batch_size in the code)
    MaxCalls    \* bound: calls of one writer

ASSUME KeysAssumption == NoKey \notin Keys
ASSUME BoundsAssumption == MaxBatch \in Nat /\ MaxCalls \in Nat

VARIABLES
    rows,       \* market_data: the rows committed so far
    pc,         \* where each writer is in its call
    batch,      \* the data argument of each writer's current or last call
    stored,     \* the answer of _stored_bar_keys
    todo,       \* positions still to insert one at a time
    calls,      \* number of calls each writer has made
    result      \* how the last call ended: everything stored, or not

vars == <<rows, pc, batch, stored, todo, calls, result>>

-----------------------------------------------------------------------------
(* A record of a batch, as far as add_market_data tells records apart: its  *)
(* bar_key.                                                                 *)
Bars == Keys \union {NoKey}
Batches == UNION {[1 .. n -> Bars] : n \in 1 .. MaxBatch}
Phases == {"idle", "open", "commit", "retry"}
Results == {"none", "ok", "failed"}

(* A row remembers the record it was made from: writer, call and position   *)
(* stand for the surrogate primary key.                                     *)
Origins == Writers \X Nat \X Nat
Rows == [from : Origins, key : Bars]

-----------------------------------------------------------------------------
(* Mutant of Kept: a dict keyed by bar_key keeps the last repetition.       *)
KeptLast(b) ==
    {i \in DOMAIN b : \/ b[i] = NoKey
                      \/ \A j \in DOMAIN b : j > i => b[j] # b[i]}

(* _prepare_bars: the positions of b that become records.  Of bars repeated *)
(* within the batch the first is kept; a bar without a key always is.       *)
Kept(b) ==
    {i \in DOMAIN b : \/ b[i] = NoKey
                      \/ \A j \in DOMAIN b : j < i => b[j] # b[i]}

(* The keys _prepare_bars returns beside the records.                       *)
KeysOf(b) == {b[i] : i \in Kept(b)} \ {NoKey}

StoredKeys == {r.key : r \in rows} \ {NoKey}

(* The records of writer w that _stored_bar_keys did not find.              *)
Fresh(w) ==
    {i \in Kept(batch[w]) : batch[w][i] \notin stored[w]}

RowOf(w, i) == [from |-> <<w, calls[w], i>>, key |-> batch[w][i]]
RowsOf(w, I) == {RowOf(w, i) : i \in I}

(* Mutant of Refused: the index is not unique, as before migration 0002.    *)
NeverRefused(w, i) == FALSE

(* The unique index market_data_bar_unique refuses position i of w.         *)
Refused(w, i) == batch[w][i] \in StoredKeys

TypeOK ==
    /\ rows \subseteq Rows
    /\ pc \in [Writers -> Phases]
    /\ batch \in [Writers -> Seq(Bars)]
    /\ stored \in [Writers -> SUBSET Keys]
    /\ todo \in [Writers -> SUBSET (Nat \ {0})]
    /\ \A w \in Writers : todo[w] \subseteq Kept(batch[w])
    /\ calls \in [Writers -> Nat]
    /\ result \in [Writers -> Results]

(* The call of w returns.                                                   *)
Return(w, how) ==
    /\ pc' = [pc EXCEPT ![w] = "idle"]
    /\ result' = [result EXCEPT ![w] = how]

-----------------------------------------------------------------------------
Init ==
    /\ rows = {}
    /\ pc = [w \in Writers |-> "idle"]
    /\ batch = [w \in Writers |-> <<>>]
    /\ stored = [w \in Writers |-> {}]
    /\ todo = [w \in Writers |-> {}]
    /\ calls = [w \in Writers |-> 0]
    /\ result = [w \in Writers |-> "none"]

(* add_market_data is entered with a non-empty batch (an empty one returns  *)
(* at once).                                                                *)
Call(w, b) ==
    /\ pc[w] = "idle"
    /\ calls[w] < MaxCalls
    /\ pc' = [pc EXCEPT ![w] = "open"]
    /\ batch' = [batch EXCEPT ![w] = b]
    /\ calls' = [calls EXCEPT ![w] = @ + 1]
    /\ stored' = [stored EXCEPT ![w] = {}]
    /\ todo' = [todo EXCEPT ![w] = {}]
    /\ result' = [result EXCEPT ![w] = "none"]
    /\ UNCHANGED rows

(* get_session answers None: the batch is dropped.                          *)
NoSession(w) ==
    /\ pc[w] = "open"
    /\ Return(w, "failed")
    /\ UNCHANGED <<rows, batch, stored, todo, calls>>

(* _stored_bar_keys reads the table; with nothing fresh the call is over.   *)
Check(w) ==
    LET known == KeysOf(batch[w]) \intersect StoredKeys
    IN /\ pc[w] = "open"
       /\ stored' = [stored EXCEPT ![w] = known]
       /\ IF \A i \in Kept(batch[w]) : batch[w][i] \in known
          THEN Return(w, "ok")
          ELSE /\ pc' = [pc EXCEPT ![w] = "commit"]
               /\ UNCHANGED result
       /\ UNCHANGED <<rows, batch, todo, calls>>

(* The query fails; _stored_bar_keys swallows it and answers "none stored". *)
CheckFails(w) ==
    /\ pc[w] = "open"
    /\ stored' = [stored EXCEPT ![w] = {}]
    /\ pc' = [pc EXCEPT ![w] = "commit"]
    /\ UNCHANGED <<rows, batch, todo, calls, result>>

(* session.add_all(fresh) and commit.                                       *)
Commit(w) ==
    /\ pc[w] = "commit"
    /\ \A i \in Fresh(w) : ~Refused(w, i)
    /\ rows' = rows \union RowsOf(w, Fresh(w))
    /\ Return(w, "ok")
    /\ UNCHANGED <<batch, stored, todo, calls>>

(* Mutant of CommitConflict: the rolled back batch is forgotten.            *)
ConflictForgotten(w) ==
    /\ pc[w] = "commit"
    /\ \E i \in Fresh(w) : Refused(w, i)
    /\ Return(w, "ok")
    /\ UNCHANGED <<rows, batch, stored, todo, calls>>

(* Mutant of CommitConflict: the loop is over data, not over records.       *)
ConflictRetriesData(w) ==
    /\ pc[w] = "commit"
    /\ \E i \in Fresh(w) : Refused(w, i)
    /\ pc' = [pc EXCEPT ![w] = "retry"]
    /\ todo' = [todo EXCEPT ![w] = DOMAIN batch[w]]
    /\ UNCHANGED <<rows, batch, stored, calls, result>>

(* Mutant of CommitConflict: the whole call starts over.                    *)
ConflictStartsOver(w) ==
    /\ pc[w] = "commit"
    /\ \E i \in Fresh(w) : Refused(w, i)
    /\ pc' = [pc EXCEPT ![w] = "open"]
    /\ UNCHANGED <<rows, batch, stored, todo, calls, result>>

(* IntegrityError: another writer stored one of these bars since the check. *)
(* The transaction is rolled back and every record of the batch, not only   *)
(* the fresh ones, is tried on its own.                                     *)
CommitConflict(w) ==
    /\ pc[w] = "commit"
    /\ \E i \in Fresh(w) : Refused(w, i)
    /\ pc' = [pc EXCEPT ![w] = "retry"]
    /\ todo' = [todo EXCEPT ![w] = Kept(batch[w])]
    /\ UNCHANGED <<rows, batch, stored, calls, result>>

(* Any other database failure: logged, rolled back, the batch is dropped.   *)
(* When only the answer to COMMIT is lost the rows are there all the same.  *)
CommitFails(w) ==
    /\ pc[w] = "commit"
    /\ \/ UNCHANGED rows
       \/ /\ \A i \in Fresh(w) : ~Refused(w, i)
          /\ rows' = rows \union RowsOf(w, Fresh(w))
    /\ Return(w, "failed")
    /\ UNCHANGED <<batch, stored, todo, calls>>

(* The position _write_bar is called with next.                             *)
NextToWrite(w, i) == i \in todo[w] /\ \A j \in todo[w] : i <= j

(* Mutant of Written: what the last record met is the answer for all.       *)
WrittenForgetsFailure(w, i, how) ==
    /\ todo' = [todo EXCEPT ![w] = @ \ {i}]
    /\ IF todo[w] = {i} THEN Return(w, "ok") ELSE UNCHANGED <<pc, result>>
    /\ UNCHANGED <<batch, stored, calls>>

(* The one-at-a-time loop goes on, and returns after the last record.       *)
Written(w, i, how) ==
    /\ todo' = [todo EXCEPT ![w] = @ \ {i}]
    /\ IF todo[w] = {i}
       THEN Return(w, how)
       ELSE /\ result' = [result EXCEPT ![w] = IF how = "failed" THEN how ELSE @]
            /\ UNCHANGED pc
    /\ UNCHANGED <<batch, stored, calls>>

(* Mutant of WriteBar: the later bar is written over the stored one.        *)
WriteBarOver(w, i) ==
    /\ pc[w] = "retry"
    /\ NextToWrite(w, i)
    /\ rows' = {r \in rows : r.key # batch[w][i]} \union RowsOf(w, {i})
    /\ Written(w, i, IF result[w] = "failed" THEN "failed" ELSE "ok")

(* _write_bar: insert one record, skip it when the index already holds it.  *)
WriteBar(w, i) ==
    /\ pc[w] = "retry"
    /\ NextToWrite(w, i)
    /\ rows' = IF Refused(w, i) THEN rows ELSE rows \union RowsOf(w, {i})
    /\ Written(w, i, IF result[w] = "failed" THEN "failed" ELSE "ok")

(* _write_bar meets any other database failure: this record is dropped and  *)
(* the loop continues with the next one.                                    *)
WriteBarFails(w, i) ==
    /\ pc[w] = "retry"
    /\ NextToWrite(w, i)
    /\ \/ UNCHANGED rows
       \/ ~Refused(w, i) /\ rows' = rows \union RowsOf(w, {i})
    /\ Written(w, i, "failed")

(* The writer's process is killed (a daemon thread at exit, SIGKILL) and    *)
(* restarted, or an exception outside DB_FAILURES unwinds the call; what it *)
(* had committed stays.                                                     *)
Crash(w) ==
    /\ pc[w] # "idle"
    /\ Return(w, "failed")
    /\ UNCHANGED <<rows, batch, stored, todo, calls>>

Step(w) ==
    \/ NoSession(w) \/ Check(w) \/ CheckFails(w)
    \/ Commit(w) \/ CommitConflict(w) \/ CommitFails(w)
    \/ \E i \in todo[w] : WriteBar(w, i) \/ WriteBarFails(w, i)

Next ==
    \E w \in Writers :
        \/ \E b \in Batches : Call(w, b)
        \/ Step(w)
        \/ Crash(w)

Spec == Init /\ [][Next]_vars

(* A call that was entered runs: the writer thread is scheduled and every   *)
(* statement is answered or times out.                                      *)
FairSpec == Spec /\ \A w \in Writers : WF_vars(Step(w))

-----------------------------------------------------------------------------
(* At most one row per (symbol, timestamp), whatever the writers race to    *)
(* insert and whatever the check answered.                                  *)
OneRowPerBar ==
    \A r, s \in rows : r.key = s.key /\ r.key \in Keys => r = s

(* Losing the race between the check and the commit loses no record: when a *)
(* call ends without a database failure, every bar of its batch is in the   *)
(* table, under its key or, without a key, as the row made from it.         *)
InTable(w, i) ==
    IF batch[w][i] \in Keys
    THEN batch[w][i] \in StoredKeys
    ELSE RowOf(w, i) \in rows

NoRecordLostToRace ==
    \A w \in Writers : result[w] = "ok" =>
        \A i \in DOMAIN batch[w] : InTable(w, i)

(* Of bars repeated within a batch only the first can become the row, on    *)
(* the one-transaction path and on the one-at-a-time path alike.            *)
FirstOfBatchWins ==
    \A w \in Writers, i, j \in 1 .. MaxBatch :
        (/\ {i, j} \subseteq DOMAIN batch[w]
         /\ i < j
         /\ batch[w][i] \in Keys
         /\ batch[w][i] = batch[w][j])
        => RowOf(w, j) \notin rows

(* A stored row is never changed and never removed: a later bar for the     *)
(* same minute is skipped, not written over the first.                      *)
RowsArePermanent == [][rows \subseteq rows']_rows

(* Every call returns, through the one-at-a-time loop too.                  *)
CallsReturn == \A w \in Writers : pc[w] # "idle" ~> pc[w] = "idle"

(* What a caller can observe of add_market_data is what BarTable promises.  *)
(* A call in its one-at-a-time loop has no answer yet, even when one record *)
(* has already been dropped.                                                *)
Table == INSTANCE BarTable WITH
    request <- batch,
    ticket <- calls,
    reply <- [w \in Writers |->
                 IF pc[w] = "idle" THEN result[w] ELSE "pending"]

ImplementsTable == Table!TableSpec
=============================================================================
