--------------------------- MODULE BarStoreProofs ---------------------------
(***************************************************************************)
(* Theorems about BarStore, for any sets of writers and keys and any       *)
(* bounds.                                                                 *)
(***************************************************************************)
EXTENDS BarStore, WellFoundedInduction, TLAPS

-----------------------------------------------------------------------------
(* A non-empty set of naturals has a least element.                         *)
LEMMA LeastElement ==
    ASSUME NEW T \in SUBSET Nat, T # {}
    PROVE  \E x \in T : \A y \in T : x <= y
<1> DEFINE R == OpToRel(<, Nat)
<1>1. IsWellFoundedOn(R, Nat)
    BY NatLessThanWellFounded
<1>2. PICK x \in T : \A y \in T : ~(<<y, x>> \in R)
  <2> HIDE DEF R
  <2> QED BY <1>1, WFMin
<1>3. \A y \in T : ~(y < x)
    BY <1>2 DEF OpToRel
<1> QED BY <1>3

(* _prepare_bars drops a keyed record only for an earlier one with its key: *)
(* every key of the batch is among the records.                             *)
LEMMA KeptCovers ==
    ASSUME NEW b \in Seq(Bars), NEW i \in DOMAIN b
    PROVE  \E j \in Kept(b) : b[j] = b[i]
<1> DEFINE T == {j \in DOMAIN b : b[j] = b[i]}
<1>1. T \in SUBSET Nat /\ T # {}
    OBVIOUS
<1>2. PICK x \in T : \A y \in T : x <= y
    BY <1>1, LeastElement
<1>3. \A j \in DOMAIN b : j < x => b[j] # b[x]
    BY <1>2
<1> QED BY <1>2, <1>3 DEF Kept

(* A batch of the model is a sequence of bars.                              *)
LEMMA BatchesAreSequences == \A b \in Batches : b \in Seq(Bars)
    BY BoundsAssumption DEF Batches

(* What a batch keeps after it was cleared of repetitions are places of it. *)
LEMMA KeptType ==
    ASSUME NEW b \in Seq(Bars)
    PROVE  Kept(b) \subseteq DOMAIN b /\ Kept(b) \subseteq Nat \ {0}
    BY DEF Kept

-----------------------------------------------------------------------------
(* The inductive invariant.                                                 *)

(* A row of a call that is still the writer's last one was made from a kept *)
(* position of its batch; no row is of a call to come.                      *)
RowsComeFromKept ==
    \A r \in rows :
        /\ r.from[2] <= calls[r.from[1]]
        /\ r.from[2] = calls[r.from[1]] => r.from[3] \in Kept(batch[r.from[1]])

(* What the check found stored is still stored: rows are never removed.     *)
CheckStaysTrue ==
    \A w \in Writers : pc[w] = "commit" => stored[w] \subseteq StoredKeys

(* The one-at-a-time loop has stored all it went past, unless it failed.    *)
RetryProgress ==
    \A w \in Writers : pc[w] = "retry" /\ result[w] # "failed" =>
        \A i \in Kept(batch[w]) \ todo[w] : InTable(w, i)

(* "ok" is only answered, and with it every record is in the table.         *)
OkMeansStored ==
    \A w \in Writers : result[w] = "ok" =>
        pc[w] = "idle" /\ \A i \in Kept(batch[w]) : InTable(w, i)

(* Only the one-at-a-time loop can know of a failure before it returns.     *)
FailsInRetryOnly ==
    \A w \in Writers : pc[w] \in {"open", "commit"} => result[w] = "none"

IndInv ==
    /\ TypeOK
    /\ OneRowPerBar
    /\ RowsComeFromKept
    /\ CheckStaysTrue
    /\ RetryProgress
    /\ OkMeansStored
    /\ FailsInRetryOnly

(* An empty table and no call under way keep the invariant.                 *)
LEMMA InitIndInv == Init => IndInv
<1> SUFFICES ASSUME Init PROVE IndInv
    OBVIOUS
<1>1. TypeOK
    BY DEF Init, TypeOK, Phases, Results
<1>2. QED
    BY <1>1 DEF Init, IndInv, OneRowPerBar, RowsComeFromKept,
                CheckStaysTrue, RetryProgress, OkMeansStored, FailsInRetryOnly

-----------------------------------------------------------------------------
(* Adding rows that the index does not refuse, made from records of one     *)
(* call, keeps the table well formed and everything in it that was there.   *)
LEMMA InsertRows ==
    ASSUME TypeOK, OneRowPerBar, RowsComeFromKept,
           NEW w \in Writers, NEW I \in SUBSET Kept(batch[w]),
           \A i \in I : ~Refused(w, i),
           rows' = rows \union RowsOf(w, I),
           UNCHANGED <<batch, calls>>
    PROVE  /\ rows' \subseteq Rows
           /\ OneRowPerBar'
           /\ RowsComeFromKept'
           /\ StoredKeys \subseteq StoredKeys'
           /\ \A v \in Writers : \A i \in DOMAIN batch[v] :
                  InTable(v, i) => InTable(v, i)'
           /\ \A i \in I : InTable(w, i)'
<1>1. batch[w] \in Seq(Bars) /\ calls[w] \in Nat
    BY DEF TypeOK
<1>2. I \subseteq DOMAIN batch[w] /\ I \subseteq Nat
    BY <1>1, KeptType
<1>3. rows' \subseteq Rows
  <2>1. \A i \in I : RowOf(w, i) \in Rows
      BY <1>1, <1>2 DEF RowOf, Rows, Origins
  <2> QED BY <2>1 DEF TypeOK, RowsOf
<1>4. StoredKeys \subseteq StoredKeys'
    BY DEF StoredKeys
<1>5. OneRowPerBar'
  <2> SUFFICES ASSUME NEW r \in rows', NEW s \in rows',
                      r.key = s.key, r.key \in Keys
               PROVE  r = s
      BY DEF OneRowPerBar
  <2>1. CASE r \in rows /\ s \in rows
      BY <2>1 DEF OneRowPerBar
  <2>2. ASSUME NEW i \in I, NEW q \in rows
        PROVE  ~(RowOf(w, i).key = q.key /\ q.key \in Keys)
      BY KeysAssumption DEF RowOf, Refused, StoredKeys
  <2>3. ASSUME NEW i \in I, NEW j \in I, RowOf(w, i).key = RowOf(w, j).key,
               RowOf(w, i).key \in Keys
        PROVE  RowOf(w, i) = RowOf(w, j)
    <3>1. batch[w][i] = batch[w][j] /\ batch[w][i] # NoKey
        BY <2>3, KeysAssumption DEF RowOf
    <3>2. ~(i < j) /\ ~(j < i)
        BY <3>1, <1>2 DEF Kept
    <3> QED BY <3>2, <1>2
  <2> QED BY <2>1, <2>2, <2>3 DEF RowsOf
<1>6. RowsComeFromKept'
  <2>1. \A i \in I : /\ RowOf(w, i).from[1] = w
                     /\ RowOf(w, i).from[2] = calls[w]
                     /\ RowOf(w, i).from[3] = i
      BY DEF RowOf
  <2> QED BY <2>1, <1>1 DEF RowsComeFromKept, RowsOf
<1>7. \A v \in Writers : \A i \in DOMAIN batch[v] :
          InTable(v, i) => InTable(v, i)'
    BY <1>4 DEF InTable, RowOf
<1>8. \A i \in I : InTable(w, i)'
  <2> SUFFICES ASSUME NEW i \in I PROVE InTable(w, i)'
      OBVIOUS
  <2>1. RowOf(w, i) \in rows'
      BY DEF RowsOf
  <2>2. batch[w][i] \in Keys => batch[w][i] \in StoredKeys'
      BY <2>1, KeysAssumption DEF RowOf, StoredKeys
  <2> QED BY <2>1, <2>2 DEF InTable, RowOf
<1> QED BY <1>3, <1>4, <1>5, <1>6, <1>7, <1>8

(* A step of w that leaves the table alone keeps the conjuncts about rows.  *)
LEMMA SameRows ==
    ASSUME IndInv, UNCHANGED <<rows, batch, calls>>
    PROVE  /\ OneRowPerBar' /\ RowsComeFromKept' /\ StoredKeys' = StoredKeys
           /\ \A v \in Writers : \A i \in DOMAIN batch[v] :
                  InTable(v, i) => InTable(v, i)'
    BY DEF IndInv, OneRowPerBar, RowsComeFromKept, StoredKeys, InTable, RowOf

(* A call of add_market_data keeps it.                                      *)
LEMMA CallIndInv ==
    ASSUME IndInv, NEW w \in Writers, NEW b \in Batches, Call(w, b)
    PROVE  IndInv'
<1> USE DEF IndInv
<1>1. b \in Seq(Bars)
    BY BatchesAreSequences
<1>2. TypeOK'
    BY <1>1 DEF TypeOK, Call, Phases, Results
<1>3. /\ pc' = [pc EXCEPT ![w] = "open"]
      /\ batch' = [batch EXCEPT ![w] = b]
      /\ calls' = [calls EXCEPT ![w] = @ + 1]
      /\ stored' = [stored EXCEPT ![w] = {}]
      /\ todo' = [todo EXCEPT ![w] = {}]
      /\ result' = [result EXCEPT ![w] = "none"]
      /\ rows' = rows
    BY DEF Call
<1>4. /\ pc'[w] = "open" /\ result'[w] = "none"
      /\ \A v \in Writers \ {w} :
            /\ pc'[v] = pc[v] /\ batch'[v] = batch[v] /\ calls'[v] = calls[v]
            /\ stored'[v] = stored[v] /\ todo'[v] = todo[v]
            /\ result'[v] = result[v]
    BY <1>3 DEF TypeOK
<1>5. StoredKeys' = StoredKeys
    BY <1>3 DEF StoredKeys
<1>6. \A v \in Writers \ {w} : \A i : InTable(v, i) => InTable(v, i)'
    BY <1>3, <1>4, <1>5 DEF InTable, RowOf
<1>7. OneRowPerBar'
    BY <1>3 DEF OneRowPerBar
<1>8. RowsComeFromKept'
    BY <1>3, <1>4 DEF RowsComeFromKept, TypeOK, Rows, Origins
<1>9. CheckStaysTrue' /\ FailsInRetryOnly'
    BY <1>4, <1>5 DEF CheckStaysTrue, FailsInRetryOnly
<1>10. RetryProgress' /\ OkMeansStored'
    BY <1>4, <1>6 DEF RetryProgress, OkMeansStored
<1> QED BY <1>2, <1>7, <1>8, <1>9, <1>10

(* The steps that end a call with "failed": what is in the table stays in   *)
(* it, and nothing is claimed of the batch.                                 *)
LEMMA FailedReturn ==
    ASSUME IndInv, NEW w \in Writers, Return(w, "failed"),
           UNCHANGED <<batch, stored, todo, calls>>,
           rows' \subseteq Rows, OneRowPerBar', RowsComeFromKept',
           StoredKeys \subseteq StoredKeys',
           \A v \in Writers : \A i \in DOMAIN batch[v] :
               InTable(v, i) => InTable(v, i)'
    PROVE  IndInv'
<1> USE DEF IndInv
<1>1. TypeOK'
    BY DEF TypeOK, Return, Phases, Results
<1>2. /\ pc'[w] = "idle" /\ result'[w] = "failed"
      /\ \A v \in Writers \ {w} : pc'[v] = pc[v] /\ result'[v] = result[v]
    BY DEF Return, TypeOK
<1>3. \A v \in Writers : Kept(batch[v]) \subseteq DOMAIN batch[v]
    BY KeptType DEF TypeOK
<1>4. CheckStaysTrue' /\ FailsInRetryOnly'
    BY <1>2 DEF CheckStaysTrue, FailsInRetryOnly
<1>5. RetryProgress' /\ OkMeansStored'
    BY <1>2, <1>3 DEF RetryProgress, OkMeansStored
<1> QED BY <1>1, <1>4, <1>5

(* So does a call that gets no session, or dies.                            *)
LEMMA NoSessionOrCrashIndInv ==
    ASSUME IndInv, NEW w \in Writers, NoSession(w) \/ Crash(w)
    PROVE  IndInv'
<1>1. Return(w, "failed") /\ UNCHANGED <<rows, batch, stored, todo, calls>>
    BY DEF NoSession, Crash
<1>2. rows' \subseteq Rows
    BY <1>1 DEF IndInv, TypeOK
<1> QED BY <1>1, <1>2, SameRows, FailedReturn

(* So does the query for the rows that are there already.                   *)
LEMMA CheckIndInv ==
    ASSUME IndInv, NEW w \in Writers, Check(w)
    PROVE  IndInv'
<1> USE DEF IndInv
<1> DEFINE known == KeysOf(batch[w]) \intersect StoredKeys
<1>1. batch[w] \in Seq(Bars) /\ Kept(batch[w]) \subseteq DOMAIN batch[w]
    BY KeptType DEF TypeOK
<1>2. known \subseteq Keys
    BY <1>1 DEF KeysOf, Bars
<1>3. /\ UNCHANGED <<rows, batch, todo, calls>>
      /\ stored' = [stored EXCEPT ![w] = known]
      /\ \/ /\ \A i \in Kept(batch[w]) : batch[w][i] \in known
            /\ pc' = [pc EXCEPT ![w] = "idle"]
            /\ result' = [result EXCEPT ![w] = "ok"]
         \/ pc' = [pc EXCEPT ![w] = "commit"] /\ UNCHANGED result
    BY DEF Check, Return
<1>4. TypeOK'
    BY <1>2, <1>3 DEF TypeOK, Phases, Results
<1>5. /\ pc[w] = "open" /\ result[w] = "none" /\ stored'[w] = known
      /\ \A v \in Writers \ {w} :
            pc'[v] = pc[v] /\ result'[v] = result[v] /\ stored'[v] = stored[v]
      /\ \/ pc'[w] = "commit" /\ result'[w] = "none"
         \/ /\ pc'[w] = "idle" /\ result'[w] = "ok"
            /\ \A i \in Kept(batch[w]) : batch[w][i] \in known
    BY <1>3 DEF Check, FailsInRetryOnly, TypeOK
<1>6. /\ OneRowPerBar' /\ RowsComeFromKept' /\ StoredKeys' = StoredKeys
      /\ \A v \in Writers : \A i \in DOMAIN batch[v] :
             InTable(v, i) => InTable(v, i)'
    BY <1>3, SameRows
<1>7. \A i \in Kept(batch[w]) : batch[w][i] \in known => InTable(w, i)'
    BY <1>2, <1>3, <1>6 DEF InTable
<1>8. \A v \in Writers : Kept(batch[v]) \subseteq DOMAIN batch[v]
    BY KeptType DEF TypeOK
<1>9. CheckStaysTrue' /\ FailsInRetryOnly'
    BY <1>5, <1>6 DEF CheckStaysTrue, FailsInRetryOnly
<1>10. RetryProgress' /\ OkMeansStored'
    BY <1>3, <1>5, <1>6, <1>7, <1>8 DEF RetryProgress, OkMeansStored
<1> QED BY <1>4, <1>6, <1>9, <1>10

(* So does a query that fails, after which all of the batch counts as new.  *)
LEMMA CheckFailsIndInv ==
    ASSUME IndInv, NEW w \in Writers, CheckFails(w)
    PROVE  IndInv'
<1> USE DEF IndInv
<1>1. UNCHANGED <<rows, batch, todo, calls, result>>
    BY DEF CheckFails
<1>2. TypeOK'
    BY DEF TypeOK, CheckFails, Phases, Results
<1>3. /\ pc[w] = "open" /\ result[w] = "none"
      /\ pc'[w] = "commit" /\ stored'[w] = {}
      /\ \A v \in Writers \ {w} : pc'[v] = pc[v] /\ stored'[v] = stored[v]
    BY DEF CheckFails, FailsInRetryOnly, TypeOK
<1>4. /\ OneRowPerBar' /\ RowsComeFromKept' /\ StoredKeys' = StoredKeys
      /\ \A v \in Writers : \A i \in DOMAIN batch[v] :
             InTable(v, i) => InTable(v, i)'
    BY <1>1, SameRows
<1>5. \A v \in Writers : Kept(batch[v]) \subseteq DOMAIN batch[v]
    BY KeptType DEF TypeOK
<1>6. CheckStaysTrue' /\ FailsInRetryOnly'
    BY <1>1, <1>3, <1>4 DEF CheckStaysTrue, FailsInRetryOnly
<1>7. RetryProgress' /\ OkMeansStored'
    BY <1>1, <1>3, <1>4, <1>5 DEF RetryProgress, OkMeansStored
<1> QED BY <1>2, <1>4, <1>6, <1>7

(* So does the commit of the whole batch.                                   *)
LEMMA CommitIndInv ==
    ASSUME IndInv, NEW w \in Writers, Commit(w)
    PROVE  IndInv'
<1> USE DEF IndInv
<1>1. batch[w] \in Seq(Bars) /\ Fresh(w) \in SUBSET Kept(batch[w])
    BY DEF TypeOK, Fresh
<1>2. /\ UNCHANGED <<batch, stored, todo, calls>>
      /\ rows' = rows \union RowsOf(w, Fresh(w))
      /\ \A i \in Fresh(w) : ~Refused(w, i)
    BY DEF Commit
<1>3. /\ rows' \subseteq Rows /\ OneRowPerBar' /\ RowsComeFromKept'
      /\ StoredKeys \subseteq StoredKeys'
      /\ \A v \in Writers : \A i \in DOMAIN batch[v] :
             InTable(v, i) => InTable(v, i)'
      /\ \A i \in Fresh(w) : InTable(w, i)'
    BY <1>1, <1>2, InsertRows
<1>4. TypeOK'
    BY <1>2, <1>3 DEF TypeOK, Commit, Return, Phases, Results
<1>5. /\ pc[w] = "commit" /\ pc'[w] = "idle" /\ result'[w] = "ok"
      /\ \A v \in Writers \ {w} : pc'[v] = pc[v] /\ result'[v] = result[v]
    BY DEF Commit, Return, TypeOK
<1>6. \A v \in Writers : Kept(batch[v]) \subseteq DOMAIN batch[v]
    BY KeptType DEF TypeOK
<1>7. \A i \in Kept(batch[w]) : InTable(w, i)'
  <2>1. ASSUME NEW i \in Kept(batch[w]), i \notin Fresh(w)
        PROVE  batch[w][i] \in Keys /\ batch[w][i] \in StoredKeys
      BY <1>5, <2>1 DEF Fresh, CheckStaysTrue, TypeOK
  <2> QED BY <1>2, <1>3, <2>1 DEF InTable
<1>8. CheckStaysTrue' /\ FailsInRetryOnly'
    BY <1>2, <1>3, <1>5 DEF CheckStaysTrue, FailsInRetryOnly
<1>9. RetryProgress' /\ OkMeansStored'
    BY <1>2, <1>3, <1>5, <1>6, <1>7 DEF RetryProgress, OkMeansStored
<1> QED BY <1>3, <1>4, <1>8, <1>9

(* So does a commit that another writer's row makes fail.                   *)
LEMMA CommitConflictIndInv ==
    ASSUME IndInv, NEW w \in Writers, CommitConflict(w)
    PROVE  IndInv'
<1> USE DEF IndInv
<1>1. batch[w] \in Seq(Bars)
    BY DEF TypeOK
<1>2. /\ UNCHANGED <<rows, batch, stored, calls, result>>
      /\ pc' = [pc EXCEPT ![w] = "retry"]
      /\ todo' = [todo EXCEPT ![w] = Kept(batch[w])]
    BY DEF CommitConflict
<1>3. Kept(batch[w]) \subseteq Nat \ {0}
    BY <1>1, KeptType
<1>4. TypeOK'
    BY <1>2, <1>3 DEF TypeOK, Phases, Results
<1>5. /\ pc'[w] = "retry" /\ todo'[w] = Kept(batch[w])
      /\ pc[w] = "commit" /\ result[w] = "none"
      /\ \A v \in Writers \ {w} : pc'[v] = pc[v] /\ todo'[v] = todo[v]
    BY <1>2 DEF TypeOK, CommitConflict, FailsInRetryOnly
<1>6. /\ OneRowPerBar' /\ RowsComeFromKept' /\ StoredKeys' = StoredKeys
      /\ \A v \in Writers : \A i \in DOMAIN batch[v] :
             InTable(v, i) => InTable(v, i)'
    BY <1>2, SameRows
<1>7. \A v \in Writers : Kept(batch[v]) \subseteq DOMAIN batch[v]
    BY KeptType DEF TypeOK
<1>8. CheckStaysTrue' /\ FailsInRetryOnly'
    BY <1>2, <1>5, <1>6 DEF CheckStaysTrue, FailsInRetryOnly
<1>9. RetryProgress' /\ OkMeansStored'
    BY <1>2, <1>5, <1>6, <1>7 DEF RetryProgress, OkMeansStored
<1> QED BY <1>4, <1>6, <1>8, <1>9

(* So does a commit that fails for another reason.                          *)
LEMMA CommitFailsIndInv ==
    ASSUME IndInv, NEW w \in Writers, CommitFails(w)
    PROVE  IndInv'
<1> USE DEF IndInv
<1>1. Return(w, "failed") /\ UNCHANGED <<batch, stored, todo, calls>>
    BY DEF CommitFails
<1>2. CASE UNCHANGED rows
  <2>1. rows' \subseteq Rows
      BY <1>2 DEF TypeOK
  <2> QED BY <1>1, <1>2, <2>1, SameRows, FailedReturn
<1>3. CASE /\ \A i \in Fresh(w) : ~Refused(w, i)
           /\ rows' = rows \union RowsOf(w, Fresh(w))
  <2>1. Fresh(w) \in SUBSET Kept(batch[w])
      BY DEF Fresh
  <2> QED BY <1>1, <1>3, <2>1, InsertRows, FailedReturn
<1> QED BY <1>2, <1>3 DEF CommitFails

(* One turn of the loop, whatever _write_bar met.  I is the rows it added.  *)
LEMMA LoopTurn ==
    ASSUME IndInv, NEW w \in Writers, NEW i \in todo[w], pc[w] = "retry",
           NEW I \in SUBSET {i}, \A j \in I : ~Refused(w, j),
           rows' = rows \union RowsOf(w, I),
           NEW how \in {"ok", "failed"}, Written(w, i, how),
           how = "ok" => /\ result[w] # "failed"
                         /\ i \in I \/ Refused(w, i)
    PROVE  IndInv'
<1> USE DEF IndInv
<1>1. /\ batch[w] \in Seq(Bars) /\ todo[w] \subseteq Kept(batch[w])
      /\ I \in SUBSET Kept(batch[w])
    BY DEF TypeOK
<1>2. /\ UNCHANGED <<batch, stored, calls>>
      /\ todo' = [todo EXCEPT ![w] = @ \ {i}]
    BY DEF Written
<1>3. /\ rows' \subseteq Rows /\ OneRowPerBar' /\ RowsComeFromKept'
      /\ StoredKeys \subseteq StoredKeys'
      /\ \A v \in Writers : \A j \in DOMAIN batch[v] :
             InTable(v, j) => InTable(v, j)'
      /\ \A j \in I : InTable(w, j)'
    BY <1>1, <1>2, InsertRows
<1>4. TypeOK'
    BY <1>2, <1>3, ZenonT(60) DEF TypeOK, Written, Return, Phases, Results
<1>5. /\ todo'[w] = todo[w] \ {i}
      /\ \/ todo[w] = {i} /\ pc'[w] = "idle" /\ result'[w] = how
         \/ /\ pc'[w] = "retry"
            /\ result'[w] = IF how = "failed" THEN how ELSE result[w]
      /\ \A v \in Writers \ {w} : /\ pc'[v] = pc[v] /\ result'[v] = result[v]
                                  /\ todo'[v] = todo[v]
    BY <1>2 DEF Written, Return, TypeOK
<1>6. \A v \in Writers : Kept(batch[v]) \subseteq DOMAIN batch[v]
    BY KeptType DEF TypeOK
<1>7. how = "ok" => InTable(w, i)'
  <2>1. StoredKeys \subseteq Keys
      BY DEF StoredKeys, TypeOK, Rows, Bars
  <2>2. Refused(w, i) => InTable(w, i)'
      BY <1>2, <1>3, <2>1 DEF Refused, InTable
  <2> QED BY <1>3, <2>2
<1>8. how = "ok" => \A j \in Kept(batch[w]) \ todo'[w] : InTable(w, j)'
    BY <1>3, <1>5, <1>6, <1>7 DEF RetryProgress
<1>9. CheckStaysTrue' /\ FailsInRetryOnly'
    BY <1>2, <1>3, <1>5 DEF CheckStaysTrue, FailsInRetryOnly
<1>10. result[w] # "ok"
    BY DEF OkMeansStored
<1>11. RetryProgress'
    BY <1>2, <1>3, <1>5, <1>6, <1>8 DEF RetryProgress
<1>12. OkMeansStored'
    BY <1>2, <1>3, <1>5, <1>6, <1>8, <1>10 DEF OkMeansStored
<1> QED BY <1>3, <1>4, <1>9, <1>11, <1>12

(* So does a bar of its own transaction, written or failed.                 *)
LEMMA WriteBarIndInv ==
    ASSUME IndInv, NEW w \in Writers, NEW i \in todo[w],
           WriteBar(w, i) \/ WriteBarFails(w, i)
    PROVE  IndInv'
<1>1. pc[w] = "retry"
    BY DEF WriteBar, WriteBarFails
<1>2. RowsOf(w, {}) = {}
    BY DEF RowsOf
<1>3. CASE WriteBar(w, i)
  <2> DEFINE I == IF Refused(w, i) THEN {} ELSE {i}
             how == IF result[w] = "failed" THEN "failed" ELSE "ok"
  <2>1. rows' = rows \union RowsOf(w, I) /\ Written(w, i, how)
      BY <1>2, <1>3 DEF WriteBar
  <2>2. I \in SUBSET {i} /\ \A j \in I : ~Refused(w, j)
      OBVIOUS
  <2>3. /\ how \in {"ok", "failed"}
        /\ how = "ok" => result[w] # "failed" /\ (i \in I \/ Refused(w, i))
      OBVIOUS
  <2> HIDE DEF I, how
  <2> QED BY <1>1, <2>1, <2>2, <2>3, LoopTurn
<1>4. CASE WriteBarFails(w, i)
  <2>1. Written(w, i, "failed")
      BY <1>4 DEF WriteBarFails
  <2>2. PICK I \in SUBSET {i} : /\ \A j \in I : ~Refused(w, j)
                                /\ rows' = rows \union RowsOf(w, I)
    <3>1. CASE UNCHANGED rows
        BY <1>2, <3>1
    <3>2. CASE ~Refused(w, i) /\ rows' = rows \union RowsOf(w, {i})
        BY <3>2
    <3> QED BY <1>4, <3>1, <3>2 DEF WriteBarFails
  <2> QED BY <1>1, <2>1, <2>2, LoopTurn
<1> QED BY <1>3, <1>4

(* So every step keeps it.                                                  *)
LEMMA StepIndInv == IndInv /\ [Next]_vars => IndInv'
<1> SUFFICES ASSUME IndInv, [Next]_vars PROVE IndInv'
    OBVIOUS
<1>1. CASE UNCHANGED vars
    BY <1>1 DEF vars, IndInv, TypeOK, OneRowPerBar, RowsComeFromKept,
                CheckStaysTrue, RetryProgress, OkMeansStored,
                FailsInRetryOnly, StoredKeys, InTable, RowOf
<1>2. ASSUME NEW w \in Writers, NEW b \in Batches, Call(w, b)
      PROVE  IndInv'
    BY <1>2, CallIndInv
<1>3. ASSUME NEW w \in Writers, Step(w)
      PROVE  IndInv'
    BY <1>3, NoSessionOrCrashIndInv, CheckIndInv, CheckFailsIndInv,
       CommitIndInv, CommitConflictIndInv, CommitFailsIndInv, WriteBarIndInv
       DEF Step
<1>4. ASSUME NEW w \in Writers, Crash(w)
      PROVE  IndInv'
    BY <1>4, NoSessionOrCrashIndInv
<1> QED BY <1>1, <1>2, <1>3, <1>4 DEF Next

(* The invariant holds in every reachable state.                            *)
THEOREM Invariance == Spec => []IndInv
<1> QED BY InitIndInv, StepIndInv, PTL DEF Spec

-----------------------------------------------------------------------------
(* The variables keep their types.                                          *)
THEOREM TypeCorrectness == Spec => []TypeOK
<1> QED BY Invariance, PTL DEF IndInv

(* Whatever the writers race to insert and whatever the check answers, no   *)
(* (symbol, timestamp) is stored twice.                                     *)
THEOREM UniqueBars == Spec => []OneRowPerBar
<1> QED BY Invariance, PTL DEF IndInv

(* A call that meets no database failure leaves every bar of its batch in   *)
(* the table, although another writer may have broken its transaction.      *)
THEOREM RaceLosesNothing == Spec => []NoRecordLostToRace
<1>1. IndInv => NoRecordLostToRace
  <2> SUFFICES ASSUME IndInv, NEW w \in Writers, result[w] = "ok",
                      NEW i \in DOMAIN batch[w]
               PROVE  InTable(w, i)
      BY DEF NoRecordLostToRace
  <2>1. batch[w] \in Seq(Bars)
      BY DEF IndInv, TypeOK
  <2>2. \A k \in Kept(batch[w]) : InTable(w, k)
      BY DEF IndInv, OkMeansStored
  <2>3. CASE batch[w][i] \in Keys
    <3>1. PICK k \in Kept(batch[w]) : batch[w][k] = batch[w][i]
        BY <2>1, KeptCovers
    <3> QED BY <2>2, <2>3, <3>1 DEF InTable
  <2>4. CASE batch[w][i] \notin Keys
    <3>1. batch[w][i] = NoKey
        BY <2>1, <2>4 DEF Bars
    <3> QED BY <2>2, <3>1 DEF Kept
  <2> QED BY <2>3, <2>4
<1> QED BY Invariance, <1>1, PTL

(* Of bars repeated in a batch, only the first becomes a row.               *)
THEOREM FirstBarWins == Spec => []FirstOfBatchWins
<1>1. IndInv => FirstOfBatchWins
  <2> SUFFICES ASSUME IndInv, NEW w \in Writers,
                      NEW i \in 1 .. MaxBatch, NEW j \in 1 .. MaxBatch,
                      {i, j} \subseteq DOMAIN batch[w], i < j,
                      batch[w][i] \in Keys, batch[w][i] = batch[w][j],
                      RowOf(w, j) \in rows
               PROVE  FALSE
      BY DEF FirstOfBatchWins
  <2>1. j \in Kept(batch[w])
      BY DEF IndInv, RowsComeFromKept, RowOf
  <2> QED BY <2>1, KeysAssumption DEF Kept
<1> QED BY Invariance, <1>1, PTL

(* No step of any writer changes or removes a row.                          *)
THEOREM RowsStay == Spec => RowsArePermanent
<1>1. IndInv /\ [Next]_vars => [rows \subseteq rows']_rows
  <2> SUFFICES ASSUME [Next]_vars PROVE rows \subseteq rows'
      OBVIOUS
  <2>1. CASE UNCHANGED vars
      BY <2>1 DEF vars
  <2>2. CASE Next
      BY <2>2 DEF Next, Step, Call, NoSession, Check, CheckFails, Commit,
                  CommitConflict, CommitFails, WriteBar, WriteBarFails, Crash
  <2> QED BY <2>1, <2>2
<1> QED BY Invariance, <1>1, PTL DEF Spec, RowsArePermanent

-----------------------------------------------------------------------------
(* Refinement of BarTable.                                                  *)
Answer(w) == IF pc[w] = "idle" THEN result[w] ELSE "pending"
AnswerMap == [w \in Writers |-> Answer(w)]

(* A step that adds rows of a call in progress, and may answer it, is Serve.*)
LEMMA ServeStep ==
    ASSUME IndInv, IndInv', NEW w \in Writers, pc[w] # "idle",
           UNCHANGED <<batch, calls>>,
           \A v \in Writers \ {w} : pc'[v] = pc[v] /\ result'[v] = result[v],
           pc'[w] = "idle" => result'[w] \in {"ok", "failed"},
           NEW I \in SUBSET DOMAIN batch[w], rows' = rows \union RowsOf(w, I)
    PROVE  Table!Serve(w)
<1>1. AnswerMap[w] = "pending"
    BY DEF AnswerMap, Answer
<1>2. rows' = rows \union {Table!RowFrom(w, i) : i \in I}
    BY DEF RowsOf, RowOf, Table!RowFrom
<1>3. Table!OnePerBar(rows')
    BY DEF IndInv, OneRowPerBar, Table!OnePerBar
<1>4. CASE pc'[w] # "idle"
  <2>1. AnswerMap' = AnswerMap
      BY <1>4 DEF AnswerMap, Answer
  <2> QED BY <1>1, <1>2, <1>3, <2>1 DEF Table!Serve, AnswerMap, Answer
<1>5. CASE pc'[w] = "idle"
  <2>1. AnswerMap' = [AnswerMap EXCEPT ![w] = result'[w]]
      BY <1>5 DEF AnswerMap, Answer
  <2>2. ASSUME result'[w] = "ok" PROVE Table!Complete(w, rows')
    <3> SUFFICES ASSUME NEW i \in DOMAIN batch[w]
                 PROVE  IF batch[w][i] \in Keys
                        THEN \E r \in rows' : r.key = batch[w][i]
                        ELSE Table!RowFrom(w, i) \in rows'
        BY DEF Table!Complete
    <3>1. batch[w] \in Seq(Bars)
        BY DEF IndInv, TypeOK
    <3>2. \A k \in Kept(batch[w]) : InTable(w, k)'
        BY <2>2 DEF IndInv, OkMeansStored
    <3>3. CASE batch[w][i] \in Keys
      <4>1. PICK k \in Kept(batch[w]) : batch[w][k] = batch[w][i]
          BY <3>1, KeptCovers
      <4>2. batch[w][i] \in StoredKeys'
          BY <3>2, <3>3, <4>1 DEF InTable
      <4> QED BY <3>3, <4>2 DEF StoredKeys
    <3>4. CASE batch[w][i] \notin Keys
      <4>1. i \in Kept(batch[w])
          BY <3>1, <3>4 DEF Bars, Kept
      <4> QED BY <3>2, <3>4, <4>1 DEF InTable, RowOf, Table!RowFrom
    <3> QED BY <3>3, <3>4
  <2> QED BY <1>1, <1>2, <1>3, <1>5, <2>1, <2>2
          DEF Table!Serve, AnswerMap, Answer
<1> QED BY <1>4, <1>5

(* Entering add_market_data is Ask.                                         *)
LEMMA CallRefines ==
    ASSUME IndInv, NEW w \in Writers, NEW b \in Batches, Call(w, b)
    PROVE  Table!Ask(w)
<1>1. AnswerMap[w] # "pending"
    BY DEF AnswerMap, Answer, Call, IndInv, TypeOK, Results
<1>2. AnswerMap' = [AnswerMap EXCEPT ![w] = "pending"]
    BY DEF AnswerMap, Answer, Call, IndInv, TypeOK
<1> QED BY <1>1, <1>2 DEF Table!Ask, AnswerMap, Answer, Call

(* Every other step of a call is Serve.                                     *)
LEMMA StepRefines ==
    ASSUME IndInv, IndInv', NEW w \in Writers, Step(w) \/ Crash(w)
    PROVE  Table!Serve(w)
<1>1. /\ pc[w] # "idle" /\ UNCHANGED <<batch, calls>>
      /\ \A v \in Writers \ {w} : pc'[v] = pc[v] /\ result'[v] = result[v]
    BY ZenonT(60) DEF IndInv, TypeOK, Step, Crash, NoSession, Check, CheckFails, Commit,
           CommitConflict, CommitFails, WriteBar, WriteBarFails, Written, Return
<1>2. pc'[w] = "idle" => result'[w] \in {"ok", "failed"}
    BY DEF IndInv, TypeOK, Step, Crash, NoSession, Check, CheckFails, Commit,
           CommitConflict, CommitFails, WriteBar, WriteBarFails, Written, Return
<1>3. Fresh(w) \subseteq DOMAIN batch[w] /\ todo[w] \subseteq DOMAIN batch[w]
    BY KeptType DEF Fresh, IndInv, TypeOK
<1>4. \E I \in SUBSET DOMAIN batch[w] : rows' = rows \union RowsOf(w, I)
  <2>1. RowsOf(w, {}) = {}
      BY DEF RowsOf
  <2>2. CASE UNCHANGED rows
      BY <2>1, <2>2
  <2>3. CASE rows' = rows \union RowsOf(w, Fresh(w))
      BY <1>3, <2>3
  <2>4. CASE \E i \in todo[w] : rows' = rows \union RowsOf(w, {i})
      BY <1>3, <2>4
  <2> QED BY <2>2, <2>3, <2>4
          DEF Step, Crash, NoSession, Check, CheckFails, Commit,
              CommitConflict, CommitFails, WriteBar, WriteBarFails
<1> QED BY <1>1, <1>2, <1>4, ServeStep

(* Seen by its callers, add_market_data with any number of concurrent       *)
(* writers is the table BarTable specifies.                                 *)
THEOREM Refinement == Spec => ImplementsTable
<1>1. Init => Table!TableInit
    BY DEF Init, Table!TableInit
<1>2. IndInv /\ IndInv' /\ [Next]_vars => [Table!TableNext]_(Table!tableVars)
  <2> SUFFICES ASSUME IndInv, IndInv', [Next]_vars
               PROVE  Table!TableNext \/ UNCHANGED Table!tableVars
      OBVIOUS
  <2>1. CASE UNCHANGED vars
      BY <2>1 DEF vars, Table!tableVars
  <2>2. CASE Next
      BY <2>2, CallRefines, StepRefines DEF Next, Table!TableNext
  <2> QED BY <2>1, <2>2
<1> QED BY Invariance, <1>1, <1>2, PTL DEF Spec, ImplementsTable, Table!TableSpec
=============================================================================
