------------------------------ MODULE IndexStore ------------------------------
(***************************************************************************)
(* IndexStore (src/web_server/data_layer.py): the index valuations in      *)
(* memory and their JSON file.  Several threads update it; whichever finds *)
(* the flush interval elapsed takes a snapshot under the lock and writes   *)
(* the file after releasing it.                                            *)
(*                                                                         *)
(* A version stands for the whole dictionary: every update makes the next  *)
(* one.  The actions are the steps a thread takes; the modules that own    *)
(* the threads say when.                                                   *)
(***************************************************************************)
EXTENDS Integers

CONSTANTS
    Threads,        \* the threads that call the store
    MaxUpdates,     \* bound: the latest version
    Empty,          \* no file, or one that was just truncated
    Torn            \* a file that is no JSON

ASSUME VersionAssumption == MaxUpdates \in Nat
ASSUME FileAssumption == Empty \notin Nat /\ Torn \notin Nat /\ Empty # Torn

VARIABLES
    memory,     \* _indexes
    dirty,      \* _dirty
    due,        \* _flush_interval has passed since _last_flush_mono
    file,       \* the content of cache_file
    flusher,    \* where each thread is in flush_cache
    snapshot,   \* what each thread is writing; 0 when it is not
    spoiled     \* history: the last flush was not alone, or it failed

storeVars == <<memory, dirty, due, file, flusher, snapshot, spoiled>>

-----------------------------------------------------------------------------
Versions == 0 .. MaxUpdates
Files == Versions \union {Empty, Torn}
FlushPhases == {"idle", "flushing", "opening", "writing"}

StoreTypeOK ==
    /\ memory \in Versions
    /\ dirty \in BOOLEAN /\ due \in BOOLEAN /\ spoiled \in BOOLEAN
    /\ file \in Files
    /\ flusher \in [Threads -> FlushPhases]
    /\ snapshot \in [Threads -> Versions]

(* load: the placeholders, updated with what a readable file holds.         *)
Loaded(content) == IF content \in Versions THEN content ELSE 0

StoreInit ==
    /\ memory = 0
    /\ dirty = FALSE /\ due = TRUE
    /\ file = Empty
    /\ flusher = [t \in Threads |-> "idle"]
    /\ snapshot = [t \in Threads |-> 0]
    /\ spoiled = FALSE

(* A thread is between its snapshot and the end of its write.               *)
InFile(t) == flusher[t] \in {"opening", "writing"}
FileBusy == \E t \in Threads : InFile(t)

-----------------------------------------------------------------------------
(* update_index: the entry changes under the lock; the caller flushes when  *)
(* the interval has passed, or when there was no flush yet.                 *)
Update(t) ==
    /\ flusher[t] = "idle" /\ memory < MaxUpdates
    /\ memory' = memory + 1
    /\ dirty' = TRUE
    /\ flusher' = [flusher EXCEPT ![t] = IF due THEN "flushing" ELSE "idle"]
    /\ UNCHANGED <<due, file, snapshot, spoiled>>

(* flush_cache(force=False) is called.                                      *)
Flush(t) ==
    /\ flusher[t] = "idle"
    /\ flusher' = [flusher EXCEPT ![t] = "flushing"]
    /\ UNCHANGED <<memory, dirty, due, file, snapshot, spoiled>>

(* flush_if_due reads _dirty and the clock without the lock.                *)
FlushIfDue(t) ==
    IF dirty /\ due THEN Flush(t) ELSE UNCHANGED storeVars

(* The snapshot, under the lock, with _dirty and the clock reset.           *)
TakeSnapshot(t) ==
    /\ flusher[t] = "flushing" /\ dirty
    /\ snapshot' = [snapshot EXCEPT ![t] = memory]
    /\ dirty' = FALSE /\ due' = FALSE
    /\ flusher' = [flusher EXCEPT ![t] = "opening"]
    /\ spoiled' = FileBusy
    /\ UNCHANGED <<memory, file>>

(* Another thread flushed first.                                            *)
NothingToFlush(t) ==
    /\ flusher[t] = "flushing" /\ ~dirty
    /\ flusher' = [flusher EXCEPT ![t] = "idle"]
    /\ UNCHANGED <<memory, dirty, due, file, snapshot, spoiled>>

(* _write_snapshot: open(..., "w") truncates.                               *)
OpenFile(t) ==
    /\ flusher[t] = "opening"
    /\ flusher' = [flusher EXCEPT ![t] = "writing"]
    /\ file' = Empty
    /\ UNCHANGED <<memory, dirty, due, snapshot, spoiled>>

OpenFails(t) ==
    /\ flusher[t] = "opening"
    /\ flusher' = [flusher EXCEPT ![t] = "idle"]
    /\ snapshot' = [snapshot EXCEPT ![t] = 0]
    /\ spoiled' = TRUE
    /\ UNCHANGED <<memory, dirty, due, file>>

(* Mutant of WriteFile: _dirty is reset once the file is written.           *)
WriteFileSettles(t) ==
    /\ flusher[t] = "writing"
    /\ flusher' = [flusher EXCEPT ![t] = "idle"]
    /\ snapshot' = [snapshot EXCEPT ![t] = 0]
    /\ file' \in IF file = Empty THEN {snapshot[t]} ELSE {snapshot[t], Torn}
    /\ dirty' = FALSE
    /\ UNCHANGED <<memory, due, spoiled>>

(* The dictionary is smaller than the stream's buffer, so it goes out in    *)
(* one write, from the start of the file, when the file is closed.  Over    *)
(* what another thread wrote since the truncation, a shorter one leaves the *)
(* other's tail behind.                                                     *)
WriteFile(t) ==
    /\ flusher[t] = "writing"
    /\ flusher' = [flusher EXCEPT ![t] = "idle"]
    /\ snapshot' = [snapshot EXCEPT ![t] = 0]
    /\ file' \in IF file = Empty THEN {snapshot[t]} ELSE {snapshot[t], Torn}
    /\ UNCHANGED <<memory, dirty, due, spoiled>>

(* A full disk: nothing or a part is written, and nobody tries again.       *)
WriteFails(t) ==
    /\ flusher[t] = "writing"
    /\ flusher' = [flusher EXCEPT ![t] = "idle"]
    /\ snapshot' = [snapshot EXCEPT ![t] = 0]
    /\ file' \in {file, Torn}
    /\ spoiled' = TRUE
    /\ UNCHANGED <<memory, dirty, due>>

(* What a thread does on its own from the call of flush_cache on.           *)
FlushStep(t) ==
    \/ TakeSnapshot(t) \/ NothingToFlush(t)
    \/ OpenFile(t) \/ OpenFails(t)
    \/ WriteFile(t) \/ WriteFails(t)

(* load, which the server runs once more when it starts: what was not       *)
(* flushed by then is forgotten, _dirty stays as it is.                     *)
Load ==
    /\ memory' = Loaded(file)
    /\ spoiled' = (spoiled \/ FileBusy)
    /\ UNCHANGED <<dirty, due, file, flusher, snapshot>>

(* The clock: the flush interval passes.                                    *)
Elapse ==
    /\ ~due
    /\ due' = TRUE
    /\ UNCHANGED <<memory, dirty, file, flusher, snapshot, spoiled>>

(* The process ends without a flush, wherever its threads are, and the next *)
(* one loads the file.                                                      *)
StoreRestart ==
    /\ memory' = Loaded(file)
    /\ dirty' = FALSE /\ due' = TRUE
    /\ flusher' = [t \in Threads |-> "idle"]
    /\ snapshot' = [t \in Threads |-> 0]
    /\ spoiled' = FALSE
    /\ UNCHANGED file

-----------------------------------------------------------------------------
(* No update slips between the snapshot and the write: a store that is not  *)
(* dirty, with no thread in the file, is on disk, so that the next process  *)
(* loads what this one shows.  Two flushes that overlap and one that fails  *)
(* are the exceptions, until the next flush that runs alone.                *)
SettledOnDisk == ~dirty /\ ~FileBusy /\ ~spoiled => Loaded(file) = memory
=============================================================================
