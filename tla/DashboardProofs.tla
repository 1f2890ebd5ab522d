--------------------------- MODULE DashboardProofs ---------------------------
(***************************************************************************)
(* What the dashboard's server and its index store keep, for any number of *)
(* clients, updates and restarts.  The store is proved on its own, over    *)
(* the steps its threads take; a step of the server is one of those or     *)
(* leaves the store alone.                                                 *)
(***************************************************************************)
EXTENDS Dashboard, TLAPS

(* What may happen to the store.                                            *)
StoreStep ==
    \/ \E t \in Threads : Update(t) \/ Flush(t) \/ FlushStep(t)
    \/ Load \/ Elapse \/ StoreRestart

(* While the last flush is alone and has not failed, the one thread in the  *)
(* file found it truncated by itself, and its snapshot is the memory until  *)
(* the next update.                                                         *)
AloneInFile ==
    \A t, u \in Threads : ~spoiled /\ InFile(t) /\ InFile(u) => t = u
SnapshotCurrent ==
    \A t \in Threads : ~spoiled /\ InFile(t) /\ ~dirty => snapshot[t] = memory
WritesFromEmpty ==
    \A t \in Threads : ~spoiled /\ flusher[t] = "writing" => file = Empty

StoreInv ==
    /\ StoreTypeOK
    /\ AloneInFile
    /\ SnapshotCurrent
    /\ WritesFromEmpty
    /\ SettledOnDisk

-----------------------------------------------------------------------------
(* load answers with a version, whatever the file holds, and with the one   *)
(* in the file when there is one.                                           *)
LEMMA LoadedIsVersion ==
    /\ \A content : Loaded(content) \in Versions
    /\ \A v \in Versions : Loaded(v) = v
    /\ Loaded(Empty) = 0
  BY VersionAssumption, FileAssumption DEF Loaded, Versions

(* The store starts in its invariant.                                       *)
LEMMA StoreStarts == StoreInit => StoreInv
  <1> SUFFICES ASSUME StoreInit PROVE StoreInv
    OBVIOUS
  <1>1. StoreTypeOK
    <2>1. memory \in Versions /\ file \in Files
      BY VersionAssumption DEF StoreInit, Versions, Files
    <2>2. flusher \in [Threads -> FlushPhases] /\ snapshot \in [Threads -> Versions]
      BY VersionAssumption DEF StoreInit, Versions, FlushPhases
    <2>3. dirty \in BOOLEAN /\ due \in BOOLEAN /\ spoiled \in BOOLEAN
      BY DEF StoreInit
    <2> QED BY <2>1, <2>2, <2>3 DEF StoreTypeOK
  <1>2. AloneInFile /\ SnapshotCurrent /\ WritesFromEmpty
    BY DEF StoreInit, AloneInFile, SnapshotCurrent, WritesFromEmpty, InFile
  <1>3. SettledOnDisk
    BY LoadedIsVersion DEF StoreInit, SettledOnDisk
  <1> QED BY <1>1, <1>2, <1>3 DEF StoreInv

(* Every step of the store keeps the types.                                 *)
LEMMA StoreTypes == StoreTypeOK /\ [StoreStep]_storeVars => StoreTypeOK'
  <1> SUFFICES ASSUME StoreTypeOK, [StoreStep]_storeVars PROVE StoreTypeOK'
    OBVIOUS
  <1> USE DEF StoreTypeOK
  <1>1. ASSUME NEW t \in Threads, Update(t) PROVE StoreTypeOK'
    BY <1>1, VersionAssumption DEF Update, Versions, FlushPhases
  <1>2. ASSUME NEW t \in Threads, Flush(t) PROVE StoreTypeOK'
    BY <1>2 DEF Flush, FlushPhases
  <1>3. ASSUME NEW t \in Threads, TakeSnapshot(t) PROVE StoreTypeOK'
    BY <1>3 DEF TakeSnapshot, FlushPhases, FileBusy
  <1>4. ASSUME NEW t \in Threads, NothingToFlush(t) PROVE StoreTypeOK'
    BY <1>4 DEF NothingToFlush, FlushPhases
  <1>e. 0 \in Versions /\ Versions \subseteq Files /\ Empty \in Files /\ Torn \in Files
    BY VersionAssumption DEF Versions, Files
  <1>5. ASSUME NEW t \in Threads, OpenFile(t) \/ OpenFails(t) PROVE StoreTypeOK'
    BY <1>5, <1>e DEF OpenFile, OpenFails, FlushPhases
  <1>6. ASSUME NEW t \in Threads, WriteFile(t) \/ WriteFails(t) PROVE StoreTypeOK'
    <2>1. file' \in Files
      <3>1. snapshot[t] \in Files
        BY <1>e
      <3>2. CASE WriteFile(t)
        BY <3>1, <3>2, <1>e DEF WriteFile
      <3>3. CASE WriteFails(t)
        BY <3>3, <1>e DEF WriteFails
      <3> QED BY <1>6, <3>2, <3>3
    <2>2. flusher' \in [Threads -> FlushPhases] /\ snapshot' \in [Threads -> Versions]
      BY <1>6, <1>e DEF WriteFile, WriteFails, FlushPhases
    <2>3. /\ dirty' \in BOOLEAN /\ due' \in BOOLEAN /\ spoiled' \in BOOLEAN
          /\ memory' \in Versions
      BY <1>6 DEF WriteFile, WriteFails
    <2> QED BY <2>1, <2>2, <2>3
  <1>7. CASE Load
    BY <1>7, LoadedIsVersion DEF Load, FileBusy
  <1>8. CASE Elapse
    BY <1>8 DEF Elapse, FlushPhases
  <1>9. CASE StoreRestart
    BY <1>9, LoadedIsVersion, VersionAssumption DEF StoreRestart, FlushPhases, Versions
  <1>10. CASE UNCHANGED storeVars
    BY <1>10 DEF storeVars
  <1> QED
    BY <1>1, <1>2, <1>3, <1>4, <1>5, <1>6, <1>7, <1>8, <1>9, <1>10
    DEF StoreStep, FlushStep

(* Every step of the store keeps its invariant.                             *)
LEMMA StoreSteps == StoreInv /\ [StoreStep]_storeVars => StoreInv'
  <1> SUFFICES ASSUME StoreInv, [StoreStep]_storeVars PROVE StoreInv'
    OBVIOUS
  <1> USE DEF AloneInFile, SnapshotCurrent, WritesFromEmpty, SettledOnDisk, InFile, FileBusy
  <1>0. StoreTypeOK /\ AloneInFile /\ SnapshotCurrent /\ WritesFromEmpty /\ SettledOnDisk
    BY DEF StoreInv
  <1>t. StoreTypeOK'
    BY <1>0, StoreTypes
  <1> DEFINE Kept == AloneInFile /\ SnapshotCurrent /\ WritesFromEmpty /\ SettledOnDisk
  <1>1. ASSUME NEW t \in Threads, Update(t) PROVE Kept'
    BY <1>0, <1>1 DEF Update, StoreTypeOK
  <1>2. ASSUME NEW t \in Threads, Flush(t) PROVE Kept'
    BY <1>0, <1>2 DEF Flush, StoreTypeOK
  <1>3. ASSUME NEW t \in Threads, TakeSnapshot(t) PROVE Kept'
    BY <1>0, <1>3 DEF TakeSnapshot, StoreTypeOK
  <1>4. ASSUME NEW t \in Threads, NothingToFlush(t) PROVE Kept'
    BY <1>0, <1>4 DEF NothingToFlush, StoreTypeOK
  <1>5. ASSUME NEW t \in Threads, OpenFile(t) PROVE Kept'
    BY <1>0, <1>5 DEF OpenFile, StoreTypeOK
  <1>6. ASSUME NEW t \in Threads, OpenFails(t) \/ WriteFails(t) PROVE Kept'
    BY <1>0, <1>6 DEF OpenFails, WriteFails, StoreTypeOK
  <1>7. ASSUME NEW t \in Threads, WriteFile(t) PROVE Kept'
    <2>1. AloneInFile' /\ SnapshotCurrent' /\ WritesFromEmpty'
      BY <1>0, <1>7 DEF WriteFile, StoreTypeOK
    <2>2. ~spoiled /\ ~dirty => file' = memory
      BY <1>0, <1>7 DEF WriteFile
    <2>3. SettledOnDisk'
      BY <1>0, <1>7, <2>2, LoadedIsVersion DEF WriteFile, StoreTypeOK
    <2> QED BY <2>1, <2>3
  <1>8. ASSUME Load PROVE Kept'
    BY <1>0, <1>t, <1>8 DEF Load
  <1>9. ASSUME Elapse PROVE Kept'
    BY <1>0, <1>9 DEF Elapse
  <1>10. ASSUME StoreRestart PROVE Kept'
    BY <1>0, <1>10 DEF StoreRestart
  <1>11. ASSUME UNCHANGED storeVars PROVE Kept'
    BY <1>0, <1>11 DEF storeVars
  <1> HIDE DEF Kept
  <1>12. Kept'
    BY <1>1, <1>2, <1>3, <1>4, <1>5, <1>6, <1>7, <1>8, <1>9, <1>10, <1>11
    DEF StoreStep, FlushStep
  <1> QED BY <1>t, <1>12 DEF StoreInv, Kept

(* A step of the server is a step of the store, or leaves it alone.         *)
LEMMA ServerStepsStore == [Next]_vars => [StoreStep]_storeVars
  <1> SUFFICES ASSUME [Next]_vars PROVE [StoreStep]_storeVars
    OBVIOUS
  <1> USE DEF StoreStep
  <1>0. EventLoop \in Threads /\ Main \in Threads
    BY ThreadAssumption
  <1>1. CASE BroadcastStep
    BY <1>0, <1>1
    DEF BroadcastStep, Start, Wake, FlushIfDue, NobodyThere, BeginRound, RoundFails, EndRound,
        SendUpdate, SendRaises
  <1>2. ASSUME NEW c \in Clients, Accept(c) \/ HandlerStep(c) \/ ClientLeaves(c)
        PROVE  UNCHANGED storeVars
    BY <1>2
    DEF Accept, HandlerStep, Prepare, SendInit, Register, FiguresSent, Notice, HandlerFails,
        ClientLeaves
  <1>3. CASE Refresh
    BY <1>0, <1>3 DEF Refresh
  <1>4. ASSUME NEW t \in Threads, ProxyTick(t) \/ ThreadFlushes(t) PROVE StoreStep
    BY <1>4 DEF ProxyTick, ThreadFlushes
  <1>5. CASE AtExit \/ Stop
    BY <1>0, <1>5 DEF AtExit, Stop
  <1>6. CASE Restart \/ Clock
    BY <1>6 DEF Restart, Clock
  <1>7. CASE UNCHANGED vars
    BY <1>7 DEF vars
  <1> QED BY <1>1, <1>2, <1>3, <1>4, <1>5, <1>6, <1>7 DEF Next

(* What is settled is on disk, for any number of updates, flushes, failures *)
(* and restarts (SettledOnDisk).                                            *)
THEOREM SettledIsOnDisk == Spec => []SettledOnDisk
  <1>1. Init => StoreInv
    BY StoreStarts DEF Init
  <1>2. StoreInv /\ [Next]_vars => StoreInv'
    BY StoreSteps, ServerStepsStore
  <1>3. StoreInv => SettledOnDisk
    BY DEF StoreInv
  <1> QED BY <1>1, <1>2, <1>3, PTL DEF Spec

-----------------------------------------------------------------------------
(* The event loop's part of the types.                                      *)
ServerTypeOK ==
    /\ socket \in [Clients -> {"open", "gone", "closed"}]
    /\ handler \in [Clients -> HandlerPhases]
    /\ loop \in LoopPhases
    /\ active \subseteq Clients /\ pending \subseteq Clients
    /\ dead \subseteq Clients
    /\ heard \in [Clients -> Hearings]
    /\ exiting \in BOOLEAN /\ restarts \in 0 .. MaxRestarts

(* Whoever is listed or being sent to has had its first message, and so has *)
(* a client whose handler is about to list it.                              *)
ListedHeardInit ==
    /\ \A c \in active \union pending : heard[c] = "init"
    /\ \A c \in Clients : handler[c] = "sent init" => heard[c] = "init"

ServerInv == ServerTypeOK /\ ListedHeardInit /\ InitFirst /\ NoEndedClientKept

(* A server that nobody is connected to keeps its invariant.                *)
LEMMA ServerStarts == Init => ServerInv
  <1> SUFFICES ASSUME Init PROVE ServerInv
    OBVIOUS
  <1>1. ServerTypeOK
    <2>1. /\ socket \in [Clients -> {"open", "gone", "closed"}]
          /\ handler \in [Clients -> HandlerPhases] /\ heard \in [Clients -> Hearings]
      BY DEF Init, HandlerPhases, Hearings
    <2>2. /\ loop \in LoopPhases /\ active \subseteq Clients
          /\ pending \subseteq Clients /\ dead \subseteq Clients
          /\ exiting \in BOOLEAN
      BY DEF Init, LoopPhases
    <2>3. restarts = 0
      BY DEF Init
    <2>4. restarts \in 0 .. MaxRestarts
      BY <2>3, RestartAssumption
    <2> QED BY <2>1, <2>2, <2>4 DEF ServerTypeOK
  <1>2. ListedHeardInit /\ InitFirst /\ NoEndedClientKept
    BY DEF Init, ListedHeardInit, InitFirst, NoEndedClientKept
  <1> QED BY <1>1, <1>2 DEF ServerInv

(* One step per action; only what an action of the loop, of a handler or of *)
(* the process writes can disturb the invariant.                            *)
LEMMA ServerSteps == ServerInv /\ [Next]_vars => ServerInv'
  <1> SUFFICES ASSUME ServerInv, [Next]_vars PROVE ServerInv'
    OBVIOUS
  <1> USE DEF processVars, ServerInv, ServerTypeOK, ListedHeardInit, InitFirst, NoEndedClientKept,
              HandlerPhases, LoopPhases, Hearings
  <1>1. ASSUME Start \/ Wake \/ NobodyThere \/ RoundFails PROVE ServerInv'
    BY <1>1 DEF Start, Wake, NobodyThere, RoundFails, clientVars
  <1>2. ASSUME BeginRound PROVE ServerInv'
    BY <1>2 DEF BeginRound, clientVars
  <1>3. ASSUME EndRound PROVE ServerInv'
    BY <1>3 DEF EndRound
  <1>4. ASSUME NEW c \in Clients, SendUpdate(c) PROVE ServerInv'
    <2>1. heard[c] = "init"
      BY <1>4 DEF SendUpdate
    <2>2. heard' = heard
      BY <1>4, <2>1 DEF SendUpdate, Heard
    <2>3. socket' \in [Clients -> {"open", "gone", "closed"}]
      BY <1>4 DEF SendUpdate, AfterSending
    <2>4. pending' \subseteq pending /\ dead' \subseteq dead \union {c}
      BY <1>4 DEF SendUpdate
    <2>5. UNCHANGED <<handler, active, loop, processVars>>
      BY <1>4 DEF SendUpdate
    <2> QED BY <2>1, <2>2, <2>3, <2>4, <2>5
  <1>5. ASSUME NEW c \in Clients, SendRaises(c) PROVE ServerInv'
    BY <1>5 DEF SendRaises, clientVars
  <1>6. ASSUME NEW c \in Clients, Accept(c) \/ Prepare(c) \/ FiguresSent(c) PROVE ServerInv'
    BY <1>6, ZenonT(60) DEF Accept, Prepare, FiguresSent, loopVars
  <1>7. ASSUME NEW c \in Clients, SendInit(c) PROVE ServerInv'
    BY <1>7 DEF SendInit, loopVars
  <1>8. ASSUME NEW c \in Clients, Register(c) PROVE ServerInv'
    BY <1>8, ZenonT(60) DEF Register, loopVars
  <1>9. ASSUME NEW c \in Clients, Notice(c) \/ HandlerFails(c) PROVE ServerInv'
    BY <1>9, ZenonT(60) DEF Notice, HandlerFails, Leave, loopVars
  <1>10. ASSUME NEW c \in Clients, ClientLeaves(c) PROVE ServerInv'
    BY <1>10 DEF ClientLeaves, loopVars
  <1>11. ASSUME Refresh \/ AtExit \/ Clock PROVE ServerInv'
    BY <1>11 DEF Refresh, AtExit, Clock, loopVars, clientVars
  <1>12. ASSUME NEW t \in Threads, ProxyTick(t) \/ ThreadFlushes(t) PROVE ServerInv'
    BY <1>12 DEF ProxyTick, ThreadFlushes, loopVars, clientVars
  <1>13. ASSUME Stop PROVE ServerInv'
    BY <1>13 DEF Stop, clientVars
  <1>14. ASSUME Restart PROVE ServerInv'
    <2>1. restarts' \in 0 .. MaxRestarts
      <3>1. restarts < MaxRestarts /\ restarts' = restarts + 1
        BY <1>14 DEF Restart
      <3>2. restarts \in 0 .. MaxRestarts
        OBVIOUS
      <3> HIDE DEF ServerInv
      <3> QED BY <3>1, <3>2, RestartAssumption
    <2>2. active' = {} /\ pending' = {} /\ dead' = {} /\ loop' = "starting" /\ exiting' = FALSE
      BY <1>14 DEF Restart
    <2>3. /\ handler' = [c \in Clients |-> "done"] /\ socket' = [c \in Clients |-> "closed"]
          /\ heard' = [c \in Clients |-> "nothing"]
      BY <1>14 DEF Restart
    <2>4. ServerTypeOK'
      BY <2>1, <2>2, <2>3
    <2>5. (ListedHeardInit /\ InitFirst /\ NoEndedClientKept)'
      BY <2>2, <2>3
    <2> QED BY <2>4, <2>5
  <1>15. ASSUME UNCHANGED vars PROVE ServerInv'
    BY <1>15 DEF vars, loopVars, clientVars
  <1> HIDE DEF ServerInv
  <1> QED
    BY <1>1, <1>2, <1>3, <1>4, <1>5, <1>6, <1>7, <1>8, <1>9, <1>10, <1>11, <1>12, <1>13, <1>14,
       <1>15
    DEF Next, BroadcastStep, HandlerStep

(* No client, of any number, is sent an update before its first message     *)
(* (InitFirst).                                                             *)
THEOREM InitComesFirst == Spec => []InitFirst
  <1>1. ServerInv => InitFirst
    BY DEF ServerInv
  <1> QED BY <1>1, ServerStarts, ServerSteps, PTL DEF Spec

(* No client whose handler has ended stays among the active connections,    *)
(* however many come and go (NoEndedClientKept).                            *)
THEOREM EndedClientsAreOff == Spec => []NoEndedClientKept
  <1>1. ServerInv => NoEndedClientKept
    BY DEF ServerInv
  <1> QED BY <1>1, ServerStarts, ServerSteps, PTL DEF Spec

(* Every variable of the server and of the store keeps its type.            *)
THEOREM DashboardTypes == Spec => []DashboardTypeOK
  <1>1. Init => StoreInv
    BY StoreStarts DEF Init
  <1>2. StoreInv /\ [Next]_vars => StoreInv'
    BY StoreSteps, ServerStepsStore
  <1>3. StoreInv /\ ServerInv => DashboardTypeOK
    BY DEF StoreInv, ServerInv, ServerTypeOK, DashboardTypeOK
  <1> QED BY <1>1, <1>2, <1>3, ServerStarts, ServerSteps, PTL DEF Spec
=============================================================================
