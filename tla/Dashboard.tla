------------------------------ MODULE Dashboard ------------------------------
(***************************************************************************)
(* The dashboard's server (src/web_server/api_layer.py): one event loop    *)
(* that runs a handler per websocket and the broadcast loop, over the      *)
(* index store that the threads which feed the buffer update too.          *)
(*                                                                         *)
(* A coroutine runs until it awaits something that is not there yet: a     *)
(* message to be taken by the transport, a message from the client, the    *)
(* end of a sleep.  The sections between two awaits are the actions.  The  *)
(* bodies under ConnectionManager's lock await nothing, so nobody ever     *)
(* waits for that lock.  A flush of the index store is a plain call: the   *)
(* whole loop stands still until it is over.                               *)
(***************************************************************************)
EXTENDS IndexStore, FiniteSets

CONSTANTS
    Clients,        \* bound: the websockets opened before the process ends
    MaxRestarts     \* bound: how often the process ends and is started again

ASSUME ClientAssumption == IsFiniteSet(Clients)
ASSUME RestartAssumption == MaxRestarts \in Nat

VARIABLES
    socket,     \* a client's connection: open; gone when the client left and
                \* no call noticed; closed once a call has raised
    handler,    \* where websocket_endpoint is for each client
    active,     \* active_connections
    loop,       \* where broadcast_loop is
    pending,    \* the clients broadcast_json has still to send to
    dead,       \* dead_clients
    heard,      \* history: what a client was sent first
    exiting,    \* the main thread runs the functions registered with atexit
    restarts    \* history: how often the process was started again

processVars == <<exiting, restarts>>
loopVars == <<loop, pending, dead>>
clientVars == <<socket, handler, active, heard>>
vars == <<storeVars, loopVars, clientVars, processVars>>

-----------------------------------------------------------------------------
EventLoop == "event loop"
Main == "main"

(* Besides these two there may be any others: the stream's, the flusher's.  *)
ASSUME ThreadAssumption == EventLoop \in Threads /\ Main \in Threads

(* Where the handler waits: for the transport to take the first message or  *)
(* the one with the database's figures, or for the client.  It does not     *)
(* wait while it puts the first message together.                           *)
HandlerPhases == {"new", "accepted", "preparing", "sent init", "sent figures",
                  "receiving", "done"}
LoopPhases == {"starting", "asleep", "round", "sending", "stopped"}
Hearings == {"nothing", "init", "update first"}

DashboardTypeOK ==
    /\ StoreTypeOK
    /\ socket \in [Clients -> {"open", "gone", "closed"}]
    /\ handler \in [Clients -> HandlerPhases]
    /\ loop \in LoopPhases
    /\ active \subseteq Clients /\ pending \subseteq Clients
    /\ dead \subseteq Clients
    /\ heard \in [Clients -> Hearings]
    /\ exiting \in BOOLEAN /\ restarts \in 0 .. MaxRestarts

Init ==
    /\ StoreInit
    /\ socket = [c \in Clients |-> "open"]
    /\ handler = [c \in Clients |-> "new"]
    /\ active = {}
    /\ loop = "starting"
    /\ pending = {} /\ dead = {}
    /\ heard = [c \in Clients |-> "nothing"]
    /\ exiting = FALSE /\ restarts = 0

(* The loop is at an await, for any coroutine to go on.                     *)
LoopFree ==
    /\ flusher[EventLoop] = "idle"
    /\ loop \notin {"starting", "round"}
    /\ \A c \in Clients : handler[c] # "preparing"

(* What the transport makes of a message: taken, WebSocketDisconnect, or    *)
(* RuntimeError as the connection was closed by an earlier call.  A message *)
(* to a client that just left may be taken like any other.                  *)
Outcomes(c) ==
    CASE socket[c] = "open"   -> {"taken"}
      [] socket[c] = "gone"   -> {"taken", "disconnect"}
      [] socket[c] = "closed" -> {"error"}

AfterSending(c, outcome) ==
    socket' = [socket EXCEPT ![c] = IF outcome = "disconnect" THEN "closed" ELSE @]

(* A client is sent a message of the broadcast.                             *)
Heard(c) ==
    heard' = [heard EXCEPT ![c] = IF @ = "nothing" THEN "update first" ELSE @]

-----------------------------------------------------------------------------
(* broadcast_loop *)

(* lifespan: the store is loaded again and the task is created.             *)
Start ==
    /\ loop = "starting"
    /\ flusher[EventLoop] = "idle"
    /\ Load
    /\ loop' = "asleep"
    /\ UNCHANGED <<clientVars, pending, dead, processVars>>

(* The sleep is over: flush_if_due, before anything else.                   *)
Wake ==
    /\ LoopFree /\ loop = "asleep"
    /\ FlushIfDue(EventLoop)
    /\ loop' = "round"
    /\ UNCHANGED <<clientVars, pending, dead, processVars>>

NobodyThere ==
    /\ loop = "round" /\ flusher[EventLoop] = "idle" /\ active = {}
    /\ loop' = "asleep"
    /\ UNCHANGED <<storeVars, clientVars, pending, dead, processVars>>

(* Summaries and recommendations are put together, and broadcast_json       *)
(* copies the set of clients.                                               *)
BeginRound ==
    /\ loop = "round" /\ flusher[EventLoop] = "idle" /\ active # {}
    /\ loop' = "sending"
    /\ pending' = active
    /\ UNCHANGED <<storeVars, clientVars, dead, processVars>>

(* Anything on the way raises: the broad except, and the loop sleeps.       *)
RoundFails ==
    /\ loop = "round" /\ flusher[EventLoop] = "idle" /\ active # {}
    /\ loop' = "asleep"
    /\ UNCHANGED <<storeVars, clientVars, pending, dead, processVars>>

(* send_json to one client, in the order of a set, is taken or disconnects. *)
SendUpdate(c) ==
    /\ LoopFree /\ loop = "sending" /\ c \in pending
    /\ pending' = pending \ {c}
    /\ \E outcome \in Outcomes(c) \ {"error"} :
          /\ AfterSending(c, outcome)
          /\ IF outcome = "taken"
             THEN Heard(c) /\ UNCHANGED dead
             ELSE dead' = dead \union {c} /\ UNCHANGED heard
    /\ UNCHANGED <<storeVars, handler, active, loop, processVars>>

(* A RuntimeError is not among the exceptions of broadcast_json: the rest   *)
(* of the round is off, dead_clients are forgotten, broadcast_loop sleeps.  *)
SendRaises(c) ==
    /\ LoopFree /\ loop = "sending" /\ c \in pending
    /\ "error" \in Outcomes(c)
    /\ loop' = "asleep"
    /\ pending' = {} /\ dead' = {}
    /\ UNCHANGED <<storeVars, clientVars, processVars>>

(* The dead clients are taken out of the set.                               *)
EndRound ==
    /\ LoopFree /\ loop = "sending" /\ pending = {}
    /\ active' = active \ dead
    /\ loop' = "asleep"
    /\ dead' = {}
    /\ UNCHANGED <<storeVars, socket, handler, heard, pending, processVars>>

BroadcastStep ==
    \/ Start \/ Wake \/ NobodyThere \/ BeginRound \/ RoundFails \/ EndRound
    \/ \E c \in Clients : SendUpdate(c) \/ SendRaises(c)

-----------------------------------------------------------------------------
(* websocket_endpoint *)

(* Mutant of Accept: connect with its default, register=True.               *)
AcceptAndRegister(c) ==
    /\ LoopFree /\ loop # "stopped" /\ handler[c] = "new"
    /\ handler' = [handler EXCEPT ![c] = "accepted"]
    /\ active' = active \union {c}
    /\ UNCHANGED <<storeVars, loopVars, socket, heard, processVars>>

(* manager.connect(websocket, register=False)                               *)
Accept(c) ==
    /\ LoopFree /\ loop # "stopped" /\ handler[c] = "new"
    /\ handler' = [handler EXCEPT ![c] = "accepted"]
    /\ UNCHANGED <<storeVars, loopVars, socket, active, heard, processVars>>

(* The handler goes on and puts the first message together.                 *)
Prepare(c) ==
    /\ LoopFree /\ handler[c] = "accepted"
    /\ handler' = [handler EXCEPT ![c] = "preparing"]
    /\ UNCHANGED <<storeVars, loopVars, socket, active, heard, processVars>>

SendInit(c) ==
    /\ flusher[EventLoop] = "idle" /\ handler[c] = "preparing"
    /\ "taken" \in Outcomes(c)
    /\ handler' = [handler EXCEPT ![c] = "sent init"]
    /\ heard' = [heard EXCEPT ![c] = IF @ = "nothing" THEN "init" ELSE @]
    /\ UNCHANGED <<storeVars, loopVars, socket, active, processVars>>

(* The first message is out: the client is registered, and when there are   *)
(* symbols and a database it is sent their figures.                         *)
Register(c) ==
    /\ LoopFree /\ handler[c] = "sent init"
    /\ active' = active \union {c}
    /\ \/ "taken" \in Outcomes(c) /\ handler' = [handler EXCEPT ![c] = "sent figures"]
       \/ handler' = [handler EXCEPT ![c] = "receiving"]
    /\ UNCHANGED <<storeVars, loopVars, socket, heard, processVars>>

FiguresSent(c) ==
    /\ LoopFree /\ handler[c] = "sent figures"
    /\ handler' = [handler EXCEPT ![c] = "receiving"]
    /\ UNCHANGED <<storeVars, loopVars, socket, active, heard, processVars>>

(* Mutant of Leave: WebSocketDisconnect needs no clearing up.               *)
LeaveListed(c) ==
    /\ handler' = [handler EXCEPT ![c] = "done"]
    /\ socket' = [socket EXCEPT ![c] = "closed"]
    /\ UNCHANGED active

(* Either except clause: manager.disconnect, and the connection is over.    *)
Leave(c) ==
    /\ handler' = [handler EXCEPT ![c] = "done"]
    /\ socket' = [socket EXCEPT ![c] = "closed"]
    /\ active' = active \ {c}

(* The await of the handler raises: the first message finds the client      *)
(* gone, or the transport says so while it waits for a message to be taken  *)
(* or for one to come.                                                      *)
Notice(c) ==
    /\ socket[c] # "open"
    /\ \/ LoopFree /\ handler[c] \in {"sent init", "sent figures", "receiving"}
       \/ flusher[EventLoop] = "idle" /\ handler[c] = "preparing"
    /\ Leave(c)
    /\ UNCHANGED <<storeVars, loopVars, heard, processVars>>

(* Building a message raises.                                               *)
HandlerFails(c) ==
    /\ \/ LoopFree /\ handler[c] \in {"accepted", "sent init"}
       \/ flusher[EventLoop] = "idle" /\ handler[c] = "preparing"
    /\ Leave(c)
    /\ UNCHANGED <<storeVars, loopVars, heard, processVars>>

HandlerStep(c) ==
    \/ Prepare(c) \/ SendInit(c) \/ Register(c) \/ FiguresSent(c)
    \/ Notice(c) \/ HandlerFails(c)

(* The client leaves.  Its departure is told apart from a later one by the  *)
(* next call of a coroutine, so it may wait until the loop is free.         *)
ClientLeaves(c) ==
    /\ LoopFree
    /\ socket[c] = "open" /\ handler[c] \notin {"new", "done"}
    /\ socket' = [socket EXCEPT ![c] = "gone"]
    /\ UNCHANGED <<storeVars, loopVars, handler, active, heard, processVars>>

-----------------------------------------------------------------------------
(* resolve_market_index: an index whose proxy has ticked is updated, one    *)
(* after the other, on the way to a broadcast, to a first message and to    *)
(* the answer of a route.                                                   *)
Refresh ==
    /\ \/ loop = "round" /\ active # {}
       \/ \E c \in Clients : handler[c] = "preparing"
       \/ LoopFree /\ loop # "stopped"
    /\ Update(EventLoop)
    /\ UNCHANGED <<loopVars, clientVars, processVars>>

-----------------------------------------------------------------------------
(* The other threads and the process *)

(* A proxy ticks on the stream's thread, in one of the flusher's polls or   *)
(* while the main thread polls once before either is started:               *)
(* update_index_from_tick.                                                  *)
ProxyTick(t) ==
    /\ t # EventLoop
    /\ t = Main => ~exiting
    /\ Update(t)
    /\ UNCHANGED <<loopVars, clientVars, processVars>>

(* The main thread is through and runs flush_cache, registered with atexit, *)
(* while the daemon threads go on.                                          *)
AtExit ==
    /\ ~exiting
    /\ Flush(Main)
    /\ exiting' = TRUE
    /\ UNCHANGED <<loopVars, clientVars, restarts>>

ThreadFlushes(t) ==
    /\ FlushStep(t)
    /\ UNCHANGED <<loopVars, clientVars, processVars>>

(* lifespan, behind the yield: the server has seen its connections end, the *)
(* task is cancelled at its await, and what is not flushed is.              *)
Stop ==
    /\ LoopFree /\ loop # "stopped"
    /\ \A c \in Clients : handler[c] \in {"new", "done"}
    /\ Flush(EventLoop)
    /\ loop' = "stopped"
    /\ pending' = {} /\ dead' = {}
    /\ UNCHANGED <<clientVars, processVars>>

(* The process ends, with the daemon threads wherever they are.             *)
Restart ==
    /\ restarts < MaxRestarts
    /\ restarts' = restarts + 1
    /\ exiting' = FALSE
    /\ StoreRestart
    /\ loop' = "starting"
    /\ pending' = {} /\ dead' = {}
    /\ active' = {}
    /\ handler' = [c \in Clients |-> "done"]
    /\ socket' = [c \in Clients |-> "closed"]
    /\ heard' = [c \in Clients |-> "nothing"]

Clock == Elapse /\ UNCHANGED <<loopVars, clientVars, processVars>>

Next ==
    \/ BroadcastStep
    \/ \E c \in Clients : Accept(c) \/ HandlerStep(c) \/ ClientLeaves(c)
    \/ Refresh
    \/ \E t \in Threads : ProxyTick(t) \/ ThreadFlushes(t)
    \/ AtExit \/ Stop \/ Restart \/ Clock

Spec == Init /\ [][Next]_vars

-----------------------------------------------------------------------------
(* The first message a client gets is "init" with the whole state, never an *)
(* update, although the broadcast runs between any two steps of its handler.*)
InitFirst == \A c \in Clients : heard[c] # "update first"

(* A client whose handler has ended, by whatever way and also in the middle *)
(* of a round that sends to it, is not among the active connections: nobody *)
(* would take it out any more.                                              *)
NoEndedClientKept == \A c \in active : handler[c] # "done"
=============================================================================
