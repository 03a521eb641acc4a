--------------------------- MODULE ServerFramework ---------------------------
(***************************************************************************)
(* TServerFramework with the accept loop that TSimpleServer,               *)
(* TThreadedServer and TThreadPoolServer share, the objects of the         *)
(* connected clients (TConnectedClient) and their reference counts, and    *)
(* the way stop() interrupts the loop and the clients (TServerSocket).     *)
(*                                                                         *)
(* The TConnectedClient of an accepted connection is deleted by whoever    *)
(* gives up the last reference: the serve() thread, which drops its own    *)
(* when onClientConnected returns, or the thread that ran the client.      *)
(* The deleter, disposeConnectedClient, is therefore a sequence of steps   *)
(* of either thread.  TThreadedServer keeps its threads in two maps keyed  *)
(* by the address of the client object, and addresses are reused.          *)
(***************************************************************************)
EXTENDS Integers, FiniteSets

CONSTANTS
    Conns,              \* connections; a connection also names its thread
    Addresses,          \* addresses a TConnectedClient may have
    ServerKinds,        \* of "simple", "threaded" and "pool"
    Limits,             \* values that setConcurrentClientLimit is called with
    FirstLimit,
    PoolWorkers, PoolQueue,     \* threads and queue length of the pool
    Faults,             \* what goes wrong, of FaultKinds
    Serve,              \* the thread that calls serve()
    None

FaultKinds == {"accept", "setup", "start"}

ASSUME ConstantsAssumption ==
    /\ IsFiniteSet(Conns) /\ Serve \notin Conns /\ None \notin Conns
    /\ Addresses \subseteq Nat /\ None \notin Nat
    /\ Cardinality(Conns) <= Cardinality(Addresses)
    /\ ServerKinds \subseteq {"simple", "threaded", "pool"}
    /\ Limits \subseteq Nat \ {0} /\ FirstLimit \in Nat \ {0}
    /\ PoolWorkers \in Nat \ {0} /\ PoolQueue \in Nat \ {0}
    /\ Faults \subseteq FaultKinds

Actors == Conns \cup {Serve}

VARIABLES
    kind,                       \* the class of the server, of ServerKinds
    clients_, hwm_, limit_,
    mon_,                       \* whether serve() sleeps at the limit
    activeClientMap_, deadClientMap_,   \* address -> thread
    clientMonitor_,             \* the actor that holds its mutex, or None
    finalWait,                  \* whether serve() sleeps on clientMonitor_
    listening_,                 \* the server socket and its pairs are open
    interrupted, childInterrupted,  \* a byte is waiting in the pair
    pc,                         \* where each actor is
    client,                     \* the connection serve() is dealing with
    refs,                       \* who holds a reference to the client object
    address,                    \* address of the client object, or None
    started, joined,            \* threads that were started, and joined
    stopPc, peakLimit           \* progress of stop(); largest limit so far

countVars == <<kind, clients_, hwm_, limit_, mon_, peakLimit>>
mapVars == <<activeClientMap_, deadClientMap_, started, joined>>
socketVars == <<listening_, interrupted, childInterrupted, stopPc>>
objectVars == <<client, refs, address>>
vars == <<countVars, mapVars, clientMonitor_, finalWait, socketVars, pc, objectVars>>

Init ==
    /\ kind \in ServerKinds
    /\ clients_ = 0 /\ hwm_ = 0
    /\ limit_ = IF kind = "simple" THEN 1 ELSE FirstLimit
    /\ peakLimit = limit_
    /\ mon_ = FALSE
    /\ activeClientMap_ = <<>> /\ deadClientMap_ = <<>> /\ started = {} /\ joined = {}
    /\ clientMonitor_ = None /\ finalWait = FALSE
    /\ listening_ = FALSE /\ interrupted = FALSE /\ childInterrupted = FALSE
    /\ stopPc = "idle"
    /\ pc = [x \in Actors |-> IF x = Serve THEN "listen" ELSE "away"]
    /\ client = None
    /\ refs = [c \in Conns |-> {}]
    /\ address = [c \in Conns |-> None]

Goto(x, label) == pc' = [pc EXCEPT ![x] = label]
Without(map, key) == [k \in DOMAIN map \ {key} |-> map[k]]
With(map, key, value) ==        \* std::map::insert keeps an old entry
    [k \in DOMAIN map \cup {key} |-> IF k \in DOMAIN map THEN map[k] ELSE value]

-----------------------------------------------------------------------------
(* The accept loop of TServerFramework::serve                              *)

Listen ==
    /\ pc[Serve] = "listen"
    /\ listening_' = TRUE
    /\ Goto(Serve, "limit")
    /\ UNCHANGED <<countVars, mapVars, clientMonitor_, finalWait, interrupted,
                   childInterrupted, stopPc, objectVars>>

AtLimit == clients_ >= limit_

(* while (clients_ >= limit_) mon_.wait();                                 *)
CheckLimit ==
    /\ pc[Serve] = "limit" /\ ~mon_
    /\ \/ AtLimit /\ mon_' = TRUE /\ UNCHANGED pc
       \/ ~AtLimit /\ Goto(Serve, "accept") /\ UNCHANGED mon_
    /\ UNCHANGED <<kind, clients_, hwm_, limit_, peakLimit, mapVars, clientMonitor_,
                   finalWait, socketVars, objectVars>>

(* The client object is made, at an address that is free.                  *)
Accept(c) ==
    /\ pc[Serve] = "accept" /\ ~interrupted
    /\ pc[c] = "backlog"
    /\ client' = c
    /\ \E a \in Addresses \ {address[d] : d \in Conns} :
          address' = [address EXCEPT ![c] = a]
    /\ refs' = [refs EXCEPT ![c] = {Serve}]
    /\ pc' = [pc EXCEPT ![Serve] = "count", ![c] = "accepted"]
    /\ UNCHANGED <<countVars, mapVars, clientMonitor_, finalWait, socketVars>>

(* A transport factory or the processor factory throws: the connection is  *)
(* closed and, by the kind of the exception, the loop goes on or ends.     *)
SetupFails(c) ==
    /\ pc[Serve] = "accept" /\ ~interrupted /\ "setup" \in Faults
    /\ pc[c] = "backlog"
    /\ \E next \in {"limit", "close"} :
          pc' = [pc EXCEPT ![Serve] = next, ![c] = "gone"]
    /\ UNCHANGED <<countVars, mapVars, clientMonitor_, finalWait, socketVars, objectVars>>

(* accept() itself throws: TIMED_OUT, or an error that ends the loop.      *)
AcceptFails ==
    /\ pc[Serve] = "accept" /\ ~interrupted /\ "accept" \in Faults
    /\ \E next \in {"limit", "close"} : Goto(Serve, next)
    /\ UNCHANGED <<countVars, mapVars, clientMonitor_, finalWait, socketVars, objectVars>>

(* The interrupt is looked at before the listening socket.                 *)
AcceptInterrupted ==
    /\ pc[Serve] = "accept" /\ interrupted
    /\ interrupted' = FALSE
    /\ Goto(Serve, "close")
    /\ UNCHANGED <<countVars, mapVars, clientMonitor_, finalWait, listening_,
                   childInterrupted, stopPc, objectVars>>

(* newlyConnectedClient                                                    *)
CountClient ==
    /\ pc[Serve] = "count"
    /\ clients_' = clients_ + 1
    /\ hwm_' = IF hwm_ > clients_' THEN hwm_ ELSE clients_'
    /\ Goto(Serve, "connected")
    /\ UNCHANGED <<kind, limit_, mon_, peakLimit, mapVars, clientMonitor_, finalWait,
                   socketVars, objectVars>>

-----------------------------------------------------------------------------
(* onClientConnected of the three servers                                  *)

(* TSimpleServer runs the client on the serve() thread.                    *)
RunSimple ==
    /\ pc[Serve] = "connected" /\ kind = "simple"
    /\ Goto(Serve, "running")
    /\ UNCHANGED <<countVars, mapVars, clientMonitor_, finalWait, socketVars, objectVars>>

(* TThreadedServer enters the client into the map and starts a thread ...  *)
StartThread ==
    /\ pc[Serve] = "connected" /\ kind = "threaded"
    /\ clientMonitor_ = None
    /\ activeClientMap_' = With(activeClientMap_, address[client], client)
    /\ started' = started \cup {client}
    /\ refs' = [refs EXCEPT ![client] = @ \cup {client}]
    /\ pc' = [pc EXCEPT ![Serve] = "drop", ![client] = "run"]
    /\ UNCHANGED <<countVars, deadClientMap_, joined, clientMonitor_, finalWait,
                   socketVars, client, address>>

(* ... or takes the entry back when there is no thread to be had.          *)
StartFails ==
    /\ pc[Serve] = "connected" /\ kind = "threaded" /\ "start" \in Faults
    /\ clientMonitor_ = None
    /\ activeClientMap_' =
          Without(With(activeClientMap_, address[client], client), address[client])
    /\ Goto(Serve, "drop")
    /\ UNCHANGED <<countVars, deadClientMap_, started, joined, clientMonitor_, finalWait,
                   socketVars, objectVars>>

(* The pool, as ThreadManager provides it: add() queues the client, or     *)
(* blocks, or throws when the queue is full.                               *)
Queued == {c \in Conns : pc[c] = "queued"}
Busy == {c \in Conns : pc[c] \in {"run", "release", "dispose", "drain", "delete", "uncount"}}

PoolAdd ==
    /\ pc[Serve] = "connected" /\ kind = "pool"
    /\ Cardinality(Queued) < PoolQueue
    /\ refs' = [refs EXCEPT ![client] = @ \cup {client}]
    /\ pc' = [pc EXCEPT ![Serve] = "drop", ![client] = "queued"]
    /\ UNCHANGED <<countVars, mapVars, clientMonitor_, finalWait, socketVars,
                   client, address>>

PoolRefuses ==
    /\ pc[Serve] = "connected" /\ kind = "pool"
    /\ Cardinality(Queued) >= PoolQueue
    /\ Goto(Serve, "drop")
    /\ UNCHANGED <<countVars, mapVars, clientMonitor_, finalWait, socketVars, objectVars>>

(* A task past its expiration is dropped, and with it the client.          *)
PoolExpires(c) ==
    /\ pc[c] = "queued"
    /\ Goto(c, "release")
    /\ UNCHANGED <<countVars, mapVars, clientMonitor_, finalWait, socketVars, objectVars>>

PoolTakes(c) ==
    /\ pc[c] = "queued" /\ Cardinality(Busy) < PoolWorkers
    /\ Goto(c, "run")
    /\ UNCHANGED <<countVars, mapVars, clientMonitor_, finalWait, socketVars, objectVars>>

-----------------------------------------------------------------------------
(* TConnectedClient::run and the end of a client                           *)

(* The connection ends, or the processor gives up on it ...                *)
ClientEnds(c) ==
    /\ \/ pc[c] = "run" /\ Goto(c, "release")
       \/ pc[Serve] = "running" /\ client = c /\ Goto(Serve, "drop")
    /\ UNCHANGED <<countVars, mapVars, clientMonitor_, finalWait, socketVars, objectVars>>

(* ... or a read finds the byte of interruptChildren, which stays there,   *)
(* or the end of file that closing the pair's other end leaves behind.     *)
ClientInterrupted(c) == childInterrupted /\ ClientEnds(c)

(* Actor x, which may be serve(), gives up its reference to a client; the  *)
(* last one to do so goes on with disposeConnectedClient.                  *)
Subject(x) == IF x = Serve THEN client ELSE x
Released(x) == IF x = Serve THEN "limit" ELSE "gone"

(* Mutated Last: the thread that ran the client deletes it in any case.    *)
LastOrRunner(x) == x # Serve \/ refs[Subject(x)] = {x}

Last(x) == refs[Subject(x)] = {x}

DropReference(x) ==
    /\ pc[x] \in {"drop", "release"}
    /\ refs' = [refs EXCEPT ![Subject(x)] = @ \ {x}]
    /\ \/ Last(x) /\ kind = "threaded" /\ Goto(x, "dispose")
       \/ Last(x) /\ kind # "threaded" /\ Goto(x, "delete")
       \/ ~Last(x) /\ Goto(x, Released(x))
    /\ UNCHANGED <<countVars, mapVars, clientMonitor_, finalWait, socketVars,
                   client, address>>

(* TThreadedServer::onClientDisconnected takes clientMonitor_ ...          *)
LockClients(x) ==
    /\ pc[x] = "dispose" /\ clientMonitor_ = None
    /\ clientMonitor_' = x
    /\ Goto(x, "drain")
    /\ UNCHANGED <<countVars, mapVars, finalWait, socketVars, objectVars>>

(* ... joins the dead threads one after the other while it holds it ...    *)
First(map) == CHOOSE k \in DOMAIN map : \A j \in DOMAIN map : k <= j

JoinDead(x) ==
    /\ pc[x] \in {"drain", "finalDrain"} /\ DOMAIN deadClientMap_ # {}
    /\ pc[deadClientMap_[First(deadClientMap_)]] = "gone"
    /\ joined' = joined \cup {deadClientMap_[First(deadClientMap_)]}
    /\ deadClientMap_' = Without(deadClientMap_, First(deadClientMap_))
    /\ UNCHANGED <<countVars, activeClientMap_, started, clientMonitor_, finalWait,
                   socketVars, pc, objectVars>>

(* Mutated Drained: the dead threads are left to serve() to be joined.     *)
DrainedNot == TRUE

Drained == DOMAIN deadClientMap_ = {}

(* Mutated LastNotifies: tested before the client leaves the map.          *)
LastNotifiesEarly(active) == DOMAIN activeClientMap_ = {}

LastNotifies(active) == DOMAIN active = {}

(* ... moves the client's own thread to the dead ones and notifies when no *)
(* client is left.                                                         *)
MoveToDead(x) ==
    LET a == address[Subject(x)]
        known == a \in DOMAIN activeClientMap_
    IN  /\ pc[x] = "drain" /\ Drained
        /\ deadClientMap_' = IF known THEN With(deadClientMap_, a, activeClientMap_[a])
                             ELSE deadClientMap_
        /\ activeClientMap_' = Without(activeClientMap_, a)
        /\ finalWait' = (finalWait /\ ~LastNotifies(activeClientMap_'))
        /\ clientMonitor_' = None
        /\ Goto(x, "delete")
        /\ UNCHANGED <<countVars, started, joined, socketVars, objectVars>>

DeleteClient(x) ==
    /\ pc[x] = "delete"
    /\ address' = [address EXCEPT ![Subject(x)] = None]
    /\ Goto(x, "uncount")
    /\ UNCHANGED <<countVars, mapVars, clientMonitor_, finalWait, socketVars,
                   client, refs>>

(* Mutated RoomNotifies: compares before the count is brought down.        *)
RoomNotifiesBefore(limit, clients) == limit - (clients + 1) > 0

(* disposeConnectedClient and setConcurrentClientLimit wake serve().       *)
RoomNotifies(limit, clients) == limit - clients > 0

UncountClient(x) ==
    /\ pc[x] = "uncount"
    /\ clients_' = clients_ - 1
    /\ mon_' = (mon_ /\ ~RoomNotifies(limit_, clients_ - 1))
    /\ Goto(x, Released(x))
    /\ UNCHANGED <<kind, hwm_, limit_, peakLimit, mapVars, clientMonitor_,
                   finalWait, socketVars, objectVars>>

-----------------------------------------------------------------------------
(* The end of serve(), stop() and the other callers                        *)

(* Mutated AfterClose: serve() returns without waiting for its clients.    *)
AfterCloseReturns == "returned"

(* What the serve() of each server does after TServerFramework::serve.     *)
AfterClose ==
    CASE kind = "threaded" -> "final"
      [] kind = "pool" -> "poolStop"
      [] kind = "simple" -> "returned"

(* Closing the server transport closes both pairs; a child polls the other *)
(* end of one of them and sees it readable.                                *)
CloseServer ==
    /\ pc[Serve] = "close"
    /\ listening_' = FALSE
    /\ childInterrupted' = TRUE
    /\ Goto(Serve, AfterClose)
    /\ UNCHANGED <<countVars, mapVars, clientMonitor_, finalWait, interrupted,
                   stopPc, objectVars>>

(* TThreadedServer::serve: while (!activeClientMap_.empty()) wait          *)
AwaitClients ==
    /\ pc[Serve] = "final" /\ clientMonitor_ = None /\ ~finalWait
    /\ \/ /\ DOMAIN activeClientMap_ # {}
          /\ finalWait' = TRUE
          /\ UNCHANGED <<clientMonitor_, pc>>
       \/ /\ DOMAIN activeClientMap_ = {}
          /\ clientMonitor_' = Serve
          /\ Goto(Serve, "finalDrain")
          /\ UNCHANGED finalWait
    /\ UNCHANGED <<countVars, mapVars, socketVars, objectVars>>

FinishThreaded ==
    /\ pc[Serve] = "finalDrain" /\ DOMAIN deadClientMap_ = {}
    /\ clientMonitor_' = None
    /\ Goto(Serve, "returned")
    /\ UNCHANGED <<countVars, mapVars, finalWait, socketVars, objectVars>>

(* TThreadPoolServer::serve: threadManager_->stop() drains the pool.       *)
FinishPool ==
    /\ pc[Serve] = "poolStop" /\ Queued \cup Busy = {}
    /\ Goto(Serve, "returned")
    /\ UNCHANGED <<countVars, mapVars, clientMonitor_, finalWait, socketVars, objectVars>>

(* stop(): first interruptChildren, then interrupt.  Neither reaches a     *)
(* server socket that is closed.                                           *)
StopChildren ==
    /\ stopPc = "idle" /\ pc[Serve] # "listen"
    /\ childInterrupted' = (childInterrupted \/ listening_)
    /\ stopPc' = "interrupt"
    /\ UNCHANGED <<countVars, mapVars, clientMonitor_, finalWait, listening_,
                   interrupted, pc, objectVars>>

StopAccept ==
    /\ stopPc = "interrupt"
    /\ interrupted' = (interrupted \/ listening_)
    /\ stopPc' = "done"
    /\ UNCHANGED <<countVars, mapVars, clientMonitor_, finalWait, listening_,
                   childInterrupted, pc, objectVars>>

SetConcurrentClientLimit(newLimit) ==
    /\ kind # "simple"
    /\ limit_' = newLimit
    /\ peakLimit' = IF newLimit > peakLimit THEN newLimit ELSE peakLimit
    /\ mon_' = (mon_ /\ ~RoomNotifies(newLimit, clients_))
    /\ UNCHANGED <<kind, clients_, hwm_, mapVars, clientMonitor_, finalWait,
                   socketVars, pc, objectVars>>

Connect(c) ==
    /\ pc[c] = "away" /\ listening_
    /\ Goto(c, "backlog")
    /\ UNCHANGED <<countVars, mapVars, clientMonitor_, finalWait, socketVars, objectVars>>

(* mon_.wait() and clientMonitor_.wait() may return without a notify.      *)
Spurious ==
    /\ mon_ \/ finalWait
    /\ mon_' = FALSE /\ finalWait' = FALSE
    /\ UNCHANGED <<kind, clients_, hwm_, limit_, peakLimit, mapVars,
                   clientMonitor_, socketVars, pc, objectVars>>

ServeStep ==
    \/ Listen \/ CheckLimit \/ AcceptInterrupted \/ CountClient
    \/ \E c \in Conns : Accept(c)
    \/ RunSimple \/ StartThread \/ PoolAdd
    \/ CloseServer \/ AwaitClients \/ FinishThreaded \/ FinishPool

ActorStep(x) ==
    \/ DropReference(x) \/ LockClients(x) \/ JoinDead(x) \/ MoveToDead(x)
    \/ DeleteClient(x) \/ UncountClient(x)

ClientStep(c) == PoolTakes(c) \/ ClientInterrupted(c)

Environment ==
    \/ StopChildren \/ Spurious \/ AcceptFails \/ StartFails \/ PoolRefuses
    \/ \E c \in Conns : Connect(c) \/ ClientEnds(c) \/ SetupFails(c) \/ PoolExpires(c)
    \/ \E n \in Limits : SetConcurrentClientLimit(n)

Next ==
    \/ ServeStep \/ StopAccept \/ Environment
    \/ \E x \in Actors : ActorStep(x)
    \/ \E c \in Conns : ClientStep(c)

Spec == Init /\ [][Next]_vars

(* All threads are scheduled and get the mutexes they wait for; clients    *)
(* may stay connected as long as they are not interrupted.                 *)
Fairness ==
    /\ SF_vars(ServeStep) /\ WF_vars(StopAccept)
    /\ \A x \in Actors : SF_vars(ActorStep(x))
    /\ \A c \in Conns : SF_vars(ClientStep(c))

FairSpec == Spec /\ Fairness

-----------------------------------------------------------------------------
(* Properties                                                              *)

Disposing == {"dispose", "drain", "delete", "uncount"}

(* clients_ is the number of connections that were counted and whose       *)
(* TConnectedClient has not been disposed of to the end, whichever thread  *)
(* does it.                                                                *)
Counted(c) ==
    \/ refs[c] # {} /\ ~(client = c /\ pc[Serve] = "count")
    \/ pc[c] \in Disposing
    \/ client = c /\ pc[Serve] \in Disposing
ClientCountExact == clients_ = Cardinality({c \in Conns : Counted(c)})

(* The server never has more clients at a time than the largest limit that *)
(* was ever in force, although the limit is checked before accept() and    *)
(* may be lowered in between; and serve() sleeps at the limit only while   *)
(* it is reached: neither disposeConnectedClient nor                       *)
(* setConcurrentClientLimit forgets to wake it.                            *)
LimitRespected == hwm_ <= peakLimit /\ (mon_ => clients_ >= limit_)

(* A thread that was started and not joined is in one of the two maps,     *)
(* although they are keyed by addresses that are used again before the     *)
(* dead threads are joined.                                                *)
Tracked == {activeClientMap_[a] : a \in DOMAIN activeClientMap_}
              \cup {deadClientMap_[a] : a \in DOMAIN deadClientMap_}
NoThreadForgotten == started \subseteq Tracked \cup joined

(* When serve() has returned, the server transport is closed, no client is *)
(* connected, every client object is deleted and every thread has ended    *)
(* and been joined, so that the server may be destroyed.                   *)
ServePostcondition ==
    pc[Serve] = "returned" =>
        /\ ~listening_ /\ clients_ = 0
        /\ \A c \in Conns : address[c] = None /\ pc[c] \in {"away", "backlog", "accepted", "gone"}
        /\ Tracked = {} /\ started = joined

(* stop() makes serve() return, even while it waits at the client limit,   *)
(* for a place in the pool or for its clients to leave.                    *)
StopEndsServe == stopPc # "idle" ~> pc[Serve] = "returned"
=============================================================================
